------------------------ MODULE BufferHistory_proofs ------------------------
(***************************************************************************)
(* Proofs about BufferHistory, for every set of buffers and edits and      *)
(* every bound.                                                            *)
(***************************************************************************)
EXTENDS BufferHistory, SequenceTheorems, FiniteSetTheorems, TLAPS

\* A text with the edits of any tree, in the formatter's layout, is a text.
LEMMA RenderType == \A t \in Tree : Render(t) \in Text
BY DEF Render, Text

\* Toggling an edit of a tree gives a tree.
LEMMA ToggleType == \A t \in Tree, e \in Edit : Toggle(t, e) \in Tree
BY DEF Toggle, Tree

\* The tree a handler works on is a tree, cached or parsed.
LEMMA LoadedType ==
  ASSUME TypeOK, NEW b \in Buffer
  PROVE  Loaded(b) \in Tree
BY DEF TypeOK, Loaded, Text

\* Storing a tree keeps the cache a map from buffers to trees.
LEMMA CachedType ==
  ASSUME TypeOK, NEW b \in Buffer, NEW t \in Tree
  PROVE  /\ DOMAIN Cached(b, t) \subseteq Buffer
         /\ Cached(b, t) \in [DOMAIN Cached(b, t) -> Tree]
BY DEF TypeOK, Cached

\* A commit handler keeps the repository well typed, whether or not the commit
\* fails.
LEMMA CommitType ==
  ASSUME TypeOK, NEW b \in Buffer, NEW text \in Text,
         NEW from \in 0..Len(commits), CommitBuffer(b, text, from)
  PROVE  /\ commits' \in Seq(Commit)
         /\ tip' \in [Buffer -> 0..Len(commits')]
         /\ lost \subseteq 1..Len(commits')
<1>1. CASE CommitOn(b, text, from)
  <2>1. NewCommit(b, text, from) \in Commit
    BY DEF NewCommit, Commit
  <2>2. /\ commits' \in Seq(Commit)
        /\ Len(commits') = Len(commits) + 1 /\ Len(commits) \in Nat
    BY <1>1, <2>1 DEF CommitOn, TypeOK
  <2>3. tip' \in [Buffer -> 0..Len(commits')]
    BY <1>1, <2>2 DEF CommitOn, TypeOK
  <2>4. lost \subseteq 1..Len(commits')
    BY <2>2 DEF TypeOK
  <2>5. QED BY <2>2, <2>3, <2>4
<1>2. CASE CommitSwallowed(b, from)
  BY <1>2 DEF CommitSwallowed, TypeOK
<1>3. QED BY <1>1, <1>2 DEF CommitBuffer

\* Every commit that undo or redo restores is one of the repository.
LEMMA UndoTargetType ==
  ASSUME NEW b \in Buffer, NEW n \in 1..MaxSteps, UndoAllowed(b, n)
  PROVE  HasSnapshot(UndoTarget(b, n), b)
BY DEF UndoAllowed, UndoTarget

\* A snapshot holds a text.
LEMMA SnapshotType ==
  ASSUME TypeOK, NEW b, NEW c, HasSnapshot(c, b)
  PROVE  c \in 1..Len(commits) /\ commits[c] \in Commit /\ commits[c].text \in Text
<1>1. c \in 1..Len(commits) /\ commits[c] \in Commit
  BY DEF TypeOK, HasSnapshot
<1>2. commits[c].text \in Text
  BY <1>1 DEF Commit
<1>3. QED BY <1>1, <1>2

LEMMA PoppedType ==
  ASSUME TypeOK, BranchIsolation, NEW b \in Buffer,
         NEW i \in 1..Len(redoStack[b])
  PROVE  HasSnapshot(Popped(b, i), b)
<1>1. redoStack[b] \in Seq(Nat)
  BY DEF TypeOK
<1>2. Len(redoStack[b]) + 1 - i \in 1..Len(redoStack[b])
  BY <1>1
<1>3. QED BY <1>2 DEF BranchIsolation, Popped

\* Restoring a snapshot keeps the files and the branches well typed.
LEMMA RestoreType ==
  ASSUME TypeOK, NEW b \in Buffer, NEW c, HasSnapshot(c, b), Restore(b, c)
  PROVE  /\ live' \in [Buffer -> Text]
         /\ tip' \in [Buffer -> 0..Len(commits)]
BY SnapshotType DEF TypeOK, Restore

\* What a clear, a push and a pop leave of the redo stacks.
LEMMA ClearRedoType ==
  ASSUME TypeOK, NEW b \in Buffer
  PROVE  ClearRedo(b) \in [Buffer -> Seq(Nat)]
BY DEF TypeOK, ClearRedo

LEMMA PushRedoType ==
  ASSUME TypeOK, NEW b \in Buffer
  PROVE  PushRedo(b) \in Seq(Nat)
BY DEF TypeOK, PushRedo

LEMMA PopRedoType ==
  ASSUME TypeOK, NEW b \in Buffer, NEW n \in Nat, n <= Len(redoStack[b])
  PROVE  /\ SubSeq(redoStack[b], 1, Len(redoStack[b]) - n) \in Seq(Nat)
         /\ Len(SubSeq(redoStack[b], 1, Len(redoStack[b]) - n))
              = Len(redoStack[b]) - n
         /\ \A i \in 1..Len(redoStack[b]) - n :
              SubSeq(redoStack[b], 1, Len(redoStack[b]) - n)[i] = redoStack[b][i]
<1>1. redoStack[b] \in Seq(Nat) /\ Len(redoStack[b]) - n \in 0..Len(redoStack[b])
  BY DEF TypeOK
<1>2. \A s \in Seq(Nat), m \in Nat : m <= Len(s) =>
        /\ SubSeq(s, 1, m) \in Seq(Nat)
        /\ Len(SubSeq(s, 1, m)) = m
        /\ \A i \in 1..m : SubSeq(s, 1, m)[i] = s[i]
  BY SubSeqProperties
<1>3. QED BY <1>1, <1>2

-----------------------------------------------------------------------------
(* Type correctness.                                                       *)

LEMMA InitType == Init => TypeOK
<1> SUFFICES ASSUME Init PROVE TypeOK
  OBVIOUS
<1>1. Render({}) \in Text
  BY RenderType DEF Tree
<1>2. /\ live \in [Buffer -> Text]
      /\ commits \in Seq(Commit)
      /\ redoStack \in [Buffer -> Seq(Nat)]
  BY <1>1 DEF Init
<1>3. tree \in [DOMAIN tree -> Tree] /\ DOMAIN tree \subseteq Buffer
  BY DEF Init
<1>4. QED BY <1>2, <1>3 DEF Init, TypeOK, Root

LEMMA EnterType ==
  ASSUME TypeOK, NEW b \in Buffer, NEW text \in Text, EnterSession(b, text)
  PROVE  TypeOK'
<1>1. Root \in 0..Len(commits)
  BY DEF TypeOK, Root
<1>2. /\ commits' \in Seq(Commit)
      /\ tip' \in [Buffer -> 0..Len(commits')]
      /\ lost \subseteq 1..Len(commits')
  BY <1>1, CommitType DEF EnterSession
<1>3. QED BY <1>2 DEF EnterSession, TypeOK

\* Commands that commit the text of an open buffer.
LEMMA EditsType ==
  ASSUME TypeOK, Edits
  PROVE  TypeOK'
<1> PICK b \in Buffer : \/ LoadTree(b) \/ ReloadBuffer(b) \/ WriteAllSnapshot(b)
                        \/ \E e \in Edit : MutateBatch(b, e) \/ MutateRefused(b, e)
  BY DEF Edits
<1> tip[b] \in 0..Len(commits) /\ live[b] \in Text
  BY DEF TypeOK
<1>1. CASE LoadTree(b)
  BY <1>1, LoadedType, CachedType DEF LoadTree, TypeOK
<1>2. CASE ReloadBuffer(b)
  <2>1. PICK text \in Text : /\ live' = [live EXCEPT ![b] = text]
                             /\ CommitBuffer(b, text, tip[b])
    BY <1>2 DEF ReloadBuffer
  <2>2. /\ commits' \in Seq(Commit)
        /\ tip' \in [Buffer -> 0..Len(commits')]
        /\ lost \subseteq 1..Len(commits')
    BY <2>1, CommitType
  <2>3. live' \in [Buffer -> Text] /\ redoStack' \in [Buffer -> Seq(Nat)]
    BY <1>2, <2>1, ClearRedoType DEF ReloadBuffer, TypeOK
  <2>4. QED BY <1>2, <2>2, <2>3 DEF ReloadBuffer, TypeOK
<1>3. CASE WriteAllSnapshot(b)
  <2>1. /\ commits' \in Seq(Commit)
        /\ tip' \in [Buffer -> 0..Len(commits')]
        /\ lost \subseteq 1..Len(commits')
    BY <1>3, CommitType DEF WriteAllSnapshot
  <2>2. QED BY <1>3, <2>1 DEF WriteAllSnapshot, TypeOK
<1>4. ASSUME NEW e \in Edit, MutateBatch(b, e) PROVE TypeOK'
  <2> DEFINE t == Toggle(Loaded(b), e)
  <2>1. t \in Tree /\ Render(t) \in Text
    BY LoadedType, ToggleType, RenderType
  <2>2. /\ commits' \in Seq(Commit)
        /\ tip' \in [Buffer -> 0..Len(commits')]
        /\ lost \subseteq 1..Len(commits')
    BY <1>4, <2>1, CommitType DEF MutateBatch
  <2>3. DOMAIN tree' \subseteq Buffer /\ tree' \in [DOMAIN tree' -> Tree]
    BY <1>4, <2>1, CachedType DEF MutateBatch
  <2>4. live' \in [Buffer -> Text] /\ redoStack' \in [Buffer -> Seq(Nat)]
    BY <1>4, <2>1, ClearRedoType DEF MutateBatch, TypeOK
  <2>5. QED BY <1>4, <2>2, <2>3, <2>4 DEF MutateBatch, TypeOK
<1>5. ASSUME NEW e \in Edit, MutateRefused(b, e) PROVE TypeOK'
  <2>1. Toggle(Loaded(b), e) \in Tree
    BY LoadedType, ToggleType
  <2>2. QED BY <1>5, <2>1, CachedType DEF MutateRefused, TypeOK
<1>6. QED BY <1>1, <1>2, <1>3, <1>4, <1>5

\* Commands that move the branch along its history.
LEMMA StepsType ==
  ASSUME TypeOK, BranchIsolation, Steps
  PROVE  TypeOK'
<1> USE BoundsAssumption
<1> PICK b \in Buffer, n \in 1..MaxSteps :
      \/ Undo(b, n) \/ UndoAtBeginning(b, n)
      \/ Redo(b, n) \/ RedoPastEnd(b, n) \/ RedoLost(b, n)
  BY DEF Steps
<1> Len(redoStack[b]) \in Nat
  BY DEF TypeOK
<1>1. /\ DOMAIN Cached(b, Loaded(b)) \subseteq Buffer
      /\ Cached(b, Loaded(b)) \in [DOMAIN Cached(b, Loaded(b)) -> Tree]
  BY LoadedType, CachedType
<1>2. CASE Undo(b, n)
  <2>1. HasSnapshot(UndoTarget(b, n), b)
    BY <1>2, UndoTargetType DEF Undo
  <2>2. live' \in [Buffer -> Text] /\ tip' \in [Buffer -> 0..Len(commits)]
    BY <1>2, <2>1, RestoreType DEF Undo
  <2>3. redoStack' \in [Buffer -> Seq(Nat)]
    BY <1>2, PushRedoType DEF Undo, TypeOK
  <2>4. QED BY <1>1, <1>2, <2>2, <2>3 DEF Undo, TypeOK
<1>3. CASE UndoAtBeginning(b, n)
  BY <1>1, <1>3 DEF UndoAtBeginning, TypeOK
<1>4. CASE Redo(b, n)
  <2>1. n \in Nat /\ n \in 1..Len(redoStack[b])
    BY <1>4 DEF Redo
  <2>2. live' \in [Buffer -> Text] /\ tip' \in [Buffer -> 0..Len(commits)]
    BY <1>4, <2>1, PoppedType, RestoreType DEF Redo
  <2>3. redoStack' \in [Buffer -> Seq(Nat)]
    BY <1>4, <2>1, PopRedoType DEF Redo, TypeOK
  <2>4. QED BY <1>1, <1>4, <2>2, <2>3 DEF Redo, TypeOK
<1>5. CASE RedoPastEnd(b, n)
  <2>1. live' \in [Buffer -> Text] /\ tip' \in [Buffer -> 0..Len(commits)]
    <3>1. CASE redoStack[b] = <<>>
      BY <1>5, <3>1 DEF RedoPastEnd, TypeOK
    <3>2. CASE redoStack[b] # <<>>
      <4>1. Len(redoStack[b]) \in 1..Len(redoStack[b])
        BY <3>2 DEF TypeOK
      <4>2. QED BY <1>5, <3>2, <4>1, PoppedType, RestoreType DEF RedoPastEnd
    <3>3. QED BY <3>1, <3>2
  <2>2. QED BY <1>1, <1>5, <2>1 DEF RedoPastEnd, TypeOK
<1>6. CASE RedoLost(b, n)
  <2>1. PICK i \in 1..n :
          /\ i <= Len(redoStack[b])
          /\ IF i = 1 THEN UNCHANGED <<live, tip>>
             ELSE Restore(b, Popped(b, i - 1))
    BY <1>6 DEF RedoLost
  <2>2. live' \in [Buffer -> Text] /\ tip' \in [Buffer -> 0..Len(commits)]
    <3>1. CASE i = 1
      BY <2>1, <3>1 DEF TypeOK
    <3>2. CASE i # 1
      <4>1. i - 1 \in 1..Len(redoStack[b])
        BY <2>1, <3>2
      <4>2. QED BY <2>1, <3>2, <4>1, PoppedType, RestoreType
    <3>3. QED BY <3>1, <3>2
  <2>3. QED BY <1>1, <1>6, <2>2, ClearRedoType DEF RedoLost, TypeOK
<1>7. QED BY <1>2, <1>3, <1>4, <1>5, <1>6

LEMMA CrashesType ==
  ASSUME TypeOK, BranchIsolation, Crashes
  PROVE  TypeOK'
<1> USE BoundsAssumption
<1>1. <<>> \in [DOMAIN <<>> -> Tree] /\ DOMAIN <<>> \subseteq Buffer
  OBVIOUS
<1>2. ASSUME NEW b \in Buffer, NEW e \in Edit, CrashInMutate(b, e) PROVE TypeOK'
  <2>1. Render(Toggle(Loaded(b), e)) \in Text
    BY LoadedType, ToggleType, RenderType
  <2>2. redoStack' \in [Buffer -> Seq(Nat)]
    BY <1>2, ClearRedoType DEF CrashInMutate, TypeOK
  <2>3. QED BY <1>1, <1>2, <2>1, <2>2 DEF CrashInMutate, TypeOK
<1>3. ASSUME NEW b \in Buffer, NEW n \in 1..MaxSteps, CrashInUndo(b, n)
      PROVE  TypeOK'
  <2>1. HasSnapshot(UndoTarget(b, n), b)
    BY <1>3, UndoTargetType DEF CrashInUndo
  <2>2. live' \in [Buffer -> Text] /\ tip' \in [Buffer -> 0..Len(commits)]
    <3>1. commits[UndoTarget(b, n)].text \in Text /\ UndoTarget(b, n) \in 0..Len(commits)
      BY <2>1, SnapshotType
    <3>2. live' = [live EXCEPT ![b] = commits[UndoTarget(b, n)].text]
      BY <1>3 DEF CrashInUndo
    <3>3. tip' = tip \/ tip' = [tip EXCEPT ![b] = UndoTarget(b, n)]
      BY <1>3 DEF CrashInUndo
    <3>4. QED BY <3>1, <3>2, <3>3 DEF TypeOK
  <2>3. QED BY <1>1, <1>3, <2>2 DEF CrashInUndo, TypeOK
<1>4. ASSUME NEW b \in Buffer, CrashInReload(b) PROVE TypeOK'
  <2>1. PICK text \in Text : /\ live' = [live EXCEPT ![b] = text]
                             /\ UNCHANGED <<commits, tip>> \/ CommitBuffer(b, text, tip[b])
    BY <1>4 DEF CrashInReload
  <2>2. /\ commits' \in Seq(Commit)
        /\ tip' \in [Buffer -> 0..Len(commits')]
        /\ lost \subseteq 1..Len(commits')
    <3>1. CASE UNCHANGED <<commits, tip>>
      BY <3>1 DEF TypeOK
    <3>2. CASE CommitBuffer(b, text, tip[b])
      <4>1. tip[b] \in 0..Len(commits)
        BY DEF TypeOK
      <4>2. QED BY <3>2, <4>1, CommitType
    <3>3. QED BY <2>1, <3>1, <3>2
  <2>3. QED BY <1>1, <1>4, <2>1, <2>2 DEF CrashInReload, TypeOK
<1>5. ASSUME BranchIsolation, NEW b \in Buffer, NEW n \in 1..MaxSteps, CrashInRedo(b, n)
      PROVE  TypeOK'
  <2>1. n \in 1..Len(redoStack[b]) /\ n - 1 \in 0..Len(redoStack[b])
    BY <1>5 DEF CrashInRedo, TypeOK
  <2>2. /\ commits[Popped(b, n)].text \in Text /\ Popped(b, n) \in 0..Len(commits)
        /\ n # 1 => Popped(b, n - 1) \in 0..Len(commits)
    BY <1>5, <2>1, PoppedType, SnapshotType
  <2>3. live' \in [Buffer -> Text] /\ tip' \in [Buffer -> 0..Len(commits)]
    BY <1>5, <2>2 DEF CrashInRedo, TypeOK
  <2>4. QED BY <1>1, <1>5, <2>3 DEF CrashInRedo, TypeOK
<1>6. QED BY <1>2, <1>3, <1>4, <1>5 DEF Crashes

LEMMA NextType ==
  ASSUME TypeOK, BranchIsolation, [Next]_vars
  PROVE  TypeOK'
<1>1. CASE Enter
  <2>1. ASSUME NEW b \in Buffer, OpenBuffer(b) PROVE TypeOK'
    BY <2>1, EnterType DEF OpenBuffer
  <2>2. ASSUME NEW b \in Buffer, NewBuffer(b) PROVE TypeOK'
    BY <2>2, EnterType, RenderType DEF NewBuffer
  <2>3. ASSUME NEW b \in Buffer, CloseBuffer(b) PROVE TypeOK'
    <3>1. Root \in 0..Len(commits)
      BY DEF TypeOK, Root
    <3>2. tip' \in [Buffer -> 0..Len(commits)]
      BY <2>3, <3>1 DEF CloseBuffer, TypeOK
    <3>3. QED BY <2>3, <3>2, ClearRedoType DEF CloseBuffer, TypeOK
  <2>4. QED BY <1>1, <2>1, <2>2, <2>3 DEF Enter
<1>2. CASE Edits
  BY <1>2, EditsType
<1>3. CASE Steps
  BY <1>3, StepsType
<1>4. CASE Restart
  <2>1. <<>> \in [DOMAIN <<>> -> Tree] /\ DOMAIN <<>> \subseteq Buffer
    OBVIOUS
  <2>2. QED BY <1>4, <2>1 DEF Restart, TypeOK
<1>5. CASE PruneCommits
  BY <1>5 DEF PruneCommits, TypeOK
<1>6. CASE Crashes
  BY <1>6, CrashesType
<1>7. CASE UNCHANGED vars
  BY <1>7 DEF vars, TypeOK
<1>8. QED BY <1>1, <1>2, <1>3, <1>4, <1>5, <1>6, <1>7 DEF Next

-----------------------------------------------------------------------------
(* Branch isolation.                                                       *)

\* Commits are only appended: what a commit holds never changes.
LEMMA SnapshotKept ==
  ASSUME TypeOK, NEW b \in Buffer, NEW text \in Text,
         NEW from \in 0..Len(commits), CommitBuffer(b, text, from)
  PROVE  /\ Len(commits) <= Len(commits')
         /\ \A c \in 1..Len(commits) : commits'[c] = commits[c]
         /\ \A c, x : HasSnapshot(c, x) => HasSnapshot(c, x)'
<1>1. CASE CommitOn(b, text, from)
  <2>1. /\ Len(commits) \in Nat /\ Len(commits') = Len(commits) + 1
        /\ \A c \in 1..Len(commits) : commits'[c] = commits[c]
    BY <1>1 DEF CommitOn, TypeOK
  <2>2. QED BY <2>1 DEF HasSnapshot
<1>2. CASE CommitSwallowed(b, from)
  BY <1>2 DEF CommitSwallowed, HasSnapshot, TypeOK
<1>3. QED BY <1>1, <1>2 DEF CommitBuffer

\* A commit on b's branch is b's own, and so is its parent.
LEMMA CommitIsolation ==
  ASSUME TypeOK, BranchIsolation, NEW b \in Buffer, NEW text \in Text,
         NEW from \in 0..Len(commits), CommitBuffer(b, text, from),
         from = Root \/ HasSnapshot(from, b), b \in Open',
         \A x \in Buffer : x # b => (x \in Open' <=> x \in Open),
         redoStack' = redoStack \/ redoStack' = ClearRedo(b)
  PROVE  BranchIsolation'
<1>0. /\ Len(commits) \in Nat /\ Len(commits) <= Len(commits')
      /\ \A c \in 1..Len(commits) : commits'[c] = commits[c]
      /\ \A c, x : HasSnapshot(c, x) => HasSnapshot(c, x)'
  BY SnapshotKept DEF TypeOK
<1>1. CASE CommitOn(b, text, from)
  <2>1. /\ Len(commits') = Len(commits) + 1
        /\ commits'[Len(commits')] = NewCommit(b, text, from)
    BY <1>1, <1>0 DEF CommitOn, TypeOK
  <2>2. ASSUME NEW c \in 1..Len(commits'), Parent(c)' # Root
        PROVE  Parent(c)' < c /\ HasSnapshot(Parent(c), commits[c].owner)'
    <3>1. CASE c \in 1..Len(commits)
      <4>1. Parent(c)' = Parent(c) /\ commits'[c].owner = commits[c].owner
        BY <1>0, <3>1 DEF Parent
      <4>2. Parent(c) < c /\ HasSnapshot(Parent(c), commits[c].owner)
        BY <2>2, <3>1, <4>1 DEF BranchIsolation
      <4>3. QED BY <1>0, <4>1, <4>2
    <3>2. CASE c = Len(commits')
      <4>1. Parent(c)' = from /\ commits'[c].owner = b
        BY <2>1, <3>2 DEF Parent, NewCommit
      <4>2. HasSnapshot(from, b) /\ from < c
        BY <1>0, <2>1, <2>2, <3>2, <4>1
      <4>3. QED BY <1>0, <4>1, <4>2
    <3>3. QED BY <1>0, <2>1, <3>1, <3>2
  <2>3. ASSUME NEW x \in Buffer, tip'[x] # Root PROVE HasSnapshot(tip[x], x)'
    <3>1. CASE x = b
      <4>1. tip'[b] = Len(commits')
        BY <1>1, <2>1 DEF CommitOn, TypeOK
      <4>2. QED BY <1>0, <2>1, <3>1, <4>1 DEF HasSnapshot, NewCommit
    <3>2. CASE x # b
      <4>1. tip'[x] = tip[x]
        BY <1>1, <3>2 DEF CommitOn, TypeOK
      <4>2. QED BY <1>0, <2>3, <4>1 DEF BranchIsolation
    <3>3. QED BY <3>1, <3>2
  <2>4. QED
    <3>1. ASSUME NEW x \in Buffer, NEW i \in 1..Len(redoStack'[x])
          PROVE  HasSnapshot(redoStack[x][i], x)'
      <4>1. redoStack'[x] = redoStack[x] \/ redoStack'[x] = <<>>
        BY DEF ClearRedo, TypeOK
      <4>2. redoStack'[x] = redoStack[x] /\ i \in 1..Len(redoStack[x])
        BY <4>1, <3>1
      <4>3. HasSnapshot(redoStack[x][i], x)
        BY <4>2 DEF BranchIsolation
      <4>4. QED BY <1>0, <4>2, <4>3 DEF HasSnapshot
    <3>2. \A x \in Buffer \ Open' : tip'[x] = Root /\ redoStack'[x] = <<>>
      BY <1>1 DEF CommitOn, ClearRedo, BranchIsolation, TypeOK
    <3>3. QED BY <2>2, <2>3, <3>1, <3>2 DEF BranchIsolation
<1>2. CASE CommitSwallowed(b, from)
  <2>1. commits' = commits /\ tip' = [tip EXCEPT ![b] = from]
    BY <1>2 DEF CommitSwallowed
  <2>2. \A c \in 1..Len(commits') : Parent(c)' # Root =>
          Parent(c)' < c /\ HasSnapshot(Parent(c), commits[c].owner)'
    BY <2>1 DEF BranchIsolation, Parent, HasSnapshot
  <2>3. \A x \in Buffer : tip'[x] # Root => HasSnapshot(tip[x], x)'
    BY <2>1 DEF BranchIsolation, HasSnapshot, TypeOK
  <2>4. \A x \in Buffer : \A i \in 1..Len(redoStack'[x]) :
          HasSnapshot(redoStack[x][i], x)'
    <3>1. \A x \in Buffer : redoStack'[x] \in {redoStack[x], <<>>}
      BY DEF ClearRedo, TypeOK
    <3>2. ASSUME NEW x \in Buffer, NEW i \in 1..Len(redoStack'[x])
          PROVE  redoStack'[x] = redoStack[x] /\ HasSnapshot(redoStack[x][i], x)
      <4>1. redoStack'[x] = redoStack[x]
        BY <3>1, <3>2
      <4>2. QED BY <4>1 DEF BranchIsolation
    <3>3. QED BY <2>1, <3>2 DEF HasSnapshot
  <2>5. \A x \in Buffer \ Open' : tip'[x] = Root /\ redoStack'[x] = <<>>
    BY <2>1 DEF ClearRedo, BranchIsolation, TypeOK
  <2>6. QED BY <2>2, <2>3, <2>4, <2>5 DEF BranchIsolation
<1>3. QED BY <1>1, <1>2 DEF CommitBuffer

\* Moving b's branch to one of b's snapshots, with a redo stack that holds b's
\* snapshots only, keeps the buffers apart.
LEMMA MoveIsolation ==
  ASSUME TypeOK, BranchIsolation, NEW b \in Open, UNCHANGED <<phase, commits>>,
         \/ UNCHANGED tip
         \/ \E c : HasSnapshot(c, b) /\ tip' = [tip EXCEPT ![b] = c],
         \A x \in Buffer \ {b} : redoStack'[x] = redoStack[x],
         \A i \in 1..Len(redoStack'[b]) : HasSnapshot(redoStack'[b][i], b)
  PROVE  BranchIsolation'
<1>1. \A c \in 1..Len(commits') : Parent(c)' # Root =>
        Parent(c)' < c /\ HasSnapshot(Parent(c), commits[c].owner)'
  BY DEF BranchIsolation, Parent, HasSnapshot
<1>2. ASSUME NEW x \in Buffer, tip'[x] # Root PROVE HasSnapshot(tip[x], x)'
  <2>1. HasSnapshot(tip'[x], x)
    BY <1>2 DEF BranchIsolation, TypeOK
  <2>2. QED BY <2>1 DEF HasSnapshot
<1>3. ASSUME NEW x \in Buffer, NEW i \in 1..Len(redoStack'[x])
      PROVE  HasSnapshot(redoStack[x][i], x)'
  <2>1. HasSnapshot(redoStack'[x][i], x)
    BY <1>3 DEF BranchIsolation
  <2>2. QED BY <2>1 DEF HasSnapshot
<1>4. ASSUME NEW x \in Buffer \ Open' PROVE tip'[x] = Root /\ redoStack'[x] = <<>>
  BY DEF BranchIsolation, Open, TypeOK
<1>5. QED BY <1>1, <1>2, <1>3, <1>4 DEF BranchIsolation

LEMMA StepsIsolation ==
  ASSUME TypeOK, BranchIsolation, Steps
  PROVE  BranchIsolation'
<1> USE BoundsAssumption
<1> PICK b \in Buffer, n \in 1..MaxSteps :
      \/ Undo(b, n) \/ UndoAtBeginning(b, n)
      \/ Redo(b, n) \/ RedoPastEnd(b, n) \/ RedoLost(b, n)
  BY DEF Steps
<1> redoStack[b] \in Seq(Nat) /\ Len(redoStack[b]) \in Nat
  BY DEF TypeOK
<1>0. /\ b \in Open
      /\ \A i \in 1..Len(redoStack[b]) : HasSnapshot(redoStack[b][i], b)
  BY DEF Undo, UndoAtBeginning, Redo, RedoPastEnd, RedoLost, BranchIsolation
<1>1. CASE Undo(b, n)
  <2>1. HasSnapshot(UndoTarget(b, n), b) /\ HasSnapshot(tip[b], b)
    BY <1>1, UndoTargetType DEF Undo, UndoAllowed, BranchIsolation
  <2>2. tip' = [tip EXCEPT ![b] = UndoTarget(b, n)]
    BY <1>1 DEF Undo, Restore
  <2>3. redoStack'[b] = Append(redoStack[b], tip[b])
    BY <1>1 DEF Undo, PushRedo, TypeOK
  <2>4. \A i \in 1..Len(redoStack'[b]) : HasSnapshot(redoStack'[b][i], b)
    BY <1>0, <2>1, <2>3
  <2>5. \A x \in Buffer \ {b} : redoStack'[x] = redoStack[x]
    BY <1>1 DEF Undo, TypeOK
  <2>6. UNCHANGED <<phase, commits>>
    BY <1>1 DEF Undo
  <2>7. QED BY <1>0, <2>1, <2>2, <2>4, <2>5, <2>6, MoveIsolation
<1>2. CASE UndoAtBeginning(b, n)
  BY <1>0, <1>2, MoveIsolation DEF UndoAtBeginning
<1>3. CASE Redo(b, n)
  <2>1. HasSnapshot(Popped(b, n), b)
    BY <1>3, PoppedType DEF Redo
  <2>2. tip' = [tip EXCEPT ![b] = Popped(b, n)] /\ UNCHANGED <<phase, commits>>
    BY <1>3 DEF Redo, Restore
  <2>3. redoStack'[b] = SubSeq(redoStack[b], 1, Len(redoStack[b]) - n)
    BY <1>3 DEF Redo, TypeOK
  <2>4. n \in Nat /\ n <= Len(redoStack[b])
    BY <1>3 DEF Redo
  <2>5. \A i \in 1..Len(redoStack'[b]) : HasSnapshot(redoStack'[b][i], b)
    <3>1. /\ Len(redoStack'[b]) = Len(redoStack[b]) - n
          /\ \A i \in 1..Len(redoStack[b]) - n : redoStack'[b][i] = redoStack[b][i]
      BY <2>3, <2>4, PopRedoType
    <3>2. ASSUME NEW i \in 1..Len(redoStack'[b]) PROVE HasSnapshot(redoStack'[b][i], b)
      <4>1. i \in 1..Len(redoStack[b]) - n /\ i \in 1..Len(redoStack[b])
        BY <2>4, <3>1
      <4>2. redoStack'[b][i] = redoStack[b][i] /\ HasSnapshot(redoStack[b][i], b)
        BY <1>0, <3>1, <4>1
      <4>3. QED BY <4>2
    <3>3. QED BY <3>2
  <2>6. \A x \in Buffer \ {b} : redoStack'[x] = redoStack[x]
    BY <1>3 DEF Redo, TypeOK
  <2>7. QED BY <1>0, <2>1, <2>2, <2>5, <2>6, MoveIsolation
<1>4. CASE RedoPastEnd(b, n)
  <2>1. UNCHANGED <<phase, commits, redoStack>>
    BY <1>4 DEF RedoPastEnd
  <2>2. CASE redoStack[b] = <<>>
    BY <1>0, <1>4, <2>1, <2>2, MoveIsolation DEF RedoPastEnd
  <2>3. CASE redoStack[b] # <<>>
    <3>1. HasSnapshot(Popped(b, Len(redoStack[b])), b)
      BY <2>3, PoppedType
    <3>2. tip' = [tip EXCEPT ![b] = Popped(b, Len(redoStack[b]))]
      BY <1>4, <2>3 DEF RedoPastEnd, Restore
    <3>3. QED BY <1>0, <2>1, <3>1, <3>2, MoveIsolation
  <2>4. QED BY <2>2, <2>3
<1>5. CASE RedoLost(b, n)
  <2>1. PICK i \in 1..n :
          /\ i <= Len(redoStack[b])
          /\ IF i = 1 THEN UNCHANGED <<live, tip>>
             ELSE Restore(b, Popped(b, i - 1))
    BY <1>5 DEF RedoLost
  <2>2. UNCHANGED <<phase, commits>> /\ redoStack' = ClearRedo(b)
    BY <1>5 DEF RedoLost
  <2>3. /\ \A x \in Buffer \ {b} : redoStack'[x] = redoStack[x]
        /\ \A j \in 1..Len(redoStack'[b]) : HasSnapshot(redoStack'[b][j], b)
    BY <2>2 DEF ClearRedo, TypeOK
  <2>4. CASE i = 1
    BY <1>0, <2>1, <2>2, <2>3, <2>4, MoveIsolation
  <2>5. CASE i # 1
    <3>1. HasSnapshot(Popped(b, i - 1), b)
      BY <2>1, <2>5, PoppedType
    <3>2. tip' = [tip EXCEPT ![b] = Popped(b, i - 1)]
      BY <2>1, <2>5 DEF Restore
    <3>3. QED BY <1>0, <2>2, <2>3, <3>1, <3>2, MoveIsolation
  <2>6. QED BY <2>4, <2>5
<1>6. QED BY <1>1, <1>2, <1>3, <1>4, <1>5

\* A step that leaves phases, commits, branches and redo stacks alone.
LEMMA StutterIsolation ==
  ASSUME BranchIsolation, UNCHANGED <<phase, commits, tip, redoStack>>
  PROVE  BranchIsolation'
BY DEF BranchIsolation, Parent, HasSnapshot, Open

LEMMA EnterIsolation ==
  ASSUME TypeOK, BranchIsolation, NEW b \in Buffer, NEW text \in Text,
         EnterSession(b, text)
  PROVE  BranchIsolation'
<1>1. Root \in 0..Len(commits)
  BY DEF TypeOK, Root
<1>2. b \in Open' /\ \A x \in Buffer : x # b => (x \in Open' <=> x \in Open)
  BY DEF EnterSession, Open, TypeOK
<1>3. CommitBuffer(b, text, Root) /\ redoStack' = redoStack
  BY DEF EnterSession
<1>4. QED BY <1>1, <1>2, <1>3, CommitIsolation

LEMMA EditsIsolation ==
  ASSUME TypeOK, BranchIsolation, Edits
  PROVE  BranchIsolation'
<1> PICK b \in Buffer : \/ LoadTree(b) \/ ReloadBuffer(b) \/ WriteAllSnapshot(b)
                        \/ \E e \in Edit : MutateBatch(b, e) \/ MutateRefused(b, e)
  BY DEF Edits
<1>0. /\ tip[b] \in 0..Len(commits) /\ live[b] \in Text
      /\ tip[b] = Root \/ HasSnapshot(tip[b], b)
  BY DEF TypeOK, BranchIsolation
<1>1. ASSUME NEW text \in Text, CommitBuffer(b, text, tip[b]), UNCHANGED phase,
             b \in Open, redoStack' = redoStack \/ redoStack' = ClearRedo(b)
      PROVE  BranchIsolation'
  <2>1. Open' = Open
    BY <1>1 DEF Open
  <2>2. QED BY <1>0, <1>1, <2>1, CommitIsolation
<1>2. CASE LoadTree(b)
  BY <1>2, StutterIsolation DEF LoadTree
<1>3. CASE ReloadBuffer(b)
  BY <1>1, <1>3 DEF ReloadBuffer
<1>4. CASE WriteAllSnapshot(b)
  BY <1>0, <1>1, <1>4 DEF WriteAllSnapshot
<1>5. ASSUME NEW e \in Edit, MutateBatch(b, e) PROVE BranchIsolation'
  <2>1. Render(Toggle(Loaded(b), e)) \in Text
    BY LoadedType, ToggleType, RenderType
  <2>2. QED BY <1>1, <1>5, <2>1 DEF MutateBatch
<1>6. ASSUME NEW e \in Edit, MutateRefused(b, e) PROVE BranchIsolation'
  BY <1>6, StutterIsolation DEF MutateRefused
<1>7. QED BY <1>2, <1>3, <1>4, <1>5, <1>6

LEMMA CrashesIsolation ==
  ASSUME TypeOK, BranchIsolation, Crashes
  PROVE  BranchIsolation'
<1> USE BoundsAssumption
<1>1. ASSUME NEW b \in Buffer, NEW e \in Edit, CrashInMutate(b, e)
      PROVE  BranchIsolation'
  <2>1. /\ b \in Open /\ UNCHANGED <<phase, commits, tip>>
        /\ redoStack' = redoStack \/ redoStack' = ClearRedo(b)
    BY <1>1 DEF CrashInMutate
  <2>2. /\ \A x \in Buffer \ {b} : redoStack'[x] = redoStack[x]
        /\ redoStack'[b] = redoStack[b] \/ redoStack'[b] = <<>>
    BY <2>1 DEF ClearRedo, TypeOK
  <2>3. \A i \in 1..Len(redoStack'[b]) : HasSnapshot(redoStack'[b][i], b)
    BY <2>2 DEF BranchIsolation
  <2>4. QED BY <2>1, <2>2, <2>3, MoveIsolation
<1>2. ASSUME NEW b \in Buffer, NEW n \in 1..MaxSteps, CrashInUndo(b, n)
      PROVE  BranchIsolation'
  <2>1. HasSnapshot(UndoTarget(b, n), b)
    BY <1>2, UndoTargetType DEF CrashInUndo
  <2>2. /\ b \in Open /\ UNCHANGED <<phase, commits, redoStack>>
        /\ tip' = tip \/ tip' = [tip EXCEPT ![b] = UndoTarget(b, n)]
    BY <1>2 DEF CrashInUndo
  <2>3. \A i \in 1..Len(redoStack'[b]) : HasSnapshot(redoStack'[b][i], b)
    BY <2>2 DEF BranchIsolation
  <2>4. QED BY <2>1, <2>2, <2>3, MoveIsolation
<1>3. ASSUME NEW b \in Buffer, CrashInReload(b) PROVE BranchIsolation'
  <2>1. PICK text \in Text : UNCHANGED <<commits, tip>> \/ CommitBuffer(b, text, tip[b])
    BY <1>3 DEF CrashInReload
  <2>2. b \in Open /\ UNCHANGED <<phase, redoStack>> /\ Open' = Open
    BY <1>3 DEF CrashInReload, Open
  <2>3. CASE UNCHANGED <<commits, tip>>
    BY <2>2, <2>3, StutterIsolation
  <2>4. CASE CommitBuffer(b, text, tip[b])
    <3>1. tip[b] \in 0..Len(commits) /\ (tip[b] = Root \/ HasSnapshot(tip[b], b))
      BY DEF TypeOK, BranchIsolation
    <3>2. QED BY <2>2, <2>4, <3>1, CommitIsolation
  <2>5. QED BY <2>1, <2>3, <2>4
<1>4. ASSUME NEW b \in Buffer, NEW n \in 1..MaxSteps, CrashInRedo(b, n)
      PROVE  BranchIsolation'
  <2>1. n \in 1..Len(redoStack[b]) /\ n - 1 \in 0..Len(redoStack[b])
    BY <1>4 DEF CrashInRedo, TypeOK
  <2>2. HasSnapshot(Popped(b, n), b) /\ (n # 1 => HasSnapshot(Popped(b, n - 1), b))
    BY <2>1, PoppedType
  <2>3. /\ b \in Open /\ UNCHANGED <<phase, commits, redoStack>>
        /\ UNCHANGED tip \/ \E c : HasSnapshot(c, b) /\ tip' = [tip EXCEPT ![b] = c]
    BY <1>4, <2>2 DEF CrashInRedo
  <2>4. \A i \in 1..Len(redoStack'[b]) : HasSnapshot(redoStack'[b][i], b)
    BY <2>3 DEF BranchIsolation
  <2>5. QED BY <2>3, <2>4, MoveIsolation
<1>5. QED BY <1>1, <1>2, <1>3, <1>4 DEF Crashes

LEMMA NextIsolation ==
  ASSUME TypeOK, BranchIsolation, [Next]_vars
  PROVE  BranchIsolation'
<1>1. CASE Enter
  <2>1. ASSUME NEW b \in Buffer, OpenBuffer(b) PROVE BranchIsolation'
    BY <2>1, EnterIsolation DEF OpenBuffer
  <2>2. ASSUME NEW b \in Buffer, NewBuffer(b) PROVE BranchIsolation'
    BY <2>2, EnterIsolation, RenderType DEF NewBuffer
  <2>3. ASSUME NEW b \in Buffer, CloseBuffer(b) PROVE BranchIsolation'
    <3>1. /\ tip'[b] = Root /\ redoStack'[b] = <<>>
          /\ \A x \in Buffer \ {b} : /\ tip'[x] = tip[x]
                                     /\ redoStack'[x] = redoStack[x]
                                     /\ x \in Open' <=> x \in Open
          /\ commits' = commits
      BY <2>3 DEF CloseBuffer, ClearRedo, Open, TypeOK
    <3>2. \A c, x : HasSnapshot(c, x)' <=> HasSnapshot(c, x)
      BY <3>1 DEF HasSnapshot
    <3>3. \A c \in 1..Len(commits') : Parent(c)' # Root =>
            Parent(c)' < c /\ HasSnapshot(Parent(c), commits[c].owner)'
      BY <3>1 DEF BranchIsolation, Parent, HasSnapshot
    <3>4. \A x \in Buffer : tip'[x] # Root => HasSnapshot(tip[x], x)'
      BY <3>1 DEF BranchIsolation, HasSnapshot
    <3>5. ASSUME NEW x \in Buffer, NEW i \in 1..Len(redoStack'[x])
          PROVE  HasSnapshot(redoStack[x][i], x)'
      <4>1. x # b
        BY <3>1, <3>5
      <4>2. QED BY <3>1, <3>5, <4>1 DEF BranchIsolation, HasSnapshot
    <3>6. \A x \in Buffer \ Open' : tip'[x] = Root /\ redoStack'[x] = <<>>
      BY <3>1 DEF BranchIsolation
    <3>7. QED BY <3>3, <3>4, <3>5, <3>6 DEF BranchIsolation
  <2>4. QED BY <1>1, <2>1, <2>2, <2>3 DEF Enter
<1>2. CASE Edits
  BY <1>2, EditsIsolation
<1>3. CASE Steps
  BY <1>3, StepsIsolation
<1>4. CASE Restart
  BY <1>4, StutterIsolation DEF Restart
<1>5. CASE PruneCommits
  BY <1>5, StutterIsolation DEF PruneCommits
<1>6. CASE Crashes
  BY <1>6, CrashesIsolation
<1>7. CASE UNCHANGED vars
  BY <1>7, StutterIsolation DEF vars
<1>8. QED BY <1>1, <1>2, <1>3, <1>4, <1>5, <1>6, <1>7 DEF Next

LEMMA InitIsolation == Init => BranchIsolation
BY DEF Init, BranchIsolation, Root

LEMMA Invariants == Spec => [](TypeOK /\ BranchIsolation)
<1>1. Init => TypeOK /\ BranchIsolation
  BY InitType, InitIsolation
<1>2. TypeOK /\ BranchIsolation /\ [Next]_vars => (TypeOK /\ BranchIsolation)'
  BY NextType, NextIsolation
<1>3. QED BY <1>1, <1>2, PTL DEF Spec

\* The variables always hold values of the shapes the code keeps: undo and redo
\* restore commits that exist, and only those.
THEOREM TypeCorrect == Spec => []TypeOK
BY Invariants, PTL

\* No sequence of commands, faults and crashes lets one buffer's history reach
\* into another's, although all of them share a repository and its HEAD.
THEOREM BuffersIsolated == Spec => []HistoryOK
<1>1. TypeOK /\ BranchIsolation => HistoryOK
  BY DEF HistoryOK
<1>2. QED BY <1>1, Invariants, PTL

-----------------------------------------------------------------------------
(* The file of a buffer and the tip of its branch.  TipEffect says how a   *)
(* step may leave an open buffer x when the editor does not crash: its     *)
(* file is what its tip holds; or its commit was lost and nothing is left  *)
(* to redo; or file and tip are as before.                                 *)

TipEffect(x) ==
  \/ Current(x)'
  \/ "commit" \in Faults /\ redoStack'[x] = <<>>
  \/ /\ x \in Open
     /\ Current(x) => Current(x)'
     /\ redoStack'[x] \in {redoStack[x], <<>>}

\* A step that leaves x's file and branch alone.
LEMMA SameTip ==
  ASSUME TypeOK, NEW x \in Open, live'[x] = live[x], tip'[x] = tip[x],
         Len(commits) <= Len(commits'), commits' \in Seq(Commit),
         \A c \in 1..Len(commits) : commits'[c] = commits[c],
         redoStack'[x] \in {redoStack[x], <<>>}
  PROVE  TipEffect(x)
<1>1. ASSUME Current(x) PROVE Current(x)'
  <2>1. tip[x] \in 1..Len(commits) /\ commits[tip[x]].owner = x
        /\ live[x] = commits[tip[x]].text
    BY <1>1 DEF Current, HasSnapshot
  <2>2. tip'[x] \in 1..Len(commits') /\ commits'[tip'[x]] = commits[tip[x]]
    BY <2>1 DEF TypeOK
  <2>3. QED BY <2>1, <2>2 DEF Current, HasSnapshot
<1>2. QED BY <1>1 DEF TipEffect

\* A commit handler that writes text to b's file and commits it.
LEMMA CommitEffect ==
  ASSUME TypeOK, TypeOK', NEW b \in Buffer, NEW text \in Text,
         NEW from \in 0..Len(commits), CommitBuffer(b, text, from),
         live'[b] = text, NEW x \in Buffer, x = b \/ x \in Open,
         x # b => live'[x] = live[x] /\ redoStack'[x] = redoStack[x],
         "commit" \in Faults => redoStack'[b] = <<>>
  PROVE  TipEffect(x)
<1>1. /\ Len(commits) <= Len(commits')
      /\ \A c \in 1..Len(commits) : commits'[c] = commits[c]
  BY SnapshotKept
<1>2. CASE x = b
  <2>1. CASE CommitOn(b, text, from)
    <3>1. /\ Len(commits') = Len(commits) + 1 /\ tip'[b] = Len(commits')
          /\ commits'[Len(commits')] = NewCommit(b, text, from)
          /\ Len(commits') \in Nat \ {0}
      BY <2>1 DEF CommitOn, TypeOK
    <3>2. Current(b)'
      BY <3>1 DEF Current, HasSnapshot, NewCommit
    <3>3. QED BY <1>2, <3>2 DEF TipEffect
  <2>2. CASE CommitSwallowed(b, from)
    BY <1>2, <2>2 DEF CommitSwallowed, TipEffect
  <2>3. QED BY <2>1, <2>2 DEF CommitBuffer
<1>3. CASE x # b
  <2>1. tip'[x] = tip[x]
    BY <1>3 DEF CommitBuffer, CommitOn, CommitSwallowed, TypeOK
  <2>2. x \in Open /\ commits' \in Seq(Commit)
    BY <1>3 DEF TypeOK
  <2>3. QED BY <1>1, <1>3, <2>1, <2>2, SameTip
<1>4. QED BY <1>2, <1>3

\* Restoring a snapshot makes it current.
LEMMA RestoreEffect ==
  ASSUME TypeOK, NEW b \in Open, NEW c, HasSnapshot(c, b), Restore(b, c),
         commits' = commits, NEW x \in Open,
         x # b => redoStack'[x] = redoStack[x]
  PROVE  TipEffect(x)
<1>0. b \in Buffer /\ x \in Buffer /\ commits \in Seq(Commit)
  BY DEF Open, TypeOK
<1>1. CASE x = b
  <2>1. tip'[b] = c /\ live'[b] = commits[c].text
    BY <1>0 DEF Restore, TypeOK
  <2>2. Current(b)'
    BY <2>1 DEF Current, HasSnapshot
  <2>3. QED BY <1>1, <2>2 DEF TipEffect
<1>2. CASE x # b
  <2>1. tip'[x] = tip[x] /\ live'[x] = live[x]
    BY <1>0, <1>2 DEF Restore, TypeOK
  <2>2. Len(commits) <= Len(commits')
    BY <1>0
  <2>3. QED BY <1>0, <1>2, <2>1, <2>2, SameTip
<1>3. QED BY <1>1, <1>2

\* A step that leaves every file, commit and branch alone.
LEMMA QuietEffect ==
  ASSUME TypeOK, UNCHANGED <<live, commits, tip>>, NEW x \in Open,
         redoStack'[x] \in {redoStack[x], <<>>}
  PROVE  TipEffect(x)
<1>1. commits' \in Seq(Commit) /\ Len(commits) <= Len(commits')
  BY DEF TypeOK
<1>2. QED BY <1>1, SameTip

LEMMA EditsEffect ==
  ASSUME TypeOK, TypeOK', Edits, NEW x \in Open
  PROVE  TipEffect(x)
<1> PICK b \in Buffer : \/ LoadTree(b) \/ ReloadBuffer(b) \/ WriteAllSnapshot(b)
                        \/ \E e \in Edit : MutateBatch(b, e) \/ MutateRefused(b, e)
  BY DEF Edits
<1>0. tip[b] \in 0..Len(commits) /\ live[b] \in Text /\ x \in Buffer
  BY DEF TypeOK, Open
<1>1. ASSUME NEW text \in Text, live' = [live EXCEPT ![b] = text],
             redoStack' = ClearRedo(b), CommitBuffer(b, text, tip[b])
      PROVE  TipEffect(x)
  <2>1. live'[b] = text /\ redoStack'[b] = <<>>
    BY <1>1 DEF ClearRedo, TypeOK
  <2>2. x # b => live'[x] = live[x] /\ redoStack'[x] = redoStack[x]
    BY <1>0, <1>1 DEF ClearRedo, TypeOK
  <2>3. QED BY <1>0, <1>1, <2>1, <2>2, CommitEffect
<1>2. CASE LoadTree(b)
  BY <1>2, QuietEffect DEF LoadTree
<1>3. CASE ReloadBuffer(b)
  BY <1>1, <1>3 DEF ReloadBuffer
<1>4. CASE WriteAllSnapshot(b)
  <2>1. CommitBuffer(b, live[b], tip[b]) /\ UNCHANGED <<live, redoStack>>
    BY <1>4 DEF WriteAllSnapshot
  <2>2. CASE CommitOn(b, live[b], tip[b])
    <3>1. CASE x = b
      <4>1. /\ tip'[b] = Len(commits') /\ Len(commits') \in Nat \ {0}
            /\ commits'[Len(commits')] = NewCommit(b, live[b], tip[b])
        BY <2>2 DEF CommitOn, TypeOK
      <4>2. Current(b)'
        BY <2>1, <4>1 DEF Current, HasSnapshot, NewCommit
      <4>3. QED BY <3>1, <4>2 DEF TipEffect
    <3>2. CASE x # b
      <4>1. tip'[x] = tip[x] /\ commits' \in Seq(Commit)
        BY <1>0, <2>2, <3>2 DEF CommitOn, TypeOK
      <4>2. /\ Len(commits) <= Len(commits')
            /\ \A c \in 1..Len(commits) : commits'[c] = commits[c]
        BY <1>0, <2>1, SnapshotKept
      <4>3. QED BY <2>1, <4>1, <4>2, SameTip
    <3>3. QED BY <3>1, <3>2
  <2>3. CASE CommitSwallowed(b, tip[b])
    <3>1. UNCHANGED <<live, commits, tip>>
      BY <2>1, <2>3 DEF CommitSwallowed, TypeOK
    <3>2. QED BY <2>1, <3>1, QuietEffect
  <2>4. QED BY <2>1, <2>2, <2>3 DEF CommitBuffer
<1>5. ASSUME NEW e \in Edit, MutateBatch(b, e) PROVE TipEffect(x)
  <2>1. Render(Toggle(Loaded(b), e)) \in Text
    BY LoadedType, ToggleType, RenderType
  <2>2. QED BY <1>1, <1>5, <2>1 DEF MutateBatch
<1>6. ASSUME NEW e \in Edit, MutateRefused(b, e) PROVE TipEffect(x)
  BY <1>6, QuietEffect DEF MutateRefused
<1>7. QED BY <1>2, <1>3, <1>4, <1>5, <1>6

LEMMA StepsEffect ==
  ASSUME TypeOK, BranchIsolation, Steps, NEW x \in Open
  PROVE  TipEffect(x)
<1> USE BoundsAssumption
<1> PICK b \in Buffer, n \in 1..MaxSteps :
      \/ Undo(b, n) \/ UndoAtBeginning(b, n)
      \/ Redo(b, n) \/ RedoPastEnd(b, n) \/ RedoLost(b, n)
  BY DEF Steps
<1>0. /\ b \in Open /\ x \in Buffer /\ commits' = commits
      /\ redoStack[b] \in Seq(Nat) /\ Len(redoStack[b]) \in Nat
  BY DEF Undo, UndoAtBeginning, Redo, RedoPastEnd, RedoLost, TypeOK, Open
<1>1. CASE Undo(b, n)
  <2>1. HasSnapshot(UndoTarget(b, n), b)
    BY <1>1, UndoTargetType DEF Undo
  <2>2. Restore(b, UndoTarget(b, n)) /\ (x # b => redoStack'[x] = redoStack[x])
    BY <1>0, <1>1 DEF Undo, TypeOK
  <2>3. QED BY <1>0, <2>1, <2>2, RestoreEffect
<1>2. CASE UndoAtBeginning(b, n)
  BY <1>2, QuietEffect DEF UndoAtBeginning
<1>3. CASE Redo(b, n)
  <2>1. HasSnapshot(Popped(b, n), b)
    BY <1>0, <1>3, PoppedType DEF Redo
  <2>2. Restore(b, Popped(b, n)) /\ (x # b => redoStack'[x] = redoStack[x])
    BY <1>0, <1>3 DEF Redo, TypeOK
  <2>3. QED BY <1>0, <2>1, <2>2, RestoreEffect
<1>4. CASE RedoPastEnd(b, n)
  <2>1. redoStack' = redoStack
    BY <1>4 DEF RedoPastEnd
  <2>2. CASE redoStack[b] = <<>>
    BY <1>0, <1>4, <2>1, <2>2, QuietEffect DEF RedoPastEnd
  <2>3. CASE redoStack[b] # <<>>
    <3>1. HasSnapshot(Popped(b, Len(redoStack[b])), b)
      BY <1>0, <2>3, PoppedType
    <3>2. Restore(b, Popped(b, Len(redoStack[b])))
      BY <1>4, <2>3 DEF RedoPastEnd
    <3>3. QED BY <1>0, <2>1, <3>1, <3>2, RestoreEffect
  <2>4. QED BY <2>2, <2>3
<1>5. CASE RedoLost(b, n)
  <2>1. PICK i \in 1..n :
          /\ i <= Len(redoStack[b])
          /\ IF i = 1 THEN UNCHANGED <<live, tip>>
             ELSE Restore(b, Popped(b, i - 1))
    BY <1>5 DEF RedoLost
  <2>2. redoStack'[x] \in {redoStack[x], <<>>} /\ (x # b => redoStack'[x] = redoStack[x])
    BY <1>0, <1>5 DEF RedoLost, ClearRedo, TypeOK
  <2>3. CASE i = 1
    BY <1>0, <2>1, <2>2, <2>3, QuietEffect
  <2>4. CASE i # 1
    <3>1. HasSnapshot(Popped(b, i - 1), b)
      BY <1>0, <2>1, <2>4, PoppedType
    <3>2. QED BY <1>0, <2>1, <2>2, <2>4, <3>1, RestoreEffect
  <2>5. QED BY <2>3, <2>4
<1>6. QED BY <1>1, <1>2, <1>3, <1>4, <1>5

LEMMA NextEffect ==
  ASSUME TypeOK, TypeOK', BranchIsolation, [Next]_vars, "crash" \notin Faults,
         NEW x \in Open'
  PROVE  TipEffect(x)
<1>0. x \in Buffer
  BY DEF Open
<1>1. ASSUME NEW b \in Buffer, NEW text \in Text, EnterSession(b, text)
      PROVE  TipEffect(x)
  <2>1. Root \in 0..Len(commits) /\ CommitBuffer(b, text, Root)
    BY <1>1 DEF EnterSession, TypeOK, Root
  <2>2. live'[b] = text /\ (x # b => live'[x] = live[x]) /\ redoStack' = redoStack
    BY <1>0, <1>1 DEF EnterSession, TypeOK
  <2>3. redoStack[b] = <<>> /\ (x = b \/ x \in Open)
    BY <1>0, <1>1 DEF EnterSession, BranchIsolation, Open, TypeOK
  <2>4. QED BY <1>0, <2>1, <2>2, <2>3, CommitEffect
<1>2. CASE Enter
  <2>1. ASSUME NEW b \in Buffer, OpenBuffer(b) PROVE TipEffect(x)
    BY <1>1, <2>1 DEF OpenBuffer
  <2>2. ASSUME NEW b \in Buffer, NewBuffer(b) PROVE TipEffect(x)
    BY <1>1, <2>2, RenderType DEF NewBuffer
  <2>3. ASSUME NEW b \in Buffer, CloseBuffer(b) PROVE TipEffect(x)
    <3>1. x # b /\ x \in Open
      BY <1>0, <2>3 DEF CloseBuffer, Open, TypeOK
    <3>2. /\ live'[x] = live[x] /\ tip'[x] = tip[x] /\ redoStack'[x] = redoStack[x]
          /\ commits' = commits
      BY <1>0, <2>3, <3>1 DEF CloseBuffer, ClearRedo, TypeOK
    <3>3. commits' \in Seq(Commit) /\ Len(commits) <= Len(commits')
      BY <3>2 DEF TypeOK
    <3>4. QED BY <3>1, <3>2, <3>3, SameTip
  <2>4. QED BY <1>2, <2>1, <2>2, <2>3 DEF Enter
<1>3. CASE Edits
  <2>1. x \in Open
    BY <1>3 DEF Edits, LoadTree, ReloadBuffer, WriteAllSnapshot, MutateBatch,
                MutateRefused, Open
  <2>2. QED BY <1>3, <2>1, EditsEffect
<1>4. CASE Steps
  <2>1. x \in Open
    BY <1>4 DEF Steps, Undo, UndoAtBeginning, Redo, RedoPastEnd, RedoLost, Open
  <2>2. QED BY <1>4, <2>1, StepsEffect
<1>5. CASE Restart \/ PruneCommits \/ UNCHANGED vars
  <2>1. UNCHANGED <<phase, live, commits, tip, redoStack>>
    BY <1>5 DEF Restart, PruneCommits, vars
  <2>2. QED BY <2>1, QuietEffect DEF Open
<1>6. CASE Crashes
  BY <1>6 DEF Crashes, CrashInMutate, CrashInReload, CrashInUndo, CrashInRedo
<1>7. QED BY <1>2, <1>3, <1>4, <1>5, <1>6 DEF Next

\* When commits do not fail and the editor does not crash between two writes,
\* the branch tip of every open buffer holds exactly its file: undo, redo,
\* reload, write_all and every edit keep the two in step.
THEOREM TipIsLive ==
  ASSUME "commit" \notin Faults, "crash" \notin Faults
  PROVE  Spec => []LiveMatchesTip
<1>1. Init => LiveMatchesTip
  BY DEF Init, LiveMatchesTip, Open
<1>2. ASSUME TypeOK, TypeOK', BranchIsolation, LiveMatchesTip, [Next]_vars
      PROVE  LiveMatchesTip'
  <2>1. ASSUME NEW x \in Open' PROVE Current(x)'
    <3>1. TipEffect(x)
      BY <1>2, <2>1, NextEffect
    <3>2. QED BY <1>2, <3>1 DEF TipEffect, LiveMatchesTip
  <2>2. QED BY <2>1 DEF LiveMatchesTip
<1>3. QED BY <1>1, <1>2, Invariants, PTL DEF Spec

\* Even when commits fail, a buffer that offers a redo shows what its branch
\* tip holds: a redo never overwrites a text that was not committed.
THEOREM RedoIsSafe ==
  ASSUME "crash" \notin Faults
  PROVE  Spec => []RedoMeansCurrent
<1>1. Init => RedoMeansCurrent
  BY DEF Init, RedoMeansCurrent, Open
<1>2. ASSUME TypeOK, TypeOK', BranchIsolation, RedoMeansCurrent, [Next]_vars
      PROVE  RedoMeansCurrent'
  <2>1. ASSUME NEW x \in Open', redoStack'[x] # <<>> PROVE Current(x)'
    <3>1. TipEffect(x)
      BY <1>2, <2>1, NextEffect
    <3>2. QED BY <1>2, <2>1, <3>1 DEF TipEffect, RedoMeansCurrent
  <2>2. QED BY <2>1 DEF RedoMeansCurrent
<1>3. QED BY <1>1, <1>2, Invariants, PTL DEF Spec

-----------------------------------------------------------------------------
\* A set of numbers up to n has a least one.
LEMMA LeastNumber ==
  ASSUME NEW n \in Nat, NEW K \in SUBSET (0..n), K # {}
  PROVE  \E i \in K : \A j \in K : i <= j
<1> DEFINE Up(i) == 0..i
           Ups == {Up(i) : i \in K}
           Sets == SUBSET (0..n)
           R == StrictSubsetOrdering(0..n)
<1>1. IsWellFoundedOn(R, Sets)
  <2>1. IsFiniteSet(0..n)
    BY FS_Interval
  <2>2. FiniteSubsetsOf(0..n) = SUBSET (0..n)
    BY <2>1, FS_FiniteSubsetsOfFinite
  <2>3. QED BY <2>2, FS_StrictSubsetOrderingWellFounded
<1>2. Ups \subseteq Sets /\ Ups # {}
  <2>1. ASSUME NEW i \in K PROVE Up(i) \in Sets
    OBVIOUS
  <2>2. PICK k : k \in K
    OBVIOUS
  <2>3. Up(k) \in Ups
    BY <2>2
  <2> HIDE DEF Up, Sets
  <2>4. QED BY <2>1, <2>3
<1>3. \E x \in Ups : \A y \in Ups : ~(<<y, x>> \in R)
  <2> HIDE DEF Ups, R, Sets
  <2> QED BY <1>1, <1>2, WFMin
<1>4. PICK i \in K : \A y \in Ups : ~(<<y, Up(i)>> \in R)
  BY <1>3
<1>5. ASSUME NEW j \in K, ~(i <= j) PROVE FALSE
  <2>1. Up(j) \subseteq Up(i) /\ i \in Up(i) /\ i \notin Up(j) /\ i \in Nat /\ j \in Nat
    BY <1>5
  <2>2. <<Up(j), Up(i)>> \in R
    BY <2>1 DEF StrictSubsetOrdering
  <2>3. QED BY <1>4, <2>2
<1>6. QED BY <1>5

-----------------------------------------------------------------------------
Walk(cs) == CHOOSE f : f = [i \in 0..Len(cs) |-> IF i = Root THEN {} ELSE {i} \cup f[cs[i].parent]]


\* Parents are older than their children.
Ordered(cs) == Len(cs) \in Nat /\ \A i \in 1..Len(cs) : cs[i].parent \in 0..(i - 1)

\* There is such a function: it maps a commit to the least set that has the
\* commit and the parent of every commit in it.
LEMMA WalkExists ==
  ASSUME NEW cs, Ordered(cs)
  PROVE  Walk(cs) = [i \in 0..Len(cs) |->
                       IF i = Root THEN {} ELSE {i} \cup Walk(cs)[cs[i].parent]]
<1> DEFINE All == 1..Len(cs)
           Closed(S) == \A c \in S : cs[c].parent # Root => cs[c].parent \in S
           Reach(i) == {d \in All : \A S \in SUBSET All : i \in S /\ Closed(S) => d \in S}
           g == [i \in 0..Len(cs) |-> IF i = Root THEN {} ELSE Reach(i)]
<1>1. ASSUME NEW i \in All
      PROVE  Reach(i) = {i} \cup g[cs[i].parent]
  <2> DEFINE p == cs[i].parent
  <2>0. p \in 0..(i - 1) /\ p \in 0..Len(cs) /\ (p # Root => p \in All)
    BY DEF Ordered, Root
  <2> HIDE DEF p
  <2>1. g[p] = IF p = Root THEN {} ELSE Reach(p)
    BY <2>0
  <2>2. i \in Reach(i)
    OBVIOUS
  <2>3. ASSUME p # Root, NEW d \in Reach(p) PROVE d \in Reach(i)
    <3>1. ASSUME NEW S \in SUBSET All, i \in S, Closed(S) PROVE d \in S
      <4>1. p \in S
        BY <2>3, <3>1 DEF p
      <4>2. QED BY <2>3, <3>1, <4>1
    <3>2. QED BY <2>3, <3>1
  <2>4. ASSUME NEW d \in Reach(i) PROVE d \in {i} \cup g[p]
    <3> DEFINE S == {i} \cup g[p]
    <3>1. S \in SUBSET All
      <4>1. ASSUME NEW c \in g[p] PROVE c \in All
        BY <2>1
      <4>2. QED BY <4>1
    <3>2. ASSUME NEW c \in S, cs[c].parent # Root PROVE cs[c].parent \in S
      <4>1. CASE c = i
        <5>1. p # Root /\ p \in All
          BY <2>0, <3>2, <4>1 DEF p
        <5>2. p \in Reach(p)
          BY <5>1
        <5>3. QED BY <2>1, <4>1, <5>1, <5>2 DEF p
      <4>2. CASE c \in g[p]
        <5>1. p # Root /\ c \in Reach(p) /\ c \in All
          BY <2>1, <4>2
        <5>2. cs[c].parent \in All
          BY <3>2, <5>1 DEF Ordered, Root
        <5>3. ASSUME NEW U \in SUBSET All, p \in U, Closed(U) PROVE cs[c].parent \in U
          <6>1. c \in U
            BY <5>1, <5>3
          <6>2. QED BY <3>2, <5>3, <6>1
        <5>4. cs[c].parent \in Reach(p)
          BY <5>2, <5>3
        <5>5. QED BY <2>1, <5>1, <5>4
      <4>3. QED BY <3>2, <4>1, <4>2
    <3> HIDE DEF S
    <3>3. i \in S /\ Closed(S)
      BY <3>2 DEF S
    <3>4. d \in S
      BY <2>4, <3>1, <3>3
    <3>5. QED BY <3>4 DEF S
  <2> HIDE DEF Reach, g
  <2>5. QED BY <2>1, <2>2, <2>3, <2>4 DEF p
<1>2. g = [i \in 0..Len(cs) |-> IF i = Root THEN {} ELSE {i} \cup g[cs[i].parent]]
  <2> DEFINE h == [i \in 0..Len(cs) |-> IF i = Root THEN {} ELSE {i} \cup g[cs[i].parent]]
  <2>1. ASSUME NEW i \in 0..Len(cs) PROVE g[i] = h[i]
    <3>1. CASE i = Root
      BY <3>1
    <3>2. CASE i # Root
      <4>1. i \in All
        BY <3>2 DEF Ordered, Root
      <4>2. g[i] = Reach(i) /\ h[i] = {i} \cup g[cs[i].parent]
        BY <3>2
      <4>3. QED BY <1>1, <4>1, <4>2
    <3>3. QED BY <3>1, <3>2
  <2>2. g = [i \in 0..Len(cs) |-> g[i]] /\ h = [i \in 0..Len(cs) |-> h[i]]
    OBVIOUS
  <2> HIDE DEF g, h
  <2>3. g = h
    BY <2>1, <2>2
  <2>4. QED BY <2>3 DEF h
<1> HIDE DEF g
<1>3. \E f : f = [i \in 0..Len(cs) |-> IF i = Root THEN {} ELSE {i} \cup f[cs[i].parent]]
  BY <1>2
<1>4. QED BY <1>3 DEF Walk

\* A walk from a commit is the commit and the walk from its parent.
LEMMA WalkSteps ==
  ASSUME NEW cs, Ordered(cs)
  PROVE  /\ Walk(cs)[Root] = {}
         /\ \A i \in 1..Len(cs) : Walk(cs)[i] = {i} \cup Walk(cs)[cs[i].parent]
<1> DEFINE W == Walk(cs)
<1>1. W = [i \in 0..Len(cs) |-> IF i = Root THEN {} ELSE {i} \cup W[cs[i].parent]]
  BY WalkExists
<1> HIDE DEF W
<1>2. W[Root] = {}
  BY <1>1 DEF Ordered, Root
<1>3. ASSUME NEW i \in 1..Len(cs) PROVE W[i] = {i} \cup W[cs[i].parent]
  <2>1. i \in 0..Len(cs) /\ i # Root
    BY DEF Ordered, Root
  <2>2. QED BY <1>1, <2>1
<1>4. QED BY <1>2, <1>3 DEF W

\* The history of a commit is the walk from it.
LEMMA HistoryIsWalk == \A c : History(c) = Walk(commits)[c]
BY DEF History, Walk, Parent

\* A commit's walk does not depend on later commits.
LEMMA WalkStays ==
  ASSUME NEW cs, Ordered(cs), NEW ds, Ordered(ds), Len(cs) <= Len(ds),
         \A i \in 1..Len(cs) : ds[i].parent = cs[i].parent
  PROVE  \A i \in 0..Len(cs) : Walk(ds)[i] = Walk(cs)[i]
<1> DEFINE K == {i \in 0..Len(cs) : Walk(ds)[i] # Walk(cs)[i]}
<1>1. SUFFICES ASSUME K # {} PROVE FALSE
  OBVIOUS
<1>2. K \in SUBSET (0..Len(cs)) /\ Len(cs) \in Nat /\ Len(ds) \in Nat
  BY DEF Ordered
<1>3. PICK i \in K : \A j \in K : i <= j
  <2> HIDE DEF K
  <2> QED BY <1>1, <1>2, LeastNumber
<1>4. i \in 0..Len(cs) /\ Walk(ds)[i] # Walk(cs)[i]
  OBVIOUS
<1>5. i \in 1..Len(cs) /\ i \in 1..Len(ds)
  <2>1. i # Root
    BY <1>4, WalkSteps
  <2>2. QED BY <1>2, <1>4, <2>1 DEF Root
<1>6. cs[i].parent \in 0..(i - 1) /\ ds[i].parent = cs[i].parent
  BY <1>5 DEF Ordered
<1>7. cs[i].parent \notin K
  <2> HIDE DEF K
  <2> QED BY <1>2, <1>3, <1>5, <1>6
<1>8. Walk(ds)[cs[i].parent] = Walk(cs)[cs[i].parent]
  BY <1>2, <1>5, <1>6, <1>7
<1>9. /\ Walk(ds)[i] = {i} \cup Walk(ds)[ds[i].parent]
      /\ Walk(cs)[i] = {i} \cup Walk(cs)[cs[i].parent]
  BY <1>5, WalkSteps
<1>10. QED BY <1>4, <1>6, <1>8, <1>9

\* A walk stays among the commits and takes with a commit all of its own walk.
LEMMA WalkClosed ==
  ASSUME NEW cs, Ordered(cs)
  PROVE  \A i \in 0..Len(cs) :
           Walk(cs)[i] \subseteq 1..i /\ \A d \in Walk(cs)[i] : Walk(cs)[d] \subseteq Walk(cs)[i]
<1> DEFINE W == Walk(cs)
           Good(i) == W[i] \subseteq 1..i /\ \A d \in W[i] : W[d] \subseteq W[i]
           K == {i \in 0..Len(cs) : ~Good(i)}
<1>1. SUFFICES ASSUME K # {} PROVE FALSE
  OBVIOUS
<1>2. K \in SUBSET (0..Len(cs)) /\ Len(cs) \in Nat
  BY DEF Ordered
<1>3. PICK i \in K : \A j \in K : i <= j
  <2> HIDE DEF K
  <2> QED BY <1>1, <1>2, LeastNumber
<1>4. i \in 0..Len(cs) /\ ~Good(i)
  OBVIOUS
<1>5. i # Root
  BY <1>4, WalkSteps
<1>6. i \in 1..Len(cs)
  BY <1>2, <1>4, <1>5 DEF Root
<1> DEFINE p == cs[i].parent
<1>7. p \in 0..(i - 1)
  BY <1>6 DEF Ordered
<1>8. p \in 0..Len(cs) /\ p \notin K
  <2> HIDE DEF K, p
  <2> QED BY <1>2, <1>3, <1>6, <1>7
<1>9. Good(p)
  <2> HIDE DEF Good, p
  <2> QED BY <1>8
<1>10. W[i] = {i} \cup W[p]
  BY <1>6, WalkSteps
<1> HIDE DEF W, p, K
<1>11. W[i] \subseteq 1..i
  <2>1. 1..p \subseteq 1..i /\ i \in 1..i
    BY <1>6, <1>7
  <2>2. QED BY <1>9, <1>10, <2>1
<1>12. \A d \in W[i] : W[d] \subseteq W[i]
  BY <1>9, <1>10
<1>13. QED BY <1>4, <1>11, <1>12

-----------------------------------------------------------------------------
Back(b) == CHOOSE f : f = [i \in 0..MaxSteps |->
                             IF i = 0 THEN tip[b]
                             ELSE IF f[i - 1] = Root THEN Root ELSE Parent(f[i - 1])]

\* The ancestors of a branch tip are what walking back from it meets.
LEMMA AncestorIsBack == \A b, n : Ancestor(b, n) = Back(b)[n]
BY DEF Ancestor, Back

\* Walking back is such a function too.
LEMMA BackExists ==
  ASSUME NEW b
  PROVE  Back(b) = [i \in 0..MaxSteps |->
                      IF i = 0 THEN tip[b]
                      ELSE IF Back(b)[i - 1] = Root THEN Root ELSE Parent(Back(b)[i - 1])]
<1> USE BoundsAssumption
<1> DEFINE Step(c) == IF c = Root THEN Root ELSE Parent(c)
           Walks(f, n) == f = [i \in 0..n |-> IF i = 0 THEN tip[b] ELSE Step(f[i - 1])]
           K == {n \in 0..MaxSteps : ~\E f : Walks(f, n)}
<1>1. SUFFICES K = {}
  <2> HIDE DEF Step
  <2>1. SUFFICES ASSUME \E f : Walks(f, MaxSteps) PROVE Walks(Back(b), MaxSteps)
    BY DEF Step
  <2>2. Back(b) = CHOOSE f : Walks(f, MaxSteps)
    BY DEF Back, Step
  <2> HIDE DEF Walks
  <2>3. QED BY <2>1, <2>2
<1>2. SUFFICES ASSUME K # {} PROVE FALSE
  OBVIOUS
<1>3. PICK n \in K : \A m \in K : n <= m
  <2> K \in SUBSET (0..MaxSteps)
    OBVIOUS
  <2> HIDE DEF K
  <2> QED BY <1>2, LeastNumber
<1>4. n \in 0..MaxSteps /\ ~\E f : Walks(f, n)
  OBVIOUS
<1>5. CASE n = 0
  <2> DEFINE f == [i \in 0..0 |-> tip[b]]
  <2>1. f = [i \in 0..0 |-> IF i = 0 THEN tip[b] ELSE Step(f[i - 1])]
    <3> HIDE DEF Step
    <3> QED OBVIOUS
  <2>2. Walks(f, n)
    BY <1>5, <2>1
  <2>3. QED BY <1>4, <2>2
<1>6. CASE n # 0
  <2>1. n - 1 \in 0..MaxSteps /\ n - 1 \notin K /\ n \in Nat
    <3> HIDE DEF K
    <3> QED BY <1>3, <1>4, <1>6
  <2>2. PICK f : Walks(f, n - 1)
    BY <2>1
  <2> DEFINE g == [i \in 0..n |-> IF i = n THEN Step(f[n - 1]) ELSE f[i]]
  <2>3. ASSUME NEW i \in 0..n
        PROVE  g[i] = IF i = 0 THEN tip[b] ELSE Step(g[i - 1])
    <3> HIDE DEF Step
    <3>1. CASE i = n
      BY <1>6, <2>1, <3>1
    <3>2. CASE i # n
      <4>1. i \in 0..(n - 1) /\ g[i] = f[i]
        BY <2>1, <3>2
      <4>2. f[i] = IF i = 0 THEN tip[b] ELSE Step(f[i - 1])
        BY <2>2, <4>1
      <4>3. i # 0 => g[i - 1] = f[i - 1]
        BY <2>1, <4>1
      <4>4. QED BY <4>1, <4>2, <4>3
    <3>3. QED BY <3>1, <3>2
  <2>4. g = [i \in 0..n |-> g[i]]
    OBVIOUS
  <2> HIDE DEF g, Step
  <2>5. Walks(g, n)
    BY <2>3, <2>4
  <2>6. QED BY <1>4, <2>5
<1>7. QED BY <1>5, <1>6

\* The first ancestor is the tip, each other the parent of the one before it.
LEMMA AncestorSteps ==
  ASSUME NEW b
  PROVE  /\ Ancestor(b, 0) = tip[b]
         /\ \A i \in 1..MaxSteps :
              Ancestor(b, i) = IF Ancestor(b, i - 1) = Root THEN Root ELSE Parent(Ancestor(b, i - 1))
<1> USE BoundsAssumption
<1> DEFINE B == Back(b)
<1>1. B = [i \in 0..MaxSteps |->
             IF i = 0 THEN tip[b] ELSE IF B[i - 1] = Root THEN Root ELSE Parent(B[i - 1])]
  BY BackExists
<1>2. \A n : Ancestor(b, n) = B[n]
  BY AncestorIsBack
<1> HIDE DEF B
<1>3. B[0] = tip[b]
  BY <1>1
<1>4. ASSUME NEW i \in 1..MaxSteps
      PROVE  B[i] = IF B[i - 1] = Root THEN Root ELSE Parent(B[i - 1])
  <2>1. i \in 0..MaxSteps /\ i # 0
    OBVIOUS
  <2>2. QED BY <1>1, <2>1
<1>5. QED BY <1>2, <1>3, <1>4

-----------------------------------------------------------------------------
\* A history has its commit and, with a commit, all of that commit's history.
LEMMA HistoryFacts ==
  ASSUME TypeOK, BranchIsolation
  PROVE  /\ Ordered(commits)
         /\ History(Root) = {}
         /\ \A c \in 1..Len(commits) :
              Parent(c) \in 0..(c - 1) /\ History(c) = {c} \cup History(Parent(c))
         /\ \A c \in 0..Len(commits) :
              /\ History(c) \subseteq 1..Len(commits)
              /\ \A d \in History(c) : History(d) \subseteq History(c)
<1>1. Ordered(commits)
  <2>1. Len(commits) \in Nat
    BY DEF TypeOK
  <2>2. ASSUME NEW c \in 1..Len(commits) PROVE commits[c].parent \in 0..(c - 1)
    <3>1. commits[c].parent \in Nat
      <4>1. commits \in Seq(Commit)
        BY DEF TypeOK
      <4>2. commits[c] \in Commit
        BY <4>1
      <4>3. QED BY <4>2 DEF Commit
    <3>2. commits[c].parent # Root => commits[c].parent < c
      BY DEF BranchIsolation, Parent
    <3>3. QED BY <3>1, <3>2 DEF Root
  <2>3. QED BY <2>1, <2>2 DEF Ordered
<1>2. \A c : History(c) = Walk(commits)[c]
  BY HistoryIsWalk
<1>3. History(Root) = {}
  BY <1>1, <1>2, WalkSteps
<1>4. ASSUME NEW c \in 1..Len(commits)
      PROVE  Parent(c) \in 0..(c - 1) /\ History(c) = {c} \cup History(Parent(c))
  BY <1>1, <1>2, WalkSteps DEF Ordered, Parent
<1>5. ASSUME NEW c \in 0..Len(commits)
      PROVE  /\ History(c) \subseteq 1..Len(commits)
             /\ \A d \in History(c) : History(d) \subseteq History(c)
  <2>1. Walk(commits)[c] \subseteq 1..c
        /\ \A d \in Walk(commits)[c] : Walk(commits)[d] \subseteq Walk(commits)[c]
    BY <1>1, WalkClosed
  <2>2. 1..c \subseteq 1..Len(commits)
    BY <1>1 DEF Ordered
  <2>3. QED BY <1>2, <2>1, <2>2
<1>6. QED BY <1>1, <1>3, <1>4, <1>5

\* The texts of a commit and of all before it.
Texts(c) == TextsOf(History(c))

\* Commits are only added: the history of a commit stays what it was.
Grown == /\ Len(commits) <= Len(commits')
         /\ \A c \in 1..Len(commits) : commits'[c] = commits[c]

\* So neither a history nor its texts change when commits are added.
LEMMA HistoryStays ==
  ASSUME TypeOK, BranchIsolation, TypeOK', BranchIsolation', Grown
  PROVE  \A c \in 0..Len(commits) : History(c)' = History(c) /\ Texts(c)' = Texts(c)
<1>1. Ordered(commits) /\ Ordered(commits')
  <2>1. Ordered(commits)
    BY HistoryFacts
  <2>2. Ordered(commits)'
    BY HistoryFacts, PTL
  <2>3. QED BY <2>1, <2>2 DEF Ordered
<1>2. \A i \in 0..Len(commits) : Walk(commits')[i] = Walk(commits)[i]
  <2>1. \A i \in 1..Len(commits) : commits'[i].parent = commits[i].parent
    BY DEF Grown
  <2>2. QED BY <1>1, <2>1, WalkStays DEF Grown
<1>3. ASSUME NEW c \in 0..Len(commits) PROVE History(c)' = History(c)
  <2>1. History(c) = Walk(commits)[c] /\ History(c)' = Walk(commits)'[c]
    BY HistoryIsWalk DEF History, Walk, Parent
  <2>2. Walk(commits)' = Walk(commits')
    BY DEF Walk
  <2>3. QED BY <1>2, <2>1, <2>2
<1>4. ASSUME NEW c \in 0..Len(commits) PROVE Texts(c)' = Texts(c)
  <2>1. \A d \in History(c) : commits'[d] = commits[d]
    BY HistoryFacts DEF Grown
  <2>2. QED BY <1>3, <2>1 DEF Texts, TextsOf
<1>5. QED BY <1>3, <1>4

\* Undo goes to a commit of the branch's history.
LEMMA UndoGoesBack ==
  ASSUME TypeOK, BranchIsolation, NEW b \in Buffer, NEW n \in 1..MaxSteps, UndoAllowed(b, n)
  PROVE  tip[b] \in 1..Len(commits) /\ UndoTarget(b, n) \in History(tip[b])
<1> USE BoundsAssumption
<1>1. tip[b] \in 1..Len(commits)
  BY DEF UndoAllowed, TypeOK, Root
<1> DEFINE K == {i \in 0..n : Ancestor(b, i) \notin History(tip[b])}
<1>2. SUFFICES K = {}
  <2>1. n \in 0..n
    OBVIOUS
  <2>2. QED BY <1>1, <2>1 DEF UndoTarget
<1>3. SUFFICES ASSUME K # {} PROVE FALSE
  OBVIOUS
<1>4. PICK i \in K : \A j \in K : i <= j
  <2> K \in SUBSET (0..n) /\ n \in Nat
    OBVIOUS
  <2> HIDE DEF K
  <2> QED BY <1>3, LeastNumber
<1>5. i \in 0..n /\ Ancestor(b, i) \notin History(tip[b])
  OBVIOUS
<1>6. i # 0
  <2>1. Ancestor(b, 0) = tip[b]
    BY AncestorSteps
  <2>2. tip[b] \in History(tip[b])
    BY <1>1, HistoryFacts
  <2>3. QED BY <1>5, <2>1, <2>2
<1>7. i \in 1..n /\ i \in 1..MaxSteps /\ i - 1 \in 0..n /\ i - 1 \notin K
  <2> HIDE DEF K
  <2> QED BY <1>4, <1>5, <1>6
<1> DEFINE a == Ancestor(b, i - 1)
<1>8. a \in History(tip[b]) /\ History(a) \subseteq History(tip[b]) /\ a \in 1..Len(commits)
  <2>1. a \in History(tip[b])
    BY <1>7
  <2>2. tip[b] \in 0..Len(commits)
    BY <1>1
  <2>3. QED BY <2>1, <2>2, HistoryFacts
<1>9. Ancestor(b, i) = IF a = Root THEN Root ELSE Parent(a)
  BY <1>7, AncestorSteps
<1>10. Ancestor(b, i) \in 1..Len(commits)
  BY <1>7 DEF UndoAllowed, HasSnapshot
<1> HIDE DEF a
<1>11. Ancestor(b, i) = Parent(a)
  BY <1>9, <1>10 DEF Root
<1>12. Parent(a) \in History(Parent(a)) /\ History(Parent(a)) \subseteq History(a)
  BY <1>8, <1>10, <1>11, HistoryFacts
<1>13. QED BY <1>5, <1>8, <1>11, <1>12

-----------------------------------------------------------------------------
(* What a step without a crash does to the branch and the redo stack of an *)
(* open buffer.                                                            *)
Top(b) == Len(redoStack[b])

Stays(b) == tip'[b] = tip[b] /\ redoStack'[b] \in {redoStack[b], <<>>}

Extends(b) ==
  /\ tip'[b] \in 1..Len(commits') /\ tip'[b] \notin lost
  /\ commits'[tip'[b]].parent = tip[b]
  /\ \/ redoStack'[b] = <<>>
     \/ redoStack'[b] = redoStack[b] /\ commits'[tip'[b]].text = live[b]

Undone(b) ==
  /\ tip[b] \in 1..Len(commits) /\ tip'[b] \in History(tip[b])
  /\ redoStack'[b] = Append(redoStack[b], tip[b])

\* n entries were restored in turn, and the stack shortened or left alone.
Redone(b, n) ==
  /\ tip'[b] = redoStack[b][Top(b) + 1 - n]
  /\ \A i \in (Top(b) + 1 - n)..Top(b) : redoStack[b][i] \notin lost
  /\ \/ redoStack'[b] = SubSeq(redoStack[b], 1, Top(b) - n)
     \/ n = Top(b) /\ redoStack'[b] = redoStack[b]

Stopped(b) ==
  /\ \E n \in 1..MaxSteps : RedoLost(b, n)
  /\ redoStack'[b] = <<>>
  /\ \E i \in 1..Top(b) : tip'[b] = redoStack[b][i] /\ redoStack[b][i] \notin lost

Turns(b) ==
  \/ Stays(b) \/ Extends(b) \/ Undone(b) \/ Stopped(b)
  \/ \E n \in 1..Top(b) : Redone(b, n)

\* What a step does to the commits.
Adds == \E c \in Commit :
          /\ commits' = Append(commits, c)
          /\ c.parent = Root \/ \E b \in Open : c.parent = tip[b]

\* A commit adds at most one commit, to the branch that it was asked for.
LEMMA CommitTurns ==
  ASSUME TypeOK, NEW b \in Buffer, NEW text \in Text, NEW from, from = Root \/ (b \in Open /\ from = tip[b]),
         CommitBuffer(b, text, from)
  PROVE  /\ commits' = commits \/ Adds
         /\ \A x \in Buffer \ {b} : tip'[x] = tip[x]
         /\ \/ commits' = commits /\ tip'[b] = from
            \/ /\ tip'[b] \in 1..Len(commits') /\ tip'[b] \notin lost
               /\ commits'[tip'[b]].parent = from /\ commits'[tip'[b]].text = text
<1>0. from \in Nat /\ tip \in [Buffer -> 0..Len(commits)] /\ commits \in Seq(Commit)
  BY DEF TypeOK, Root
<1>1. CASE CommitOn(b, text, from)
  <2> DEFINE c == NewCommit(b, text, from)
  <2>1. c \in Commit /\ c.parent = from /\ c.text = text
    BY <1>0 DEF NewCommit, Commit
  <2>2. commits' = Append(commits, c) /\ tip' = [tip EXCEPT ![b] = Len(commits) + 1]
    BY <1>1 DEF CommitOn
  <2> HIDE DEF c
  <2>3. /\ Len(commits') = Len(commits) + 1 /\ Len(commits) \in Nat
        /\ commits'[Len(commits) + 1] = c
    BY <1>0, <2>1, <2>2
  <2>4. tip'[b] = Len(commits) + 1 /\ \A x \in Buffer \ {b} : tip'[x] = tip[x]
    BY <1>0, <2>2
  <2>5. Adds
    BY <2>1, <2>2 DEF Adds
  <2>6. tip'[b] \notin lost
    BY <1>0, <2>4 DEF TypeOK
  <2>7. QED BY <2>1, <2>3, <2>4, <2>5, <2>6
<1>2. CASE CommitSwallowed(b, from)
  BY <1>0, <1>2 DEF CommitSwallowed
<1>3. QED BY <1>1, <1>2 DEF CommitBuffer

\* Loading, reloading, saving and editing an open buffer.
LEMMA EditsTurn ==
  ASSUME TypeOK, Edits
  PROVE  /\ phase' = phase /\ lost' = lost
         /\ commits' = commits \/ Adds
         /\ \A x \in Open : Stays(x) \/ Extends(x)
<1> PICK b \in Buffer : \/ LoadTree(b) \/ ReloadBuffer(b) \/ WriteAllSnapshot(b)
                        \/ \E e \in Edit : MutateBatch(b, e) \/ MutateRefused(b, e)
  BY DEF Edits
<1>0. /\ tip \in [Buffer -> 0..Len(commits)] /\ Root \in Nat /\ live \in [Buffer -> Text]
      /\ redoStack \in [Buffer -> Seq(Nat)] /\ Open \subseteq Buffer
  BY DEF TypeOK, Open, Root
<1>1. ASSUME NEW text \in Text, b \in Open, CommitBuffer(b, text, tip[b]),
             redoStack' = ClearRedo(b) \/ (redoStack' = redoStack /\ text = live[b])
      PROVE  /\ commits' = commits \/ Adds
             /\ \A x \in Open : Stays(x) \/ Extends(x)
  <2>1. commits' = commits \/ Adds
    BY <1>1, CommitTurns
  <2>2. ASSUME NEW x \in Open PROVE Stays(x) \/ Extends(x)
    <3>1. CASE x = b
      <4>1. redoStack'[b] = <<>> \/ (redoStack'[b] = redoStack[b] /\ text = live[b])
        BY <1>0, <1>1 DEF ClearRedo
      <4>2. \/ tip'[b] = tip[b]
            \/ /\ tip'[b] \in 1..Len(commits') /\ tip'[b] \notin lost
               /\ commits'[tip'[b]].parent = tip[b] /\ commits'[tip'[b]].text = text
        BY <1>1, CommitTurns
      <4>3. QED BY <3>1, <4>1, <4>2 DEF Stays, Extends
    <3>2. CASE x # b
      <4>1. redoStack'[x] = redoStack[x]
        BY <1>0, <1>1, <3>2 DEF ClearRedo
      <4>2. tip'[x] = tip[x]
        BY <1>0, <1>1, <3>2, CommitTurns
      <4>3. QED BY <4>1, <4>2 DEF Stays
    <3>3. QED BY <3>1, <3>2
  <2>3. QED BY <2>1, <2>2
<1>2. CASE LoadTree(b)
  BY <1>2 DEF LoadTree, Stays
<1>3. CASE ReloadBuffer(b)
  BY <1>1, <1>3 DEF ReloadBuffer
<1>4. CASE WriteAllSnapshot(b)
  <2>1. b \in Open /\ CommitBuffer(b, live[b], tip[b]) /\ redoStack' = redoStack
        /\ phase' = phase /\ lost' = lost
    BY <1>4 DEF WriteAllSnapshot
  <2>2. live[b] \in Text
    BY <1>0
  <2>3. QED BY <1>1, <2>1, <2>2
<1>5. ASSUME NEW e \in Edit, MutateBatch(b, e)
      PROVE  /\ phase' = phase /\ lost' = lost
             /\ commits' = commits \/ Adds
             /\ \A x \in Open : Stays(x) \/ Extends(x)
  <2>1. Render(Toggle(Loaded(b), e)) \in Text
    BY LoadedType, ToggleType, RenderType
  <2>2. QED BY <1>1, <1>5, <2>1 DEF MutateBatch
<1>6. ASSUME NEW e \in Edit, MutateRefused(b, e)
      PROVE  /\ phase' = phase /\ lost' = lost
             /\ commits' = commits \/ Adds
             /\ \A x \in Open : Stays(x) \/ Extends(x)
  BY <1>6 DEF MutateRefused, Stays
<1>7. QED BY <1>2, <1>3, <1>4, <1>5, <1>6

\* Undo and redo, done or refused: they move on the branch and add no commit.
LEMMA StepsTurn ==
  ASSUME TypeOK, BranchIsolation, Steps
  PROVE  /\ phase' = phase /\ lost' = lost /\ commits' = commits
         /\ \A x \in Open : Turns(x)
<1> USE BoundsAssumption
<1> PICK b \in Buffer, n \in 1..MaxSteps :
      \/ Undo(b, n) \/ UndoAtBeginning(b, n)
      \/ Redo(b, n) \/ RedoPastEnd(b, n) \/ RedoLost(b, n)
  BY DEF Steps
<1>0. /\ tip \in [Buffer -> 0..Len(commits)] /\ redoStack \in [Buffer -> Seq(Nat)]
      /\ Open \subseteq Buffer /\ Top(b) \in Nat /\ b \in Open
  BY DEF TypeOK, Open, Top, Undo, UndoAtBeginning, Redo, RedoPastEnd, RedoLost
<1>1. ASSUME NEW m \in 1..Top(b), Resolves(b, m)
      PROVE  \A i \in (Top(b) + 1 - m)..Top(b) : redoStack[b][i] \notin lost
  <2>1. ASSUME NEW i \in (Top(b) + 1 - m)..Top(b) PROVE redoStack[b][i] \notin lost
    <3>1. Top(b) + 1 - i \in 1..m /\ Top(b) + 1 - (Top(b) + 1 - i) = i
      BY <1>0, <1>1
    <3>2. Popped(b, Top(b) + 1 - i) = redoStack[b][i]
      BY <3>1 DEF Popped, Top
    <3>3. QED BY <1>1, <3>1, <3>2 DEF Resolves
  <2>2. QED BY <2>1
<1>2. \A x \in Open \ {b} : Turns(x)
  <2>1. ASSUME NEW x \in Open \ {b} PROVE tip'[x] = tip[x] /\ redoStack'[x] = redoStack[x]
    BY <1>0 DEF Undo, UndoAtBeginning, Redo, RedoPastEnd, RedoLost, Restore, ClearRedo
  <2>2. QED BY <2>1 DEF Turns, Stays
<1>3. phase' = phase /\ lost' = lost /\ commits' = commits
  BY DEF Undo, UndoAtBeginning, Redo, RedoPastEnd, RedoLost
<1>4. CASE Undo(b, n)
  <2>1. tip[b] \in 1..Len(commits) /\ UndoTarget(b, n) \in History(tip[b])
    BY <1>4, UndoGoesBack DEF Undo
  <2>2. tip'[b] = UndoTarget(b, n) /\ redoStack'[b] = Append(redoStack[b], tip[b])
    BY <1>0, <1>4 DEF Undo, Restore, PushRedo
  <2>3. QED BY <1>2, <1>3, <2>1, <2>2 DEF Turns, Undone
<1>5. CASE UndoAtBeginning(b, n)
  BY <1>2, <1>3, <1>5 DEF UndoAtBeginning, Turns, Stays
<1>6. CASE Redo(b, n)
  <2>1. n \in 1..Top(b) /\ Resolves(b, n)
    BY <1>0, <1>6 DEF Redo, Top
  <2>2. tip'[b] = redoStack[b][Top(b) + 1 - n]
    BY <1>0, <1>6 DEF Redo, Restore, Popped, Top
  <2>3. redoStack'[b] = SubSeq(redoStack[b], 1, Top(b) - n)
    BY <1>0, <1>6 DEF Redo, Top
  <2>4. Redone(b, n)
    BY <1>1, <2>1, <2>2, <2>3 DEF Redone
  <2>5. QED BY <1>2, <1>3, <2>1, <2>4 DEF Turns
<1>7. CASE RedoPastEnd(b, n)
  <2>1. redoStack' = redoStack /\ Resolves(b, Top(b))
    BY <1>7 DEF RedoPastEnd, Top
  <2>2. CASE redoStack[b] = <<>>
    BY <1>2, <1>3, <1>7, <2>2 DEF RedoPastEnd, Turns, Stays
  <2>3. CASE redoStack[b] # <<>>
    <3>1. Top(b) \in 1..Top(b)
      <4>1. redoStack[b] \in Seq(Nat)
        BY <1>0
      <4>2. QED BY <1>0, <2>3, <4>1 DEF Top
    <3>2. tip'[b] = redoStack[b][Top(b) + 1 - Top(b)]
      BY <1>0, <1>7, <2>3 DEF RedoPastEnd, Restore, Popped, Top
    <3>3. Redone(b, Top(b))
      BY <1>1, <2>1, <3>1, <3>2 DEF Redone
    <3>4. QED BY <1>2, <1>3, <3>1, <3>3 DEF Turns
  <2>4. QED BY <2>2, <2>3
<1>8. CASE RedoLost(b, n)
  <2>1. PICK i \in 1..n :
          /\ i <= Top(b) /\ Resolves(b, i - 1)
          /\ IF i = 1 THEN UNCHANGED <<live, tip>> ELSE Restore(b, Popped(b, i - 1))
    BY <1>8 DEF RedoLost, Top
  <2>2. redoStack'[b] = <<>>
    BY <1>0, <1>8 DEF RedoLost, ClearRedo
  <2>3. CASE i = 1
    BY <1>2, <1>3, <2>1, <2>2, <2>3 DEF Turns, Stays
  <2>4. CASE i # 1
    <3>1. i - 1 \in 1..Top(b) /\ Top(b) + 1 - (i - 1) \in 1..Top(b)
      BY <1>0, <2>1, <2>4
    <3>2. tip'[b] = redoStack[b][Top(b) + 1 - (i - 1)]
      BY <1>0, <2>1, <2>4 DEF Restore, Popped, Top
    <3>3. redoStack[b][Top(b) + 1 - (i - 1)] \notin lost
      <4>1. Top(b) + 1 - (i - 1) \in (Top(b) + 1 - (i - 1))..Top(b)
        BY <1>0, <3>1
      <4>2. QED BY <1>1, <2>1, <3>1, <4>1
    <3>4. Stopped(b)
      BY <1>8, <2>2, <3>1, <3>2, <3>3 DEF Stopped
    <3>5. QED BY <1>2, <1>3, <3>4 DEF Turns
  <2>5. QED BY <2>3, <2>4
<1>9. QED BY <1>4, <1>5, <1>6, <1>7, <1>8

\* Opening and closing a buffer.
LEMMA EnterTurn ==
  ASSUME TypeOK, BranchIsolation, Enter
  PROVE  /\ lost' = lost
         /\ commits' = commits \/ Adds
         /\ \A x \in Open' :
              IF x \in Open THEN Stays(x) ELSE redoStack'[x] = <<>> /\ tip'[x] \notin lost
<1>0. /\ tip \in [Buffer -> 0..Len(commits)] /\ redoStack \in [Buffer -> Seq(Nat)]
      /\ phase \in [Buffer -> {"unused", "open", "closed"}]
      /\ Root \notin lost /\ Root \in Nat
  BY DEF TypeOK, Root
<1>1. ASSUME NEW b \in Buffer, NEW text \in Text, EnterSession(b, text)
      PROVE  /\ lost' = lost
             /\ commits' = commits \/ Adds
             /\ \A x \in Open' :
                  IF x \in Open THEN Stays(x) ELSE redoStack'[x] = <<>> /\ tip'[x] \notin lost
  <2>1. CommitBuffer(b, text, Root) /\ redoStack' = redoStack /\ lost' = lost
        /\ phase[b] = "unused" /\ phase' = [phase EXCEPT ![b] = "open"]
    BY <1>1 DEF EnterSession
  <2>2. /\ commits' = commits \/ Adds
        /\ \A x \in Buffer \ {b} : tip'[x] = tip[x]
        /\ tip'[b] = Root \/ tip'[b] \notin lost
    BY <2>1, CommitTurns
  <2>3. b \notin Open /\ Open' = Open \cup {b} /\ Open \subseteq Buffer
    BY <1>0, <2>1 DEF Open
  <2>4. redoStack[b] = <<>>
    BY <2>3 DEF BranchIsolation
  <2>5. QED BY <1>0, <2>1, <2>2, <2>3, <2>4 DEF Stays
<1>2. ASSUME NEW b \in Buffer, OpenBuffer(b) \/ NewBuffer(b)
      PROVE  \E text \in Text : EnterSession(b, text)
  BY <1>2, RenderType DEF OpenBuffer, NewBuffer
<1>3. ASSUME NEW b \in Buffer, CloseBuffer(b)
      PROVE  /\ lost' = lost /\ commits' = commits
             /\ \A x \in Open' : x \in Open /\ Stays(x)
  <2>1. ASSUME NEW x \in Open'
        PROVE  x \in Open /\ tip'[x] = tip[x] /\ redoStack'[x] = redoStack[x]
    BY <1>0, <1>3, <2>1 DEF CloseBuffer, ClearRedo, Open
  <2>2. QED BY <1>3, <2>1 DEF CloseBuffer, Stays
<1>4. QED BY <1>1, <1>2, <1>3 DEF Enter

Pruned ==
  /\ UNCHANGED <<phase, live, commits, tip, redoStack>>
  /\ lost' = lost \cup (1..Len(commits) \ UNION {History(tip[b]) : b \in Open})

\* Every step without a crash is one of these turns for every open buffer.
LEMMA NextTurns ==
  ASSUME TypeOK, BranchIsolation, [Next]_vars, "crash" \notin Faults
  PROVE  /\ lost' = lost \/ Pruned
         /\ commits' = commits \/ Adds
         /\ \A x \in Open' :
              IF x \in Open THEN Turns(x) ELSE redoStack'[x] = <<>> /\ tip'[x] \notin lost'
<1>1. CASE Enter
  BY <1>1, EnterTurn DEF Turns
<1>2. CASE Edits
  BY <1>2, EditsTurn DEF Turns, Open
<1>3. CASE Steps
  BY <1>3, StepsTurn DEF Open
<1>4. CASE Restart \/ UNCHANGED vars
  <2>1. UNCHANGED <<phase, commits, tip, redoStack, lost>>
    BY <1>4 DEF Restart, vars
  <2>2. QED BY <2>1 DEF Turns, Stays, Open
<1>5. CASE PruneCommits
  <2>1. UNCHANGED <<phase, live, commits, tip, redoStack>>
        /\ lost' = lost \cup (1..Len(commits) \ UNION {History(tip[b]) : b \in Open})
    BY <1>5 DEF PruneCommits
  <2>2. QED BY <2>1 DEF Pruned, Turns, Stays, Open
<1>6. CASE Crashes
  BY <1>6 DEF Crashes, CrashInMutate, CrashInReload, CrashInUndo, CrashInRedo
<1>7. QED BY <1>1, <1>2, <1>3, <1>4, <1>5, <1>6 DEF Next

-----------------------------------------------------------------------------
(* The commits that still resolve: with a commit its whole history does,   *)
(* and the branches of the open buffers do.                                *)
Resolvable ==
  /\ \A c \in 1..Len(commits) : c \notin lost => History(c) \cap lost = {}
  /\ \A b \in Open : tip[b] \notin lost

\* All of a commit that resolves is there.
LEMMA PastResolves ==
  ASSUME TypeOK, BranchIsolation, Resolvable, NEW c \in 0..Len(commits), c \notin lost
  PROVE  History(c) \cap lost = {}
<1>1. CASE c = Root
  BY <1>1, HistoryFacts
<1>2. CASE c # Root
  <2>1. c \in 1..Len(commits)
    BY <1>2 DEF Root, TypeOK
  <2>2. QED BY <2>1 DEF Resolvable
<1>3. QED BY <1>1, <1>2

\* Commits are only added.
LEMMA AddsGrow ==
  ASSUME TypeOK, commits' = commits \/ Adds
  PROVE  Grown
<1>1. commits \in Seq(Commit) /\ Len(commits) \in Nat
  BY DEF TypeOK
<1>2. CASE commits' = commits
  BY <1>1, <1>2 DEF Grown
<1>3. CASE Adds
  <2>1. PICK c \in Commit : commits' = Append(commits, c)
    BY <1>3 DEF Adds
  <2>2. Len(commits') = Len(commits) + 1 /\ \A i \in 1..Len(commits) : commits'[i] = commits[i]
    BY <1>1, <2>1
  <2>3. QED BY <1>1, <2>2 DEF Grown
<1>4. QED BY <1>2, <1>3

\* Failing commits and pruning leave the histories that resolve whole.
LEMMA ResolvableKept ==
  ASSUME TypeOK, BranchIsolation, TypeOK', BranchIsolation', Resolvable, [Next]_vars,
         "crash" \notin Faults
  PROVE  Resolvable'
<1>1. Grown /\ \A c \in 0..Len(commits) : History(c)' = History(c)
  BY NextTurns, AddsGrow, HistoryStays
<1>2. /\ commits \in Seq(Commit) /\ Len(commits) \in Nat /\ tip \in [Buffer -> 0..Len(commits)]
      /\ lost \subseteq 1..Len(commits) /\ Open \subseteq Buffer
  BY DEF TypeOK, Open
<1>3. CASE Pruned
  <2>1. /\ commits' = commits /\ tip' = tip /\ Open' = Open
        /\ lost' = lost \cup (1..Len(commits) \ UNION {History(tip[b]) : b \in Open})
    BY <1>3 DEF Pruned, Open
  <2>2. ASSUME NEW c \in 0..Len(commits), NEW b \in Open, c \in History(tip[b])
        PROVE  c \notin lost'
    <3>1. tip[b] \notin lost /\ tip[b] \in 0..Len(commits)
      BY <1>2 DEF Resolvable
    <3>2. History(tip[b]) \cap lost = {}
      BY <3>1, PastResolves
    <3>3. QED BY <2>1, <2>2, <3>2
  <2>3. ASSUME NEW c \in 1..Len(commits), c \notin lost' PROVE History(c) \cap lost' = {}
    <3>1. PICK b \in Open : c \in History(tip[b])
      BY <2>1, <2>3
    <3>2. tip[b] \in 0..Len(commits)
      BY <1>2
    <3>3. History(c) \subseteq History(tip[b]) /\ History(c) \subseteq 0..Len(commits)
      BY <3>1, <3>2, HistoryFacts
    <3>4. QED BY <2>2, <3>3
  <2>4. ASSUME NEW b \in Open PROVE tip[b] \notin lost'
    <3>1. CASE tip[b] = Root
      BY <1>2, <2>1, <3>1 DEF Root
    <3>2. CASE tip[b] # Root
      <4>1. tip[b] \in 1..Len(commits)
        BY <1>2, <3>2 DEF Root
      <4>2. tip[b] \in History(tip[b])
        BY <4>1, HistoryFacts
      <4>3. QED BY <2>2, <4>1, <4>2
    <3>3. QED BY <3>1, <3>2
  <2>5. \A c \in 1..Len(commits) : History(c)' = History(c)
    BY <1>1
  <2>6. QED BY <2>1, <2>3, <2>4, <2>5 DEF Resolvable
<1>4. CASE lost' = lost
  <2>1. ASSUME NEW c \in 1..Len(commits'), c \notin lost' PROVE History(c)' \cap lost' = {}
    <3>1. CASE c \in 1..Len(commits)
      BY <1>1, <1>4, <2>1, <3>1 DEF Resolvable
    <3>2. CASE c \notin 1..Len(commits)
      <4>1. PICK d \in Commit : /\ commits' = Append(commits, d)
                                /\ d.parent = Root \/ \E b \in Open : d.parent = tip[b]
        BY <2>1, <3>2, NextTurns DEF Adds
      <4>2. c = Len(commits) + 1 /\ commits'[c] = d
        BY <1>2, <2>1, <3>2, <4>1
      <4>3. d.parent \in 0..Len(commits) /\ d.parent \notin lost
        BY <1>2, <4>1 DEF Root, Resolvable
      <4>4. History(d.parent) \cap lost = {}
        BY <4>3, PastResolves
      <4>5. History(c)' = {c} \cup History(d.parent)'
        <5>1. Ordered(commits')
          <6>1. Ordered(commits)'
            BY HistoryFacts, PTL
          <6>2. QED BY <6>1 DEF Ordered
        <5>2. Walk(commits')[c] = {c} \cup Walk(commits')[commits'[c].parent]
          BY <2>1, <5>1, WalkSteps
        <5>3. \A i : History(i)' = Walk(commits')[i]
          BY HistoryIsWalk DEF History, Walk, Parent
        <5>4. QED BY <4>2, <5>2, <5>3
      <4>6. QED BY <1>1, <1>4, <2>1, <4>3, <4>4, <4>5
    <3>3. QED BY <3>1, <3>2
  <2>2. ASSUME NEW x \in Open' PROVE tip'[x] \notin lost
    <3>1. CASE x \notin Open
      BY <1>4, <2>2, <3>1, NextTurns
    <3>2. CASE x \in Open
      <4>0. tip[x] \notin lost /\ x \in Buffer /\ Top(x) \in Nat
        BY <1>2, <3>2 DEF Resolvable, Top, TypeOK
      <4>1. Turns(x)
        BY <2>2, <3>2, NextTurns
      <4>2. CASE Stays(x) \/ Extends(x) \/ Stopped(x)
        BY <4>0, <4>2 DEF Stays, Extends, Stopped
      <4>3. CASE Undone(x)
        <5>1. History(tip[x]) \cap lost = {}
          BY <1>2, <4>0, PastResolves
        <5>2. QED BY <4>3, <5>1 DEF Undone
      <4>4. ASSUME NEW n \in 1..Top(x), Redone(x, n) PROVE tip'[x] \notin lost
        <5>1. Top(x) + 1 - n \in (Top(x) + 1 - n)..Top(x)
          BY <4>0
        <5>2. QED BY <4>4, <5>1 DEF Redone
      <4>5. QED BY <4>1, <4>2, <4>3, <4>4 DEF Turns
    <3>3. QED BY <3>1, <3>2
  <2>3. QED BY <1>4, <2>1, <2>2 DEF Resolvable
<1>5. QED BY <1>3, <1>4, NextTurns

-----------------------------------------------------------------------------
(* The trail of a buffer is its redo stack and, last, its tip.  A trail is *)
(* in order when of two commits on it the earlier has every text of the    *)
(* later in its past.  A redo past the end, which leaves the stack under a *)
(* branch that is back at the first entry, breaks that; what remains is    *)
(* that the first entry has those texts, and that a commit that a redo     *)
(* meets on the way has the first entry in its history.                    *)
InOrder(s, H, T) ==
  \A j \in 1..Len(s) : \A i \in 1..(j - 1) :
    \/ T[s[j]] \subseteq T[s[i]]
    \/ T[s[j]] \subseteq T[s[1]] /\ \E k \in (i + 1)..j : s[1] \in H[s[k]]

\* A trail of one is in order.
LEMMA OneInOrder ==
  ASSUME NEW s, Len(s) = 1, NEW H, NEW T
  PROVE  InOrder(s, H, T)
BY DEF InOrder

\* A trail stays in order when the old tip is pushed and the new one has no
\* text in its past that the old one has not.
LEMMA PushInOrder ==
  ASSUME NEW s \in Seq(Nat), Len(s) >= 1, NEW H, NEW T, InOrder(s, H, T),
         NEW c \in Nat, T[c] \subseteq T[s[Len(s)]]
  PROVE  InOrder(Append(s, c), H, T)
<1> DEFINE t == Append(s, c)
<1>0. Len(s) \in Nat /\ Len(t) = Len(s) + 1 /\ t[Len(s) + 1] = c
      /\ \A i \in 1..Len(s) : t[i] = s[i]
  OBVIOUS
<1> HIDE DEF t
<1>1. ASSUME NEW j \in 1..Len(t), NEW i \in 1..(j - 1)
      PROVE  \/ T[t[j]] \subseteq T[t[i]]
             \/ T[t[j]] \subseteq T[t[1]] /\ \E k \in (i + 1)..j : t[1] \in H[t[k]]
  <2>0. i \in 1..Len(s) /\ 1 \in 1..Len(s) /\ t[1] = s[1] /\ t[i] = s[i]
    BY <1>0
  <2>1. ASSUME NEW m \in 1..Len(s), i \in 1..(m - 1), m <= j, T[t[j]] \subseteq T[s[m]]
        PROVE  \/ T[t[j]] \subseteq T[t[i]]
               \/ T[t[j]] \subseteq T[t[1]] /\ \E k \in (i + 1)..j : t[1] \in H[t[k]]
    <3>1. CASE T[s[m]] \subseteq T[s[i]]
      BY <2>0, <2>1, <3>1, Zenon
    <3>2. CASE T[s[m]] \subseteq T[s[1]] /\ \E k \in (i + 1)..m : s[1] \in H[s[k]]
      <4>1. PICK k \in (i + 1)..m : s[1] \in H[s[k]]
        BY <3>2
      <4>0. m \in 1..Len(s) /\ m <= j /\ Len(s) \in Nat /\ j \in Int /\ i \in Nat
        BY <1>0, <2>1
      <4>2. k \in (i + 1)..j /\ k \in 1..Len(s)
        BY <4>0
      <4>3. t[k] = s[k]
        BY <1>0, <4>2
      <4>4. QED BY <2>0, <2>1, <3>2, <4>1, <4>2, <4>3
    <3>3. QED BY <2>1, <3>1, <3>2 DEF InOrder
  <2>2. CASE j \in 1..Len(s)
    <3>1. T[t[j]] \subseteq T[s[j]]
      BY <1>0, <2>2
    <3>2. j \in 1..Len(s) /\ i \in 1..(j - 1) /\ j <= j
      BY <2>2
    <3>3. QED BY <2>1, <3>1, <3>2, Zenon
  <2>3. CASE j = Len(s) + 1 /\ i = Len(s)
    BY <1>0, <2>0, <2>3
  <2>4. CASE j = Len(s) + 1 /\ i # Len(s)
    <3>1. T[t[j]] \subseteq T[s[Len(s)]]
      BY <1>0, <2>4
    <3>2. Len(s) \in 1..Len(s) /\ i \in 1..(Len(s) - 1) /\ Len(s) <= j
      BY <1>0, <2>0, <2>4
    <3>3. QED BY <2>1, <3>1, <3>2
  <2>5. QED BY <1>0, <2>2, <2>3, <2>4
<1>2. QED BY <1>1 DEF InOrder, t

\* So does one of which only the first part is left.
LEMMA PrefixInOrder ==
  ASSUME NEW s, NEW H, NEW T, InOrder(s, H, T), NEW t, Len(s) \in Nat, Len(t) \in Nat,
         Len(t) <= Len(s), \A i \in 1..Len(t) : t[i] = s[i]
  PROVE  InOrder(t, H, T)
<1>1. ASSUME NEW j \in 1..Len(t), NEW i \in 1..(j - 1)
      PROVE  \/ T[t[j]] \subseteq T[t[i]]
             \/ T[t[j]] \subseteq T[t[1]] /\ \E k \in (i + 1)..j : t[1] \in H[t[k]]
  <2>1. j \in 1..Len(s) /\ 1 \in 1..Len(t) /\ i \in 1..Len(t)
    OBVIOUS
  <2>2. \A k \in (i + 1)..j : t[k] = s[k]
    OBVIOUS
  <2>3. \/ T[s[j]] \subseteq T[s[i]]
        \/ T[s[j]] \subseteq T[s[1]] /\ \E k \in (i + 1)..j : s[1] \in H[s[k]]
    BY <2>1 DEF InOrder
  <2>4. t[j] = s[j] /\ t[i] = s[i] /\ t[1] = s[1]
    BY <2>1
  <2>5. QED BY <2>2, <2>3, <2>4
<1>2. QED BY <1>1 DEF InOrder

\* The last commit of a trail is replaced: by one that has the first entry in
\* its history and no text that the first has not, or by a later one with the
\* same texts.
LEMMA LastInOrder ==
  ASSUME NEW r \in Seq(Nat), Len(r) >= 1, NEW H, NEW T, NEW t \in Nat, NEW c \in Nat,
         InOrder(Append(r, t), H, T),
         \/ T[c] \subseteq T[r[1]] /\ r[1] \in H[c]
         \/ T[c] = T[t] /\ H[t] \subseteq H[c]
  PROVE  InOrder(Append(r, c), H, T)
<1> DEFINE s == Append(r, t)
           u == Append(r, c)
<1>0. /\ Len(r) \in Nat /\ Len(s) = Len(r) + 1 /\ Len(u) = Len(r) + 1
      /\ s[Len(r) + 1] = t /\ u[Len(r) + 1] = c
      /\ \A i \in 1..Len(r) : s[i] = r[i] /\ u[i] = r[i]
  OBVIOUS
<1>00. InOrder(s, H, T)
  OBVIOUS
<1> HIDE DEF s, u
<1>1. ASSUME NEW j \in 1..Len(u), NEW i \in 1..(j - 1)
      PROVE  \/ T[u[j]] \subseteq T[u[i]]
             \/ T[u[j]] \subseteq T[u[1]] /\ \E k \in (i + 1)..j : u[1] \in H[u[k]]
  <2>1. /\ i \in 1..Len(r) /\ u[1] = r[1] /\ s[1] = r[1] /\ u[i] = r[i] /\ s[i] = r[i]
        /\ j \in 1..Len(s)
    BY <1>0
  <2>2. \/ T[s[j]] \subseteq T[s[i]]
        \/ T[s[j]] \subseteq T[s[1]] /\ \E k \in (i + 1)..j : s[1] \in H[s[k]]
    BY <1>00, <2>1 DEF InOrder
  <2>3. CASE j \in 1..Len(r)
    <3>1. ASSUME NEW k \in (i + 1)..j PROVE u[k] = s[k]
      <4>1. k \in 1..Len(r)
        BY <1>0, <2>1, <2>3
      <4>2. QED BY <1>0, <4>1
    <3>2. u[j] = s[j]
      BY <1>0, <2>3
    <3>3. QED BY <2>1, <2>2, <3>1, <3>2
  <2>4. CASE j \notin 1..Len(r)
    <3>1. j = Len(r) + 1 /\ u[j] = c /\ s[j] = t /\ j \in (i + 1)..j
      BY <1>0, <2>4
    <3>2. CASE T[c] \subseteq T[r[1]] /\ r[1] \in H[c]
      BY <2>1, <3>1, <3>2
    <3>3. CASE T[c] = T[t] /\ H[t] \subseteq H[c]
      <4>1. CASE T[t] \subseteq T[r[i]]
        BY <2>1, <3>1, <3>3, <4>1
      <4>2. CASE T[t] \subseteq T[r[1]] /\ \E k \in (i + 1)..j : r[1] \in H[s[k]]
        <5>1. PICK k \in (i + 1)..j : r[1] \in H[s[k]]
          BY <4>2
        <5>2. r[1] \in H[u[k]]
          <6>1. CASE k = j
            BY <3>1, <3>3, <5>1, <6>1
          <6>2. CASE k # j
            <7>1. k \in 1..Len(r)
              BY <1>0, <2>1, <3>1, <6>2
            <7>2. QED BY <1>0, <5>1, <7>1
          <6>3. QED BY <6>1, <6>2
        <5>3. QED BY <2>1, <3>1, <3>3, <4>2, <5>2
      <4>3. QED BY <2>1, <2>2, <3>1, <4>1, <4>2
    <3>4. QED BY <3>2, <3>3
  <2>5. QED BY <2>3, <2>4
<1>2. QED BY <1>1 DEF InOrder, u

\* An order only looks at the histories of the commits on the trail.
LEMMA OrderStays ==
  ASSUME NEW s, NEW H, NEW T, NEW HH, NEW TT, InOrder(s, H, T), Len(s) \in Nat,
         \A i \in 1..Len(s) : HH[s[i]] = H[s[i]] /\ TT[s[i]] = T[s[i]]
  PROVE  InOrder(s, HH, TT)
<1>1. ASSUME NEW j \in 1..Len(s), NEW i \in 1..(j - 1)
      PROVE  \/ TT[s[j]] \subseteq TT[s[i]]
             \/ TT[s[j]] \subseteq TT[s[1]] /\ \E k \in (i + 1)..j : s[1] \in HH[s[k]]
  <2>1. 1 \in 1..Len(s) /\ i \in 1..Len(s)
    OBVIOUS
  <2>2. \A k \in (i + 1)..j : k \in 1..Len(s)
    OBVIOUS
  <2>3. \A k \in (i + 1)..j : HH[s[k]] = H[s[k]]
    BY <2>2
  <2>4. TT[s[j]] = T[s[j]] /\ TT[s[i]] = T[s[i]] /\ TT[s[1]] = T[s[1]]
    BY <2>1
  <2>5. QED BY <2>3, <2>4 DEF InOrder
<1>2. QED BY <1>1 DEF InOrder

-----------------------------------------------------------------------------
Trail(b) == Append(redoStack[b], tip[b])

Histories == [c \in 0..Len(commits) |-> History(c)]
Pasts == [c \in 0..Len(commits) |-> Texts(c)]

TrailsInOrder == \A b \in Buffer : InOrder(Trail(b), Histories, Pasts)

\* A trail is a sequence of commits, and the entries of its stack are some.
LEMMA TrailType ==
  ASSUME TypeOK, BranchIsolation, NEW b \in Buffer
  PROVE  /\ redoStack[b] \in Seq(Nat) /\ Top(b) \in Nat /\ tip[b] \in 0..Len(commits)
         /\ \A i \in 1..Top(b) : redoStack[b][i] \in 1..Len(commits)
         /\ Trail(b) \in Seq(Nat) /\ Len(Trail(b)) = Top(b) + 1
         /\ \A i \in 1..Top(b) : Trail(b)[i] = redoStack[b][i]
         /\ Trail(b)[Top(b) + 1] = tip[b]
         /\ \A i \in 1..Len(Trail(b)) : Trail(b)[i] \in 0..Len(commits)
<1>1. redoStack[b] \in Seq(Nat) /\ tip[b] \in 0..Len(commits) /\ tip[b] \in Nat /\ Len(commits) \in Nat
  BY DEF TypeOK
<1>2. Top(b) \in Nat
  BY <1>1 DEF Top
<1>3. \A i \in 1..Top(b) : redoStack[b][i] \in 1..Len(commits)
  BY DEF BranchIsolation, HasSnapshot, Top
<1>4. /\ Trail(b) \in Seq(Nat) /\ Len(Trail(b)) = Top(b) + 1
      /\ \A i \in 1..Top(b) : Trail(b)[i] = redoStack[b][i]
      /\ Trail(b)[Top(b) + 1] = tip[b]
  BY <1>1 DEF Trail, Top
<1>5. ASSUME NEW i \in 1..Len(Trail(b)) PROVE Trail(b)[i] \in 0..Len(commits)
  <2>1. CASE i \in 1..Top(b)
    BY <1>1, <1>3, <1>4, <2>1
  <2>2. CASE i \notin 1..Top(b)
    <3>1. i = Top(b) + 1
      BY <1>2, <1>4, <2>2
    <3>2. QED BY <1>1, <1>4, <3>1
  <2>3. QED BY <2>1, <2>2
<1>6. QED BY <1>1, <1>2, <1>3, <1>4, <1>5

\* An added commit has the texts of its parent and its own, and its history.
ChildPasts ==
  \A c \in 1..Len(commits) :
    /\ commits[c].parent \in 0..Len(commits)
    /\ History(c) = {c} \cup History(commits[c].parent)
    /\ Texts(c) = {commits[c].text} \cup Texts(commits[c].parent)

\* A commit has the texts of its parent in its past.
LEMMA ChildPast ==
  ASSUME TypeOK, BranchIsolation
  PROVE  ChildPasts
<1>1. ASSUME NEW c \in 1..Len(commits)
      PROVE  /\ commits[c].parent \in 0..Len(commits)
             /\ History(c) = {c} \cup History(commits[c].parent)
             /\ Texts(c) = {commits[c].text} \cup Texts(commits[c].parent)
  <2>1. commits[c].parent \in 0..(c - 1) /\ History(c) = {c} \cup History(commits[c].parent)
    BY HistoryFacts DEF Parent
  <2>2. Len(commits) \in Nat
    BY DEF TypeOK
  <2>3. QED BY <2>1, <2>2 DEF Texts, TextsOf
<1>2. QED BY <1>1 DEF ChildPasts

\* No turn takes the trail of a buffer out of order.
LEMMA TrailTurns ==
  ASSUME TypeOK, BranchIsolation, TypeOK', BranchIsolation', RedoMeansCurrent, TrailsInOrder,
         Grown, NEW b \in Open, Turns(b)
  PROVE  InOrder(Trail(b)', Histories', Pasts')
<1>a. PICK H, T, r, s, m, d : /\ H = Histories' /\ T = Pasts' /\ r = redoStack[b]
                              /\ s = Trail(b) /\ m = Top(b) /\ d = tip'[b]
  OBVIOUS
<1>0. /\ b \in Buffer /\ r \in Seq(Nat) /\ m \in Nat /\ m = Len(r) /\ d \in Nat
      /\ s = Append(r, tip[b]) /\ tip[b] \in 0..Len(commits) /\ tip[b] \in Nat
      /\ s \in Seq(Nat) /\ Len(s) = m + 1 /\ Trail(b)' = Append(redoStack'[b], d)
      /\ s[Len(s)] = tip[b]
      /\ \A i \in 1..m : s[i] = r[i] /\ r[i] \in 1..Len(commits)
  <2>1. b \in Buffer /\ d \in Nat
    BY <1>a DEF Open, TypeOK
  <2>2. /\ m = Len(r) /\ s = Append(r, tip[b]) /\ Trail(b)' = Append(redoStack'[b], d)
    BY <1>a DEF Top, Trail
  <2>3. /\ r \in Seq(Nat) /\ m \in Nat /\ tip[b] \in 0..Len(commits)
        /\ s \in Seq(Nat) /\ Len(s) = m + 1 /\ s[m + 1] = tip[b]
        /\ \A i \in 1..m : s[i] = r[i] /\ r[i] \in 1..Len(commits)
    BY <1>a, <2>1, TrailType
  <2>4. tip[b] \in Nat
    BY <2>1 DEF TypeOK
  <2>5. QED BY <2>1, <2>2, <2>3, <2>4
<1>1. /\ \A c \in 0..Len(commits) : H[c] = Histories[c] /\ T[c] = Pasts[c]
      /\ \A c \in 0..Len(commits) : Histories[c] = History(c) /\ Pasts[c] = Texts(c)
      /\ \A c \in 0..Len(commits') : H[c] = History(c)' /\ T[c] = Texts(c)'
  BY <1>a, HistoryStays DEF Histories, Pasts, Grown, TypeOK
<1>b. H[tip[b]] = History(tip[b]) /\ T[tip[b]] = Texts(tip[b])
  BY <1>0, <1>1
<1>2. InOrder(s, H, T)
  <2>1. InOrder(s, Histories, Pasts)
    BY <1>0, <1>a DEF TrailsInOrder
  <2>2. \A i \in 1..Len(s) : s[i] \in 0..Len(commits)
    BY <1>0, <1>a, TrailType
  <2>3. /\ Len(s) \in Nat
        /\ \A i \in 1..Len(s) : H[s[i]] = Histories[s[i]] /\ T[s[i]] = Pasts[s[i]]
    BY <1>0, <1>1, <2>2
  <2>4. QED BY <2>1, <2>3, OrderStays
<1>3. CASE redoStack'[b] = <<>>
  <2>1. Len(Trail(b)') = 1
    BY <1>0, <1>3
  <2>2. QED BY <1>a, <2>1, OneInOrder
<1>4. CASE Stays(b) /\ redoStack'[b] = r
  BY <1>0, <1>2, <1>4, <1>a DEF Stays
<1>5. CASE Extends(b) /\ redoStack'[b] = r /\ r # <<>>
  <2>1. Current(b) /\ commits'[d].text = live[b] /\ commits'[d].parent = tip[b] /\ d \in 1..Len(commits')
    BY <1>5, <1>a DEF Extends, RedoMeansCurrent
  <2>2. tip[b] \in 1..Len(commits) /\ live[b] = commits[tip[b]].text
    BY <2>1 DEF Current, HasSnapshot
  <2>3. /\ History(d)' = {d} \cup History(tip[b])
        /\ Texts(d)' = {live[b]} \cup Texts(tip[b])
    <3>0. PICK p, x : p = tip[b] /\ x = live[b]
      OBVIOUS
    <3>1. History(d)' = {d} \cup History(p)' /\ Texts(d)' = {x} \cup Texts(p)'
      <4>1. ChildPasts'
        BY ChildPast, PTL
      <4>2. QED BY <2>1, <3>0, <4>1 DEF ChildPasts
    <3>2. History(p)' = History(p) /\ Texts(p)' = Texts(p)
      BY <1>0, <3>0, HistoryStays
    <3>3. QED BY <3>0, <3>1, <3>2
  <2>4. live[b] \in Texts(tip[b])
    <3>1. tip[b] \in History(tip[b])
      BY <2>2, HistoryFacts
    <3>2. QED BY <2>2, <3>1 DEF Texts, TextsOf
  <2>5. T[d] = T[tip[b]] /\ H[tip[b]] \subseteq H[d]
    <3>1. d \in 0..Len(commits')
      BY <2>1
    <3>2. H[d] = History(d)' /\ T[d] = Texts(d)'
      BY <1>1, <3>1
    <3>3. QED BY <1>b, <2>3, <2>4, <3>2
  <2>6. Len(r) >= 1
    BY <1>0, <1>5
  <2>7. InOrder(Append(r, d), H, T)
    BY <1>0, <1>2, <2>5, <2>6, LastInOrder
  <2>8. QED BY <1>0, <1>5, <1>a, <2>7
<1>6. CASE Undone(b)
  <2>1. redoStack'[b] = s /\ d \in History(tip[b]) /\ tip[b] \in 1..Len(commits)
    BY <1>0, <1>6, <1>a DEF Undone, Trail
  <2>2. d \in 0..Len(commits) /\ History(d) \subseteq History(tip[b])
    BY <1>0, <2>1, HistoryFacts
  <2>3. Texts(d) \subseteq Texts(tip[b])
    BY <2>2 DEF Texts, TextsOf
  <2>4. T[d] \subseteq T[tip[b]] /\ s[Len(s)] = tip[b]
    <3>1. T[d] = Texts(d)
      BY <1>1, <2>2
    <3>2. QED BY <1>0, <1>b, <2>3, <3>1
  <2>5. InOrder(Append(s, d), H, T)
    <3>1. Len(s) >= 1
      BY <1>0
    <3>2. QED BY <1>0, <1>2, <2>4, <3>1, PushInOrder
  <2>6. QED BY <1>0, <1>a, <2>1, <2>5
<1>7. ASSUME NEW n \in 1..m, Redone(b, n)
      PROVE  InOrder(Trail(b)', Histories', Pasts')
  <2>1. d = r[m + 1 - n]
    BY <1>7, <1>a DEF Redone
  <2>2. CASE redoStack'[b] = SubSeq(r, 1, m - n)
    <3>0. PICK t : t = Append(SubSeq(r, 1, m - n), d)
      OBVIOUS
    <3>1. m - n \in 0..m /\ m - n + 1 \in 1..m
      BY <1>0
    <3>2. Len(t) = m - n + 1 /\ \A i \in 1..Len(t) : t[i] = r[i]
      <4>1. /\ SubSeq(r, 1, m - n) \in Seq(Nat) /\ Len(SubSeq(r, 1, m - n)) = m - n
            /\ \A i \in 1..(m - n) : SubSeq(r, 1, m - n)[i] = r[i]
        <5>1. 1 \in Int /\ m - n \in Int /\ \A i \in 1..(m - n) : r[i] \in Nat
          BY <1>0, <3>1
        <5>2. /\ SubSeq(r, 1, m - n) \in Seq(Nat)
              /\ Len(SubSeq(r, 1, m - n)) = IF 1 <= m - n THEN m - n - 1 + 1 ELSE 0
              /\ \A i \in 1..(m - n - 1 + 1) : SubSeq(r, 1, m - n)[i] = r[1 + i - 1]
          BY <5>1, SubSeqProperties
        <5>3. QED BY <3>1, <5>2
      <4>2. Len(t) = m - n + 1 /\ t[m - n + 1] = d /\ \A i \in 1..(m - n) : t[i] = r[i]
        <5>1. PICK q : q = SubSeq(r, 1, m - n)
          OBVIOUS
        <5>2. PICK k : k = m - n
          OBVIOUS
        <5>3. k \in Nat
          BY <3>1, <5>2
        <5>4. q \in Seq(Nat) /\ Len(q) = k /\ t = Append(q, d) /\ \A i \in 1..k : q[i] = r[i]
          BY <3>0, <4>1, <5>1, <5>2
        <5>5. Len(t) = k + 1 /\ t[k + 1] = d /\ \A i \in 1..k : t[i] = q[i]
          BY <5>3, <5>4
        <5>6. QED BY <5>2, <5>4, <5>5
      <4>3. r[m - n + 1] = d
        BY <1>0, <2>1
      <4>4. QED BY <3>1, <4>2, <4>3
    <3>3. InOrder(t, H, T)
      <4>1. Len(s) \in Nat /\ Len(t) \in Nat /\ Len(t) <= Len(s) /\ \A i \in 1..Len(t) : t[i] = s[i]
        BY <1>0, <3>1, <3>2
      <4>2. QED BY <1>2, <4>1, PrefixInOrder
    <3>4. QED BY <1>0, <1>a, <2>2, <3>0, <3>3
  <2>3. CASE n = m /\ redoStack'[b] = r
    <3>1. d = r[1] /\ Len(r) >= 1 /\ 1 \in 1..m
      BY <1>0, <2>1, <2>3
    <3>2. d \in 1..Len(commits)
      BY <1>0, <3>1
    <3>3. d \in H[d]
      BY <1>1, <3>2, HistoryFacts
    <3>4. InOrder(Append(r, d), H, T)
      BY <1>0, <1>2, <3>1, <3>3, LastInOrder
    <3>5. QED BY <1>0, <1>a, <2>3, <3>4
  <2>4. QED BY <1>7, <1>a, <2>2, <2>3 DEF Redone
<1>8. CASE Extends(b) /\ redoStack'[b] # <<>> 
  BY <1>3, <1>5, <1>8, <1>a DEF Extends
<1>9. QED BY <1>a, <1>3, <1>4, <1>6, <1>7, <1>8 DEF Turns, Stays, Stopped

\* So the trails of all buffers stay in order.
LEMMA TrailsKept ==
  ASSUME TypeOK, BranchIsolation, TypeOK', BranchIsolation', RedoMeansCurrent, TrailsInOrder,
         [Next]_vars, "crash" \notin Faults
  PROVE  TrailsInOrder'
<1>1. Grown
  BY NextTurns, AddsGrow
<1>2. ASSUME NEW b \in Buffer PROVE InOrder(Trail(b)', Histories', Pasts')
  <2>1. CASE b \in Open /\ b \in Open'
    <3>1. Turns(b)
      BY <2>1, NextTurns
    <3>2. QED BY <1>1, <2>1, <3>1, TrailTurns
  <2>2. CASE ~(b \in Open /\ b \in Open')
    <3>1. redoStack'[b] = <<>>
      BY <2>2, NextTurns DEF BranchIsolation
    <3>2. tip'[b] \in Nat
      BY DEF TypeOK
    <3>3. Len(Trail(b)') = 1
      BY <3>1, <3>2 DEF Trail
    <3>4. QED BY <3>3, OneInOrder
  <2>3. QED BY <2>1, <2>2
<1>3. QED BY <1>2 DEF TrailsInOrder

-----------------------------------------------------------------------------
\* What the tip or a stack entry that resolves has in its past is recoverable.
Restorable ==
  \A b \in Open : \A c \in 0..Len(commits) :
    /\ c \notin lost
    /\ c = tip[b] \/ \E i \in 1..Top(b) : c = redoStack[b][i]
    => Texts(c) \subseteq Recoverable(b)

\* What resolves can be restored with all of its past.
LEMMA ResolvableRestores ==
  ASSUME TypeOK, BranchIsolation, Resolvable
  PROVE  Restorable
<1>1. ASSUME NEW b \in Open, NEW c \in 0..Len(commits), c \notin lost,
             c = tip[b] \/ \E i \in 1..Top(b) : c = redoStack[b][i]
      PROVE  Texts(c) \subseteq Recoverable(b)
  <2>1. History(c) \cap lost = {}
    BY <1>1, PastResolves
  <2>2. History(c) \subseteq Past(b) \cup Future(b)
    BY <1>1 DEF Past, Future, Top
  <2>3. QED BY <2>1, <2>2 DEF Texts, TextsOf, Recoverable
<1>2. QED BY <1>1 DEF Restorable

\* One step: the texts that undo could reach can still be reached.
LEMMA KeptStep ==
  ASSUME TypeOK, BranchIsolation, TypeOK', BranchIsolation', Resolvable, Resolvable',
         TrailsInOrder, [Next]_vars, "crash" \notin Faults,
         NEW b \in Open, phase'[b] = "open",
         ~(OutOfOrder(b) /\ \E n \in 1..MaxSteps : RedoLost(b, n))
  PROVE  TextsOf(Past(b)) \subseteq Recoverable(b)'
<1>a. PICK r, s, m, p, d : /\ r = redoStack[b] /\ s = Trail(b) /\ m = Top(b)
                           /\ p = tip[b] /\ d = tip'[b]
  OBVIOUS
<1>0. /\ b \in Buffer /\ b \in Open' /\ p \notin lost /\ m \in Nat /\ m = Len(r)
      /\ p \in 0..Len(commits) /\ d \in 0..Len(commits') /\ r \in Seq(Nat)
      /\ Len(s) = m + 1 /\ s[m + 1] = p
      /\ \A i \in 1..m : s[i] = r[i] /\ r[i] \in 1..Len(commits)
  BY <1>a, TrailType DEF Open, Resolvable, TypeOK, Top
<1>1. /\ \A c \in 0..Len(commits) : Texts(c)' = Texts(c)
      /\ 0..Len(commits) \subseteq 0..Len(commits')
  <2>1. Grown
    BY NextTurns, AddsGrow
  <2>2. QED BY <2>1, HistoryStays DEF Grown, TypeOK
<1>2. SUFFICES Texts(p) \subseteq Recoverable(b)'
  BY <1>a DEF Past, Texts
<1>3. /\ ChildPasts' /\ Restorable'
      /\ \A c \in 0..Len(commits') :
           c \notin lost' /\ (c = d \/ \E i \in 1..Len(redoStack'[b]) : c = redoStack'[b][i])
           => Texts(c)' \subseteq Recoverable(b)'
  <2>1. ChildPasts' /\ Restorable'
    BY ChildPast, ResolvableRestores, PTL
  <2>2. QED BY <1>0, <1>a, <2>1 DEF Restorable, Top
<1>4. d \notin lost'
  BY <1>0, <1>a DEF Resolvable
<1>5. CASE d = p
  BY <1>0, <1>1, <1>3, <1>4, <1>5
<1>6. CASE Extends(b)
  <2>1. d \in 1..Len(commits') /\ commits'[d].parent = p
    BY <1>6, <1>a DEF Extends
  <2>2. Texts(p)' \subseteq Texts(d)'
    BY <1>3, <2>1 DEF ChildPasts
  <2>3. QED BY <1>0, <1>1, <1>3, <1>4, <2>2
<1>7. CASE lost' = lost /\ Undone(b)
  <2>1. redoStack'[b] = Append(r, p)
    BY <1>7, <1>a DEF Undone
  <2>2. m + 1 \in 1..Len(redoStack'[b]) /\ redoStack'[b][m + 1] = p
    BY <1>0, <2>1
  <2>3. QED BY <1>0, <1>1, <1>3, <1>7, <2>2
<1>8. ASSUME lost' = lost, NEW n \in 1..m, Redone(b, n)
      PROVE  Texts(p) \subseteq Recoverable(b)'
  <2>a. PICK i : i = m + 1 - n
    OBVIOUS
  <2>b. i \in 1..m /\ m + 1 - n = i /\ m - n = i - 1
    BY <1>0, <1>8, <2>a
  <2>c. /\ d = r[i] /\ \A k \in i..m : r[k] \notin lost
        /\ redoStack'[b] = SubSeq(r, 1, i - 1) \/ redoStack'[b] = r
    BY <1>8, <1>a, <2>b DEF Redone
  <2>d. m + 1 \in 1..Len(s) /\ i \in 1..(m + 1 - 1) /\ 1 \in 1..m
    BY <1>0, <2>b
  <2>0. /\ i \in 1..m /\ m + 1 \in 1..Len(s) /\ i \in 1..(m + 1 - 1) /\ 1 \in 1..m
        /\ d = r[i] /\ \A k \in i..m : r[k] \notin lost
        /\ redoStack'[b] = SubSeq(r, 1, i - 1) \/ redoStack'[b] = r
    BY <2>b, <2>c, <2>d
  <2>1. /\ d \in 0..Len(commits) /\ r[1] \in 0..Len(commits)
        /\ Texts(d)' = Texts(d) /\ Texts(r[1]) = Pasts[r[1]] /\ Texts(p) = Pasts[p]
        /\ Texts(d) = Pasts[d]
    <3>1. d \in 0..Len(commits) /\ r[1] \in 0..Len(commits)
      <4>1. r[1] \in 1..Len(commits) /\ r[i] \in 1..Len(commits)
        BY <1>0, <2>b, <2>d
      <4>2. 1..Len(commits) \subseteq 0..Len(commits)
        OBVIOUS
      <4>3. QED BY <2>c, <4>1, <4>2
    <3>2. \A c \in 0..Len(commits) : Pasts[c] = Texts(c)
      BY DEF Pasts
    <3>3. QED BY <1>0, <1>1, <3>1, <3>2
  <2>2. \/ Pasts[p] \subseteq Pasts[d]
        \/ Pasts[p] \subseteq Pasts[r[1]] /\ \E k \in (i + 1)..(m + 1) : r[1] \in Histories[s[k]]
    <3>1. InOrder(s, Histories, Pasts)
      BY <1>0, <1>a DEF TrailsInOrder
    <3>a. \A j \in 1..Len(s) : \A h \in 1..(j - 1) :
            \/ Pasts[s[j]] \subseteq Pasts[s[h]]
            \/ Pasts[s[j]] \subseteq Pasts[s[1]] /\ \E k \in (h + 1)..j : s[1] \in Histories[s[k]]
      BY <3>1, Zenon DEF InOrder
    <3>b. PICK j \in 1..Len(s) : j = m + 1
      BY <2>0
    <3>c. i \in 1..(j - 1)
      <4>1. m \in Nat /\ i \in 1..m /\ j = m + 1
        BY <1>0, <2>b, <3>b
      <4>2. QED BY <4>1
    <3>2. \/ Pasts[s[j]] \subseteq Pasts[s[i]]
          \/ Pasts[s[j]] \subseteq Pasts[s[1]] /\ \E k \in (i + 1)..j : s[1] \in Histories[s[k]]
      BY <3>a, <3>c, Zenon
    <3>3. s[m + 1] = p /\ s[i] = d /\ s[1] = r[1]
      <4>1. s[i] = r[i] /\ s[1] = r[1]
        BY <1>0, <2>b, <2>d
      <4>2. QED BY <1>0, <2>c, <4>1
    <3>4. QED BY <3>2, <3>3, <3>b
  <2>3. CASE Pasts[p] \subseteq Pasts[d]
    <3>1. Texts(p) \subseteq Texts(d)'
      BY <2>1, <2>3
    <3>2. Texts(d)' \subseteq Recoverable(b)'
      BY <1>0, <1>3, <1>4
    <3>3. QED BY <3>1, <3>2
  <2>4. CASE /\ Pasts[p] \subseteq Pasts[r[1]]
             /\ \E k \in (i + 1)..(m + 1) : r[1] \in Histories[s[k]]
    <3>1. PICK k \in (i + 1)..(m + 1) : r[1] \in Histories[s[k]]
      BY <2>4
    <3>2. s[k] \notin lost /\ s[k] \in 0..Len(commits)
      <4>1. CASE k = m + 1
        BY <1>0, <4>1
      <4>2. CASE k # m + 1
        <5>1. k \in 1..m /\ k \in i..m
          BY <1>0, <2>0, <4>2
        <5>2. s[k] = r[k] /\ r[k] \in 1..Len(commits) /\ r[k] \notin lost
          BY <1>0, <2>0, <5>1
        <5>3. QED BY <5>2
      <4>3. QED BY <4>1, <4>2
    <3>3. r[1] \notin lost
      <4>1. History(s[k]) \cap lost = {}
        BY <3>2, PastResolves
      <4>2. Histories[s[k]] = History(s[k])
        BY <3>2 DEF Histories
      <4>3. QED BY <3>1, <4>1, <4>2
    <3>4. r[1] = d \/ \E l \in 1..Len(redoStack'[b]) : r[1] = redoStack'[b][l]
      <4>1. CASE i = 1
        BY <2>0, <4>1
      <4>2. CASE i # 1 /\ redoStack'[b] = r
        BY <1>0, <2>0, <4>2
      <4>3. CASE i # 1 /\ redoStack'[b] = SubSeq(r, 1, i - 1)
        <5>1. /\ 1 \in Int /\ i - 1 \in Int /\ 1 <= i - 1
              /\ \A l \in 1..(i - 1) : r[l] \in Nat
          <6>1. i \in Nat /\ m \in Nat /\ i - 1 \in 1..m
            BY <1>0, <2>b, <4>3
          <6>2. ASSUME NEW l \in 1..(i - 1) PROVE r[l] \in Nat
            <7>1. l \in 1..m
              BY <6>1
            <7>2. QED BY <1>0, <7>1
          <6>3. 1 \in Int /\ i - 1 \in Int /\ 1 <= i - 1
            BY <6>1
          <6>4. QED BY <6>2, <6>3
        <5>2. /\ Len(SubSeq(r, 1, i - 1)) = IF 1 <= i - 1 THEN i - 1 - 1 + 1 ELSE 0
              /\ \A l \in 1..(i - 1 - 1 + 1) : SubSeq(r, 1, i - 1)[l] = r[1 + l - 1]
          BY <5>1, SubSeqProperties
        <5>3. 1 \in 1..Len(SubSeq(r, 1, i - 1)) /\ SubSeq(r, 1, i - 1)[1] = r[1]
          BY <5>1, <5>2
        <5>4. QED BY <4>3, <5>3
      <4>4. QED BY <2>0, <4>1, <4>2, <4>3
    <3>5. PICK c : c = r[1]
      OBVIOUS
    <3>6. Texts(c)' \subseteq Recoverable(b)'
      BY <1>1, <1>3, <1>8, <2>1, <3>3, <3>4, <3>5
    <3>7. QED BY <1>1, <2>1, <2>4, <3>5, <3>6
  <2>5. QED BY <2>2, <2>3, <2>4
<1>9. CASE Stopped(b)
  <2>1. PICK i \in 1..m : d = r[i]
    BY <1>9, <1>a DEF Stopped
  <2>2. Texts(p) \subseteq Texts(r[i])
    BY <1>9, <1>0, <1>a, <2>1 DEF Stopped, OutOfOrder, Past, Texts
  <2>3. d \in 0..Len(commits) /\ Texts(p) \subseteq Texts(d)
    BY <1>0, <2>1, <2>2
  <2>4. QED BY <1>0, <1>1, <1>3, <1>4, <2>3
<1>10. CASE Pruned
  BY <1>5, <1>10, <1>a DEF Pruned
<1>11. QED
  <2>1. Turns(b) /\ (lost' = lost \/ Pruned)
    BY <1>0, NextTurns
  <2>2. QED BY <1>5, <1>6, <1>7, <1>8, <1>9, <1>10, <1>a, <2>1 DEF Turns, Stays

\* Without crashes, but with commits that fail and commits that git prunes, no
\* command loses a text that undo could reach: what undo leaves waits on the
\* redo stack, what redo restores has the present text in its past, and an edit
\* extends the branch.  The exception is the redo that HistoryKept names.
THEOREM HistoryIsKept ==
  ASSUME "crash" \notin Faults
  PROVE  Spec => HistoryKept
<1>1. Init => Resolvable /\ TrailsInOrder
  <2>1. ASSUME Init PROVE Resolvable
    BY <2>1 DEF Init, Resolvable, Open
  <2>2. ASSUME Init, NEW b \in Buffer PROVE Len(Trail(b)) = 1
    <3>1. redoStack[b] = <<>> /\ tip[b] \in Nat
      BY <2>2 DEF Init, Root
    <3>2. QED BY <3>1 DEF Trail
  <2>3. QED BY <2>1, <2>2, OneInOrder DEF TrailsInOrder
<1>2. ASSUME TypeOK, BranchIsolation, TypeOK', BranchIsolation', RedoMeansCurrent,
             Resolvable, TrailsInOrder, [Next]_vars
      PROVE  Resolvable' /\ TrailsInOrder'
  BY <1>2, ResolvableKept, TrailsKept
<1>3. ASSUME TypeOK, BranchIsolation, TypeOK', BranchIsolation', Resolvable, Resolvable',
             TrailsInOrder, [Next]_vars
      PROVE  [\A b \in Open :
               phase'[b] = "open" /\ ~(OutOfOrder(b) /\ \E n \in 1..MaxSteps : RedoLost(b, n)) =>
                 TextsOf(Past(b)) \subseteq Recoverable(b)']_vars
  BY <1>3, KeptStep
<1>4. QED BY <1>1, <1>2, <1>3, Invariants, RedoIsSafe, PTL DEF Spec, HistoryKept

-----------------------------------------------------------------------------
(* The logs of commits.                                                    *)
Versions(cs) ==
  CHOOSE f : f = [i \in 0..Len(cs) |->
                    IF i = Root THEN <<>> ELSE Append(f[cs[i].parent], cs[i].text)]

\* There is such a function: what is defined up to a commit can be continued.
LEMMA VersionsExist ==
  ASSUME NEW cs, Ordered(cs)
  PROVE  Versions(cs) = [i \in 0..Len(cs) |->
                           IF i = Root THEN <<>>
                           ELSE Append(Versions(cs)[cs[i].parent], cs[i].text)]
<1> DEFINE Step(f, i) == IF i = Root THEN <<>> ELSE Append(f[cs[i].parent], cs[i].text)
           Recurs(f, n) == f = [i \in 0..n |-> Step(f, i)]
           K == {n \in 0..Len(cs) : ~\E f : Recurs(f, n)}
<1>0. Len(cs) \in Nat /\ Len(cs) \in 0..Len(cs)
  BY DEF Ordered
<1>1. SUFFICES K = {}
  <2>1. \E f : Recurs(f, Len(cs))
    <3> HIDE DEF Recurs
    <3> QED BY <1>0, <1>1
  <2>2. Versions(cs) = CHOOSE f : Recurs(f, Len(cs))
    BY DEF Versions
  <2>3. Recurs(Versions(cs), Len(cs))
    <3> HIDE DEF Recurs
    <3> QED BY <2>1, <2>2
  <2>4. QED BY <2>3
<1>2. SUFFICES ASSUME K # {} PROVE FALSE
  OBVIOUS
<1>3. PICK n \in K : \A m \in K : n <= m
  <2> K \in SUBSET (0..Len(cs))
    OBVIOUS
  <2> HIDE DEF K
  <2> QED BY <1>0, <1>2, LeastNumber
<1>4. n \in 0..Len(cs) /\ ~\E f : Recurs(f, n)
  OBVIOUS
<1>5. CASE n = 0
  <2> DEFINE f == [i \in 0..0 |-> <<>>]
  <2>1. ASSUME NEW i \in 0..0 PROVE f[i] = Step(f, i)
    BY DEF Root
  <2>2. f = [i \in 0..0 |-> f[i]]
    OBVIOUS
  <2> HIDE DEF f, Step
  <2>3. Recurs(f, n)
    BY <1>5, <2>1, <2>2
  <2>4. QED BY <1>4, <2>3
<1>6. CASE n # 0
  <2>1. n - 1 \in 0..Len(cs) /\ n - 1 \notin K /\ n \in Nat /\ n \in 1..Len(cs)
    <3> HIDE DEF K
    <3> QED BY <1>0, <1>3, <1>4, <1>6
  <2>2. PICK f : Recurs(f, n - 1)
    BY <2>1
  <2> DEFINE g == [i \in 0..n |-> IF i = n THEN Step(f, n) ELSE f[i]]
  <2>3. ASSUME NEW i \in 0..n PROVE g[i] = Step(g, i)
    <3>1. ASSUME i # Root PROVE g[cs[i].parent] = f[cs[i].parent]
      <4>1. i \in 1..Len(cs)
        BY <1>0, <2>1, <3>1 DEF Root
      <4>2. cs[i].parent \in 0..(i - 1)
        BY <4>1 DEF Ordered
      <4>3. cs[i].parent \in 0..n /\ cs[i].parent # n
        BY <2>1, <4>2
      <4>4. QED BY <4>3
    <3>2. Step(g, i) = Step(f, i)
      <4> HIDE DEF g
      <4> QED BY <3>1
    <3>3. CASE i = n
      <4> HIDE DEF Step
      <4> QED BY <3>2, <3>3
    <3>4. CASE i # n
      <4>1. i \in 0..(n - 1) /\ g[i] = f[i]
        BY <2>1, <3>4
      <4>2. f[i] = Step(f, i)
        <5> HIDE DEF Step, g
        <5> QED BY <2>2, <4>1
      <4>3. QED BY <3>2, <4>1, <4>2
    <3>5. QED BY <3>3, <3>4
  <2>4. g = [i \in 0..n |-> g[i]]
    OBVIOUS
  <2> HIDE DEF g, Step
  <2>5. Recurs(g, n)
    BY <2>3, <2>4
  <2>6. QED BY <1>4, <2>5
<1>7. QED BY <1>5, <1>6

\* The log of a commit is the log of its parent and the commit's text.
LEMMA VersionsSteps ==
  ASSUME NEW cs, Ordered(cs)
  PROVE  /\ Versions(cs)[Root] = <<>>
         /\ \A i \in 1..Len(cs) :
              Versions(cs)[i] = Append(Versions(cs)[cs[i].parent], cs[i].text)
<1> DEFINE V == Versions(cs)
           Longer(i) == Append(V[cs[i].parent], cs[i].text)
<1>1. V = [i \in 0..Len(cs) |-> IF i = Root THEN <<>> ELSE Longer(i)]
  BY VersionsExist
<1>2. \A i \in 1..Len(cs) : i \in 0..Len(cs) /\ i # Root
  BY DEF Ordered, Root
<1>3. Root \in 0..Len(cs)
  BY DEF Ordered, Root
<1> HIDE DEF V, Longer
<1>4. V[Root] = <<>> /\ \A i \in 1..Len(cs) : V[i] = Longer(i)
  BY <1>1, <1>2, <1>3
<1>5. QED BY <1>4 DEF V, Longer

\* The log of a commit does not depend on later commits.
LEMMA VersionsStay ==
  ASSUME NEW cs, Ordered(cs), NEW ds, Ordered(ds), Len(cs) <= Len(ds),
         \A i \in 1..Len(cs) : ds[i] = cs[i]
  PROVE  \A i \in 0..Len(cs) : Versions(ds)[i] = Versions(cs)[i]
<1> DEFINE K == {i \in 0..Len(cs) : Versions(ds)[i] # Versions(cs)[i]}
<1>1. SUFFICES ASSUME K # {} PROVE FALSE
  OBVIOUS
<1>2. K \in SUBSET (0..Len(cs)) /\ Len(cs) \in Nat /\ Len(ds) \in Nat
  BY DEF Ordered
<1>3. PICK i \in K : \A j \in K : i <= j
  <2> HIDE DEF K
  <2> QED BY <1>1, <1>2, LeastNumber
<1>4. i \in 0..Len(cs) /\ Versions(ds)[i] # Versions(cs)[i]
  OBVIOUS
<1>5. i \in 1..Len(cs) /\ i \in 1..Len(ds)
  <2>1. i # Root
    BY <1>4, VersionsSteps
  <2>2. QED BY <1>2, <1>4, <2>1 DEF Root
<1>6. cs[i].parent \in 0..(i - 1) /\ ds[i] = cs[i]
  BY <1>5 DEF Ordered
<1>7. cs[i].parent \notin K
  <2> HIDE DEF K
  <2> QED BY <1>2, <1>3, <1>5, <1>6
<1>8. Versions(ds)[cs[i].parent] = Versions(cs)[cs[i].parent]
  BY <1>2, <1>5, <1>6, <1>7
<1>9. /\ Versions(ds)[i] = Append(Versions(ds)[ds[i].parent], ds[i].text)
      /\ Versions(cs)[i] = Append(Versions(cs)[cs[i].parent], cs[i].text)
  BY <1>5, VersionsSteps
<1>10. QED BY <1>4, <1>6, <1>8, <1>9

\* A log is a sequence of texts.
LEMMA VersionsType ==
  ASSUME NEW cs, Ordered(cs), \A i \in 1..Len(cs) : cs[i].text \in Text
  PROVE  \A i \in 0..Len(cs) : Versions(cs)[i] \in Seq(Text)
<1> DEFINE K == {i \in 0..Len(cs) : Versions(cs)[i] \notin Seq(Text)}
<1>1. SUFFICES ASSUME K # {} PROVE FALSE
  OBVIOUS
<1>2. K \in SUBSET (0..Len(cs)) /\ Len(cs) \in Nat
  BY DEF Ordered
<1>3. PICK i \in K : \A j \in K : i <= j
  <2> HIDE DEF K
  <2> QED BY <1>1, <1>2, LeastNumber
<1>4. i \in 0..Len(cs) /\ Versions(cs)[i] \notin Seq(Text)
  OBVIOUS
<1>5. i \in 1..Len(cs)
  <2>1. <<>> \in Seq(Text)
    OBVIOUS
  <2>2. i # Root
    BY <1>4, <2>1, VersionsSteps
  <2>3. QED BY <1>2, <1>4, <2>2 DEF Root
<1>6. cs[i].parent \in 0..(i - 1)
  BY <1>5 DEF Ordered
<1>7. cs[i].parent \notin K /\ cs[i].parent \in 0..Len(cs)
  <2> HIDE DEF K
  <2> QED BY <1>2, <1>3, <1>5, <1>6
<1>8. Versions(cs)[cs[i].parent] \in Seq(Text)
  BY <1>7
<1>9. Versions(cs)[i] = Append(Versions(cs)[cs[i].parent], cs[i].text) /\ cs[i].text \in Text
  BY <1>5, VersionsSteps
<1>10. QED BY <1>4, <1>8, <1>9

LEMMA LogIsVersions == \A c : LogOf(c) = Versions(commits)[c]
BY DEF LogOf, Versions, Parent

\* A log ends with the text of its commit, after the log of the parent.
LEMMA LogFacts ==
  ASSUME TypeOK, BranchIsolation
  PROVE  /\ LogOf(Root) = <<>>
         /\ \A c \in 0..Len(commits) : LogOf(c) \in Seq(Text)
         /\ \A c \in 1..Len(commits) :
              /\ Parent(c) \in 0..(c - 1)
              /\ LogOf(c) = Append(LogOf(Parent(c)), commits[c].text)
<1>1. Ordered(commits)
  BY HistoryFacts
<1>2. \A c \in 1..Len(commits) : commits[c].text \in Text
  <2>1. commits \in Seq(Commit)
    BY DEF TypeOK
  <2>2. ASSUME NEW c \in 1..Len(commits) PROVE commits[c].text \in Text
    <3>1. commits[c] \in Commit
      BY <2>1
    <3>2. QED BY <3>1 DEF Commit
  <2>3. QED BY <2>2
<1>3. \A c : LogOf(c) = Versions(commits)[c]
  BY LogIsVersions
<1>4. \A c \in 0..Len(commits) : LogOf(c) \in Seq(Text)
  BY <1>1, <1>2, <1>3, VersionsType
<1>5. LogOf(Root) = <<>>
  BY <1>1, <1>3, VersionsSteps
<1>6. ASSUME NEW c \in 1..Len(commits)
      PROVE  Parent(c) \in 0..(c - 1) /\ LogOf(c) = Append(LogOf(Parent(c)), commits[c].text)
  BY <1>1, <1>3, VersionsSteps DEF Ordered, Parent
<1>7. QED BY <1>4, <1>5, <1>6

-----------------------------------------------------------------------------
\* The n-th ancestor of a tip is a snapshot of the buffer as long as the tip's
\* log has more than n versions; its log is then the tip's without the last n.
LEMMA AncestorLog ==
  ASSUME TypeOK, BranchIsolation, NEW b \in Buffer, NEW n \in 0..MaxSteps
  PROVE  /\ Ancestor(b, n) \in 0..Len(commits)
         /\ n < Len(LogOf(tip[b])) => HasSnapshot(Ancestor(b, n), b)
         /\ Len(LogOf(Ancestor(b, n))) = IF n < Len(LogOf(tip[b])) THEN Len(LogOf(tip[b])) - n ELSE 0
         /\ \A j \in 1..Len(LogOf(Ancestor(b, n))) : LogOf(Ancestor(b, n))[j] = LogOf(tip[b])[j]
<1> USE BoundsAssumption
<1> DEFINE A(i) == Ancestor(b, i)
           L(c) == LogOf(c)
           Good(i) ==
             /\ A(i) \in 0..Len(commits)
             /\ A(i) # Root => HasSnapshot(A(i), b)
             /\ Len(L(A(i))) = IF i < Len(L(tip[b])) THEN Len(L(tip[b])) - i ELSE 0
             /\ \A j \in 1..Len(L(A(i))) : L(A(i))[j] = L(tip[b])[j]
           K == {i \in 0..n : ~Good(i)}
<1>0. /\ Len(commits) \in Nat /\ tip[b] \in 0..Len(commits) /\ n \in Nat
      /\ tip[b] # Root => HasSnapshot(tip[b], b)
  BY DEF TypeOK, BranchIsolation
<1>1. /\ L(Root) = <<>>
      /\ \A c \in 0..Len(commits) : L(c) \in Seq(Text)
      /\ \A c \in 1..Len(commits) : Parent(c) \in 0..(c - 1) /\ L(c) = Append(L(Parent(c)), commits[c].text)
  BY LogFacts
<1>2. A(0) = tip[b] /\ \A i \in 1..MaxSteps : A(i) = IF A(i - 1) = Root THEN Root ELSE Parent(A(i - 1))
  BY AncestorSteps
<1>3. \A c : c # Root /\ HasSnapshot(c, b) /\ Parent(c) # Root => HasSnapshot(Parent(c), b)
  BY DEF HasSnapshot, BranchIsolation
<1>4. Good(0)
  <2> HIDE DEF L, A
  <2>1. L(tip[b]) \in Seq(Text)
    BY <1>0, <1>1
  <2>2. Len(L(tip[b])) \in Nat
    BY <2>1
  <2>3. QED BY <1>0, <1>2, <2>2
<1>5. K = {}
  <2>1. SUFFICES ASSUME K # {} PROVE FALSE
    OBVIOUS
  <2>2. PICK i \in K : \A j \in K : i <= j
    <3> K \in SUBSET (0..n)
      OBVIOUS
    <3> HIDE DEF K
    <3> QED BY <1>0, <2>1, LeastNumber
  <2>3. i \in 0..n /\ ~Good(i)
    OBVIOUS
  <2>4. i # 0
    <3> HIDE DEF Good
    <3> QED BY <1>4, <2>3
  <2>5. i \in 1..n /\ i \in 1..MaxSteps /\ i - 1 \in 0..n /\ i - 1 \notin K
    <3> HIDE DEF K, Good
    <3> QED BY <1>0, <2>2, <2>3, <2>4
  <2>6. Good(i - 1)
    <3> HIDE DEF Good
    <3> QED BY <2>5
  <2> HIDE DEF K
  <2> DEFINE a == A(i - 1)
             t == L(tip[b])
  <2>7. /\ a \in 0..Len(commits)
        /\ a # Root => HasSnapshot(a, b)
        /\ Len(L(a)) = IF i - 1 < Len(t) THEN Len(t) - (i - 1) ELSE 0
        /\ \A j \in 1..Len(L(a)) : L(a)[j] = t[j]
    BY <2>6
  <2>8. A(i) = IF a = Root THEN Root ELSE Parent(a)
    BY <1>2, <2>5
  <2>9. t \in Seq(Text) /\ Len(t) \in Nat
    <3> HIDE DEF L
    <3>1. t \in Seq(Text)
      BY <1>0, <1>1
    <3>2. QED BY <3>1
  <2> HIDE DEF A, L, a, t
  <2>10. Good(i)
    <3>1. CASE a = Root
      <4>1. A(i) = Root /\ Root \in 0..Len(commits) /\ Len(L(Root)) = 0 /\ Len(L(a)) = 0
        BY <1>0, <1>1, <2>8, <3>1 DEF Root
      <4>2. ~(i < Len(t))
        BY <2>5, <2>7, <2>9, <4>1
      <4>3. QED BY <4>1, <4>2 DEF t
    <3>2. CASE a # Root
      <4>1. a \in 1..Len(commits) /\ A(i) = Parent(a)
        BY <1>0, <2>7, <2>8, <3>2 DEF Root
      <4> DEFINE p == L(Parent(a))
      <4>2. Parent(a) \in 0..Len(commits) /\ L(a) = Append(p, commits[a].text) /\ p \in Seq(Text)
        <5>1. Parent(a) \in 0..(a - 1) /\ L(a) = Append(p, commits[a].text)
          BY <1>1, <4>1
        <5>2. Parent(a) \in 0..Len(commits)
          BY <1>0, <4>1, <5>1
        <5>3. QED BY <1>1, <5>1, <5>2
      <4>3. Parent(a) # Root => HasSnapshot(Parent(a), b)
        BY <1>3, <2>7, <3>2
      <4> HIDE DEF p
      <4>4. Len(p) \in Nat /\ Len(L(a)) = Len(p) + 1 /\ \A j \in 1..Len(p) : L(a)[j] = p[j]
        BY <4>2
      <4>5. Len(p) = IF i < Len(t) THEN Len(t) - i ELSE 0
        BY <2>5, <2>7, <2>9, <4>4
      <4>6. \A j \in 1..Len(p) : p[j] = t[j]
        <5>1. \A j \in 1..Len(p) : j \in 1..Len(L(a))
          BY <4>4
        <5>2. QED BY <2>7, <4>4, <5>1
      <4>7. QED BY <4>1, <4>2, <4>3, <4>5, <4>6 DEF p, t
    <3>3. QED BY <3>1, <3>2
  <2>11. QED BY <2>3, <2>10
<1>6. Good(n)
  <2> HIDE DEF Good
  <2> QED BY <1>0, <1>5
<1>7. ASSUME n < Len(L(tip[b])) PROVE A(n) # Root
  <2>1. L(tip[b]) \in Seq(Text)
    BY <1>0, <1>1
  <2>2. Len(L(tip[b])) \in Nat /\ Len(L(A(n))) # 0
    <3> HIDE DEF L, A
    <3>1. Len(L(tip[b])) \in Nat
      BY <2>1
    <3>2. Len(L(A(n))) = Len(L(tip[b])) - n
      BY <1>6, <1>7
    <3>3. QED BY <1>0, <1>7, <3>1, <3>2
  <2>3. Len(L(Root)) = 0
    <3> HIDE DEF L
    <3> QED BY <1>1
  <2> HIDE DEF L, A
  <2>4. QED BY <2>2, <2>3
<1>8. QED BY <1>6, <1>7

\* So undo may take n steps exactly when the log has more than n versions.
LEMMA UndoneSteps ==
  ASSUME TypeOK, BranchIsolation, NEW b \in Buffer, NEW n \in 1..MaxSteps
  PROVE  UndoAllowed(b, n) <=> n < Len(LogOf(tip[b]))
<1> USE BoundsAssumption
<1> DEFINE t == Len(LogOf(tip[b]))
<1>0. tip[b] \in 0..Len(commits) /\ Len(commits) \in Nat /\ n \in Nat
  BY DEF TypeOK
<1>1. t \in Nat
  <2>1. LogOf(tip[b]) \in Seq(Text)
    BY <1>0, LogFacts
  <2>2. QED BY <2>1
<1>2. ASSUME UndoAllowed(b, n) PROVE n < t
  <2>1. Ancestor(b, n) \in 1..Len(commits)
    BY <1>0, <1>2 DEF UndoAllowed, HasSnapshot
  <2>2. LogOf(Ancestor(b, n)) = Append(LogOf(Parent(Ancestor(b, n))), commits[Ancestor(b, n)].text)
        /\ LogOf(Parent(Ancestor(b, n))) \in Seq(Text)
    <3>1. \A c \in 1..Len(commits) : Parent(c) \in 0..Len(commits)
      BY <1>0, LogFacts
    <3>2. QED BY <2>1, <3>1, LogFacts
  <2>3. Len(LogOf(Ancestor(b, n))) # 0
    BY <2>2
  <2>4. Len(LogOf(Ancestor(b, n))) = IF n < t THEN t - n ELSE 0
    BY AncestorLog
  <2>5. QED BY <2>3, <2>4
<1>3. ASSUME n < t PROVE UndoAllowed(b, n)
  <2>1. tip[b] # Root
    <3>1. Len(LogOf(Root)) = 0
      BY LogFacts
    <3>2. QED BY <1>0, <1>1, <1>3, <3>1
  <2>2. ASSUME NEW i \in 1..n PROVE HasSnapshot(Ancestor(b, i), b)
    <3>1. i \in 0..MaxSteps /\ i < t
      BY <1>0, <1>1, <1>3
    <3>2. QED BY <3>1, AncestorLog
  <2>3. QED BY <2>1, <2>2 DEF UndoAllowed
<1>4. QED BY <1>2, <1>3

(* An undo is refused as being at the beginning only when there are not as  *)
(* many versions before the present one (UNDO_AT_BEGINNING), after any       *)
(* faults.                                                                  *)
THEOREM NothingRefusedEarly == Spec => []UndoReachesFirst
<1>1. TypeOK /\ BranchIsolation => UndoReachesFirst
  BY UndoneSteps DEF UndoReachesFirst, Open, Logs
<1>2. QED BY <1>1, Invariants, PTL

-----------------------------------------------------------------------------
(* The refinement: what each step is for UndoLog.                          *)

LEMMA LogsAre ==
  /\ Logs = [b \in Buffer |-> Versions(commits)[tip[b]]]
  /\ UndoneLogs = [b \in Buffer |-> [i \in 1..Len(redoStack[b]) |-> Versions(commits)[redoStack[b][i]]]]
BY LogIsVersions DEF Logs, UndoneLogs

LEMMA LogsWillBe ==
  /\ Logs' = [b \in Buffer |-> Versions(commits')[tip'[b]]]
  /\ UndoneLogs' = [b \in Buffer |->
                      [i \in 1..Len(redoStack'[b]) |-> Versions(commits')[redoStack'[b][i]]]]
BY DEF Logs, UndoneLogs, LogOf, Versions, Parent

\* A step that adds commits, or none, and moves one buffer leaves the logs of
\* the others as they are, and all logs of the commits that were there.
LEMMA OneBuffer ==
  ASSUME TypeOK, BranchIsolation, TypeOK', BranchIsolation', Grown, NEW b \in Buffer,
         \A x \in Buffer \ {b} : tip'[x] = tip[x] /\ redoStack'[x] = redoStack[x]
  PROVE  /\ \A c \in 0..Len(commits) : Versions(commits')[c] = LogOf(c)
         /\ Logs' = [Logs EXCEPT ![b] = Versions(commits')[tip'[b]]]
         /\ UndoneLogs' = [UndoneLogs EXCEPT ![b] =
              [i \in 1..Len(redoStack'[b]) |-> Versions(commits')[redoStack'[b][i]]]]
<1> DEFINE V == Versions(commits)
           W == Versions(commits')
<1>1. Ordered(commits) /\ Ordered(commits')
  <2>1. Ordered(commits)
    BY HistoryFacts
  <2>2. Ordered(commits)'
    BY HistoryFacts, PTL
  <2>3. QED BY <2>1, <2>2 DEF Ordered
<1>2. \A c \in 0..Len(commits) : W[c] = V[c]
  BY <1>1, VersionsStay DEF Grown
<1>3. \A c : LogOf(c) = V[c]
  BY LogIsVersions
<1>4. /\ \A x \in Buffer : tip[x] \in 0..Len(commits)
      /\ \A x \in Buffer : \A i \in 1..Len(redoStack[x]) : redoStack[x][i] \in 0..Len(commits)
  BY DEF TypeOK, BranchIsolation, HasSnapshot
<1>5. /\ Logs = [x \in Buffer |-> V[tip[x]]]
      /\ UndoneLogs = [x \in Buffer |-> [i \in 1..Len(redoStack[x]) |-> V[redoStack[x][i]]]]
  BY LogsAre
<1>6. /\ Logs' = [x \in Buffer |-> W[tip'[x]]]
      /\ UndoneLogs' = [x \in Buffer |-> [i \in 1..Len(redoStack'[x]) |-> W[redoStack'[x][i]]]]
  BY LogsWillBe
<1> HIDE DEF V, W
<1>7. Logs' = [Logs EXCEPT ![b] = W[tip'[b]]]
  <2>1. \A x \in Buffer \ {b} : W[tip'[x]] = V[tip[x]]
    BY <1>2, <1>4
  <2>2. QED BY <1>5, <1>6, <2>1
<1> DEFINE U(x) == [i \in 1..Len(redoStack[x]) |-> V[redoStack[x][i]]]
           U1(x) == [i \in 1..Len(redoStack'[x]) |-> W[redoStack'[x][i]]]
<1>8. ASSUME NEW x \in Buffer \ {b} PROVE U1(x) = U(x)
  <2>1. \A i \in 1..Len(redoStack[x]) : W[redoStack[x][i]] = V[redoStack[x][i]]
    BY <1>2, <1>4
  <2>2. QED BY <2>1
<1>9. UndoneLogs' = [UndoneLogs EXCEPT ![b] = U1(b)]
  <2>1. UndoneLogs = [x \in Buffer |-> U(x)] /\ UndoneLogs' = [x \in Buffer |-> U1(x)]
    BY <1>5, <1>6
  <2> HIDE DEF U, U1
  <2>2. QED BY <1>8, <2>1
<1>10. QED BY <1>2, <1>3, <1>7, <1>9 DEF W

\* Where the commits, the branch and the stack stay, so do the logs.
LEMMA LogsStay ==
  ASSUME UNCHANGED <<commits, tip, redoStack>>
  PROVE  Logs' = Logs /\ UndoneLogs' = UndoneLogs
BY LogsAre, LogsWillBe

\* A commit records a version, at the end of the log it was made from.
LEMMA CommitRecords ==
  ASSUME TypeOK, BranchIsolation, TypeOK', BranchIsolation', NEW b \in Buffer, NEW text \in Text,
         CommitBuffer(b, text, tip[b]), redoStack' \in {redoStack, ClearRedo(b)}
  PROVE  /\ Log!Record(b, text)
         /\ redoStack' = redoStack => UndoneLogs' = UndoneLogs
         /\ redoStack' = ClearRedo(b) => Log!Forget(b)
<1>0. /\ commits \in Seq(Commit) /\ Len(commits) \in Nat /\ tip[b] \in 0..Len(commits)
      /\ tip \in [Buffer -> 0..Len(commits)] /\ redoStack \in [Buffer -> Seq(Nat)]
  BY DEF TypeOK
<1>1. \A x \in Buffer \ {b} : tip'[x] = tip[x] /\ redoStack'[x] = redoStack[x]
  BY <1>0 DEF CommitBuffer, CommitOn, CommitSwallowed, ClearRedo
<1> DEFINE c == NewCommit(b, text, tip[b])
<1>2. \/ commits' = commits /\ tip' = tip /\ "commit" \in Faults
      \/ commits' = Append(commits, c) /\ tip'[b] = Len(commits) + 1
  BY <1>0 DEF CommitBuffer, CommitOn, CommitSwallowed
<1>3. c \in Commit /\ c.parent = tip[b] /\ c.text = text
  BY <1>0 DEF NewCommit, Commit
<1> HIDE DEF c
<1>4. Grown
  <2>1. \A i \in 1..Len(commits) : Append(commits, c)[i] = commits[i]
    BY <1>0, <1>3
  <2>2. Len(Append(commits, c)) = Len(commits) + 1
    BY <1>0, <1>3
  <2>3. CASE commits' = commits
    BY <1>0, <2>3 DEF Grown
  <2>4. CASE commits' = Append(commits, c)
    <3>1. Len(commits) <= Len(commits')
      BY <1>0, <2>2, <2>4
    <3>2. \A i \in 1..Len(commits) : commits'[i] = commits[i]
      BY <2>1, <2>4
    <3>3. QED BY <3>1, <3>2 DEF Grown
  <2>5. QED BY <1>2, <2>3, <2>4
<1> DEFINE W == Versions(commits')
<1>5. /\ \A d \in 0..Len(commits) : W[d] = LogOf(d)
      /\ Logs' = [Logs EXCEPT ![b] = W[tip'[b]]]
      /\ UndoneLogs' = [UndoneLogs EXCEPT ![b] = [i \in 1..Len(redoStack'[b]) |-> W[redoStack'[b][i]]]]
  BY <1>1, <1>4, OneBuffer
<1>6. Logs[b] = LogOf(tip[b]) /\ Logs = [x \in Buffer |-> Logs[x]]
  BY DEF Logs
<1>7. UndoneLogs = [x \in Buffer |-> UndoneLogs[x]]
      /\ UndoneLogs[b] = [i \in 1..Len(redoStack[b]) |-> LogOf(redoStack[b][i])]
  BY DEF UndoneLogs
<1>8. Ordered(commits')
  <2>1. Ordered(commits)'
    BY HistoryFacts, PTL
  <2>2. QED BY <2>1 DEF Ordered
<1>9. Log!Record(b, text)
  <2>1. CASE commits' = commits /\ tip' = tip /\ "commit" \in Faults
    <3>1. W[tip'[b]] = Logs[b]
      BY <1>0, <1>5, <1>6, <2>1
    <3> HIDE DEF W
    <3>2. Logs' = Logs
      BY <1>5, <1>6, <3>1
    <3>3. QED BY <2>1, <3>2 DEF Log!Record
  <2>2. CASE commits' = Append(commits, c) /\ tip'[b] = Len(commits) + 1
    <3>1. Len(commits') = Len(commits) + 1 /\ commits'[Len(commits) + 1] = c
      BY <1>0, <1>3, <2>2
    <3>2. W[Len(commits) + 1] = Append(W[tip[b]], text)
      <4>1. Len(commits) + 1 \in 1..Len(commits')
        BY <1>0, <3>1
      <4>2. W[Len(commits) + 1] = Append(W[commits'[Len(commits) + 1].parent], commits'[Len(commits) + 1].text)
        BY <1>8, <4>1, VersionsSteps
      <4> HIDE DEF W
      <4>3. QED BY <1>3, <3>1, <4>2
    <3> HIDE DEF W
    <3>3. W[tip'[b]] = Append(Logs[b], text)
      BY <1>0, <1>5, <1>6, <2>2, <3>2
    <3>4. Logs' = [Logs EXCEPT ![b] = Append(Logs[b], text)]
      BY <1>5, <3>3
    <3>5. QED BY <3>4 DEF Log!Record
  <2>3. QED BY <1>2, <2>1, <2>2
<1>10. ASSUME redoStack' = redoStack PROVE UndoneLogs' = UndoneLogs
  <2>1. \A i \in 1..Len(redoStack[b]) : redoStack[b][i] \in 0..Len(commits)
    BY DEF BranchIsolation, HasSnapshot
  <2>2. \A i \in 1..Len(redoStack[b]) : W[redoStack[b][i]] = LogOf(redoStack[b][i])
    BY <1>5, <2>1
  <2> HIDE DEF W
  <2>3. [i \in 1..Len(redoStack'[b]) |-> W[redoStack'[b][i]]] = UndoneLogs[b]
    BY <1>7, <1>10, <2>2
  <2>4. QED BY <1>5, <1>7, <2>3
<1>11. ASSUME redoStack' = ClearRedo(b) PROVE Log!Forget(b)
  <2>1. redoStack'[b] = <<>>
    BY <1>0, <1>11 DEF ClearRedo
  <2> HIDE DEF W
  <2>2. [i \in 1..Len(redoStack'[b]) |-> W[redoStack'[b][i]]] = <<>>
    BY <2>1
  <2>3. UndoneLogs' = [UndoneLogs EXCEPT ![b] = <<>>]
    BY <1>5, <2>2
  <2>4. QED BY <2>3 DEF Log!Forget
<1>12. QED BY <1>9, <1>10, <1>11

\* Opening a buffer, or making one.
LEMMA EnterIsEnter ==
  ASSUME TypeOK, BranchIsolation, TypeOK', BranchIsolation', NEW b \in Buffer, NEW text \in Text,
         EnterSession(b, text)
  PROVE  Log!Enter(b)
<1>1. /\ phase[b] = "unused" /\ phase' = [phase EXCEPT ![b] = "open"]
      /\ live' = [live EXCEPT ![b] = text] /\ redoStack' = redoStack
  BY DEF EnterSession
<1>2. b \notin Open /\ Open' = Open \cup {b}
  BY <1>1 DEF Open, TypeOK
<1>3. tip[b] = Root
  BY <1>2 DEF BranchIsolation
<1>4. CommitBuffer(b, text, tip[b])
  BY <1>3 DEF EnterSession
<1>5. Log!Record(b, text) /\ UndoneLogs' = UndoneLogs
  BY <1>1, <1>4, CommitRecords
<1>6. Log!Show(b, text)
  BY <1>1 DEF Log!Show
<1>7. QED BY <1>2, <1>5, <1>6 DEF Log!Enter

\* An edit, or a reload from the server.
LEMMA WriteIsWrite ==
  ASSUME TypeOK, BranchIsolation, TypeOK', BranchIsolation', NEW b \in Open, NEW text \in Text,
         live' = [live EXCEPT ![b] = text], redoStack' = ClearRedo(b), phase' = phase,
         CommitBuffer(b, text, tip[b])
  PROVE  Log!Write(b)
<1>1. b \in Buffer /\ Open' = Open
  BY DEF Open
<1>2. Log!Record(b, text) /\ Log!Forget(b)
  BY <1>1, CommitRecords
<1>3. Log!Show(b, text)
  BY DEF Log!Show
<1>4. QED BY <1>1, <1>2, <1>3 DEF Log!Write

LEMMA SnapshotIsSnapshot ==
  ASSUME TypeOK, BranchIsolation, TypeOK', BranchIsolation', NEW b \in Buffer, WriteAllSnapshot(b)
  PROVE  Log!Snapshot(b)
<1>1. b \in Open /\ CommitBuffer(b, live[b], tip[b]) /\ redoStack' = redoStack
      /\ live' = live /\ Open' = Open
  BY DEF WriteAllSnapshot, Open
<1>2. live[b] \in Text
  BY DEF TypeOK
<1>3. Log!Record(b, live[b]) /\ UndoneLogs' = UndoneLogs
  BY <1>1, <1>2, CommitRecords
<1>4. QED BY <1>1, <1>3 DEF Log!Snapshot

\* A step that adds no commit and moves at most one buffer.
LEMMA OneBufferMoves ==
  ASSUME TypeOK, BranchIsolation, TypeOK', BranchIsolation', commits' = commits, NEW b \in Buffer,
         \A x \in Buffer \ {b} : tip'[x] = tip[x] /\ redoStack'[x] = redoStack[x]
  PROVE  /\ Logs' = [Logs EXCEPT ![b] = LogOf(tip'[b])]
         /\ UndoneLogs' = [UndoneLogs EXCEPT ![b] =
              [i \in 1..Len(redoStack'[b]) |-> LogOf(redoStack'[b][i])]]
<1>1. Grown
  BY DEF Grown, TypeOK
<1>2. \A c : LogOf(c) = Versions(commits')[c]
  BY LogIsVersions
<1>3. /\ Logs' = [Logs EXCEPT ![b] = Versions(commits')[tip'[b]]]
      /\ UndoneLogs' = [UndoneLogs EXCEPT ![b] =
           [i \in 1..Len(redoStack'[b]) |-> Versions(commits')[redoStack'[b][i]]]]
  BY <1>1, OneBuffer
<1>4. QED BY <1>2, <1>3

\* A branch that moves to a snapshot shows the last version of its log.
LEMMA RestoreGoesTo ==
  ASSUME TypeOK, BranchIsolation, TypeOK', BranchIsolation', commits' = commits, NEW b \in Buffer,
         NEW c, HasSnapshot(c, b), Restore(b, c),
         \A x \in Buffer \ {b} : redoStack'[x] = redoStack[x]
  PROVE  Log!GoTo(b, LogOf(c))
<1>0. tip \in [Buffer -> 0..Len(commits)] /\ c \in 1..Len(commits) /\ Len(commits) \in Nat
  BY DEF TypeOK, HasSnapshot
<1>1. tip' = [tip EXCEPT ![b] = c] /\ live' = [live EXCEPT ![b] = commits[c].text]
  BY DEF Restore
<1>2. tip'[b] = c /\ \A x \in Buffer \ {b} : tip'[x] = tip[x]
  BY <1>0, <1>1
<1>3. Logs' = [Logs EXCEPT ![b] = LogOf(c)]
  BY <1>2, OneBufferMoves
<1>4. LogOf(c)[Len(LogOf(c))] = commits[c].text
  <2>1. LogOf(c) = Append(LogOf(Parent(c)), commits[c].text) /\ Parent(c) \in 0..(c - 1)
    BY <1>0, LogFacts
  <2>2. Parent(c) \in 0..Len(commits)
    BY <1>0, <2>1
  <2>3. LogOf(Parent(c)) \in Seq(Text)
    BY <2>2, LogFacts
  <2>4. QED BY <2>1, <2>3
<1>5. QED BY <1>1, <1>3, <1>4 DEF Log!GoTo, Log!Show

\* The log n steps back is the log of the n-th ancestor.
LEMMA BeforeIsAncestor ==
  ASSUME TypeOK, BranchIsolation, NEW b \in Buffer, NEW n \in 1..MaxSteps, UndoAllowed(b, n)
  PROVE  /\ n \in 1..(Len(Logs[b]) - 1)
         /\ HasSnapshot(UndoTarget(b, n), b)
         /\ LogOf(UndoTarget(b, n)) = Log!Before(b, n)
         /\ commits[UndoTarget(b, n)].text = Logs[b][Len(Logs[b]) - n]
<1> USE BoundsAssumption
<1> DEFINE t == LogOf(tip[b])
           a == LogOf(Ancestor(b, n))
<1>0. Logs[b] = t /\ tip[b] \in 0..Len(commits) /\ n \in 0..MaxSteps
  BY DEF Logs, TypeOK
<1>1. HasSnapshot(UndoTarget(b, n), b) /\ UndoTarget(b, n) = Ancestor(b, n)
  BY UndoTargetType DEF UndoTarget
<1>2. t \in Seq(Text) /\ n < Len(t)
  BY <1>0, LogFacts, UndoneSteps
<1>3. /\ Len(a) = IF n < Len(t) THEN Len(t) - n ELSE 0
      /\ \A j \in 1..Len(a) : a[j] = t[j]
  BY <1>0, AncestorLog
<1>4. /\ a \in Seq(Text)
      /\ a[Len(a)] = commits[Ancestor(b, n)].text
  <2>1. Ancestor(b, n) \in 1..Len(commits) /\ Len(commits) \in Nat
    BY <1>1 DEF HasSnapshot, TypeOK
  <2>2. a = Append(LogOf(Parent(Ancestor(b, n))), commits[Ancestor(b, n)].text)
        /\ Parent(Ancestor(b, n)) \in 0..(Ancestor(b, n) - 1)
    BY <2>1, LogFacts
  <2>3. Parent(Ancestor(b, n)) \in 0..Len(commits) /\ Ancestor(b, n) \in 0..Len(commits)
    BY <2>1, <2>2
  <2>4. LogOf(Parent(Ancestor(b, n))) \in Seq(Text) /\ a \in Seq(Text)
    BY <2>3, LogFacts
  <2> HIDE DEF a
  <2>5. QED BY <2>2, <2>4
<1> HIDE DEF t, a
<1>5. Len(t) \in Nat /\ Len(a) = Len(t) - n /\ n \in 1..(Len(t) - 1) /\ Len(t) - n \in 1..Len(t)
  BY <1>2, <1>3
<1>6. a = SubSeq(t, 1, Len(t) - n)
  <2> DEFINE s == SubSeq(t, 1, Len(t) - n)
  <2>1. s \in Seq(Text) /\ Len(s) = Len(t) - n /\ \A j \in 1..(Len(t) - n) : s[j] = t[j]
    BY <1>2, <1>5
  <2> HIDE DEF s
  <2>2. Len(a) = Len(s) /\ \A j \in 1..Len(a) : a[j] = s[j]
    BY <1>3, <1>5, <2>1
  <2>3. a = s
    BY <1>4, <2>1, <2>2, SeqEqual
  <2>4. QED BY <2>3 DEF s
<1>7. commits[Ancestor(b, n)].text = t[Len(t) - n]
  <2>1. Len(a) \in 1..Len(a)
    BY <1>5
  <2>2. a[Len(a)] = t[Len(a)]
    BY <1>3, <2>1
  <2>3. QED BY <1>4, <1>5, <2>2
<1>8. QED BY <1>0, <1>1, <1>5, <1>6, <1>7 DEF Log!Before, a

\* What the logs of a stack are, when it is taken entry by entry.
LEMMA StackLogs ==
  ASSUME TypeOK, BranchIsolation, NEW b \in Buffer
  PROVE  /\ redoStack[b] \in Seq(Nat) /\ Len(redoStack[b]) \in Nat
         /\ UndoneLogs[b] = [i \in 1..Len(redoStack[b]) |-> LogOf(redoStack[b][i])]
         /\ UndoneLogs[b] \in Seq(Seq(Text)) /\ Len(UndoneLogs[b]) = Len(redoStack[b])
         /\ \A n \in 1..Len(redoStack[b]) :
              /\ HasSnapshot(Popped(b, n), b)
              /\ Log!Left(b, n) = LogOf(Popped(b, n))
<1>1. redoStack[b] \in Seq(Nat)
  BY DEF TypeOK
<1>2. Len(redoStack[b]) \in Nat
  BY <1>1
<1>3. UndoneLogs[b] = [i \in 1..Len(redoStack[b]) |-> LogOf(redoStack[b][i])]
  BY DEF UndoneLogs
<1>4. \A i \in 1..Len(redoStack[b]) : LogOf(redoStack[b][i]) \in Seq(Text)
  <2>1. \A i \in 1..Len(redoStack[b]) : redoStack[b][i] \in 0..Len(commits)
    BY DEF BranchIsolation, HasSnapshot
  <2>2. QED BY <2>1, LogFacts
<1>5. UndoneLogs[b] \in Seq(Seq(Text)) /\ Len(UndoneLogs[b]) = Len(redoStack[b])
  BY <1>2, <1>3, <1>4
<1>6. ASSUME NEW n \in 1..Len(redoStack[b])
      PROVE  HasSnapshot(Popped(b, n), b) /\ Log!Left(b, n) = LogOf(Popped(b, n))
  <2>1. Len(redoStack[b]) + 1 - n \in 1..Len(redoStack[b])
    BY <1>2
  <2>2. QED BY <1>3, <1>5, <2>1, PoppedType DEF Log!Left, Popped
<1>7. QED BY <1>1, <1>2, <1>3, <1>5, <1>6

\* A list is what its entries are.
LEMMA ListIs ==
  ASSUME NEW S, NEW n, NEW w \in Seq(S), Len(w) = n
  PROVE  w = [i \in 1..n |-> w[i]]
<1>1. w \in [1..n -> S]
  BY LenProperties
<1>2. QED BY <1>1

\* A cleared stack is a forgotten one.
LEMMA ClearForgets ==
  ASSUME TypeOK, BranchIsolation, TypeOK', BranchIsolation', commits' = commits, NEW b \in Buffer,
         \A x \in Buffer \ {b} : tip'[x] = tip[x], redoStack' = ClearRedo(b)
  PROVE  Log!Forget(b)
<1>1. redoStack'[b] = <<>> /\ \A x \in Buffer \ {b} : redoStack'[x] = redoStack[x]
  BY DEF ClearRedo, TypeOK
<1>2. UndoneLogs' = [UndoneLogs EXCEPT ![b] = [i \in 1..Len(redoStack'[b]) |-> LogOf(redoStack'[b][i])]]
  BY <1>1, OneBufferMoves
<1>3. [i \in 1..Len(redoStack'[b]) |-> LogOf(redoStack'[b][i])] = <<>>
  BY <1>1
<1>4. QED BY <1>2, <1>3 DEF Log!Forget

\* Undo and redo go to the logs that UndoLog has them go to.
LEMMA UndoGoesBefore ==
  ASSUME TypeOK, BranchIsolation, TypeOK', BranchIsolation', NEW b \in Buffer, NEW n \in 1..MaxSteps,
         Undo(b, n)
  PROVE  Log!GoTo(b, Log!Before(b, n)) /\ Logs'[b] = Log!Before(b, n)
<1>1. /\ commits' = commits /\ UndoAllowed(b, n)
      /\ Restore(b, UndoTarget(b, n)) /\ redoStack' = [redoStack EXCEPT ![b] = PushRedo(b)]
  BY DEF Undo
<1>2. redoStack \in [Buffer -> Seq(Nat)]
  BY DEF TypeOK
<1>3. \A x \in Buffer \ {b} : redoStack'[x] = redoStack[x]
  BY <1>1, <1>2
<1>4. HasSnapshot(UndoTarget(b, n), b) /\ LogOf(UndoTarget(b, n)) = Log!Before(b, n)
  BY <1>1, BeforeIsAncestor
<1>5. Log!GoTo(b, Log!Before(b, n))
  BY <1>1, <1>3, <1>4, RestoreGoesTo
<1>6. b \in DOMAIN Logs
  BY DEF Logs
<1>7. QED BY <1>5, <1>6 DEF Log!GoTo

LEMMA RedoGoesTo ==
  ASSUME TypeOK, BranchIsolation, TypeOK', BranchIsolation', NEW b \in Buffer, NEW n \in 1..MaxSteps,
         Redo(b, n)
  PROVE  Log!GoTo(b, Log!Left(b, n)) /\ Logs'[b] = Log!Left(b, n)
<1> USE BoundsAssumption
<1>1. /\ commits' = commits /\ n <= Len(redoStack[b]) /\ Restore(b, Popped(b, n))
      /\ redoStack' = [redoStack EXCEPT ![b] = SubSeq(redoStack[b], 1, Len(redoStack[b]) - n)]
  BY DEF Redo
<1>2. redoStack \in [Buffer -> Seq(Nat)]
  BY DEF TypeOK
<1>3. \A x \in Buffer \ {b} : redoStack'[x] = redoStack[x]
  BY <1>1, <1>2
<1>4. HasSnapshot(Popped(b, n), b) /\ Log!Left(b, n) = LogOf(Popped(b, n))
  <2>1. Len(redoStack[b]) \in Nat
    BY StackLogs
  <2>2. n \in 1..Len(redoStack[b])
    BY <1>1, <2>1
  <2>3. QED BY <2>2, StackLogs
<1>5. Log!GoTo(b, Log!Left(b, n))
  BY <1>1, <1>3, <1>4, RestoreGoesTo
<1>6. b \in DOMAIN Logs
  BY DEF Logs
<1>7. QED BY <1>5, <1>6 DEF Log!GoTo

LEMMA UndoIsUndo ==
  ASSUME TypeOK, BranchIsolation, TypeOK', BranchIsolation', NEW b \in Buffer, NEW n \in 1..MaxSteps,
         Undo(b, n)
  PROVE  Log!Undo(b)
<1>1. /\ b \in Open /\ Open' = Open /\ commits' = commits /\ UndoAllowed(b, n)
      /\ Restore(b, UndoTarget(b, n)) /\ redoStack' = [redoStack EXCEPT ![b] = PushRedo(b)]
  BY DEF Undo, Open
<1>2. /\ redoStack \in [Buffer -> Seq(Nat)] /\ tip \in [Buffer -> 0..Len(commits)] /\ tip[b] \in Nat
      /\ redoStack[b] \in Seq(Nat)
  BY DEF TypeOK
<1>3. \A x \in Buffer \ {b} : tip'[x] = tip[x] /\ redoStack'[x] = redoStack[x]
  BY <1>1, <1>2 DEF Restore
<1>4. n \in 1..(Len(Logs[b]) - 1)
  BY <1>1, BeforeIsAncestor
<1>5. Log!GoTo(b, Log!Before(b, n))
  BY UndoGoesBefore
<1> DEFINE s == redoStack[b]
           u == UndoneLogs[b]
           v == [i \in 1..Len(redoStack'[b]) |-> LogOf(redoStack'[b][i])]
<1>6. redoStack'[b] = Append(s, tip[b])
  BY <1>1, <1>2 DEF PushRedo
<1>7. /\ u = [i \in 1..Len(s) |-> LogOf(s[i])] /\ u \in Seq(Seq(Text)) /\ Len(u) = Len(s)
  BY StackLogs
<1>8. Logs[b] = LogOf(tip[b]) /\ Logs[b] \in Seq(Text)
  BY <1>2, LogFacts DEF Logs
<1>9. v = Append(u, Logs[b])
  <2>1. Len(redoStack'[b]) = Len(s) + 1 /\ redoStack'[b][Len(s) + 1] = tip[b]
        /\ \A i \in 1..Len(s) : redoStack'[b][i] = s[i]
    BY <1>2, <1>6
  <2>2. Len(s) \in Nat
    BY <1>2
  <2>3. v = [i \in 1..(Len(s) + 1) |-> LogOf(redoStack'[b][i])]
    BY <2>1
  <2> HIDE DEF s, u, v
  <2>4. v[Len(s) + 1] = Logs[b] /\ \A i \in 1..Len(s) : v[i] = u[i]
    BY <1>7, <1>8, <2>1, <2>2, <2>3
  <2> DEFINE k == Len(s) + 1
             w == Append(u, Logs[b])
  <2>5. w \in Seq(Seq(Text)) /\ Len(w) = k /\ w[k] = Logs[b] /\ \A i \in 1..Len(s) : w[i] = u[i]
    BY <1>7, <1>8
  <2> HIDE DEF w
  <2>6. \A i \in 1..k : v[i] = w[i]
    <3>1. \A i \in 1..k : i = k \/ i \in 1..Len(s)
      BY <2>2
    <3>2. v[k] = Logs[b] /\ \A i \in 1..Len(s) : v[i] = u[i]
      BY <2>4
    <3>3. w[k] = Logs[b] /\ \A i \in 1..Len(s) : w[i] = u[i]
      BY <2>5
    <3> HIDE DEF k
    <3>4. QED BY <3>1, <3>2, <3>3, Zenon
  <2>7. v = [i \in 1..k |-> LogOf(redoStack'[b][i])]
    BY <2>3
  <2> HIDE DEF k
  <2>8. w = [i \in 1..k |-> w[i]]
    BY <2>5, ListIs
  <2>9. v = w
    <3>1. v = [i \in 1..k |-> v[i]]
      BY <2>7
    <3>2. [i \in 1..k |-> v[i]] = [i \in 1..k |-> w[i]]
      BY <2>6
    <3>3. QED BY <2>8, <3>1, <3>2, Zenon
  <2>10. QED BY <2>9 DEF w
<1>10. UndoneLogs' = [UndoneLogs EXCEPT ![b] = v]
  BY <1>1, <1>3, OneBufferMoves
<1>11. UndoneLogs' = [UndoneLogs EXCEPT ![b] = Append(u, Logs[b])]
  <2> HIDE DEF v, u
  <2> QED BY <1>9, <1>10
<1>12. QED BY <1>1, <1>4, <1>5, <1>11 DEF Log!Undo

LEMMA RedoIsRedo ==
  ASSUME TypeOK, BranchIsolation, TypeOK', BranchIsolation', NEW b \in Buffer, NEW n \in 1..MaxSteps,
         Redo(b, n)
  PROVE  Log!Redo(b)
<1> USE BoundsAssumption
<1>1. /\ b \in Open /\ Open' = Open /\ commits' = commits /\ n <= Len(redoStack[b])
      /\ Restore(b, Popped(b, n))
      /\ redoStack' = [redoStack EXCEPT ![b] = SubSeq(redoStack[b], 1, Len(redoStack[b]) - n)]
  BY DEF Redo, Open
<1>2. redoStack \in [Buffer -> Seq(Nat)] /\ tip \in [Buffer -> 0..Len(commits)]
  BY DEF TypeOK
<1>3. \A x \in Buffer \ {b} : tip'[x] = tip[x] /\ redoStack'[x] = redoStack[x]
  BY <1>1, <1>2 DEF Restore
<1> DEFINE s == redoStack[b]
           u == UndoneLogs[b]
           v == [i \in 1..Len(redoStack'[b]) |-> LogOf(redoStack'[b][i])]
<1>4. /\ s \in Seq(Nat) /\ Len(s) \in Nat /\ n \in 1..Len(s)
      /\ u = [i \in 1..Len(s) |-> LogOf(s[i])] /\ u \in Seq(Seq(Text)) /\ Len(u) = Len(s)
  <2>1. Len(s) \in Nat
    BY StackLogs
  <2>2. n \in 1..Len(s)
    BY <1>1, <2>1
  <2>3. QED BY <2>2, StackLogs
<1>5. Log!GoTo(b, Log!Left(b, n))
  BY RedoGoesTo
<1>6. v = SubSeq(u, 1, Len(u) - n)
  <2>1. redoStack'[b] = SubSeq(s, 1, Len(s) - n)
    BY <1>1, <1>2
  <2>2. /\ Len(redoStack'[b]) = Len(s) - n
        /\ \A i \in 1..(Len(s) - n) : redoStack'[b][i] = s[i]
    BY <1>1, <2>1, PopRedoType
  <2>3. v = [i \in 1..(Len(s) - n) |-> LogOf(redoStack'[b][i])]
    BY <2>2
  <2> HIDE DEF s, u, v
  <2>4. \A i \in 1..(Len(s) - n) : v[i] = u[i]
    <3>1. \A i \in 1..(Len(s) - n) : i \in 1..Len(s)
      BY <1>4
    <3>2. QED BY <1>4, <2>2, <2>3, <3>1
  <2> DEFINE k == Len(s) - n
             w == SubSeq(u, 1, Len(u) - n)
  <2>5. w \in Seq(Seq(Text)) /\ Len(w) = k /\ \A i \in 1..k : w[i] = u[i]
    <3> DEFINE S == Seq(Text)
    <3>1. u \in Seq(S) /\ k \in Nat /\ k <= Len(u) /\ Len(u) - n = k
      BY <1>4
    <3> HIDE DEF S, k
    <3>2. \A t \in Seq(S), m \in Nat : m <= Len(t) =>
            /\ SubSeq(t, 1, m) \in Seq(S)
            /\ Len(SubSeq(t, 1, m)) = m
            /\ \A i \in 1..m : SubSeq(t, 1, m)[i] = t[i]
      BY SubSeqProperties
    <3>3. QED BY <3>1, <3>2 DEF S
  <2> HIDE DEF w
  <2>6. \A i \in 1..k : v[i] = w[i]
    <3>1. \A i \in 1..k : v[i] = u[i]
      BY <2>4
    <3>2. \A i \in 1..k : w[i] = u[i]
      BY <2>5
    <3> HIDE DEF k
    <3>3. QED BY <3>1, <3>2, Zenon
  <2>7. v = [i \in 1..k |-> LogOf(redoStack'[b][i])]
    BY <2>3
  <2> HIDE DEF k
  <2>8. w = [i \in 1..k |-> w[i]]
    BY <2>5, ListIs
  <2>9. v = w
    <3>1. v = [i \in 1..k |-> v[i]]
      BY <2>7
    <3>2. [i \in 1..k |-> v[i]] = [i \in 1..k |-> w[i]]
      BY <2>6
    <3>3. QED BY <2>8, <3>1, <3>2, Zenon
  <2>10. QED BY <2>9 DEF w
<1>7. UndoneLogs' = [UndoneLogs EXCEPT ![b] = v]
  BY <1>1, <1>3, OneBufferMoves
<1>8. UndoneLogs' = [UndoneLogs EXCEPT ![b] = SubSeq(u, 1, Len(u) - n)]
  <2> HIDE DEF v, u
  <2> QED BY <1>6, <1>7
<1>9. n \in 1..Len(UndoneLogs[b])
  BY <1>4
<1>10. QED BY <1>1, <1>5, <1>8, <1>9 DEF Log!Redo

LEMMA PastEndIsPastEnd ==
  ASSUME TypeOK, BranchIsolation, TypeOK', BranchIsolation', NEW b \in Buffer, NEW n \in 1..MaxSteps,
         RedoPastEnd(b, n)
  PROVE  Log!RedoPastEnd(b) \/ UNCHANGED Log!vars
<1>1. /\ b \in Open /\ Open' = Open /\ commits' = commits /\ redoStack' = redoStack
      /\ IF redoStack[b] = <<>> THEN UNCHANGED <<live, tip>>
         ELSE Restore(b, Popped(b, Len(redoStack[b])))
  BY DEF RedoPastEnd, Open
<1>2. CASE redoStack[b] = <<>>
  BY <1>1, <1>2, LogsStay DEF Log!vars
<1>3. CASE redoStack[b] # <<>>
  <2> DEFINE l == Len(redoStack[b])
  <2>1. l \in 1..l /\ redoStack[b] \in Seq(Nat)
    <3>1. redoStack[b] \in Seq(Nat) /\ l \in Nat
      BY StackLogs
    <3>2. l # 0
      BY <1>3, <3>1
    <3>3. QED BY <3>1, <3>2
  <2>2. HasSnapshot(Popped(b, l), b) /\ Log!Left(b, l) = LogOf(Popped(b, l)) /\ Len(UndoneLogs[b]) = l
    BY <2>1, StackLogs
  <2>3. Log!GoTo(b, LogOf(Popped(b, l)))
    BY <1>1, <1>3, <2>2, RestoreGoesTo
  <2>4. Log!Left(b, l) = UndoneLogs[b][1] /\ UndoneLogs[b] # <<>>
    <3> HIDE DEF l
    <3>1. l + 1 - l = 1 /\ l # 0
      BY <2>1
    <3>2. QED BY <2>2, <3>1 DEF Log!Left
  <2>5. Logs \in [Buffer -> Seq(Text)] /\ UndoneLogs' = UndoneLogs
    <3>1. Logs \in [Buffer -> Seq(Text)]
      BY LogFacts DEF Logs, TypeOK
    <3>2. \A x \in Buffer \ {b} : tip'[x] = tip[x]
      BY <1>1, <1>3 DEF Restore, TypeOK
    <3>3. UndoneLogs' = [UndoneLogs EXCEPT ![b] =
            [i \in 1..Len(redoStack[b]) |-> LogOf(redoStack[b][i])]]
      BY <1>1, <3>2, OneBufferMoves
    <3>4. UndoneLogs[b] = [i \in 1..Len(redoStack[b]) |-> LogOf(redoStack[b][i])]
          /\ UndoneLogs = [x \in Buffer |-> UndoneLogs[x]]
      BY DEF UndoneLogs
    <3>5. UndoneLogs' = [UndoneLogs EXCEPT ![b] = UndoneLogs[b]]
      BY <3>3, <3>4
    <3>6. QED BY <3>1, <3>4, <3>5
  <2>6. QED BY <1>1, <2>2, <2>3, <2>4, <2>5 DEF Log!RedoPastEnd
<1>4. QED BY <1>2, <1>3

\* Only what git prunes is lost.
LostByPrune == lost # {} => "prune" \in Faults

LEMMA OnlyPruneLoses == Spec => []LostByPrune
<1>1. Init => LostByPrune
  BY DEF Init, LostByPrune
<1>2. LostByPrune /\ [Next]_vars => LostByPrune'
  <2>1. ASSUME [Next]_vars, ~PruneCommits PROVE lost' = lost
    <3>1. ASSUME NEW b \in Buffer, OpenBuffer(b) \/ NewBuffer(b) \/ CloseBuffer(b) PROVE lost' = lost
      BY <3>1 DEF OpenBuffer, NewBuffer, CloseBuffer, EnterSession
    <3>2. ASSUME Edits PROVE lost' = lost
      BY <3>2 DEF Edits, LoadTree, ReloadBuffer, WriteAllSnapshot, MutateBatch, MutateRefused
    <3>3. ASSUME Steps PROVE lost' = lost
      BY <3>3 DEF Steps, Undo, UndoAtBeginning, Redo, RedoPastEnd, RedoLost
    <3>4. ASSUME Crashes PROVE lost' = lost
      BY <3>4 DEF Crashes, CrashInMutate, CrashInReload, CrashInUndo, CrashInRedo
    <3>5. QED BY <2>1, <3>1, <3>2, <3>3, <3>4 DEF Next, Enter, Restart, vars
  <2>2. QED BY <2>1 DEF LostByPrune, PruneCommits
<1>3. QED BY <1>1, <1>2, PTL DEF Spec

LEMMA LostIsLost ==
  ASSUME TypeOK, BranchIsolation, TypeOK', BranchIsolation', LostByPrune,
         NEW b \in Buffer, NEW n \in 1..MaxSteps, RedoLost(b, n)
  PROVE  Log!RedoLost(b)
<1> USE BoundsAssumption
<1>1. PICK i \in 1..n :
        /\ b \in Open /\ i <= Len(redoStack[b]) /\ Popped(b, i) \in lost
        /\ IF i = 1 THEN UNCHANGED <<live, tip>> ELSE Restore(b, Popped(b, i - 1))
        /\ redoStack' = ClearRedo(b)
        /\ UNCHANGED <<phase, commits, lost>>
  BY DEF RedoLost
<1>2. "prune" \in Faults /\ Open' = Open
  BY <1>1 DEF LostByPrune, Open
<1>3. /\ redoStack[b] \in Seq(Nat) /\ Len(redoStack[b]) \in Nat
      /\ UndoneLogs[b] \in Seq(Seq(Text)) /\ Len(UndoneLogs[b]) = Len(redoStack[b])
  BY StackLogs
<1>4. i \in 1..Len(redoStack[b])
  BY <1>1, <1>3
<1>5. UndoneLogs[b] # <<>>
  BY <1>3, <1>4
<1>6. \A x \in Buffer \ {b} : tip'[x] = tip[x] /\ redoStack'[x] = redoStack[x]
  BY <1>1 DEF Restore, ClearRedo, TypeOK
<1>7. Log!Forget(b)
  BY <1>1, <1>6, ClearForgets
<1>8. CASE i = 1
  <2>1. Logs' = Logs
    BY <1>1, <1>8, LogsAre, LogsWillBe
  <2>2. QED BY <1>1, <1>2, <1>5, <1>7, <1>8, <2>1 DEF Log!RedoLost
<1>9. CASE i # 1
  <2> DEFINE m == i - 1
  <2>1. m \in 1..(Len(UndoneLogs[b]) - 1) /\ m \in 1..Len(redoStack[b])
    BY <1>3, <1>4, <1>9
  <2>2. HasSnapshot(Popped(b, m), b) /\ Log!Left(b, m) = LogOf(Popped(b, m))
    BY <2>1, StackLogs
  <2>3. Restore(b, Popped(b, m))
    BY <1>1, <1>9
  <2> HIDE DEF m
  <2>4. Log!GoTo(b, Log!Left(b, m))
    BY <1>1, <1>6, <2>2, <2>3, RestoreGoesTo
  <2>5. QED BY <1>1, <1>2, <1>5, <1>7, <2>1, <2>4 DEF Log!RedoLost
<1>10. QED BY <1>8, <1>9

LEMMA CloseIsLeave ==
  ASSUME TypeOK, BranchIsolation, TypeOK', BranchIsolation', NEW b \in Buffer, CloseBuffer(b)
  PROVE  Log!Leave(b)
<1>1. /\ b \in Open /\ phase' = [phase EXCEPT ![b] = "closed"] /\ tip' = [tip EXCEPT ![b] = Root]
      /\ redoStack' = ClearRedo(b) /\ UNCHANGED <<live, commits>>
  BY DEF CloseBuffer
<1>2. Open' = Open \ {b}
  BY <1>1 DEF Open, TypeOK
<1>3. tip'[b] = Root /\ \A x \in Buffer \ {b} : tip'[x] = tip[x] /\ redoStack'[x] = redoStack[x]
  BY <1>1 DEF ClearRedo, TypeOK
<1>4. Log!Forget(b)
  BY <1>1, <1>3, ClearForgets
<1>5. Logs' = [Logs EXCEPT ![b] = LogOf(Root)]
  BY <1>1, <1>3, OneBufferMoves
<1>6. LogOf(Root) = <<>>
  BY LogFacts
<1>7. QED BY <1>1, <1>2, <1>4, <1>5, <1>6 DEF Log!Leave

LEMMA CutIsWriteCut ==
  ASSUME TypeOK, BranchIsolation, TypeOK', BranchIsolation', NEW b \in Buffer, NEW e \in Edit,
         CrashInMutate(b, e)
  PROVE  Log!WriteCut(b)
<1> DEFINE text == Render(Toggle(Loaded(b), e))
<1>1. /\ "crash" \in Faults /\ b \in Open /\ live' = [live EXCEPT ![b] = text]
      /\ redoStack' \in {redoStack, ClearRedo(b)} /\ UNCHANGED <<commits, tip>> /\ Open' = Open
  BY DEF CrashInMutate, Open
<1>2. text \in Text
  BY LoadedType, ToggleType, RenderType
<1> HIDE DEF text
<1>3. Log!Show(b, text)
  BY <1>1 DEF Log!Show
<1>4. Logs' = Logs
  BY <1>1, LogsAre, LogsWillBe
<1>5. UndoneLogs' = UndoneLogs \/ Log!Forget(b)
  <2>1. CASE redoStack' = redoStack
    BY <1>1, <2>1, LogsStay
  <2>2. CASE redoStack' = ClearRedo(b)
    BY <1>1, <2>2, ClearForgets
  <2>3. QED BY <1>1, <2>1, <2>2
<1>6. QED BY <1>1, <1>2, <1>3, <1>4, <1>5 DEF Log!WriteCut

LEMMA CutIsUndoCut ==
  ASSUME TypeOK, BranchIsolation, TypeOK', BranchIsolation', NEW b \in Buffer, NEW n \in 1..MaxSteps,
         CrashInUndo(b, n)
  PROVE  Log!UndoCut(b)
<1> DEFINE c == UndoTarget(b, n)
<1>1. /\ "crash" \in Faults /\ b \in Open /\ UndoAllowed(b, n)
      /\ live' = [live EXCEPT ![b] = commits[c].text]
      /\ tip' \in {tip, [tip EXCEPT ![b] = c]}
      /\ UNCHANGED <<commits, redoStack>> /\ Open' = Open
  BY DEF CrashInUndo, Open
<1>2. /\ n \in 1..(Len(Logs[b]) - 1)
      /\ HasSnapshot(c, b) /\ LogOf(c) = Log!Before(b, n)
      /\ commits[c].text = Logs[b][Len(Logs[b]) - n]
  BY <1>1, BeforeIsAncestor
<1> HIDE DEF c
<1>3. CASE tip' = tip
  <2>1. Logs' = Logs /\ UndoneLogs' = UndoneLogs
    BY <1>1, <1>3, LogsStay
  <2>2. Log!Show(b, Logs[b][Len(Logs[b]) - n])
    BY <1>1, <1>2 DEF Log!Show
  <2>3. QED BY <1>1, <1>2, <2>1, <2>2 DEF Log!UndoCut
<1>4. CASE tip' = [tip EXCEPT ![b] = c]
  <2>1. Restore(b, c) /\ \A x \in Buffer \ {b} : tip'[x] = tip[x]
    BY <1>1, <1>4 DEF Restore
  <2>2. Log!GoTo(b, Log!Before(b, n))
    BY <1>1, <1>2, <2>1, RestoreGoesTo
  <2>3. UndoneLogs' = UndoneLogs
    BY <1>1, LogsAre, LogsWillBe
  <2>4. QED BY <1>1, <1>2, <2>2, <2>3 DEF Log!UndoCut
<1>5. QED BY <1>1, <1>3, <1>4

LEMMA ReloadCutIsWriteCut ==
  ASSUME TypeOK, BranchIsolation, TypeOK', BranchIsolation', NEW b \in Buffer, CrashInReload(b)
  PROVE  Log!WriteCut(b)
<1>1. PICK text \in Text : /\ live' = [live EXCEPT ![b] = text]
                           /\ UNCHANGED <<commits, tip>> \/ CommitBuffer(b, text, tip[b])
  BY DEF CrashInReload
<1>2. /\ "crash" \in Faults /\ b \in Open /\ Open' = Open /\ redoStack' = redoStack
  BY DEF CrashInReload, Open
<1>3. Log!Show(b, text)
  BY <1>1 DEF Log!Show
<1>4. CASE UNCHANGED <<commits, tip>>
  <2>1. Logs' = Logs /\ UndoneLogs' = UndoneLogs
    BY <1>2, <1>4, LogsStay
  <2>2. QED BY <1>2, <1>3, <2>1 DEF Log!WriteCut
<1>5. CASE CommitBuffer(b, text, tip[b])
  <2>1. Log!Record(b, text) /\ UndoneLogs' = UndoneLogs
    BY <1>2, <1>5, CommitRecords
  <2>2. QED BY <1>2, <1>3, <2>1 DEF Log!WriteCut
<1>6. QED BY <1>1, <1>4, <1>5

LEMMA CutIsRedoCut ==
  ASSUME TypeOK, BranchIsolation, TypeOK', BranchIsolation', NEW b \in Buffer, NEW n \in 1..MaxSteps,
         CrashInRedo(b, n)
  PROVE  Log!RedoCut(b)
<1> DEFINE c == Popped(b, n)
<1>1. /\ "crash" \in Faults /\ b \in Open /\ n <= Len(redoStack[b])
      /\ live' = [live EXCEPT ![b] = commits[c].text]
      /\ \/ tip' = [tip EXCEPT ![b] = c]
         \/ tip' = IF n = 1 THEN tip ELSE [tip EXCEPT ![b] = Popped(b, n - 1)]
      /\ UNCHANGED <<commits, redoStack>> /\ Open' = Open
  BY DEF CrashInRedo, Open
<1>2. /\ Len(redoStack[b]) \in Nat /\ Len(UndoneLogs[b]) = Len(redoStack[b])
      /\ n \in 1..Len(redoStack[b]) /\ (n # 1 => n - 1 \in 1..Len(redoStack[b]))
  <2>1. Len(redoStack[b]) \in Nat /\ Len(UndoneLogs[b]) = Len(redoStack[b])
    BY StackLogs
  <2>2. n \in Nat /\ n >= 1
    BY BoundsAssumption
  <2>3. QED BY <1>1, <2>1, <2>2
<1>3. HasSnapshot(c, b) /\ Log!Left(b, n) = LogOf(c)
  BY <1>2, StackLogs
<1>4. LogOf(c)[Len(LogOf(c))] = commits[c].text
  <2>1. c \in 1..Len(commits)
    BY <1>3 DEF HasSnapshot
  <2>2. Parent(c) \in 0..(c - 1) /\ LogOf(c) = Append(LogOf(Parent(c)), commits[c].text)
    BY <2>1, LogFacts
  <2>3. Parent(c) \in 0..Len(commits) /\ Len(commits) \in Nat
    BY <2>1, <2>2 DEF TypeOK
  <2>4. LogOf(Parent(c)) \in Seq(Text)
    BY <2>3, LogFacts
  <2> DEFINE p == LogOf(Parent(c))
             t == commits[c].text
  <2>5. p \in Seq(Text) /\ LogOf(c) = Append(p, t)
    BY <2>2, <2>4
  <2> HIDE DEF p, t
  <2>6. Append(p, t)[Len(Append(p, t))] = t
    BY <2>5
  <2>7. QED BY <2>5, <2>6 DEF t
<1> HIDE DEF c
<1>5. UndoneLogs' = UndoneLogs
  BY <1>1, LogsAre, LogsWillBe
<1>6. Log!Show(b, Log!Left(b, n)[Len(Log!Left(b, n))])
  BY <1>1, <1>3, <1>4 DEF Log!Show
<1>7. CASE tip' = [tip EXCEPT ![b] = c]
  <2>1. Restore(b, c) /\ \A x \in Buffer \ {b} : tip'[x] = tip[x]
    BY <1>1, <1>7 DEF Restore
  <2>2. Log!GoTo(b, Log!Left(b, n))
    BY <1>1, <1>3, <2>1, RestoreGoesTo
  <2>3. QED BY <1>1, <1>2, <1>5, <2>2 DEF Log!RedoCut
<1>8. CASE n = 1 /\ tip' = tip
  <2>1. Logs' = Logs
    BY <1>1, <1>8, LogsStay
  <2>2. QED BY <1>1, <1>2, <1>5, <1>6, <1>8, <2>1 DEF Log!RedoCut
<1>9. CASE n # 1 /\ tip' = [tip EXCEPT ![b] = Popped(b, n - 1)]
  <2>1. tip'[b] = Popped(b, n - 1) /\ \A x \in Buffer \ {b} : tip'[x] = tip[x]
    BY <1>9 DEF TypeOK
  <2>2. Logs' = [Logs EXCEPT ![b] = LogOf(tip'[b])]
    BY <1>1, <2>1, OneBufferMoves
  <2>3. LogOf(Popped(b, n - 1)) = Log!Left(b, n - 1)
    BY <1>2, <1>9, StackLogs
  <2>4. Logs' = [Logs EXCEPT ![b] = Log!Left(b, n - 1)]
    BY <2>1, <2>2, <2>3
  <2>5. QED BY <1>1, <1>2, <1>5, <1>6, <1>9, <2>4 DEF Log!RedoCut
<1>10. QED BY <1>1, <1>7, <1>8, <1>9

LEMMA StartsAsLog == Init => Log!Init
<1> SUFFICES ASSUME Init PROVE Log!Init
  OBVIOUS
<1>1. TypeOK /\ BranchIsolation
  BY InitType, InitIsolation
<1>2. LogOf(Root) = <<>>
  BY <1>1, LogFacts
<1>3. Logs = [b \in Buffer |-> <<>>]
  BY <1>2 DEF Init, Logs
<1>4. UndoneLogs = [b \in Buffer |-> <<>>]
  <2>1. ASSUME NEW b \in Buffer PROVE [i \in 1..Len(redoStack[b]) |-> LogOf(redoStack[b][i])] = <<>>
    BY DEF Init
  <2>2. QED BY <2>1 DEF UndoneLogs
<1>5. Open = {} /\ live \in [Buffer -> Text]
  BY <1>1 DEF Init, Open, TypeOK
<1>6. QED BY <1>3, <1>4, <1>5 DEF Log!Init

LEMMA StepsAsLog ==
  ASSUME TypeOK, BranchIsolation, TypeOK', BranchIsolation', LostByPrune, [Next]_vars
  PROVE  [Log!Next]_(Log!vars)
<1>1. ASSUME UNCHANGED <<phase, live, commits, tip, redoStack>> PROVE UNCHANGED Log!vars
  <2>1. Open' = Open
    BY <1>1 DEF Open
  <2>2. QED BY <1>1, <2>1, LogsStay DEF Log!vars
<1>2. CASE UNCHANGED vars
  BY <1>1, <1>2 DEF vars
<1>3. CASE Enter
  <2>1. ASSUME NEW b \in Buffer, OpenBuffer(b) \/ NewBuffer(b) PROVE Log!Enter(b)
    <3>1. PICK text \in Text : EnterSession(b, text)
      BY <2>1, RenderType DEF OpenBuffer, NewBuffer
    <3>2. QED BY <3>1, EnterIsEnter
  <2>2. QED BY <1>3, <2>1, CloseIsLeave DEF Enter, Log!Next
<1>4. CASE Edits
  <2> PICK b \in Buffer : \/ LoadTree(b) \/ ReloadBuffer(b) \/ WriteAllSnapshot(b)
                          \/ \E e \in Edit : MutateBatch(b, e) \/ MutateRefused(b, e)
    BY <1>4 DEF Edits
  <2>1. ASSUME LoadTree(b) \/ \E e \in Edit : MutateRefused(b, e) PROVE UNCHANGED Log!vars
    BY <1>1, <2>1 DEF LoadTree, MutateRefused
  <2>2. ASSUME ReloadBuffer(b) PROVE Log!Write(b)
    BY <2>2, WriteIsWrite DEF ReloadBuffer
  <2>3. ASSUME NEW e \in Edit, MutateBatch(b, e) PROVE Log!Write(b)
    <3>1. Render(Toggle(Loaded(b), e)) \in Text
      BY LoadedType, ToggleType, RenderType
    <3>2. QED BY <2>3, <3>1, WriteIsWrite DEF MutateBatch
  <2>4. QED BY <2>1, <2>2, <2>3, SnapshotIsSnapshot DEF Log!Next
<1>5. CASE Steps
  <2> PICK b \in Buffer, n \in 1..MaxSteps :
        \/ Undo(b, n) \/ UndoAtBeginning(b, n)
        \/ Redo(b, n) \/ RedoPastEnd(b, n) \/ RedoLost(b, n)
    BY <1>5 DEF Steps
  <2>1. ASSUME UndoAtBeginning(b, n) PROVE UNCHANGED Log!vars
    BY <1>1, <2>1 DEF UndoAtBeginning
  <2>2. QED BY <2>1, UndoIsUndo, RedoIsRedo, PastEndIsPastEnd, LostIsLost DEF Log!Next
<1>6. CASE Restart \/ PruneCommits
  BY <1>1, <1>6 DEF Restart, PruneCommits
<1>7. CASE Crashes
  BY <1>7, CutIsWriteCut, ReloadCutIsWriteCut, CutIsUndoCut, CutIsRedoCut
     DEF Crashes, Log!Next
<1>8. QED BY <1>2, <1>3, <1>4, <1>5, <1>6, <1>7 DEF Next

(* BufferHistory implements UndoLog, for any buffers, edits and faults: the *)
(* commits and branches that the buffers of a session share give each a     *)
(* linear history that undo and redo move in.                               *)
THEOREM HistoryRefinesLog == Spec => HistoryIsLog
<1>1. /\ TypeOK /\ BranchIsolation /\ TypeOK' /\ BranchIsolation'
      /\ LostByPrune /\ [Next]_vars
      => [Log!Next]_(Log!vars)
  BY StepsAsLog
<1>2. QED BY <1>1, StartsAsLog, Invariants, OnlyPruneLoses, PTL DEF Spec, HistoryIsLog, Log!Spec

(* In that history undo and redo of n steps go n versions back and n undos  *)
(* forward.                                                                 *)
THEOREM UndoCountsSteps == Spec => StepsCounted
<1> DEFINE A == /\ UndoReachesFirst
                /\ \A b \in Open, n \in 1..MaxSteps :
                     /\ Undo(b, n) => Logs'[b] = Log!Before(b, n)
                     /\ Redo(b, n) => Logs'[b] = Log!Left(b, n)
<1>1. ASSUME TypeOK, BranchIsolation, TypeOK', BranchIsolation', NEW b \in Buffer,
             NEW n \in 1..MaxSteps, Undo(b, n)
      PROVE  Logs'[b] = Log!Before(b, n)
  BY <1>1, UndoGoesBefore
<1>2. ASSUME TypeOK, BranchIsolation, TypeOK', BranchIsolation', NEW b \in Buffer,
             NEW n \in 1..MaxSteps, Redo(b, n)
      PROVE  Logs'[b] = Log!Left(b, n)
  BY <1>2, RedoGoesTo
<1>3. TypeOK /\ BranchIsolation /\ TypeOK' /\ BranchIsolation' /\ UndoReachesFirst => A
  BY <1>1, <1>2 DEF Open
<1>4. QED BY <1>3, Invariants, NothingRefusedEarly, PTL DEF StepsCounted, Spec
=============================================================================
