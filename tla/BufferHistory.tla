--------------------------- MODULE BufferHistory ---------------------------
(***************************************************************************)
(* The edit history of the buffers of one editor session: the live buffer  *)
(* file, the per-buffer branch of the session git repository, the redo     *)
(* stack kept in ses_settings.json, and the formatter tree that            *)
(* SessionManager caches between commands.                                 *)
(*                                                                         *)
(* Every action is one command handler, run to its end: the commands are   *)
(* coroutines with synchronous bodies, so two of them never interleave.    *)
(* What does interleave with them is in Faults: a commit that fails and is *)
(* swallowed, undone commits that git prunes, and a crash of the editor    *)
(* between two of the writes that a handler makes.                         *)
(*                                                                         *)
(* A file's text is abstracted to the set of edits it contains and to      *)
(* whether it still has the layout it was opened with: a formatter parses  *)
(* the edits out of a text and renders a tree in its own layout only.      *)
(***************************************************************************)
EXTENDS Naturals, Sequences

CONSTANTS Buffer,      \* buffer ids; each is allocated (uuid4) at most once
          Edit,        \* the edits a text may contain
          Faults,      \* which of "commit", "prune" and "crash" may happen
          MaxCommits,  \* bound on the commits of the session repository
          MaxRedo,     \* bound on the length of a redo stack
          MaxSteps     \* bound on the steps argument of undo and redo

ASSUME BoundsAssumption == /\ MaxCommits \in Nat
                           /\ MaxRedo \in Nat
                           /\ MaxSteps \in Nat

ASSUME FaultsAssumption == Faults \subseteq {"commit", "prune", "crash"}

VARIABLES
  phase,      \* buffer -> "unused", "open" (listed in open_buffers) or "closed"
  live,       \* buffer -> text of the live buffer file
  commits,    \* the commits of the session repository; 0 is "session: init"
  tip,        \* buffer -> commit its branch buf/<buffer_id> points to
  redoStack,  \* buffer -> commits undone, the last one undone at the end
  tree,       \* the dict _buffer_cache: buffer -> edits in the formatter tree
  lost        \* commits that no longer resolve

vars == <<phase, live, commits, tip, redoStack, tree, lost>>

Tree == SUBSET Edit
Text == [edits : Tree, raw : BOOLEAN]
Root == 0
Commit == [owner : Buffer, parent : Nat, text : Text]

\* formatter.parse keeps the edits; formatter.render writes its own layout.
Render(t) == [edits |-> t, raw |-> FALSE]
Toggle(t, e) == (t \ {e}) \cup ({e} \ t)

Open == {b \in Buffer : phase[b] = "open"}

\* The tree _get_buffer_context hands to a handler: the cached one if there is
\* one, else the live file parsed.
Loaded(b) == IF b \in DOMAIN tree THEN tree[b] ELSE live[b].edits

\* The cache with t stored for b.
Cached(b, t) == [x \in DOMAIN tree \cup {b} |-> IF x = b THEN t ELSE tree[x]]

\* Commit c holds a snapshot of buffer b: the root commit is empty, and a
\* commit's tree has the one file of the buffer it was made for.
HasSnapshot(c, b) == c \in 1..Len(commits) /\ commits[c].owner = b

Parent(c) == commits[c].parent

\* The n-th ancestor of b's branch, walking commit.parents.
Ancestor(b, n) ==
  LET back[i \in 0..MaxSteps] ==
        IF i = 0 THEN tip[b]
        ELSE IF back[i - 1] = Root THEN Root ELSE Parent(back[i - 1])
  IN back[n]

\* An undo that goes one step, however many are asked for.
UndoTargetOne(b, n) == Ancestor(b, 1)

UndoTarget(b, n) == Ancestor(b, n)

\* Refused with UNDO_AT_BEGINNING unless every step lands on a snapshot of b.
UndoAllowed(b, n) ==
  /\ tip[b] # Root
  /\ \A i \in 1..n : HasSnapshot(Ancestor(b, i), b)

\* A redo stack served from the wrong end.
PoppedFirst(b, i) == redoStack[b][i]

\* The i-th entry a redo pops.
Popped(b, i) == redoStack[b][Len(redoStack[b]) + 1 - i]

\* A redo entry read after the branch has moved.
PushTarget(b) == Append(redoStack[b], Ancestor(b, 1))

\* The redo stack an undo stores: the commit it leaves on top.
PushRedo(b) == Append(redoStack[b], tip[b])

\* A write that leaves the redo stack as it was.
KeepRedo(b) == redoStack

\* The redo stacks when b's is cleared: a new text has no future to redo.
ClearRedo(b) == [redoStack EXCEPT ![b] = <<>>]

-----------------------------------------------------------------------------
(* The snapshot a mutating handler takes.  commit_buffer copies the live   *)
(* file into the worktree and commits it on the buffer's branch; it        *)
(* catches every exception, so a failed commit leaves only a log line.     *)

\* A branch that continues from wherever the shared HEAD was left.
CommitOnHead(b, text, from) ==
  [owner |-> b, parent |-> Len(commits), text |-> text]

NewCommit(b, text, from) == [owner |-> b, parent |-> from, text |-> text]

CommitOn(b, text, from) ==
  /\ commits' = Append(commits, NewCommit(b, text, from))
  /\ tip' = [tip EXCEPT ![b] = Len(commits) + 1]

CommitSwallowed(b, from) ==
  /\ "commit" \in Faults
  /\ commits' = commits
  /\ tip' = [tip EXCEPT ![b] = from]

CommitBuffer(b, text, from) ==
  /\ Len(commits) < MaxCommits
  /\ CommitOn(b, text, from) \/ CommitSwallowed(b, from)

Init ==
  /\ phase = [b \in Buffer |-> "unused"]
  /\ live = [b \in Buffer |-> Render({})]
  /\ commits = <<>>
  /\ tip = [b \in Buffer |-> Root]
  /\ redoStack = [b \in Buffer |-> <<>>]
  /\ tree = <<>>
  /\ lost = {}

-----------------------------------------------------------------------------
(* A buffer enters the session: open_buffer writes the downloaded text as  *)
(* it is, create_new_buffer writes what its formatter renders.  Neither    *)
(* fills the cache.                                                        *)
EnterSession(b, text) ==
  /\ phase[b] = "unused"
  /\ phase' = [phase EXCEPT ![b] = "open"]
  /\ live' = [live EXCEPT ![b] = text]
  /\ CommitBuffer(b, text, Root)
  /\ UNCHANGED <<redoStack, tree, lost>>

OpenBuffer(b) == \E text \in Text : EnterSession(b, text)

NewBuffer(b) == \E t \in Tree \ {{}} : EnterSession(b, Render(t))

(* get_buffer_state, find and list_units: the first use caches the tree.   *)
LoadTree(b) ==
  /\ b \in Open
  /\ b \notin DOMAIN tree
  /\ tree' = Cached(b, Loaded(b))
  /\ UNCHANGED <<phase, live, commits, tip, redoStack, lost>>

(* mutate_batch edits the cached tree in place; execute_mutation then      *)
(* writes the buffer file, clears the redo stack and commits.              *)
MutateBatch(b, e) ==
  LET t == Toggle(Loaded(b), e) IN
  /\ b \in Open
  /\ tree' = Cached(b, t)
  /\ live' = [live EXCEPT ![b] = Render(t)]
  /\ redoStack' = ClearRedo(b)
  /\ CommitBuffer(b, Render(t), tip[b])
  /\ UNCHANGED <<phase, lost>>

(* A batch refused after some of its operations were applied: a later one  *)
(* raised, the session is readonly, or the buffer is no longer open but    *)
(* its tree is still cached.  The tree keeps what was applied.             *)
MutateRefused(b, e) ==
  /\ b \in Open \/ (phase[b] = "closed" /\ b \in DOMAIN tree)
  /\ tree' = Cached(b, Toggle(Loaded(b), e))
  /\ UNCHANGED <<phase, live, commits, tip, redoStack, lost>>

(* undo and redo restore the buffer file from a commit, move the branch    *)
(* and rewrite the redo stack.  SessionManager loads the tree into the     *)
(* cache before it calls them and leaves it there.                         *)
RestoreFileOnly(b, c) ==
  /\ live' = [live EXCEPT ![b] = commits[c].text]
  /\ UNCHANGED tip

Restore(b, c) ==
  /\ live' = [live EXCEPT ![b] = commits[c].text]
  /\ tip' = [tip EXCEPT ![b] = c]

Undo(b, n) ==
  /\ b \in Open
  /\ Len(redoStack[b]) < MaxRedo
  /\ UndoAllowed(b, n)
  /\ Restore(b, UndoTarget(b, n))
  /\ redoStack' = [redoStack EXCEPT ![b] = PushRedo(b)]
  /\ tree' = Cached(b, Loaded(b))
  /\ UNCHANGED <<phase, commits, lost>>

UndoAtBeginning(b, n) ==
  /\ b \in Open
  /\ ~UndoAllowed(b, n)
  /\ tree' = Cached(b, Loaded(b))
  /\ UNCHANGED <<phase, live, commits, tip, redoStack, lost>>

Resolves(b, n) == \A i \in 1..n : Popped(b, i) \notin lost

Redo(b, n) ==
  /\ b \in Open
  /\ n <= Len(redoStack[b])
  /\ Resolves(b, n)
  /\ Restore(b, Popped(b, n))
  /\ redoStack' = [redoStack EXCEPT ![b] = SubSeq(@, 1, Len(@) - n)]
  /\ tree' = Cached(b, Loaded(b))
  /\ UNCHANGED <<phase, commits, lost>>

(* More steps than entries: REDO_AT_END, reported only after every entry   *)
(* was restored in turn, and before the shortened stack is stored.         *)
RedoPastEnd(b, n) ==
  /\ b \in Open
  /\ n > Len(redoStack[b])
  /\ Resolves(b, Len(redoStack[b]))
  /\ IF redoStack[b] = <<>> THEN UNCHANGED <<live, tip>>
     ELSE Restore(b, Popped(b, Len(redoStack[b])))
  /\ tree' = Cached(b, Loaded(b))
  /\ UNCHANGED <<phase, commits, redoStack, lost>>

(* An entry no longer resolves: HISTORY_UNAVAILABLE, the stack is cleared; *)
(* the entries popped before it stay restored.                             *)
RedoLost(b, n) ==
  \E i \in 1..n :
    /\ b \in Open
    /\ i <= Len(redoStack[b])
    /\ Resolves(b, i - 1)
    /\ Popped(b, i) \in lost
    /\ IF i = 1 THEN UNCHANGED <<live, tip>> ELSE Restore(b, Popped(b, i - 1))
    /\ redoStack' = ClearRedo(b)
    /\ tree' = Cached(b, Loaded(b))
    /\ UNCHANGED <<phase, commits, lost>>

(* reload_buffer: the file as the server has it now, committed; the cached *)
(* tree is not dropped.                                                    *)
ReloadBuffer(b) ==
  \E text \in Text :
    /\ b \in Open
    /\ live' = [live EXCEPT ![b] = text]
    /\ redoStack' = ClearRedo(b)
    /\ CommitBuffer(b, text, tip[b])
    /\ UNCHANGED <<phase, tree, lost>>

(* write_all's commit of one buffer: the live file as it is, the redo      *)
(* stack kept.                                                             *)
WriteAllSnapshot(b) ==
  /\ b \in Open
  /\ CommitBuffer(b, live[b], tip[b])
  /\ UNCHANGED <<phase, live, redoStack, tree, lost>>

(* close_buffer removes the file, the branch and the settings entry; the   *)
(* cached tree stays.                                                      *)
CloseBuffer(b) ==
  /\ b \in Open
  /\ phase' = [phase EXCEPT ![b] = "closed"]
  /\ tip' = [tip EXCEPT ![b] = Root]
  /\ redoStack' = ClearRedo(b)
  /\ UNCHANGED <<live, commits, tree, lost>>

(* The editor process stops and starts again: only the cache is in memory. *)
Restart ==
  /\ tree' = <<>>
  /\ UNCHANGED <<phase, live, commits, tip, redoStack, lost>>

-----------------------------------------------------------------------------
(* Faults.                                                                 *)

\* c and everything reachable from it through parents.
History(c) ==
  LET back[i \in 0..Len(commits)] ==
        IF i = Root THEN {} ELSE {i} \cup back[Parent(i)]
  IN back[c]

(* git prunes commits that no branch reaches.                              *)
PruneCommits ==
  /\ "prune" \in Faults
  /\ lost' = lost \cup (1..Len(commits) \ UNION {History(tip[b]) : b \in Open})
  /\ lost' # lost
  /\ UNCHANGED <<phase, live, commits, tip, redoStack, tree>>

(* A crash in execute_mutation after it wrote the buffer file, and perhaps *)
(* the settings, but before the commit.                                    *)
CrashInMutate(b, e) ==
  /\ "crash" \in Faults
  /\ b \in Open
  /\ live' = [live EXCEPT ![b] = Render(Toggle(Loaded(b), e))]
  /\ redoStack' \in {redoStack, ClearRedo(b)}
  /\ tree' = <<>>
  /\ UNCHANGED <<phase, commits, tip, lost>>

(* A crash in reload_buffer after it wrote the buffer file, and perhaps     *)
(* committed it, but before the redo stack is cleared.                     *)
CrashInReload(b) ==
  \E text \in Text :
    /\ "crash" \in Faults
    /\ b \in Open
    /\ live' = [live EXCEPT ![b] = text]
    /\ UNCHANGED <<commits, tip>> \/ CommitBuffer(b, text, tip[b])
    /\ tree' = <<>>
    /\ UNCHANGED <<phase, redoStack, lost>>

(* A crash in undo after it wrote the buffer file, and perhaps moved the   *)
(* branch, but before the redo stack is stored.                            *)
CrashInUndo(b, n) ==
  /\ "crash" \in Faults
  /\ b \in Open
  /\ UndoAllowed(b, n)
  /\ live' = [live EXCEPT ![b] = commits[UndoTarget(b, n)].text]
  /\ tip' \in {tip, [tip EXCEPT ![b] = UndoTarget(b, n)]}
  /\ tree' = <<>>
  /\ UNCHANGED <<phase, commits, redoStack, lost>>

(* A crash in redo after it wrote the text of the n-th entry, and perhaps  *)
(* moved the branch there from the entry before, but before the shortened  *)
(* stack is stored.                                                        *)
CrashInRedo(b, n) ==
  /\ "crash" \in Faults
  /\ b \in Open
  /\ n <= Len(redoStack[b])
  /\ Resolves(b, n)
  /\ live' = [live EXCEPT ![b] = commits[Popped(b, n)].text]
  /\ \/ tip' = [tip EXCEPT ![b] = Popped(b, n)]
     \/ tip' = IF n = 1 THEN tip ELSE [tip EXCEPT ![b] = Popped(b, n - 1)]
  /\ tree' = <<>>
  /\ UNCHANGED <<phase, commits, redoStack, lost>>

-----------------------------------------------------------------------------
Enter == \E b \in Buffer : OpenBuffer(b) \/ NewBuffer(b) \/ CloseBuffer(b)

Edits ==
  \E b \in Buffer :
    \/ LoadTree(b) \/ ReloadBuffer(b) \/ WriteAllSnapshot(b)
    \/ \E e \in Edit : MutateBatch(b, e) \/ MutateRefused(b, e)

Steps ==
  \E b \in Buffer, n \in 1..MaxSteps :
    \/ Undo(b, n) \/ UndoAtBeginning(b, n)
    \/ Redo(b, n) \/ RedoPastEnd(b, n) \/ RedoLost(b, n)

Crashes ==
  \E b \in Buffer :
    \/ CrashInReload(b)
    \/ \E e \in Edit : CrashInMutate(b, e)
    \/ \E n \in 1..MaxSteps : CrashInUndo(b, n) \/ CrashInRedo(b, n)

Next == Enter \/ Edits \/ Steps \/ Restart \/ PruneCommits \/ Crashes

Spec == Init /\ [][Next]_vars

-----------------------------------------------------------------------------
(* Properties.                                                             *)

\* The variables hold values of the shapes the code keeps.
TypeOK ==
  /\ phase \in [Buffer -> {"unused", "open", "closed"}]
  /\ live \in [Buffer -> Text]
  /\ commits \in Seq(Commit)
  /\ tip \in [Buffer -> 0..Len(commits)]
  /\ redoStack \in [Buffer -> Seq(Nat)]
  /\ DOMAIN tree \subseteq Buffer /\ tree \in [DOMAIN tree -> Tree]
  /\ lost \subseteq 1..Len(commits)

\* The buffers of a session share one repository and one HEAD, yet no commit
\* crosses from one buffer to another: a commit's parent, the commit a branch
\* points to and every commit a redo may restore are the buffer's own, and a
\* buffer that is not open has neither.
BranchIsolation ==
  /\ \A c \in 1..Len(commits) :
       Parent(c) # Root =>
         Parent(c) < c /\ HasSnapshot(Parent(c), commits[c].owner)
  /\ \A b \in Buffer : tip[b] # Root => HasSnapshot(tip[b], b)
  /\ \A b \in Buffer : \A i \in 1..Len(redoStack[b]) :
       HasSnapshot(redoStack[b][i], b)
  /\ \A b \in Buffer \ Open : tip[b] = Root /\ redoStack[b] = <<>>

\* The two hold together, each step needing both: a redo entry is only restored
\* to a text if it is a commit, and only to the buffer's own if it is its own.
HistoryOK == TypeOK /\ BranchIsolation

\* The branch tip of b holds exactly the text of its file.
Current(b) == HasSnapshot(tip[b], b) /\ live[b] = commits[tip[b]].text

\* With every commit made, the branch tip of an open buffer holds exactly the
\* text of its file, so the next undo returns to what the user last saw.
LiveMatchesTip == \A b \in Open : Current(b)

\* While a buffer has something to redo, its file is what its branch tip
\* holds, even when commits are lost: nothing uncommitted for a redo to
\* overwrite.
RedoMeansCurrent == \A b \in Open : redoStack[b] # <<>> => Current(b)

\* The texts that undo leads back to, and those that undo or redo can restore.
TextsOf(cs) == {commits[c].text : c \in cs}
Past(b) == History(tip[b])
Future(b) == UNION {History(redoStack[b][i]) : i \in 1..Len(redoStack[b])}
Recoverable(b) == TextsOf((Past(b) \cup Future(b)) \ lost)

\* A redo past the end leaves the stack as it was, under a branch that has
\* moved on: what there is to redo no longer all lies ahead.
OutOfOrder(b) ==
  \E i \in 1..Len(redoStack[b]) : ~(TextsOf(Past(b)) \subseteq TextsOf(History(redoStack[b][i])))

\* No command of an open buffer loses a text that undo could reach: an undo
\* keeps what it leaves on the redo stack, a redo lands on a commit that has
\* the present text in its past, and a new edit extends the branch.  The
\* exception is a redo from a stack that is out of order: when it meets a
\* commit that git has pruned, it stops on the way and clears the stack.
HistoryKept ==
  [][\A b \in Open :
       phase'[b] = "open" /\ ~(OutOfOrder(b) /\ \E n \in 1..MaxSteps : RedoLost(b, n)) =>
         TextsOf(Past(b)) \subseteq Recoverable(b)']_vars

\* After an undo the buffer state shows the text the undo restored.
UndoVisible ==
  [][\A b \in Buffer, n \in 1..MaxSteps :
       Undo(b, n) => Loaded(b)' = live'[b].edits]_vars

-----------------------------------------------------------------------------
(* The history as UndoLog has it: a commit stands for the texts on the way  *)
(* to it, the oldest first.                                                 *)
LogOf(c) ==
  LET log[i \in 0..Len(commits)] ==
        IF i = Root THEN <<>> ELSE Append(log[Parent(i)], commits[i].text)
  IN log[c]

Logs == [b \in Buffer |-> LogOf(tip[b])]
UndoneLogs == [b \in Buffer |-> [i \in 1..Len(redoStack[b]) |-> LogOf(redoStack[b][i])]]

Log == INSTANCE UndoLog WITH open <- Open, log <- Logs, undone <- UndoneLogs

\* Whatever the buffers of a session do to their one repository, each has a
\* history of its own: undo goes to an earlier version and keeps the log it
\* leaves, redo returns to that, an edit adds a version and forgets what could
\* be redone; a fault loses no more than the version or the stack it strikes.
HistoryIsLog == Log!Spec

\* An undo is refused only when there are not as many versions to go back.
UndoReachesFirst ==
  \A b \in Open, n \in 1..MaxSteps : UndoAllowed(b, n) <=> n < Len(Logs[b])

\* n steps go n versions back, whatever was undone, redone and edited before,
\* as long as there are that many; n steps of redo return to the log that the
\* n-th last undo left.
StepsCounted ==
  [][/\ UndoReachesFirst
     /\ \A b \in Open, n \in 1..MaxSteps :
          /\ Undo(b, n) => Logs'[b] = Log!Before(b, n)
          /\ Redo(b, n) => Logs'[b] = Log!Left(b, n)]_vars
=============================================================================
