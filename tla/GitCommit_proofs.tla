-------------------------- MODULE GitCommit_proofs --------------------------
(***************************************************************************)
(* Proofs about GitCommit, for every set of buffers and texts and for any  *)
(* failures and crashes: HEAD is on the buffer's branch when a commit is   *)
(* made, so that GitCommit implements BranchStore; and, as long as nothing *)
(* has failed, the shared index brings no file of another buffer along.    *)
(***************************************************************************)
EXTENDS GitCommit, TLAPS

\* A branch that is not there has no past.
NoPastWithoutBranch == \A b \in Buffer : tip[b] = NoBranch => past[b] = {}

\* What the handler of b has established by its next step.
Progress ==
  op # Idle =>
    LET b == op.buf
    IN /\ op.at \in {"prepare", "branch"} => op.kind = "open" /\ tip[b] = NoBranch
       /\ op.at \in CommitSteps \cup {"prepare", "branch"} => live[b] \in Content
       /\ op.at \in {"copy", "add", "commit"} => head = b
       /\ op.at \in {"add", "commit"} => work[b] = live[b]
       /\ op.at = "commit" => index[b] = live[b]
       /\ op.at = "drop" => head # b

IInv == TypeOK /\ NoPastWithoutBranch /\ Progress

\* Without a failure, HEAD leaves master only inside a commit.
AwayFromMaster ==
  head # Master =>
    /\ op # Idle /\ op.buf = head
    /\ op.at \in {"normalize", "copy", "add", "commit", "return"}

\* Without a failure, the index has the file of the branch that is checked
\* out, as it was committed last, and no other.
CleanIndex ==
  \A b \in Buffer :
    /\ b # head => index[b] = NoFile
    /\ b = head /\ (op = Idle \/ op.at # "commit") => index[b] = tip[b][b]

Own ==
  \A a, b \in Buffer :
    a # b => /\ tip[a] # NoBranch => tip[a][b] = NoFile
             /\ \A t \in past[a] : t[b] = NoFile

Clean == AwayFromMaster /\ CleanIndex /\ Own
OwnInv == ~failed => Clean
-----------------------------------------------------------------------------
(* Steps of a handler, and what git does in them.                          *)
Handlers == [kind : {"open", "edit", "close", "move"}, buf : Buffer, at : Steps]

\* The next step of a handler is the same handler's.
LEMMA NextStep ==
  ASSUME TypeOK, NEW b \in Buffer, NEW s, NEW t \in Steps, At(b, s), GoTo(t)
  PROVE  /\ op \in Handlers /\ op.buf = b /\ op.at = s
         /\ op' \in Handlers /\ op'.buf = b /\ op'.at = t /\ op'.kind = op.kind
         /\ op # Idle /\ op' # Idle
BY DEF TypeOK, At, GoTo, Handlers, Idle

\* A commit that is over ends an edit and lets an open record its buffer.
LEMMA CommitOver ==
  ASSUME TypeOK, op # Idle, AfterCommit
  PROVE  \/ op' = Idle
         \/ op' \in Handlers /\ op'.buf = op.buf /\ op'.at = "record" /\ op' # Idle
BY DEF TypeOK, AfterCommit, GoTo, Handlers, Idle, Steps

LEMMA Checkout ==
  ASSUME TypeOK, NEW target \in Buffer \cup {Master}, Tree(target) \in Trees, Switch(target)
  PROVE  /\ head' = target /\ tip' = tip /\ past' = past
         /\ index' \in Trees /\ work' \in Trees
         /\ Tree(head)' \in Trees
BY DEF TypeOK, Switch, Tree, Trees

LEMMA ToMaster ==
  ASSUME TypeOK, Normalize
  PROVE  /\ head' = Master /\ tip' = tip /\ past' = past
         /\ index' \in Trees /\ work' \in Trees
         /\ Tree(head)' \in Trees
<1>1. Tree(Master) \in Trees
  BY DEF Tree, Empty, Trees
<1>2. CASE head = Master
  BY <1>2 DEF Normalize, repo, TypeOK, Tree
<1>3. CASE head # Master
  BY <1>1, <1>3, Checkout DEF Normalize
<1>4. QED BY <1>2, <1>3
-----------------------------------------------------------------------------
(* The invariant, action by action.                                        *)
LEMMA InitInv == Init => IInv
<1>1. Init => TypeOK
  BY DEF Init, TypeOK, Empty, Trees, Tree
<1>2. Init => NoPastWithoutBranch /\ Progress
  BY DEF Init, NoPastWithoutBranch, Progress
<1>3. QED BY <1>1, <1>2 DEF IInv

LEMMA BeginOpenInv ==
  ASSUME IInv, NEW b \in Buffer, NEW c \in Content, BeginOpen(b, c)
  PROVE  IInv'
<1>1. op' = [kind |-> "open", buf |-> b, at |-> "prepare"] /\ op' \in Handlers
  BY DEF BeginOpen, Begin, Handlers, Steps
<1>2. live' \in Trees /\ live'[b] = c
  BY DEF IInv, TypeOK, BeginOpen, Trees
<1>3. TypeOK'
  BY <1>1, <1>2 DEF IInv, TypeOK, BeginOpen, Begin, repo, Handlers, Tree
<1>4. NoPastWithoutBranch'
  BY DEF IInv, NoPastWithoutBranch, BeginOpen, Begin, repo
<1>5. Progress'
  BY <1>1, <1>2 DEF Progress, BeginOpen, Begin, repo, Fresh
<1>6. QED BY <1>3, <1>4, <1>5 DEF IInv

LEMMA BeginEditInv ==
  ASSUME IInv, NEW b \in Buffer, NEW c \in Content, BeginEdit(b, c)
  PROVE  IInv'
<1>1. op' = [kind |-> "edit", buf |-> b, at |-> "normalize"] /\ op' \in Handlers
  BY DEF BeginEdit, Begin, Handlers, Steps, CommitSteps
<1>2. live' \in Trees /\ live'[b] = c
  BY DEF IInv, TypeOK, BeginEdit, Trees
<1>3. TypeOK'
  BY <1>1, <1>2 DEF IInv, TypeOK, BeginEdit, Begin, repo, Handlers, Tree
<1>4. NoPastWithoutBranch'
  BY DEF IInv, NoPastWithoutBranch, BeginEdit, Begin, repo
<1>5. Progress'
  BY <1>1, <1>2 DEF Progress
<1>6. QED BY <1>3, <1>4, <1>5 DEF IInv

LEMMA BeginCloseInv ==
  ASSUME IInv, NEW b \in Buffer, BeginClose(b)
  PROVE  IInv'
<1>1. op' = [kind |-> "close", buf |-> b, at |-> "cleanup"] /\ op' \in Handlers
  BY DEF BeginClose, Begin, Handlers, Steps
<1>2. TypeOK'
  BY <1>1 DEF IInv, TypeOK, BeginClose, Begin, repo, Handlers, Tree
<1>3. NoPastWithoutBranch'
  BY DEF IInv, NoPastWithoutBranch, BeginClose, Begin, repo
<1>4. Progress'
  BY <1>1 DEF Progress, CommitSteps
<1>5. QED BY <1>2, <1>3, <1>4 DEF IInv

LEMMA PrepareInv ==
  ASSUME IInv, NEW b \in Buffer, Prepare(b)
  PROVE  IInv'
<1>1. /\ op # Idle /\ op.buf = b /\ op.at = "prepare"
      /\ op' \in Handlers /\ op'.buf = b /\ op'.at = "branch" /\ op'.kind = op.kind
  BY NextStep DEF IInv, Prepare, Steps
<1>2. /\ tip' = tip /\ past' = past /\ head' \in Buffer \cup {Master} /\ Tree(head)' \in Trees
      /\ index' \in Trees /\ work' \in Trees
  BY ToMaster DEF IInv, Prepare
<1>3. TypeOK'
  BY <1>1, <1>2 DEF IInv, TypeOK, Prepare, Handlers
<1>4. NoPastWithoutBranch'
  BY <1>2 DEF IInv, NoPastWithoutBranch
<1>5. Progress'
  BY <1>1, <1>2 DEF IInv, Progress, Prepare
<1>6. QED BY <1>3, <1>4, <1>5 DEF IInv

LEMMA MakeBranchInv ==
  ASSUME IInv, NEW b \in Buffer, MakeBranch(b)
  PROVE  IInv'
<1>1. /\ op # Idle /\ op.buf = b /\ op.at = "branch"
      /\ op' \in Handlers /\ op'.buf = b /\ op'.at = "normalize" /\ op'.kind = op.kind
  BY NextStep DEF IInv, MakeBranch, Steps, CommitSteps
<1>2. Empty \in Trees
  BY DEF Empty, Trees
<1>3. /\ tip' \in [Buffer -> Trees \cup {NoBranch}]
      /\ head' = b /\ Tree(head)' \in Trees
  BY <1>2, GitAssumption DEF IInv, TypeOK, MakeBranch, Tree
<1>4. TypeOK'
  BY <1>1, <1>3 DEF IInv, TypeOK, MakeBranch, Handlers
<1>5. NoPastWithoutBranch'
  BY <1>1 DEF IInv, TypeOK, NoPastWithoutBranch, Progress, MakeBranch
<1>6. Progress'
  BY <1>1 DEF IInv, Progress, MakeBranch
<1>7. QED BY <1>4, <1>5, <1>6 DEF IInv

LEMMA CommitNormalizeInv ==
  ASSUME IInv, NEW b \in Buffer, CommitNormalize(b)
  PROVE  IInv'
<1>1. /\ op # Idle /\ op.buf = b /\ op.at = "normalize"
      /\ op' \in Handlers /\ op'.buf = b /\ op'.at = "checkout"
  BY NextStep DEF IInv, CommitNormalize, Steps, CommitSteps
<1>2. /\ tip' = tip /\ past' = past /\ head' \in Buffer \cup {Master} /\ Tree(head)' \in Trees
      /\ index' \in Trees /\ work' \in Trees
  BY ToMaster DEF IInv, CommitNormalize
<1>3. TypeOK'
  BY <1>1, <1>2 DEF IInv, TypeOK, CommitNormalize, Handlers
<1>4. NoPastWithoutBranch'
  BY <1>2 DEF IInv, NoPastWithoutBranch
<1>5. Progress'
  BY <1>1 DEF IInv, Progress, CommitNormalize, CommitSteps
<1>6. QED BY <1>3, <1>4, <1>5 DEF IInv

LEMMA CommitCheckoutInv ==
  ASSUME IInv, NEW b \in Buffer, CommitCheckout(b)
  PROVE  IInv'
<1>1. /\ op # Idle /\ op.buf = b /\ op.at = "checkout"
      /\ op' \in Handlers /\ op'.buf = b /\ op'.at = "copy"
  BY NextStep DEF IInv, CommitCheckout, Steps, CommitSteps
<1>2. Tree(b) \in Trees
  BY GitAssumption DEF IInv, TypeOK, CommitCheckout, Tree
<1>3. /\ tip' = tip /\ past' = past /\ head' = b /\ Tree(head)' \in Trees
      /\ index' \in Trees /\ work' \in Trees
  BY <1>2, Checkout DEF IInv, CommitCheckout
<1>4. TypeOK'
  BY <1>1, <1>3 DEF IInv, TypeOK, CommitCheckout, Handlers
<1>5. NoPastWithoutBranch'
  BY <1>3 DEF IInv, NoPastWithoutBranch
<1>6. Progress'
  BY <1>1, <1>3 DEF IInv, Progress, CommitCheckout, CommitSteps
<1>7. QED BY <1>4, <1>5, <1>6 DEF IInv
LEMMA CopyLiveInv ==
  ASSUME IInv, NEW b \in Buffer, CopyLive(b)
  PROVE  IInv'
<1>1. /\ op # Idle /\ op.buf = b /\ op.at = "copy"
      /\ op' \in Handlers /\ op'.buf = b /\ op'.at = "add"
  BY NextStep DEF IInv, CopyLive, Steps, CommitSteps
<1>2. work' \in Trees /\ work'[b] = live[b]
  BY DEF IInv, TypeOK, CopyLive, Trees
<1>3. TypeOK'
  BY <1>1, <1>2 DEF IInv, TypeOK, CopyLive, Handlers, Tree
<1>4. NoPastWithoutBranch'
  BY DEF IInv, NoPastWithoutBranch, CopyLive
<1>5. Progress'
  BY <1>1, <1>2 DEF IInv, Progress, CopyLive, CommitSteps
<1>6. QED BY <1>3, <1>4, <1>5 DEF IInv

LEMMA AddToIndexInv ==
  ASSUME IInv, NEW b \in Buffer, AddToIndex(b)
  PROVE  IInv'
<1>1. /\ op # Idle /\ op.buf = b /\ op.at = "add"
      /\ op' \in Handlers /\ op'.buf = b /\ op'.at = "commit"
  BY NextStep DEF IInv, AddToIndex, Steps, CommitSteps
<1>2. index' \in Trees /\ index'[b] = work[b]
  BY DEF IInv, TypeOK, AddToIndex, Trees
<1>3. TypeOK'
  BY <1>1, <1>2 DEF IInv, TypeOK, AddToIndex, Handlers, Tree
<1>4. NoPastWithoutBranch'
  BY DEF IInv, NoPastWithoutBranch, AddToIndex
<1>5. Progress'
  BY <1>1, <1>2 DEF IInv, Progress, AddToIndex, CommitSteps
<1>6. QED BY <1>3, <1>4, <1>5 DEF IInv

LEMMA CommitIndexInv ==
  ASSUME IInv, NEW b \in Buffer, CommitIndex(b)
  PROVE  IInv'
<1>1. /\ op # Idle /\ op.buf = b /\ op.at = "commit"
      /\ op' \in Handlers /\ op'.buf = b /\ op'.at = "return"
  BY NextStep DEF IInv, CommitIndex, Steps, CommitSteps
<1>2. head = b /\ index \in Trees /\ index # NoBranch
  BY <1>1, GitAssumption DEF IInv, TypeOK, Progress, Trees
<1>3. /\ tip' \in [Buffer -> Trees \cup {NoBranch}] /\ past' \in [Buffer -> SUBSET Trees]
      /\ tip'[b] = index /\ Tree(head)' \in Trees
      /\ \A a \in Buffer \ {b} : tip'[a] = tip[a] /\ past'[a] = past[a]
  BY <1>2, GitAssumption DEF IInv, TypeOK, CommitIndex, Tree
<1>4. TypeOK'
  BY <1>1, <1>3 DEF IInv, TypeOK, CommitIndex, Handlers
<1>5. NoPastWithoutBranch'
  BY <1>2, <1>3 DEF IInv, NoPastWithoutBranch
<1>6. Progress'
  BY <1>1 DEF IInv, Progress, CommitIndex, CommitSteps
<1>7. QED BY <1>4, <1>5, <1>6 DEF IInv

LEMMA CommitReturnInv ==
  ASSUME IInv, NEW b \in Buffer, CommitReturn(b)
  PROVE  IInv'
<1>1. /\ op # Idle /\ op.buf = b /\ op.at = "return"
      /\ op' \in Handlers /\ op'.buf = b /\ op'.at = "unlink"
  BY NextStep DEF IInv, CommitReturn, Steps, CommitSteps
<1>2. /\ tip' = tip /\ past' = past /\ head' \in Buffer \cup {Master} /\ Tree(head)' \in Trees
      /\ index' \in Trees /\ work' \in Trees
  BY ToMaster DEF IInv, CommitReturn
<1>3. TypeOK'
  BY <1>1, <1>2 DEF IInv, TypeOK, CommitReturn, Handlers
<1>4. NoPastWithoutBranch'
  BY <1>2 DEF IInv, NoPastWithoutBranch
<1>5. Progress'
  BY <1>1 DEF IInv, Progress, CommitReturn, CommitSteps
<1>6. QED BY <1>3, <1>4, <1>5 DEF IInv

LEMMA UnlinkTrackInv ==
  ASSUME IInv, NEW b \in Buffer, UnlinkTrack(b)
  PROVE  IInv'
<1>1. op # Idle
  BY DEF UnlinkTrack, At
<1>2. op' = Idle \/ (op' \in Handlers /\ op'.at = "record")
  BY <1>1, CommitOver DEF IInv, UnlinkTrack
<1>3. work' \in Trees
  BY DEF IInv, TypeOK, UnlinkTrack, Trees
<1>4. TypeOK'
  BY <1>2, <1>3 DEF IInv, TypeOK, UnlinkTrack, Handlers, Tree
<1>5. NoPastWithoutBranch'
  BY DEF IInv, NoPastWithoutBranch, UnlinkTrack
<1>6. Progress'
  BY <1>2 DEF Progress, CommitSteps
<1>7. QED BY <1>4, <1>5, <1>6 DEF IInv

LEMMA RecordInv ==
  ASSUME IInv, NEW b \in Buffer, Record(b)
  PROVE  IInv'
<1>1. op' = Idle
  BY DEF Record
<1>2. TypeOK'
  BY <1>1 DEF IInv, TypeOK, Record, repo, Tree
<1>3. NoPastWithoutBranch'
  BY DEF IInv, NoPastWithoutBranch, Record, repo
<1>4. Progress'
  BY <1>1 DEF Progress
<1>5. QED BY <1>2, <1>3, <1>4 DEF IInv

LEMMA CleanupInv ==
  ASSUME IInv, NEW b \in Buffer, Cleanup(b)
  PROVE  IInv'
<1>1. /\ op # Idle /\ op.buf = b /\ op.at = "cleanup"
      /\ op' \in Handlers /\ op'.buf = b /\ op'.at = "leave"
  BY NextStep DEF IInv, Cleanup, Steps, CommitSteps
<1>2. live' \in Trees
  BY DEF IInv, TypeOK, Cleanup, Trees
<1>3. TypeOK'
  BY <1>1, <1>2 DEF IInv, TypeOK, Cleanup, repo, Handlers, Tree
<1>4. NoPastWithoutBranch'
  BY DEF IInv, NoPastWithoutBranch, Cleanup, repo
<1>5. Progress'
  BY <1>1 DEF Progress, CommitSteps
<1>6. QED BY <1>3, <1>4, <1>5 DEF IInv

LEMMA LeaveBranchInv ==
  ASSUME IInv, NEW b \in Buffer, LeaveBranch(b)
  PROVE  IInv'
<1>1. /\ op # Idle /\ op.buf = b /\ op.at = "leave"
      /\ op' \in Handlers /\ op'.buf = b /\ op'.at = "drop"
  BY NextStep DEF IInv, LeaveBranch, Steps, CommitSteps
<1>2. /\ tip' = tip /\ past' = past /\ head' \in Buffer \cup {Master} /\ Tree(head)' \in Trees
      /\ index' \in Trees /\ work' \in Trees /\ head' # b
  <2>1. CASE tip[b] = NoBranch
    <3>1. UNCHANGED repo /\ NoBranch \notin Trees
      BY <2>1, GitAssumption DEF LeaveBranch, Trees
    <3>2. head # b
      BY <2>1, <3>1, GitAssumption DEF IInv, TypeOK, Tree
    <3>3. QED BY <3>1, <3>2 DEF IInv, TypeOK, repo, Tree
  <2>2. CASE tip[b] # NoBranch
    BY <2>2, ToMaster, GitAssumption DEF IInv, LeaveBranch
  <2>3. QED BY <2>1, <2>2
<1>3. TypeOK'
  BY <1>1, <1>2 DEF IInv, TypeOK, LeaveBranch, Handlers
<1>4. NoPastWithoutBranch'
  BY <1>2 DEF IInv, NoPastWithoutBranch
<1>5. Progress'
  BY <1>1, <1>2 DEF Progress, CommitSteps
<1>6. QED BY <1>3, <1>4, <1>5 DEF IInv

LEMMA DropBranchInv ==
  ASSUME IInv, NEW b \in Buffer, DropBranch(b)
  PROVE  IInv'
<1>1. /\ op # Idle /\ op.buf = b /\ op.at = "drop"
      /\ op' \in Handlers /\ op'.buf = b /\ op'.at = "forget"
  BY NextStep DEF IInv, DropBranch, Steps, CommitSteps
<1>2. head # b
  BY <1>1 DEF IInv, Progress
<1>3. /\ tip' \in [Buffer -> Trees \cup {NoBranch}] /\ past' \in [Buffer -> SUBSET Trees]
      /\ Tree(head)' \in Trees
  BY <1>2 DEF IInv, TypeOK, DropBranch, Tree
<1>4. TypeOK'
  BY <1>1, <1>3 DEF IInv, TypeOK, DropBranch, Handlers
<1>5. NoPastWithoutBranch'
  BY DEF IInv, TypeOK, NoPastWithoutBranch, DropBranch
<1>6. Progress'
  BY <1>1 DEF Progress, CommitSteps
<1>7. QED BY <1>4, <1>5, <1>6 DEF IInv

LEMMA ForgetInv ==
  ASSUME IInv, NEW b \in Buffer, Forget(b)
  PROVE  IInv'
<1>1. op' = Idle
  BY DEF Forget
<1>2. TypeOK'
  BY <1>1 DEF IInv, TypeOK, Forget, repo, Tree
<1>3. NoPastWithoutBranch'
  BY DEF IInv, NoPastWithoutBranch, Forget, repo
<1>4. Progress'
  BY <1>1 DEF Progress
<1>5. QED BY <1>2, <1>3, <1>4 DEF IInv

LEMMA BeginMoveInv ==
  ASSUME IInv, NEW b \in Buffer, BeginMove(b)
  PROVE  IInv'
<1>1. op' = [kind |-> "move", buf |-> b, at |-> "set"] /\ op' \in Handlers
  BY DEF BeginMove, Begin, Handlers, Steps
<1>2. live' \in Trees
  BY DEF IInv, TypeOK, BeginMove, Trees
<1>3. TypeOK'
  BY <1>1, <1>2 DEF IInv, TypeOK, BeginMove, Begin, repo, Handlers, Tree
<1>4. NoPastWithoutBranch'
  BY DEF IInv, NoPastWithoutBranch, BeginMove, Begin, repo
<1>5. Progress'
  BY <1>1 DEF Progress, CommitSteps
<1>6. QED BY <1>3, <1>4, <1>5 DEF IInv

LEMMA SetCommitInv ==
  ASSUME IInv, NEW b \in Buffer, SetCommit(b)
  PROVE  IInv'
<1>1. op' = Idle
  BY DEF SetCommit
<1>2. PICK t \in past[b] : tip' = [tip EXCEPT ![b] = t]
  BY DEF SetCommit
<1>3. t \in Trees /\ t # NoBranch
  BY <1>2, GitAssumption DEF IInv, TypeOK, Trees
<1>4. tip' \in [Buffer -> Trees \cup {NoBranch}] /\ Tree(head)' \in Trees
  BY <1>2, <1>3, GitAssumption DEF IInv, TypeOK, SetCommit, Tree
<1>5. TypeOK'
  BY <1>1, <1>4 DEF IInv, TypeOK, SetCommit
<1>6. NoPastWithoutBranch'
  BY <1>2, <1>3 DEF IInv, TypeOK, NoPastWithoutBranch, SetCommit
<1>7. Progress'
  BY <1>1 DEF Progress
<1>8. QED BY <1>5, <1>6, <1>7 DEF IInv

\* A failure or a crash leaves the repository as it is.
LEMMA StopInv ==
  ASSUME IInv, (\E b \in Buffer : StepFails(b)) \/ Crash
  PROVE  IInv'
<1>1. op # Idle /\ failed' = TRUE /\ UNCHANGED <<live, recorded, repo>>
  BY DEF StepFails, Crash
<1>2. op' = Idle \/ (op' \in Handlers /\ op'.at = "record")
  <2>1. CASE Crash
    BY <2>1 DEF Crash
  <2>2. CASE \E b \in Buffer : StepFails(b)
    BY <1>1, <2>2, CommitOver DEF IInv, StepFails
  <2>3. QED BY <2>1, <2>2
<1>3. TypeOK'
  BY <1>1, <1>2 DEF IInv, TypeOK, Handlers, repo, Tree
<1>4. NoPastWithoutBranch'
  BY <1>1 DEF IInv, NoPastWithoutBranch, repo
<1>5. Progress'
  BY <1>2 DEF Progress, CommitSteps
<1>6. QED BY <1>3, <1>4, <1>5 DEF IInv

LEMMA StepInv == IInv /\ [Next]_vars => IInv'
<1>1. ASSUME IInv, UNCHANGED vars PROVE IInv'
  BY <1>1 DEF IInv, TypeOK, NoPastWithoutBranch, Progress, vars, repo, Tree
<1>2. ASSUME IInv, NEW b \in Buffer, BranchStep(b) \/ CommitStep(b) \/ CloseStep(b)
      PROVE  IInv'
  BY <1>2, PrepareInv, MakeBranchInv, RecordInv, CommitNormalizeInv, CommitCheckoutInv,
     CopyLiveInv, AddToIndexInv, CommitIndexInv, CommitReturnInv, UnlinkTrackInv,
     CleanupInv, LeaveBranchInv, DropBranchInv, ForgetInv
     DEF BranchStep, CommitStep, CloseStep
<1>3. QED
  BY <1>1, <1>2, BeginOpenInv, BeginEditInv, BeginCloseInv, BeginMoveInv, SetCommitInv,
     StopInv DEF Next

LEMMA Invariance == Spec => []IInv
BY InitInv, StepInv, PTL DEF Spec

\* Every variable keeps its shape, and HEAD names a branch that exists,
\* whatever fails: delete_buffer_branch leaves a branch before it deletes it.
THEOREM GitTypeCorrect == Spec => []TypeOK
<1>1. IInv => TypeOK
  BY DEF IInv
<1>2. QED BY <1>1, Invariance, PTL
-----------------------------------------------------------------------------
(* The refinement: what each step is for BranchStore.  Most steps move      *)
(* HEAD, the index or the worktree, which it does not see.                  *)
LEMMA Unseen ==
  ASSUME UNCHANGED <<live, tip, past>>
  PROVE  UNCHANGED Store!vars
BY DEF Store!vars

LEMMA UnseenSteps ==
  ASSUME IInv, NEW b \in Buffer,
         \/ BeginClose(b) \/ Prepare(b) \/ Record(b) \/ CommitNormalize(b)
         \/ CommitCheckout(b) \/ CopyLive(b) \/ AddToIndex(b) \/ CommitReturn(b)
         \/ UnlinkTrack(b) \/ LeaveBranch(b) \/ Forget(b) \/ StepFails(b) \/ Crash
  PROVE  UNCHANGED <<live, tip, past>>
<1>1. Normalize => UNCHANGED <<tip, past>>
  BY DEF Normalize, Switch, repo
<1>2. QED
  BY <1>1 DEF BeginClose, Begin, Prepare, Record, CommitNormalize, CommitCheckout, Switch,
     CopyLive, AddToIndex, CommitReturn, UnlinkTrack, LeaveBranch, Forget, StepFails, Crash, repo

\* The handlers write the buffer's file, with a text or by removing it.
LEMMA LiveWritten ==
  ASSUME IInv, NEW b \in Buffer,
         (\E c \in Content : BeginOpen(b, c) \/ BeginEdit(b, c)) \/ BeginMove(b) \/ Cleanup(b)
  PROVE  Store!WriteLive(b)
<1>1. UNCHANGED <<tip, past>>
  BY DEF BeginOpen, BeginEdit, BeginMove, Begin, Cleanup, repo
<1>2. \E c \in Content \cup {NoFile} : live' = [live EXCEPT ![b] = c]
  <2>1. \A t \in past[b] : t[b] \in Content \cup {NoFile}
    BY DEF IInv, TypeOK, Trees
  <2>2. QED BY <2>1 DEF BeginOpen, BeginEdit, BeginMove, Cleanup
<1>3. QED BY <1>1, <1>2 DEF Store!WriteLive

LEMMA BranchCreated ==
  ASSUME IInv, NEW b \in Buffer, MakeBranch(b)
  PROVE  Store!CreateBranch(b)
<1>1. tip[b] = NoBranch /\ past[b] = {}
  BY DEF IInv, NoPastWithoutBranch, Progress, MakeBranch, At
<1>2. Empty # NoBranch /\ Empty[b] = NoFile
  BY GitAssumption DEF Empty
<1>3. QED
  BY <1>1, <1>2 DEF IInv, TypeOK, MakeBranch, Store!CreateBranch

\* The commit puts the buffer's live text on its branch: HEAD is on it, and
\* the file has gone through the worktree into the index.
LEMMA CommitLands ==
  ASSUME IInv, NEW b \in Buffer, CommitIndex(b)
  PROVE  Store!Land(b)
<1>1. /\ head = b /\ index[b] = live[b] /\ live[b] \in Content
  BY DEF IInv, Progress, CommitIndex, At, CommitSteps
<1>2. index # NoBranch /\ tip[b] # NoBranch /\ tip[b][b] # NoBranch
  BY <1>1, GitAssumption DEF IInv, TypeOK, Tree, Trees
<1>3. /\ tip' = [tip EXCEPT ![b] = index]
      /\ past' = [past EXCEPT ![b] = @ \cup {index}]
      /\ live' = live
  BY <1>1 DEF CommitIndex
<1>4. live[b] # NoFile
  BY <1>1, GitAssumption
<1>5. [a \in Buffer |-> IF tip'[a] = NoBranch THEN NoBranch ELSE tip'[a][a]]
        = [[a \in Buffer |-> IF tip[a] = NoBranch THEN NoBranch ELSE tip[a][a]]
             EXCEPT ![b] = live[b]]
  BY <1>1, <1>2, <1>3 DEF IInv, TypeOK
<1>6. [a \in Buffer |-> {t[a] : t \in past'[a]} \ {NoFile}]
        = [[a \in Buffer |-> {t[a] : t \in past[a]} \ {NoFile}]
             EXCEPT ![b] = @ \cup {live[b]}]
  <2>1. {t[b] : t \in past[b] \cup {index}} \ {NoFile}
          = ({t[b] : t \in past[b]} \ {NoFile}) \cup {live[b]}
    BY <1>1, <1>4
  <2>2. past'[b] = past[b] \cup {index} /\ \A a \in Buffer \ {b} : past'[a] = past[a]
    BY <1>3 DEF IInv, TypeOK
  <2> DEFINE Before(a) == {t[a] : t \in past[a]} \ {NoFile}
             After(a) == {t[a] : t \in past'[a]} \ {NoFile}
  <2>3. /\ After(b) = Before(b) \cup {live[b]}
        /\ \A a \in Buffer \ {b} : After(a) = Before(a)
    BY <2>1, <2>2
  <2> HIDE DEF Before, After
  <2>4. [a \in Buffer |-> After(a)]
          = [[a \in Buffer |-> Before(a)] EXCEPT ![b] = @ \cup {live[b]}]
    BY <2>3
  <2>5. QED BY <2>4 DEF Before, After
<1>7. QED BY <1>1, <1>2, <1>3, <1>5, <1>6 DEF Store!Land

\* The branch goes to the commit whose text is in the file already.
LEMMA BranchMoved ==
  ASSUME IInv, NEW b \in Buffer, SetCommit(b)
  PROVE  Store!Move(b)
<1>1. PICK t \in past[b] : /\ t[b] = live[b] /\ t[b] # NoFile
                           /\ tip' = [tip EXCEPT ![b] = t]
  BY DEF SetCommit
<1>2. t # NoBranch /\ past' = past /\ live' = live
  BY GitAssumption DEF IInv, TypeOK, Trees, SetCommit
<1>3. [a \in Buffer |-> IF tip'[a] = NoBranch THEN NoBranch ELSE tip'[a][a]]
        = [[a \in Buffer |-> IF tip[a] = NoBranch THEN NoBranch ELSE tip[a][a]]
             EXCEPT ![b] = live[b]]
  BY <1>1, <1>2 DEF IInv, TypeOK
<1>4. live[b] \in {u[b] : u \in past[b]} \ {NoFile}
  BY <1>1
<1>5. QED BY <1>1, <1>2, <1>3, <1>4 DEF Store!Move

LEMMA BranchDeleted ==
  ASSUME IInv, NEW b \in Buffer, DropBranch(b)
  PROVE  Store!DeleteBranch(b)
<1>1. /\ tip' = [tip EXCEPT ![b] = NoBranch]
      /\ past' = [past EXCEPT ![b] = {}] /\ live' = live
  BY DEF DropBranch
<1>2. [a \in Buffer |-> IF tip'[a] = NoBranch THEN NoBranch ELSE tip'[a][a]]
        = [[a \in Buffer |-> IF tip[a] = NoBranch THEN NoBranch ELSE tip[a][a]]
             EXCEPT ![b] = NoBranch]
  BY <1>1 DEF IInv, TypeOK
<1>3. [a \in Buffer |-> {t[a] : t \in past'[a]} \ {NoFile}]
        = [[a \in Buffer |-> {t[a] : t \in past[a]} \ {NoFile}] EXCEPT ![b] = {}]
  BY <1>1 DEF IInv, TypeOK
<1>4. QED BY <1>1, <1>2, <1>3 DEF Store!DeleteBranch

LEMMA StartsAsStore == Init => Store!Init
BY DEF Init, Empty, Store!Init

LEMMA StepsAsStore == IInv /\ [Next]_vars => [Store!Next]_(Store!vars)
<1>1. ASSUME UNCHANGED vars PROVE UNCHANGED Store!vars
  BY <1>1, Unseen DEF vars, repo
<1>2. ASSUME IInv, Next PROVE Store!Next \/ UNCHANGED Store!vars
  <2>1. ASSUME NEW b \in Buffer,
               (\E c \in Content : BeginOpen(b, c) \/ BeginEdit(b, c)) \/ BeginMove(b)
        PROVE  Store!Next
    BY <1>2, <2>1, LiveWritten DEF Store!Next
  <2>2. ASSUME NEW b \in Buffer, BranchStep(b) \/ CommitStep(b) \/ CloseStep(b)
        PROVE  Store!Next \/ UNCHANGED Store!vars
    BY <1>2, <2>2, Unseen, UnseenSteps, LiveWritten, BranchCreated, CommitLands, BranchDeleted
       DEF BranchStep, CommitStep, CloseStep, Store!Next
  <2>3. ASSUME NEW b \in Buffer, SetCommit(b) PROVE Store!Next
    BY <1>2, <2>3, BranchMoved DEF Store!Next
  <2>4. ASSUME (\E b \in Buffer : BeginClose(b) \/ StepFails(b)) \/ Crash
        PROVE  UNCHANGED Store!vars
    BY <2>4, Unseen DEF BeginClose, Begin, StepFails, Crash, repo
  <2>5. QED BY <1>2, <2>1, <2>2, <2>3, <2>4 DEF Next
<1>3. QED BY <1>1, <1>2

\* GitCommit implements BranchStore: whatever git command fails and wherever
\* the process dies, commit_buffer puts the buffer's live text on its own
\* branch or does nothing, and undo and redo move a branch to a text it held,
\* once that text is in the file.
THEOREM GitRefinesStore == Spec => CommitsAreAtomic
BY StartsAsStore, StepsAsStore, Invariance, PTL DEF Spec, CommitsAreAtomic, Store!Spec
-----------------------------------------------------------------------------
(* A commit brings no other buffer's file along as long as nothing fails.  *)

\* Back on master, the index is empty: every file of the branch is its own,
\* and it is there as it was committed.
LEMMA MasterClean ==
  ASSUME IInv, Clean, op # Idle, op.at # "commit", Normalize
  PROVE  head' = Master /\ \A a \in Buffer : index'[a] = NoFile
<1>1. CASE head = Master
  BY <1>1, GitAssumption DEF Normalize, repo, Clean, CleanIndex
<1>2. CASE head # Master
  <2>1. head \in Buffer /\ Tree(head) = tip[head] /\ tip[head] # NoBranch
    BY <1>2, GitAssumption DEF IInv, TypeOK, Tree, Trees
  <2>2. \A a \in Buffer : a # head => tip[head][a] = NoFile /\ index[a] = NoFile
    BY <2>1 DEF Clean, Own, CleanIndex
  <2>3. index[head] = tip[head][head]
    BY <2>1 DEF Clean, CleanIndex
  <2>4. \A a \in Buffer : Tree(Master)[a] = NoFile
    BY DEF Tree, Empty
  <2>5. head' = Master /\ index' = [a \in Buffer |-> IF Tree(head)[a] = Tree(Master)[a]
                                                     THEN index[a] ELSE Tree(Master)[a]]
    BY <1>2 DEF Normalize, Switch
  <2>6. QED BY <2>1, <2>2, <2>3, <2>4, <2>5
<1>3. QED BY <1>1, <1>2

LEMMA NormalizedClean ==
  ASSUME IInv, Clean, NEW b \in Buffer,
         \/ Prepare(b) \/ CommitNormalize(b) \/ CommitReturn(b) \/ LeaveBranch(b)
  PROVE  Clean'
<1>1. op # Idle /\ op.at # "commit"
  BY DEF Prepare, CommitNormalize, CommitReturn, LeaveBranch, At
<1>2. CASE Normalize
  <2>1. tip' = tip /\ past' = past
    BY <1>2, ToMaster DEF IInv
  <2>2. head' = Master /\ \A a \in Buffer : index'[a] = NoFile
    BY <1>1, <1>2, MasterClean
  <2>3. QED BY <2>1, <2>2, GitAssumption DEF Clean, AwayFromMaster, CleanIndex, Own
<1>3. CASE LeaveBranch(b) /\ UNCHANGED repo
  <2>1. head = Master
    BY <1>3 DEF LeaveBranch, At, Clean, AwayFromMaster
  <2>2. QED BY <1>3, <2>1, GitAssumption DEF repo, Clean, AwayFromMaster, CleanIndex, Own
<1>4. QED
  BY <1>2, <1>3 DEF Prepare, CommitNormalize, CommitReturn, LeaveBranch

\* Steps that leave branches, HEAD and index as they are.
LEMMA QuietClean ==
  ASSUME IInv, Clean, NEW b \in Buffer,
         \/ \E c \in Content : BeginOpen(b, c) \/ BeginEdit(b, c)
         \/ BeginClose(b) \/ BeginMove(b) \/ Record(b) \/ Cleanup(b) \/ Forget(b)
         \/ UnlinkTrack(b)
  PROVE  Clean'
<1>1. UNCHANGED <<tip, past, head, index>>
  BY DEF BeginOpen, BeginEdit, BeginClose, BeginMove, Begin, Record, Cleanup, Forget, UnlinkTrack, repo
<1>2. head = Master
  BY DEF BeginOpen, BeginEdit, BeginClose, BeginMove, Begin, Record, Cleanup, Forget, UnlinkTrack, At,
     Clean, AwayFromMaster
<1>3. QED BY <1>1, <1>2, GitAssumption DEF Clean, AwayFromMaster, CleanIndex, Own

LEMMA CopiedClean ==
  ASSUME IInv, Clean, NEW b \in Buffer, CopyLive(b) \/ AddToIndex(b)
  PROVE  Clean'
<1>1. /\ op # Idle /\ op.buf = b /\ op.at \in {"copy", "add"}
      /\ op' # Idle /\ op'.buf = b /\ op'.at \in {"add", "commit"}
      /\ (op'.at = "commit" <=> AddToIndex(b))
  BY NextStep DEF IInv, CopyLive, AddToIndex, Steps, CommitSteps, At
<1>2. head = b /\ head' = b /\ tip' = tip /\ past' = past
  BY <1>1 DEF IInv, Progress, CopyLive, AddToIndex
<1>3. \A a \in Buffer \ {b} : index'[a] = index[a]
  BY DEF IInv, TypeOK, Trees, CopyLive, AddToIndex
<1>4. CopyLive(b) => index' = index
  BY DEF CopyLive
<1>5. QED
  BY <1>1, <1>2, <1>3, <1>4 DEF Clean, AwayFromMaster, CleanIndex, Own

LEMMA MakeBranchClean ==
  ASSUME IInv, Clean, NEW b \in Buffer, MakeBranch(b)
  PROVE  Clean'
<1>1. /\ op # Idle /\ op.buf = b /\ op.at = "branch"
      /\ op' # Idle /\ op'.buf = b /\ op'.at = "normalize"
  BY NextStep DEF IInv, MakeBranch, Steps, CommitSteps
<1>2. head = Master /\ \A a \in Buffer : index[a] = NoFile
  BY <1>1, GitAssumption DEF Clean, AwayFromMaster, CleanIndex
<1>3. /\ head' = b /\ index' = index /\ past' = past /\ tip'[b] = Empty
      /\ \A a \in Buffer \ {b} : tip'[a] = tip[a]
  BY DEF IInv, TypeOK, MakeBranch
<1>4. \A a \in Buffer : Empty[a] = NoFile
  BY DEF Empty
<1>5. Own'
  BY <1>3, <1>4 DEF Clean, Own
<1>6. AwayFromMaster' /\ CleanIndex'
  BY <1>1, <1>2, <1>3, <1>4 DEF AwayFromMaster, CleanIndex
<1>7. QED BY <1>5, <1>6 DEF Clean

LEMMA CheckedOutClean ==
  ASSUME IInv, Clean, NEW b \in Buffer, CommitCheckout(b)
  PROVE  Clean'
<1>1. /\ op # Idle /\ op.at = "checkout"
      /\ op' # Idle /\ op'.buf = b /\ op'.at = "copy"
  BY NextStep DEF IInv, CommitCheckout, Steps, CommitSteps
<1>2. head = Master /\ \A a \in Buffer : index[a] = NoFile
  BY <1>1, GitAssumption DEF Clean, AwayFromMaster, CleanIndex
<1>3. /\ Tree(b) = tip[b] /\ tip[b] # NoBranch
      /\ \A a \in Buffer : Tree(Master)[a] = NoFile
  BY GitAssumption DEF CommitCheckout, Tree, Empty
<1>4. \A a \in Buffer \ {b} : tip[b][a] = NoFile
  BY <1>3 DEF Clean, Own
<1>5. /\ head' = b /\ tip' = tip /\ past' = past
      /\ index' = [a \in Buffer |-> IF Tree(Master)[a] = Tree(b)[a] THEN index[a] ELSE Tree(b)[a]]
  BY <1>2 DEF CommitCheckout, Switch
<1>6. \A a \in Buffer : index'[a] = tip[b][a]
  BY <1>2, <1>3, <1>5
<1>7. Own'
  BY <1>5 DEF Clean, Own
<1>8. AwayFromMaster' /\ CleanIndex'
  BY <1>1, <1>4, <1>5, <1>6 DEF AwayFromMaster, CleanIndex
<1>9. QED BY <1>7, <1>8 DEF Clean

LEMMA CommittedClean ==
  ASSUME IInv, Clean, NEW b \in Buffer, CommitIndex(b)
  PROVE  Clean'
<1>1. /\ op # Idle /\ op.buf = b /\ op.at = "commit"
      /\ op' # Idle /\ op'.buf = b /\ op'.at = "return"
  BY NextStep DEF IInv, CommitIndex, Steps, CommitSteps
<1>2. head = b /\ head' = b /\ index' = index
  BY <1>1 DEF IInv, Progress, CommitIndex
<1>3. \A a \in Buffer \ {b} : index[a] = NoFile
  BY <1>2 DEF Clean, CleanIndex
<1>4. /\ tip'[b] = index /\ past'[b] = past[b] \cup {index}
      /\ \A a \in Buffer \ {b} : tip'[a] = tip[a] /\ past'[a] = past[a]
  BY <1>2 DEF IInv, TypeOK, CommitIndex
<1>5. Own'
  BY <1>3, <1>4 DEF Clean, Own
<1>6. AwayFromMaster' /\ CleanIndex'
  BY <1>1, <1>2, <1>3, <1>4 DEF AwayFromMaster, CleanIndex
<1>7. QED BY <1>5, <1>6 DEF Clean

LEMMA MovedClean ==
  ASSUME IInv, Clean, NEW b \in Buffer, SetCommit(b) \/ DropBranch(b)
  PROVE  Clean'
<1>1. head = Master /\ head' = Master /\ index' = index
  BY DEF SetCommit, DropBranch, At, Clean, AwayFromMaster
<1>2. /\ tip'[b] = NoBranch \/ tip'[b] \in past[b]
      /\ past'[b] \subseteq past[b]
      /\ \A a \in Buffer \ {b} : tip'[a] = tip[a] /\ past'[a] = past[a]
  BY DEF IInv, TypeOK, SetCommit, DropBranch
<1>3. Own'
  BY <1>2 DEF Clean, Own
<1>4. AwayFromMaster' /\ CleanIndex'
  BY <1>1, GitAssumption DEF Clean, AwayFromMaster, CleanIndex
<1>5. QED BY <1>3, <1>4 DEF Clean

LEMMA OwnStep == IInv /\ OwnInv /\ [Next]_vars => OwnInv'
<1>1. ASSUME UNCHANGED vars, OwnInv PROVE OwnInv'
  BY <1>1 DEF vars, repo, OwnInv, Clean, AwayFromMaster, CleanIndex, Own
<1>2. ASSUME (\E b \in Buffer : StepFails(b)) \/ Crash PROVE OwnInv'
  BY <1>2 DEF StepFails, Crash, OwnInv
<1>3. ASSUME IInv, OwnInv, NEW b \in Buffer,
             \/ \E c \in Content : BeginOpen(b, c) \/ BeginEdit(b, c)
             \/ BeginClose(b) \/ BeginMove(b) \/ BranchStep(b) \/ CommitStep(b)
             \/ CloseStep(b) \/ SetCommit(b)
      PROVE  OwnInv'
  <2>1. failed' = failed
    BY <1>3 DEF BeginOpen, BeginEdit, BeginClose, BeginMove, Begin, BranchStep, Prepare, MakeBranch, Record,
       CommitStep, CommitNormalize, CommitCheckout, CopyLive, AddToIndex, CommitIndex,
       CommitReturn, UnlinkTrack, CloseStep, Cleanup, LeaveBranch, DropBranch, Forget, SetCommit
  <2>2. ASSUME Clean PROVE Clean'
    BY <1>3, <2>2, NormalizedClean, QuietClean, CopiedClean, MakeBranchClean, CheckedOutClean,
       CommittedClean, MovedClean DEF BranchStep, CommitStep, CloseStep
  <2>3. QED BY <1>3, <2>1, <2>2 DEF OwnInv
<1>4. QED BY <1>1, <1>2, <1>3 DEF Next

LEMMA OwnInit == Init => OwnInv
BY GitAssumption DEF Init, Empty, OwnInv, Clean, AwayFromMaster, CleanIndex, Own

\* All buffers of a session share one index and one worktree; as long as no
\* git command has failed, what is committed on a buffer's branch is the file
\* of that buffer alone (commit_buffer returns to master every time).
THEOREM OnlyOwnFiles == Spec => []OwnFileOnly
<1>1. OwnInv => OwnFileOnly
  BY DEF OwnInv, Clean, Own, OwnFileOnly
<1>2. Spec => []OwnInv
  BY OwnInit, OwnStep, Invariance, PTL DEF Spec
<1>3. QED BY <1>1, <1>2, PTL
=============================================================================
