----------------------------- MODULE GitCommit -----------------------------
(* The session's git repository step by step (sessions/session_git.py).    *)
(* Every buffer has a branch, but all branches share one HEAD, one index    *)
(* and one worktree, and a handler goes through them one git command at a   *)
(* time.  A command can fail (git refuses, the disk is full) or the process *)
(* can die before it; commit_buffer swallows its failures, the other        *)
(* helpers raise them to the handler.                                       *)
EXTENDS Naturals

CONSTANTS Buffer,    \* buffer ids
          Content,   \* texts of a buffer
          NoFile,    \* the path of a buffer is absent
          NoBranch,  \* the branch of a buffer is absent
          Master,    \* the default branch
          Faults     \* which of "fail" and "crash" happen

ASSUME GitAssumption ==
  /\ NoFile \notin Content
  /\ Master \notin Buffer
  /\ NoBranch \notin Content \cup {NoFile} \cup [Buffer -> Content \cup {NoFile}]
  /\ Faults \subseteq {"fail", "crash"}

VARIABLES live,     \* live[b]: the file in session_dir/buffers
          recorded, \* buffers listed in open_buffers
          tip,      \* tip[b]: tree at the head of buf/<b>
          past,     \* past[b]: trees buf/<b> has pointed to
          head,     \* branch HEAD names
          index,    \* the one index: path of a buffer to text
          work,     \* the one worktree
          op,       \* the running handler and its next step
          failed    \* history: has a step failed or the process died

repo == <<tip, past, head, index, work>>
vars == <<live, recorded, repo, op, failed>>

Trees == [Buffer -> Content \cup {NoFile}]
Empty == [b \in Buffer |-> NoFile]

CommitSteps == {"normalize", "checkout", "copy", "add", "commit", "return", "unlink"}
Steps == CommitSteps \cup
         {"prepare", "branch", "record", "cleanup", "leave", "drop", "forget", "set"}
Idle == [kind |-> "none"]
Running(kind, b, step) == op = [kind |-> kind, buf |-> b, at |-> step]
At(b, step) == op # Idle /\ op.buf = b /\ op.at = step
GoTo(step) == op' = [op EXCEPT !.at = step]

(* session: init is an empty commit and nothing is committed on master.     *)
Tree(branch) == IF branch = Master THEN Empty ELSE tip[branch]

(* The variables stay in their sets, and HEAD names a branch that exists.   *)
TypeOK ==
  /\ live \in Trees
  /\ recorded \subseteq Buffer
  /\ tip \in [Buffer -> Trees \cup {NoBranch}]
  /\ past \in [Buffer -> SUBSET Trees]
  /\ head \in Buffer \cup {Master} /\ Tree(head) \in Trees
  /\ index \in Trees
  /\ work \in Trees
  /\ op \in {Idle} \cup [kind : {"open", "edit", "close", "move"}, buf : Buffer, at : Steps]
  /\ failed \in BOOLEAN

Init ==
  /\ live = Empty
  /\ recorded = {}
  /\ tip = [b \in Buffer |-> NoBranch]
  /\ past = [b \in Buffer |-> {}]
  /\ head = Master
  /\ index = Empty
  /\ work = Empty
  /\ op = Idle
  /\ failed = FALSE

-----------------------------------------------------------------------------
(* git checkout <branch>: a path on which the two trees agree keeps its     *)
(* local changes, another one must not have any.                            *)
Switchable(target) ==
  \A b \in Buffer :
    LET from == Tree(head)[b]
        to   == Tree(target)[b]
    IN \/ from = to
       \/ index[b] = to
       \/ index[b] = from /\ work[b] \in {index[b], NoFile}

\* a change of HEAD alone, as git symbolic-ref does
SwitchHeadOnly(target) ==
  /\ Switchable(target)
  /\ head' = target
  /\ UNCHANGED <<tip, past, index, work>>

Switch(target) ==
  LET Kept(b) == Tree(head)[b] = Tree(target)[b]
  IN /\ Switchable(target)
     /\ head' = target
     /\ index' = [b \in Buffer |-> IF Kept(b) THEN index[b] ELSE Tree(target)[b]]
     /\ work' = [b \in Buffer |->
                   IF Kept(b) \/ index[b] = Tree(target)[b] THEN work[b]
                   ELSE Tree(target)[b]]
     /\ UNCHANGED <<tip, past>>

Normalize == IF head = Master THEN UNCHANGED repo ELSE Switch(Master)
-----------------------------------------------------------------------------
(* The handlers that use the repository.  open_buffer writes the live file, *)
(* creates the branch, commits and records the buffer; a mutation writes    *)
(* the live file and commits; close removes the file, then the branch, then *)
(* the record; undo and redo write a text of the branch, then move it.      *)
Begin(kind, b, step) ==
  /\ op = Idle
  /\ op' = [kind |-> kind, buf |-> b, at |-> step]
  /\ UNCHANGED <<recorded, repo, failed>>

\* A buffer id is a fresh uuid4: nothing in the session mentions it.
Fresh(b) ==
  /\ b \notin recorded
  /\ tip[b] = NoBranch
  /\ live[b] = NoFile /\ index[b] = NoFile /\ work[b] = NoFile
  /\ \A a \in Buffer : /\ tip[a] # NoBranch => tip[a][b] = NoFile
                        /\ \A t \in past[a] : t[b] = NoFile

BeginOpen(b, c) ==
  /\ Fresh(b)
  /\ Begin("open", b, "prepare")
  /\ live' = [live EXCEPT ![b] = c]

BeginEdit(b, c) ==
  /\ b \in recorded
  /\ live[b] # NoFile
  /\ Begin("edit", b, "normalize")
  /\ live' = [live EXCEPT ![b] = c]

\* close_buffer first loads the document, which needs the live file.
BeginClose(b) ==
  /\ b \in recorded
  /\ live[b] # NoFile
  /\ Begin("close", b, "cleanup")
  /\ UNCHANGED live
-----------------------------------------------------------------------------
(* create_buffer_branch *)
Prepare(b) ==
  /\ At(b, "prepare")
  /\ Normalize
  /\ GoTo("branch")
  /\ UNCHANGED <<live, recorded, failed>>

\* git checkout -b
MakeBranch(b) ==
  /\ At(b, "branch")
  /\ tip' = [tip EXCEPT ![b] = Empty]
  /\ head' = b
  /\ GoTo("normalize")
  /\ UNCHANGED <<live, recorded, past, index, work, failed>>
-----------------------------------------------------------------------------
(* commit_buffer *)
AfterCommit == IF op.kind = "open" THEN GoTo("record") ELSE op' = Idle

CommitNormalize(b) ==
  /\ At(b, "normalize")
  /\ Normalize
  /\ GoTo("checkout")
  /\ UNCHANGED <<live, recorded, failed>>

CommitCheckout(b) ==
  /\ At(b, "checkout")
  /\ tip[b] # NoBranch
  /\ Switch(b)
  /\ GoTo("copy")
  /\ UNCHANGED <<live, recorded, failed>>

CopyLive(b) ==
  /\ At(b, "copy")
  /\ work' = [work EXCEPT ![b] = live[b]]
  /\ GoTo("add")
  /\ UNCHANGED <<live, recorded, tip, past, head, index, failed>>

AddToIndex(b) ==
  /\ At(b, "add")
  /\ index' = [index EXCEPT ![b] = work[b]]
  /\ GoTo("commit")
  /\ UNCHANGED <<live, recorded, tip, past, head, work, failed>>

(* repo.index.commit: on the branch of HEAD, whichever that is.  set_commit *)
(* then points b's branch at that commit, which moves nothing when HEAD is  *)
(* on it, as it is from CommitCheckout on.                                  *)
CommitIndex(b) ==
  /\ At(b, "commit")
  /\ tip' = [tip EXCEPT ![head] = index]
  /\ past' = [past EXCEPT ![head] = @ \cup {index}]
  /\ GoTo("return")
  /\ UNCHANGED <<live, recorded, head, index, work, failed>>

CommitReturn(b) ==
  /\ At(b, "return")
  /\ Normalize
  /\ GoTo("unlink")
  /\ UNCHANGED <<live, recorded, failed>>

UnlinkTrack(b) ==
  /\ At(b, "unlink")
  /\ work' = [work EXCEPT ![b] = NoFile]
  /\ AfterCommit
  /\ UNCHANGED <<live, recorded, tip, past, head, index, failed>>

Record(b) ==
  /\ At(b, "record")
  /\ recorded' = recorded \cup {b}
  /\ op' = Idle
  /\ UNCHANGED <<live, repo, failed>>
-----------------------------------------------------------------------------
(* close_buffer *)
Cleanup(b) ==
  /\ At(b, "cleanup")
  /\ live' = [live EXCEPT ![b] = NoFile]
  /\ GoTo("leave")
  /\ UNCHANGED <<recorded, repo, failed>>

LeaveNothing(b) ==
  /\ At(b, "leave")
  /\ GoTo("drop")
  /\ UNCHANGED <<live, recorded, repo, failed>>

\* delete_buffer_branch: without a branch it returns at once
LeaveBranch(b) ==
  /\ At(b, "leave")
  /\ IF tip[b] = NoBranch THEN UNCHANGED repo ELSE Normalize
  /\ GoTo("drop")
  /\ UNCHANGED <<live, recorded, failed>>

DropBranch(b) ==
  /\ At(b, "drop")
  /\ tip' = [tip EXCEPT ![b] = NoBranch]
  /\ past' = [past EXCEPT ![b] = {}]
  /\ GoTo("forget")
  /\ UNCHANGED <<live, recorded, head, index, work, failed>>

Forget(b) ==
  /\ At(b, "forget")
  /\ recorded' = recorded \ {b}
  /\ op' = Idle
  /\ UNCHANGED <<live, repo, failed>>
-----------------------------------------------------------------------------
(* undo and redo: the text of a commit, then the reference of the branch;   *)
(* they touch neither HEAD nor the index nor the worktree.                  *)
BeginMove(b) ==
  /\ b \in recorded
  /\ live[b] # NoFile
  /\ Begin("move", b, "set")
  /\ \E t \in past[b] : t[b] # NoFile /\ live' = [live EXCEPT ![b] = t[b]]

\* a reference moved to another commit than the text was read from
SetAnyCommit(b) ==
  /\ At(b, "set")
  /\ \E t \in past[b] : t[b] # NoFile /\ tip' = [tip EXCEPT ![b] = t]
  /\ op' = Idle
  /\ UNCHANGED <<live, recorded, past, head, index, work, failed>>

SetCommit(b) ==
  /\ At(b, "set")
  /\ \E t \in past[b] : /\ t[b] = live[b] /\ t[b] # NoFile
                        /\ tip' = [tip EXCEPT ![b] = t]
  /\ op' = Idle
  /\ UNCHANGED <<live, recorded, past, head, index, work, failed>>
-----------------------------------------------------------------------------
(* What git refuses, by itself, at the next step.                           *)
Refused(b) ==
  \/ /\ op.at \in {"prepare", "normalize", "return"}
     /\ head # Master /\ ~Switchable(Master)
  \/ /\ op.at = "leave" /\ tip[b] # NoBranch
     /\ head # Master /\ ~Switchable(Master)
  \/ op.at = "checkout" /\ (tip[b] = NoBranch \/ ~Switchable(b))

(* A failure inside commit_buffer is swallowed and the handler goes on; a   *)
(* failure of another step ends the handler with an exception.              *)
StepFails(b) ==
  /\ op # Idle /\ op.buf = b
  /\ "fail" \in Faults \/ Refused(b)
  /\ IF op.at \in CommitSteps THEN AfterCommit ELSE op' = Idle
  /\ failed' = TRUE
  /\ UNCHANGED <<live, recorded, repo>>

Crash ==
  /\ "crash" \in Faults
  /\ op # Idle
  /\ op' = Idle
  /\ failed' = TRUE
  /\ UNCHANGED <<live, recorded, repo>>

BranchStep(b) == Prepare(b) \/ MakeBranch(b) \/ Record(b)

CommitStep(b) ==
  \/ CommitNormalize(b) \/ CommitCheckout(b) \/ CopyLive(b) \/ AddToIndex(b)
  \/ CommitIndex(b) \/ CommitReturn(b) \/ UnlinkTrack(b)

CloseStep(b) == Cleanup(b) \/ LeaveBranch(b) \/ DropBranch(b) \/ Forget(b)

Next ==
  \/ \E b \in Buffer :
       \/ \E c \in Content : BeginOpen(b, c) \/ BeginEdit(b, c)
       \/ BeginClose(b) \/ BeginMove(b)
       \/ BranchStep(b) \/ CommitStep(b) \/ CloseStep(b)
       \/ SetCommit(b)
       \/ StepFails(b)
  \/ Crash

Spec == Init /\ [][Next]_vars
-----------------------------------------------------------------------------
(* As long as nothing has failed, what is committed on a buffer's branch is *)
(* that buffer's file alone, although all share the index (:151-153).       *)
OwnFileOnly ==
  ~failed => \A a, b \in Buffer :
               a # b => /\ tip[a] # NoBranch => tip[a][b] = NoFile
                        /\ \A t \in past[a] : t[b] = NoFile

(* The branch of each buffer, seen alone: whatever fails, a commit puts the *)
(* buffer's live text on its own branch or does nothing.                    *)
Store ==
  INSTANCE BranchStore WITH
    snap <- [b \in Buffer |-> IF tip[b] = NoBranch THEN NoBranch ELSE tip[b][b]],
    held <- [b \in Buffer |-> {t[b] : t \in past[b]} \ {NoFile}]

(* GitCommit implements BranchStore, under failures and crashes at any step.*)
CommitsAreAtomic == Store!Spec
=============================================================================
