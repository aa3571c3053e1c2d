---------------------------- MODULE BranchStore ----------------------------
(* What the undo history asks of the session's git repository: every buffer *)
(* has a branch of its own, a commit puts the buffer's live text on that    *)
(* branch or does nothing, undo and redo write a text that the branch held  *)
(* and move the branch to it.                                               *)
(* BufferHistory is written against this; GitCommit implements it.          *)

CONSTANTS Buffer,   \* buffer ids
          Content,  \* texts of a buffer
          NoFile,   \* a branch without a commit of its own yet
          NoBranch  \* no branch buf/<buffer_id>

VARIABLES live,  \* live[b]: text of the buffer file
          snap,  \* snap[b]: text of b at the tip of its branch
          held   \* held[b]: texts the branch of b has held

vars == <<live, snap, held>>

Init ==
  /\ live = [b \in Buffer |-> NoFile]
  /\ snap = [b \in Buffer |-> NoBranch]
  /\ held = [b \in Buffer |-> {}]

WriteLive(b) ==
  /\ \E c \in Content \cup {NoFile} : live' = [live EXCEPT ![b] = c]
  /\ UNCHANGED <<snap, held>>

CreateBranch(b) ==
  /\ snap[b] = NoBranch
  /\ snap' = [snap EXCEPT ![b] = NoFile]
  /\ held' = [held EXCEPT ![b] = {}]
  /\ UNCHANGED live

Land(b) ==
  /\ snap[b] # NoBranch
  /\ live[b] \in Content
  /\ snap' = [snap EXCEPT ![b] = live[b]]
  /\ held' = [held EXCEPT ![b] = @ \cup {live[b]}]
  /\ UNCHANGED live

Move(b) ==
  /\ live[b] \in held[b]
  /\ snap' = [snap EXCEPT ![b] = live[b]]
  /\ UNCHANGED <<live, held>>

DeleteBranch(b) ==
  /\ snap' = [snap EXCEPT ![b] = NoBranch]
  /\ held' = [held EXCEPT ![b] = {}]
  /\ UNCHANGED live

Next ==
  \E b \in Buffer :
    WriteLive(b) \/ CreateBranch(b) \/ Land(b) \/ Move(b) \/ DeleteBranch(b)

Spec == Init /\ [][Next]_vars
=============================================================================
