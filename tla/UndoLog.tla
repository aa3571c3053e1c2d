------------------------------ MODULE UndoLog ------------------------------
(* What the undo history promises a client, without a repository: a buffer  *)
(* has a log of its versions, the present one last.  Undo cuts versions off *)
(* and keeps the log it leaves; redo goes back to a log that was left.      *)
(* BufferHistory implements it with commits and branches that the buffers   *)
(* of a session share.                                                      *)
EXTENDS Naturals, Sequences

CONSTANTS Buffer,  \* buffer ids
          Text,    \* texts of a buffer file
          Faults   \* which of "commit", "prune" and "crash" may happen

VARIABLES open,    \* the buffers of the session
          live,    \* live[b]: text of the buffer file
          log,     \* log[b]: the recorded versions of b, the oldest first
          undone   \* undone[b]: the logs that undo left, the latest at the end

vars == <<open, live, log, undone>>

Init ==
  /\ open = {}
  /\ live \in [Buffer -> Text]
  /\ log = [b \in Buffer |-> <<>>]
  /\ undone = [b \in Buffer |-> <<>>]

Show(b, text) == live' = [live EXCEPT ![b] = text]

(* A version is recorded, unless the commit fails and is swallowed.         *)
Record(b, text) ==
  \/ log' = [log EXCEPT ![b] = Append(@, text)]
  \/ "commit" \in Faults /\ log' = log

Forget(b) == undone' = [undone EXCEPT ![b] = <<>>]

(* The buffer is back at the last version of a log.                         *)
GoTo(b, versions) ==
  /\ log' = [log EXCEPT ![b] = versions]
  /\ Show(b, versions[Len(versions)])

Before(b, n) == SubSeq(log[b], 1, Len(log[b]) - n)

\* The n-th log a redo returns to.
Left(b, n) == undone[b][Len(undone[b]) + 1 - n]

-----------------------------------------------------------------------------
Enter(b) ==
  /\ b \notin open
  /\ open' = open \cup {b}
  /\ \E text \in Text : Show(b, text) /\ Record(b, text)
  /\ UNCHANGED undone

(* A new text has no future to redo.                                        *)
Write(b) ==
  /\ b \in open
  /\ \E text \in Text : Show(b, text) /\ Record(b, text)
  /\ Forget(b)
  /\ UNCHANGED open

Snapshot(b) ==
  /\ b \in open
  /\ Record(b, live[b])
  /\ UNCHANGED <<open, live, undone>>

(* The first version can not be undone.                                     *)
Undo(b) ==
  /\ b \in open
  /\ \E n \in 1..(Len(log[b]) - 1) : GoTo(b, Before(b, n))
  /\ undone' = [undone EXCEPT ![b] = Append(@, log[b])]
  /\ UNCHANGED open

Redo(b) ==
  /\ b \in open
  /\ \E n \in 1..Len(undone[b]) :
       /\ GoTo(b, Left(b, n))
       /\ undone' = [undone EXCEPT ![b] = SubSeq(@, 1, Len(@) - n)]
  /\ UNCHANGED open

(* A redo of more steps than there are goes to the first log that was left  *)
(* and takes none from the stack.                                           *)
RedoPastEnd(b) ==
  /\ b \in open
  /\ undone[b] # <<>>
  /\ GoTo(b, undone[b][1])
  /\ UNCHANGED <<open, undone>>

(* One of the logs is gone: the redo stops before it, and has no more.      *)
RedoLost(b) ==
  /\ "prune" \in Faults
  /\ b \in open
  /\ undone[b] # <<>>
  /\ \/ UNCHANGED <<live, log>>
     \/ \E n \in 1..(Len(undone[b]) - 1) : GoTo(b, Left(b, n))
  /\ Forget(b)
  /\ UNCHANGED open

Leave(b) ==
  /\ b \in open
  /\ open' = open \ {b}
  /\ log' = [log EXCEPT ![b] = <<>>]
  /\ Forget(b)
  /\ UNCHANGED live

(* A crash in a write: it is not recorded, or it is and what could be redone *)
(* is not forgotten.                                                        *)
WriteCut(b) ==
  /\ "crash" \in Faults
  /\ b \in open
  /\ \E text \in Text : /\ Show(b, text)
                        /\ \/ UNCHANGED log /\ (UNCHANGED undone \/ Forget(b))
                           \/ Record(b, text) /\ UNCHANGED undone
  /\ UNCHANGED open

(* A crash in an undo: the log it leaves is not kept.                       *)
UndoCut(b) ==
  /\ "crash" \in Faults
  /\ b \in open
  /\ \E n \in 1..(Len(log[b]) - 1) :
       \/ GoTo(b, Before(b, n))
       \/ Show(b, log[b][Len(log[b]) - n]) /\ UNCHANGED log
  /\ UNCHANGED <<open, undone>>

(* A crash in a redo: the logs it returned to stay among those undo left.   *)
RedoCut(b) ==
  /\ "crash" \in Faults
  /\ b \in open
  /\ \E n \in 1..Len(undone[b]) :
       \/ GoTo(b, Left(b, n))
       \/ /\ Show(b, Left(b, n)[Len(Left(b, n))])
          /\ log' = IF n = 1 THEN log ELSE [log EXCEPT ![b] = Left(b, n - 1)]
  /\ UNCHANGED <<open, undone>>

Next ==
  \E b \in Buffer :
    \/ Enter(b) \/ Leave(b) \/ Write(b) \/ Snapshot(b)
    \/ Undo(b) \/ Redo(b) \/ RedoPastEnd(b) \/ RedoLost(b)
    \/ WriteCut(b) \/ UndoCut(b) \/ RedoCut(b)

Spec == Init /\ [][Next]_vars
=============================================================================
