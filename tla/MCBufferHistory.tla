-------------------------- MODULE MCBufferHistory --------------------------
(* Small instances of BufferHistory for TLC.                               *)
EXTENDS BufferHistory, TLC

CONSTANTS e1, e2

OneEdit == {e1}
TwoEdits == {e1, e2}

NoFaults == {}
GitFaults == {"commit", "prune"}
AllFaults == {"commit", "prune", "crash"}

\* Buffer ids are uuid4 values that nothing orders.
BufferSymmetry == Permutations(Buffer)
=============================================================================
