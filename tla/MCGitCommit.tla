---------------------------- MODULE MCGitCommit ----------------------------
(* A small instance of GitCommit for TLC.                                  *)
EXTENDS GitCommit, TLC

AllFaults == {"fail", "crash"}

\* Buffer ids are uuid4 values and texts are only compared.
GitSymmetry == Permutations(Buffer) \cup Permutations(Content)
=============================================================================
