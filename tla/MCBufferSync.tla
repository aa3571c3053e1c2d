---------------------------- MODULE MCBufferSync ----------------------------
(* Small instances of BufferSync for TLC.                                  *)
EXTENDS BufferSync

CONSTANTS b1, b2, p1, p2, e1

OneBuffer == {b1}
TwoBuffers == {b1, b2}
OneEdit == {e1}

\* Everything but undo and redo.
NoUndoApi == OptionalApi \ {"undo"}
\* A client that keeps every lock until the buffer is closed and saves a
\* buffer only under the path it was opened with, and no failing open.
LockedApi == {"undo", "reload", "write_all"}
=============================================================================
