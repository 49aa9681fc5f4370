--------------------------- MODULE MCPublication ---------------------------
(* Small instances of Publication. *)
EXTENDS Publication, TLC

CONSTANTS v1, v2, sh1, sh2

\* The run on the draft and the snapshots: v1, the initial value, fits both
\* shapes, v2 only the second.
EditValid == {<<sh1, v1>>, <<sh2, v1>>, <<sh2, v2>>}

\* The runs on reading: one shape that fits every value.
ReadValid == {<<sh1, v1>>, <<sh1, v2>>}

Symm == Permutations(SnapIds) \cup Permutations(Readers) \cup Permutations(Clients)
=============================================================================
