-------------------------- MODULE MCSnapshotImport --------------------------
\* Small instances of SnapshotImport for TLC.
EXTENDS SnapshotImport

CONSTANTS p1, p2

\* Both directions, both strategies.
BothWays == [src : {p1}, dst : {p2}, replace : BOOLEAN] \cup [src : {p2}, dst : {p1}, replace : {TRUE}]
=============================================================================
