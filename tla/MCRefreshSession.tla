-------------------------- MODULE MCRefreshSession --------------------------
\* Small instances of RefreshSession for TLC.
EXTENDS RefreshSession
=============================================================================
