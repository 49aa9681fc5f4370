------------------------ MODULE MCPermissionResolver ------------------------
\* Small instances of PermissionResolver for TLC, with one call at a time: calls
\* meet only in the cache, and the proofs cover any number of them.
EXTENDS PermissionResolver
=============================================================================
