---------------------------- MODULE MCRuntimeKeys ----------------------------
\* A small instance of RuntimeKeys for TLC.
EXTENDS RuntimeKeys
=============================================================================
