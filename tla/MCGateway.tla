------------------------------ MODULE MCGateway ------------------------------
EXTENDS Gateway

CONSTANTS c1, c2
=============================================================================
