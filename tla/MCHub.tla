-------------------------------- MODULE MCHub -------------------------------
EXTENDS Hub
=============================================================================
