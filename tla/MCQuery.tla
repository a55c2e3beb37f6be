------------------------------ MODULE MCQuery -------------------------------
EXTENDS Query
=============================================================================
