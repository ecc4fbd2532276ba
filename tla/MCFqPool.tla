------------------------------ MODULE MCFqPool ------------------------------
EXTENDS FqPool
=============================================================================
