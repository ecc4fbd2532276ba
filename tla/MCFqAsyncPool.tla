--------------------------- MODULE MCFqAsyncPool ---------------------------
EXTENDS FqAsyncPool
=============================================================================
