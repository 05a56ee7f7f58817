--------------------------- MODULE MCFilterSource ---------------------------
EXTENDS FilterSource
=============================================================================
