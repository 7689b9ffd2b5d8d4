--------------------------- MODULE MCSharedDrafts ---------------------------
EXTENDS SharedDrafts, TLC
=============================================================================
