---------------------------- MODULE MCPageCache ----------------------------
EXTENDS PageCache
=============================================================================
