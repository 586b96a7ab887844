--------------------------- MODULE MCTokenBucket ---------------------------
(* A bucket of two, two tokens every three ticks, stamps up to one tick    *)
(* old.                                                                    *)
EXTENDS TokenBucket
=============================================================================
