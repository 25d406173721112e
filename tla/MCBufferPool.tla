---------------------------- MODULE MCBufferPool ----------------------------
\* BufferPool for TLC: the callers as model values.
EXTENDS BufferPool, TLC

CONSTANTS t1, t2, t3

Symmetry == Permutations({t1, t2, t3})
=============================================================================
