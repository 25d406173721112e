-------------------------- MODULE MCClientPipeline --------------------------
\* ClientPipeline for TLC: the cells of the picture as model values.
EXTENDS ClientPipeline, TLC

CONSTANTS c1, c2

Symmetry == Permutations({c1, c2})
=============================================================================
