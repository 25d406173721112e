---------------------------- MODULE MCInputPath ----------------------------
\* InputPath for TLC: one key, as a model value.
EXTENDS InputPath

CONSTANT k1
=============================================================================
