------------------------------ MODULE MCSession ------------------------------
\* Session for TLC: every constant is a number or a Boolean, set in the cfg.
EXTENDS Session
=============================================================================
