--------------------------- MODULE MCVideoEncoder ---------------------------
EXTENDS VideoEncoder
=============================================================================
