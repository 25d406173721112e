---------------------------- MODULE MCGpuObjects ----------------------------
EXTENDS GpuObjects
=============================================================================
