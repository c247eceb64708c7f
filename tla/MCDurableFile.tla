---------------------------- MODULE MCDurableFile ---------------------------
EXTENDS DurableFile
=============================================================================
