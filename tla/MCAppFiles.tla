----------------------------- MODULE MCAppFiles -----------------------------
EXTENDS AppFiles

\* Version 1 is empty: a start without bytes and an end; version 2 has two blocks.
TwoVersions == <<0, 2>>
=============================================================================
