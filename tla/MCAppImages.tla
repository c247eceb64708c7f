---------------------------- MODULE MCAppImages -----------------------------
EXTENDS AppImages
=============================================================================
