------------------------------- MODULE MCWindow -------------------------------
EXTENDS Window, TLC
=============================================================================
