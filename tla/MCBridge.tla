----------------------------- MODULE MCBridge -----------------------------
EXTENDS Bridge

CONSTANTS c1, c2
=============================================================================
