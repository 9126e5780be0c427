------------------------------- MODULE MCAgent -------------------------------
EXTENDS Agent

CONSTANTS v1, v2, none
=============================================================================
