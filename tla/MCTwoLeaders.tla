----------------------------- MODULE MCTwoLeaders -----------------------------
\* Instances of TwoLeaders for TLC.
EXTENDS TwoLeaders
CONSTANTS j1, j2, a1, b1, sa, sb
=============================================================================
