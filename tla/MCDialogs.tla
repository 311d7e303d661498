----------------------------- MODULE MCDialogs -----------------------------
\* An instance of Dialogs for TLC: two orders, and a user whose updates
\* overlap two at a time.
EXTENDS Dialogs, TLC

CONSTANTS o1, o2, r1, name, welcome, k1, k2
=============================================================================
