---------------------------- MODULE MCStorefront ----------------------------
\* An instance of Storefront for TLC: one buyer has two deals with one seller,
\* and two requests at a time are open.
EXTENDS Storefront, TLC

CONSTANTS d1, d2, ann, ben, p1, r1, r2

MCBuyer == d1 :> ben @@ d2 :> ben
MCSeller == d1 :> ann @@ d2 :> ann
=============================================================================
