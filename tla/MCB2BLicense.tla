---------------------------- MODULE MCB2BLicense ----------------------------
\* An instance of B2BLicense for TLC: one invoice paid twice, one paid short
\* and then in full, a foreign transfer, a Stars payment, and a window smaller
\* than the chain.
EXTENDS B2BLicense, TLC

CONSTANTS i1, i2, t1, t2, t3, t4, t5, s1, alice, bob

MCOwner == i1 :> alice @@ i2 :> bob
MCMemo == t1 :> i1 @@ t2 :> i1 @@ t3 :> i2 @@ t4 :> i2 @@ t5 :> NoInvoice
MCPayer == s1 :> alice
=============================================================================
