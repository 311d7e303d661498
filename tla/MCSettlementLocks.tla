-------------------------- MODULE MCSettlementLocks --------------------------
\* An instance of SettlementLocks for TLC: two users who traded with each
\* other in both roles, and one who referred both.
EXTENDS SettlementLocks, TLC

CONSTANTS o1, o2, alice, bob, carol, h1, h2, sweep

MCMaker == o1 :> alice @@ o2 :> bob
MCTaker == o1 :> bob @@ o2 :> alice
MCReferrer == alice :> carol @@ bob :> carol @@ carol :> NoUser
MCReward == o1 :> 1 @@ o2 :> 3
=============================================================================
