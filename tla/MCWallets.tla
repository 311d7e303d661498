----------------------------- MODULE MCWallets -----------------------------
\* An instance of Wallets for TLC: two sell orders of one maker.
EXTENDS Wallets, TLC

CONSTANTS o1, o2, ann, ben, h1, sweep

MCMaker == o1 :> ann @@ o2 :> ann
MCTaker == o1 :> ben @@ o2 :> ben
=============================================================================
