-------------------------- MODULE MCMarketplaceDeal --------------------------
\* Instances of MarketplaceDeal for TLC: one buyer and one seller of one
\* product, so that every deal meets every other.
EXTENDS MarketplaceDeal, TLC

CONSTANTS d1, d2, buyer, seller, product

MCBuyerOf == [d \in Deals |-> buyer]
MCSellerOf == [d \in Deals |-> seller]
MCProductOf == [d \in Deals |-> product]
=============================================================================
