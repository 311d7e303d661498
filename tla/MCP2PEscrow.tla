----------------------------- MODULE MCP2PEscrow -----------------------------
\* Instances of P2PEscrow for TLC: who made which order.
EXTENDS P2PEscrow, TLC

CONSTANTS o1, o2, maker, alice, bob

\* One user makes every ad, so that both takers may take either.
MCMaker == [o \in Orders |-> maker]
=============================================================================
