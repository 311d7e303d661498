-------------------------------- MODULE Ledger --------------------------------
(***************************************************************************)
(* What the settlements of P2P trades promise of the rows of users: they   *)
(* are there as if they had been made one after the other, each of a trade *)
(* whose escrow was held, once, with a trade for both parties and a reward *)
(* for whoever referred the taker.  Of all that a moderator decides and the *)
(* sweep refunds nothing shows.  SettlementLocks is how the code does it.  *)
(***************************************************************************)
EXTENDS Integers

CONSTANTS
    Orders, Users,
    Maker, Taker,   \* [Orders -> Users]
    Referrer,       \* [Users -> Users \cup {NoUser}]
    NoUser,
    Reward,         \* [Orders -> Nat]: what the taker's referrer earns
    Scale           \* how finely the balance column tells amounts apart

VARIABLES
    status,         \* of each order
    trades,         \* completed trades of each user
    balance,        \* what each user has earned, as the column keeps it
    rewards         \* how often each user has earned something, and the sum

vars == <<status, trades, balance, rewards>>

Init ==
    /\ status = [o \in Orders |-> "escrow_held"]
    /\ trades = [u \in Users |-> 0]
    /\ balance = [u \in Users |-> 0]
    /\ rewards = [u \in Users |-> [n |-> 0, sum |-> 0]]

\* Who earns something by o, if there is anything to earn.
Earners(o) == IF Reward[o] = 0 THEN {} ELSE {Referrer[Taker[o]]} \ {NoUser}

\* The column keeps an amount to the nearest it can hold.
Near(x, y) == 2 * (x - y) <= Scale /\ 2 * (y - x) <= Scale

\* The parties' trade is complete and counted, and its referrer has earned.
Settle(o) ==
    /\ status[o] = "escrow_held"
    /\ status' = [status EXCEPT ![o] = "completed"]
    /\ trades' = [u \in Users |-> IF u \in {Maker[o], Taker[o]} THEN trades[u] + 1
                                                                ELSE trades[u]]
    /\ rewards' = [u \in Users |-> IF u \in Earners(o)
                                   THEN [n |-> rewards[u].n + 1,
                                         sum |-> rewards[u].sum + Reward[o]]
                                   ELSE rewards[u]]
    /\ balance' \in [Users -> Nat]
    /\ \A u \in Users : IF u \in Earners(o) THEN Near(balance'[u], balance[u] + Reward[o])
                                            ELSE balance'[u] = balance[u]

\* The trade goes to a moderator.
Dispute(o) ==
    /\ status[o] = "escrow_held"
    /\ status' = [status EXCEPT ![o] = "dispute"]
    /\ UNCHANGED <<trades, balance, rewards>>

Next == \E o \in Orders : Settle(o) \/ Dispute(o)

Spec == Init /\ [][Next]_vars
=============================================================================
