------------------------------ MODULE OrderBook ------------------------------
(***************************************************************************)
(* What the P2P order book promises about an order, whatever the services, *)
(* webhooks and background tasks do between two committed database states: *)
(* which way the status of an order may move and when its taker is set.    *)
(* P2PEscrow implements it (P2PEscrow!BookSpec).                           *)
(***************************************************************************)
CONSTANTS
    Orders,      \* the rows of table orders
    Users,       \* Telegram ids
    NoUser,      \* taker_id IS NULL
    Maker,       \* maker_id of each order
    Relistable   \* the orders whose cancellation is not final

\* What the theorems about the book ask of its parameters.
OrderBookAssumption ==
    /\ Maker \in [Orders -> Users]
    /\ NoUser \notin Users
    /\ Relistable \subseteq Orders

VARIABLES
    status,      \* [Orders -> Statuses]
    taker        \* [Orders -> Users \cup {NoUser}]

vars == <<status, taker>>

\* OrderStatus, and "none" for an order that has not been created.
Statuses == {"none", "pending_funding", "active", "escrow_held",
             "completed", "dispute", "cancelled"}

TypeOK ==
    /\ status \in [Orders -> Statuses]
    /\ taker \in [Orders -> Users \cup {NoUser}]

Init ==
    /\ status = [o \in Orders |-> "none"]
    /\ taker = [o \in Orders |-> NoUser]

\* Moves every order of S to the status s.
Move(S, s) ==
    status' = [o \in Orders |-> IF o \in S THEN s ELSE status[o]]

Create(o) ==
    /\ status[o] = "none"
    /\ Move({o}, "pending_funding")
    /\ UNCHANGED taker

\* A batch of funded orders becomes visible to takers.
List(S) ==
    /\ \A o \in S : \/ status[o] = "pending_funding"
                    \/ status[o] = "cancelled" /\ o \in Relistable
    /\ Move(S, "active")
    /\ UNCHANGED taker

Take(o, u) ==
    /\ status[o] = "active"
    /\ u # Maker[o]
    /\ Move({o}, "escrow_held")
    /\ taker' = [taker EXCEPT ![o] = u]

\* A batch of orders nobody has taken is withdrawn.
Withdraw(S) ==
    /\ \A o \in S : status[o] \in {"pending_funding", "active"}
    /\ Move(S, "cancelled")
    /\ UNCHANGED taker

Dispute(o) ==
    /\ status[o] \in {"active", "escrow_held"}
    /\ Move({o}, "dispute")
    /\ UNCHANGED taker

Complete(o) ==
    /\ status[o] = "escrow_held"
    /\ Move({o}, "completed")
    /\ UNCHANGED taker

Next ==
    \/ \E S \in SUBSET Orders : List(S) \/ Withdraw(S)
    \/ \E o \in Orders :
        \/ Create(o)
        \/ Dispute(o)
        \/ Complete(o)
        \/ \E u \in Users : Take(o, u)

Spec == Init /\ [][Next]_vars

-----------------------------------------------------------------------------

\* The statuses of an order that nobody has taken.
Untaken == {"none", "pending_funding", "active", "cancelled"}

\* An order has a taker of record exactly from the moment it is taken, the
\* taker is never its maker, and only a dispute raised on an active ad may be
\* without one (take_order, raise_dispute).
TakerOfRecord ==
    \A o \in Orders :
        /\ status[o] \in Untaken => taker[o] = NoUser
        /\ status[o] \in {"escrow_held", "completed"} => taker[o] # NoUser
        /\ taker[o] # Maker[o]

\* The counterparty of a trade never changes once it is known: two users who
\* press "take" on the same ad never both get it (take_order).
OneTaker ==
    [][\A o \in Orders : taker[o] # NoUser => taker'[o] = taker[o]]_vars
=============================================================================
