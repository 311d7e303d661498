------------------------------- MODULE DealBook -------------------------------
(***************************************************************************)
(* What the Mini App shop promises about a deal between two committed      *)
(* states of table marketplace_deals: which way its status may move.       *)
(* MarketplaceDeal implements it (MarketplaceDeal!BookSpec).               *)
(***************************************************************************)
CONSTANTS
    Deals,       \* the rows of table marketplace_deals
    Relapsing    \* the deals a late deposit scan may set back to paid

VARIABLE status  \* [Deals -> Statuses]

\* DealStatus, and "none" for a deal that has not been created.
Statuses == {"none", "created", "paid", "delivered", "dispute", "completed",
             "cancelled"}

\* Under way: paid for, and not called off.
Running == {"paid", "delivered", "dispute", "completed"}

TypeOK == status \in [Deals -> Statuses]

Init == status = [d \in Deals |-> "none"]

Move(d, s) == status' = [status EXCEPT ![d] = s]

Open(d) == status[d] = "none" /\ Move(d, "created")

\* Stars are paid before the deal exists.
Pay(d) == status[d] \in {"none", "created"} /\ Move(d, "paid")

Deliver(d) == status[d] = "paid" /\ Move(d, "delivered")

Complete(d) == status[d] = "delivered" /\ Move(d, "completed")

Dispute(d) == status[d] \in {"paid", "delivered"} /\ Move(d, "dispute")

Resolve(d) ==
    /\ status[d] = "dispute"
    /\ \/ Move(d, "completed")
       \/ d \notin Relapsing /\ Move(d, "cancelled")

Relapse(d) == d \in Relapsing /\ status[d] \in Running /\ Move(d, "paid")

Next ==
    \E d \in Deals :
        \/ Open(d)
        \/ Pay(d)
        \/ Deliver(d)
        \/ Complete(d)
        \/ Dispute(d)
        \/ Resolve(d)
        \/ Relapse(d)

Spec == Init /\ [][Next]_status

-----------------------------------------------------------------------------

\* A deal that was settled stays settled the way it was, and a dispute ends
\* only by being settled, except where a scan may set the deal back
\* (complete_deal, resolve_marketplace_dispute).
SettledForGood ==
    [][\A d \in Deals \ Relapsing :
        /\ status[d] \in {"completed", "cancelled"} => status'[d] = status[d]
        /\ status[d] = "dispute"
            => status'[d] \in {"dispute", "completed", "cancelled"}]_status

\* No deal is ever unpaid again once it was paid for: not even a scan takes a
\* deal back to where the buyer has to pay (_check_deal_deposit).
NeverUnpaid ==
    [][\A d \in Deals :
        status[d] \in Running => status'[d] \in Running \cup {"cancelled"}]_status
=============================================================================
