--------------------------- MODULE MarketplaceDeal ---------------------------
(***************************************************************************)
(* A deal of the Mini App shop: marketplace_ecommerce and the API handlers *)
(* that call it, marketplace_dispute_service, the payout worker and the    *)
(* deposit scanner of the bot process, over tables marketplace_deals,      *)
(* promo_codes and users, with the money outside the database.             *)
(*                                                                         *)
(* A handler that locks its row, checks, writes and commits is one step.   *)
(* One that spawns a task or awaits a transfer before it commits is a job  *)
(* that holds the row; so are a payout and the scanner's check of a deal.  *)
(***************************************************************************)
EXTENDS Integers, FiniteSets

CONSTANTS
    Deals,         \* the rows the instance may create in marketplace_deals
    Users,         \* Telegram ids
    BuyerOf,       \* buyer_id of each deal
    SellerOf,      \* seller_id of each deal
    ProductOf,     \* product_id of each deal
    WalletDeals,   \* CRYPTO on a chain: the price goes to a wallet of the deal
    StarsDeals,    \* XTR; the others are paid between buyer and seller
    ChargedDeals,  \* the Stars deals whose confirmation names a charge
    Accepts,       \* which two uses of the database layer it accepts
    MaxUses,       \* max_uses of every promo code; a seller has one
    MaxDeposits,   \* bound: deposits of the full price into one wallet
    MaxFaults      \* bound: failed commits, and crashes of the API process

\* The uses in question: FOR UPDATE on the outer join that joinedload builds,
\* and session.begin() after a query has opened a transaction.  PostgreSQL
\* refuses the first and SQLAlchemy the second; the unit tests mock both.
Uses == {"outer_join_lock", "nested_begin"}

ASSUME DealAssumption ==
    /\ BuyerOf \in [Deals -> Users]
    /\ SellerOf \in [Deals -> Users]
    /\ WalletDeals \subseteq Deals
    /\ StarsDeals \subseteq Deals
    /\ WalletDeals \cap StarsDeals = {}
    /\ ChargedDeals \subseteq StarsDeals
    /\ Accepts \subseteq Uses
    /\ MaxUses \in Nat \ {0}
    /\ MaxDeposits \in Nat
    /\ MaxFaults \in Nat

VARIABLES
    \* The tables, as committed.
    status,        \* [Deals -> Statuses]
    resolution,    \* [Deals -> {"none"} \cup Sides]: dispute_resolution
    payoutStatus,  \* [Deals -> PayoutStatuses]
    discounted,    \* the deals with a promo_code_id
    uses,          \* [Users -> 0..MaxUses]: current_uses of the seller's code
    lost,          \* [Users -> [Sides -> Nat]]: dispute_count_buyer, _seller
    banned,        \* users with is_shadowbanned
    \* The world outside the database.
    deposited,     \* [Deals -> 0..MaxDeposits]: full prices put in the wallet
    sent,          \* [Deals -> Nat]: transfers to the seller out of the wallet
    refunded,      \* deals whose Stars Telegram gave back
    \* Open transactions and tasks: lost in a crash.
    creating,      \* deals whose create_deal is past its checks
    job,           \* [Deals -> Jobs]: the transaction that holds the row lock
    waiting,       \* [Deals -> Nat]: payout tasks that have not got the row yet
    unbanning,     \* [Users -> Snapshots]: the row an unban_user has loaded
    scanLeft,      \* deals the scanner loaded and has still to check
    faults         \* 0..MaxFaults

rowVars == <<status, resolution, payoutStatus>>
promoVars == <<discounted, uses>>
userVars == <<lost, banned>>
moneyVars == <<deposited, sent, refunded>>
vars == <<rowVars, promoVars, userVars, moneyVars, creating, job, waiting,
          unbanning, scanLeft, faults>>

-----------------------------------------------------------------------------
(* Values.                                                                 *)

\* DealStatus, and "none" for a deal that has not been created.
Statuses == {"none", "created", "paid", "delivered", "dispute", "completed",
             "cancelled"}

PayoutStatuses == {"none", "manual", "sent", "failed"}

\* The parties of a deal: whom a dispute is decided for, and who lost it.
Sides == {"buyer", "seller"}
Loser(side) == IF side = "seller" THEN "buyer" ELSE "seller"
Party(d, side) == IF side = "buyer" THEN BuyerOf[d] ELSE SellerOf[d]

\* What a session keeps of a users row it read without a lock.
Snapshots == [open: BOOLEAN, lost: [Sides -> Nat], banned: BOOLEAN]
NoSnapshot == [open |-> FALSE, lost |-> [s \in Sides |-> 0], banned |-> FALSE]
Snapshot(u) == [open |-> TRUE, lost |-> lost[u], banned |-> u \in banned]

\* A transaction that holds the row of a deal: what it does, for whom an admin
\* decided, the loser's row as it was read, how the transfer it makes ended.
Jobs == [op: {"none", "complete", "resolve", "payout", "scan"},
         side: Sides,
         user: Snapshots,
         out: {"pending", "sent", "failed"}]
NoJob == [op |-> "none", side |-> "buyer", user |-> NoSnapshot, out |-> "pending"]

\* Under way: somebody said the deal was paid, and nobody called it off.
Running == {"paid", "delivered", "dispute", "completed"}

BanThreshold == 3

Init ==
    /\ status = [d \in Deals |-> "none"]
    /\ resolution = [d \in Deals |-> "none"]
    /\ payoutStatus = [d \in Deals |-> "none"]
    /\ discounted = {}
    /\ uses = [u \in Users |-> 0]
    /\ lost = [u \in Users |-> [s \in Sides |-> 0]]
    /\ banned = {}
    /\ deposited = [d \in Deals |-> 0]
    /\ sent = [d \in Deals |-> 0]
    /\ refunded = {}
    /\ creating = {}
    /\ job = [d \in Deals |-> NoJob]
    /\ waiting = [d \in Deals |-> 0]
    /\ unbanning = [u \in Users |-> NoSnapshot]
    /\ scanLeft = {}
    /\ faults = 0

-----------------------------------------------------------------------------
(* Helpers.                                                                *)

\* A SELECT ... FOR UPDATE on the row returns at once.
UnlockedAlways(d) == TRUE   \* mutant: the lock is not taken
Unlocked(d) == job[d].op = "none"

SetStatus(d, s) == status' = [status EXCEPT ![d] = s]

StartJob(d, op, side, user) ==
    job' = [job EXCEPT ![d] = [op |-> op, side |-> side, user |-> user, out |-> "pending"]]
EndJob(d) == job' = [job EXCEPT ![d] = NoJob]
EndTransfer(d, out) == job' = [job EXCEPT ![d].out = out]

\* asyncio.create_task(process_payout_to_seller(deal.id))
SpawnPayout(d) == waiting' = [waiting EXCEPT ![d] = @ + 1]

\* What is left in the deal's wallet, in full prices.
Wallet(d) == deposited[d] - sent[d]

-----------------------------------------------------------------------------
(* Creating and paying.                                                    *)

\* A use of the promo code, counted under a lock of its row.
UsePromoUnchecked(u) ==   \* mutant: the limit is not compared
    uses' = [uses EXCEPT ![u] = @ + 1]
UsePromo(u) ==
    /\ uses[u] < MaxUses
    /\ uses' = [uses EXCEPT ![u] = @ + 1]

\* create_deal looks for an active deal of the buyer without locking anything.
ActiveDeals(d) ==
    {e \in Deals : /\ BuyerOf[e] = BuyerOf[d]
                   /\ ProductOf[e] = ProductOf[d]
                   /\ status[e] \in {"created", "paid", "delivered"}}

CreateCheck(d) ==
    /\ status[d] = "none"
    /\ d \notin creating
    /\ BuyerOf[d] \notin banned
    /\ ActiveDeals(d) = {}
    /\ SellerOf[d] # BuyerOf[d]
    /\ creating' = creating \cup {d}
    /\ UNCHANGED <<rowVars, promoVars, userVars, moneyVars, job, waiting,
                   unbanning, scanLeft, faults>>

\* The promo code, if one is given, and the new row commit together.
CreateCommit(d, withPromo) ==
    /\ d \in creating
    /\ IF withPromo
       THEN UsePromo(SellerOf[d]) /\ discounted' = discounted \cup {d}
       ELSE UNCHANGED promoVars
    /\ SetStatus(d, "created")
    /\ creating' = creating \ {d}
    /\ UNCHANGED <<resolution, payoutStatus, userVars, moneyVars, job, waiting,
                   unbanning, scanLeft, faults>>

\* The promo code is refused, or the database fails.
CreateFails(d) ==
    /\ d \in creating
    /\ creating' = creating \ {d}
    /\ UNCHANGED <<rowVars, promoVars, userVars, moneyVars, job, waiting,
                   unbanning, scanLeft, faults>>

\* create_stars_invoice counts the promo code before anything is paid, and
\* creates no deal.
InvoiceWithPromo(d) ==
    /\ d \in StarsDeals
    /\ BuyerOf[d] \notin banned
    /\ SellerOf[d] # BuyerOf[d]
    /\ UsePromo(SellerOf[d])
    /\ UNCHANGED <<rowVars, discounted, userVars, moneyVars, creating, job,
                   waiting, unbanning, scanLeft, faults>>

\* confirm_stars_deal: the Mini App says the invoice was paid.  It checks
\* neither the buyer, other deals nor the currency; the deal is born paid.
ConfirmStars(d) ==
    /\ d \notin WalletDeals \cup creating
    /\ status[d] = "none"
    /\ SetStatus(d, "paid")
    /\ UNCHANGED <<resolution, payoutStatus, promoVars, userVars, moneyVars,
                   creating, job, waiting, unbanning, scanLeft, faults>>

\* mark_deal_paid, offered for every deal whatever its currency.
MarkPaidAnyStatus(d) ==   \* mutant: the status check is dropped
    /\ Unlocked(d)
    /\ status[d] # "none"
    /\ SetStatus(d, "paid")
    /\ UNCHANGED <<resolution, payoutStatus, promoVars, userVars, moneyVars,
                   creating, job, waiting, unbanning, scanLeft, faults>>
MarkPaid(d) ==
    /\ Unlocked(d)
    /\ status[d] = "created"
    /\ SetStatus(d, "paid")
    /\ UNCHANGED <<resolution, payoutStatus, promoVars, userVars, moneyVars,
                   creating, job, waiting, unbanning, scanLeft, faults>>

\* The chain: somebody sends the price to the address the deal showed.
Deposit(d) ==
    /\ d \in WalletDeals
    /\ status[d] # "none"
    /\ deposited[d] < MaxDeposits
    /\ deposited' = [deposited EXCEPT ![d] = @ + 1]
    /\ UNCHANGED <<rowVars, promoVars, userVars, sent, refunded, creating, job,
                   waiting, unbanning, scanLeft, faults>>

-----------------------------------------------------------------------------
(* MarketplaceScanner: the deals are loaded once; each is locked and checked *)
(* in turn.  The lock's SELECT does not refresh what the session has loaded, *)
(* so the status that is checked again is the one first loaded, created.     *)

ScanEligible == {d \in WalletDeals : status[d] = "created"}

Scanning == scanLeft # {} \/ \E d \in Deals : job[d].op = "scan"

ScanBegin ==
    /\ ~Scanning
    /\ ScanEligible # {}
    /\ scanLeft' = ScanEligible
    /\ UNCHANGED <<rowVars, promoVars, userVars, moneyVars, creating, job,
                   waiting, unbanning, faults>>

ScanLock(d) ==
    /\ d \in scanLeft
    /\ \A e \in Deals : job[e].op # "scan"
    /\ Unlocked(d)
    /\ StartJob(d, "scan", "buyer", NoSnapshot)
    /\ scanLeft' = scanLeft \ {d}
    /\ UNCHANGED <<rowVars, promoVars, userVars, moneyVars, creating, waiting,
                   unbanning, faults>>

\* get_balance answers and the price is there: paid, whatever the row says.
ScanPaid(d) ==
    /\ job[d].op = "scan"
    /\ Wallet(d) >= 1
    /\ SetStatus(d, "paid")
    /\ EndJob(d)
    /\ UNCHANGED <<resolution, payoutStatus, promoVars, userVars, moneyVars,
                   creating, waiting, unbanning, scanLeft, faults>>

\* Too little, or the provider or the database fails.  The rollback expires
\* every deal the session holds, and the next use of one raises: the pass ends
\* with the deals it has left unchecked.
ScanMissHoldsRow(d) ==   \* mutant: no rollback after a low balance
    /\ job[d].op = "scan"
    /\ scanLeft' = {}
    /\ UNCHANGED <<rowVars, promoVars, userVars, moneyVars, creating, job,
                   waiting, unbanning, faults>>
ScanMiss(d) ==
    /\ job[d].op = "scan"
    /\ EndJob(d)
    /\ scanLeft' = {}
    /\ UNCHANGED <<rowVars, promoVars, userVars, moneyVars, creating, waiting,
                   unbanning, faults>>

-----------------------------------------------------------------------------
(* Delivery, completion, disputes.                                         *)

\* get_deal(..., for_update=True)
LocksJoinedDeal(d) == "outer_join_lock" \in Accepts /\ Unlocked(d)

DeliverDeal(d) ==
    /\ LocksJoinedDeal(d)
    /\ status[d] = "paid"
    /\ SetStatus(d, "delivered")
    /\ UNCHANGED <<resolution, payoutStatus, promoVars, userVars, moneyVars,
                   creating, job, waiting, unbanning, scanLeft, faults>>

\* complete_deal spawns the payout first; its caller commits after that.
CompleteDeal(d) ==
    /\ LocksJoinedDeal(d)
    /\ status[d] = "delivered"
    /\ StartJob(d, "complete", "seller", NoSnapshot)
    /\ IF d \in WalletDeals \cup StarsDeals THEN SpawnPayout(d) ELSE UNCHANGED waiting
    /\ UNCHANGED <<rowVars, promoVars, userVars, moneyVars, creating,
                   unbanning, scanLeft, faults>>

CompleteCommits(d) ==
    /\ job[d].op = "complete"
    /\ SetStatus(d, "completed")
    /\ EndJob(d)
    /\ UNCHANGED <<resolution, payoutStatus, promoVars, userVars, moneyVars,
                   creating, waiting, unbanning, scanLeft, faults>>

\* Either party, once DISPUTE_COOLDOWN_MINUTES have passed.
OpenDisputeUnpaid(d) ==   \* mutant: the status check is too weak
    /\ Unlocked(d)
    /\ status[d] \in {"created", "paid", "delivered"}
    /\ SetStatus(d, "dispute")
    /\ UNCHANGED <<resolution, payoutStatus, promoVars, userVars, moneyVars,
                   creating, job, waiting, unbanning, scanLeft, faults>>
OpenDispute(d) ==
    /\ Unlocked(d)
    /\ status[d] \in {"paid", "delivered"}
    /\ SetStatus(d, "dispute")
    /\ UNCHANGED <<resolution, payoutStatus, promoVars, userVars, moneyVars,
                   creating, job, waiting, unbanning, scanLeft, faults>>

\* resolve_marketplace_dispute locks the deal and reads the loser's row without
\* a lock.  For the seller it spawns the payout, before it commits.
ResolveDispute(d, side) ==
    /\ Unlocked(d)
    /\ status[d] = "dispute"
    /\ StartJob(d, "resolve", side, Snapshot(Party(d, Loser(side))))
    /\ IF side = "seller" /\ d \in WalletDeals \cup StarsDeals
       THEN SpawnPayout(d)
       ELSE UNCHANGED waiting
    /\ UNCHANGED <<rowVars, promoVars, userVars, moneyVars, creating,
                   unbanning, scanLeft, faults>>

\* A decision that has the buyer's money still to give back.
Refunding(d) ==
    /\ job[d].op = "resolve"
    /\ job[d].side = "buyer"
    /\ job[d].out = "pending"
    /\ d \in WalletDeals \cup StarsDeals

\* Telegram gives the Stars back, once per charge; its answer may be lost, and
\* the transaction is then rolled back.
StarsRefunded(d, out) ==
    /\ Refunding(d)
    /\ d \in ChargedDeals \ refunded
    /\ refunded' = refunded \cup {d}
    /\ IF out = "sent" THEN EndTransfer(d, out) ELSE EndJob(d)
    /\ UNCHANGED <<rowVars, promoVars, userVars, deposited, sent, creating,
                   waiting, unbanning, scanLeft, faults>>

\* No charge id, a refusal of Telegram, or no buyer_wallet_address, which no
\* statement of the program assigns: the exception rolls everything back and
\* the admin gets an error.
RefundFails(d) ==
    /\ Refunding(d)
    /\ EndJob(d)
    /\ UNCHANGED <<rowVars, promoVars, userVars, moneyVars, creating, waiting,
                   unbanning, scanLeft, faults>>

MayResolveUnrefunded(d) == job[d].op = "resolve"   \* mutant: the exception is lost
MayResolve(d) == job[d].op = "resolve" /\ ~Refunding(d)

\* The loser's count is one more than when it was read.  Only what the session
\* changed is written: a ban it had already read is not set again.
ResolveCommits(d) ==
    /\ MayResolve(d)
    /\ LET side == job[d].side
           u == Party(d, Loser(side))
           n == job[d].user.lost[Loser(side)] + 1
       IN /\ lost' = [lost EXCEPT ![u][Loser(side)] = n]
          /\ banned' = IF n >= BanThreshold /\ ~job[d].user.banned
                       THEN banned \cup {u} ELSE banned
          /\ resolution' = [resolution EXCEPT ![d] = side]
          /\ SetStatus(d, IF side = "seller" THEN "completed" ELSE "cancelled")
    /\ EndJob(d)
    /\ UNCHANGED <<payoutStatus, promoVars, moneyVars, creating, waiting,
                   unbanning, scanLeft, faults>>

\* unban_user reads the row without a lock and writes what it changes of it.
UnbanRead(u) ==
    /\ ~unbanning[u].open
    /\ unbanning' = [unbanning EXCEPT ![u] = Snapshot(u)]
    /\ UNCHANGED <<rowVars, promoVars, userVars, moneyVars, creating, job,
                   waiting, scanLeft, faults>>

UnbanCommits(u) ==
    /\ unbanning[u].open
    /\ banned' = IF unbanning[u].banned THEN banned \ {u} ELSE banned
    /\ lost' = [lost EXCEPT ![u] =
                    [s \in Sides |-> IF unbanning[u].lost[s] = 0 THEN @[s] ELSE 0]]
    /\ unbanning' = [unbanning EXCEPT ![u] = NoSnapshot]
    /\ UNCHANGED <<rowVars, promoVars, moneyVars, creating, job, waiting,
                   scanLeft, faults>>

-----------------------------------------------------------------------------
(* The payout worker, a task of its own with a session of its own.         *)

\* payout_status of a deal that was paid out.
PaidOut(d) == payoutStatus[d] \in {"sent", "manual"}

\* It locks the row, or fails to; a deal that was paid out is left alone.  It
\* does not look at the status of the deal.
PayoutReturns(d) ==
    /\ waiting[d] > 0
    /\ "outer_join_lock" \in Accepts => Unlocked(d) /\ PaidOut(d)
    /\ waiting' = [waiting EXCEPT ![d] = @ - 1]
    /\ UNCHANGED <<rowVars, promoVars, userVars, moneyVars, creating, job,
                   unbanning, scanLeft, faults>>

PayoutBegins(d) ==
    /\ waiting[d] > 0
    /\ LocksJoinedDeal(d)
    /\ ~PaidOut(d)
    /\ waiting' = [waiting EXCEPT ![d] = @ - 1]
    /\ StartJob(d, "payout", "seller", NoSnapshot)
    /\ UNCHANGED <<rowVars, promoVars, userVars, moneyVars, creating,
                   unbanning, scanLeft, faults>>

\* The transfer leaves the deal's wallet; its answer may be lost.
PayoutMade(d, out) ==
    /\ job[d].op = "payout"
    /\ job[d].out = "pending"
    /\ d \in WalletDeals
    /\ Wallet(d) >= 1
    /\ sent' = [sent EXCEPT ![d] = @ + 1]
    /\ EndTransfer(d, out)
    /\ UNCHANGED <<rowVars, promoVars, userVars, deposited, refunded, creating,
                   waiting, unbanning, scanLeft, faults>>

\* The seller has no wallet on the chain, or the transfer raised.
PayoutFails(d) ==
    /\ job[d].op = "payout"
    /\ job[d].out = "pending"
    /\ d \in WalletDeals
    /\ EndTransfer(d, "failed")
    /\ UNCHANGED <<rowVars, promoVars, userVars, moneyVars, creating, waiting,
                   unbanning, scanLeft, faults>>

\* The outcome is written in a nested session.begin(); where that is refused,
\* nothing is recorded.
OutcomeAlwaysSent(d) ==   \* mutant: a failed transfer is recorded as sent
    IF d \in StarsDeals THEN "manual" ELSE "sent"
Outcome(d) == IF d \in StarsDeals THEN "manual" ELSE job[d].out

PayoutRecorded(d) ==
    /\ job[d].op = "payout"
    /\ d \in StarsDeals \/ job[d].out # "pending"
    /\ payoutStatus' = IF "nested_begin" \in Accepts
                       THEN [payoutStatus EXCEPT ![d] = Outcome(d)]
                       ELSE payoutStatus
    /\ EndJob(d)
    /\ UNCHANGED <<status, resolution, promoVars, userVars, moneyVars,
                   creating, waiting, unbanning, scanLeft, faults>>

-----------------------------------------------------------------------------
(* Faults.                                                                 *)

\* A commit of the API process fails, or a database error ends a transaction:
\* the row is as it was, the payout that was spawned goes on.
RollsBack(d) ==
    /\ faults < MaxFaults
    /\ job[d].op \in {"complete", "resolve", "payout"}
    /\ faults' = faults + 1
    /\ EndJob(d)
    /\ UNCHANGED <<rowVars, promoVars, userVars, moneyVars, creating, waiting,
                   unbanning, scanLeft>>

\* The API process dies; the bot process with its scanner does not.
ApiCrash ==
    /\ faults < MaxFaults
    /\ faults' = faults + 1
    /\ job' = [d \in Deals |-> IF job[d].op = "scan" THEN job[d] ELSE NoJob]
    /\ creating' = {}
    /\ waiting' = [d \in Deals |-> 0]
    /\ unbanning' = [u \in Users |-> NoSnapshot]
    /\ UNCHANGED <<rowVars, promoVars, userVars, moneyVars, scanLeft>>

-----------------------------------------------------------------------------

\* What buyers, sellers, admins and the chain do.
Outside(d) ==
    \/ CreateCheck(d)
    \/ \E withPromo \in BOOLEAN : CreateCommit(d, withPromo)
    \/ CreateFails(d)
    \/ InvoiceWithPromo(d)
    \/ ConfirmStars(d)
    \/ MarkPaid(d)
    \/ Deposit(d)
    \/ DeliverDeal(d)
    \/ CompleteDeal(d)
    \/ OpenDispute(d)
    \/ \E side \in Sides : ResolveDispute(d, side)

\* The next step of the transaction that holds the row of d.
JobStep(d) ==
    \/ CompleteCommits(d)
    \/ \E out \in {"sent", "failed"} : StarsRefunded(d, out) \/ PayoutMade(d, out)
    \/ RefundFails(d)
    \/ ResolveCommits(d)
    \/ PayoutFails(d)
    \/ PayoutRecorded(d)
    \/ ScanPaid(d)
    \/ ScanMiss(d)

TaskStep(d) == PayoutReturns(d) \/ PayoutBegins(d)

Next ==
    \/ \E d \in Deals : Outside(d) \/ JobStep(d) \/ TaskStep(d) \/ ScanLock(d) \/ RollsBack(d)
    \/ ScanBegin
    \/ \E u \in Users : UnbanRead(u) \/ UnbanCommits(u)
    \/ ApiCrash

Spec == Init /\ [][Next]_vars

\* The scanner's loop catches every exception, and a transaction that runs ends
\* one way or another: its awaits have timeouts.  PostgreSQL queues the waiters
\* of a row lock, hence strong fairness where a row is waited for.  Nothing says
\* that a provider answers, nor in which order a pass checks its deals: the
\* query has no ORDER BY.
TaskFairness ==
    /\ WF_vars(ScanBegin)
    /\ SF_vars(\E d \in Deals : ScanLock(d))
    /\ \A d \in Deals : WF_vars(JobStep(d)) /\ SF_vars(TaskStep(d))

FairSpec == Spec /\ TaskFairness

-----------------------------------------------------------------------------
(* Invariants.                                                             *)

TypeOK ==
    /\ status \in [Deals -> Statuses]
    /\ resolution \in [Deals -> {"none"} \cup Sides]
    /\ payoutStatus \in [Deals -> PayoutStatuses]
    /\ discounted \subseteq Deals
    /\ uses \in [Users -> Nat]
    /\ lost \in [Users -> [Sides -> Nat]]
    /\ banned \subseteq Users
    /\ deposited \in [Deals -> 0..MaxDeposits]
    /\ sent \in [Deals -> Nat]
    /\ refunded \subseteq Deals
    /\ creating \subseteq Deals
    /\ job \in [Deals -> Jobs]
    /\ waiting \in [Deals -> Nat]
    /\ unbanning \in [Users -> Snapshots]
    /\ scanLeft \subseteq Deals
    /\ faults \in 0..MaxFaults

\* A promo code is counted no more than max_uses times, by racing deals and
\* abandoned invoices alike, and discounts no more deals than were counted
\* (create_deal, create_stars_invoice).
PromoWithinLimit ==
    \A u \in Users :
        /\ uses[u] <= MaxUses
        /\ Cardinality({d \in discounted : SellerOf[d] = u}) <= uses[u]

\* The seller is paid only out of a deal that somebody paid and nobody called
\* off, although the worker never asks for its status (process_payout_to_seller).
PayoutOnlyWhileRunning == \A d \in Deals : sent[d] > 0 => status[d] \in Running

\* A deal is called off only by an admin who decided for the buyer, only after
\* the Stars went back, and Stars go back only out of a dispute, whatever
\* Telegram answers and whenever a commit fails (resolve_marketplace_dispute).
CancelledMeansRefunded ==
    \A d \in Deals :
        /\ status[d] = "cancelled" => /\ resolution[d] = "buyer"
                                      /\ d \notin WalletDeals
                                      /\ d \in StarsDeals => d \in refunded
        /\ d \in refunded => status[d] \in {"dispute", "completed", "cancelled"}

\* The decision on record is how the deal ended; on chain, where a late scan
\* may reopen a deal, it is never a refund (resolve_marketplace_dispute).
VerdictOnRecord ==
    \A d \in Deals :
        /\ resolution[d] = "seller" => IF d \in WalletDeals THEN status[d] \in Running
                                       ELSE status[d] = "completed"
        /\ resolution[d] = "buyer" => status[d] = "cancelled"

\* What payout_status says has happened: a transfer that raised, a rollback or
\* a crash is never on record as a payout (process_payout_to_seller).
PayoutRecordTrue ==
    \A d \in Deals :
        /\ payoutStatus[d] = "sent" => sent[d] > 0
        /\ payoutStatus[d] = "manual" => d \in StarsDeals

\* What a transaction relies on while it holds the row of a deal: the status
\* that was checked, and the transfer that was made.
TransactionsInFlight ==
    \A d \in Deals :
        /\ job[d].op = "complete" => status[d] = "delivered"
        /\ job[d].op = "resolve" => status[d] = "dispute"
        /\ job[d].op = "scan" => d \in WalletDeals
        /\ job[d].op = "payout" => d \in WalletDeals \cup StarsDeals
        /\ job[d].op = "payout" /\ job[d].out # "pending" => d \in WalletDeals
        /\ job[d].op = "payout" /\ job[d].out = "sent" => sent[d] > 0
        /\ job[d].op = "resolve" /\ job[d].out # "pending" => d \in refunded

\* What holds before a lock is taken: a scan has loaded deals that exist, a
\* payout was spawned for a deal that was paid, a create_deal has no row yet.
TasksInFlight ==
    /\ \A d \in Deals :
        /\ d \in scanLeft \/ job[d].op = "scan"
            => d \in WalletDeals /\ status[d] \in Running \cup {"created"}
        /\ waiting[d] > 0 \/ job[d].op = "payout"
            => /\ d \in WalletDeals \cup StarsDeals
               /\ status[d] \in Running \cup {"cancelled"}
        /\ d \in creating => status[d] = "none"

\* What open transactions and waiting tasks rely on stays true until they end
\* (resolve_marketplace_dispute, process_payout_to_seller, _scan_once).
InFlight == TransactionsInFlight /\ TasksInFlight

\* What the inductive invariant needs besides: Stars go back only where a
\* charge is known, only wallets pay out, and promo codes discount finitely many
\* deals.
Bookkeeping ==
    /\ refunded \subseteq ChargedDeals
    /\ \A d \in Deals : sent[d] > 0 => d \in WalletDeals
    /\ IsFiniteSet(discounted)

\* The inductive invariant (MarketplaceDeal_proofs): no part but TypeOK is kept
\* by every step without the others.
IInv ==
    /\ TypeOK
    /\ PromoWithinLimit
    /\ PayoutOnlyWhileRunning
    /\ CancelledMeansRefunded
    /\ VerdictOnRecord
    /\ PayoutRecordTrue
    /\ InFlight
    /\ Bookkeeping

-----------------------------------------------------------------------------
(* Action properties and refinement.                                       *)

\* While one handler or task holds the row of a deal, no other one changes it
\* (SELECT ... FOR UPDATE in every handler, the worker and the scanner).
LockedDealFrozen ==
    [][\A d \in Deals :
        job[d].op # "none" /\ job'[d].op = job[d].op
            => /\ status'[d] = status[d]
               /\ payoutStatus'[d] = payoutStatus[d]]_vars

\* The lifecycle DealBook promises; only a deal with a wallet of its own may be
\* set back to paid, by a scan that loaded it before (_check_deal_deposit).
Book == INSTANCE DealBook WITH Relapsing <- WalletDeals

BookSpec == Book!Spec

\* A deal without a wallet of its own stays settled the way it was, and its
\* dispute ends only by being settled (complete_deal,
\* resolve_marketplace_dispute).
SettledForGood == Book!SettledForGood

-----------------------------------------------------------------------------
(* Liveness, under TaskFairness.                                           *)

\* Every transaction lets go of the row it locked, however the transfer it
\* awaits ends (resolve_marketplace_dispute, _check_deal_deposit).
LocksAreReleased ==
    \A d \in Deals : (job[d].op # "none") ~> (job[d].op = "none")

-----------------------------------------------------------------------------
(* What the program's own words promise and its code does not keep.        *)

\* The scanner marks deals that await their deposit, and no others
\* (_check_deal_deposit).
ScanPaysCreatedOnly ==
    [][\A d \in Deals :
        job[d].op = "scan" /\ status'[d] # status[d] => status[d] = "created"]_vars

\* The scanner checks the deposits of all created deals: one whose price has
\* arrived is marked as paid, if the providers answer now and then (_scan_once).
FundedDealIsPaid ==
    (\A d \in WalletDeals : SF_vars(ScanPaid(d))) =>
        \A d \in WalletDeals :
            (status[d] = "created" /\ Wallet(d) >= 1) ~> (status[d] # "created")

\* A resolved dispute counts against its loser (resolve_marketplace_dispute).
LosersAreCounted ==
    [][\A d \in Deals :
        resolution[d] = "none" /\ resolution'[d] = "seller"
            => lost'[BuyerOf[d]]["buyer"] = lost[BuyerOf[d]]["buyer"] + 1]_vars
=============================================================================
