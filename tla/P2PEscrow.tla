------------------------------ MODULE P2PEscrow ------------------------------
(***************************************************************************)
(* The P2P order lifecycle and its escrow: the services that move an order *)
(* (order_service, escrow_service, dispute_service), the Crypto Pay        *)
(* webhook, the cleanup task and the escrow scanner, over one table of     *)
(* orders, with the money they move kept apart from the database because   *)
(* no rollback takes it back.                                              *)
(*                                                                         *)
(* A service that locks its row (SELECT ... FOR UPDATE), checks, writes    *)
(* and commits without awaiting anything outside the database is one step. *)
(* One that awaits an external transfer while it holds the lock is a job:  *)
(* it starts, the transfer ends, and the transaction commits or is rolled  *)
(* back in steps of their own.  The scanner and the refund sweep read      *)
(* without a lock and act on what they read in later steps.                *)
(***************************************************************************)
EXTENDS Integers

CONSTANTS
    Orders,        \* the rows the instance may create in table orders
    Users,         \* Telegram ids
    NoUser,        \* taker_id IS NULL
    Maker,         \* maker_id of each order
    SellOrders,    \* order_type = sell_crypto; the others are buy_crypto
    ChainOrders,   \* the asset has a chain: funds sit in a wallet of the order;
                   \* the others are paid and settled through Crypto Pay
    TonOrders,     \* of those, the ones read and paid over the one TON client
                   \* the process keeps; the others connect anew for every call
    Unreadable,    \* and the ones in an asset the provider of its chain does
                   \* not know (USDT on TON)
    UnwiredCalls,  \* services no handler of this commit calls, that the
                   \* instance lets run all the same
    MaxDeposits,   \* bound: deposits of the full amount into one order's wallet
    MaxCrashes     \* bound: crashes of the process

ASSUME P2PAssumption ==
    /\ Maker \in [Orders -> Users]
    /\ NoUser \notin Users
    /\ SellOrders \subseteq Orders
    /\ ChainOrders \subseteq Orders
    /\ TonOrders \subseteq ChainOrders
    /\ Unreadable \subseteq ChainOrders
    /\ UnwiredCalls \subseteq {"confirm_fiat_payment", "cancel_order"}
    /\ MaxDeposits \in Nat
    /\ MaxCrashes \in Nat

VARIABLES
    \* Table orders, as committed.
    status,         \* [Orders -> Statuses]
    taker,          \* [Orders -> Users \cup {NoUser}]
    onChainStatus,  \* [Orders -> OnChainStatuses]
    overdue,        \* [Orders -> BOOLEAN]: created_at (ad) or updated_at (trade)
                    \* is older than the timeout cleanup applies
    \* The world outside the database.
    invoice,        \* [Orders -> InvoiceStates], kept by Crypto Pay
    deposited,      \* [Orders -> 0..MaxDeposits]: full amounts put in the wallet
    paid,           \* [Orders -> [Kinds -> Nat]]: transfers out of escrow
    payee,          \* [Orders -> [Kinds -> Users \cup {NoUser}]]: who got the last
    notice,         \* [Orders -> Notices]: what the bot last told the parties
    \* Open transactions, scans and sweeps: lost in a crash.
    job,            \* [Orders -> Jobs]: the transaction that holds the row lock
    scanning,       \* BOOLEAN: EscrowScanner._scan_once is running
    scanFound,      \* orders it loaded and has still to check
    scanHits,       \* orders it found funded and will activate
    client,         \* Clients: the LiteClient that TonWalletProvider keeps
    sweeping,       \* BOOLEAN: expire_stagnant_trades is running
    sweepLeft,      \* orders it loaded and has still to refund
    crashes         \* 0..MaxCrashes

rowVars == <<status, taker, onChainStatus, overdue>>
moneyVars == <<invoice, deposited, paid, payee>>
passVars == <<scanning, scanFound, scanHits>>
scanVars == <<passVars, client>>
sweepVars == <<sweeping, sweepLeft>>
vars == <<rowVars, moneyVars, notice, job, scanVars, sweepVars, crashes>>

-----------------------------------------------------------------------------
(* Values.                                                                 *)

\* OrderStatus, and "none" for an order that has not been created.
Statuses == {"none", "pending_funding", "active", "escrow_held",
             "completed", "dispute", "cancelled"}

OnChainStatuses == {"none", "awaiting_deposit", "deposit_detected", "released"}

InvoiceStates == {"none", "open", "paid", "expired"}

\* The two transfers an escrow may end with; each has a spend_id of its own.
Kinds == {"release", "refund"}

Notices == {"none", "refused", "completed", "cancelled"}

\* No client yet, one whose connect() succeeded, and one whose connect() failed
\* or whose connection was lost.
Clients == {"none", "connected", "unconnected"}

\* A transaction between its SELECT ... FOR UPDATE and its end: who opened it,
\* which transfer it makes and how that transfer ended for it.
Jobs == [op: {"none", "handler", "confirm", "resolve", "sweep"},
         kind: Kinds,
         out: {"pending", "sent", "failed"}]

NoJob == [op |-> "none", kind |-> "release", out |-> "pending"]

\* The statuses of an order that was taken, or disputed while it was listed.
Engaged == {"escrow_held", "dispute", "completed"}

Init ==
    /\ status = [o \in Orders |-> "none"]
    /\ taker = [o \in Orders |-> NoUser]
    /\ onChainStatus = [o \in Orders |-> "none"]
    /\ overdue = [o \in Orders |-> FALSE]
    /\ invoice = [o \in Orders |-> "none"]
    /\ deposited = [o \in Orders |-> 0]
    /\ paid = [o \in Orders |-> [k \in Kinds |-> 0]]
    /\ payee = [o \in Orders |-> [k \in Kinds |-> NoUser]]
    /\ notice = [o \in Orders |-> "none"]
    /\ job = [o \in Orders |-> NoJob]
    /\ scanning = FALSE
    /\ scanFound = {}
    /\ scanHits = {}
    /\ client = "none"
    /\ sweeping = FALSE
    /\ sweepLeft = {}
    /\ crashes = 0

-----------------------------------------------------------------------------
(* Helpers.                                                                *)

\* A SELECT ... FOR UPDATE on the row returns at once.
UnlockedAlways(o) == TRUE   \* mutant: the lock is not taken
Unlocked(o) == job[o].op = "none"

\* Commits status s for the orders of S; updated_at restarts.
SaveStatus(S, s) ==
    /\ status' = [o \in Orders |-> IF o \in S THEN s ELSE status[o]]
    /\ overdue' = [o \in Orders |-> IF o \in S THEN FALSE ELSE overdue[o]]

\* fiat_confirmed starts FALSE in every row and no statement of the program
\* assigns it.
FiatConfirmed(o) == FALSE

\* The recipient of each transfer.  A release of a sell order goes to the
\* taker, of a buy order to the maker; a refund always goes to the maker.
PayTo(o, k) ==
    IF k = "release" /\ o \in SellOrders THEN taker[o] ELSE Maker[o]

\* What is left in the wallet of the order, in full amounts.
Wallet(o) == deposited[o] - paid[o]["release"] - paid[o]["refund"]

\* The provider of the order's chain answers at all for its asset.
Answers(o) ==
    /\ o \notin Unreadable
    /\ o \in TonOrders => client = "connected"

\* A transfer can leave: there is a recipient, and the order's own wallet
\* covers it, or Crypto Pay has not seen its spend_id (spend_id for a release,
\* "refund-" and spend_id for a refund).
CanTransfer(o, k) ==
    /\ PayTo(o, k) # NoUser
    /\ IF o \in ChainOrders THEN Wallet(o) >= 1 /\ Answers(o) ELSE paid[o][k] = 0

\* The transfer takes place.
Pay(o, k) ==
    /\ CanTransfer(o, k)
    /\ paid' = [paid EXCEPT ![o][k] = @ + 1]
    /\ payee' = [payee EXCEPT ![o][k] = PayTo(o, k)]
    /\ UNCHANGED <<invoice, deposited>>

\* The transaction on the row of o is op's, about to make the transfer k.
StartJob(o, op, k) ==
    job' = [job EXCEPT ![o] = [op |-> op, kind |-> k, out |-> "pending"]]

EndJob(o) == job' = [job EXCEPT ![o] = NoJob]

-----------------------------------------------------------------------------
(* Creating and funding an ad.                                             *)

CreateOrder(o) ==
    /\ status[o] = "none"
    /\ status' = [status EXCEPT ![o] = "pending_funding"]
    /\ IF o \in ChainOrders
       THEN /\ onChainStatus' = [onChainStatus EXCEPT ![o] = "awaiting_deposit"]
            /\ UNCHANGED invoice
       ELSE /\ invoice' = [invoice EXCEPT ![o] = "open"]
            /\ UNCHANGED onChainStatus
    /\ UNCHANGED <<taker, overdue, deposited, paid, payee, notice, job,
                   scanVars, sweepVars, crashes>>

\* Crypto Pay: the maker pays the invoice, or it expires.
SettleInvoice(o) ==
    /\ invoice[o] = "open"
    /\ \E s \in {"paid", "expired"} : invoice' = [invoice EXCEPT ![o] = s]
    /\ UNCHANGED <<rowVars, deposited, paid, payee, notice, job, scanVars,
                   sweepVars, crashes>>

\* The chain: someone sends the full amount to the order's wallet, at any time
\* after the address was shown.
Deposit(o) ==
    /\ o \in ChainOrders
    /\ status[o] # "none"
    /\ deposited[o] < MaxDeposits
    /\ deposited' = [deposited EXCEPT ![o] = @ + 1]
    /\ UNCHANGED <<rowVars, invoice, paid, payee, notice, job, scanVars,
                   sweepVars, crashes>>

\* The webhook of a paid invoice, delivered any number of times and as late as
\* Crypto Pay likes: activate_order.  In any other status it raises ValueError,
\* which the webhook swallows.
ActivateAnyStatus(o) ==   \* mutant: the status check is dropped
    /\ invoice[o] = "paid"
    /\ Unlocked(o)
    /\ SaveStatus({o}, "active")
    /\ UNCHANGED <<taker, onChainStatus, moneyVars, notice, job, scanVars,
                   sweepVars, crashes>>
ActivateOrder(o) ==
    /\ invoice[o] = "paid"
    /\ Unlocked(o)
    /\ status[o] = "pending_funding"
    /\ SaveStatus({o}, "active")
    /\ UNCHANGED <<taker, onChainStatus, moneyVars, notice, job, scanVars,
                   sweepVars, crashes>>

\* The webhook of an expired invoice: cancel_order_by_payload.
CancelOrderByPayload(o) ==
    /\ invoice[o] = "expired"
    /\ Unlocked(o)
    /\ status[o] = "pending_funding"
    /\ SaveStatus({o}, "cancelled")
    /\ UNCHANGED <<taker, onChainStatus, moneyVars, notice, job, scanVars,
                   sweepVars, crashes>>

\* Time passes: the ad is older than ORDER_TIMEOUT_SEC, or the trade has not
\* been touched for TRADE_TIMEOUT_SEC.
TimeOut(o) ==
    /\ status[o] \in {"pending_funding", "escrow_held"}
    /\ ~overdue[o]
    /\ overdue' = [overdue EXCEPT ![o] = TRUE]
    /\ UNCHANGED <<status, taker, onChainStatus, moneyVars, notice, job,
                   scanVars, sweepVars, crashes>>

\* expire_pending_orders: one transaction cancels every overdue ad whose row is
\* not locked (SKIP LOCKED).  It does not ask whether the ad was paid for.
ExpirableUnpaid ==   \* mutant: only ads whose invoice expired
    {o \in Orders : status[o] = "pending_funding" /\ overdue[o] /\ invoice[o] = "expired"}
Expirable == {o \in Orders : status[o] = "pending_funding" /\ overdue[o] /\ Unlocked(o)}

ExpirePendingOrders ==
    /\ Expirable # {}
    /\ SaveStatus(Expirable, "cancelled")
    /\ UNCHANGED <<taker, onChainStatus, moneyVars, notice, job, scanVars,
                   sweepVars, crashes>>

-----------------------------------------------------------------------------
(* EscrowScanner: read without a lock, await a balance per order, write and *)
(* commit once at the end, whatever the rows have become in between.        *)

ScanEligibleDetected ==   \* mutant: the wrong on_chain_status is selected
    {o \in ChainOrders : /\ status[o] = "pending_funding"
                         /\ onChainStatus[o] = "deposit_detected"}
ScanEligible ==
    {o \in ChainOrders : /\ status[o] = "pending_funding"
                         /\ onChainStatus[o] = "awaiting_deposit"}

ScanBegin ==
    /\ ~scanning
    /\ ScanEligible # {}
    /\ scanning' = TRUE
    /\ scanFound' = ScanEligible
    /\ UNCHANGED <<scanHits, client, rowVars, moneyVars, notice, job, sweepVars,
                   crashes>>

\* _get_client, for a balance the scanner reads, one a wallet screen shows or a
\* transfer: the client is kept before connect() is awaited, and kept if that
\* raises.
GetClient ==
    /\ TonOrders # {}
    /\ client = "none"
    /\ client' \in {"connected", "unconnected"}
    /\ UNCHANGED <<passVars, rowVars, moneyVars, notice, job, sweepVars, crashes>>

\* The connection of the client is lost, and nothing makes another.
LoseClient ==
    /\ client = "connected"
    /\ client' = "unconnected"
    /\ UNCHANGED <<passVars, rowVars, moneyVars, notice, job, sweepVars, crashes>>

\* get_balance answers, and the wallet holds the full amount.
FundedAnyBalance(o) == TRUE   \* mutant: the balance is not compared
FundedOnChain(o) == Wallet(o) >= 1

ScanHit(o) ==
    /\ o \in scanFound
    /\ Answers(o)
    /\ FundedOnChain(o)
    /\ scanFound' = scanFound \ {o}
    /\ scanHits' = scanHits \cup {o}
    /\ UNCHANGED <<scanning, client, rowVars, moneyVars, notice, job, sweepVars,
                   crashes>>

\* The balance is too low, or the provider failed and get_balance returned 0.
ScanMiss(o) ==
    /\ o \in scanFound
    /\ scanFound' = scanFound \ {o}
    /\ UNCHANGED <<scanning, scanHits, client, rowVars, moneyVars, notice, job,
                   sweepVars, crashes>>

ScanCommit ==
    /\ scanning
    /\ scanFound = {}
    /\ \A o \in scanHits : Unlocked(o)
    /\ SaveStatus(scanHits, "active")
    /\ onChainStatus' = [o \in Orders |-> IF o \in scanHits THEN "deposit_detected"
                                          ELSE onChainStatus[o]]
    /\ scanning' = FALSE
    /\ scanHits' = {}
    /\ UNCHANGED <<scanFound, client, taker, moneyVars, notice, job, sweepVars,
                   crashes>>

-----------------------------------------------------------------------------
(* Trading.                                                                *)

TakeOrder(o, u) ==
    /\ Unlocked(o)
    /\ status[o] = "active"
    /\ u # Maker[o]
    /\ SaveStatus({o}, "escrow_held")
    /\ taker' = [taker EXCEPT ![o] = u]
    /\ UNCHANGED <<onChainStatus, moneyVars, notice, job, scanVars, sweepVars,
                   crashes>>

\* The statuses cancel_order accepts; a trade in escrow needs a mediator.
CancellableWithEscrow == {"pending_funding", "active", "escrow_held"}   \* mutant
Cancellable == {"pending_funding", "active"}

CancelOrder(o) ==
    /\ "cancel_order" \in UnwiredCalls
    /\ Unlocked(o)
    /\ status[o] \in Cancellable
    /\ SaveStatus({o}, "cancelled")
    /\ UNCHANGED <<taker, onChainStatus, moneyVars, notice, job, scanVars,
                   sweepVars, crashes>>

RaiseDispute(o) ==
    /\ Unlocked(o)
    /\ status[o] \in {"active", "escrow_held"}
    /\ SaveStatus({o}, "dispute")
    /\ UNCHANGED <<taker, onChainStatus, moneyVars, notice, job, scanVars,
                   sweepVars, crashes>>

-----------------------------------------------------------------------------
(* Settling: transactions that hold the row while money moves.             *)

\* cb_escrow_confirm: the maker confirms the fiat; release_escrow runs in a
\* transaction of its own and wants fiat_confirmed.
EscrowConfirm(o) ==
    /\ Unlocked(o)
    /\ status[o] = "escrow_held"
    /\ IF FiatConfirmed(o)
       THEN /\ StartJob(o, "handler", "release")
            /\ UNCHANGED notice
       ELSE /\ notice' = [notice EXCEPT ![o] = "refused"]
            /\ UNCHANGED job
    /\ UNCHANGED <<rowVars, moneyVars, scanVars, sweepVars, crashes>>

\* confirm_fiat_payment: a forced release inside its own transaction.
ConfirmFiatPayment(o) ==
    /\ "confirm_fiat_payment" \in UnwiredCalls
    /\ Unlocked(o)
    /\ status[o] = "escrow_held"
    /\ StartJob(o, "confirm", "release")
    /\ UNCHANGED <<rowVars, moneyVars, notice, scanVars, sweepVars, crashes>>

\* resolve_dispute: taker_wins releases, maker_wins and cancel refund.  Its
\* first query opens the transaction, so the escrow code joins it and leaves
\* the commit to a caller that never commits.
ResolveDispute(o, decision) ==
    /\ Unlocked(o)
    /\ status[o] = "dispute"
    /\ StartJob(o, "resolve", IF decision = "taker_wins" THEN "release" ELSE "refund")
    /\ UNCHANGED <<rowVars, moneyVars, notice, scanVars, sweepVars, crashes>>

\* expire_stagnant_trades loads the stagnant trades without a lock ...
SweepEligible ==
    {o \in Orders : status[o] = "escrow_held" /\ ~FiatConfirmed(o) /\ overdue[o]}

SweepBegin ==
    /\ ~sweeping
    /\ SweepEligible # {}
    /\ sweeping' = TRUE
    /\ sweepLeft' = SweepEligible
    /\ UNCHANGED <<rowVars, moneyVars, notice, job, scanVars, crashes>>

\* ... then locks and refunds them one by one.  The session has the row in its
\* identity map, so the status refund_escrow checks is the one first loaded:
\* the check passes whatever the row says now.
SweepRefund(o) ==
    /\ o \in sweepLeft
    /\ \A p \in Orders : job[p].op = "sweep" => job[p].out # "pending"
    /\ Unlocked(o)
    /\ StartJob(o, "sweep", "refund")
    /\ sweepLeft' = sweepLeft \ {o}
    /\ UNCHANGED <<sweeping, rowVars, moneyVars, notice, scanVars, crashes>>

\* The session of the sweep closes: every lock it took goes, nothing it wrote
\* was committed, and the parties were told of the refunds that went through.
SweepCloseKeepsLocks ==   \* mutant: a failed refund leaves its transaction open
    /\ sweeping
    /\ sweepLeft = {}
    /\ \A o \in Orders : job[o].op = "sweep" => job[o].out # "pending"
    /\ job' = [o \in Orders |-> IF job[o].op = "sweep" /\ job[o].out = "sent"
                                THEN NoJob ELSE job[o]]
    /\ sweeping' = FALSE
    /\ UNCHANGED <<sweepLeft, rowVars, moneyVars, notice, scanVars, crashes>>
SweepClose ==
    /\ sweeping
    /\ sweepLeft = {}
    /\ \A o \in Orders : job[o].op = "sweep" => job[o].out # "pending"
    /\ job' = [o \in Orders |-> IF job[o].op = "sweep" THEN NoJob ELSE job[o]]
    /\ notice' = [o \in Orders |-> IF job[o].op = "sweep" /\ job[o].out = "sent"
                                   THEN "cancelled" ELSE notice[o]]
    /\ sweeping' = FALSE
    /\ UNCHANGED <<sweepLeft, rowVars, moneyVars, scanVars, crashes>>

\* A database error aborts the transaction of the sweep, before or after a
\* transfer: all of its locks go and every refund it has still to make fails.
SweepBreaks ==
    /\ \E o \in Orders : job[o].op = "sweep"
    /\ job' = [o \in Orders |-> IF job[o].op = "sweep" THEN NoJob ELSE job[o]]
    /\ sweeping' = FALSE
    /\ sweepLeft' = {}
    /\ UNCHANGED <<rowVars, moneyVars, notice, scanVars, crashes>>

-----------------------------------------------------------------------------
(* The transfer of a job, and the end of its transaction.                  *)

TransferEnds(o, out) ==
    /\ job[o].op # "none"
    /\ job[o].out = "pending"
    /\ job' = [job EXCEPT ![o].out = out]
    /\ UNCHANGED <<rowVars, notice, scanVars, sweepVars, crashes>>

TransferSent(o) == TransferEnds(o, "sent") /\ Pay(o, job[o].kind)

\* The transfer left but its answer was lost: the caller gets an exception.
TransferLost(o) == TransferEnds(o, "failed") /\ Pay(o, job[o].kind)

\* Refused or never sent: a used spend_id, no funds, no recipient, no network.
TransferFails(o) == TransferEnds(o, "failed") /\ UNCHANGED moneyVars

\* The release went through: the handler's or confirm_fiat_payment's own
\* transaction commits the completed order.
CompletesEvenIfFailed(o) ==   \* mutant: the exception is not told from success
    job[o].op \in {"handler", "confirm"} /\ job[o].out # "pending"
Completes(o) == job[o].op \in {"handler", "confirm"} /\ job[o].out = "sent"

ReleaseCommits(o) ==
    /\ Completes(o)
    /\ SaveStatus({o}, "completed")
    /\ onChainStatus' = [onChainStatus EXCEPT
                            ![o] = IF o \in ChainOrders THEN "released" ELSE @]
    /\ EndJob(o)
    /\ UNCHANGED <<taker, moneyVars, notice, scanVars, sweepVars, crashes>>

\* The release raised: confirm_fiat_payment commits a dispute instead.
ConfirmFallsToDispute(o) ==
    /\ job[o].op = "confirm"
    /\ job[o].out = "failed"
    /\ SaveStatus({o}, "dispute")
    /\ EndJob(o)
    /\ UNCHANGED <<taker, onChainStatus, moneyVars, notice, scanVars, sweepVars,
                   crashes>>

\* resolve_dispute returns, the moderator is told, and the session closes
\* without a commit: the row keeps status dispute.
ResolveEnds(o) ==
    /\ job[o].op = "resolve"
    /\ job[o].out # "pending"
    /\ EndJob(o)
    /\ notice' = [notice EXCEPT
                    ![o] = IF job[o].out # "sent" THEN @
                           ELSE IF job[o].kind = "release" THEN "completed"
                           ELSE "cancelled"]
    /\ UNCHANGED <<rowVars, moneyVars, scanVars, sweepVars, crashes>>

\* A database error (a deadlock victim, a lost connection, a commit that
\* fails) rolls a handler's transaction back, before or after the transfer.
JobRollsBack(o) ==
    /\ job[o].op \in {"handler", "confirm", "resolve"}
    /\ EndJob(o)
    /\ UNCHANGED <<rowVars, moneyVars, notice, scanVars, sweepVars, crashes>>

\* The process dies: PostgreSQL rolls every open transaction back, the tasks
\* start from nothing.  Money that moved has moved.
Crash ==
    /\ crashes < MaxCrashes
    /\ crashes' = crashes + 1
    /\ job' = [o \in Orders |-> NoJob]
    /\ scanning' = FALSE
    /\ scanFound' = {}
    /\ scanHits' = {}
    /\ client' = "none"
    /\ sweeping' = FALSE
    /\ sweepLeft' = {}
    /\ UNCHANGED <<rowVars, moneyVars, notice>>

-----------------------------------------------------------------------------

\* What people, Crypto Pay and the chain do.
Outside(o) ==
    \/ CreateOrder(o)
    \/ SettleInvoice(o)
    \/ Deposit(o)
    \/ ActivateOrder(o)
    \/ CancelOrderByPayload(o)
    \/ TimeOut(o)
    \/ \E u \in Users : TakeOrder(o, u)
    \/ CancelOrder(o)
    \/ RaiseDispute(o)
    \/ EscrowConfirm(o)
    \/ ConfirmFiatPayment(o)
    \/ \E decision \in {"taker_wins", "maker_wins", "cancel"} :
            ResolveDispute(o, decision)

TransferStep(o) == TransferSent(o) \/ TransferLost(o) \/ TransferFails(o)

JobStep(o) ==
    \/ TransferStep(o)
    \/ ReleaseCommits(o)
    \/ ConfirmFallsToDispute(o)
    \/ ResolveEnds(o)
    \/ JobRollsBack(o)

ClientStep == GetClient \/ LoseClient

ScanStep == ScanBegin \/ ScanCommit \/ \E o \in Orders : ScanHit(o) \/ ScanMiss(o)

SweepStep == SweepBegin \/ SweepClose \/ SweepBreaks \/ \E o \in Orders : SweepRefund(o)

Next ==
    \/ \E o \in Orders : Outside(o) \/ JobStep(o)
    \/ ExpirePendingOrders
    \/ ClientStep
    \/ ScanStep
    \/ SweepStep
    \/ Crash

Spec == Init /\ [][Next]_vars

\* The tasks and open transactions run on: the scanner and cleanup are loops
\* that survive every exception.  Strong fairness on ScanHit: a node that is
\* asked again and again over a working connection sometimes answers; it says
\* nothing of a client that is not connected or an asset the provider does not
\* know.  GetClient: every look at a TON wallet tries it while there is none.
\* SweepRefund: PostgreSQL queues the waiters of a row lock.  Nothing is assumed
\* of people, of time, or of how a connection ends.
TaskFairness ==
    /\ WF_vars(ScanBegin)
    /\ WF_vars(GetClient)
    /\ \A o \in Orders : SF_vars(ScanHit(o))
    /\ WF_vars(\E o \in Orders : ScanHit(o) \/ ScanMiss(o))
    /\ WF_vars(ScanCommit)
    /\ WF_vars(ExpirePendingOrders)
    /\ WF_vars(SweepBegin)
    /\ SF_vars(\E o \in Orders : SweepRefund(o))
    /\ WF_vars(SweepClose)
    /\ \A o \in Orders : WF_vars(JobStep(o))

FairSpec == Spec /\ TaskFairness

-----------------------------------------------------------------------------
(* Invariants.                                                             *)

TypeOK ==
    /\ status \in [Orders -> Statuses]
    /\ taker \in [Orders -> Users \cup {NoUser}]
    /\ onChainStatus \in [Orders -> OnChainStatuses]
    /\ overdue \in [Orders -> BOOLEAN]
    /\ invoice \in [Orders -> InvoiceStates]
    /\ deposited \in [Orders -> 0..MaxDeposits]
    /\ paid \in [Orders -> [Kinds -> Nat]]
    /\ payee \in [Orders -> [Kinds -> Users \cup {NoUser}]]
    /\ notice \in [Orders -> Notices]
    /\ job \in [Orders -> Jobs]
    /\ scanning \in BOOLEAN
    /\ scanFound \subseteq ChainOrders
    /\ scanHits \subseteq ChainOrders
    /\ client \in Clients
    /\ sweeping \in BOOLEAN
    /\ sweepLeft \subseteq Orders
    /\ crashes \in 0..MaxCrashes

\* The maker's money arrived.
Funded(o) == IF o \in ChainOrders THEN deposited[o] > 0 ELSE invoice[o] = "paid"

PaidOut(o) == \E k \in Kinds : paid[o][k] > 0

\* No ad is visible, traded or disputed before its maker's money arrived, for
\* all the late, repeated and racing webhooks and scans (activate_order,
\* EscrowScanner._check_order_deposit).
FundedBeforeListed ==
    \A o \in Orders : status[o] \in Engaged \cup {"active"} => Funded(o)

\* Money leaves an escrow only for a trade or a dispute, and once it has left
\* the order is never listed, pending or cancelled again: an order whose
\* money is gone cannot be traded a second time (release_escrow,
\* refund_escrow, cancel_order).
NoPayoutOutsideTrade ==
    \A o \in Orders : PaidOut(o) => status[o] \in Engaged

\* Whoever was paid is still the party the order names for that transfer: no
\* later step gives the trade to somebody else (take_order, release_escrow).
PayeeOnRecord ==
    \A o \in Orders, k \in Kinds : payee[o][k] # NoUser => payee[o][k] = PayTo(o, k)

\* A completed order was paid out to its recipient: an error of the transfer
\* is never committed as a success (confirm_fiat_payment).
CompletedMeansReleased ==
    \A o \in Orders : status[o] = "completed" => paid[o]["release"] > 0

\* What an open transaction relies on: while it holds the row, the order keeps
\* the status that was checked, and a transfer it saw succeed has been made.
TransactionsInFlight ==
    \A o \in Orders :
        /\ job[o].op \in {"handler", "confirm"}
            => status[o] = "escrow_held" /\ job[o].kind = "release"
        /\ job[o].op = "resolve" => status[o] = "dispute"
        /\ job[o].op = "sweep" => status[o] \in Engaged
        /\ job[o].out = "sent" => paid[o][job[o].kind] > 0

\* What a scan relies on, which holds no lock: an order it loaded is pending or
\* has been cancelled, and one it found funded is.
ScanInFlight ==
    /\ \A o \in scanFound \cup scanHits : status[o] \in {"pending_funding", "cancelled"}
    /\ \A o \in scanHits : deposited[o] > 0

\* What the sweep relies on, which has not locked the trades it has still to
\* refund: none of them was returned to the book.
SweepInFlight == \A o \in sweepLeft : status[o] \in Engaged

\* What open transactions, scans and sweeps rely on stays true until they end,
\* although the latter two hold no lock on what they have loaded
\* (_release_escrow_logic, _scan_once, expire_stagnant_trades).
InFlight == TransactionsInFlight /\ ScanInFlight /\ SweepInFlight

\* The rest of what makes the invariants inductive: an order with a wallet has
\* no invoice, and a payee was paid.
Bookkeeping ==
    /\ \A o \in Orders : invoice[o] # "none" => o \notin ChainOrders
    /\ \A o \in Orders, k \in Kinds : payee[o][k] # NoUser => paid[o][k] > 0

\* The inductive invariant.
IInv ==
    /\ TypeOK
    /\ FundedBeforeListed
    /\ NoPayoutOutsideTrade
    /\ PayeeOnRecord
    /\ CompletedMeansReleased
    /\ InFlight
    /\ Bookkeeping

-----------------------------------------------------------------------------
(* Action properties and refinement.                                       *)

\* While a transaction of a handler holds the row of an order, no other
\* handler, webhook or task changes its status or its taker
\* (SELECT ... FOR UPDATE in every service, the scanner's UPDATE at commit).
SettlingOrderFrozen ==
    [][\A o \in Orders :
        job[o].op # "none" /\ job'[o].op = job[o].op
            => status'[o] = status[o] /\ taker'[o] = taker[o]]_vars

\* The order book promises what OrderBook says; only an order that waits for
\* an on-chain deposit may come back from cancelled (EscrowScanner).
Book == INSTANCE OrderBook WITH Relistable <- ChainOrders

BookSpec == Book!Spec

\* An order has a taker of record exactly from the moment it is taken, the
\* taker is never its maker, and only a dispute raised on an active ad may be
\* without one, whatever the unlocked scan, the sweep and late webhooks write
\* (take_order, raise_dispute).
TakerOfRecord == Book!TakerOfRecord

\* The counterparty of a trade never changes once it is known: nothing brings
\* a taken ad back to where another user may take it (take_order).
OneTaker == Book!OneTaker

-----------------------------------------------------------------------------
(* Liveness, under TaskFairness.                                           *)

\* An on-chain ad whose deposit is in its wallet does not wait forever: the
\* scanner lists it, unless it is cancelled first (EscrowScanner.run).  Only a
\* TON client that did not connect, or lost its connection, and an asset its
\* provider does not know leave a deposit unseen (_get_client, get_balance).
DepositIsNoticed ==
    \A o \in ChainOrders \ Unreadable :
        (status[o] = "pending_funding" /\ Wallet(o) >= 1)
            ~> \/ status[o] # "pending_funding"
               \/ o \in TonOrders /\ client = "unconnected"

\* An ad that nobody paid for in time goes away (expire_pending_orders).
OverdueAdExpires ==
    \A o \in Orders :
        (status[o] = "pending_funding" /\ overdue[o]) ~> (status[o] # "pending_funding")

\* Every transaction that took a row lock lets it go, the sweep's included,
\* which keeps all of its locks until it has been through every trade
\* (expire_stagnant_trades).
LocksAreReleased ==
    \A o \in Orders : (job[o].op # "none") ~> (job[o].op = "none")

-----------------------------------------------------------------------------
(* What the program's own words promise and its code does not keep.        *)

\* order.py says a cancelled order is "Timed-out or user-cancelled" and README
\* that every status change is made under a row lock: a cancelled order is not
\* brought back to the book (EscrowScanner._scan_once).
CancelledIsFinal ==
    [][\A o \in Orders : status[o] = "cancelled" => status'[o] = "cancelled"]_vars

\* The outcome of a dispute the moderator and the parties are told of is the
\* status of the order (resolve_dispute).
ResolutionPersists ==
    \A o \in Orders : notice[o] = "completed" => status[o] = "completed"

\* An order is settled once: never both released and refunded, which the
\* idempotency keys are there for (release_escrow, refund_escrow).
SettledOnce ==
    \A o \in Orders : ~(paid[o]["release"] > 0 /\ paid[o]["refund"] > 0)

\* The sweep refunds trades in escrow, and leaves a disputed order to its
\* moderator (expire_stagnant_trades, raise_dispute).
SweepSparesDisputes ==
    [][\A o \in Orders :
        job[o].op = "sweep" /\ paid'[o] # paid[o] => status[o] # "dispute"]_vars
=============================================================================
