----------------------------- MODULE B2BLicense -----------------------------
(***************************************************************************)
(* How a white-label licence is bought: b2b_service over the tables        *)
(* ton_invoices and b2b_licenses, the handlers that create an invoice and  *)
(* take a Stars payment, and the scanner that reads the master wallet once *)
(* a minute and matches transfers to invoices by their comment.            *)
(*                                                                         *)
(* A pass of the scanner uses one database session for all the             *)
(* transactions it fetched, so what it wrote without a commit stays        *)
(* visible to itself until the pass ends.                                  *)
(***************************************************************************)
EXTENDS Integers, Sequences

CONSTANTS
    Users,       \* Telegram ids
    NoUser,      \* no licence row has this charge
    Invoices,    \* the rows of ton_invoices, named by their memo
    Owner,       \* owner_id of each invoice
    Txs,         \* transfers to the master wallet, named by their hash
    Memo,        \* the comment of each: an invoice, or NoInvoice
    NoInvoice,
    Enough,      \* the transfers of at least the amount of their invoice
    NoTx,        \* tx_hash IS NULL
    Stars,       \* Stars payments to the bot, named by their charge id
    Payer,       \* who makes each
    Window,      \* how many transactions a pass fetches
    Accepts,     \* which uses of the database layer it accepts
    MaxFaults    \* bound: crashes, failed statements and failed handlers

\* SQLAlchemy refuses session.begin() after a query has opened a transaction.
Uses == {"nested_begin"}

ASSUME LicenseAssumption ==
    /\ NoUser \notin Users
    /\ Owner \in [Invoices -> Users]
    /\ NoInvoice \notin Invoices
    /\ Memo \in [Txs -> Invoices \cup {NoInvoice}]
    /\ Enough \subseteq Txs
    /\ NoTx \notin Txs
    /\ Txs \cap Stars = {}
    /\ Payer \in [Stars -> Users]
    /\ Window \in Nat \ {0}
    /\ Accepts \subseteq Uses
    /\ MaxFaults \in Nat

\* telegram_payment_charge_id, unique: "TON:" and a hash, or the Stars charge.
Charges == Txs \cup Stars

VARIABLES
    \* The tables, as committed.
    status,    \* [Invoices -> InvoiceStatuses]
    txHash,    \* [Invoices -> Txs \cup {NoTx}]
    licence,   \* [Charges -> Users \cup {NoUser}]: owner_id of its licence
    \* The world outside.
    chain,     \* the transfers the master wallet received, newest first
    update,    \* [Stars -> UpdateStates]: its successful_payment update
    \* The bot process: lost in a crash.
    scanning,  \* a pass has its session open
    todo,      \* what the pass fetched and has still to look at
    dirty,     \* invoices the pass's session set to paid and did not commit
    handler,   \* the Stars payments whose handler has found no licence yet
    client,    \* Clients: the LiteClient that the scanner's provider keeps
    disputing, \* users whose state is DisputeFSM.enter_reason
    faults     \* 0..MaxFaults

tableVars == <<status, txHash, licence>>
passVars == <<scanning, todo, dirty, client>>
starsVars == <<update, handler, disputing>>
vars == <<tableVars, chain, passVars, starsVars, faults>>

InvoiceStatuses == {"none", "pending", "paid"}

\* Telegram keeps an update until getUpdates is called with a higher offset.
UpdateStates == {"unpaid", "queued", "fetched", "confirmed"}

\* No client yet, one whose connect() succeeded, and one whose connect() failed
\* or whose connection was lost.
Clients == {"none", "connected", "unconnected"}

Init ==
    /\ status = [i \in Invoices |-> "none"]
    /\ txHash = [i \in Invoices |-> NoTx]
    /\ licence = [c \in Charges |-> NoUser]
    /\ chain = <<>>
    /\ update = [s \in Stars |-> "unpaid"]
    /\ scanning = FALSE
    /\ todo = <<>>
    /\ dirty = {}
    /\ handler = {}
    /\ client = "none"
    /\ disputing = {}
    /\ faults = 0

-----------------------------------------------------------------------------
(* Paying in TON.                                                          *)

\* cb_b2b_pay_ton: the invoice and its memo are committed before the user
\* sees them.
CreateInvoice(i) ==
    /\ status[i] = "none"
    /\ status' = [status EXCEPT ![i] = "pending"]
    /\ UNCHANGED <<txHash, licence, chain, passVars, starsVars, faults>>

OnChain == {chain[k] : k \in 1..Len(chain)}

\* Somebody sends t; only who has seen a memo can use it.
SendTon(t) ==
    /\ t \notin OnChain
    /\ Memo[t] \in Invoices => status[Memo[t]] # "none"
    /\ chain' = <<t>> \o chain
    /\ UNCHANGED <<tableVars, passVars, starsVars, faults>>

\* What get_transactions returns: the newest Window transactions.
Fetched == SubSeq(chain, 1, IF Len(chain) < Window THEN Len(chain) ELSE Window)

\* get_transactions answers, over the client the provider keeps or makes.
ScanBegin ==
    /\ ~scanning
    /\ chain # <<>>
    /\ client # "unconnected"
    /\ client' = "connected"
    /\ scanning' = TRUE
    /\ todo' = Fetched
    /\ UNCHANGED <<tableVars, chain, dirty, starsVars, faults>>

\* The client is kept although its connect() raised, or has lost its connection:
\* get_transactions raises, in this pass and in every later one.  (A fetch that
\* fails over a working connection changes nothing.)
FetchFails ==
    /\ ~scanning
    /\ client # "unconnected"
    /\ client' = "unconnected"
    /\ UNCHANGED <<tableVars, chain, scanning, todo, dirty, starsVars, faults>>

\* The invoice a transfer names, as the session of the pass sees it: pending.
Pending(i) == i \in Invoices /\ status[i] = "pending" /\ i \notin dirty

PayableAnyAmount(t) ==   \* mutant: the amount is not compared
    Pending(Memo[t])
PayableAgain(t) ==   \* mutant: a paid invoice is paid once more
    Memo[t] \in Invoices /\ Memo[t] \notin dirty /\ t \in Enough
Payable(t) == Pending(Memo[t]) /\ t \in Enough

Looked == todo' = Tail(todo)

\* No such memo, already paid, or not enough.
Ignore ==
    /\ todo # <<>>
    /\ ~Payable(Head(todo))
    /\ Looked
    /\ UNCHANGED <<tableVars, chain, scanning, dirty, client, starsVars, faults>>

\* process_ton_payment of a transfer that pays: the invoice is set to paid in
\* the session, and create_b2b_license adds the licence unless the charge has
\* one; one commit saves both.  Where session.begin() raises, the invoice stays
\* set in the session, nothing is committed, and the pass goes on.
Activate ==
    /\ todo # <<>>
    /\ Payable(Head(todo))
    /\ Looked
    /\ LET t == Head(todo)
           i == Memo[t]
       IN  IF "nested_begin" \in Accepts
           THEN /\ status' = [status EXCEPT ![i] = "paid"]
                /\ txHash' = [txHash EXCEPT ![i] = t]
                /\ licence' = [licence EXCEPT ![t] = IF @ = NoUser THEN Owner[i] ELSE @]
                /\ UNCHANGED dirty
           ELSE /\ dirty' = dirty \cup {i}
                /\ UNCHANGED tableVars
    /\ UNCHANGED <<chain, scanning, client, starsVars, faults>>

\* A statement fails: the session refuses every later one of the pass.
PassFails ==
    /\ todo # <<>>
    /\ faults < MaxFaults
    /\ faults' = faults + 1
    /\ todo' = <<>>
    /\ UNCHANGED <<tableVars, chain, scanning, dirty, client, starsVars>>

\* The session is closed, which rolls back what was not committed.
ScanEnd ==
    /\ scanning
    /\ todo = <<>>
    /\ scanning' = FALSE
    /\ dirty' = {}
    /\ UNCHANGED <<tableVars, chain, todo, client, starsVars, faults>>

-----------------------------------------------------------------------------
(* Paying in Stars.                                                        *)

\* cb_pre_checkout says yes to every payment, whatever it is for, and
\* Telegram queues the update that says it was made.
PayStars(s) ==
    /\ update[s] = "unpaid"
    /\ update' = [update EXCEPT ![s] = "queued"]
    /\ UNCHANGED <<tableVars, chain, passVars, handler, disputing, faults>>

\* cb_dispute_raise asks a user for a reason; msg_dispute_reason takes it, or
\* another dialog replaces the state.
EnterDispute(u) ==
    /\ u \notin disputing
    /\ disputing' = disputing \cup {u}
    /\ UNCHANGED <<tableVars, chain, passVars, update, handler, faults>>

LeaveDispute(u) ==
    /\ u \in disputing
    /\ disputing' = disputing \ {u}
    /\ UNCHANGED <<tableVars, chain, passVars, update, handler, faults>>

HandleFirstPayment(s) ==   \* mutant: a payer with a licence gets no other
    /\ update[s] = "queued"
    /\ update' = [update EXCEPT ![s] = "fetched"]
    /\ handler' = IF Payer[s] \notin disputing /\ \A c \in Charges : licence[c] # Payer[s]
                  THEN handler \cup {s} ELSE handler
    /\ UNCHANGED <<tableVars, chain, passVars, disputing, faults>>
\* The update is fetched and routed.  Of a user who is asked for a reason the
\* dispute router takes every message, this one too, and answers "Reason cannot
\* be empty."; else msg_successful_payment runs up to create_b2b_license's
\* check: a charge that has its licence needs no other.
HandlePayment(s) ==
    /\ update[s] = "queued"
    /\ update' = [update EXCEPT ![s] = "fetched"]
    /\ handler' = IF Payer[s] \notin disputing /\ licence[s] = NoUser
                  THEN handler \cup {s} ELSE handler
    /\ UNCHANGED <<tableVars, chain, passVars, disputing, faults>>

InsertLicence(s) ==
    /\ s \in handler
    /\ handler' = handler \ {s}
    /\ licence' = [licence EXCEPT ![s] = Payer[s]]
    /\ UNCHANGED <<status, txHash, chain, passVars, update, disputing, faults>>

\* The insert fails; the error is logged and nobody tries again.
HandlerFails(s) ==
    /\ s \in handler
    /\ faults < MaxFaults
    /\ faults' = faults + 1
    /\ handler' = handler \ {s}
    /\ UNCHANGED <<tableVars, chain, passVars, update, disputing>>

\* The next getUpdates names a higher offset, whether or not the handlers of
\* the updates before it have ended: they run in tasks of their own.
ConfirmUpdates ==
    /\ \E s \in Stars : update[s] = "fetched"
    /\ update' = [s \in Stars |->
                    IF update[s] = "fetched" THEN "confirmed" ELSE update[s]]
    /\ UNCHANGED <<tableVars, chain, passVars, handler, disputing, faults>>

\* The process dies and is started again; Telegram sends once more what was
\* fetched and not confirmed.  Redis keeps the states of users, memory does not.
Crash ==
    /\ faults < MaxFaults
    /\ faults' = faults + 1
    /\ scanning' = FALSE
    /\ todo' = <<>>
    /\ dirty' = {}
    /\ handler' = {}
    /\ client' = "none"
    /\ disputing' \in {disputing, {}}
    /\ update' = [s \in Stars |->
                    IF update[s] = "fetched" THEN "queued" ELSE update[s]]
    /\ UNCHANGED <<tableVars, chain>>

-----------------------------------------------------------------------------
Scan == ScanBegin \/ Ignore \/ Activate \/ ScanEnd

Handle(s) == HandlePayment(s) \/ InsertLicence(s)

Next ==
    \/ \E i \in Invoices : CreateInvoice(i)
    \/ \E t \in Txs : SendTon(t)
    \/ Scan
    \/ FetchFails
    \/ PassFails
    \/ \E s \in Stars : EnterDispute(Payer[s]) \/ LeaveDispute(Payer[s])
    \/ \E s \in Stars : PayStars(s) \/ Handle(s) \/ HandlerFails(s)
    \/ ConfirmUpdates
    \/ Crash

Spec == Init /\ [][Next]_vars

\* TONScanner.run loops for ever and a pass over a working connection sometimes
\* fetches (nothing is assumed of a client without one, where ScanBegin is not
\* enabled); polling hands every update to a task, and the statements of a task
\* end.  Nobody has to buy anything, or to leave a dialog.
Fairness ==
    /\ WF_vars(Scan)
    /\ WF_vars(ConfirmUpdates)
    /\ \A s \in Stars : WF_vars(Handle(s))

FairSpec == Spec /\ Fairness

-----------------------------------------------------------------------------
(* Properties.                                                             *)

TypeOK ==
    /\ status \in [Invoices -> InvoiceStatuses]
    /\ txHash \in [Invoices -> Txs \cup {NoTx}]
    /\ licence \in [Charges -> Users \cup {NoUser}]
    /\ chain \in Seq(Txs)
    /\ update \in [Stars -> UpdateStates]
    /\ scanning \in BOOLEAN
    /\ todo \in Seq(Txs)
    /\ dirty \subseteq Invoices
    /\ handler \subseteq Stars
    /\ client \in Clients
    /\ disputing \subseteq Users
    /\ faults \in 0..MaxFaults

\* A licence was paid for, by a Stars payment of its owner or by a sufficient
\* transfer to the owner's invoice: process_ton_payment never gives one for a
\* comment, an amount or an owner that does not fit, and create_b2b_license
\* never one to a user who did not pay, however passes, handlers, retries and
\* crashes interleave.  (Of a Stars payment neither the amount nor the purpose
\* is looked at: msg_successful_payment takes every one.)
LicenceIsPaidFor ==
    /\ \A t \in Txs : licence[t] # NoUser =>
          t \in OnChain \cap Enough /\ Memo[t] \in Invoices /\ licence[t] = Owner[Memo[t]]
    /\ \A s \in Stars : licence[s] # NoUser =>
          licence[s] = Payer[s] /\ update[s] # "unpaid"

\* An invoice is paid exactly when the transfer it records has bought its owner
\* a licence, and it buys one only: the two tables are never committed apart,
\* and a second transfer with the same memo, or the same transfer met again in
\* the next pass, buys nothing (process_ton_payment).
InvoiceBuysOneLicence ==
    /\ \A i \in Invoices : status[i] = "paid" =>
          txHash[i] \in Txs /\ Memo[txHash[i]] = i /\ licence[txHash[i]] # NoUser
    /\ \A t \in Txs : licence[t] # NoUser =>
          Memo[t] \in Invoices /\ status[Memo[t]] = "paid" /\ txHash[Memo[t]] = t

\* What a pass holds is on the chain, a handler works for a payment whose
\* update was fetched, and a session is open only during a pass.
InFlight ==
    /\ \A k \in 1..Len(todo) : todo[k] \in OnChain
    /\ \A s \in handler : update[s] \in {"fetched", "confirmed"}
    /\ \A t \in OnChain : Memo[t] \in Invoices => status[Memo[t]] # "none"

\* The inductive invariant.
IInv == TypeOK /\ LicenceIsPaidFor /\ InvoiceBuysOneLicence /\ InFlight

-----------------------------------------------------------------------------
(* Liveness, under Fairness.                                               *)

Recent == {chain[k] : k \in 1..(IF Len(chain) < Window THEN Len(chain) ELSE Window)}

\* A sufficient transfer with the memo of an open invoice is a licence soon
\* ("within 2-5 minutes", b2b.py:157), unless Window newer transactions push it
\* out of reach before a pass gets to it, or the scanner is left with a client
\* that is not connected.  It is so where the nested begin is accepted; as
\* shipped every pass loses what it wrote (process_ton_payment).
TonPaymentIsLicensed ==
    \A t \in Enough :
        (t \in Recent /\ Memo[t] \in Invoices)
            ~> \/ status[Memo[t]] = "paid"
               \/ t \notin Recent
               \/ client = "unconnected"

\* A Stars payment whose update Telegram still keeps becomes a licence of its
\* payer once nothing fails any more, unless the payer is asked for the reason of
\* a dispute when it comes: a crash may repeat the update, and the check of the
\* charge may not lose the payment for that (create_b2b_license).
StarsPaymentIsLicensed ==
    \A s \in Stars :
        (update[s] = "queued" /\ faults = MaxFaults)
            ~> (licence[s] = Payer[s] \/ Payer[s] \in disputing)

=============================================================================
