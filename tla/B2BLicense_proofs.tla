-------------------------- MODULE B2BLicense_proofs --------------------------
(***************************************************************************)
(* Theorems about B2BLicense, for any users, invoices, transfers, Stars    *)
(* payments, window and number of faults, and whether or not the database  *)
(* layer accepts the nested begin: its types, its inductive invariant and  *)
(* the two safety invariants it contains.                                  *)
(***************************************************************************)
EXTENDS B2BLicense, TLAPS

-----------------------------------------------------------------------------
(* The chain and what a pass fetched of it.                                *)

\* The transfers of a pass are transfers of the chain (get_transactions).
LEMMA FetchedOnChain ==
  ASSUME chain \in Seq(Txs)
  PROVE  /\ Fetched \in Seq(Txs)
         /\ \A k \in 1..Len(Fetched) : Fetched[k] \in OnChain
<1> DEFINE n == IF Len(chain) < Window THEN Len(chain) ELSE Window
<1>1. n \in Nat /\ n <= Len(chain)
  BY LicenseAssumption
<1>2. Fetched = SubSeq(chain, 1, n)
  BY DEF Fetched
<1>3. Fetched \in Seq(Txs) /\ Len(Fetched) = n
  BY <1>1, <1>2
<1>4. ASSUME NEW k \in 1..n PROVE Fetched[k] = chain[k]
  BY <1>1, <1>2, <1>4
<1> QED
  BY <1>1, <1>3, <1>4 DEF OnChain

\* The next transaction of a pass, and what is left of it after that.
LEMMA TodoParts ==
  ASSUME todo \in Seq(Txs), todo # <<>>,
         \A k \in 1..Len(todo) : todo[k] \in OnChain
  PROVE  /\ Head(todo) \in Txs \cap OnChain
         /\ Tail(todo) \in Seq(Txs)
         /\ \A k \in 1..Len(Tail(todo)) : Tail(todo)[k] \in OnChain
<1>1. Len(todo) \in Nat /\ Len(todo) > 0
  OBVIOUS
<1>2. Head(todo) = todo[1]
  OBVIOUS
<1>3. Tail(todo) \in Seq(Txs) /\ Len(Tail(todo)) = Len(todo) - 1
  BY <1>1
<1>4. ASSUME NEW k \in 1..(Len(todo) - 1)
      PROVE  Tail(todo)[k] = todo[k + 1] /\ k + 1 \in 1..Len(todo)
  BY <1>1, <1>4
<1> QED
  BY <1>1, <1>2, <1>3, <1>4

\* A transfer joins the chain and none leaves it.
LEMMA ChainGrows ==
  ASSUME chain \in Seq(Txs), NEW t \in Txs, chain' = <<t>> \o chain
  PROVE  chain' \in Seq(Txs) /\ OnChain' = OnChain \cup {t}
<1>1. chain' \in Seq(Txs) /\ Len(chain') = Len(chain) + 1
  OBVIOUS
<1>2. chain'[1] = t
  OBVIOUS
<1>3. ASSUME NEW k \in 1..Len(chain) PROVE chain'[k + 1] = chain[k]
  OBVIOUS
<1>4. ASSUME NEW x \in OnChain' PROVE x \in OnChain \cup {t}
  <2>1. PICK k \in 1..Len(chain') : x = chain'[k]
    BY <1>4 DEF OnChain
  <2>2. CASE k = 1
    BY <2>1, <2>2, <1>2
  <2>3. CASE k # 1
    <3>1. k - 1 \in 1..Len(chain) /\ (k - 1) + 1 = k
      BY <2>1, <2>3, <1>1
    <3>2. chain'[k] = chain[k - 1]
      BY <3>1, <1>3
    <3> QED
      BY <3>1, <3>2, <2>1 DEF OnChain
  <2> QED
    BY <2>2, <2>3
<1>5. OnChain \cup {t} \subseteq OnChain'
  <2>1. t \in OnChain'
    BY <1>1, <1>2 DEF OnChain
  <2>2. ASSUME NEW k \in 1..Len(chain) PROVE chain[k] \in OnChain'
    <3>1. k + 1 \in 1..Len(chain')
      BY <1>1
    <3> QED
      BY <3>1, <1>3 DEF OnChain
  <2> QED
    BY <2>1, <2>2 DEF OnChain
<1> QED
  BY <1>1, <1>4, <1>5

-----------------------------------------------------------------------------
(* The inductive invariant.                                                *)

\* Empty tables satisfy the invariant.
LEMMA IInvInit == Init => IInv
<1> SUFFICES ASSUME Init PROVE IInv
  OBVIOUS
<1> USE LicenseAssumption DEF Init
<1>1. TypeOK
  <2>1. chain \in Seq(Txs) /\ todo \in Seq(Txs)
    OBVIOUS
  <2>2. /\ status \in [Invoices -> InvoiceStatuses]
        /\ txHash \in [Invoices -> Txs \cup {NoTx}]
        /\ licence \in [Charges -> Users \cup {NoUser}]
        /\ update \in [Stars -> UpdateStates]
    BY DEF InvoiceStatuses, UpdateStates
  <2>3. faults \in 0..MaxFaults
    OBVIOUS
  <2>4. scanning \in BOOLEAN
    OBVIOUS
  <2>5. dirty \subseteq Invoices /\ handler \subseteq Stars
    OBVIOUS
  <2>6. client \in Clients /\ disputing \subseteq Users
    BY DEF Clients
  <2> QED
    BY <2>1, <2>2, <2>3, <2>4, <2>5, <2>6 DEF TypeOK
<1>2. LicenceIsPaidFor /\ InvoiceBuysOneLicence
  BY DEF LicenceIsPaidFor, InvoiceBuysOneLicence, Charges
<1>3. InFlight
  BY DEF InFlight, OnChain
<1> QED
  BY <1>1, <1>2, <1>3 DEF IInv

\* The commit of process_ton_payment: the licence and the invoice change
\* together, for an invoice that was pending and so had bought nothing.
LEMMA ActivatePreserves == ASSUME IInv, Activate PROVE IInv'
<1> DEFINE t == Head(todo)
           i == Memo[t]
<1> USE LicenseAssumption
<1>1. /\ t \in Txs \cap OnChain /\ todo' \in Seq(Txs)
      /\ \A k \in 1..Len(todo') : todo'[k] \in OnChain
  BY TodoParts DEF IInv, TypeOK, InFlight, Activate, Looked
<1>2. i \in Invoices /\ status[i] = "pending" /\ t \in Enough
  BY DEF Activate, Payable, Pending
<1>3. OnChain' = OnChain
  BY DEF Activate, OnChain
<1> HIDE DEF t, i
<1>4. CASE "nested_begin" \in Accepts
  <2>1. /\ status' = [status EXCEPT ![i] = "paid"]
        /\ txHash' = [txHash EXCEPT ![i] = t]
        /\ licence' = [licence EXCEPT ![t] = IF licence[t] = NoUser THEN Owner[i] ELSE licence[t]]
        /\ UNCHANGED <<chain, scanning, dirty, client, starsVars, faults>>
    BY <1>4 DEF Activate, t, i
  <2>2. licence[t] = NoUser
    BY <1>1, <1>2 DEF IInv, InvoiceBuysOneLicence, i
  <2>3. licence' = [licence EXCEPT ![t] = Owner[i]] /\ t \in Charges /\ Owner[i] \in Users
    BY <2>1, <2>2, <1>1, <1>2 DEF Charges
  <2>4. TypeOK'
    BY <2>1, <2>3, <1>1, <1>2 DEF IInv, TypeOK, InvoiceStatuses, starsVars
  <2>5. LicenceIsPaidFor'
    <3>1. ASSUME NEW u \in Txs, licence'[u] # NoUser
          PROVE  u \in OnChain' \cap Enough /\ Memo[u] \in Invoices
                 /\ licence'[u] = Owner[Memo[u]]
      BY <3>1, <2>3, <1>1, <1>2, <1>3 DEF IInv, TypeOK, LicenceIsPaidFor, i, Charges
    <3>2. ASSUME NEW s \in Stars PROVE licence'[s] = licence[s] /\ update' = update
      BY <2>1, <2>3, <1>1 DEF IInv, TypeOK, Charges, starsVars
    <3> QED
      BY <3>1, <3>2 DEF IInv, LicenceIsPaidFor
  <2>6. InvoiceBuysOneLicence'
    <3>1. ASSUME NEW j \in Invoices, status'[j] = "paid"
          PROVE  /\ txHash'[j] \in Txs /\ Memo[txHash'[j]] = j
                 /\ licence'[txHash'[j]] # NoUser
      <4>1. CASE j = i
        BY <4>1, <2>1, <2>3, <1>1, <1>2 DEF IInv, TypeOK, i, Charges
      <4>2. CASE j # i
        BY <4>2, <3>1, <2>1, <2>3, <1>1, <1>2
           DEF IInv, TypeOK, InvoiceBuysOneLicence, Charges
      <4> QED
        BY <4>1, <4>2
    <3>2. ASSUME NEW u \in Txs, licence'[u] # NoUser
          PROVE  /\ Memo[u] \in Invoices /\ status'[Memo[u]] = "paid"
                 /\ txHash'[Memo[u]] = u
      <4>1. CASE u = t
        BY <4>1, <2>1, <1>2 DEF IInv, TypeOK, i
      <4>2. CASE u # t
        <5>1. licence[u] # NoUser
          BY <4>2, <3>2, <2>3 DEF IInv, TypeOK, Charges
        <5>2. Memo[u] # i
          BY <5>1, <1>2 DEF IInv, InvoiceBuysOneLicence
        <5> QED
          BY <5>1, <5>2, <2>1 DEF IInv, TypeOK, InvoiceBuysOneLicence
      <4> QED
        BY <4>1, <4>2
    <3> QED
      BY <3>1, <3>2 DEF InvoiceBuysOneLicence
  <2>7. InFlight'
    BY <2>1, <1>1, <1>2, <1>3 DEF IInv, TypeOK, InFlight, starsVars
  <2> QED
    BY <2>4, <2>5, <2>6, <2>7 DEF IInv
<1>5. CASE "nested_begin" \notin Accepts
  <2>1. /\ dirty' = dirty \cup {i}
        /\ UNCHANGED <<tableVars, chain, scanning, client, starsVars, faults>>
    BY <1>5 DEF Activate, t, i
  <2> USE <2>1 DEF tableVars, starsVars
  <2>2. TypeOK'
    BY <1>1, <1>2 DEF IInv, TypeOK
  <2>3. LicenceIsPaidFor' /\ InvoiceBuysOneLicence'
    BY <1>3 DEF IInv, LicenceIsPaidFor, InvoiceBuysOneLicence
  <2>4. InFlight'
    BY <1>1, <1>3 DEF IInv, InFlight
  <2> QED
    BY <2>2, <2>3, <2>4 DEF IInv
<1> QED
  BY <1>4, <1>5

\* The insert of a Stars licence (create_b2b_license).
LEMMA InsertPreserves == ASSUME IInv, NEW s \in Stars, InsertLicence(s) PROVE IInv'
<1> USE LicenseAssumption
<1>1. /\ licence' = [licence EXCEPT ![s] = Payer[s]] /\ s \in handler
      /\ handler' = handler \ {s}
      /\ UNCHANGED <<status, txHash, chain, passVars, update, disputing, faults>>
  BY DEF InsertLicence
<1>2. Payer[s] \in Users /\ s \notin Txs
  OBVIOUS
<1>3. OnChain' = OnChain
  BY <1>1 DEF OnChain
<1>4. \A t \in Txs : licence'[t] = licence[t]
  BY <1>1, <1>2 DEF IInv, TypeOK, Charges
<1>5. TypeOK'
  BY <1>1, <1>2 DEF IInv, TypeOK, Charges, passVars
<1>6. LicenceIsPaidFor'
  <2>1. ASSUME NEW q \in Stars, licence'[q] # NoUser
        PROVE  licence'[q] = Payer[q] /\ update'[q] # "unpaid"
    BY <2>1, <1>1 DEF IInv, TypeOK, LicenceIsPaidFor, InFlight, Charges
  <2> QED
    BY <2>1, <1>3, <1>4 DEF IInv, LicenceIsPaidFor
<1>7. InvoiceBuysOneLicence'
  BY <1>1, <1>4 DEF IInv, InvoiceBuysOneLicence
<1>8. InFlight'
  BY <1>1, <1>3 DEF IInv, InFlight, passVars
<1> QED
  BY <1>5, <1>6, <1>7, <1>8 DEF IInv

\* Every step preserves the invariant.
LEMMA IInvNext == IInv /\ [Next]_vars => IInv'
<1> SUFFICES ASSUME IInv, [Next]_vars PROVE IInv'
  OBVIOUS
<1> USE LicenseAssumption
<1>1. ASSUME NEW i \in Invoices, CreateInvoice(i) PROVE IInv'
  <2> USE <1>1 DEF CreateInvoice, passVars, starsVars
  <2>1. OnChain' = OnChain
    BY DEF OnChain
  <2>2. TypeOK'
    BY DEF IInv, TypeOK, InvoiceStatuses
  <2>3. LicenceIsPaidFor'
    BY <2>1 DEF IInv, LicenceIsPaidFor
  <2>4. InvoiceBuysOneLicence'
    BY DEF IInv, TypeOK, InvoiceBuysOneLicence
  <2>5. InFlight'
    BY <2>1 DEF IInv, TypeOK, InFlight
  <2> QED
    BY <2>2, <2>3, <2>4, <2>5 DEF IInv
<1>2. ASSUME NEW t \in Txs, SendTon(t) PROVE IInv'
  <2> USE <1>2 DEF SendTon, tableVars, passVars, starsVars
  <2>1. chain' \in Seq(Txs) /\ OnChain' = OnChain \cup {t}
    BY ChainGrows DEF IInv, TypeOK
  <2>2. TypeOK'
    BY <2>1 DEF IInv, TypeOK
  <2>3. LicenceIsPaidFor' /\ InvoiceBuysOneLicence'
    BY <2>1 DEF IInv, LicenceIsPaidFor, InvoiceBuysOneLicence
  <2>4. InFlight'
    BY <2>1 DEF IInv, InFlight
  <2> QED
    BY <2>2, <2>3, <2>4 DEF IInv
<1>3. CASE ScanBegin
  <2> USE <1>3 DEF ScanBegin, tableVars, starsVars
  <2>1. OnChain' = OnChain
    BY DEF OnChain
  <2>2. TypeOK'
    BY FetchedOnChain DEF IInv, TypeOK, Clients
  <2>3. LicenceIsPaidFor' /\ InvoiceBuysOneLicence'
    BY <2>1 DEF IInv, LicenceIsPaidFor, InvoiceBuysOneLicence
  <2>4. InFlight'
    BY <2>1, FetchedOnChain DEF IInv, TypeOK, InFlight
  <2> QED
    BY <2>2, <2>3, <2>4 DEF IInv
<1>4. CASE Ignore
  <2>1. /\ todo' \in Seq(Txs) /\ \A k \in 1..Len(todo') : todo'[k] \in OnChain
        /\ UNCHANGED <<tableVars, chain, scanning, dirty, client, starsVars, faults>>
    BY <1>4, TodoParts DEF IInv, TypeOK, InFlight, Ignore, Looked
  <2> USE <2>1 DEF tableVars, starsVars
  <2>2. OnChain' = OnChain
    BY DEF OnChain
  <2>3. TypeOK'
    BY DEF IInv, TypeOK
  <2>4. LicenceIsPaidFor' /\ InvoiceBuysOneLicence'
    BY <2>2 DEF IInv, LicenceIsPaidFor, InvoiceBuysOneLicence
  <2>5. InFlight'
    BY <2>2 DEF IInv, InFlight
  <2> QED
    BY <2>3, <2>4, <2>5 DEF IInv
<1>5. CASE Activate
  BY <1>5, ActivatePreserves
<1>6. CASE PassFails \/ ScanEnd \/ Crash
  <2>1. /\ todo' = <<>> /\ OnChain' = OnChain /\ UNCHANGED <<tableVars, chain>>
        /\ handler' \subseteq handler
    <3>1. todo' = <<>> /\ UNCHANGED <<tableVars, chain>> /\ handler' \subseteq handler
      BY <1>6 DEF PassFails, ScanEnd, Crash, starsVars
    <3> QED
      BY <3>1 DEF OnChain
  <2>2. scanning' \in BOOLEAN
    BY <1>6, Zenon DEF PassFails, ScanEnd, Crash, IInv, TypeOK
  <2>3. /\ dirty' \subseteq Invoices /\ faults' \in 0..MaxFaults
        /\ client' \in Clients /\ disputing' \subseteq Users
    BY <1>6 DEF PassFails, ScanEnd, Crash, IInv, TypeOK, starsVars, Clients
  <2>4. /\ update' \in [Stars -> UpdateStates]
        /\ \A s \in Stars : update'[s] = "unpaid" <=> update[s] = "unpaid"
        /\ \A s \in handler' : update'[s] \in {"fetched", "confirmed"}
    BY <1>6 DEF PassFails, ScanEnd, Crash, IInv, TypeOK, InFlight, UpdateStates, starsVars
  <2> USE <2>1, <2>2, <2>3, <2>4 DEF tableVars
  <2>5. TypeOK'
    BY DEF IInv, TypeOK
  <2>6. LicenceIsPaidFor' /\ InvoiceBuysOneLicence'
    BY DEF IInv, LicenceIsPaidFor, InvoiceBuysOneLicence
  <2>7. InFlight'
    BY DEF IInv, InFlight
  <2> QED
    BY <2>5, <2>6, <2>7 DEF IInv
<1>7. ASSUME NEW s \in Stars, InsertLicence(s) PROVE IInv'
  BY <1>7, InsertPreserves
<1>8. ASSUME NEW s \in Stars,
             PayStars(s) \/ HandlePayment(s) \/ HandlerFails(s) \/ ConfirmUpdates
      PROVE  IInv'
  <2>1. /\ UNCHANGED <<tableVars, chain, passVars>> /\ OnChain' = OnChain
        /\ faults' \in 0..MaxFaults /\ handler' \subseteq Stars
        /\ UNCHANGED disputing
    BY <1>8 DEF PayStars, HandlePayment, HandlerFails, ConfirmUpdates, IInv, TypeOK,
       OnChain, tableVars, passVars
  <2>2. /\ update' \in [Stars -> UpdateStates]
        /\ \A q \in Stars : update'[q] = "unpaid" => update[q] = "unpaid"
    BY <1>8 DEF PayStars, HandlePayment, HandlerFails, ConfirmUpdates, IInv, TypeOK,
       UpdateStates
  <2>3. \A q \in handler' : update'[q] \in {"fetched", "confirmed"}
    BY <1>8 DEF PayStars, HandlePayment, HandlerFails, ConfirmUpdates, IInv, TypeOK,
       InFlight
  <2> USE <2>1, <2>2, <2>3 DEF tableVars, passVars
  <2>4. TypeOK'
    BY DEF IInv, TypeOK
  <2>5. LicenceIsPaidFor' /\ InvoiceBuysOneLicence'
    BY DEF IInv, LicenceIsPaidFor, InvoiceBuysOneLicence
  <2>6. InFlight'
    BY DEF IInv, InFlight
  <2> QED
    BY <2>4, <2>5, <2>6 DEF IInv
<1>9. CASE ConfirmUpdates
  <2>1. PICK s \in Stars : update[s] = "fetched"
    BY <1>9 DEF ConfirmUpdates
  <2> QED
    BY <1>8, <1>9, <2>1
<1>10. ASSUME FetchFails \/ \E s \in Stars : EnterDispute(Payer[s]) \/ LeaveDispute(Payer[s])
       PROVE  IInv'
  <2>1. /\ UNCHANGED <<tableVars, chain, scanning, todo, dirty, update, handler, faults>>
        /\ client' \in Clients /\ disputing' \subseteq Users
    BY <1>10
       DEF FetchFails, EnterDispute, LeaveDispute, IInv, TypeOK, Clients, passVars, starsVars
  <2> USE <2>1 DEF tableVars
  <2>2. OnChain' = OnChain
    BY DEF OnChain
  <2>3. TypeOK'
    BY DEF IInv, TypeOK
  <2>4. LicenceIsPaidFor' /\ InvoiceBuysOneLicence' /\ InFlight'
    BY <2>2 DEF IInv, LicenceIsPaidFor, InvoiceBuysOneLicence, InFlight
  <2> QED
    BY <2>3, <2>4 DEF IInv
<1>11. CASE UNCHANGED vars
  <2> USE <1>11 DEF vars, tableVars, passVars, starsVars
  <2>1. TypeOK' /\ LicenceIsPaidFor' /\ InvoiceBuysOneLicence' /\ InFlight'
    BY DEF IInv, TypeOK, LicenceIsPaidFor, InvoiceBuysOneLicence, InFlight, OnChain
  <2> QED
    BY <2>1 DEF IInv
<1> QED
  BY <1>1, <1>2, <1>3, <1>4, <1>5, <1>6, <1>7, <1>8, <1>9, <1>10, <1>11
     DEF Next, Scan, Handle

\* The inductive invariant holds in every reachable state.
THEOREM Inductive == Spec => []IInv
<1>1. Init => IInv
  BY IInvInit
<1>2. IInv /\ [Next]_vars => IInv'
  BY IInvNext
<1> QED
  BY <1>1, <1>2, PTL DEF Spec

\* Every variable keeps its type.
THEOREM Types == Spec => []TypeOK
<1>1. IInv => TypeOK
  BY DEF IInv
<1> QED
  BY <1>1, Inductive, PTL

\* No licence without the payment that buys it (b2b_service.py).
THEOREM PaidFor == Spec => []LicenceIsPaidFor
<1>1. IInv => LicenceIsPaidFor
  BY DEF IInv
<1> QED
  BY <1>1, Inductive, PTL

\* A paid invoice and its one licence are committed together, whatever a pass
\* leaves uncommitted (process_ton_payment).
THEOREM OneLicence == Spec => []InvoiceBuysOneLicence
<1>1. IInv => InvoiceBuysOneLicence
  BY DEF IInv
<1> QED
  BY <1>1, Inductive, PTL

-----------------------------------------------------------------------------
(* The program as shipped, where session.begin() inside an open transaction *)
(* is refused.                                                             *)

\* No transfer has bought a licence and no invoice is paid.
TonSellsNothing ==
  /\ \A t \in Txs : licence[t] = NoUser
  /\ \A i \in Invoices : status[i] # "paid"

\* Where create_b2b_license may not open its transaction, no TON payment is
\* ever committed, however many passes meet the transfer: the invoices stay
\* pending and only Stars buy licences (process_ton_payment).
THEOREM ShippedTonSellsNothing ==
  "nested_begin" \notin Accepts /\ Spec => []TonSellsNothing
<1> SUFFICES ASSUME "nested_begin" \notin Accepts PROVE Spec => []TonSellsNothing
  OBVIOUS
<1>1. Init => TonSellsNothing
  BY DEF Init, TonSellsNothing, Charges
<1>2. TypeOK /\ TonSellsNothing /\ [Next]_vars => TonSellsNothing'
  <2> SUFFICES ASSUME TypeOK, TonSellsNothing, [Next]_vars PROVE TonSellsNothing'
    OBVIOUS
  <2> USE LicenseAssumption DEF TypeOK, TonSellsNothing, tableVars
  <2>1. ASSUME NEW i \in Invoices, CreateInvoice(i) PROVE TonSellsNothing'
    BY <2>1 DEF CreateInvoice
  <2>2. ASSUME NEW s \in Stars, InsertLicence(s) PROVE TonSellsNothing'
    BY <2>2 DEF InsertLicence, Charges
  <2>3. CASE Activate
    BY <2>3 DEF Activate
  <2>4. ASSUME \/ \E t \in Txs : SendTon(t)
               \/ ScanBegin \/ Ignore \/ ScanEnd \/ FetchFails \/ PassFails
               \/ ConfirmUpdates \/ Crash
               \/ \E s \in Stars : \/ PayStars(s) \/ HandlePayment(s) \/ HandlerFails(s)
                                  \/ EnterDispute(Payer[s]) \/ LeaveDispute(Payer[s])
        PROVE  TonSellsNothing'
    BY <2>4 DEF SendTon, ScanBegin, Ignore, ScanEnd, FetchFails, PassFails,
       ConfirmUpdates, Crash, EnterDispute, LeaveDispute, PayStars, HandlePayment, HandlerFails
  <2>5. CASE UNCHANGED vars
    BY <2>5 DEF vars
  <2> QED
    BY <2>1, <2>2, <2>3, <2>4, <2>5 DEF Next, Scan, Handle
<1> QED
  BY <1>1, <1>2, Types, PTL DEF Spec

=============================================================================
