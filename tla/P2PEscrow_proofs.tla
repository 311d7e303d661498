-------------------------- MODULE P2PEscrow_proofs --------------------------
(***************************************************************************)
(* Theorems about P2PEscrow, for any orders, users and bounds: its types,  *)
(* its inductive invariant IInv and the safety invariants it contains, the *)
(* exclusion the row locks give, and that it implements OrderBook.         *)
(***************************************************************************)
EXTENDS P2PEscrow, TLAPS

\* What resolve_dispute accepts.
Decisions == {"taker_wins", "maker_wins", "cancel"}

-----------------------------------------------------------------------------
(* Types.                                                                  *)

\* A row nobody has locked is a job too.
LEMMA NoJobType == NoJob \in Jobs
  BY DEF NoJob, Jobs, Kinds

\* An empty table, an empty scanner and an empty sweep are well typed.
LEMMA TypeInit == Init => TypeOK
<1> SUFFICES ASSUME Init PROVE TypeOK
  OBVIOUS
<1> USE P2PAssumption DEF Init
<1>1. /\ paid \in [Orders -> [Kinds -> Nat]]
      /\ payee \in [Orders -> [Kinds -> Users \cup {NoUser}]]
  OBVIOUS
<1>2. job \in [Orders -> Jobs]
  BY NoJobType
<1>3. deposited \in [Orders -> 0..MaxDeposits] /\ crashes \in 0..MaxCrashes
  OBVIOUS
<1>4. /\ status \in [Orders -> Statuses]
      /\ taker \in [Orders -> Users \cup {NoUser}]
      /\ onChainStatus \in [Orders -> OnChainStatuses]
      /\ overdue \in [Orders -> BOOLEAN]
      /\ invoice \in [Orders -> InvoiceStates]
      /\ notice \in [Orders -> Notices]
      /\ client \in Clients
  BY DEF Statuses, OnChainStatuses, InvoiceStates, Notices, Clients
<1> QED
  BY <1>1, <1>2, <1>3, <1>4 DEF TypeOK

\* The end of a transfer, sent or not, keeps the types (TransferSent,
\* TransferLost, TransferFails).
LEMMA TransferTypes ==
  ASSUME TypeOK, NEW o \in Orders, NEW out \in {"sent", "failed"},
         TransferEnds(o, out), Pay(o, job[o].kind) \/ UNCHANGED moneyVars
  PROVE  TypeOK'
<1> USE DEF TypeOK
<1>1. job' \in [Orders -> Jobs]
  <2>1. [job[o] EXCEPT !.out = out] \in Jobs
    BY DEF Jobs
  <2> QED
    BY <2>1 DEF TransferEnds
<1>2. /\ paid' \in [Orders -> [Kinds -> Nat]]
      /\ payee' \in [Orders -> [Kinds -> Users \cup {NoUser}]]
      /\ UNCHANGED <<invoice, deposited>>
  <2>1. CASE Pay(o, job[o].kind)
    <3>1. job[o].kind \in Kinds
      BY DEF Jobs
    <3>2. PayTo(o, job[o].kind) \in Users \cup {NoUser}
      BY P2PAssumption DEF PayTo
    <3> QED
      BY <2>1, <3>1, <3>2 DEF Pay
  <2>2. CASE UNCHANGED moneyVars
    BY <2>2 DEF moneyVars
  <2> QED
    BY <2>1, <2>2
<1> QED
  BY <1>1, <1>2 DEF TransferEnds, rowVars, scanVars, passVars, sweepVars

\* Every step keeps the types.
LEMMA TypeStep == TypeOK /\ [Next]_vars => TypeOK'
  <1> SUFFICES ASSUME TypeOK, [Next]_vars
               PROVE  TypeOK'
    OBVIOUS
  <1> USE P2PAssumption DEF TypeOK, Statuses, OnChainStatuses, InvoiceStates, Kinds, Notices
  <1> USE DEF rowVars, moneyVars, scanVars, passVars, sweepVars
  <1>1. ASSUME NEW o \in Orders, CreateOrder(o)
        PROVE  TypeOK'
    BY <1>1 DEF CreateOrder
  <1>2. ASSUME NEW o \in Orders, SettleInvoice(o)
        PROVE  TypeOK'
    BY <1>2 DEF SettleInvoice
  <1>3. ASSUME NEW o \in Orders, Deposit(o)
        PROVE  TypeOK'
    BY <1>3 DEF Deposit
  <1>4. ASSUME NEW o \in Orders, ActivateOrder(o)
        PROVE  TypeOK'
    BY <1>4 DEF ActivateOrder, SaveStatus
  <1>5. ASSUME NEW o \in Orders, CancelOrderByPayload(o)
        PROVE  TypeOK'
    BY <1>5 DEF CancelOrderByPayload, SaveStatus
  <1>6. ASSUME NEW o \in Orders, TimeOut(o)
        PROVE  TypeOK'
    BY <1>6 DEF TimeOut
  <1>7. CASE ExpirePendingOrders
    BY <1>7 DEF ExpirePendingOrders, SaveStatus
  <1>8. CASE ScanBegin
    BY <1>8 DEF ScanBegin, ScanEligible
  <1>9. ASSUME NEW o \in Orders, ScanHit(o)
        PROVE  TypeOK'
    BY <1>9 DEF ScanHit
  <1>10. ASSUME NEW o \in Orders, ScanMiss(o)
         PROVE  TypeOK'
    BY <1>10 DEF ScanMiss
  <1>11. CASE ScanCommit
    BY <1>11 DEF ScanCommit, SaveStatus
  <1>12. ASSUME NEW o \in Orders, NEW u \in Users, TakeOrder(o, u)
         PROVE  TypeOK'
    BY <1>12 DEF TakeOrder, SaveStatus
  <1>13. ASSUME NEW o \in Orders, CancelOrder(o)
         PROVE  TypeOK'
    BY <1>13 DEF CancelOrder, SaveStatus
  <1>14. ASSUME NEW o \in Orders, RaiseDispute(o)
         PROVE  TypeOK'
    BY <1>14 DEF RaiseDispute, SaveStatus
  <1>15. ASSUME NEW o \in Orders, EscrowConfirm(o)
         PROVE  TypeOK'
    BY <1>15 DEF EscrowConfirm, FiatConfirmed, StartJob
  <1>16. ASSUME NEW o \in Orders, ConfirmFiatPayment(o)
         PROVE  TypeOK'
    BY <1>16 DEF ConfirmFiatPayment, StartJob, Jobs
  <1>17. ASSUME NEW o \in Orders, NEW d \in Decisions, ResolveDispute(o, d)
         PROVE  TypeOK'
    BY <1>17 DEF ResolveDispute, StartJob, Jobs
  <1>18. CASE SweepBegin
    BY <1>18 DEF SweepBegin, SweepEligible
  <1>19. ASSUME NEW o \in Orders, SweepRefund(o)
         PROVE  TypeOK'
    BY <1>19 DEF SweepRefund, StartJob, Jobs
  <1>20. CASE SweepClose
    BY <1>20, NoJobType DEF SweepClose
  <1>21. CASE SweepBreaks
    BY <1>21, NoJobType DEF SweepBreaks
  <1>22. ASSUME NEW o \in Orders, TransferSent(o)
         PROVE  TypeOK'
    BY <1>22, TransferTypes DEF TransferSent
  <1>23. ASSUME NEW o \in Orders, TransferLost(o)
         PROVE  TypeOK'
    BY <1>23, TransferTypes DEF TransferLost
  <1>24. ASSUME NEW o \in Orders, TransferFails(o)
         PROVE  TypeOK'
    BY <1>24, TransferTypes DEF TransferFails
  <1>25. ASSUME NEW o \in Orders, ReleaseCommits(o)
         PROVE  TypeOK'
    BY <1>25, NoJobType DEF ReleaseCommits, SaveStatus, EndJob
  <1>26. ASSUME NEW o \in Orders, ConfirmFallsToDispute(o)
         PROVE  TypeOK'
    BY <1>26, NoJobType DEF ConfirmFallsToDispute, SaveStatus, EndJob
  <1>27. ASSUME NEW o \in Orders, ResolveEnds(o)
         PROVE  TypeOK'
    BY <1>27, NoJobType DEF ResolveEnds, EndJob
  <1>28. ASSUME NEW o \in Orders, JobRollsBack(o)
         PROVE  TypeOK'
    BY <1>28, NoJobType DEF JobRollsBack, EndJob
  <1>29. CASE Crash
    <2>1. crashes' \in 0..MaxCrashes
      BY <1>29 DEF Crash
    <2> QED
      BY <1>29, <2>1, NoJobType DEF Crash, Clients
  <1>30. CASE ClientStep
    BY <1>30 DEF ClientStep, GetClient, LoseClient, Clients
  <1>31. CASE UNCHANGED vars
    BY <1>31 DEF vars
  <1> QED
    BY <1>1, <1>2, <1>3, <1>4, <1>5, <1>6, <1>7, <1>8, <1>9, <1>10, <1>11,
       <1>12, <1>13, <1>14, <1>15, <1>16, <1>17, <1>18, <1>19, <1>20, <1>21,
       <1>22, <1>23, <1>24, <1>25, <1>26, <1>27, <1>28, <1>29, <1>30, <1>31
       DEF Next, Outside, JobStep, TransferStep, ScanStep, SweepStep,
           Decisions

\* The rows of table orders, the money outside and the open work keep their
\* types.
THEOREM TypeCorrect == Spec => []TypeOK
  BY TypeInit, TypeStep, PTL DEF Spec

-----------------------------------------------------------------------------
(* The inductive invariant.                                                *)

\* It holds of an empty table.
LEMMA InvariantInit == Init => IInv
<1> SUFFICES ASSUME Init PROVE IInv
  OBVIOUS
<1> USE DEF Init
<1>1. TypeOK
  BY TypeInit
<1>2. FundedBeforeListed /\ NoPayoutOutsideTrade /\ CompletedMeansReleased
  BY DEF FundedBeforeListed, NoPayoutOutsideTrade, CompletedMeansReleased, Engaged, PaidOut
<1>3. PayeeOnRecord /\ Bookkeeping
  BY DEF PayeeOnRecord, Bookkeeping, Kinds
<1>4. InFlight
  BY DEF InFlight, TransactionsInFlight, ScanInFlight, SweepInFlight, NoJob
<1> QED
  BY <1>1, <1>2, <1>3, <1>4 DEF IInv

\* Every step keeps it.  The actions that commit a status are split by
\* conjunct; a transfer rests on the row lock (TransactionsInFlight), a scan
\* commit on what the scan found (ScanInFlight).
LEMMA InvariantStep == IInv /\ [Next]_vars => IInv'
  <1> SUFFICES ASSUME IInv, [Next]_vars
               PROVE  IInv'
    OBVIOUS
  <1>0. TypeOK /\ TypeOK'
    BY TypeStep DEF IInv
  <1> USE DEF IInv, InFlight, TypeOK, Engaged, Funded, PaidOut, PayTo, rowVars,
          moneyVars, scanVars, passVars, sweepVars
  <1>1. ASSUME NEW o \in Orders, CreateOrder(o)
        PROVE  IInv'
    <2>1. FundedBeforeListed'
      BY <1>0, <1>1 DEF CreateOrder, FundedBeforeListed
    <2>2. NoPayoutOutsideTrade'
      BY <1>0, <1>1 DEF CreateOrder, NoPayoutOutsideTrade
    <2>3. CompletedMeansReleased'
      BY <1>0, <1>1 DEF CreateOrder, CompletedMeansReleased
    <2>4. TransactionsInFlight'
      BY <1>0, <1>1 DEF CreateOrder, TransactionsInFlight
    <2>5. ScanInFlight'
      BY <1>0, <1>1, P2PAssumption DEF CreateOrder, ScanInFlight
    <2>6. SweepInFlight'
      BY <1>0, <1>1 DEF CreateOrder, SweepInFlight
    <2>7. Bookkeeping'
      BY <1>0, <1>1 DEF CreateOrder, Bookkeeping
    <2>8. PayeeOnRecord'
      BY <1>1 DEF CreateOrder, PayeeOnRecord, Kinds
    <2> QED
      BY <1>0, <2>1, <2>2, <2>3, <2>4, <2>5, <2>6, <2>7, <2>8
  <1>2. ASSUME NEW o \in Orders, SettleInvoice(o)
        PROVE  IInv'
    BY <1>0, <1>2
       DEF SettleInvoice, FundedBeforeListed, Bookkeeping,
           NoPayoutOutsideTrade, PayeeOnRecord,
           CompletedMeansReleased, TransactionsInFlight, ScanInFlight,
           SweepInFlight, Kinds
  <1>3. ASSUME NEW o \in Orders, Deposit(o)
        PROVE  IInv'
    BY <1>0, <1>3
       DEF Deposit, FundedBeforeListed, ScanInFlight,
           NoPayoutOutsideTrade, PayeeOnRecord, CompletedMeansReleased,
           TransactionsInFlight, SweepInFlight, Bookkeeping, Kinds
  <1>4. ASSUME NEW o \in Orders, ActivateOrder(o)
        PROVE  IInv'
    <2>1. FundedBeforeListed'
      BY <1>0, <1>4
         DEF ActivateOrder, Unlocked, SaveStatus, FundedBeforeListed,
             Bookkeeping
    <2>2. NoPayoutOutsideTrade'
      BY <1>0, <1>4
         DEF ActivateOrder, Unlocked, SaveStatus, NoPayoutOutsideTrade
    <2>3. CompletedMeansReleased'
      BY <1>0, <1>4
         DEF ActivateOrder, Unlocked, SaveStatus, CompletedMeansReleased
    <2>4. TransactionsInFlight'
      BY <1>0, <1>4
         DEF ActivateOrder, Unlocked, SaveStatus, TransactionsInFlight
    <2>5. ScanInFlight'
      BY <1>0, <1>4, P2PAssumption
         DEF ActivateOrder, Unlocked, SaveStatus, ScanInFlight, Bookkeeping
    <2>6. SweepInFlight'
      BY <1>0, <1>4 DEF ActivateOrder, Unlocked, SaveStatus, SweepInFlight
    <2>7. PayeeOnRecord' /\ Bookkeeping'
      BY <1>4
         DEF ActivateOrder, PayeeOnRecord, Bookkeeping, Kinds
    <2> QED
      BY <1>0, <2>1, <2>2, <2>3, <2>4, <2>5, <2>6, <2>7
  <1>5. ASSUME NEW o \in Orders, CancelOrderByPayload(o)
        PROVE  IInv'
    <2>1. FundedBeforeListed'
      BY <1>0, <1>5
         DEF CancelOrderByPayload, Unlocked, SaveStatus, FundedBeforeListed
    <2>2. NoPayoutOutsideTrade'
      BY <1>0, <1>5
         DEF CancelOrderByPayload, Unlocked, SaveStatus, NoPayoutOutsideTrade
    <2>3. CompletedMeansReleased'
      BY <1>0, <1>5
         DEF CancelOrderByPayload, Unlocked, SaveStatus,
             CompletedMeansReleased
    <2>4. TransactionsInFlight'
      BY <1>0, <1>5
         DEF CancelOrderByPayload, Unlocked, SaveStatus, TransactionsInFlight
    <2>5. ScanInFlight'
      BY <1>0, <1>5, P2PAssumption
         DEF CancelOrderByPayload, Unlocked, SaveStatus, ScanInFlight
    <2>6. SweepInFlight'
      BY <1>0, <1>5
         DEF CancelOrderByPayload, Unlocked, SaveStatus, SweepInFlight
    <2>7. PayeeOnRecord' /\ Bookkeeping'
      BY <1>5
         DEF CancelOrderByPayload, PayeeOnRecord, Bookkeeping,
             Kinds
    <2> QED
      BY <1>0, <2>1, <2>2, <2>3, <2>4, <2>5, <2>6, <2>7
  <1>6. ASSUME NEW o \in Orders, TimeOut(o)
        PROVE  IInv'
    BY <1>0, <1>6
       DEF TimeOut, FundedBeforeListed, NoPayoutOutsideTrade,
           PayeeOnRecord, CompletedMeansReleased, TransactionsInFlight,
           ScanInFlight, SweepInFlight, Bookkeeping, Kinds
  <1>7. CASE ExpirePendingOrders
    <2>1. FundedBeforeListed'
      BY <1>0, <1>7
         DEF ExpirePendingOrders, Expirable, Unlocked, SaveStatus,
             FundedBeforeListed
    <2>2. NoPayoutOutsideTrade'
      BY <1>0, <1>7 DEF ExpirePendingOrders, Expirable, Unlocked, SaveStatus,
             NoPayoutOutsideTrade
    <2>3. CompletedMeansReleased'
      BY <1>0, <1>7 DEF ExpirePendingOrders, Expirable, Unlocked, SaveStatus,
             CompletedMeansReleased
    <2>4. TransactionsInFlight'
      BY <1>0, <1>7 DEF ExpirePendingOrders, Expirable, Unlocked, SaveStatus,
             TransactionsInFlight
    <2>5. ScanInFlight'
      BY <1>0, <1>7, P2PAssumption
         DEF ExpirePendingOrders, Expirable, Unlocked, SaveStatus,
             ScanInFlight
    <2>6. SweepInFlight'
      BY <1>0, <1>7
         DEF ExpirePendingOrders, Expirable, Unlocked, SaveStatus,
             SweepInFlight
    <2>7. PayeeOnRecord' /\ Bookkeeping'
      BY <1>7
         DEF ExpirePendingOrders, Expirable, PayeeOnRecord,
             Bookkeeping, Kinds
    <2> QED
      BY <1>0, <2>1, <2>2, <2>3, <2>4, <2>5, <2>6, <2>7
  <1>8. CASE ScanBegin
    BY <1>0, <1>8, P2PAssumption
       DEF ScanBegin, ScanEligible, ScanInFlight, FundedBeforeListed,
           NoPayoutOutsideTrade, PayeeOnRecord,
           CompletedMeansReleased, TransactionsInFlight, SweepInFlight,
           Bookkeeping, Kinds
  <1>9. ASSUME NEW o \in Orders, ScanHit(o)
        PROVE  IInv'
    <2>1. ScanInFlight'
      BY <1>0, <1>9, P2PAssumption
         DEF ScanHit, FundedOnChain, Wallet, ScanInFlight, Kinds
    <2>2. /\ FundedBeforeListed'
          /\ NoPayoutOutsideTrade'
          /\ PayeeOnRecord'
          /\ CompletedMeansReleased'
          /\ TransactionsInFlight'
          /\ SweepInFlight'
          /\ Bookkeeping'
      BY <1>9
         DEF ScanHit, FundedBeforeListed, NoPayoutOutsideTrade, PayeeOnRecord,
             CompletedMeansReleased, TransactionsInFlight, SweepInFlight,
             Bookkeeping, Kinds
    <2> QED
      BY <1>0, <2>1, <2>2
  <1>10. ASSUME NEW o \in Orders, ScanMiss(o)
         PROVE  IInv'
    BY <1>0, <1>10, P2PAssumption
       DEF ScanMiss, ScanInFlight, FundedBeforeListed, NoPayoutOutsideTrade,
           PayeeOnRecord, CompletedMeansReleased, TransactionsInFlight,
           SweepInFlight, Bookkeeping, Kinds
  <1>11. CASE ScanCommit
    <2>1. FundedBeforeListed'
      BY <1>0, <1>11
         DEF ScanCommit, Unlocked, SaveStatus, FundedBeforeListed,
             ScanInFlight
    <2>2. NoPayoutOutsideTrade'
      BY <1>0, <1>11
         DEF ScanCommit, Unlocked, SaveStatus, NoPayoutOutsideTrade,
             ScanInFlight
    <2>3. CompletedMeansReleased'
      BY <1>0, <1>11
         DEF ScanCommit, Unlocked, SaveStatus, CompletedMeansReleased
    <2>4. TransactionsInFlight'
      BY <1>0, <1>11
         DEF ScanCommit, Unlocked, SaveStatus, TransactionsInFlight,
             ScanInFlight
    <2>5. ScanInFlight'
      BY <1>0, <1>11, P2PAssumption
         DEF ScanCommit, Unlocked, SaveStatus, ScanInFlight
    <2>6. SweepInFlight'
      BY <1>0, <1>11
         DEF ScanCommit, Unlocked, SaveStatus, SweepInFlight, ScanInFlight
    <2>7. PayeeOnRecord' /\ Bookkeeping'
      BY <1>11
         DEF ScanCommit, PayeeOnRecord, Bookkeeping, Kinds
    <2> QED
      BY <1>0, <2>1, <2>2, <2>3, <2>4, <2>5, <2>6, <2>7
  <1>12. ASSUME NEW o \in Orders, NEW u \in Users, TakeOrder(o, u)
         PROVE  IInv'
    <2>1. FundedBeforeListed'
      BY <1>0, <1>12 DEF TakeOrder, Unlocked, SaveStatus, FundedBeforeListed
    <2>2. NoPayoutOutsideTrade'
      BY <1>0, <1>12 DEF TakeOrder, Unlocked, SaveStatus, NoPayoutOutsideTrade
    <2>3. PayeeOnRecord'
      BY <1>0, <1>12
         DEF TakeOrder, Unlocked, SaveStatus, PayeeOnRecord, Bookkeeping,
             NoPayoutOutsideTrade
    <2>4. CompletedMeansReleased'
      BY <1>0, <1>12
         DEF TakeOrder, Unlocked, SaveStatus, CompletedMeansReleased
    <2>5. TransactionsInFlight'
      BY <1>0, <1>12 DEF TakeOrder, Unlocked, SaveStatus, TransactionsInFlight
    <2>6. ScanInFlight'
      BY <1>0, <1>12, P2PAssumption
         DEF TakeOrder, Unlocked, SaveStatus, ScanInFlight
    <2>7. SweepInFlight'
      BY <1>0, <1>12 DEF TakeOrder, Unlocked, SaveStatus, SweepInFlight
    <2>8. Bookkeeping'
      BY <1>12 DEF TakeOrder, Bookkeeping, Kinds
    <2> QED
      BY <1>0, <2>1, <2>2, <2>3, <2>4, <2>5, <2>6, <2>7, <2>8
  <1>13. ASSUME NEW o \in Orders, CancelOrder(o)
         PROVE  IInv'
    <2>1. FundedBeforeListed'
      BY <1>0, <1>13
         DEF CancelOrder, Cancellable, Unlocked, SaveStatus,
             FundedBeforeListed
    <2>2. NoPayoutOutsideTrade'
      BY <1>0, <1>13
         DEF CancelOrder, Cancellable, Unlocked, SaveStatus,
             NoPayoutOutsideTrade
    <2>3. CompletedMeansReleased'
      BY <1>0, <1>13
         DEF CancelOrder, Cancellable, Unlocked, SaveStatus,
             CompletedMeansReleased
    <2>4. TransactionsInFlight'
      BY <1>0, <1>13
         DEF CancelOrder, Cancellable, Unlocked, SaveStatus,
             TransactionsInFlight
    <2>5. ScanInFlight'
      BY <1>0, <1>13, P2PAssumption
         DEF CancelOrder, Cancellable, Unlocked, SaveStatus, ScanInFlight
    <2>6. SweepInFlight'
      BY <1>0, <1>13
         DEF CancelOrder, Cancellable, Unlocked, SaveStatus, SweepInFlight
    <2>7. PayeeOnRecord' /\ Bookkeeping'
      BY <1>13
         DEF CancelOrder, PayeeOnRecord, Bookkeeping, Kinds
    <2> QED
      BY <1>0, <2>1, <2>2, <2>3, <2>4, <2>5, <2>6, <2>7
  <1>14. ASSUME NEW o \in Orders, RaiseDispute(o)
         PROVE  IInv'
    <2>1. FundedBeforeListed'
      BY <1>0, <1>14
         DEF RaiseDispute, Unlocked, SaveStatus, FundedBeforeListed
    <2>2. NoPayoutOutsideTrade'
      BY <1>0, <1>14
         DEF RaiseDispute, Unlocked, SaveStatus, NoPayoutOutsideTrade
    <2>3. CompletedMeansReleased'
      BY <1>0, <1>14
         DEF RaiseDispute, Unlocked, SaveStatus, CompletedMeansReleased
    <2>4. TransactionsInFlight'
      BY <1>0, <1>14
         DEF RaiseDispute, Unlocked, SaveStatus, TransactionsInFlight
    <2>5. ScanInFlight'
      BY <1>0, <1>14, P2PAssumption
         DEF RaiseDispute, Unlocked, SaveStatus, ScanInFlight
    <2>6. SweepInFlight'
      BY <1>0, <1>14 DEF RaiseDispute, Unlocked, SaveStatus, SweepInFlight
    <2>7. PayeeOnRecord' /\ Bookkeeping'
      BY <1>14
         DEF RaiseDispute, PayeeOnRecord, Bookkeeping, Kinds
    <2> QED
      BY <1>0, <2>1, <2>2, <2>3, <2>4, <2>5, <2>6, <2>7
  <1>15. ASSUME NEW o \in Orders, EscrowConfirm(o)
         PROVE  IInv'
    BY <1>0, <1>15
       DEF EscrowConfirm, Unlocked, FiatConfirmed, StartJob,
           FundedBeforeListed, NoPayoutOutsideTrade,
           PayeeOnRecord, CompletedMeansReleased, TransactionsInFlight,
           ScanInFlight, SweepInFlight, Bookkeeping, Kinds
  <1>16. ASSUME NEW o \in Orders, ConfirmFiatPayment(o)
         PROVE  IInv'
    BY <1>0, <1>16
       DEF ConfirmFiatPayment, Unlocked, StartJob, TransactionsInFlight,
           FundedBeforeListed, NoPayoutOutsideTrade,
           PayeeOnRecord, CompletedMeansReleased, ScanInFlight, SweepInFlight,
           Bookkeeping, Kinds, NoJob
  <1>17. ASSUME NEW o \in Orders, NEW d \in Decisions, ResolveDispute(o, d)
         PROVE  IInv'
    BY <1>0, <1>17
       DEF ResolveDispute, Unlocked, StartJob, TransactionsInFlight,
           FundedBeforeListed, NoPayoutOutsideTrade,
           PayeeOnRecord, CompletedMeansReleased, ScanInFlight, SweepInFlight,
           Bookkeeping, Kinds, NoJob
  <1>18. CASE SweepBegin
    BY <1>0, <1>18
       DEF SweepBegin, SweepEligible, SweepInFlight, FundedBeforeListed,
           NoPayoutOutsideTrade, PayeeOnRecord,
           CompletedMeansReleased, TransactionsInFlight, ScanInFlight,
           Bookkeeping, Kinds
  <1>19. ASSUME NEW o \in Orders, SweepRefund(o)
         PROVE  IInv'
    <2>1. TransactionsInFlight'
      BY <1>0, <1>19
         DEF SweepRefund, Unlocked, StartJob, TransactionsInFlight,
             SweepInFlight, NoJob
    <2>2. SweepInFlight'
      BY <1>0, <1>19 DEF SweepRefund, Unlocked, StartJob, SweepInFlight
    <2>3. /\ FundedBeforeListed'
          /\ NoPayoutOutsideTrade'
          /\ PayeeOnRecord'
          /\ CompletedMeansReleased'
          /\ ScanInFlight'
          /\ Bookkeeping'
      BY <1>19
         DEF SweepRefund, StartJob, FundedBeforeListed, NoPayoutOutsideTrade, PayeeOnRecord,
             CompletedMeansReleased, ScanInFlight, Bookkeeping, Kinds
    <2> QED
      BY <1>0, <2>1, <2>2, <2>3
  <1>20. CASE SweepClose
    BY <1>0, <1>20 DEF SweepClose, TransactionsInFlight, FundedBeforeListed,
           NoPayoutOutsideTrade, PayeeOnRecord,
           CompletedMeansReleased, ScanInFlight, SweepInFlight, Bookkeeping,
           Kinds, NoJob
  <1>21. CASE SweepBreaks
    BY <1>0, <1>21
       DEF SweepBreaks, TransactionsInFlight, SweepInFlight,
           FundedBeforeListed, NoPayoutOutsideTrade,
           PayeeOnRecord, CompletedMeansReleased, ScanInFlight, Bookkeeping,
           Kinds, NoJob
  <1>22. ASSUME NEW o \in Orders, TransferSent(o)
         PROVE  IInv'
    <2>1. NoPayoutOutsideTrade'
      BY <1>0, <1>22, P2PAssumption
         DEF TransferSent, TransferEnds, Pay, CanTransfer, Answers, Wallet,
             NoPayoutOutsideTrade, TransactionsInFlight, Jobs, Kinds, Statuses
    <2>2. PayeeOnRecord'
      BY <1>0, <1>22, P2PAssumption
         DEF TransferSent, TransferEnds, Pay, CanTransfer, Answers, Wallet,
             PayeeOnRecord, Kinds, Statuses
    <2>3. CompletedMeansReleased'
      BY <1>0, <1>22, P2PAssumption
         DEF TransferSent, TransferEnds, Pay, CanTransfer, Answers, Wallet,
             CompletedMeansReleased, Kinds, Statuses
    <2>4. TransactionsInFlight'
      BY <1>0, <1>22, P2PAssumption
         DEF TransferSent, TransferEnds, Pay, CanTransfer, Answers, Wallet,
             TransactionsInFlight, Kinds, Statuses, Jobs
    <2>5. Bookkeeping'
      BY <1>0, <1>22, P2PAssumption
         DEF TransferSent, TransferEnds, Pay, CanTransfer, Answers, Wallet,
             Bookkeeping, Kinds, Statuses
    <2>6. FundedBeforeListed' /\ ScanInFlight' /\ SweepInFlight'
      BY <1>22
         DEF TransferSent, TransferEnds, Pay, FundedBeforeListed,
             ScanInFlight, SweepInFlight
    <2> QED
      BY <1>0, <2>1, <2>2, <2>3, <2>4, <2>5, <2>6
  <1>23. ASSUME NEW o \in Orders, TransferLost(o)
         PROVE  IInv'
    <2>1. NoPayoutOutsideTrade'
      BY <1>0, <1>23, P2PAssumption
         DEF TransferLost, TransferEnds, Pay, CanTransfer, Answers, Wallet,
             NoPayoutOutsideTrade, TransactionsInFlight, Jobs, Kinds, Statuses
    <2>2. PayeeOnRecord'
      BY <1>0, <1>23, P2PAssumption
         DEF TransferLost, TransferEnds, Pay, CanTransfer, Answers, Wallet,
             PayeeOnRecord, Kinds, Statuses
    <2>3. CompletedMeansReleased'
      BY <1>0, <1>23, P2PAssumption
         DEF TransferLost, TransferEnds, Pay, CanTransfer, Answers, Wallet,
             CompletedMeansReleased, Kinds, Statuses
    <2>4. TransactionsInFlight'
      BY <1>0, <1>23, P2PAssumption
         DEF TransferLost, TransferEnds, Pay, CanTransfer, Answers, Wallet,
             TransactionsInFlight, Kinds, Statuses, Jobs
    <2>5. Bookkeeping'
      BY <1>0, <1>23, P2PAssumption
         DEF TransferLost, TransferEnds, Pay, CanTransfer, Answers, Wallet,
             Bookkeeping, Kinds, Statuses
    <2>6. FundedBeforeListed' /\ ScanInFlight' /\ SweepInFlight'
      BY <1>23
         DEF TransferLost, TransferEnds, Pay, FundedBeforeListed,
             ScanInFlight, SweepInFlight
    <2> QED
      BY <1>0, <2>1, <2>2, <2>3, <2>4, <2>5, <2>6
  <1>24. ASSUME NEW o \in Orders, TransferFails(o)
         PROVE  IInv'
    BY <1>0, <1>24
       DEF TransferFails, TransferEnds, TransactionsInFlight,
           FundedBeforeListed, NoPayoutOutsideTrade,
           PayeeOnRecord, CompletedMeansReleased, ScanInFlight, SweepInFlight,
           Bookkeeping, Kinds, Jobs
  <1>25. ASSUME NEW o \in Orders, ReleaseCommits(o)
         PROVE  IInv'
    <2>1. FundedBeforeListed'
      BY <1>0, <1>25
         DEF ReleaseCommits, Completes, SaveStatus, EndJob,
             FundedBeforeListed, TransactionsInFlight
    <2>2. NoPayoutOutsideTrade'
      BY <1>0, <1>25
         DEF ReleaseCommits, Completes, SaveStatus, EndJob,
             NoPayoutOutsideTrade
    <2>3. CompletedMeansReleased'
      BY <1>0, <1>25
         DEF ReleaseCommits, Completes, SaveStatus, EndJob,
             CompletedMeansReleased, TransactionsInFlight
    <2>4. TransactionsInFlight'
      BY <1>0, <1>25
         DEF ReleaseCommits, Completes, SaveStatus, EndJob,
             TransactionsInFlight, NoJob
    <2>5. ScanInFlight'
      BY <1>0, <1>25, P2PAssumption
         DEF ReleaseCommits, Completes, SaveStatus, EndJob, ScanInFlight,
             TransactionsInFlight
    <2>6. SweepInFlight'
      BY <1>0, <1>25
         DEF ReleaseCommits, Completes, SaveStatus, EndJob, SweepInFlight
    <2>7. PayeeOnRecord' /\ Bookkeeping'
      BY <1>25
         DEF ReleaseCommits, EndJob, PayeeOnRecord,
             Bookkeeping, Kinds
    <2> QED
      BY <1>0, <2>1, <2>2, <2>3, <2>4, <2>5, <2>6, <2>7
  <1>26. ASSUME NEW o \in Orders, ConfirmFallsToDispute(o)
         PROVE  IInv'
    <2>1. FundedBeforeListed'
      BY <1>0, <1>26
         DEF ConfirmFallsToDispute, SaveStatus, EndJob, FundedBeforeListed,
             TransactionsInFlight
    <2>2. NoPayoutOutsideTrade'
      BY <1>0, <1>26
         DEF ConfirmFallsToDispute, SaveStatus, EndJob, NoPayoutOutsideTrade
    <2>3. CompletedMeansReleased'
      BY <1>0, <1>26
         DEF ConfirmFallsToDispute, SaveStatus, EndJob, CompletedMeansReleased
    <2>4. TransactionsInFlight'
      BY <1>0, <1>26
         DEF ConfirmFallsToDispute, SaveStatus, EndJob, TransactionsInFlight,
             NoJob
    <2>5. ScanInFlight'
      BY <1>0, <1>26, P2PAssumption
         DEF ConfirmFallsToDispute, SaveStatus, EndJob, ScanInFlight,
             TransactionsInFlight
    <2>6. SweepInFlight'
      BY <1>0, <1>26
         DEF ConfirmFallsToDispute, SaveStatus, EndJob, SweepInFlight
    <2>7. PayeeOnRecord' /\ Bookkeeping'
      BY <1>26
         DEF ConfirmFallsToDispute, EndJob, PayeeOnRecord,
             Bookkeeping, Kinds
    <2> QED
      BY <1>0, <2>1, <2>2, <2>3, <2>4, <2>5, <2>6, <2>7
  <1>27. ASSUME NEW o \in Orders, ResolveEnds(o)
         PROVE  IInv'
    BY <1>0, <1>27
       DEF ResolveEnds, EndJob, TransactionsInFlight, FundedBeforeListed,
           NoPayoutOutsideTrade, PayeeOnRecord,
           CompletedMeansReleased, ScanInFlight, SweepInFlight, Bookkeeping,
           Kinds, NoJob
  <1>28. ASSUME NEW o \in Orders, JobRollsBack(o)
         PROVE  IInv'
    BY <1>0, <1>28
       DEF JobRollsBack, EndJob, TransactionsInFlight, FundedBeforeListed,
           NoPayoutOutsideTrade, PayeeOnRecord,
           CompletedMeansReleased, ScanInFlight, SweepInFlight, Bookkeeping,
           Kinds, NoJob
  <1>29. CASE Crash
    BY <1>0, <1>29
       DEF Crash, TransactionsInFlight, ScanInFlight, SweepInFlight,
           FundedBeforeListed, NoPayoutOutsideTrade,
           PayeeOnRecord, CompletedMeansReleased, Bookkeeping, Kinds, NoJob
  <1>30. CASE ClientStep
    BY <1>0, <1>30
       DEF ClientStep, GetClient, LoseClient, FundedBeforeListed,
           NoPayoutOutsideTrade, PayeeOnRecord, CompletedMeansReleased,
           TransactionsInFlight, ScanInFlight, SweepInFlight, Bookkeeping, Kinds
  <1>31. CASE UNCHANGED vars
    BY <1>0, <1>31
       DEF vars, FundedBeforeListed, NoPayoutOutsideTrade,
           PayeeOnRecord, CompletedMeansReleased, TransactionsInFlight,
           ScanInFlight, SweepInFlight, Bookkeeping, Kinds
  <1> QED
    BY <1>1, <1>2, <1>3, <1>4, <1>5, <1>6, <1>7, <1>8, <1>9, <1>10, <1>11,
       <1>12, <1>13, <1>14, <1>15, <1>16, <1>17, <1>18, <1>19, <1>20, <1>21,
       <1>22, <1>23, <1>24, <1>25, <1>26, <1>27, <1>28, <1>29, <1>30, <1>31
       DEF Next, Outside, JobStep, TransferStep, ScanStep, SweepStep,
           Decisions

\* The inductive invariant holds of every reachable state.
THEOREM Inductive == Spec => []IInv
  BY InvariantInit, InvariantStep, PTL DEF Spec

\* No ad is visible, traded or disputed before its maker's money arrived
\* (activate_order, EscrowScanner._check_order_deposit).
THEOREM FundingPrecedesListing == Spec => []FundedBeforeListed
<1>1. IInv => FundedBeforeListed
  BY DEF IInv
<1> QED
  BY <1>1, Inductive, PTL

\* An order whose money has left is never listed, pending or cancelled again
\* (release_escrow, refund_escrow, cancel_order).
THEOREM PaidOrdersStayTaken == Spec => []NoPayoutOutsideTrade
<1>1. IInv => NoPayoutOutsideTrade
  BY DEF IInv
<1> QED
  BY <1>1, Inductive, PTL

\* No step after a transfer gives the trade to somebody else (take_order,
\* release_escrow).
THEOREM PayeeStaysOnRecord == Spec => []PayeeOnRecord
<1>1. IInv => PayeeOnRecord
  BY DEF IInv
<1> QED
  BY <1>1, Inductive, PTL

\* A failed transfer is never committed as a completed order
\* (confirm_fiat_payment).
THEOREM CompletedOrdersWereReleased == Spec => []CompletedMeansReleased
<1>1. IInv => CompletedMeansReleased
  BY DEF IInv
<1> QED
  BY <1>1, Inductive, PTL

\* What open transactions, scans and sweeps rely on stays true until they end
\* (_release_escrow_logic, _scan_once, expire_stagnant_trades).
THEOREM WorkInFlightIsSound == Spec => []InFlight
<1>1. IInv => InFlight
  BY DEF IInv
<1> QED
  BY <1>1, Inductive, PTL

-----------------------------------------------------------------------------
(* Row locks.                                                              *)

\* The row lock is exclusive: one step of the invariant's proof, but over two
\* states.  Every action that writes the status or the taker of an order first
\* finds its row unlocked, or ends the transaction that holds it.
LEMMA FrozenStep ==
  ASSUME IInv, Next, NEW p \in Orders,
         job[p].op # "none", job'[p].op = job[p].op
  PROVE  status'[p] = status[p] /\ taker'[p] = taker[p]
<1> DEFINE Frozen == status'[p] = status[p] /\ taker'[p] = taker[p]
<1> USE DEF IInv, TypeOK, rowVars
<1>1. ASSUME NEW o \in Orders, Outside(o)
      PROVE  Frozen
  <2>1. ASSUME NEW u \in Users, TakeOrder(o, u)
        PROVE  Frozen
    BY <2>1 DEF TakeOrder, Unlocked, SaveStatus
  <2>2. CASE CreateOrder(o)
    BY <2>2 DEF CreateOrder, InFlight, TransactionsInFlight, Jobs, Engaged
  <2>3. CASE ActivateOrder(o) \/ CancelOrderByPayload(o) \/ CancelOrder(o) \/ RaiseDispute(o)
    BY <2>3 DEF ActivateOrder, CancelOrderByPayload, CancelOrder, RaiseDispute,
                Unlocked, SaveStatus
  <2>4. CASE SettleInvoice(o) \/ Deposit(o) \/ TimeOut(o)
    BY <2>4 DEF SettleInvoice, Deposit, TimeOut
  <2>5. CASE EscrowConfirm(o) \/ ConfirmFiatPayment(o)
    BY <2>5 DEF EscrowConfirm, ConfirmFiatPayment
  <2>6. ASSUME NEW d \in Decisions, ResolveDispute(o, d)
        PROVE  Frozen
    BY <2>6 DEF ResolveDispute
  <2> QED
    BY <1>1, <2>1, <2>2, <2>3, <2>4, <2>5, <2>6 DEF Outside, Decisions
<1>2. ASSUME NEW o \in Orders, JobStep(o)
      PROVE  Frozen
  <2>1. CASE TransferStep(o)
    BY <2>1 DEF TransferStep, TransferSent, TransferLost, TransferFails, TransferEnds
  <2>2. CASE ReleaseCommits(o) \/ ConfirmFallsToDispute(o)
    <3>1. SaveStatus({o}, "completed") \/ SaveStatus({o}, "dispute")
      BY <2>2 DEF ReleaseCommits, ConfirmFallsToDispute
    <3>2. taker' = taker /\ job' = [job EXCEPT ![o] = NoJob]
      BY <2>2 DEF ReleaseCommits, ConfirmFallsToDispute, EndJob
    <3>3. p # o
      BY <3>2 DEF NoJob
    <3> QED
      BY <3>1, <3>2, <3>3 DEF SaveStatus
  <2>3. CASE ResolveEnds(o) \/ JobRollsBack(o)
    BY <2>3 DEF ResolveEnds, JobRollsBack
  <2> QED
    BY <1>2, <2>1, <2>2, <2>3 DEF JobStep
<1>3. CASE ExpirePendingOrders
  BY <1>3 DEF ExpirePendingOrders, Expirable, Unlocked, SaveStatus
<1>4. CASE ScanStep
  BY <1>4 DEF ScanStep, ScanBegin, ScanHit, ScanMiss, ScanCommit, Unlocked, SaveStatus
<1>5. CASE SweepStep
  BY <1>5 DEF SweepStep, SweepBegin, SweepRefund, SweepClose, SweepBreaks
<1>6. CASE ClientStep \/ Crash
  BY <1>6 DEF ClientStep, GetClient, LoseClient, Crash
<1> QED
  BY <1>1, <1>2, <1>3, <1>4, <1>5, <1>6 DEF Next

\* While a transaction holds the row of an order, nobody else changes its
\* status or its taker (SELECT ... FOR UPDATE in every service).
THEOREM SettlingIsExclusive == Spec => SettlingOrderFrozen
<1>1. IInv /\ [Next]_vars
        => [\A o \in Orders :
              job[o].op # "none" /\ job'[o].op = job[o].op
                => status'[o] = status[o] /\ taker'[o] = taker[o]]_vars
  BY FrozenStep DEF vars
<1> QED
  BY <1>1, Inductive, PTL DEF Spec, SettlingOrderFrozen

-----------------------------------------------------------------------------
(* P2PEscrow implements OrderBook.                                         *)

\* An empty table of orders is an empty order book.
LEMMA BookInit == Init => Book!Init
  BY DEF Init, Book!Init

\* A step that writes neither the status nor the taker is a stutter of the book.
LEMMA BookStutter == UNCHANGED <<status, taker>> => UNCHANGED Book!vars
  BY DEF Book!vars

\* Every other step maps to the step of the book that moves the same orders.
LEMMA BookStep == IInv /\ [Next]_vars => [Book!Next]_(Book!vars)
<1> SUFFICES ASSUME IInv, [Next]_vars
             PROVE  Book!Next \/ UNCHANGED Book!vars
  OBVIOUS
<1> USE P2PAssumption DEF IInv, TypeOK, rowVars
<1>1. ASSUME NEW o \in Orders, CreateOrder(o)
        PROVE  Book!Create(o)
  BY <1>1 DEF CreateOrder, Book!Create, Book!Move
<1>2. ASSUME NEW o \in Orders, ActivateOrder(o)
        PROVE  Book!List({o})
  BY <1>2 DEF ActivateOrder, Unlocked, SaveStatus, Book!List, Book!Move
<1>3. ASSUME NEW o \in Orders, CancelOrderByPayload(o)
        PROVE  Book!Withdraw({o})
  BY <1>3
     DEF CancelOrderByPayload, Unlocked, SaveStatus, Book!Withdraw, Book!Move
<1>4. ASSUME ExpirePendingOrders
      PROVE  Book!Withdraw(Expirable)
  BY <1>4
     DEF ExpirePendingOrders, Expirable, Unlocked, SaveStatus, Book!Withdraw,
         Book!Move
<1>5. ASSUME ScanCommit
      PROVE  Book!List(scanHits)
  BY <1>5
     DEF ScanCommit, Unlocked, SaveStatus, Book!List, Book!Move, InFlight,
         ScanInFlight
<1>6. ASSUME NEW o \in Orders, NEW u \in Users, TakeOrder(o, u)
        PROVE  Book!Take(o, u)
  BY <1>6 DEF TakeOrder, Unlocked, SaveStatus, Book!Take, Book!Move
<1>7. ASSUME NEW o \in Orders, CancelOrder(o)
        PROVE  Book!Withdraw({o})
  BY <1>7
     DEF CancelOrder, Cancellable, Unlocked, SaveStatus, Book!Withdraw,
         Book!Move
<1>8. ASSUME NEW o \in Orders, RaiseDispute(o)
        PROVE  Book!Dispute(o)
  BY <1>8 DEF RaiseDispute, Unlocked, SaveStatus, Book!Dispute, Book!Move
<1>9. ASSUME NEW o \in Orders, ReleaseCommits(o)
        PROVE  Book!Complete(o)
  BY <1>9
     DEF ReleaseCommits, Completes, SaveStatus, EndJob, Book!Complete,
         Book!Move, InFlight, TransactionsInFlight
<1>10. ASSUME NEW o \in Orders, ConfirmFallsToDispute(o)
      PROVE  Book!Dispute(o)
  BY <1>10
     DEF ConfirmFallsToDispute, SaveStatus, EndJob, Book!Dispute, Book!Move,
         InFlight, TransactionsInFlight
<1>11. ASSUME NEW o \in Orders, SettleInvoice(o) \/ Deposit(o) \/ TimeOut(o)
                                \/ EscrowConfirm(o) \/ ConfirmFiatPayment(o)
      PROVE  UNCHANGED <<status, taker>>
  BY <1>11 DEF SettleInvoice, Deposit, TimeOut, EscrowConfirm, ConfirmFiatPayment
<1>12. ASSUME NEW o \in Orders, NEW d \in Decisions, ResolveDispute(o, d)
      PROVE  UNCHANGED <<status, taker>>
  BY <1>12 DEF ResolveDispute
<1>13. ASSUME NEW o \in Orders, TransferStep(o) \/ ResolveEnds(o) \/ JobRollsBack(o)
      PROVE  UNCHANGED <<status, taker>>
  BY <1>13 DEF TransferStep, TransferSent, TransferLost, TransferFails, TransferEnds,
              ResolveEnds, JobRollsBack
<1>14. ASSUME ScanBegin \/ \E o \in Orders : ScanHit(o) \/ ScanMiss(o)
      PROVE  UNCHANGED <<status, taker>>
  BY <1>14 DEF ScanBegin, ScanHit, ScanMiss
<1>15. ASSUME ClientStep \/ SweepStep \/ Crash \/ UNCHANGED vars
      PROVE  UNCHANGED <<status, taker>>
  BY <1>15 DEF ClientStep, GetClient, LoseClient, SweepStep, SweepBegin,
              SweepRefund, SweepClose, SweepBreaks, Crash, vars
<1> Expirable \subseteq Orders /\ scanHits \subseteq Orders
  BY DEF Expirable
<1> QED
  BY <1>1, <1>2, <1>3, <1>4, <1>5, <1>6, <1>7, <1>8, <1>9, <1>10, <1>11,
     <1>12, <1>13, <1>14, <1>15, BookStutter
     DEF Next, Outside, JobStep, ScanStep, Decisions, Book!Next

\* The services, webhooks and tasks together move an order only as OrderBook
\* says: every step of P2PEscrow is a step of the book or a stutter.
THEOREM OrderBookImplemented == Spec => BookSpec
  BY BookInit, BookStep, Inductive, PTL DEF Spec, BookSpec, Book!Spec

\* The theorems of the order book, about the book P2PEscrow keeps.
BookTheorems == INSTANCE OrderBook_proofs WITH Relistable <- ChainOrders

\* The parameters of the book are as its theorems ask.
LEMMA BookAssumption == BookTheorems!OrderBookAssumption
  BY P2PAssumption DEF BookTheorems!OrderBookAssumption

\* The book of the theorems is the book P2PEscrow implements.
LEMMA SameBook == Spec => BookTheorems!Spec
<1>1. Book!Init => BookTheorems!Init
  BY DEF Book!Init, BookTheorems!Init
<1>2. [Book!Next]_(Book!vars) => [BookTheorems!Next]_(BookTheorems!vars)
  BY DEF Book!Next, BookTheorems!Next, Book!vars, BookTheorems!vars,
         Book!List, BookTheorems!List, Book!Withdraw, BookTheorems!Withdraw,
         Book!Create, BookTheorems!Create, Book!Dispute, BookTheorems!Dispute,
         Book!Complete, BookTheorems!Complete, Book!Take, BookTheorems!Take,
         Book!Move, BookTheorems!Move
<1> QED
  BY <1>1, <1>2, OrderBookImplemented, PTL DEF BookSpec, Book!Spec, BookTheorems!Spec

\* Hence what follows from the order book alone holds of the program: every
\* taken order has a taker of record who is not its maker (take_order).
THEOREM TakerStaysOnRecord == Spec => []TakerOfRecord
<1>1. BookTheorems!Spec => []BookTheorems!TakerOfRecord
  BY BookAssumption, BookTheorems!TakerIsOnRecord
<1>2. BookTheorems!TakerOfRecord => TakerOfRecord
  BY DEF TakerOfRecord, Book!TakerOfRecord, Book!Untaken, BookTheorems!TakerOfRecord,
         BookTheorems!Untaken
<1> QED
  BY <1>1, <1>2, SameBook, PTL

\* And of two users who take the same ad only one ever gets it (take_order).
THEOREM OnlyOneTakes == Spec => OneTaker
<1>1. BookTheorems!Spec => BookTheorems!OneTaker
  BY BookAssumption, BookTheorems!OneTakerOnly
<1>2. [\A o \in Orders : taker[o] # NoUser => taker'[o] = taker[o]]_(BookTheorems!vars)
        => [\A o \in Orders : taker[o] # NoUser => taker'[o] = taker[o]]_(Book!vars)
  BY DEF Book!vars, BookTheorems!vars
<1> QED
  BY <1>1, <1>2, SameBook, PTL DEF OneTaker, Book!OneTaker, BookTheorems!OneTaker

\* A dispute never ends, nor does a completed trade come back: of all that the
\* moderator decides, pays and announces, and of all a late scan, webhook or
\* sweep writes, nothing moves such an order (resolve_dispute).
THEOREM DisputesNeverEnd ==
  Spec => [][\A o \in Orders :
                status[o] \in {"dispute", "completed"} => status'[o] = status[o]]_vars
<1> DEFINE Stays(o) == status[o] \in {"dispute", "completed"} => status'[o] = status[o]
<1>1. BookTheorems!Spec => BookTheorems!DisputesStay
  BY BookTheorems!DisputesAreFinal
<1>2. [\A o \in Orders : Stays(o)]_(BookTheorems!vars) => [\A o \in Orders : Stays(o)]_vars
  BY DEF vars, rowVars, BookTheorems!vars
<1> QED
  BY <1>1, <1>2, SameBook, PTL DEF BookTheorems!DisputesStay

-----------------------------------------------------------------------------
(* The program as wired, where no handler calls confirm_fiat_payment.      *)

\* No trade was completed, nor is anybody about to.
NothingCompletes ==
  \A o \in Orders :
    /\ status[o] # "completed"
    /\ onChainStatus[o] # "released"
    /\ job[o].op \notin {"handler", "confirm"}

\* Where confirm_fiat_payment is never called, no trade is ever completed: the
\* maker's button finds fiat_confirmed unset, and what the sweep and the
\* moderators do is not saved (cb_escrow_confirm, release_escrow).
THEOREM WiredCompletesNothing ==
  "confirm_fiat_payment" \notin UnwiredCalls /\ Spec => []NothingCompletes
<1> SUFFICES ASSUME "confirm_fiat_payment" \notin UnwiredCalls
             PROVE  Spec => []NothingCompletes
  OBVIOUS
<1> NoJob.op = "none"
  BY DEF NoJob
<1>1. Init => NothingCompletes
  BY DEF Init, NothingCompletes
<1>2. TypeOK /\ NothingCompletes /\ [Next]_vars => NothingCompletes'
  <2> SUFFICES ASSUME TypeOK, NothingCompletes, [Next]_vars
               PROVE  NothingCompletes'
    OBVIOUS
  <2> USE DEF TypeOK, NothingCompletes, rowVars
  <2>1. ASSUME NEW o \in Orders, CreateOrder(o)
        PROVE  NothingCompletes'
    BY <2>1 DEF CreateOrder
  <2>2. ASSUME NEW o \in Orders,
               \/ ActivateOrder(o) \/ CancelOrderByPayload(o) \/ CancelOrder(o)
               \/ RaiseDispute(o) \/ \E u \in Users : TakeOrder(o, u)
        PROVE  NothingCompletes'
    BY <2>2 DEF ActivateOrder, CancelOrderByPayload, CancelOrder, RaiseDispute,
                TakeOrder, SaveStatus
  <2>3. ASSUME NEW o \in Orders,
               SettleInvoice(o) \/ Deposit(o) \/ TimeOut(o) \/ EscrowConfirm(o)
        PROVE  NothingCompletes'
    BY <2>3 DEF SettleInvoice, Deposit, TimeOut, EscrowConfirm, FiatConfirmed
  <2>4. ASSUME NEW o \in Orders,
               ConfirmFiatPayment(o) \/ ReleaseCommits(o) \/ ConfirmFallsToDispute(o)
        PROVE  NothingCompletes'
    BY <2>4 DEF ConfirmFiatPayment, ReleaseCommits, Completes, ConfirmFallsToDispute
  <2>5. ASSUME NEW o \in Orders, NEW d \in Decisions, ResolveDispute(o, d)
        PROVE  NothingCompletes'
    BY <2>5 DEF ResolveDispute, StartJob
  <2>6. ASSUME NEW o \in Orders, TransferStep(o)
        PROVE  NothingCompletes'
    <3>1. UNCHANGED rowVars /\ \E out \in {"sent", "failed"} : job' = [job EXCEPT ![o].out = out]
      BY <2>6 DEF TransferStep, TransferSent, TransferLost, TransferFails, TransferEnds
    <3>2. \A p \in Orders : job'[p].op = job[p].op
      BY <3>1 DEF Jobs
    <3> QED
      BY <3>1, <3>2
  <2>7. ASSUME NEW o \in Orders, ResolveEnds(o) \/ JobRollsBack(o)
        PROVE  NothingCompletes'
    BY <2>7 DEF ResolveEnds, JobRollsBack, EndJob
  <2>8. CASE ExpirePendingOrders
    BY <2>8 DEF ExpirePendingOrders, SaveStatus
  <2>9. CASE ScanStep
    BY <2>9 DEF ScanStep, ScanBegin, ScanHit, ScanMiss, ScanCommit, SaveStatus
  <2>10. CASE ClientStep \/ SweepStep \/ Crash
    BY <2>10 DEF ClientStep, GetClient, LoseClient, SweepStep, SweepBegin,
                 SweepRefund, SweepClose, SweepBreaks, Crash,
                 StartJob
  <2>11. CASE UNCHANGED vars
    BY <2>11 DEF vars
  <2> QED
    BY <2>1, <2>2, <2>3, <2>4, <2>5, <2>6, <2>7, <2>8, <2>9, <2>10, <2>11
       DEF Next, Outside, JobStep, Decisions
<1> QED
  BY <1>1, <1>2, TypeCorrect, PTL DEF Spec

=============================================================================
