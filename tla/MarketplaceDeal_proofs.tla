------------------------- MODULE MarketplaceDeal_proofs -------------------------
(***************************************************************************)
(* Theorems about MarketplaceDeal, for any deals, users and bounds and for *)
(* either behaviour of the database layer (Accepts): its types, its        *)
(* inductive invariant IInv and the safety invariants it contains, the     *)
(* exclusion the row locks give, and that it implements DealBook.          *)
(***************************************************************************)
EXTENDS MarketplaceDeal, FiniteSetTheorems, TLAPS

-----------------------------------------------------------------------------
(* Types.                                                                  *)

\* A row nobody has loaded or locked is a snapshot and a job too.
LEMMA NoJobType == NoSnapshot \in Snapshots /\ NoJob \in Jobs
<1>1. NoSnapshot \in Snapshots
  BY DEF NoSnapshot, Snapshots
<1> QED
  BY <1>1 DEF NoJob, Jobs, Sides

\* A row of users as it was read (resolve_marketplace_dispute, unban_user).
LEMMA SnapshotType == ASSUME TypeOK, NEW u \in Users PROVE Snapshot(u) \in Snapshots
  BY DEF TypeOK, Snapshot, Snapshots

\* Who takes or leaves a row lock keeps the type of the jobs.
LEMMA JobTypes ==
  ASSUME TypeOK, NEW d \in Deals,
         NEW op \in {"complete", "resolve", "payout", "scan"}, NEW side \in Sides,
         NEW user \in Snapshots, NEW out \in {"sent", "failed"},
         StartJob(d, op, side, user) \/ EndJob(d) \/ EndTransfer(d, out)
  PROVE  job' \in [Deals -> Jobs]
<1> USE DEF TypeOK
<1>1. CASE StartJob(d, op, side, user)
  <2>1. [op |-> op, side |-> side, user |-> user, out |-> "pending"] \in Jobs
    BY DEF Jobs
  <2> QED
    BY <1>1, <2>1 DEF StartJob
<1>2. CASE EndJob(d)
  BY <1>2, NoJobType DEF EndJob
<1>3. CASE EndTransfer(d, out)
  <2>1. [job[d] EXCEPT !.out = out] \in Jobs
    BY DEF Jobs
  <2> QED
    BY <1>3, <2>1 DEF EndTransfer
<1> QED
  BY <1>1, <1>2, <1>3

\* Spawning a payout keeps the type of the tasks.
LEMMA SpawnTypes ==
  ASSUME waiting \in [Deals -> Nat], NEW d \in Deals,
         SpawnPayout(d) \/ UNCHANGED waiting
  PROVE  waiting' \in [Deals -> Nat]
<1>1. CASE SpawnPayout(d)
  BY <1>1 DEF SpawnPayout
<1>2. CASE UNCHANGED waiting
  BY <1>2
<1> QED
  BY <1>1, <1>2

\* Empty tables and no open work are well typed.
LEMMA TypeInit == Init => TypeOK
<1> SUFFICES ASSUME Init PROVE TypeOK
  OBVIOUS
<1> USE DealAssumption DEF Init
<1>1. job \in [Deals -> Jobs] /\ unbanning \in [Users -> Snapshots]
  BY NoJobType
<1>2. deposited \in [Deals -> 0..MaxDeposits] /\ faults \in 0..MaxFaults
  OBVIOUS
<1>3. /\ status \in [Deals -> Statuses]
      /\ resolution \in [Deals -> {"none"} \cup Sides]
      /\ payoutStatus \in [Deals -> PayoutStatuses]
  BY DEF Statuses, PayoutStatuses
<1>4. uses \in [Users -> Nat] /\ lost \in [Users -> [Sides -> Nat]]
  OBVIOUS
<1> QED
  BY <1>1, <1>2, <1>3, <1>4 DEF TypeOK

\* The decision of an admin keeps the types of what it writes
\* (resolve_marketplace_dispute).
LEMMA ResolveTypes ==
  ASSUME TypeOK, NEW d \in Deals, ResolveCommits(d)
  PROVE  /\ lost' \in [Users -> [Sides -> Nat]]
         /\ banned' \subseteq Users
         /\ resolution' \in [Deals -> {"none"} \cup Sides]
         /\ status' \in [Deals -> Statuses]
<1> DEFINE side == job[d].side
           u == Party(d, Loser(side))
           n == job[d].user.lost[Loser(side)] + 1
<1>1. side \in Sides /\ job[d].user \in Snapshots
  BY DEF TypeOK, Jobs
<1>2. Loser(side) \in Sides
  BY <1>1 DEF Loser, Sides
<1>3. u \in Users
  BY DealAssumption DEF Party
<1>4. n \in Nat
  BY <1>1, <1>2 DEF Snapshots
<1>5. [lost[u] EXCEPT ![Loser(side)] = n] \in [Sides -> Nat]
  BY <1>2, <1>3, <1>4 DEF TypeOK
<1>6. lost' = [lost EXCEPT ![u] = [lost[u] EXCEPT ![Loser(side)] = n]]
  BY DEF ResolveCommits
<1>7. lost' \in [Users -> [Sides -> Nat]]
  <2> HIDE DEF u, n, side
  <2> QED
    BY <1>3, <1>5, <1>6 DEF TypeOK
<1>8. banned' \subseteq Users
  BY <1>3 DEF TypeOK, ResolveCommits
<1>9. resolution' \in [Deals -> {"none"} \cup Sides]
  BY <1>1 DEF TypeOK, ResolveCommits
<1>10. status' \in [Deals -> Statuses]
  BY DEF TypeOK, ResolveCommits, SetStatus, Statuses
<1> QED
  BY <1>7, <1>8, <1>9, <1>10

\* Every step keeps the types.
LEMMA TypeStep == TypeOK /\ [Next]_vars => TypeOK'
  <1> SUFFICES ASSUME TypeOK, [Next]_vars
               PROVE  TypeOK'
    OBVIOUS
  <1> USE DealAssumption
          DEF TypeOK, rowVars, promoVars, userVars, moneyVars
  <1>1. ASSUME NEW d \in Deals, CreateCheck(d) \/ CreateFails(d)
        PROVE  TypeOK'
    BY <1>1 DEF CreateCheck, CreateFails
  <1>2. ASSUME NEW d \in Deals, NEW withPromo \in BOOLEAN, CreateCommit(d, withPromo)
        PROVE  TypeOK'
    <2>1. uses' \in [Users -> Nat] /\ discounted' \subseteq Deals
      <3>1. CASE withPromo
        <4>1. UsePromo(SellerOf[d]) /\ discounted' = discounted \cup {d}
          BY <1>2, <3>1 DEF CreateCommit
        <4> QED
          BY <4>1 DEF UsePromo
      <3>2. CASE ~withPromo
        BY <1>2, <3>2 DEF CreateCommit
      <3> QED
        BY <3>1, <3>2
    <2> QED
      BY <1>2, <2>1 DEF CreateCommit, SetStatus, Statuses
  <1>3. ASSUME NEW d \in Deals, InvoiceWithPromo(d)
        PROVE  TypeOK'
    BY <1>3 DEF InvoiceWithPromo, UsePromo
  <1>4. ASSUME NEW d \in Deals, ConfirmStars(d) \/ MarkPaid(d) \/ DeliverDeal(d) \/ OpenDispute(d)
        PROVE  TypeOK'
    BY <1>4 DEF ConfirmStars, MarkPaid, DeliverDeal, OpenDispute, SetStatus, Statuses
  <1>5. ASSUME NEW d \in Deals, Deposit(d)
        PROVE  TypeOK'
    <2>1. deposited' \in [Deals -> 0..MaxDeposits]
      BY <1>5 DEF Deposit
    <2> QED
      BY <1>5, <2>1 DEF Deposit
  <1>6. CASE ScanBegin
    BY <1>6 DEF ScanBegin, ScanEligible
  <1>7. ASSUME NEW d \in Deals, ScanLock(d)
        PROVE  TypeOK'
    BY <1>7, NoJobType, JobTypes DEF ScanLock, Sides
  <1>8. ASSUME NEW d \in Deals, ScanPaid(d) \/ ScanMiss(d)
        PROVE  TypeOK'
    <2>1. CASE ScanPaid(d)
      BY <2>1, NoJobType DEF ScanPaid, EndJob, SetStatus, Statuses
    <2>2. CASE ScanMiss(d)
      BY <2>2, NoJobType DEF ScanMiss, EndJob
    <2> QED
      BY <1>8, <2>1, <2>2
  <1>9. ASSUME NEW d \in Deals, CompleteDeal(d)
        PROVE  TypeOK'
    <2>1. job' \in [Deals -> Jobs]
      BY <1>9, NoJobType, JobTypes DEF CompleteDeal, Sides
    <2>2. waiting' \in [Deals -> Nat]
      BY <1>9, SpawnTypes DEF CompleteDeal
    <2> QED
      BY <1>9, <2>1, <2>2 DEF CompleteDeal
  <1>10. ASSUME NEW d \in Deals, CompleteCommits(d)
         PROVE  TypeOK'
    BY <1>10, NoJobType DEF CompleteCommits, EndJob, SetStatus, Statuses
  <1>11. ASSUME NEW d \in Deals, NEW side \in Sides, ResolveDispute(d, side)
         PROVE  TypeOK'
    <2>1. Party(d, Loser(side)) \in Users
      BY DEF Party
    <2>2. job' \in [Deals -> Jobs]
      BY <1>11, <2>1, SnapshotType, JobTypes DEF ResolveDispute
    <2>3. waiting' \in [Deals -> Nat]
      BY <1>11, SpawnTypes DEF ResolveDispute
    <2> QED
      BY <1>11, <2>2, <2>3 DEF ResolveDispute
  <1>12. ASSUME NEW d \in Deals, NEW out \in {"sent", "failed"}, StarsRefunded(d, out)
         PROVE  TypeOK'
    <2>1. job' \in [Deals -> Jobs]
      BY <1>12, NoJobType, JobTypes DEF StarsRefunded, Sides
    <2> QED
      BY <1>12, <2>1 DEF StarsRefunded
  <1>13. ASSUME NEW d \in Deals, RefundFails(d)
         PROVE  TypeOK'
    BY <1>13, NoJobType DEF RefundFails, EndJob
  <1>14. ASSUME NEW d \in Deals, ResolveCommits(d)
         PROVE  TypeOK'
    BY <1>14, ResolveTypes, NoJobType DEF ResolveCommits, EndJob
  <1>15. ASSUME NEW u \in Users, UnbanRead(u)
         PROVE  TypeOK'
    BY <1>15, SnapshotType DEF UnbanRead
  <1>16. ASSUME NEW u \in Users, UnbanCommits(u)
         PROVE  TypeOK'
    <2>1. [s \in Sides |-> IF unbanning[u].lost[s] = 0 THEN lost[u][s] ELSE 0] \in [Sides -> Nat]
      OBVIOUS
    <2>2. lost' \in [Users -> [Sides -> Nat]]
      BY <1>16, <2>1 DEF UnbanCommits
    <2> QED
      BY <1>16, <2>2, NoJobType DEF UnbanCommits
  <1>17. ASSUME NEW d \in Deals, PayoutReturns(d)
         PROVE  TypeOK'
    BY <1>17 DEF PayoutReturns
  <1>18. ASSUME NEW d \in Deals, PayoutBegins(d)
         PROVE  TypeOK'
    <2>1. job' \in [Deals -> Jobs]
      BY <1>18, NoJobType, JobTypes DEF PayoutBegins, Sides
    <2>2. waiting' \in [Deals -> Nat]
      BY <1>18 DEF PayoutBegins
    <2> QED
      BY <1>18, <2>1, <2>2 DEF PayoutBegins
  <1>19. ASSUME NEW d \in Deals, NEW out \in {"sent", "failed"},
                PayoutMade(d, out) \/ PayoutFails(d)
         PROVE  TypeOK'
    <2>1. job' \in [Deals -> Jobs]
      BY <1>19, NoJobType, JobTypes DEF PayoutMade, PayoutFails, Sides
    <2>2. sent' \in [Deals -> Nat]
      BY <1>19 DEF PayoutMade, PayoutFails
    <2> QED
      BY <1>19, <2>1, <2>2 DEF PayoutMade, PayoutFails
  <1>20. ASSUME NEW d \in Deals, PayoutRecorded(d)
         PROVE  TypeOK'
    <2>1. Outcome(d) \in PayoutStatuses \/ "nested_begin" \notin Accepts
      BY <1>20 DEF PayoutRecorded, Outcome, PayoutStatuses, Jobs
    <2> QED
      BY <1>20, <2>1, NoJobType DEF PayoutRecorded, EndJob
  <1>21. ASSUME NEW d \in Deals, RollsBack(d)
         PROVE  TypeOK'
    <2>1. faults' \in 0..MaxFaults
      BY <1>21 DEF RollsBack
    <2> QED
      BY <1>21, <2>1, NoJobType DEF RollsBack, EndJob
  <1>22. CASE ApiCrash
    <2>1. faults' \in 0..MaxFaults
      BY <1>22 DEF ApiCrash
    <2> QED
      BY <1>22, <2>1, NoJobType DEF ApiCrash
  <1>23. CASE UNCHANGED vars
    BY <1>23 DEF vars
  <1> QED
    BY <1>1, <1>2, <1>3, <1>4, <1>5, <1>6, <1>7, <1>8, <1>9, <1>10, <1>11,
       <1>12, <1>13, <1>14, <1>15, <1>16, <1>17, <1>18, <1>19, <1>20, <1>21,
       <1>22, <1>23
       DEF Next, Outside, JobStep, TaskStep

\* The tables, the money outside and the open work keep their types.
THEOREM TypeCorrect == Spec => []TypeOK
  BY TypeInit, TypeStep, PTL DEF Spec

-----------------------------------------------------------------------------
(* The inductive invariant.                                                *)

\* It holds of empty tables.
LEMMA InvariantInit == Init => IInv
<1> SUFFICES ASSUME Init PROVE IInv
  OBVIOUS
<1> USE DEF Init
<1>1. TypeOK
  BY TypeInit
<1>2. PromoWithinLimit /\ Bookkeeping
  <2>1. \A u \in Users : Cardinality({d \in {} : SellerOf[d] = u}) = 0
    BY FS_EmptySet
  <2> QED
    BY <2>1, FS_EmptySet, DealAssumption DEF PromoWithinLimit, Bookkeeping
<1>3. PayoutOnlyWhileRunning /\ CancelledMeansRefunded /\ VerdictOnRecord /\ PayoutRecordTrue
  BY DEF PayoutOnlyWhileRunning, CancelledMeansRefunded, VerdictOnRecord, PayoutRecordTrue
<1>4. InFlight
  BY DEF InFlight, TransactionsInFlight, TasksInFlight, NoJob
<1> QED
  BY <1>1, <1>2, <1>3, <1>4 DEF IInv

\* A set has at most one element more when one is added.
LEMMA OneMore ==
  ASSUME NEW S, NEW x, NEW T \in {S, S \cup {x}}, IsFiniteSet(S)
  PROVE  Cardinality(T) \in Nat /\ Cardinality(T) <= Cardinality(S) + 1
<1>1. Cardinality(S) \in Nat
  BY FS_CardinalityType
<1>2. CASE T = S
  BY <1>1, <1>2
<1>3. CASE T = S \cup {x}
  BY <1>1, <1>3, FS_AddElement
<1> QED
  BY <1>2, <1>3

\* What the other transactions see when one learns how its transfer ended.
LEMMA TransferEnds ==
  ASSUME TypeOK, NEW d \in Deals, NEW out \in {"sent", "failed"}, EndTransfer(d, out)
  PROVE  /\ \A e \in Deals \ {d} : job'[e] = job[e]
         /\ job'[d].op = job[d].op /\ job'[d].out = out
<1>1. job' = [job EXCEPT ![d] = [job[d] EXCEPT !.out = out]]
  BY DEF EndTransfer
<1> QED
  BY <1>1 DEF TypeOK, Jobs

\* And when one ends.
LEMMA JobEnds ==
  ASSUME TypeOK, NEW d \in Deals, EndJob(d)
  PROVE  /\ \A e \in Deals \ {d} : job'[e] = job[e]
         /\ job'[d].op = "none"
  BY DEF TypeOK, EndJob, NoJob

\* Counting a use of a seller's promo code, with or without a deal it discounts
\* (create_deal, create_stars_invoice).
LEMMA PromoStep ==
  ASSUME TypeOK, PromoWithinLimit, IsFiniteSet(discounted), NEW d \in Deals,
         UsePromo(SellerOf[d]), discounted' \in {discounted, discounted \cup {d}}
  PROVE  PromoWithinLimit' /\ IsFiniteSet(discounted')
<1> DEFINE By(S, u) == {e \in S : SellerOf[e] = u}
<1> USE DEF TypeOK
<1>1. SellerOf[d] \in Users
  BY DealAssumption
<1>2. IsFiniteSet(discounted')
  BY FS_AddElement
<1>3. ASSUME NEW u \in Users
      PROVE  /\ uses'[u] <= MaxUses
             /\ Cardinality(By(discounted', u)) <= uses'[u]
  <2>1. /\ IsFiniteSet(By(discounted, u))
        /\ Cardinality(By(discounted, u)) \in Nat
        /\ Cardinality(By(discounted, u)) <= uses[u]
    BY <1>3, FS_Subset, FS_CardinalityType DEF PromoWithinLimit
  <2>2. CASE u = SellerOf[d]
    <3>1. By(discounted', u) \in {By(discounted, u), By(discounted, u) \cup {d}}
      BY <2>2
    <3>2. /\ Cardinality(By(discounted', u)) \in Nat
          /\ Cardinality(By(discounted', u)) <= Cardinality(By(discounted, u)) + 1
      <4> HIDE DEF By
      <4> QED
        BY <2>1, <3>1, OneMore
    <3>3. uses'[u] = uses[u] + 1 /\ uses[u] < MaxUses
      BY <1>1, <2>2 DEF UsePromo
    <3> QED
      BY <2>1, <3>2, <3>3, DealAssumption
  <2>3. CASE u # SellerOf[d]
    <3>1. By(discounted', u) = By(discounted, u)
      BY <2>3
    <3>2. uses'[u] = uses[u]
      BY <1>1, <2>3 DEF UsePromo
    <3>3. uses[u] <= MaxUses
      BY DEF PromoWithinLimit
    <3> QED
      BY <2>1, <3>1, <3>2, <3>3
  <2> QED
    BY <2>2, <2>3
<1> QED
  BY <1>2, <1>3 DEF PromoWithinLimit

\* Every step keeps it.
LEMMA InvariantStep == IInv /\ [Next]_vars => IInv'
  <1> SUFFICES ASSUME IInv, [Next]_vars
               PROVE  IInv'
    OBVIOUS
  <1>0. TypeOK /\ TypeOK'
    BY TypeStep DEF IInv
  <1> USE DealAssumption
      DEF IInv, InFlight, TypeOK, Running, rowVars, promoVars, userVars, moneyVars
  <1>1. ASSUME NEW d \in Deals, CreateCheck(d) \/ CreateFails(d)
        PROVE  IInv'
    <2>1. PromoWithinLimit' /\ Bookkeeping'
      BY <1>0, <1>1 DEF CreateCheck, CreateFails, PromoWithinLimit, Bookkeeping
    <2>2. PayoutOnlyWhileRunning' /\ PayoutRecordTrue'
      BY <1>0, <1>1
         DEF CreateCheck, CreateFails, PayoutOnlyWhileRunning, PayoutRecordTrue
    <2>3. CancelledMeansRefunded' /\ VerdictOnRecord'
      BY <1>0, <1>1
         DEF CreateCheck, CreateFails, CancelledMeansRefunded, VerdictOnRecord
    <2>4. TransactionsInFlight'
      BY <1>0, <1>1 DEF CreateCheck, CreateFails, TransactionsInFlight
    <2>5. TasksInFlight'
      BY <1>0, <1>1 DEF CreateCheck, CreateFails, TasksInFlight
    <2> QED
      BY <1>0, <2>1, <2>2, <2>3, <2>4, <2>5
  <1>2. ASSUME NEW d \in Deals, NEW withPromo \in BOOLEAN, CreateCommit(d, withPromo)
        PROVE  IInv'
    <2>1. /\ d \in creating /\ creating' = creating \ {d} /\ SetStatus(d, "created")
          /\ UNCHANGED <<resolution, payoutStatus, userVars, moneyVars, job,
                         waiting, unbanning, scanLeft, faults>>
      BY <1>2 DEF CreateCommit
    <2>2. PromoWithinLimit' /\ Bookkeeping'
      <3>1. CASE withPromo
        <4>1. UsePromo(SellerOf[d]) /\ discounted' = discounted \cup {d}
          BY <1>2, <3>1 DEF CreateCommit
        <4> QED
          BY <2>1, <4>1, PromoStep DEF Bookkeeping
      <3>2. CASE ~withPromo
        BY <1>2, <3>2 DEF CreateCommit, PromoWithinLimit, Bookkeeping
      <3> QED
        BY <3>1, <3>2
    <2>3. PayoutOnlyWhileRunning' /\ PayoutRecordTrue'
      BY <1>0, <2>1 DEF SetStatus, PayoutOnlyWhileRunning, PayoutRecordTrue, TasksInFlight
    <2>4. CancelledMeansRefunded' /\ VerdictOnRecord'
      BY <1>0, <2>1
         DEF SetStatus, CancelledMeansRefunded, VerdictOnRecord, TasksInFlight
    <2>5. TransactionsInFlight'
      BY <1>0, <2>1 DEF SetStatus, TransactionsInFlight, TasksInFlight
    <2>6. TasksInFlight'
      BY <1>0, <2>1 DEF SetStatus, TasksInFlight
    <2> QED
      BY <1>0, <2>2, <2>3, <2>4, <2>5, <2>6
  <1>3. ASSUME NEW d \in Deals, InvoiceWithPromo(d)
        PROVE  IInv'
    <2>1. PromoWithinLimit' /\ Bookkeeping'
      BY <1>0, <1>3, PromoStep DEF InvoiceWithPromo, PromoWithinLimit, Bookkeeping
    <2>2. PayoutOnlyWhileRunning' /\ PayoutRecordTrue'
      BY <1>0, <1>3 DEF InvoiceWithPromo, PayoutOnlyWhileRunning, PayoutRecordTrue
    <2>3. CancelledMeansRefunded' /\ VerdictOnRecord'
      BY <1>0, <1>3 DEF InvoiceWithPromo, CancelledMeansRefunded, VerdictOnRecord
    <2>4. TransactionsInFlight'
      BY <1>0, <1>3 DEF InvoiceWithPromo, TransactionsInFlight
    <2>5. TasksInFlight'
      BY <1>0, <1>3 DEF InvoiceWithPromo, TasksInFlight
    <2> QED
      BY <1>0, <2>1, <2>2, <2>3, <2>4, <2>5
  <1>4. ASSUME NEW d \in Deals, ConfirmStars(d)
        PROVE  IInv'
    <2>1. PromoWithinLimit' /\ Bookkeeping'
      BY <1>0, <1>4 DEF ConfirmStars, SetStatus, PromoWithinLimit, Bookkeeping
    <2>2. PayoutOnlyWhileRunning' /\ PayoutRecordTrue'
      BY <1>0, <1>4
         DEF ConfirmStars, SetStatus, PayoutOnlyWhileRunning, PayoutRecordTrue
    <2>3. CancelledMeansRefunded' /\ VerdictOnRecord'
      BY <1>0, <1>4
         DEF ConfirmStars, SetStatus, CancelledMeansRefunded, VerdictOnRecord
    <2>4. TransactionsInFlight'
      BY <1>0, <1>4 DEF ConfirmStars, SetStatus, TransactionsInFlight
    <2>5. TasksInFlight'
      BY <1>0, <1>4 DEF ConfirmStars, SetStatus, TasksInFlight
    <2> QED
      BY <1>0, <2>1, <2>2, <2>3, <2>4, <2>5
  <1>5. ASSUME NEW d \in Deals, MarkPaid(d) \/ DeliverDeal(d) \/ OpenDispute(d)
        PROVE  IInv'
    <2>1. PromoWithinLimit' /\ Bookkeeping'
      BY <1>0, <1>5
         DEF MarkPaid, DeliverDeal, OpenDispute, LocksJoinedDeal, Unlocked,
             SetStatus, PromoWithinLimit, Bookkeeping
    <2>2. PayoutOnlyWhileRunning' /\ PayoutRecordTrue'
      BY <1>0, <1>5
         DEF MarkPaid, DeliverDeal, OpenDispute, LocksJoinedDeal, Unlocked,
             SetStatus, PayoutOnlyWhileRunning, PayoutRecordTrue
    <2>3. CancelledMeansRefunded'
      BY <1>0, <1>5
         DEF MarkPaid, DeliverDeal, OpenDispute, LocksJoinedDeal, Unlocked,
             SetStatus, CancelledMeansRefunded
    <2>4. VerdictOnRecord'
      BY <1>0, <1>5
         DEF MarkPaid, DeliverDeal, OpenDispute, LocksJoinedDeal, Unlocked,
             SetStatus, VerdictOnRecord
    <2>5. TransactionsInFlight'
      BY <1>0, <1>5
         DEF MarkPaid, DeliverDeal, OpenDispute, LocksJoinedDeal, Unlocked,
             SetStatus, TransactionsInFlight
    <2>6. TasksInFlight'
      BY <1>0, <1>5
         DEF MarkPaid, DeliverDeal, OpenDispute, LocksJoinedDeal, Unlocked,
             SetStatus, TasksInFlight
    <2> QED
      BY <1>0, <2>1, <2>2, <2>3, <2>4, <2>5, <2>6
  <1>6. ASSUME NEW d \in Deals, Deposit(d)
        PROVE  IInv'
    BY <1>0, <1>6
       DEF Deposit, PromoWithinLimit, PayoutOnlyWhileRunning,
           CancelledMeansRefunded, VerdictOnRecord, PayoutRecordTrue,
           TransactionsInFlight, TasksInFlight, Bookkeeping
  <1>7. CASE ScanBegin
    BY <1>0, <1>7
       DEF ScanBegin, ScanEligible, PromoWithinLimit, PayoutOnlyWhileRunning,
           CancelledMeansRefunded, VerdictOnRecord, PayoutRecordTrue,
           TransactionsInFlight, TasksInFlight, Bookkeeping
  <1>8. ASSUME NEW d \in Deals, ScanLock(d)
        PROVE  IInv'
    BY <1>0, <1>8
       DEF ScanLock, StartJob, PromoWithinLimit, PayoutOnlyWhileRunning,
           CancelledMeansRefunded, VerdictOnRecord, PayoutRecordTrue,
           TransactionsInFlight, TasksInFlight, Bookkeeping
  <1>9. ASSUME NEW d \in Deals, ScanPaid(d)
        PROVE  IInv'
    <2>1. PromoWithinLimit' /\ Bookkeeping'
      BY <1>0, <1>9
         DEF ScanPaid, EndJob, SetStatus, NoJob, PromoWithinLimit, Bookkeeping
    <2>2. PayoutOnlyWhileRunning' /\ PayoutRecordTrue'
      BY <1>0, <1>9
         DEF ScanPaid, EndJob, SetStatus, NoJob, PayoutOnlyWhileRunning,
             PayoutRecordTrue
    <2>3. CancelledMeansRefunded' /\ VerdictOnRecord'
      BY <1>0, <1>9
         DEF ScanPaid, EndJob, SetStatus, NoJob, TransactionsInFlight,
             TasksInFlight, Bookkeeping, CancelledMeansRefunded, VerdictOnRecord
    <2>4. TransactionsInFlight'
      BY <1>0, <1>9 DEF ScanPaid, EndJob, SetStatus, NoJob, TransactionsInFlight
    <2>5. TasksInFlight'
      BY <1>0, <1>9 DEF ScanPaid, EndJob, SetStatus, NoJob, TasksInFlight
    <2> QED
      BY <1>0, <2>1, <2>2, <2>3, <2>4, <2>5
  <1>10. ASSUME NEW d \in Deals, ScanMiss(d)
         PROVE  IInv'
    <2>1. PromoWithinLimit' /\ Bookkeeping'
      BY <1>0, <1>10 DEF ScanMiss, EndJob, NoJob, PromoWithinLimit, Bookkeeping
    <2>2. PayoutOnlyWhileRunning' /\ PayoutRecordTrue'
      BY <1>0, <1>10
         DEF ScanMiss, EndJob, NoJob, PayoutOnlyWhileRunning, PayoutRecordTrue
    <2>3. CancelledMeansRefunded' /\ VerdictOnRecord'
      BY <1>0, <1>10
         DEF ScanMiss, EndJob, NoJob, CancelledMeansRefunded, VerdictOnRecord
    <2>4. TransactionsInFlight'
      BY <1>0, <1>10 DEF ScanMiss, EndJob, NoJob, TransactionsInFlight
    <2>5. TasksInFlight'
      BY <1>0, <1>10 DEF ScanMiss, EndJob, NoJob, TasksInFlight
    <2> QED
      BY <1>0, <2>1, <2>2, <2>3, <2>4, <2>5
  <1>11. ASSUME NEW d \in Deals, CompleteDeal(d)
         PROVE  IInv'
    <2>1. PromoWithinLimit' /\ Bookkeeping'
      BY <1>0, <1>11
         DEF CompleteDeal, LocksJoinedDeal, Unlocked, StartJob, SpawnPayout,
             PromoWithinLimit, Bookkeeping
    <2>2. PayoutOnlyWhileRunning' /\ PayoutRecordTrue'
      BY <1>0, <1>11
         DEF CompleteDeal, LocksJoinedDeal, Unlocked, StartJob, SpawnPayout,
             PayoutOnlyWhileRunning, PayoutRecordTrue
    <2>3. CancelledMeansRefunded' /\ VerdictOnRecord'
      BY <1>0, <1>11
         DEF CompleteDeal, LocksJoinedDeal, Unlocked, StartJob, SpawnPayout,
             CancelledMeansRefunded, VerdictOnRecord
    <2>4. TransactionsInFlight'
      BY <1>0, <1>11
         DEF CompleteDeal, LocksJoinedDeal, Unlocked, StartJob, SpawnPayout,
             TransactionsInFlight
    <2>5. TasksInFlight'
      BY <1>0, <1>11
         DEF CompleteDeal, LocksJoinedDeal, Unlocked, StartJob, SpawnPayout,
             TasksInFlight
    <2> QED
      BY <1>0, <2>1, <2>2, <2>3, <2>4, <2>5
  <1>12. ASSUME NEW d \in Deals, CompleteCommits(d)
         PROVE  IInv'
    <2>1. /\ job[d].op = "complete" /\ status[d] = "delivered" /\ EndJob(d)
          /\ UNCHANGED <<resolution, payoutStatus, promoVars, userVars,
                         moneyVars, creating, waiting, unbanning, scanLeft,
                         faults>>
      BY <1>12 DEF CompleteCommits, TransactionsInFlight
    <2>2. /\ \A e \in Deals \ {d} : status'[e] = status[e]
          /\ status'[d] = "completed"
      BY <1>12 DEF CompleteCommits, SetStatus
    <2>3. PromoWithinLimit' /\ Bookkeeping'
      BY <2>1 DEF PromoWithinLimit, Bookkeeping
    <2>4. PayoutOnlyWhileRunning' /\ PayoutRecordTrue'
      BY <2>1, <2>2 DEF PayoutOnlyWhileRunning, PayoutRecordTrue
    <2>5. CancelledMeansRefunded' /\ VerdictOnRecord'
      BY <2>1, <2>2 DEF CancelledMeansRefunded, VerdictOnRecord
    <2>6. InFlight'
      <3>1. /\ \A e \in Deals \ {d} : job'[e] = job[e]
            /\ job'[d].op = "none"
        BY <2>1, JobEnds
      <3>2. TransactionsInFlight'
        BY <2>1, <2>2, <3>1 DEF TransactionsInFlight
      <3>3. TasksInFlight'
        BY <2>1, <2>2, <3>1 DEF TasksInFlight
      <3> QED
        BY <3>2, <3>3
    <2> QED
      BY <1>0, <2>3, <2>4, <2>5, <2>6
  <1>13. ASSUME NEW d \in Deals, NEW side \in Sides, ResolveDispute(d, side)
         PROVE  IInv'
    <2>1. PromoWithinLimit' /\ Bookkeeping'
      BY <1>0, <1>13
         DEF ResolveDispute, Unlocked, StartJob, SpawnPayout, PromoWithinLimit,
             Bookkeeping
    <2>2. PayoutOnlyWhileRunning' /\ PayoutRecordTrue'
      BY <1>0, <1>13
         DEF ResolveDispute, Unlocked, StartJob, SpawnPayout,
             PayoutOnlyWhileRunning, PayoutRecordTrue
    <2>3. CancelledMeansRefunded' /\ VerdictOnRecord'
      BY <1>0, <1>13
         DEF ResolveDispute, Unlocked, StartJob, SpawnPayout,
             CancelledMeansRefunded, VerdictOnRecord
    <2>4. TransactionsInFlight'
      BY <1>0, <1>13
         DEF ResolveDispute, Unlocked, StartJob, SpawnPayout, TransactionsInFlight
    <2>5. TasksInFlight'
      BY <1>0, <1>13
         DEF ResolveDispute, Unlocked, StartJob, SpawnPayout, TasksInFlight
    <2> QED
      BY <1>0, <2>1, <2>2, <2>3, <2>4, <2>5
  <1>14. ASSUME NEW d \in Deals, NEW out \in {"sent", "failed"}, StarsRefunded(d, out)
         PROVE  IInv'
    <2>1. /\ job[d].op = "resolve" /\ status[d] = "dispute" /\ d \in ChargedDeals
          /\ refunded' = refunded \cup {d}
          /\ EndTransfer(d, "sent") \/ EndJob(d)
          /\ UNCHANGED <<rowVars, promoVars, userVars, deposited, sent,
                         creating, waiting, unbanning, scanLeft, faults>>
      BY <1>14 DEF StarsRefunded, Refunding, TransactionsInFlight
    <2>2. PromoWithinLimit' /\ Bookkeeping'
      BY <2>1 DEF PromoWithinLimit, Bookkeeping
    <2>3. PayoutOnlyWhileRunning' /\ PayoutRecordTrue'
      BY <2>1 DEF PayoutOnlyWhileRunning, PayoutRecordTrue
    <2>4. CancelledMeansRefunded' /\ VerdictOnRecord'
      BY <2>1 DEF CancelledMeansRefunded, VerdictOnRecord
    <2>5. TransactionsInFlight'
      BY <2>1, TransferEnds, JobEnds DEF TransactionsInFlight
    <2>6. TasksInFlight'
      BY <2>1, TransferEnds, JobEnds DEF TasksInFlight
    <2> QED
      BY <1>0, <2>2, <2>3, <2>4, <2>5, <2>6
  <1>15. ASSUME NEW d \in Deals, RefundFails(d)
         PROVE  IInv'
    <2>1. PromoWithinLimit' /\ Bookkeeping'
      BY <1>0, <1>15 DEF RefundFails, EndJob, NoJob, PromoWithinLimit, Bookkeeping
    <2>2. PayoutOnlyWhileRunning' /\ PayoutRecordTrue'
      BY <1>0, <1>15
         DEF RefundFails, EndJob, NoJob, PayoutOnlyWhileRunning, PayoutRecordTrue
    <2>3. CancelledMeansRefunded' /\ VerdictOnRecord'
      BY <1>0, <1>15
         DEF RefundFails, EndJob, NoJob, CancelledMeansRefunded, VerdictOnRecord
    <2>4. TransactionsInFlight'
      BY <1>0, <1>15 DEF RefundFails, EndJob, NoJob, TransactionsInFlight
    <2>5. TasksInFlight'
      BY <1>0, <1>15 DEF RefundFails, EndJob, NoJob, TasksInFlight
    <2> QED
      BY <1>0, <2>1, <2>2, <2>3, <2>4, <2>5
  <1>16. ASSUME NEW d \in Deals, ResolveCommits(d)
         PROVE  IInv'
    <2>1. /\ job[d].op = "resolve" /\ status[d] = "dispute" /\ EndJob(d)
          /\ UNCHANGED <<payoutStatus, promoVars, moneyVars, creating, waiting,
                         unbanning, scanLeft, faults>>
          /\ resolution' = [resolution EXCEPT ![d] = job[d].side]
          /\ SetStatus(d, IF job[d].side = "seller" THEN "completed" ELSE "cancelled")
      BY <1>16 DEF ResolveCommits, MayResolve, TransactionsInFlight
    <2>2. /\ \A e \in Deals \ {d} : status'[e] = status[e] /\ resolution'[e] = resolution[e]
          /\ \/ status'[d] = "completed" /\ resolution'[d] = "seller"
             \/ /\ status'[d] = "cancelled" /\ resolution'[d] = "buyer"
                /\ d \notin WalletDeals
                /\ d \in StarsDeals => d \in refunded
      <3>1. CASE job[d].side = "seller"
        BY <2>1, <3>1 DEF SetStatus
      <3>2. CASE job[d].side = "buyer"
        <4>1. d \in WalletDeals \cup StarsDeals => d \in refunded
          BY <1>16, <3>2 DEF ResolveCommits, MayResolve, Refunding, TransactionsInFlight
        <4>2. d \notin WalletDeals /\ (d \in StarsDeals => d \in refunded)
          BY <4>1 DEF Bookkeeping
        <4> QED
          BY <2>1, <3>2, <4>2 DEF SetStatus
      <3> QED
        BY <3>1, <3>2 DEF Jobs, Sides
    <2>3. PromoWithinLimit' /\ Bookkeeping'
      BY <2>1 DEF PromoWithinLimit, Bookkeeping
    <2>4. PayoutOnlyWhileRunning' /\ PayoutRecordTrue'
      BY <2>1, <2>2 DEF PayoutOnlyWhileRunning, PayoutRecordTrue, Bookkeeping
    <2>5. CancelledMeansRefunded' /\ VerdictOnRecord'
      BY <2>1, <2>2 DEF CancelledMeansRefunded, VerdictOnRecord
    <2>6. InFlight'
      <3>1. /\ \A e \in Deals \ {d} : job'[e] = job[e]
            /\ job'[d].op = "none"
        BY <2>1, JobEnds
      <3>2. TransactionsInFlight'
        BY <2>1, <2>2, <3>1 DEF TransactionsInFlight
      <3>3. TasksInFlight'
        BY <2>1, <2>2, <3>1 DEF TasksInFlight
      <3> QED
        BY <3>2, <3>3
    <2> QED
      BY <1>0, <2>3, <2>4, <2>5, <2>6
  <1>17. ASSUME NEW u \in Users, UnbanRead(u) \/ UnbanCommits(u)
         PROVE  IInv'
    BY <1>0, <1>17
       DEF UnbanRead, UnbanCommits, PromoWithinLimit, PayoutOnlyWhileRunning,
           CancelledMeansRefunded, VerdictOnRecord, PayoutRecordTrue,
           TransactionsInFlight, TasksInFlight, Bookkeeping
  <1>18. ASSUME NEW d \in Deals, PayoutReturns(d)
         PROVE  IInv'
    <2>1. PromoWithinLimit' /\ Bookkeeping'
      BY <1>0, <1>18 DEF PayoutReturns, PromoWithinLimit, Bookkeeping
    <2>2. PayoutOnlyWhileRunning' /\ PayoutRecordTrue'
      BY <1>0, <1>18 DEF PayoutReturns, PayoutOnlyWhileRunning, PayoutRecordTrue
    <2>3. CancelledMeansRefunded' /\ VerdictOnRecord'
      BY <1>0, <1>18 DEF PayoutReturns, CancelledMeansRefunded, VerdictOnRecord
    <2>4. TransactionsInFlight'
      BY <1>0, <1>18 DEF PayoutReturns, TransactionsInFlight
    <2>5. TasksInFlight'
      BY <1>0, <1>18 DEF PayoutReturns, TasksInFlight
    <2> QED
      BY <1>0, <2>1, <2>2, <2>3, <2>4, <2>5
  <1>19. ASSUME NEW d \in Deals, PayoutBegins(d)
         PROVE  IInv'
    <2>1. PromoWithinLimit' /\ Bookkeeping'
      BY <1>0, <1>19
         DEF PayoutBegins, LocksJoinedDeal, Unlocked, StartJob, PromoWithinLimit,
             Bookkeeping
    <2>2. PayoutOnlyWhileRunning' /\ PayoutRecordTrue'
      BY <1>0, <1>19
         DEF PayoutBegins, LocksJoinedDeal, Unlocked, StartJob,
             PayoutOnlyWhileRunning, PayoutRecordTrue
    <2>3. CancelledMeansRefunded' /\ VerdictOnRecord'
      BY <1>0, <1>19
         DEF PayoutBegins, LocksJoinedDeal, Unlocked, StartJob,
             CancelledMeansRefunded, VerdictOnRecord
    <2>4. TransactionsInFlight'
      BY <1>0, <1>19
         DEF PayoutBegins, LocksJoinedDeal, Unlocked, StartJob, TasksInFlight,
             TransactionsInFlight
    <2>5. TasksInFlight'
      BY <1>0, <1>19
         DEF PayoutBegins, LocksJoinedDeal, Unlocked, StartJob, TasksInFlight
    <2> QED
      BY <1>0, <2>1, <2>2, <2>3, <2>4, <2>5
  <1>20. ASSUME NEW d \in Deals, NEW out \in {"sent", "failed"}, PayoutMade(d, out) \/ PayoutFails(d)
         PROVE  IInv'
    <2>1. /\ job[d].op = "payout" /\ d \in WalletDeals
          /\ UNCHANGED <<rowVars, promoVars, userVars, deposited, refunded,
                         creating, waiting, unbanning, scanLeft, faults>>
      BY <1>20 DEF PayoutMade, PayoutFails
    <2>2. /\ \A e \in Deals \ {d} : job'[e] = job[e] /\ sent'[e] = sent[e]
          /\ job'[d].op = "payout" /\ sent'[d] >= sent[d]
          /\ job'[d].out = "sent" => sent'[d] > 0
      <3>1. CASE PayoutMade(d, out)
        <4>1. EndTransfer(d, out) /\ sent' = [sent EXCEPT ![d] = @ + 1]
          BY <3>1 DEF PayoutMade
        <4> QED
          BY <2>1, <4>1, TransferEnds
      <3>2. CASE PayoutFails(d)
        <4>1. EndTransfer(d, "failed") /\ UNCHANGED sent
          BY <3>2 DEF PayoutFails
        <4> QED
          BY <2>1, <4>1, TransferEnds
      <3> QED
        BY <1>20, <3>1, <3>2
    <2>3. PromoWithinLimit' /\ Bookkeeping'
      BY <2>1, <2>2 DEF PromoWithinLimit, Bookkeeping
    <2>4. PayoutOnlyWhileRunning' /\ PayoutRecordTrue'
      <3>1. status[d] \in Running
        BY <2>1 DEF TasksInFlight, CancelledMeansRefunded
      <3>2. PayoutOnlyWhileRunning'
        BY <2>1, <2>2, <3>1 DEF PayoutOnlyWhileRunning
      <3>3. PayoutRecordTrue'
        <4>1. \A e \in Deals : sent[e] > 0 => sent'[e] > 0
          <5>1. \A e \in Deals : sent[e] \in Nat /\ sent'[e] \in Nat
            BY <1>0
          <5>2. \A e \in Deals : sent'[e] >= sent[e]
            BY <2>2, <5>1
          <5> QED
            BY <5>1, <5>2
        <4> QED
          BY <2>1, <4>1 DEF PayoutRecordTrue
      <3> QED
        BY <3>2, <3>3
    <2>5. CancelledMeansRefunded' /\ VerdictOnRecord'
      BY <2>1 DEF CancelledMeansRefunded, VerdictOnRecord
    <2>6. InFlight'
      <3>1. TransactionsInFlight'
        BY <2>1, <2>2 DEF TransactionsInFlight
      <3>2. TasksInFlight'
        BY <2>1, <2>2 DEF TasksInFlight
      <3> QED
        BY <3>1, <3>2
    <2> QED
      BY <1>0, <2>3, <2>4, <2>5, <2>6
  <1>21. ASSUME NEW d \in Deals, PayoutRecorded(d)
         PROVE  IInv'
    <2>1. /\ job[d].op = "payout" /\ EndJob(d)
          /\ UNCHANGED <<status, resolution, promoVars, userVars, moneyVars,
                         creating, waiting, unbanning, scanLeft, faults>>
      BY <1>21 DEF PayoutRecorded
    <2>2. PromoWithinLimit' /\ Bookkeeping'
      BY <2>1 DEF PromoWithinLimit, Bookkeeping
    <2>3. PayoutOnlyWhileRunning' /\ PayoutRecordTrue'
      <3>1. Outcome(d) = "sent" => sent[d] > 0
        BY <1>21 DEF PayoutRecorded, Outcome, TransactionsInFlight
      <3>2. Outcome(d) = "manual" => d \in StarsDeals
        BY DEF Outcome, Jobs
      <3>3. \/ payoutStatus' = [payoutStatus EXCEPT ![d] = Outcome(d)]
            \/ UNCHANGED payoutStatus
        BY <1>21 DEF PayoutRecorded
      <3> QED
        BY <2>1, <3>1, <3>2, <3>3 DEF PayoutOnlyWhileRunning, PayoutRecordTrue
    <2>4. CancelledMeansRefunded' /\ VerdictOnRecord'
      BY <2>1 DEF CancelledMeansRefunded, VerdictOnRecord
    <2>5. TransactionsInFlight'
      BY <2>1, JobEnds DEF TransactionsInFlight
    <2>6. TasksInFlight'
      BY <2>1, JobEnds DEF TasksInFlight
    <2> QED
      BY <1>0, <2>2, <2>3, <2>4, <2>5, <2>6
  <1>22. ASSUME NEW d \in Deals, RollsBack(d)
         PROVE  IInv'
    <2>1. PromoWithinLimit' /\ Bookkeeping'
      BY <1>0, <1>22 DEF RollsBack, EndJob, NoJob, PromoWithinLimit, Bookkeeping
    <2>2. PayoutOnlyWhileRunning' /\ PayoutRecordTrue'
      BY <1>0, <1>22
         DEF RollsBack, EndJob, NoJob, PayoutOnlyWhileRunning, PayoutRecordTrue
    <2>3. CancelledMeansRefunded' /\ VerdictOnRecord'
      BY <1>0, <1>22
         DEF RollsBack, EndJob, NoJob, CancelledMeansRefunded, VerdictOnRecord
    <2>4. TransactionsInFlight'
      BY <1>0, <1>22 DEF RollsBack, EndJob, NoJob, TransactionsInFlight
    <2>5. TasksInFlight'
      BY <1>0, <1>22 DEF RollsBack, EndJob, NoJob, TasksInFlight
    <2> QED
      BY <1>0, <2>1, <2>2, <2>3, <2>4, <2>5
  <1>23. CASE ApiCrash
    <2>1. PromoWithinLimit' /\ Bookkeeping'
      BY <1>0, <1>23 DEF ApiCrash, NoJob, PromoWithinLimit, Bookkeeping
    <2>2. PayoutOnlyWhileRunning' /\ PayoutRecordTrue'
      BY <1>0, <1>23 DEF ApiCrash, NoJob, PayoutOnlyWhileRunning, PayoutRecordTrue
    <2>3. CancelledMeansRefunded' /\ VerdictOnRecord'
      BY <1>0, <1>23 DEF ApiCrash, NoJob, CancelledMeansRefunded, VerdictOnRecord
    <2>4. TransactionsInFlight'
      BY <1>0, <1>23 DEF ApiCrash, NoJob, TransactionsInFlight
    <2>5. TasksInFlight'
      BY <1>0, <1>23 DEF ApiCrash, NoJob, TasksInFlight
    <2> QED
      BY <1>0, <2>1, <2>2, <2>3, <2>4, <2>5
  <1>24. CASE UNCHANGED vars
    BY <1>0, <1>24
       DEF vars, PromoWithinLimit, PayoutOnlyWhileRunning, CancelledMeansRefunded,
           VerdictOnRecord, PayoutRecordTrue, TransactionsInFlight, TasksInFlight,
           Bookkeeping
  <1> QED
    BY <1>1, <1>2, <1>3, <1>4, <1>5, <1>6, <1>7, <1>8, <1>9, <1>10, <1>11, <1>12,
       <1>13, <1>14, <1>15, <1>16, <1>17, <1>18, <1>19, <1>20, <1>21, <1>22, <1>23,
       <1>24
       DEF Next, Outside, JobStep, TaskStep

\* The inductive invariant holds of every reachable state.
THEOREM Inductive == Spec => []IInv
  BY InvariantInit, InvariantStep, PTL DEF Spec

\* A promo code is never counted past its max_uses, and discounts no more deals
\* than were counted (create_deal, create_stars_invoice).
THEOREM PromoLimitHolds == Spec => []PromoWithinLimit
<1>1. IInv => PromoWithinLimit
  BY DEF IInv
<1> QED
  BY <1>1, Inductive, PTL

\* The seller is paid only out of a deal that somebody paid and nobody called
\* off (process_payout_to_seller).
THEOREM PayoutsStayInTheDeal == Spec => []PayoutOnlyWhileRunning
<1>1. IInv => PayoutOnlyWhileRunning
  BY DEF IInv
<1> QED
  BY <1>1, Inductive, PTL

\* A deal is called off only after its Stars went back
\* (resolve_marketplace_dispute).
THEOREM CancelledDealsWereRefunded == Spec => []CancelledMeansRefunded
<1>1. IInv => CancelledMeansRefunded
  BY DEF IInv
<1> QED
  BY <1>1, Inductive, PTL

\* The decision on record is how the deal ended (resolve_marketplace_dispute).
THEOREM VerdictsStand == Spec => []VerdictOnRecord
<1>1. IInv => VerdictOnRecord
  BY DEF IInv
<1> QED
  BY <1>1, Inductive, PTL

\* A payout on record was made (process_payout_to_seller).
THEOREM PayoutRecordsAreTrue == Spec => []PayoutRecordTrue
<1>1. IInv => PayoutRecordTrue
  BY DEF IInv
<1> QED
  BY <1>1, Inductive, PTL

\* What open transactions and waiting tasks rely on stays true until they end
\* (resolve_marketplace_dispute, process_payout_to_seller, _scan_once).
THEOREM WorkInFlightIsSound == Spec => []InFlight
<1>1. IInv => InFlight
  BY DEF IInv
<1> QED
  BY <1>1, Inductive, PTL

-----------------------------------------------------------------------------
(* Row locks.                                                              *)

\* The row lock is exclusive: every action that writes the status or the payout
\* status of a deal finds its row unlocked or not there yet, or ends the
\* transaction that holds it.
LEMMA FrozenStep ==
  ASSUME IInv, Next, NEW p \in Deals,
         job[p].op # "none", job'[p].op = job[p].op
  PROVE  status'[p] = status[p] /\ payoutStatus'[p] = payoutStatus[p]
<1> DEFINE Frozen == status'[p] = status[p] /\ payoutStatus'[p] = payoutStatus[p]
<1> USE DEF IInv, TypeOK, rowVars
<1>1. status[p] # "none"
  BY DEF InFlight, TransactionsInFlight, TasksInFlight, Running, Jobs
<1>2. ASSUME NEW d \in Deals, Outside(d)
      PROVE  Frozen
  <2>1. ASSUME NEW withPromo \in BOOLEAN, CreateCommit(d, withPromo)
        PROVE  Frozen
    BY <1>1, <2>1 DEF CreateCommit, SetStatus, InFlight, TasksInFlight
  <2>2. CASE ConfirmStars(d)
    BY <1>1, <2>2 DEF ConfirmStars, SetStatus
  <2>3. CASE MarkPaid(d) \/ DeliverDeal(d) \/ OpenDispute(d)
    BY <2>3 DEF MarkPaid, DeliverDeal, OpenDispute, LocksJoinedDeal, Unlocked, SetStatus
  <2>4. CASE CreateCheck(d) \/ CreateFails(d) \/ InvoiceWithPromo(d) \/ Deposit(d)
    BY <2>4 DEF CreateCheck, CreateFails, InvoiceWithPromo, Deposit
  <2>5. CASE CompleteDeal(d) \/ \E side \in Sides : ResolveDispute(d, side)
    BY <2>5 DEF CompleteDeal, ResolveDispute
  <2> QED
    BY <1>2, <2>1, <2>2, <2>3, <2>4, <2>5 DEF Outside
<1>3. ASSUME NEW d \in Deals, JobStep(d)
      PROVE  Frozen
  <2>1. CASE ScanPaid(d) \/ CompleteCommits(d) \/ ResolveCommits(d) \/ PayoutRecorded(d)
    <3>1. EndJob(d)
      BY <2>1 DEF ScanPaid, CompleteCommits, ResolveCommits, PayoutRecorded
    <3>2. p # d
      BY <3>1, JobEnds
    <3>3. \/ \E s \in Statuses : SetStatus(d, s) /\ UNCHANGED payoutStatus
          \/ UNCHANGED status /\ payoutStatus' = [payoutStatus EXCEPT ![d] = Outcome(d)]
          \/ UNCHANGED <<status, payoutStatus>>
      BY <2>1 DEF ScanPaid, CompleteCommits, ResolveCommits, PayoutRecorded, Statuses
    <3> QED
      BY <3>2, <3>3 DEF SetStatus
  <2>2. ASSUME NEW out \in {"sent", "failed"}, StarsRefunded(d, out) \/ PayoutMade(d, out)
        PROVE  Frozen
    BY <2>2 DEF StarsRefunded, PayoutMade
  <2>3. CASE RefundFails(d) \/ PayoutFails(d) \/ ScanMiss(d)
    BY <2>3 DEF RefundFails, PayoutFails, ScanMiss
  <2> QED
    BY <1>3, <2>1, <2>2, <2>3 DEF JobStep
<1>4. ASSUME NEW d \in Deals, TaskStep(d) \/ ScanLock(d) \/ RollsBack(d)
      PROVE  Frozen
  BY <1>4 DEF TaskStep, PayoutReturns, PayoutBegins, ScanLock, RollsBack
<1>5. CASE ScanBegin \/ ApiCrash \/ \E u \in Users : UnbanRead(u) \/ UnbanCommits(u)
  BY <1>5 DEF ScanBegin, ApiCrash, UnbanRead, UnbanCommits
<1> QED
  BY <1>2, <1>3, <1>4, <1>5 DEF Next

\* While one handler or task holds the row of a deal, no other one changes it
\* (SELECT ... FOR UPDATE in every handler, the worker and the scanner).
THEOREM LocksAreExclusive == Spec => LockedDealFrozen
<1>1. IInv /\ [Next]_vars
        => [\A d \in Deals :
              job[d].op # "none" /\ job'[d].op = job[d].op
                => /\ status'[d] = status[d]
                   /\ payoutStatus'[d] = payoutStatus[d]]_vars
  BY FrozenStep DEF vars
<1> QED
  BY <1>1, Inductive, PTL DEF Spec, LockedDealFrozen

-----------------------------------------------------------------------------
(* MarketplaceDeal implements DealBook.                                    *)

\* No deals are an empty deal book.
LEMMA BookInit == Init => Book!Init
  BY DEF Init, Book!Init

\* Every step moves one deal as the book says, or none.
LEMMA BookStep == IInv /\ [Next]_vars => [Book!Next]_status
<1> SUFFICES ASSUME IInv, [Next]_vars
             PROVE  Book!Next \/ UNCHANGED status
  OBVIOUS
<1> USE DealAssumption DEF IInv, TypeOK, rowVars, SetStatus, Book!Move
<1>1. ASSUME NEW d \in Deals, NEW withPromo \in BOOLEAN, CreateCommit(d, withPromo)
      PROVE  Book!Open(d)
  BY <1>1 DEF CreateCommit, Book!Open, InFlight, TasksInFlight
<1>2. ASSUME NEW d \in Deals, ConfirmStars(d) \/ MarkPaid(d)
      PROVE  Book!Pay(d)
  BY <1>2 DEF ConfirmStars, MarkPaid, Book!Pay
<1>3. ASSUME NEW d \in Deals, DeliverDeal(d)
      PROVE  Book!Deliver(d)
  BY <1>3 DEF DeliverDeal, Book!Deliver
<1>4. ASSUME NEW d \in Deals, CompleteCommits(d)
      PROVE  Book!Complete(d)
  BY <1>4 DEF CompleteCommits, Book!Complete, InFlight, TransactionsInFlight
<1>5. ASSUME NEW d \in Deals, OpenDispute(d)
      PROVE  Book!Dispute(d)
  BY <1>5 DEF OpenDispute, Book!Dispute
<1>6. ASSUME NEW d \in Deals, ResolveCommits(d)
      PROVE  Book!Resolve(d)
  <2>1. job[d].op = "resolve" /\ status[d] = "dispute"
    BY <1>6 DEF ResolveCommits, MayResolve, InFlight, TransactionsInFlight
  <2>2. CASE job[d].side = "seller"
    BY <1>6, <2>1, <2>2 DEF ResolveCommits, Book!Resolve
  <2>3. CASE job[d].side # "seller"
    <3>1. d \notin WalletDeals
      BY <1>6, <2>3
         DEF ResolveCommits, MayResolve, Refunding, InFlight, TransactionsInFlight,
             Bookkeeping, Jobs, Sides
    <3> QED
      BY <1>6, <2>1, <2>3, <3>1 DEF ResolveCommits, Book!Resolve
  <2> QED
    BY <2>2, <2>3
<1>7. ASSUME NEW d \in Deals, ScanPaid(d)
      PROVE  Book!Pay(d) \/ Book!Relapse(d)
  BY <1>7 DEF ScanPaid, Book!Pay, Book!Relapse, InFlight, TransactionsInFlight,
              TasksInFlight, Running, Book!Running
<1>8. ASSUME NEW d \in Deals,
             \/ CreateCheck(d) \/ CreateFails(d) \/ InvoiceWithPromo(d) \/ Deposit(d)
             \/ CompleteDeal(d) \/ \E side \in Sides : ResolveDispute(d, side)
      PROVE  UNCHANGED status
  BY <1>8 DEF CreateCheck, CreateFails, InvoiceWithPromo, Deposit, CompleteDeal,
              ResolveDispute
<1>9. ASSUME NEW d \in Deals,
             \/ \E out \in {"sent", "failed"} : StarsRefunded(d, out) \/ PayoutMade(d, out)
             \/ RefundFails(d) \/ PayoutFails(d) \/ PayoutRecorded(d) \/ ScanMiss(d)
      PROVE  UNCHANGED status
  BY <1>9 DEF StarsRefunded, PayoutMade, RefundFails, PayoutFails, PayoutRecorded,
              ScanMiss
<1>10. ASSUME NEW d \in Deals, TaskStep(d) \/ ScanLock(d) \/ RollsBack(d)
       PROVE  UNCHANGED status
  BY <1>10 DEF TaskStep, PayoutReturns, PayoutBegins, ScanLock, RollsBack
<1>11. ASSUME \/ ScanBegin \/ ApiCrash \/ UNCHANGED vars
              \/ \E u \in Users : UnbanRead(u) \/ UnbanCommits(u)
       PROVE  UNCHANGED status
  BY <1>11 DEF ScanBegin, ApiCrash, vars, UnbanRead, UnbanCommits
<1> QED
  BY <1>1, <1>2, <1>3, <1>4, <1>5, <1>6, <1>7, <1>8, <1>9, <1>10, <1>11
     DEF Next, Outside, JobStep, Book!Next

\* The handlers, the worker and the scanner together move a deal only as
\* DealBook says: every step of MarketplaceDeal is a step of the book or a
\* stutter.
THEOREM DealBookImplemented == Spec => BookSpec
  BY BookInit, BookStep, Inductive, PTL DEF Spec, BookSpec, Book!Spec

-----------------------------------------------------------------------------
(* What the deal book promises follows from its transitions alone.          *)

\* The status column of the book keeps its type.
LEMMA BookTypes == Book!Spec => []Book!TypeOK
<1>1. Book!Init => Book!TypeOK
  BY DEF Book!Init, Book!TypeOK, Book!Statuses
<1>2. Book!TypeOK /\ [Book!Next]_status => Book!TypeOK'
  BY DEF Book!TypeOK, Book!Statuses, Book!Next, Book!Move, Book!Open, Book!Pay,
         Book!Deliver, Book!Complete, Book!Dispute, Book!Resolve, Book!Relapse
<1> QED
  BY <1>1, <1>2, PTL DEF Book!Spec

\* In any book of deals a settled deal stays settled, and a dispute ends only
\* by being settled (complete_deal, resolve_marketplace_dispute).
THEOREM BookSettlesForGood == Book!Spec => SettledForGood
<1>1. Book!TypeOK /\ [Book!Next]_status
        => [\A d \in Deals \ WalletDeals :
              /\ status[d] \in {"completed", "cancelled"} => status'[d] = status[d]
              /\ status[d] = "dispute"
                  => status'[d] \in {"dispute", "completed", "cancelled"}]_status
  <2> SUFFICES ASSUME Book!TypeOK, NEW e \in Deals, NEW d \in Deals \ WalletDeals,
                      \/ Book!Open(e) \/ Book!Pay(e) \/ Book!Deliver(e)
                      \/ Book!Complete(e) \/ Book!Dispute(e) \/ Book!Resolve(e)
                      \/ Book!Relapse(e)
               PROVE  /\ status[d] \in {"completed", "cancelled"}
                           => status'[d] = status[d]
                      /\ status[d] = "dispute"
                           => status'[d] \in {"dispute", "completed", "cancelled"}
    BY DEF Book!Next
  <2> QED
    BY DEF Book!TypeOK, Book!Move, Book!Open, Book!Pay, Book!Deliver, Book!Complete,
           Book!Dispute, Book!Resolve, Book!Relapse
<1> QED
  BY <1>1, BookTypes, PTL DEF Book!Spec, SettledForGood, Book!SettledForGood

\* And a deal that was paid for is never unpaid again, not even by a late scan
\* (_check_deal_deposit).
THEOREM BookKeepsPaid == Book!Spec => Book!NeverUnpaid
<1>1. Book!TypeOK /\ [Book!Next]_status
        => [\A d \in Deals :
              status[d] \in Book!Running
                => status'[d] \in Book!Running \cup {"cancelled"}]_status
  <2> SUFFICES ASSUME Book!TypeOK, NEW e \in Deals, NEW d \in Deals,
                      status[d] \in Book!Running,
                      \/ Book!Open(e) \/ Book!Pay(e) \/ Book!Deliver(e)
                      \/ Book!Complete(e) \/ Book!Dispute(e) \/ Book!Resolve(e)
                      \/ Book!Relapse(e)
               PROVE  status'[d] \in Book!Running \cup {"cancelled"}
    BY DEF Book!Next
  <2> QED
    BY DEF Book!TypeOK, Book!Running, Book!Move, Book!Open, Book!Pay, Book!Deliver,
           Book!Complete, Book!Dispute, Book!Resolve, Book!Relapse
<1> QED
  BY <1>1, BookTypes, PTL DEF Book!Spec, Book!NeverUnpaid

-----------------------------------------------------------------------------
(* Hence what the book promises holds of the program.                       *)

\* A deal without a wallet of its own that was settled stays settled
\* (complete_deal, resolve_marketplace_dispute).
THEOREM SettledDealsStaySettled == Spec => SettledForGood
  BY DealBookImplemented, BookSettlesForGood, PTL DEF BookSpec

\* No deal that was paid is ever unpaid again (_check_deal_deposit).
THEOREM PaidDealsStayPaid == Spec => Book!NeverUnpaid
  BY DealBookImplemented, BookKeepsPaid, PTL DEF BookSpec

-----------------------------------------------------------------------------
(* The program as shipped, where FOR UPDATE on an outer join is refused.   *)

\* No deal was delivered, none was completed but by an admin who decided for
\* the seller, nothing was paid out, and no handler holds a row that had to be
\* locked with its seller or its product.
OnlyAdminsComplete ==
  \A d \in Deals :
    /\ status[d] # "delivered"
    /\ status[d] = "completed" => resolution[d] = "seller"
    /\ sent[d] = 0
    /\ payoutStatus[d] = "none"
    /\ job[d].op \in {"none", "resolve", "scan"}

\* Where get_deal's lock and the payout worker's are refused, a deal ends only
\* in a dispute and no seller is ever paid out, whoever wins it (deliver_deal,
\* complete_deal, process_payout_to_seller).
THEOREM ShippedPaysNobody ==
  "outer_join_lock" \notin Accepts /\ Spec => []OnlyAdminsComplete
<1> SUFFICES ASSUME "outer_join_lock" \notin Accepts
             PROVE  Spec => []OnlyAdminsComplete
  OBVIOUS
<1>1. Init => OnlyAdminsComplete
  BY DEF Init, OnlyAdminsComplete, NoJob
<1>2. TypeOK /\ OnlyAdminsComplete /\ [Next]_vars => OnlyAdminsComplete'
  <2> SUFFICES ASSUME TypeOK, OnlyAdminsComplete, [Next]_vars
               PROVE  OnlyAdminsComplete'
    OBVIOUS
  <2> USE DEF TypeOK, OnlyAdminsComplete, rowVars, promoVars, userVars, moneyVars
  <2>1. ASSUME NEW d \in Deals, NEW withPromo \in BOOLEAN, CreateCommit(d, withPromo)
        PROVE  OnlyAdminsComplete'
    BY <2>1 DEF CreateCommit, SetStatus
  <2>2. ASSUME NEW d \in Deals, ConfirmStars(d) \/ MarkPaid(d) \/ OpenDispute(d)
        PROVE  OnlyAdminsComplete'
    BY <2>2 DEF ConfirmStars, MarkPaid, OpenDispute, SetStatus
  <2>3. ASSUME NEW d \in Deals, DeliverDeal(d) \/ CompleteDeal(d) \/ PayoutBegins(d)
        PROVE  OnlyAdminsComplete'
    BY <2>3 DEF DeliverDeal, CompleteDeal, PayoutBegins, LocksJoinedDeal
  <2>4. ASSUME NEW d \in Deals,
               \/ CompleteCommits(d) \/ PayoutFails(d) \/ PayoutRecorded(d)
               \/ \E out \in {"sent", "failed"} : PayoutMade(d, out)
        PROVE  OnlyAdminsComplete'
    BY <2>4 DEF CompleteCommits, PayoutFails, PayoutRecorded, PayoutMade
  <2>5. ASSUME NEW d \in Deals, \/ ScanLock(d)
                                \/ \E side \in Sides : ResolveDispute(d, side)
        PROVE  OnlyAdminsComplete'
    BY <2>5 DEF ScanLock, ResolveDispute, StartJob
  <2>6. ASSUME NEW d \in Deals, NEW out \in {"sent", "failed"}, StarsRefunded(d, out)
        PROVE  OnlyAdminsComplete'
    <3>1. /\ UNCHANGED <<rowVars, sent>>
          /\ EndTransfer(d, out) \/ EndJob(d)
      BY <2>6 DEF StarsRefunded
    <3>2. \A e \in Deals : job'[e].op \in {job[e].op, "none"}
      BY <3>1 DEF EndTransfer, EndJob, NoJob, Jobs
    <3> QED
      BY <3>1, <3>2
  <2>7. ASSUME NEW d \in Deals, RefundFails(d) \/ ScanMiss(d) \/ RollsBack(d)
        PROVE  OnlyAdminsComplete'
    BY <2>7 DEF RefundFails, ScanMiss, RollsBack, EndJob, NoJob
  <2>8. ASSUME NEW d \in Deals, ScanPaid(d)
        PROVE  OnlyAdminsComplete'
    BY <2>8 DEF ScanPaid, SetStatus, EndJob, NoJob
  <2>9. ASSUME NEW d \in Deals, ResolveCommits(d)
        PROVE  OnlyAdminsComplete'
    BY <2>9 DEF ResolveCommits, SetStatus, EndJob, NoJob
  <2>10. ASSUME NEW d \in Deals,
                \/ CreateCheck(d) \/ CreateFails(d) \/ InvoiceWithPromo(d)
                \/ Deposit(d) \/ PayoutReturns(d)
         PROVE  OnlyAdminsComplete'
    BY <2>10 DEF CreateCheck, CreateFails, InvoiceWithPromo, Deposit, PayoutReturns
  <2>11. CASE ScanBegin \/ \E u \in Users : UnbanRead(u) \/ UnbanCommits(u)
    BY <2>11 DEF ScanBegin, UnbanRead, UnbanCommits
  <2>12. CASE ApiCrash
    BY <2>12 DEF ApiCrash, NoJob
  <2>13. CASE UNCHANGED vars
    BY <2>13 DEF vars
  <2> QED
    BY <2>1, <2>2, <2>3, <2>4, <2>5, <2>6, <2>7, <2>8, <2>9, <2>10, <2>11, <2>12,
       <2>13 DEF Next, Outside, JobStep, TaskStep
<1> QED
  BY <1>1, <1>2, TypeCorrect, PTL DEF Spec

=============================================================================
