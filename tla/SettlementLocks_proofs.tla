----------------------- MODULE SettlementLocks_proofs -----------------------
(***************************************************************************)
(* Theorems about SettlementLocks, for any orders, users, referrers,       *)
(* rewards and sessions: its types, its inductive invariant, and that      *)
(* counters and referral balances agree with what was settled.             *)
(***************************************************************************)
EXTENDS SettlementLocks, FiniteSetTheorems, WellFoundedInduction, TLAPS

-----------------------------------------------------------------------------
(* The rows of a settlement.                                               *)

\* A settlement locks the order, its maker and its taker, and a release that
\* rewards somebody locks the referrer after them.
LEMMA PlanRows ==
  ASSUME NEW k, NEW o \in Orders
  PROVE  /\ Len(PlanFor(k, o)) \in {3, 4}
         /\ PlanFor(k, o)[1] = o
         /\ PlanFor(k, o)[2] = Maker[o]
         /\ PlanFor(k, o)[3] = Taker[o]
         /\ k = "confirm" /\ Rewarded(o) =>
               Len(PlanFor(k, o)) = 4 /\ PlanFor(k, o)[4] = Referrer[Taker[o]]
         /\ \A n \in 1..Len(PlanFor(k, o)) : PlanFor(k, o)[n] \in Rows
<1>1. /\ o \in Rows /\ Maker[o] \in Rows /\ Taker[o] \in Rows
      /\ Rewarded(o) => Referrer[Taker[o]] \in Rows
  BY LocksAssumption DEF Rows, Rewarded
<1>2. CASE k \in {"confirm", "release"} /\ Rewarded(o)
  <2>1. PlanFor(k, o) = <<o, Maker[o], Taker[o], Referrer[Taker[o]]>>
    BY <1>2 DEF PlanFor, ReleaseRows
  <2> QED
    BY <1>1, <1>2, <2>1
<1>3. CASE ~(k \in {"confirm", "release"} /\ Rewarded(o))
  <2>1. PlanFor(k, o) = <<o, Maker[o], Taker[o]>>
    BY <1>3 DEF PlanFor, ReleaseRows, RefundRows
  <2> QED
    BY <1>1, <1>3, <2>1
<1> QED
  BY <1>2, <1>3

\* The row a session waits for is a row.
LEMMA NextRowType ==
  ASSUME TypeOK, NEW s \in Sessions, More(s)
  PROVE  order[s] \in Orders /\ NextRow(s) \in Rows /\ step[s] \in 1..4
<1>1. order[s] \in Orders /\ step[s] \in 1..5
  BY DEF TypeOK, More
<1>2. Len(Plan(s)) \in {3, 4} /\ \A n \in 1..Len(Plan(s)) : Plan(s)[n] \in Rows
  BY <1>1, PlanRows DEF Plan
<1>3. step[s] \in 1..Len(Plan(s)) /\ step[s] \in 1..4
  BY <1>1, <1>2 DEF More
<1> QED
  BY <1>1, <1>2, <1>3 DEF NextRow

-----------------------------------------------------------------------------
(* Parts of the invariant that a step leaves alone.                        *)

\* The counters and balances depend on the tables only.
LEMMA TablesUnchanged ==
  ASSUME IInv, UNCHANGED tableVars
  PROVE  TradesAreSettlements' /\ BalanceFollowsRewards'
<1>1. \A u \in Users : Completed(u)' = Completed(u)
  BY DEF Completed, tableVars
<1> QED
  BY <1>1 DEF IInv, TradesAreSettlements, BalanceFollowsRewards, tableVars

\* A session that is none of s's business keeps what it relies on, when s takes
\* free rows or leaves its own, and changes no row that another one locked.
LEMMA OthersKeep ==
  ASSUME IInv, NEW s \in Sessions, NEW t \in Sessions \ {s},
         op'[t] = op[t], order'[t] = order[t], step'[t] = step[t],
         left'[t] = left[t], read'[t] = read[t],
         \A r \in Rows : lock[r] = t <=> lock'[r] = t,
         \A o \in Orders : lock[o] = t => status'[o] = status[o],
         \A u \in Users : lock[u] = t => trades'[u] = trades[u] /\ balance'[u] = balance[u]
  PROVE  SessionInFlight(t)'
<1>1. SessionInFlight(t)
  BY DEF IInv, InFlight
<1>2. Plan(t)' = Plan(t)
  BY DEF Plan
<1>3. ASSUME op[t] \in {"confirm", "release", "refund"}
      PROVE  /\ order[t] \in Orders
             /\ Len(Plan(t)) \in {3, 4} /\ Plan(t)[1] = order[t]
             /\ \A n \in 1..Len(Plan(t)) : Plan(t)[n] \in Rows
  <2>1. order[t] \in Orders
    BY <1>1, <1>3 DEF SessionInFlight
  <2> QED
    BY <2>1, PlanRows DEF Plan
<1>4. op[t] = "none" => /\ order'[t] = NoOrder /\ left'[t] = {} /\ step'[t] = 1
                        /\ \A r \in Rows : lock'[r] # t
  BY <1>1 DEF SessionInFlight
<1>5. ASSUME op[t] \in {"confirm", "release", "refund"}
      PROVE  /\ order'[t] \in Orders
             /\ \A k \in 1..Len(Plan(t)') : k < step'[t] => lock'[Plan(t)'[k]] = t
  BY <1>1, <1>2, <1>3, <1>5 DEF SessionInFlight
<1>6. ASSUME op[t] = "confirm", step[t] > 1
      PROVE  status'[order'[t]] = "escrow_held"
  <2>1. lock[order[t]] = t
    BY <1>1, <1>3, <1>6 DEF SessionInFlight
  <2> QED
    BY <1>1, <1>3, <1>6, <2>1 DEF SessionInFlight
<1>7. \A u \in Users : lock'[u] = t =>
         read'[t][u] = [trades |-> trades'[u], balance |-> balance'[u]]
  BY <1>1 DEF SessionInFlight, Rows
<1> QED
  BY <1>4, <1>5, <1>6, <1>7 DEF SessionInFlight

\* A session that has ended holds no row and no order.
LEMMA EndedIsIdle ==
  ASSUME TypeOK, NEW s \in Sessions, Ends(s)
  PROVE  /\ SessionInFlight(s)'
         /\ \A t \in Sessions \ {s} :
               /\ op'[t] = op[t] /\ order'[t] = order[t] /\ step'[t] = step[t]
               /\ left'[t] = left[t] /\ read'[t] = read[t]
               /\ \A r \in Rows : lock[r] = t <=> lock'[r] = t
         /\ lock' \in [Rows -> Sessions \cup {NoSession}]
         /\ op' \in [Sessions -> Ops]
         /\ order' \in [Sessions -> Orders \cup {NoOrder}]
         /\ step' \in [Sessions -> 1..5]
         /\ read' \in [Sessions -> [Users -> UserRows]]
         /\ left' \in [Sessions -> SUBSET Orders]
<1> USE LocksAssumption DEF Ends, TypeOK
<1>1. lock' = [r \in Rows |-> IF lock[r] = s THEN NoSession ELSE lock[r]]
  BY DEF UnlockedBy
<1>2. /\ op'[s] = "none" /\ order'[s] = NoOrder /\ left'[s] = {} /\ step'[s] = 1
      /\ \A r \in Rows : lock'[r] # s
  BY <1>1
<1>3. SessionInFlight(s)'
  BY <1>2 DEF SessionInFlight, Rows
<1>4. NothingRead \in [Users -> UserRows]
  BY DEF NothingRead, UserRows
<1>5. /\ op' \in [Sessions -> Ops] /\ step' \in [Sessions -> 1..5]
      /\ lock' \in [Rows -> Sessions \cup {NoSession}]
  BY <1>1 DEF Ops
<1>6. read' \in [Sessions -> [Users -> UserRows]]
  BY <1>4
<1>7. ASSUME NEW t \in Sessions \ {s}
      PROVE  /\ op'[t] = op[t] /\ order'[t] = order[t] /\ step'[t] = step[t]
             /\ left'[t] = left[t] /\ read'[t] = read[t]
             /\ \A r \in Rows : lock[r] = t <=> lock'[r] = t
  BY <1>1
<1>8. order' \in [Sessions -> Orders \cup {NoOrder}] /\ left' \in [Sessions -> SUBSET Orders]
  OBVIOUS
<1> QED
  BY <1>3, <1>5, <1>6, <1>7, <1>8

\* A session that ends without a write keeps the invariant.
LEMMA EndsPreserves ==
  ASSUME IInv, NEW s \in Sessions, Ends(s), UNCHANGED tableVars PROVE IInv'
<1>1. TypeOK'
  BY EndedIsIdle DEF IInv, TypeOK, tableVars
<1>2. \A t \in Sessions : SessionInFlight(t)'
  BY EndedIsIdle, OthersKeep DEF IInv, tableVars
<1>3. InFlight'
  BY <1>2 DEF InFlight
<1> QED
  BY <1>1, <1>3, TablesUnchanged DEF IInv

-----------------------------------------------------------------------------
(* The steps that write or lock.                                           *)

\* Rounding to the column moves an amount by at most half a unit.
LEMMA RoundedIsNear ==
  ASSUME NEW x \in Nat
  PROVE  /\ Rounded(x) \in Nat
         /\ 2 * (Rounded(x) - x) <= Scale
         /\ 2 * (x - Rounded(x)) <= Scale
<1> DEFINE r == x % Scale
<1>1. r \in Nat /\ r < Scale /\ r <= x /\ Scale \in Nat
  BY LocksAssumption
<1>2. Rounded(x) = x - r + (IF 2 * r >= Scale THEN Scale ELSE 0)
  BY DEF Rounded
<1> HIDE DEF r
<1> QED
  BY <1>1, <1>2

\* When everything is locked, the confirming session holds the rows it writes,
\* has read them as they are, and its trade is still open.
LEMMA ReadyToCommit ==
  ASSUME IInv, NEW s \in Sessions, op[s] = "confirm", ~More(s)
  PROVE  /\ order[s] \in Orders /\ status[order[s]] = "escrow_held"
         /\ \A u \in Users : Party(order[s], u) =>
               lock[u] = s /\ read[s][u].trades = trades[u]
         /\ Rewarded(order[s]) =>
               LET u == Referrer[Taker[order[s]]]
               IN  u \in Users /\ lock[u] = s /\ read[s][u].balance = balance[u]
<1> USE LocksAssumption
<1>1. SessionInFlight(s) /\ TypeOK
  BY DEF IInv, InFlight
<1>2. order[s] \in Orders
  BY <1>1 DEF SessionInFlight
<1> DEFINE o == order[s]
           n == Len(Plan(s))
<1>3. /\ n \in {3, 4} /\ Plan(s)[1] = o /\ Plan(s)[2] = Maker[o] /\ Plan(s)[3] = Taker[o]
      /\ Rewarded(o) => n = 4 /\ Plan(s)[4] = Referrer[Taker[o]]
  BY <1>2, PlanRows DEF Plan
<1>4. n < step[s] /\ step[s] \in 1..5
  BY <1>1, <1>2, <1>3 DEF More, TypeOK
<1>5. \A k \in 1..n : lock[Plan(s)[k]] = s
  BY <1>1, <1>4, <1>3 DEF SessionInFlight
<1>6. lock[Maker[o]] = s /\ lock[Taker[o]] = s
  <2>1. 2 \in 1..n /\ 3 \in 1..n
    <3> HIDE DEF n
    <3> QED BY <1>3
  <2>2. lock[Plan(s)[2]] = s /\ lock[Plan(s)[3]] = s
    BY <1>5, <2>1
  <2> QED
    BY <1>3, <2>2, Zenon
<1>7. Rewarded(o) => Referrer[Taker[o]] \in Users /\ lock[Referrer[Taker[o]]] = s
  <2> SUFFICES ASSUME Rewarded(o)
               PROVE  Referrer[Taker[o]] \in Users /\ lock[Referrer[Taker[o]]] = s
    OBVIOUS
  <2>1. Referrer[Taker[o]] \in Users
    BY <1>2 DEF Rewarded
  <2>2. 4 \in 1..n
    <3> HIDE DEF n
    <3> QED BY <1>3
  <2>3. lock[Plan(s)[4]] = s
    BY <1>5, <2>2
  <2> QED
    BY <1>3, <2>1, <2>3, Zenon
<1>8. status[o] = "escrow_held"
  BY <1>1, <1>3, <1>4 DEF SessionInFlight
<1>9. ASSUME NEW u \in Users, lock[u] = s
      PROVE  read[s][u].trades = trades[u] /\ read[s][u].balance = balance[u]
  <2>1. read[s][u] = [trades |-> trades[u], balance |-> balance[u]]
    BY <1>1, <1>9 DEF SessionInFlight
  <2> QED
    BY <2>1
<1>10. Maker[o] \in Users /\ Taker[o] \in Users
  BY <1>2
<1>11. \A u \in Users : Party(o, u) => lock[u] = s /\ read[s][u].trades = trades[u]
  BY <1>6, <1>9, <1>10 DEF Party
<1>12. Rewarded(o) =>
          LET u == Referrer[Taker[o]]
          IN  u \in Users /\ lock[u] = s /\ read[s][u].balance = balance[u]
  BY <1>7, <1>9
<1> QED
  BY <1>2, <1>8, <1>11, <1>12

\* What the commit makes of the tables, in their own terms.
Gets(o, u) == Rewarded(o) /\ u = Referrer[Taker[o]]

LEMMA CommitEffect ==
  ASSUME IInv, NEW s \in Sessions, Commit(s)
  PROVE  LET o == order[s]
         IN  /\ o \in Orders /\ status[o] = "escrow_held"
             /\ \A u \in Users : Party(o, u) \/ Gets(o, u) => lock[u] = s
             /\ status' = [status EXCEPT ![o] = "completed"]
             /\ trades' = [u \in Users |-> IF Party(o, u) THEN trades[u] + 1 ELSE trades[u]]
             /\ balance' = [u \in Users |-> IF Gets(o, u) THEN Rounded(balance[u] + Reward[o])
                                                         ELSE balance[u]]
             /\ rewards' = [u \in Users |->
                              IF Gets(o, u)
                              THEN [n |-> rewards[u].n + 1, sum |-> rewards[u].sum + Reward[o]]
                              ELSE rewards[u]]
             /\ Ends(s)
<1> DEFINE o == order[s]
<1>1. /\ o \in Orders /\ status[o] = "escrow_held"
      /\ \A u \in Users : Party(o, u) => lock[u] = s /\ read[s][u].trades = trades[u]
      /\ \A u \in Users : Gets(o, u) => lock[u] = s /\ read[s][u].balance = balance[u]
  BY ReadyToCommit DEF Commit, Gets
<1>2. /\ status' = [status EXCEPT ![o] = "completed"]
      /\ trades' = [u \in Users |-> IF Party(o, u) THEN trades[u] + 1 ELSE trades[u]]
      /\ balance' = [u \in Users |-> IF Gets(o, u) THEN Rounded(balance[u] + Reward[o])
                                                  ELSE balance[u]]
      /\ rewards' = [u \in Users |->
                       IF Gets(o, u)
                       THEN [n |-> rewards[u].n + 1, sum |-> rewards[u].sum + Reward[o]]
                       ELSE rewards[u]]
      /\ Ends(s)
  BY <1>1 DEF Commit, Gets
<1> QED
  BY <1>1, <1>2

\* The commit counts one more completed trade of each party, and one more
\* reward of the referrer.
LEMMA CommitPreserves == ASSUME IInv, NEW s \in Sessions, Commit(s) PROVE IInv'
<1> USE LocksAssumption
<1> DEFINE o == order[s]
           gets(u) == Gets(o, u)
<1>1. /\ o \in Orders /\ status[o] = "escrow_held"
      /\ \A u \in Users : Party(o, u) \/ gets(u) => lock[u] = s
  BY CommitEffect
<1>2. /\ status' = [status EXCEPT ![o] = "completed"]
      /\ trades' = [u \in Users |-> IF Party(o, u) THEN trades[u] + 1 ELSE trades[u]]
      /\ balance' = [u \in Users |-> IF gets(u) THEN Rounded(balance[u] + Reward[o])
                                                ELSE balance[u]]
      /\ rewards' = [u \in Users |->
                       IF gets(u)
                       THEN [n |-> rewards[u].n + 1, sum |-> rewards[u].sum + Reward[o]]
                       ELSE rewards[u]]
      /\ Ends(s)
  BY CommitEffect
<1>3. lock[o] = s
  <2>1. SessionInFlight(s) /\ step[s] \in 1..5 /\ Len(Plan(s)) \in {3, 4} /\ Plan(s)[1] = o
    BY <1>1, PlanRows DEF IInv, InFlight, TypeOK, Plan
  <2>2. 1 < step[s]
    BY <2>1, <1>1 DEF Commit, More
  <2> QED
    BY <2>1, <2>2 DEF Commit, SessionInFlight
<1> HIDE DEF o, gets
<1>4. \A u \in Users : balance[u] + Reward[o] \in Nat
  BY <1>1 DEF IInv, TypeOK
<1>5. \A u \in Users : Rounded(balance[u] + Reward[o]) \in Nat
  BY <1>4, RoundedIsNear
<1>6. TypeOK'
  <2>1. status' \in [Orders -> Statuses]
    BY <1>2 DEF IInv, TypeOK, Statuses
  <2>2. trades' \in [Users -> Nat] /\ balance' \in [Users -> Nat]
    BY <1>2, <1>5 DEF IInv, TypeOK
  <2>3. rewards' \in [Users -> [n: Nat, sum: Nat]]
    BY <1>1, <1>2 DEF IInv, TypeOK
  <2> QED
    BY <2>1, <2>2, <2>3, <1>2, EndedIsIdle DEF IInv, TypeOK
<1>7. TradesAreSettlements'
  <2> SUFFICES ASSUME NEW u \in Users
               PROVE  trades'[u] = Cardinality(Completed(u)')
    BY DEF TradesAreSettlements
  <2>1. IsFiniteSet(Completed(u)) /\ o \notin Completed(u)
    <3>1. Completed(u) \subseteq Orders
      BY DEF Completed
    <3> QED
      BY <3>1, FS_Subset, <1>1 DEF Completed
  <2>2. trades[u] = Cardinality(Completed(u))
    BY DEF IInv, TradesAreSettlements
  <2>3. CASE Party(o, u)
    <3>1. Completed(u)' = Completed(u) \cup {o}
      BY <2>3, <1>1, <1>2 DEF IInv, TypeOK, Completed
    <3>2. Cardinality(Completed(u) \cup {o}) = Cardinality(Completed(u)) + 1
      BY <2>1, FS_AddElement
    <3>3. trades'[u] = trades[u] + 1
      BY <2>3, <1>2
    <3> QED
      BY <3>1, <3>2, <3>3, <2>2
  <2>4. CASE ~Party(o, u)
    <3>1. Completed(u)' = Completed(u)
      BY <2>4, <1>1, <1>2 DEF IInv, TypeOK, Completed
    <3> QED
      BY <3>1, <2>2, <2>4, <1>2
  <2> QED
    BY <2>3, <2>4
<1>8. BalanceFollowsRewards'
  <2> SUFFICES ASSUME NEW u \in Users
               PROVE  /\ 2 * (balance'[u] - rewards'[u].sum) <= Scale * rewards'[u].n
                      /\ (-2) * (balance'[u] - rewards'[u].sum) <= Scale * rewards'[u].n
    BY DEF BalanceFollowsRewards
  <2> DEFINE b == balance[u]
             m == rewards[u].sum
             n == rewards[u].n
  <2>1. 2 * (b - m) <= Scale * n /\ (-2) * (b - m) <= Scale * n
    BY DEF IInv, BalanceFollowsRewards
  <2>2. b \in Nat /\ m \in Nat /\ n \in Nat /\ Reward[o] \in Nat
    BY <1>1 DEF IInv, TypeOK
  <2>3. CASE gets(u)
    <3>1. /\ balance'[u] = Rounded(b + Reward[o])
          /\ rewards'[u].sum = m + Reward[o] /\ rewards'[u].n = n + 1
      BY <2>3, <1>2
    <3>2. /\ 2 * (Rounded(b + Reward[o]) - (b + Reward[o])) <= Scale
          /\ 2 * ((b + Reward[o]) - Rounded(b + Reward[o])) <= Scale
          /\ Rounded(b + Reward[o]) \in Nat
      BY <2>2, RoundedIsNear
    <3>3. Scale * (n + 1) = Scale * n + Scale /\ Scale * n \in Nat
      BY <2>2
    <3> HIDE DEF b, m, n
    <3> QED
      BY <2>1, <2>2, <3>1, <3>2, <3>3
  <2>4. CASE ~gets(u)
    BY <2>1, <2>4, <1>2
  <2> QED
    BY <2>3, <2>4
<1>9. \A t \in Sessions : SessionInFlight(t)'
  <2>1. SessionInFlight(s)'
    BY <1>2, EndedIsIdle DEF IInv
  <2>2. ASSUME NEW t \in Sessions \ {s} PROVE SessionInFlight(t)'
    <3>1. \A q \in Orders : lock[q] = t => status'[q] = status[q]
      BY <1>2, <1>3 DEF IInv, TypeOK
    <3>2. \A u \in Users : lock[u] = t => trades'[u] = trades[u] /\ balance'[u] = balance[u]
      BY <1>1, <1>2
    <3> QED
      BY <3>1, <3>2, <1>2, EndedIsIdle, OthersKeep DEF IInv
  <2> QED
    BY <2>1, <2>2
<1>10. InFlight'
  BY <1>9 DEF InFlight
<1> QED
  BY <1>6, <1>7, <1>8, <1>10 DEF IInv

\* The lock of an order's row: its status has just been checked.
LEMMA LockOrderPreserves == ASSUME IInv, NEW s \in Sessions, LockOrder(s) PROVE IInv'
<1> USE LocksAssumption
<1>1. TypeOK /\ SessionInFlight(s) /\ More(s)
  BY DEF IInv, InFlight, LockOrder
<1>2. order[s] \in Orders /\ NextRow(s) \in Orders /\ step[s] \in 1..4
  BY <1>1, NextRowType DEF LockOrder
<1>3. /\ Len(Plan(s)) \in {3, 4} /\ Plan(s)[1] = order[s]
      /\ Plan(s)[2] \in Users /\ Plan(s)[3] \in Users
      /\ op[s] = "confirm" /\ Len(Plan(s)) = 4 => Plan(s)[4] \in Users
      /\ \A k \in 1..Len(Plan(s)) : Plan(s)[k] \in Rows
  <2>1. CASE Rewarded(order[s])
    BY <2>1, <1>2, PlanRows DEF Plan, Rewarded
  <2>2. CASE ~Rewarded(order[s])
    <3>1. Plan(s) = <<order[s], Maker[order[s]], Taker[order[s]]>>
      BY <2>2 DEF Plan, PlanFor, ReleaseRows, RefundRows
    <3> QED
      BY <3>1, <1>2, PlanRows DEF Plan
  <2> QED
    BY <2>1, <2>2
<1>4. /\ lock' = [lock EXCEPT ![NextRow(s)] = s] /\ lock[NextRow(s)] \in {NoSession, s}
      /\ step' = [step EXCEPT ![s] = step[s] + 1]
      /\ UNCHANGED <<tableVars, op, order, read, left>>
  BY DEF LockOrder, Free
<1>5. NextRow(s) \in Rows /\ NextRow(s) \notin Users
  BY <1>2 DEF Rows
<1>6. op[s] = "confirm" => NextRow(s) = order[s] /\ status[order[s]] = "escrow_held"
  <2>1. ASSUME op[s] = "confirm" PROVE NextRow(s) = order[s]
    BY <2>1, <1>1, <1>2, <1>3, <1>5 DEF NextRow, More
  <2> QED
    BY <2>1 DEF LockOrder, Accepted
<1>7. op[s] # "none"
  BY <1>1, <1>2 DEF SessionInFlight
<1>8. TypeOK'
  BY <1>1, <1>2, <1>4, <1>5 DEF TypeOK, tableVars
<1>9. SessionInFlight(s)'
  <2>1. Plan(s)' = Plan(s)
    BY <1>4 DEF Plan
  <2>2. ASSUME op[s] \in {"confirm", "release", "refund"},
               NEW k \in 1..Len(Plan(s)), k < step'[s]
        PROVE  lock'[Plan(s)[k]] = s
    <3>1. k < step[s] \/ k = step[s]
      <4>1. step \in [Sessions -> 1..5]
        BY <1>1 DEF TypeOK
      <4>2. step'[s] = step[s] + 1 /\ step[s] \in Nat
        <5>1. step' = [step EXCEPT ![s] = step[s] + 1]
          BY <1>4
        <5> QED
          BY <4>1, <5>1
      <4>3. Len(Plan(s)) \in Nat
        BY <1>3
      <4> QED
        BY <2>2, <4>2, <4>3
    <3>2. Plan(s)[k] = NextRow(s) \/ lock[Plan(s)[k]] = s
      BY <3>1, <2>2, <1>1 DEF SessionInFlight, NextRow
    <3>3. Plan(s)[k] \in Rows /\ lock \in [Rows -> Sessions \cup {NoSession}]
      BY <1>1, <1>3 DEF TypeOK
    <3> QED
      BY <3>2, <3>3, <1>4
  <2>3. \A u \in Users : lock'[u] = s =>
           read'[s][u] = [trades |-> trades'[u], balance |-> balance'[u]]
    BY <1>1, <1>4, <1>5 DEF SessionInFlight, TypeOK, tableVars, Rows
  <2>4. op[s] = "confirm" => status'[order[s]] = "escrow_held"
    BY <1>4, <1>6 DEF tableVars
  <2>5. op'[s] = op[s] /\ order'[s] = order[s]
    BY <1>4
  <2>6. op'[s] \in {"confirm", "release", "refund"} =>
          /\ order'[s] \in Orders
          /\ \A k \in 1..Len(Plan(s)') : k < step'[s] => lock'[Plan(s)'[k]] = s
    BY <2>1, <2>2, <2>5, <1>2
  <2> QED
    BY <2>3, <2>4, <2>5, <2>6, <1>7 DEF SessionInFlight
<1>10. \A t \in Sessions \ {s} : SessionInFlight(t)'
  BY <1>1, <1>4, <1>5, OthersKeep DEF TypeOK, tableVars
<1>11. InFlight'
  BY <1>9, <1>10 DEF InFlight
<1> QED
  BY <1>4, <1>8, <1>11, TablesUnchanged DEF IInv

\* The lock of a users row, which reads it.
LEMMA LockUserPreserves == ASSUME IInv, NEW s \in Sessions, LockUser(s) PROVE IInv'
<1> USE LocksAssumption
<1> DEFINE v == NextRow(s)
           row == IF lock[v] = s THEN read[s][v]
                  ELSE [trades |-> trades[v], balance |-> balance[v]]
<1>1. TypeOK /\ SessionInFlight(s) /\ More(s)
  BY DEF IInv, InFlight, LockUser
<1>2. order[s] \in Orders /\ v \in Users /\ step[s] \in 1..4
  BY <1>1, NextRowType DEF LockUser
<1>3. Len(Plan(s)) \in {3, 4} /\ Plan(s)[1] = order[s]
      /\ \A k \in 1..Len(Plan(s)) : Plan(s)[k] \in Rows
  BY <1>2, PlanRows DEF Plan
<1>4. /\ lock' = [lock EXCEPT ![v] = s] /\ lock[v] \in {NoSession, s}
      /\ step' = [step EXCEPT ![s] = step[s] + 1]
      /\ read' = [read EXCEPT ![s][v] = row]
      /\ UNCHANGED <<tableVars, op, order, left>>
  BY DEF LockUser, Free
<1>5. row = [trades |-> trades[v], balance |-> balance[v]] /\ row \in UserRows
  BY <1>1, <1>2 DEF SessionInFlight, TypeOK, UserRows
<1>6. v \in Rows /\ v # order[s]
  BY <1>2 DEF Rows
<1>7. op[s] # "none"
  BY <1>1, <1>2 DEF SessionInFlight
<1>8. step[s] > 1
  BY <1>1, <1>2, <1>3, <1>6 DEF NextRow, TypeOK
<1>9. Plan(s)[step[s]] = v
  BY DEF NextRow
<1> HIDE DEF row, v
<1>10. TypeOK'
  <2>1. read' \in [Sessions -> [Users -> UserRows]]
    BY <1>1, <1>2, <1>4, <1>5 DEF TypeOK
  <2> QED
    BY <2>1, <1>1, <1>2, <1>4, <1>6 DEF TypeOK, tableVars
<1>11. SessionInFlight(s)'
  <2>1. Plan(s)' = Plan(s)
    BY <1>4 DEF Plan
  <2>2. ASSUME op[s] \in {"confirm", "release", "refund"},
               NEW k \in 1..Len(Plan(s)), k < step'[s]
        PROVE  lock'[Plan(s)[k]] = s
    <3>1. k < step[s] \/ k = step[s]
      <4>1. step \in [Sessions -> 1..5]
        BY <1>1 DEF TypeOK
      <4>2. step'[s] = step[s] + 1 /\ step[s] \in Nat
        <5>1. step' = [step EXCEPT ![s] = step[s] + 1]
          BY <1>4
        <5> QED
          BY <4>1, <5>1
      <4>3. Len(Plan(s)) \in Nat
        BY <1>3
      <4> QED
        BY <2>2, <4>2, <4>3
    <3>2. Plan(s)[k] = v \/ lock[Plan(s)[k]] = s
      BY <3>1, <2>2, <1>1, <1>9 DEF SessionInFlight
    <3>3. Plan(s)[k] \in Rows /\ lock \in [Rows -> Sessions \cup {NoSession}]
      BY <1>1, <1>3 DEF TypeOK
    <3> QED
      BY <3>2, <3>3, <1>4
  <2>3. \A u \in Users : lock'[u] = s =>
           read'[s][u] = [trades |-> trades'[u], balance |-> balance'[u]]
    <3>1. ASSUME NEW u \in Users, lock'[u] = s, u # v
          PROVE  lock[u] = s /\ read'[s][u] = read[s][u]
      BY <3>1, <1>1, <1>2, <1>4, <1>6 DEF TypeOK, Rows
    <3>2. read'[s][v] = row
      BY <1>1, <1>2, <1>4 DEF TypeOK
    <3> QED
      BY <3>1, <3>2, <1>1, <1>4, <1>5 DEF SessionInFlight, tableVars
  <2>4. op'[s] = op[s] /\ order'[s] = order[s]
    BY <1>4
  <2>5. op[s] = "confirm" => status'[order[s]] = "escrow_held"
    BY <1>1, <1>4, <1>8 DEF SessionInFlight, tableVars
  <2>6. op'[s] \in {"confirm", "release", "refund"} =>
          /\ order'[s] \in Orders
          /\ \A k \in 1..Len(Plan(s)') : k < step'[s] => lock'[Plan(s)'[k]] = s
    BY <2>1, <2>2, <2>4, <1>2
  <2> QED
    BY <2>3, <2>4, <2>5, <2>6, <1>7 DEF SessionInFlight
<1>12. \A t \in Sessions \ {s} : SessionInFlight(t)'
  <2> SUFFICES ASSUME NEW t \in Sessions \ {s} PROVE SessionInFlight(t)'
    OBVIOUS
  <2>1. read'[t] = read[t] /\ step'[t] = step[t]
    BY <1>1, <1>4 DEF TypeOK
  <2>2. \A r \in Rows : lock[r] = t <=> lock'[r] = t
    BY <1>1, <1>4, <1>6 DEF TypeOK
  <2> QED
    BY <2>1, <2>2, <1>4, OthersKeep DEF tableVars
<1>13. InFlight'
  BY <1>11, <1>12 DEF InFlight
<1> QED
  BY <1>4, <1>10, <1>13, TablesUnchanged DEF IInv

\* A session that locks and writes nothing in a step keeps what the others and
\* the tables say, as long as its own part holds afterwards.
LEMMA LocalPreserves ==
  ASSUME IInv, NEW s \in Sessions, UNCHANGED <<tableVars, lock, read>>, TypeOK',
         SessionInFlight(s)',
         \A t \in Sessions \ {s} : /\ op'[t] = op[t] /\ order'[t] = order[t]
                                   /\ step'[t] = step[t] /\ left'[t] = left[t]
  PROVE  IInv'
<1>1. \A t \in Sessions \ {s} : SessionInFlight(t)'
  BY OthersKeep DEF tableVars
<1>2. InFlight'
  BY <1>1 DEF InFlight
<1> QED
  BY <1>2, TablesUnchanged DEF IInv

\* A transfer that raises under the lock of the order.
LEMMA TransferFailsPreserves ==
  ASSUME IInv, NEW s \in Sessions, TransferFails(s) PROVE IInv'
<1> USE LocksAssumption
<1>1. TypeOK /\ SessionInFlight(s) /\ order[s] \in Orders /\ step[s] = 2
  BY DEF IInv, InFlight, TypeOK, TransferFails
<1>2. CASE op[s] = "sweep"
  <2>1. /\ order' = [order EXCEPT ![s] = NoOrder]
        /\ UNCHANGED <<tableVars, lock, op, step, read, left>>
    BY <1>2 DEF TransferFails
  <2>2. TypeOK'
    BY <1>1, <2>1 DEF TypeOK, tableVars
  <2>3. SessionInFlight(s)'
    BY <1>1, <1>2, <2>1 DEF SessionInFlight, tableVars
  <2>4. \A t \in Sessions \ {s} : order'[t] = order[t]
    BY <1>1, <2>1 DEF TypeOK
  <2> QED
    BY <2>1, <2>2, <2>3, <2>4, LocalPreserves
<1>3. CASE op[s] = "confirm"
  <2>1. /\ status' = [status EXCEPT ![order[s]] = "dispute"] /\ Ends(s)
        /\ UNCHANGED <<trades, balance, rewards>>
    BY <1>3 DEF TransferFails
  <2>2. lock[order[s]] = s /\ status[order[s]] = "escrow_held"
    BY <1>1, <1>3, PlanRows DEF SessionInFlight, Plan
  <2>3. TypeOK'
    BY <1>1, <2>1, EndedIsIdle DEF TypeOK, Statuses
  <2>4. \A u \in Users : Completed(u)' = Completed(u)
    BY <1>1, <2>1, <2>2 DEF TypeOK, Completed
  <2>5. TradesAreSettlements' /\ BalanceFollowsRewards'
    BY <2>1, <2>4 DEF IInv, TradesAreSettlements, BalanceFollowsRewards
  <2>6. \A t \in Sessions \ {s} : SessionInFlight(t)'
    <3>1. ASSUME NEW t \in Sessions \ {s}, NEW o \in Orders, lock[o] = t
          PROVE  status'[o] = status[o]
      BY <3>1, <1>1, <2>1, <2>2 DEF TypeOK
    <3> QED
      BY <3>1, <1>1, <2>1, EndedIsIdle, OthersKeep
  <2>7. SessionInFlight(s)'
    BY <1>1, <2>1, EndedIsIdle
  <2>8. InFlight'
    BY <2>6, <2>7 DEF InFlight
  <2> QED
    BY <2>3, <2>5, <2>8 DEF IInv
<1>4. CASE op[s] \notin {"sweep", "confirm"}
  BY <1>4, EndsPreserves DEF TransferFails, tableVars
<1> QED
  BY <1>2, <1>3, <1>4

-----------------------------------------------------------------------------
(* The steps that only touch a session, or a row nobody holds.             *)

\* A handler begins a settlement: it has locked nothing yet.
LEMMA BeginPreserves ==
  ASSUME IInv, NEW s \in Sessions, NEW k \in {"confirm", "release", "refund"},
         NEW o \in Orders, Begin(s, k, o)
  PROVE  IInv'
<1>1. TypeOK /\ SessionInFlight(s) /\ op[s] = "none"
  BY DEF IInv, InFlight, Begin
<1>2. /\ op' = [op EXCEPT ![s] = k] /\ order' = [order EXCEPT ![s] = o]
      /\ UNCHANGED <<tableVars, lock, step, read, left>>
  BY DEF Begin
<1>3. TypeOK'
  BY <1>1, <1>2 DEF TypeOK, Ops, tableVars
<1>4. step[s] = 1 /\ \A r \in Rows : lock[r] # s
  BY <1>1 DEF SessionInFlight
<1>5. op'[s] = k /\ order'[s] = o /\ step'[s] = 1
  BY <1>1, <1>2, <1>4 DEF TypeOK
<1>6. Len(Plan(s)') \in {3, 4}
  BY <1>5, PlanRows DEF Plan
<1>7. SessionInFlight(s)'
  BY <1>2, <1>4, <1>5, <1>6 DEF SessionInFlight, Rows
<1> QED
  BY <1>1, <1>2, <1>3, <1>7, LocalPreserves DEF TypeOK

\* The sweep loads its trades, or goes on with the next.
LEMMA SweepPreserves ==
  ASSUME IInv,
         (\E S \in SUBSET Orders : SweepBegin(S)) \/ (\E o \in Orders : SweepNext(o))
  PROVE  IInv'
<1> USE LocksAssumption
<1>1. TypeOK /\ SessionInFlight(Sweeper)
  BY DEF IInv, InFlight
<1>2. CASE \E S \in SUBSET Orders : SweepBegin(S)
  <2>1. PICK S \in SUBSET Orders : SweepBegin(S)
    BY <1>2
  <2>2. TypeOK'
    BY <1>1, <2>1 DEF SweepBegin, TypeOK, Ops, tableVars
  <2>3. SessionInFlight(Sweeper)'
    BY <1>1, <2>1 DEF SweepBegin, SessionInFlight, TypeOK, tableVars, Rows
  <2> QED
    BY <1>1, <2>1, <2>2, <2>3, LocalPreserves DEF SweepBegin, TypeOK
<1>3. CASE \E o \in Orders : SweepNext(o)
  <2>1. PICK o \in Orders : SweepNext(o)
    BY <1>3
  <2>2. TypeOK'
    BY <1>1, <2>1 DEF SweepNext, TypeOK, tableVars
  <2>3. SessionInFlight(Sweeper)'
    BY <1>1, <2>1 DEF SweepNext, SessionInFlight, TypeOK, tableVars, Rows
  <2> QED
    BY <1>1, <2>1, <2>2, <2>3, LocalPreserves DEF SweepNext, TypeOK
<1> QED
  BY <1>2, <1>3

\* A dispute is raised on a row nobody has locked.
LEMMA RaisePreserves == ASSUME IInv, NEW o \in Orders, RaiseDispute(o) PROVE IInv'
<1> USE LocksAssumption
<1>1. /\ status' = [status EXCEPT ![o] = "dispute"]
      /\ status[o] = "escrow_held" /\ lock[o] = NoSession
      /\ UNCHANGED <<trades, balance, rewards, lock, op, order, step, read, left>>
  BY DEF RaiseDispute
<1>2. TypeOK'
  BY <1>1 DEF IInv, TypeOK, Statuses
<1>3. \A u \in Users : Completed(u)' = Completed(u)
  BY <1>1 DEF IInv, TypeOK, Completed
<1>4. TradesAreSettlements' /\ BalanceFollowsRewards'
  BY <1>1, <1>3 DEF IInv, TradesAreSettlements, BalanceFollowsRewards
<1>5. ASSUME NEW t \in Sessions PROVE SessionInFlight(t)'
  <2>1. SessionInFlight(t) /\ t # NoSession /\ Plan(t)' = Plan(t)
    BY <1>1 DEF IInv, InFlight, Plan
  <2>2. ASSUME op[t] = "confirm", step[t] > 1 PROVE lock[order[t]] = t /\ order[t] \in Orders
    BY <2>1, <2>2, PlanRows DEF SessionInFlight, Plan
  <2>3. op'[t] = "confirm" /\ step'[t] > 1 => status'[order'[t]] = "escrow_held"
    BY <1>1, <2>1, <2>2 DEF SessionInFlight, IInv, TypeOK
  <2> QED
    BY <1>1, <2>1, <2>3 DEF SessionInFlight
<1>6. InFlight'
  BY <1>5 DEF InFlight
<1> QED
  BY <1>2, <1>4, <1>6 DEF IInv

\* A crash leaves the tables.
LEMMA CrashPreserves == ASSUME IInv, Crash PROVE IInv'
<1> USE LocksAssumption
<1>1. TypeOK'
  BY DEF IInv, Crash, TypeOK, Ops, NothingRead, UserRows, tableVars
<1>2. InFlight'
  BY DEF Crash, InFlight, SessionInFlight, Rows
<1> QED
  BY <1>1, <1>2, TablesUnchanged DEF IInv, Crash

-----------------------------------------------------------------------------
(* The theorems.                                                           *)

\* Nothing is open and nothing was settled at the start.
LEMMA IInvInit == Init => IInv
<1> SUFFICES ASSUME Init PROVE IInv
  OBVIOUS
<1> USE LocksAssumption DEF Init
<1>1. TypeOK
  BY DEF TypeOK, Statuses, Ops, NothingRead, UserRows
<1>2. \A u \in Users : Completed(u) = {}
  BY DEF Completed
<1>3. TradesAreSettlements
  BY <1>2, FS_EmptySet DEF TradesAreSettlements
<1>4. BalanceFollowsRewards
  BY DEF BalanceFollowsRewards
<1>5. InFlight
  BY DEF InFlight, SessionInFlight, Rows
<1> QED
  BY <1>1, <1>3, <1>4, <1>5 DEF IInv

\* Every step keeps the invariant.
LEMMA IInvNext == IInv /\ [Next]_vars => IInv'
<1> SUFFICES ASSUME IInv, [Next]_vars PROVE IInv'
  OBVIOUS
<1>1. ASSUME NEW s \in Sessions, Step(s) PROVE IInv'
  <2>1. CASE Refused(s)
    BY <2>1, EndsPreserves DEF Refused
  <2>2. CASE Close(s)
    BY <2>2, EndsPreserves DEF Close
  <2> QED
    BY <1>1, <2>1, <2>2, LockOrderPreserves, LockUserPreserves, CommitPreserves,
       SweepPreserves DEF Step
<1>2. ASSUME NEW s \in Sessions, DeadlockBroken(s) PROVE IInv'
  BY <1>2, EndsPreserves DEF DeadlockBroken
<1>3. CASE UNCHANGED vars
  <2>1. TypeOK'
    BY <1>3 DEF IInv, vars, tableVars, TypeOK
  <2>2. \A s \in Sessions : SessionInFlight(s)'
    BY <1>3 DEF IInv, InFlight, vars, tableVars, SessionInFlight, Plan
  <2> QED
    BY <2>1, <2>2, <1>3, TablesUnchanged DEF IInv, InFlight, vars
<1> QED
  BY <1>1, <1>2, <1>3, BeginPreserves, TransferFailsPreserves, SweepPreserves,
     RaisePreserves, CrashPreserves DEF Next

\* The inductive invariant of settlements holds in every reachable state.
THEOREM Inductive == Spec => []IInv
<1>1. Init => IInv
  BY IInvInit
<1>2. IInv /\ [Next]_vars => IInv'
  BY IInvNext
<1> QED
  BY <1>1, <1>2, PTL DEF Spec

\* Every variable keeps its type.
THEOREM Types == Spec => []TypeOK
<1>1. IInv => TypeOK
  BY DEF IInv
<1> QED
  BY <1>1, Inductive, PTL

\* The counters of every user are the number of completed trades the user was a
\* party of, however settlements interleave, deadlock or crash.
THEOREM Counters == Spec => []TradesAreSettlements
<1>1. IInv => TradesAreSettlements
  BY DEF IInv
<1> QED
  BY <1>1, Inductive, PTL

\* A referrer's balance stays within half a unit per reward of what was earned.
THEOREM Balances == Spec => []BalanceFollowsRewards
<1>1. IInv => BalanceFollowsRewards
  BY DEF IInv
<1> QED
  BY <1>1, Inductive, PTL

-----------------------------------------------------------------------------
(* Settlements are as if made one after the other.                         *)

LEMMA BookInit == Init => Book!Init
  BY DEF Init, Book!Init

\* A commit is one settlement of Ledger.
LEMMA CommitSettles ==
  ASSUME IInv, NEW s \in Sessions, Commit(s) PROVE Book!Settle(order[s])
<1> DEFINE o == order[s]
<1>1. /\ o \in Orders /\ status[o] = "escrow_held"
      /\ status' = [status EXCEPT ![o] = "completed"]
      /\ trades' = [u \in Users |-> IF Party(o, u) THEN trades[u] + 1 ELSE trades[u]]
      /\ balance' = [u \in Users |-> IF Gets(o, u) THEN Rounded(balance[u] + Reward[o])
                                                  ELSE balance[u]]
      /\ rewards' = [u \in Users |->
                       IF Gets(o, u)
                       THEN [n |-> rewards[u].n + 1, sum |-> rewards[u].sum + Reward[o]]
                       ELSE rewards[u]]
  BY CommitEffect
<1>2. Reward[o] \in Nat /\ \A u \in Users : balance[u] \in Nat /\ u # NoUser
  BY <1>1, LocksAssumption DEF IInv, TypeOK
<1> HIDE DEF o
<1>3. \A u \in Users : Gets(o, u) <=> u \in Book!Earners(o)
  BY <1>2 DEF Gets, Rewarded, Book!Earners
<1>4. \A u \in Users : Party(o, u) <=> u \in {Maker[o], Taker[o]}
  BY DEF Party
<1>5. ASSUME NEW u \in Users
      PROVE  /\ Rounded(balance[u] + Reward[o]) \in Nat
             /\ Book!Near(Rounded(balance[u] + Reward[o]), balance[u] + Reward[o])
  <2>1. balance[u] + Reward[o] \in Nat
    BY <1>2
  <2> QED
    BY <2>1, RoundedIsNear DEF Book!Near
<1>6. balance' \in [Users -> Nat]
  BY <1>1, <1>2, <1>5
<1>7. \A u \in Users : IF u \in Book!Earners(o)
                       THEN Book!Near(balance'[u], balance[u] + Reward[o])
                       ELSE balance'[u] = balance[u]
  BY <1>1, <1>3, <1>5
<1>8. trades' = [u \in Users |-> IF u \in {Maker[o], Taker[o]} THEN trades[u] + 1
                                                             ELSE trades[u]]
  BY <1>1, <1>4
<1>9. rewards' = [u \in Users |-> IF u \in Book!Earners(o)
                                 THEN [n |-> rewards[u].n + 1,
                                       sum |-> rewards[u].sum + Reward[o]]
                                 ELSE rewards[u]]
  BY <1>1, <1>3
<1>10. Book!Settle(o)
  BY <1>1, <1>6, <1>7, <1>8, <1>9 DEF Book!Settle
<1> QED
  BY <1>10 DEF o

\* A transfer that raises sends the trade to a moderator, or shows nothing.
LEMMA FailureDisputes ==
  ASSUME IInv, NEW s \in Sessions, TransferFails(s)
  PROVE  (order[s] \in Orders /\ Book!Dispute(order[s])) \/ UNCHANGED tableVars
<1>1. CASE op[s] = "confirm"
  <2>1. SessionInFlight(s) /\ step[s] = 2 /\ order[s] \in Orders
    BY <1>1 DEF IInv, InFlight, SessionInFlight, TransferFails
  <2>2. status[order[s]] = "escrow_held"
    BY <1>1, <2>1 DEF SessionInFlight
  <2> QED
    BY <1>1, <2>1, <2>2 DEF TransferFails, Book!Dispute
<1>2. CASE op[s] # "confirm"
  BY <1>2 DEF TransferFails, tableVars
<1> QED
  BY <1>1, <1>2

LEMMA BookStep == IInv /\ [Next]_vars => [Book!Next]_(Book!vars)
<1> SUFFICES ASSUME IInv, [Next]_vars
             PROVE  Book!Next \/ UNCHANGED tableVars
  BY DEF Book!vars, tableVars
<1>1. ASSUME NEW s \in Sessions, Step(s) PROVE Book!Next \/ UNCHANGED tableVars
  <2>1. CASE Commit(s)
    BY <2>1, CommitSettles, CommitEffect DEF Book!Next
  <2> QED
    BY <1>1, <2>1 DEF Step, LockOrder, LockUser, Refused, Close, SweepNext
<1>2. ASSUME NEW s \in Sessions, TransferFails(s) PROVE Book!Next \/ UNCHANGED tableVars
  BY <1>2, FailureDisputes DEF Book!Next
<1>3. ASSUME NEW o \in Orders, RaiseDispute(o) PROVE Book!Next
  BY <1>3 DEF RaiseDispute, Book!Next, Book!Dispute
<1>4. CASE UNCHANGED vars
  BY <1>4 DEF vars
<1> QED
  BY <1>1, <1>2, <1>3, <1>4 DEF Next, Begin, DeadlockBroken, SweepBegin, Crash

\* Whatever sessions, locks and crashes do, the tables are those of settlements
\* made one after the other.
THEOREM OneByOne == Spec => SettledOneByOne
<1>1. Init => Book!Init
  BY BookInit
<1>2. IInv /\ [Next]_vars => [Book!Next]_(Book!vars)
  BY BookStep
<1> QED
  BY <1>1, <1>2, Inductive, PTL DEF Spec, SettledOneByOne, Book!Spec

-----------------------------------------------------------------------------
(* Who can wait for whom in a circle.                                      *)

\* <<q, r>>: some release locks row q after row r, and may wait for it then.  A
\* referrer who is the maker as well has been locked already.
Earner(o) == IF Rewarded(o) THEN {Referrer[Taker[o]]} \ {Maker[o]} ELSE {}
LockedAfter ==
    {qr \in Rows \X Rows : \E o \in Orders :
        \/ qr[2] = o /\ qr[1] \in {Maker[o], Taker[o]} \cup Earner(o)
        \/ qr[2] = Maker[o] /\ qr[1] \in {Taker[o]} \cup Earner(o)
        \/ qr[2] = Taker[o] /\ qr[1] \in Earner(o)}

\* Everybody in S waits for somebody in S.
WaitInCircle(S) == \A s \in S : \E t \in S : WaitsFor(s, t)

\* A handler, unlike the sweep, holds rows of one settlement only.
HeldInPlan(s) ==
    /\ op[s] # "sweep"
    /\ \A r \in Rows : lock[r] = s =>
          \E k \in 1..Len(Plan(s)) : k < step[s] /\ Plan(s)[k] = r
HandlersHold == \A s \in Sessions \ {Sweeper} : HeldInPlan(s)

\* A step of one session, which leaves the rows of the others to them.
LEMMA OneHolds ==
  ASSUME HandlersHold, NEW s \in Sessions, s # Sweeper => HeldInPlan(s)',
         \A t \in Sessions \ {s} :
            /\ op'[t] = op[t] /\ order'[t] = order[t] /\ step'[t] = step[t]
            /\ \A r \in Rows : lock[r] = t <=> lock'[r] = t
  PROVE  HandlersHold'
<1>1. ASSUME NEW t \in Sessions \ {Sweeper}, t # s PROVE HeldInPlan(t)'
  <2>1. HeldInPlan(t) /\ Plan(t)' = Plan(t)
    BY <1>1 DEF HandlersHold, Plan
  <2> QED
    BY <2>1, <1>1 DEF HeldInPlan
<1> QED
  BY <1>1 DEF HandlersHold

LEMMA EndsHolds ==
  ASSUME TypeOK, HandlersHold, NEW s \in Sessions, Ends(s) PROVE HandlersHold'
<1>1. SessionInFlight(s)' /\ op'[s] = "none"
  BY EndedIsIdle DEF Ends, TypeOK
<1>2. HeldInPlan(s)'
  BY <1>1 DEF SessionInFlight, HeldInPlan
<1> QED
  BY <1>2, EndedIsIdle, OneHolds

\* A lock is taken for the next row of the settlement.
LEMMA LockHolds ==
  ASSUME TypeOK, HandlersHold, NEW s \in Sessions, More(s), Free(s, NextRow(s)),
         lock' = [lock EXCEPT ![NextRow(s)] = s],
         step' = [step EXCEPT ![s] = step[s] + 1],
         UNCHANGED <<op, order>>
  PROVE  HandlersHold'
<1> USE LocksAssumption
<1>1. NextRow(s) \in Rows /\ step[s] \in 1..4 /\ lock[NextRow(s)] \in {NoSession, s}
  BY NextRowType DEF Free
<1>2. \A t \in Sessions \ {s} :
         /\ step'[t] = step[t]
         /\ \A r \in Rows : lock[r] = t <=> lock'[r] = t
  BY <1>1 DEF TypeOK
<1>3. ASSUME s # Sweeper PROVE HeldInPlan(s)'
  <2>1. HeldInPlan(s) /\ Plan(s)' = Plan(s) /\ op'[s] = op[s]
    BY <1>3 DEF HandlersHold, Plan
  <2>2. step'[s] = step[s] + 1
    BY DEF TypeOK
  <2>3. step[s] \in 1..Len(Plan(s))
    <3>1. order[s] \in Orders /\ Len(Plan(s)) \in {3, 4}
      BY PlanRows, NextRowType DEF Plan
    <3> QED
      BY <3>1, <1>1 DEF More
  <2>4. ASSUME NEW r \in Rows, lock'[r] = s
        PROVE  \E k \in 1..Len(Plan(s)) : k < step'[s] /\ Plan(s)[k] = r
    <3>1. CASE r = NextRow(s)
      BY <3>1, <2>2, <2>3 DEF NextRow
    <3>2. CASE r # NextRow(s)
      <4>1. lock[r] = s
        BY <3>2, <2>4, <1>1 DEF TypeOK
      <4>2. PICK k \in 1..Len(Plan(s)) : k < step[s] /\ Plan(s)[k] = r
        BY <4>1, <2>1 DEF HeldInPlan
      <4> QED
        BY <4>2, <2>2, <1>1
    <3> QED
      BY <3>1, <3>2
  <2> QED
    BY <2>1, <2>4 DEF HeldInPlan
<1> QED
  BY <1>2, <1>3, OneHolds

LEMMA HoldsNext == IInv /\ HandlersHold /\ [Next]_vars => HandlersHold'
<1> SUFFICES ASSUME IInv, HandlersHold, [Next]_vars PROVE HandlersHold'
  OBVIOUS
<1> USE LocksAssumption
<1>1. TypeOK /\ InFlight
  BY DEF IInv
<1>2. ASSUME NEW s \in Sessions, Ends(s) PROVE HandlersHold'
  BY <1>1, <1>2, EndsHolds
<1>3. ASSUME NEW s \in Sessions, LockOrder(s) \/ LockUser(s) PROVE HandlersHold'
  BY <1>1, <1>3, LockHolds DEF LockOrder, LockUser
<1>4. ASSUME NEW s \in Sessions, NEW k \in {"confirm", "release", "refund"},
             NEW o \in Orders, Begin(s, k, o)
      PROVE  HandlersHold'
  <2>1. \A r \in Rows : lock[r] # s
    BY <1>1, <1>4 DEF Begin, InFlight, SessionInFlight
  <2>2. HeldInPlan(s)'
    BY <1>1, <1>4, <2>1 DEF Begin, TypeOK, HeldInPlan
  <2> QED
    BY <1>1, <1>4, <2>2, OneHolds DEF Begin, TypeOK
<1>5. CASE (\E S \in SUBSET Orders : SweepBegin(S)) \/ (\E o \in Orders : SweepNext(o))
  <2>1. \A t \in Sessions \ {Sweeper} :
           op'[t] = op[t] /\ order'[t] = order[t] /\ step'[t] = step[t]
    BY <1>1, <1>5 DEF SweepBegin, SweepNext, TypeOK
  <2>2. UNCHANGED lock
    BY <1>5 DEF SweepBegin, SweepNext
  <2> QED
    BY <2>1, <2>2, OneHolds
<1>6. ASSUME NEW s \in Sessions, TransferFails(s) PROVE HandlersHold'
  <2>1. CASE op[s] = "sweep"
    <3>1. s = Sweeper
      BY <2>1 DEF HandlersHold, HeldInPlan
    <3> QED
      BY <1>1, <1>6, <2>1, <3>1, OneHolds DEF TransferFails, TypeOK
  <2> QED
    BY <1>2, <1>6, <2>1 DEF TransferFails
<1>7. ASSUME NEW o \in Orders, RaiseDispute(o) PROVE HandlersHold'
  BY <1>7, <1>1 DEF RaiseDispute, HandlersHold, HeldInPlan, Plan
<1>8. CASE Crash
  BY <1>8 DEF Crash, HandlersHold, HeldInPlan
<1>9. CASE UNCHANGED vars
  BY <1>9 DEF vars, HandlersHold, HeldInPlan, Plan
<1> QED
  BY <1>2, <1>3, <1>4, <1>5, <1>6, <1>7, <1>8, <1>9
  DEF Next, Step, Refused, Commit, Close, DeadlockBroken

\* The row a handler waits for comes after those it holds.
LEMMA WaitsUpwards ==
  ASSUME IInv, HandlersHold, NEW s \in Sessions \ {Sweeper},
         NEW t \in Sessions \ {Sweeper}, NEW q \in Sessions,
         WaitsFor(s, t), WaitsFor(t, q)
  PROVE  <<NextRow(t), NextRow(s)>> \in LockedAfter
<1> USE LocksAssumption
<1> DEFINE p == Plan(t)
           o == order[t]
           j == step[t]
<1>1. TypeOK /\ SessionInFlight(t) /\ HeldInPlan(t) /\ op[t] \in Ops
  BY DEF IInv, InFlight, HandlersHold, TypeOK
<1>2. NextRow(s) \in Rows /\ lock[NextRow(s)] = t /\ NextRow(t) \in Rows /\ o \in Orders
  BY <1>1, NextRowType DEF WaitsFor
<1>3. op[t] \in {"confirm", "release", "refund"}
  BY <1>1, <1>2 DEF SessionInFlight, HeldInPlan, Ops
<1>4. PICK k \in 1..Len(p) : k < j /\ p[k] = NextRow(s)
  BY <1>1, <1>2 DEF HeldInPlan
<1>5. j \in 1..Len(p) /\ p[j] = NextRow(t) /\ Len(p) \in {3, 4}
  <2>1. Len(p) \in {3, 4} /\ j \in 1..4 /\ j <= Len(p)
    BY <1>1, <1>2, PlanRows, NextRowType DEF WaitsFor, More, Plan
  <2> QED
    BY <2>1 DEF NextRow
<1>6. p[1] = o /\ p[2] = Maker[o] /\ p[3] = Taker[o]
  BY <1>2, PlanRows DEF Plan
<1>7. Len(p) = 4 => Rewarded(o) /\ p[4] = Referrer[Taker[o]]
  BY DEF Plan, PlanFor, ReleaseRows, RefundRows
<1>8. j = 4 => p[4] # p[2]
  <2>1. ASSUME j = 4 PROVE lock[p[2]] = t
    BY <2>1, <1>1, <1>3, <1>5 DEF SessionInFlight
  <2>2. lock[NextRow(t)] # t
    BY DEF WaitsFor
  <2> QED
    BY <1>5, <2>1, <2>2
<1> HIDE DEF p, o, j
<1>9. j = 4 => p[4] \in Earner(o)
  <2> SUFFICES ASSUME j = 4 PROVE p[4] \in Earner(o)
    OBVIOUS
  <2>1. Len(p) = 4
    BY <1>5
  <2>2. Rewarded(o) /\ p[4] = Referrer[Taker[o]]
    BY <2>1, <1>7
  <2>3. p[4] # Maker[o]
    BY <1>6, <1>8
  <2> QED
    BY <2>2, <2>3, Zenon DEF Earner
<1>10. \/ k = 1 /\ j \in {2, 3, 4}
       \/ k = 2 /\ j \in {3, 4}
       \/ k = 3 /\ j = 4
  BY <1>4, <1>5
<1>11. <<p[j], p[k]>> \in Rows \X Rows
  BY <1>2, <1>4, <1>5
<1>12. \/ p[k] = o /\ p[j] \in {Maker[o], Taker[o]} \cup Earner(o)
       \/ p[k] = Maker[o] /\ p[j] \in {Taker[o]} \cup Earner(o)
       \/ p[k] = Taker[o] /\ p[j] \in Earner(o)
  BY <1>6, <1>9, <1>10
<1>13. <<p[j], p[k]>> \in LockedAfter
  BY <1>2, <1>11, <1>12 DEF LockedAfter, o
<1> QED
  BY <1>4, <1>5, <1>13

\* Hence a circle of handlers would go up for ever.
LEMMA NoCircle ==
  ASSUME IInv, HandlersHold, IsWellFoundedOn(LockedAfter, Rows),
         NEW S \in SUBSET (Sessions \ {Sweeper}), WaitInCircle(S)
  PROVE  S = {}
<1> SUFFICES ASSUME S # {} PROVE FALSE
  OBVIOUS
<1> DEFINE T == {NextRow(s) : s \in S}
<1>1. \A s \in S : \E t \in S : WaitsFor(s, t)
  BY DEF WaitInCircle
<1>2. T \subseteq Rows
  BY <1>1, NextRowType DEF IInv, WaitsFor
<1>3. T # {}
  OBVIOUS
<1>4. PICK x \in T : \A y \in T : ~(<<y, x>> \in LockedAfter)
  <2> HIDE DEF T
  <2> QED
    BY <1>2, <1>3, WFMin
<1>5. PICK s \in S : x = NextRow(s)
  OBVIOUS
<1>6. PICK t \in S : WaitsFor(s, t)
  BY <1>1
<1>7. PICK q \in S : WaitsFor(t, q)
  BY <1>1
<1>8. <<NextRow(t), NextRow(s)>> \in LockedAfter
  BY <1>6, <1>7, WaitsUpwards
<1> QED
  BY <1>4, <1>5, <1>8

\* Handlers wait on each other in a circle only if their trades do: if no chain
\* of users, each locked after the one before by some release, leads back to
\* where it began (users who trade in both roles make one), then only the sweep,
\* which keeps the rows of trade after trade, can close a circle.
THEOREM CirclesNeedSwappedRoles ==
  IsWellFoundedOn(LockedAfter, Rows) /\ Spec
    => [](\A S \in SUBSET (Sessions \ {Sweeper}) : WaitInCircle(S) => S = {})
<1> SUFFICES ASSUME IsWellFoundedOn(LockedAfter, Rows)
             PROVE  Spec => [](\A S \in SUBSET (Sessions \ {Sweeper}) :
                                 WaitInCircle(S) => S = {})
  OBVIOUS
<1>1. Init => HandlersHold
  BY LocksAssumption DEF Init, HandlersHold, HeldInPlan, Rows
<1>2. IInv /\ HandlersHold /\ [Next]_vars => HandlersHold'
  BY HoldsNext
<1>3. IInv /\ HandlersHold => \A S \in SUBSET (Sessions \ {Sweeper}) : WaitInCircle(S) => S = {}
  BY NoCircle
<1> QED
  BY <1>1, <1>2, <1>3, Inductive, PTL DEF Spec

=============================================================================
