--------------------------- MODULE SettlementLocks ---------------------------
(***************************************************************************)
(* What a settlement of a P2P trade does to the rows of users: counters of *)
(* trades (increment_user_trade_stats) and the reward of the referrer      *)
(* (process_referral_reward), each under a row lock that is kept until the *)
(* transaction ends, after the order's own row (escrow_service).  P2PEscrow *)
(* has the money of the same settlements and leaves these rows out.        *)
(*                                                                         *)
(* A confirmation commits.  A moderator's decision and the sweep of        *)
(* stagnant trades take the same locks and roll back when their session is *)
(* closed; the sweep settles one trade after the other and keeps them all. *)
(* Ledger says what all of it comes to.                                    *)
(***************************************************************************)
EXTENDS Integers, Sequences, FiniteSets

CONSTANTS
    Orders,     \* trades whose escrow is held when the model starts
    Users,      \* Telegram ids
    Maker,      \* maker_id of each order
    Taker,      \* taker_id of each order
    Referrer,   \* referred_by_id of each user, or NoUser
    NoUser,
    Reward,     \* of each order: a fifth of its fee, in the unit of a reward
    Scale,      \* how many of these units the balance column can tell apart
    Sessions,   \* database sessions of handlers, and that of the sweep
    Sweeper,
    NoSession,  \* the row is not locked
    NoOrder     \* the session settles nothing

Rows == Orders \cup Users

ASSUME LocksAssumption ==
    /\ Orders \cap Users = {}
    /\ IsFiniteSet(Orders)
    /\ Maker \in [Orders -> Users]
    /\ Taker \in [Orders -> Users]
    /\ \A o \in Orders : Maker[o] # Taker[o]
    /\ NoUser \notin Users
    /\ Referrer \in [Users -> Users \cup {NoUser}]
    /\ \A u \in Users : Referrer[u] # u
    /\ Reward \in [Orders -> Nat]
    /\ Scale \in Nat \ {0}
    /\ Sweeper \in Sessions
    /\ NoSession \notin Sessions
    /\ NoOrder \notin Orders

VARIABLES
    \* The tables, as committed.
    status,    \* [Orders -> Statuses]
    trades,    \* [Users -> Nat]: total_trades and successful_trades
    balance,   \* [Users -> Nat]: referral_balance
    rewards,   \* [Users -> [n: Nat, sum: Nat]]: rows of referral_rewards
    \* Open transactions: lost in a crash.
    lock,      \* [Rows -> Sessions \cup {NoSession}]
    op,        \* [Sessions -> Ops]
    order,     \* [Sessions -> Orders \cup {NoOrder}]: what the session settles
    step,      \* [Sessions -> 1..5]: which row of that it locks next
    read,      \* [Sessions -> [Users -> UserRows]]: rows it locked, as read
    left       \* [Sessions -> SUBSET Orders]: trades the sweep loaded

tableVars == <<status, trades, balance, rewards>>
vars == <<tableVars, lock, op, order, step, read, left>>

Statuses == {"escrow_held", "dispute", "completed"}
Ops == {"none", "confirm", "release", "refund", "sweep"}
UserRows == [trades: Nat, balance: Nat]
NothingRead == [u \in Users |-> [trades |-> 0, balance |-> 0]]

Init ==
    /\ status = [o \in Orders |-> "escrow_held"]
    /\ trades = [u \in Users |-> 0]
    /\ balance = [u \in Users |-> 0]
    /\ rewards = [u \in Users |-> [n |-> 0, sum |-> 0]]
    /\ lock = [r \in Rows |-> NoSession]
    /\ op = [s \in Sessions |-> "none"]
    /\ order = [s \in Sessions |-> NoOrder]
    /\ step = [s \in Sessions |-> 1]
    /\ read = [s \in Sessions |-> NothingRead]
    /\ left = [s \in Sessions |-> {}]

-----------------------------------------------------------------------------
(* The rows of one settlement, in the order in which they are locked.      *)

\* Whether a release of o rewards somebody: a fee, and a taker who was referred.
Rewarded(o) == Reward[o] > 0 /\ Referrer[Taker[o]] # NoUser

RefundRows(o) == <<o, Maker[o], Taker[o]>>
ReleaseRows(o) ==
    IF Rewarded(o) THEN <<o, Maker[o], Taker[o], Referrer[Taker[o]]>> ELSE RefundRows(o)

\* What a session of each kind locks for o, and what s has still to lock.
PlanFor(k, o) == IF k \in {"confirm", "release"} THEN ReleaseRows(o) ELSE RefundRows(o)
Plan(s) == PlanFor(op[s], order[s])
More(s) == order[s] # NoOrder /\ step[s] <= Len(Plan(s))
NextRow(s) == Plan(s)[step[s]]

\* The statuses each kind accepts.  The sweep looks at the copy it loaded
\* before it had the lock, which says escrow_held whatever happened since.
Accepted(k, o) ==
    CASE k = "confirm" -> status[o] = "escrow_held"
      [] k \in {"release", "refund"} -> status[o] = "dispute"
      [] OTHER -> TRUE

-----------------------------------------------------------------------------
(* Locks.                                                                  *)

FreeAlways(s, r) == TRUE   \* mutant: SELECT without FOR UPDATE
Free(s, r) == lock[r] \in {NoSession, s}

\* s waits for a lock that t holds.
WaitsFor(s, t) ==
    /\ More(s)
    /\ s # t
    /\ lock[NextRow(s)] = t

\* s is on a cycle of waiting sessions.
Deadlocked(s) ==
    \E S \in SUBSET Sessions :
        /\ s \in S
        /\ \A t \in S : /\ \E r \in S : WaitsFor(t, r)
                        /\ \E r \in S : WaitsFor(r, t)

UnlockedBy(s) == [r \in Rows |-> IF lock[r] = s THEN NoSession ELSE lock[r]]

\* The transaction of s is over: commit, rollback or close.
EndsKeepingOrders(s) ==   \* mutant: rows of orders stay locked
    /\ lock' = [r \in Rows |-> IF lock[r] = s /\ r \in Users THEN NoSession ELSE lock[r]]
    /\ op' = [op EXCEPT ![s] = "none"]
    /\ step' = [step EXCEPT ![s] = 1]
    /\ left' = [left EXCEPT ![s] = {}]
    /\ order' = [order EXCEPT ![s] = NoOrder]
    /\ read' = [read EXCEPT ![s] = NothingRead]
Ends(s) ==
    /\ lock' = UnlockedBy(s)
    /\ op' = [op EXCEPT ![s] = "none"]
    /\ step' = [step EXCEPT ![s] = 1]
    /\ left' = [left EXCEPT ![s] = {}]
    /\ order' = [order EXCEPT ![s] = NoOrder]
    /\ read' = [read EXCEPT ![s] = NothingRead]

-----------------------------------------------------------------------------
(* Settlements.                                                            *)

\* confirm_fiat_payment, or release_escrow and refund_escrow of a dispute.
Begin(s, k, o) ==
    /\ s # Sweeper
    /\ op[s] = "none"
    /\ op' = [op EXCEPT ![s] = k]
    /\ order' = [order EXCEPT ![s] = o]
    /\ UNCHANGED <<tableVars, lock, step, read, left>>

\* The query of expire_stagnant_trades: held, and overdue at any moment.
SweepBegin(S) ==
    /\ op[Sweeper] = "none"
    /\ S # {}
    /\ \A o \in S : status[o] = "escrow_held"
    /\ op' = [op EXCEPT ![Sweeper] = "sweep"]
    /\ left' = [left EXCEPT ![Sweeper] = S]
    /\ UNCHANGED <<tableVars, lock, order, step, read>>

\* refund_escrow for the next of them, in the session that still holds the
\* rows of those before.
SweepNext(o) ==
    /\ op[Sweeper] = "sweep"
    /\ ~More(Sweeper)
    /\ o \in left[Sweeper]
    /\ left' = [left EXCEPT ![Sweeper] = left[Sweeper] \ {o}]
    /\ order' = [order EXCEPT ![Sweeper] = o]
    /\ step' = [step EXCEPT ![Sweeper] = 1]
    /\ UNCHANGED <<tableVars, lock, op, read>>

\* The order's row is locked and its status checked.
LockOrder(s) ==
    /\ More(s)
    /\ NextRow(s) \in Orders
    /\ Free(s, NextRow(s))
    /\ Accepted(op[s], NextRow(s))
    /\ lock' = [lock EXCEPT ![NextRow(s)] = s]
    /\ step' = [step EXCEPT ![s] = step[s] + 1]
    /\ UNCHANGED <<tableVars, op, order, read, left>>

\* The status does not allow it: ValueError, and the session is closed.
Refused(s) ==
    /\ More(s)
    /\ NextRow(s) \in Orders
    /\ Free(s, NextRow(s))
    /\ ~Accepted(op[s], NextRow(s))
    /\ Ends(s)
    /\ UNCHANGED tableVars

\* The transfer between the order's lock and the users' raises.  The sweep goes
\* on with its next trade, a confirmation commits a dispute, a decision fails.
TransferFails(s) ==
    /\ order[s] # NoOrder
    /\ step[s] = 2
    /\ IF op[s] = "sweep"
       THEN /\ order' = [order EXCEPT ![s] = NoOrder]
            /\ UNCHANGED <<tableVars, lock, op, step, read, left>>
       ELSE /\ Ends(s)
            /\ status' = IF op[s] = "confirm"
                         THEN [status EXCEPT ![order[s]] = "dispute"] ELSE status
            /\ UNCHANGED <<trades, balance, rewards>>

\* SELECT ... FOR UPDATE of a users row.  A row the session has locked before
\* is not read again.
LockUser(s) ==
    /\ More(s)
    /\ NextRow(s) \in Users
    /\ Free(s, NextRow(s))
    /\ LET u == NextRow(s)
       IN  read' = [read EXCEPT ![s][u] =
                      IF lock[u] = s THEN read[s][u]
                      ELSE [trades |-> trades[u], balance |-> balance[u]]]
    /\ lock' = [lock EXCEPT ![NextRow(s)] = s]
    /\ step' = [step EXCEPT ![s] = step[s] + 1]
    /\ UNCHANGED <<tableVars, op, order, left>>

\* What Numeric(18, 2) makes of an amount: the nearest it can hold.
RoundedDown(x) == x - (x % Scale)   \* mutant: what is below one unit is dropped
Rounded(x) == x - (x % Scale) + (IF 2 * (x % Scale) >= Scale THEN Scale ELSE 0)

Party(o, u) == u \in {Maker[o], Taker[o]}

\* The commit of a release: status, both counters, and the referrer's balance
\* with the row that accounts for it.
Commit(s) ==
    LET o == order[s]
        gets(u) == Rewarded(o) /\ u = Referrer[Taker[o]]
    IN  /\ op[s] = "confirm"
        /\ ~More(s)
        /\ status' = [status EXCEPT ![o] = "completed"]
        /\ trades' = [u \in Users |->
                        IF Party(o, u) THEN read[s][u].trades + 1 ELSE trades[u]]
        /\ balance' = [u \in Users |->
                         IF gets(u) THEN Rounded(read[s][u].balance + Reward[o])
                                        ELSE balance[u]]
        /\ rewards' = [u \in Users |->
                         IF gets(u)
                         THEN [n |-> rewards[u].n + 1, sum |-> rewards[u].sum + Reward[o]]
                         ELSE rewards[u]]
        /\ Ends(s)

\* Nobody commits: the session is closed with everything it wrote.
Close(s) ==
    /\ op[s] \in {"release", "refund", "sweep"}
    /\ ~More(s)
    /\ left[s] = {}
    /\ Ends(s)
    /\ UNCHANGED tableVars

\* PostgreSQL ends a transaction on a cycle; its session can do nothing more.
DeadlockBroken(s) ==
    /\ Deadlocked(s)
    /\ Ends(s)
    /\ UNCHANGED tableVars

\* A moderator is called in (raise_dispute, which locks the row).
RaiseDispute(o) ==
    /\ status[o] = "escrow_held"
    /\ lock[o] = NoSession
    /\ status' = [status EXCEPT ![o] = "dispute"]
    /\ UNCHANGED <<trades, balance, rewards, lock, op, order, step, read, left>>

\* The process dies; PostgreSQL rolls everything back.
Crash ==
    /\ \E s \in Sessions : op[s] # "none"
    /\ lock' = [r \in Rows |-> NoSession]
    /\ op' = [s \in Sessions |-> "none"]
    /\ step' = [s \in Sessions |-> 1]
    /\ left' = [s \in Sessions |-> {}]
    /\ order' = [s \in Sessions |-> NoOrder]
    /\ read' = [s \in Sessions |-> NothingRead]
    /\ UNCHANGED tableVars

-----------------------------------------------------------------------------
\* What a session does next: it waits for the database, and for a row lock that
\* another one holds.
Step(s) ==
    \/ LockOrder(s)
    \/ LockUser(s)
    \/ Refused(s)
    \/ Commit(s)
    \/ Close(s)
    \/ s = Sweeper /\ \E o \in Orders : SweepNext(o)

Next ==
    \/ \E s \in Sessions :
          \/ \E k \in {"confirm", "release", "refund"}, o \in Orders : Begin(s, k, o)
          \/ Step(s)
          \/ TransferFails(s)
          \/ DeadlockBroken(s)
    \/ \E S \in SUBSET Orders : SweepBegin(S)
    \/ \E o \in Orders : RaiseDispute(o)
    \/ Crash

Spec == Init /\ [][Next]_vars

\* Statements end, a row lock is granted to whoever waits for it in turn, and
\* PostgreSQL looks for a cycle when a lock is waited for longer than a second.
Fairness ==
    /\ \A s \in Sessions : SF_vars(Step(s))
    /\ WF_vars(\E s \in Sessions : DeadlockBroken(s))

FairSpec == Spec /\ Fairness

-----------------------------------------------------------------------------
(* Properties.                                                             *)

TypeOK ==
    /\ status \in [Orders -> Statuses]
    /\ trades \in [Users -> Nat]
    /\ balance \in [Users -> Nat]
    /\ rewards \in [Users -> [n: Nat, sum: Nat]]
    /\ lock \in [Rows -> Sessions \cup {NoSession}]
    /\ op \in [Sessions -> Ops]
    /\ order \in [Sessions -> Orders \cup {NoOrder}]
    /\ step \in [Sessions -> 1..5]
    /\ read \in [Sessions -> [Users -> UserRows]]
    /\ left \in [Sessions -> SUBSET Orders]

Completed(u) == {o \in Orders : status[o] = "completed" /\ Party(o, u)}

\* The counters of a user are the number of completed trades the user was a
\* party of: settlements of different trades of one user, in either role, do
\* not overwrite each other, and a settlement that is rolled back (a deadlock,
\* the sweep, a moderator's decision, a crash) counts nothing
\* (increment_user_trade_stats).
TradesAreSettlements ==
    \A u \in Users : trades[u] = Cardinality(Completed(u))

\* The balance of a referrer is what referral_rewards says was earned, up to
\* half a unit of the column for every reward: the balance is kept with two
\* decimals and a reward with six (process_referral_reward).
BalanceFollowsRewards ==
    \A u \in Users :
        LET d == balance[u] - rewards[u].sum
        IN  2 * d <= Scale * rewards[u].n /\ (-2) * d <= Scale * rewards[u].n

\* Settlements whose locks and commits interleave in any way, with deadlocks,
\* rolled back decisions, a sweep and crashes between them, leave the tables as
\* settlements made one after the other would, each once: nothing of a trade is
\* counted, earned or decided on a row somebody else is changing.
Book == INSTANCE Ledger
SettledOneByOne == Book!Spec

\* What an open transaction relies on: it works on the rows of one settlement,
\* has locked those before its next, and what it read of a locked row of users
\* is what the table says.
SessionInFlight(s) ==
    /\ op[s] = "none" => /\ order[s] = NoOrder /\ left[s] = {} /\ step[s] = 1
                         /\ \A r \in Rows : lock[r] # s
    /\ op[s] \in {"confirm", "release", "refund"} =>
          /\ order[s] \in Orders
          /\ \A k \in 1..Len(Plan(s)) : k < step[s] => lock[Plan(s)[k]] = s
    /\ op[s] = "confirm" /\ step[s] > 1 => status[order[s]] = "escrow_held"
    /\ \A u \in Users : lock[u] = s =>
          read[s][u] = [trades |-> trades[u], balance |-> balance[u]]

InFlight == \A s \in Sessions : SessionInFlight(s)

IInv == TypeOK /\ TradesAreSettlements /\ BalanceFollowsRewards /\ InFlight

\* Every settlement ends, though settlements of one pair of users with their
\* roles swapped, or one of them and the sweep, can wait on each other: the
\* cycle is broken and the rows of the others come free.
EverySettlementEnds ==
    \A s \in Sessions : op[s] # "none" ~> op[s] = "none"

=============================================================================
