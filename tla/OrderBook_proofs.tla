--------------------------- MODULE OrderBook_proofs ---------------------------
(***************************************************************************)
(* What the order book promises follows from its transitions alone, for    *)
(* any number of orders and users.                                         *)
(***************************************************************************)
EXTENDS OrderBook, TLAPS

\* The rows of table orders keep their types.
THEOREM TypeCorrect == Spec => []TypeOK
<1>1. Init => TypeOK
  BY DEF Init, TypeOK, Statuses
<1>2. TypeOK /\ [Next]_vars => TypeOK'
  <2> SUFFICES ASSUME TypeOK, [Next]_vars
               PROVE  TypeOK'
    OBVIOUS
  <2> USE DEF TypeOK, Statuses, Move
  <2>1. ASSUME NEW S \in SUBSET Orders, List(S) \/ Withdraw(S)
        PROVE  TypeOK'
    BY <2>1 DEF List, Withdraw
  <2>2. ASSUME NEW o \in Orders, Create(o) \/ Dispute(o) \/ Complete(o)
        PROVE  TypeOK'
    BY <2>2 DEF Create, Dispute, Complete
  <2>3. ASSUME NEW o \in Orders, NEW u \in Users, Take(o, u)
        PROVE  TypeOK'
    BY <2>3 DEF Take
  <2>4. CASE UNCHANGED vars
    BY <2>4 DEF vars
  <2> QED
    BY <2>1, <2>2, <2>3, <2>4 DEF Next
<1> QED
  BY <1>1, <1>2, PTL DEF Spec

\* An order has a taker of record exactly from the moment it is taken, and the
\* taker is not the maker (take_order).
THEOREM TakerIsOnRecord ==
  ASSUME OrderBookAssumption PROVE Spec => []TakerOfRecord
<1>1. Init => TakerOfRecord
  BY DEF OrderBookAssumption, Init, TakerOfRecord, Untaken
<1>2. TypeOK /\ TakerOfRecord /\ [Next]_vars => TakerOfRecord'
  <2> SUFFICES ASSUME TypeOK, TakerOfRecord, [Next]_vars
               PROVE  TakerOfRecord'
    OBVIOUS
  <2> USE DEF OrderBookAssumption, TypeOK, TakerOfRecord, Statuses, Untaken, Move
  <2>1. ASSUME NEW S \in SUBSET Orders, List(S) \/ Withdraw(S)
        PROVE  TakerOfRecord'
    BY <2>1 DEF List, Withdraw
  <2>2. ASSUME NEW o \in Orders, Create(o) \/ Dispute(o) \/ Complete(o)
        PROVE  TakerOfRecord'
    BY <2>2 DEF Create, Dispute, Complete
  <2>3. ASSUME NEW o \in Orders, NEW u \in Users, Take(o, u)
        PROVE  TakerOfRecord'
    BY <2>3 DEF Take
  <2>4. CASE UNCHANGED vars
    BY <2>4 DEF vars
  <2> QED
    BY <2>1, <2>2, <2>3, <2>4 DEF Next
<1> QED
  BY <1>1, <1>2, TypeCorrect, PTL DEF Spec

\* Two users who take the same ad never both get it (take_order): a taker is
\* set only on an active order, which by TakerOfRecord has none.
THEOREM OneTakerOnly ==
  ASSUME OrderBookAssumption PROVE Spec => OneTaker
<1>1. TypeOK /\ TakerOfRecord /\ [Next]_vars
        => [\A o \in Orders : taker[o] # NoUser => taker'[o] = taker[o]]_vars
  <2> SUFFICES ASSUME TypeOK, TakerOfRecord, Next,
                      NEW p \in Orders, taker[p] # NoUser
               PROVE  taker'[p] = taker[p]
    BY DEF vars
  <2>1. ASSUME NEW S \in SUBSET Orders, List(S) \/ Withdraw(S)
        PROVE  taker'[p] = taker[p]
    BY <2>1 DEF List, Withdraw
  <2>2. ASSUME NEW o \in Orders, Create(o) \/ Dispute(o) \/ Complete(o)
        PROVE  taker'[p] = taker[p]
    BY <2>2 DEF Create, Dispute, Complete
  <2>3. ASSUME NEW o \in Orders, NEW u \in Users, Take(o, u)
        PROVE  taker'[p] = taker[p]
    BY <2>3 DEF Take, TypeOK, TakerOfRecord, Untaken
  <2> QED
    BY <2>1, <2>2, <2>3 DEF Next
<1> QED
  BY <1>1, TypeCorrect, TakerIsOnRecord, PTL DEF Spec, OneTaker

\* No way leads out of a dispute, or out of a completed trade.
DisputesStay ==
  [][\A o \in Orders :
        status[o] \in {"dispute", "completed"} => status'[o] = status[o]]_vars

\* A disputed order is disputed for ever: no operation of the book settles it
\* (resolve_dispute).
THEOREM DisputesAreFinal == Spec => DisputesStay
<1>1. TypeOK /\ [Next]_vars
        => [\A o \in Orders :
              status[o] \in {"dispute", "completed"} => status'[o] = status[o]]_vars
  <2> SUFFICES ASSUME TypeOK, Next, NEW o \in Orders,
                      status[o] \in {"dispute", "completed"}
               PROVE  status'[o] = status[o]
    BY DEF vars
  <2>1. ASSUME NEW S \in SUBSET Orders, List(S) \/ Withdraw(S)
        PROVE  status'[o] = status[o]
    BY <2>1 DEF List, Withdraw, Move
  <2>2. ASSUME NEW p \in Orders,
               Create(p) \/ Dispute(p) \/ Complete(p) \/ \E u \in Users : Take(p, u)
        PROVE  status'[o] = status[o]
    BY <2>2 DEF Create, Dispute, Complete, Take, Move
  <2> QED
    BY <2>1, <2>2 DEF Next
<1> QED
  BY <1>1, TypeCorrect, PTL DEF Spec, DisputesStay

=============================================================================
