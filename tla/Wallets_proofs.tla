--------------------------- MODULE Wallets_proofs ---------------------------
(***************************************************************************)
(* Theorems about Wallets, for any orders, users, assets and sessions: its *)
(* types, its inductive invariant, and that the payouts of escrow wallets  *)
(* reach the parties of the trade.                                         *)
(***************************************************************************)
EXTENDS Wallets, SequenceTheorems, TLAPS

-----------------------------------------------------------------------------
(* Keys and rows.                                                          *)

\* The parties of an order are users and its chain is one of the instance.
LEMMA PartiesAndChains ==
  ASSUME TypeOK, NEW o \in Orders
  PROVE  /\ Chain(o) \in Chains
         /\ \A k : PayTo(k, o) \in {Maker[o], Taker[o]} /\ PayTo(k, o) \in Users
         /\ Maker[o] \in Users /\ Taker[o] \in Users
  BY WalletsAssumption DEF TypeOK, Chain, PayTo

\* A drawn key stays drawn, and a new one is at the end.
LEMMA KeysStay ==
  ASSUME TypeOK, NEW x \in Owners, drawn' = Append(drawn, x), asset' = asset
  PROVE  /\ drawn' \in Seq(Owners)
         /\ Len(drawn') = Len(drawn) + 1
         /\ drawn'[Len(drawn) + 1] = x
         /\ \A r : KeyOf(r) => KeyOf(r)'
         /\ \A a, o : OfParty(a, o) => OfParty(a, o)'
<1>1. /\ drawn' \in Seq(Owners) /\ Len(drawn') = Len(drawn) + 1
      /\ drawn'[Len(drawn) + 1] = x
      /\ \A n \in 1..Len(drawn) : drawn'[n] = drawn[n]
      /\ Len(drawn) \in Nat
  BY DEF TypeOK
<1>2. \A n \in 1..Len(drawn) : n \in 1..Len(drawn')
  BY <1>1
<1>3. \A r : KeyOf(r) => KeyOf(r)'
  BY <1>1, <1>2 DEF KeyOf
<1>4. \A a, u, o : DrawnFor(a, u, o) => DrawnFor(a, u, o)'
  BY <1>1, <1>2 DEF DrawnFor, Chain
<1>5. \A a, o : OfParty(a, o) => OfParty(a, o)'
  BY <1>4 DEF OfParty
<1> QED
  BY <1>1, <1>3, <1>5

\* A key whose row is known was drawn for the user and the chain of the row.
LEMMA RowIsOfParty ==
  ASSUME TypeOK, RowsAreDrawn, NEW s \in Sessions, NEW o \in Orders, NEW k, NEW a,
         Row(a, PayTo(k, o), o) \in wallets \cup unsaved[s]
  PROVE  OfParty(a, o)
<1>1. KeyOf(Row(a, PayTo(k, o), o))
  BY DEF RowsAreDrawn
<1>2. DrawnFor(a, PayTo(k, o), o)
  BY <1>1 DEF KeyOf, Row, DrawnFor
<1> QED
  BY <1>2, PartiesAndChains DEF OfParty

\* The parts of the invariant about money depend on these variables only.
LEMMA MoneyUnchanged ==
  ASSUME IInv, UNCHANGED <<asset, drawn, pool, mined, txHash, wallets>>,
         \A o \in Orders : status'[o] = "completed" => status[o] = "completed"
  PROVE  PoolIsForParties' /\ PayoutsReachParties'
<1>1. \A a, o : OfParty(a, o)' <=> OfParty(a, o)
  BY DEF OfParty, DrawnFor, Chain
<1>2. \A a, u, o : Row(a, u, o)' = Row(a, u, o)
  BY DEF Row, Chain
<1>3. PoolIsForParties'
  BY <1>1 DEF IInv, PoolIsForParties
<1>4. ASSUME NEW o \in Orders
      PROVE  (/\ mined[o] # 0 => OfParty(mined[o], o)
              /\ status[o] = "completed" =>
                    Row(txHash[o], PayTo("confirm", o), o) \in wallets)'
  <2>1. PayTo("confirm", o)' = PayTo("confirm", o)
    BY DEF PayTo
  <2>2. /\ mined[o] # 0 => OfParty(mined[o], o)
        /\ status[o] = "completed" => Row(txHash[o], PayTo("confirm", o), o) \in wallets
    BY DEF IInv, PayoutsReachParties
  <2>3. (mined[o] # 0 => OfParty(mined[o], o))'
    BY <1>1, <2>2
  <2>4. (status[o] = "completed" => Row(txHash[o], PayTo("confirm", o), o) \in wallets)'
    BY <2>1, <2>2 DEF Row, Chain
  <2> QED
    BY <2>3, <2>4
<1>5. PayoutsReachParties'
  BY <1>4 DEF PayoutsReachParties
<1> QED
  BY <1>3, <1>5

\* So do the rows, and what a session read stays in its sight.
LEMMA RowsUnchanged ==
  ASSUME IInv, UNCHANGED <<asset, drawn, wallets, unsaved>>
  PROVE  /\ RowsAreDrawn'
         /\ \A t \in Sessions : work'[t] = work[t] => ReadBy(t)'
<1>1. RowsAreDrawn'
  BY DEF IInv, RowsAreDrawn, KeyOf
<1>2. ASSUME NEW t \in Sessions, work'[t] = work[t] PROVE ReadBy(t)'
  <2>1. ReadBy(t)
    BY DEF IInv, WorkIsRead
  <2> QED
    BY <1>2, <2>1 DEF ReadBy, Row, Chain, PayTo
<1> QED
  BY <1>1, <1>2

-----------------------------------------------------------------------------
(* The invariant.                                                          *)

LEMMA InitInv == Init => IInv
<1> SUFFICES ASSUME Init PROVE IInv
  OBVIOUS
<1>1. TypeOK
  BY WalletsAssumption DEF Init, TypeOK, Statuses, Clients, Works, Idle
<1>2. RowsAreDrawn /\ WorkIsRead
  BY DEF Init, RowsAreDrawn, WorkIsRead, ReadBy, Idle
<1>3. PoolIsForParties /\ PayoutsReachParties
  BY DEF Init, PoolIsForParties, PayoutsReachParties
<1> QED
  BY <1>1, <1>2, <1>3 DEF IInv

\* What a step does to a settlement leaves a settlement.
LEMMA WorksClosed ==
  ASSUME NEW w \in Works, NEW a \in {"address", "send", "sent", "failed"}, NEW n \in Nat
  PROVE  /\ [w EXCEPT !.at = a] \in Works
         /\ [op |-> w.op, order |-> w.order, at |-> a, to |-> n] \in Works
         /\ [w EXCEPT !.op = "sweep"] \in Works
         /\ w.to \in Nat /\ w.order \in Orders \cup {NoOrder}
         /\ w.op \in {"none", "confirm", "release", "refund", "sweep"}
<1>1. PICK k \in {"none", "confirm", "release", "refund", "sweep"},
           o \in Orders \cup {NoOrder},
           x \in {"address", "send", "sent", "failed"}, m \in Nat :
         w = [op |-> k, order |-> o, at |-> x, to |-> m]
  BY DEF Works
<1>2. [w EXCEPT !.at = a] = [op |-> k, order |-> o, at |-> a, to |-> m]
  BY <1>1
<1>3. [op |-> w.op, order |-> w.order, at |-> a, to |-> n]
        = [op |-> k, order |-> o, at |-> a, to |-> n]
  BY <1>1
<1>4. [w EXCEPT !.op = "sweep"] = [op |-> "sweep", order |-> o, at |-> x, to |-> m]
  BY <1>1
<1> QED
  BY <1>1, <1>2, <1>3, <1>4 DEF Works

\* Types are kept by every step.
LEMMA NextTypes == TypeOK /\ [Next]_vars => TypeOK'
<1> SUFFICES ASSUME TypeOK, [Next]_vars PROVE TypeOK'
  OBVIOUS
<1> USE WalletsAssumption DEF TypeOK
<1>0. Idle \in Works /\ [Idle EXCEPT !.op = "sweep"] \in Works
  BY DEF Idle, Works
<1>1. ASSUME NEW o \in Orders, OrderStep(o) PROVE TypeOK'
  <2>1. CASE CreateOrder(o) \/ Detect(o) \/ TakeOrder(o) \/ RaiseDispute(o)
    BY <2>1 DEF CreateOrder, Detect, TakeOrder, RaiseDispute, Statuses, chainVars, sessionVars
  <2>2. CASE Deposit(o)
    BY <2>2 DEF Deposit, tableVars, sessionVars
  <2>3. CASE SweepNext(o)
    <3>1. [op |-> "sweep", order |-> o, at |-> "address", to |-> 0] \in Works
      BY DEF Works
    <3> QED
      BY <2>3, <3>1 DEF SweepNext, Start, tableVars, chainVars
  <2>4. CASE \E a \in pool[o] : Mine(o, a)
    BY <2>4 DEF Mine, tableVars, sessionVars
  <2> QED
    BY <1>1, <2>1, <2>2, <2>3, <2>4 DEF OrderStep
<1>2. ASSUME NEW s \in Sessions, SessionStep(s) PROVE TypeOK'
  <2>0. /\ work[s] \in Works
        /\ [work[s] EXCEPT !.at = "failed"] \in Works
        /\ [work[s] EXCEPT !.at = "sent"] \in Works
        /\ work[s].to \in Nat
    BY WorksClosed
  <2>1. CASE \E k \in Calls, o \in Orders : Begin(s, k, o)
    <3>1. PICK k \in Calls, o \in Orders : Begin(s, k, o)
      BY <2>1
    <3>2. [op |-> k, order |-> o, at |-> "address", to |-> 0] \in Works
      BY DEF Works
    <3> QED
      BY <3>1, <3>2 DEF Begin, Start, tableVars, chainVars
  <2>2. CASE UseWallet(s)
    <3>1. PICK r \in RowsOf(s) : PaysTo(s, r.address)
      BY <2>2 DEF UseWallet
    <3>2. r.address \in Nat
      BY DEF RowsOf, Rows
    <3>3. [op |-> work[s].op, order |-> work[s].order, at |-> "send", to |-> r.address]
            \in Works
      BY <2>0, <3>2, WorksClosed
    <3>4. work' = [work EXCEPT ![s] =
              [op |-> work[s].op, order |-> work[s].order, at |-> "send", to |-> r.address]]
      BY <3>1 DEF PaysTo
    <3> QED
      BY <2>2, <3>3, <3>4 DEF UseWallet, tableVars, chainVars
  <2>3. CASE NewWallet(s)
    <3>1. work[s].order \in Orders
      BY <2>3 DEF NewWallet, Looking, Works
    <3> DEFINE u == PayTo(work[s].op, work[s].order)
               c == Chain(work[s].order)
    <3>2. u \in Users /\ c \in Chains
      BY <3>1, PartiesAndChains
    <3>3. [user |-> u, chain |-> c] \in Owners /\ RowFor(u, c) \in Rows
          /\ Len(drawn) + 1 \in Nat
      BY <3>2 DEF Owners, Rows, RowFor
    <3>4. drawn' \in Seq(Owners)
      BY <2>3, <3>3, KeysStay DEF NewWallet, Draw
    <3>5. [op |-> work[s].op, order |-> work[s].order, at |-> "send", to |-> Len(drawn) + 1]
            \in Works
      BY <2>0, <3>3, WorksClosed
    <3>6. work' = [work EXCEPT ![s] =
              [op |-> work[s].op, order |-> work[s].order, at |-> "send", to |-> Len(drawn) + 1]]
      BY <2>3 DEF NewWallet, PaysTo
    <3>7. unsaved' \in [Sessions -> SUBSET Rows]
      BY <2>3, <3>3 DEF NewWallet
    <3> QED
      BY <2>3, <3>4, <3>5, <3>6, <3>7 DEF NewWallet, tableVars, chainVars
  <2>4. CASE NoAddress(s) \/ SendRaises(s)
    <3>1. work' \in [Sessions -> Works]
      BY <2>4, <1>0, <2>0 DEF NoAddress, SendRaises, Raise
    <3> QED
      BY <2>4, <3>1 DEF NoAddress, SendRaises, tableVars, chainVars
  <2>5. CASE SendReturns(s) \/ SendLost(s)
    <3>1. work' \in [Sessions -> Works]
      BY <2>5, <1>0, <2>0 DEF SendReturns, SendLost, Raise
    <3>2. pool' \in [Orders -> SUBSET Nat]
      <4>1. pool' = [pool EXCEPT ![work[s].order] = @ \cup {work[s].to}]
        BY <2>5 DEF SendReturns, SendLost, Broadcast
      <4> QED
        BY <2>0, <4>1 DEF SendReturns, SendLost, Broadcast
    <3> QED
      BY <2>5, <3>1, <3>2 DEF SendReturns, SendLost, tableVars
  <2>6. CASE CommitConfirm(s)
    <3> QED
      BY <2>6, <2>0, <1>0 DEF CommitConfirm, Ends, Statuses, chainVars
  <2>7. CASE RollBackDecision(s)
    BY <2>7, <1>0 DEF RollBackDecision, Ends, tableVars, chainVars
  <2> QED
    BY <1>2, <2>1, <2>2, <2>3, <2>4, <2>5, <2>6, <2>7 DEF SessionStep
<1>3. ASSUME NEW c \in {"connected", "unconnected"}, GetClient(c) PROVE TypeOK'
  BY <1>3 DEF GetClient, Clients, tableVars, chainVars, sessionVars
<1>4. ASSUME NEW u \in Users, NEW c \in Chains, GenerateWallet(u, c) PROVE TypeOK'
  <2>1. [user |-> u, chain |-> c] \in Owners /\ RowFor(u, c) \in Rows
    BY DEF Owners, Rows, RowFor
  <2>2. drawn' \in Seq(Owners)
    BY <1>4, <2>1, KeysStay DEF GenerateWallet, Draw
  <2> QED
    BY <1>4, <2>1, <2>2 DEF GenerateWallet, chainVars, sessionVars
<1>5. ASSUME NEW S \in SUBSET Orders, SweepBegin(S) PROVE TypeOK'
  <2>1. [work[Sweeper] EXCEPT !.op = "sweep"] \in Works
    BY WorksClosed
  <2>2. work' = [work EXCEPT ![Sweeper] = [work[Sweeper] EXCEPT !.op = "sweep"]]
    BY <1>5 DEF SweepBegin, Works
  <2> QED
    BY <1>5, <2>1, <2>2 DEF SweepBegin, tableVars, chainVars
<1>6. CASE SweepEnd
  BY <1>6, <1>0 DEF SweepEnd, Ends, tableVars, chainVars
<1>7. CASE Crash
  BY <1>7, <1>0 DEF Crash, Clients, tableVars, chainVars
<1>8. CASE UNCHANGED vars
  BY <1>8 DEF vars, tableVars, chainVars, sessionVars
<1> QED
  BY <1>1, <1>2, <1>3, <1>4, <1>5, <1>6, <1>7, <1>8 DEF Next

\* Steps that broadcast nothing, mine nothing and commit no wallet, and leave
\* what other sessions read alone.
LEMMA QuietStep ==
  ASSUME IInv, TypeOK', UNCHANGED <<asset, drawn, pool, mined, txHash, wallets, unsaved>>,
         \A o \in Orders : status'[o] = "completed" => status[o] = "completed",
         \A t \in Sessions : work'[t] = work[t] \/ work'[t].at \notin {"send", "sent"}
  PROVE  IInv'
<1>1. \A t \in Sessions : ReadBy(t)'
  BY RowsUnchanged DEF ReadBy
<1> QED
  BY <1>1, MoneyUnchanged, RowsUnchanged DEF IInv, WorkIsRead

\* A session that ends, or all of them, without a commit.
LEMMA SessionGone ==
  ASSUME IInv, TypeOK', UNCHANGED <<asset, drawn, pool, mined, tableVars>>,
         \A t \in Sessions : \/ work'[t] = work[t] /\ unsaved'[t] = unsaved[t]
                             \/ work'[t] = Idle /\ unsaved'[t] = {}
  PROVE  IInv'
<1>1. ASSUME NEW t \in Sessions PROVE ReadBy(t)'
  <2>1. CASE work'[t] = Idle
    BY <2>1 DEF ReadBy, Idle
  <2>2. CASE work'[t] = work[t] /\ unsaved'[t] = unsaved[t]
    <3>1. ReadBy(t)
      BY DEF IInv, WorkIsRead
    <3> QED
      BY <2>2, <3>1 DEF ReadBy, Row, Chain, PayTo, tableVars
  <2> QED
    BY <2>1, <2>2
<1>2. RowsAreDrawn'
  BY DEF IInv, RowsAreDrawn, KeyOf, tableVars
<1>3. PoolIsForParties' /\ PayoutsReachParties'
  BY MoneyUnchanged DEF tableVars
<1> QED
  BY <1>1, <1>2, <1>3 DEF IInv, WorkIsRead

\* A key is drawn: what was known stays known.
LEMMA KeyDrawn ==
  ASSUME IInv, NEW x \in Owners, drawn' = Append(drawn, x),
         UNCHANGED <<asset, status, txHash, pool, mined>>,
         wallets \subseteq wallets'
  PROVE  PoolIsForParties' /\ PayoutsReachParties'
<1>1. \A a, o : OfParty(a, o) => OfParty(a, o)'
  BY KeysStay DEF IInv
<1>2. PoolIsForParties'
  BY <1>1 DEF IInv, PoolIsForParties
<1>3. ASSUME NEW o \in Orders
      PROVE  (/\ mined[o] # 0 => OfParty(mined[o], o)
              /\ status[o] = "completed" =>
                    Row(txHash[o], PayTo("confirm", o), o) \in wallets)'
  <2>1. /\ mined[o] # 0 => OfParty(mined[o], o)
        /\ status[o] = "completed" => Row(txHash[o], PayTo("confirm", o), o) \in wallets
    BY DEF IInv, PayoutsReachParties
  <2>2. (mined[o] # 0 => OfParty(mined[o], o))'
    BY <1>1, <2>1
  <2>3. (status[o] = "completed" => Row(txHash[o], PayTo("confirm", o), o) \in wallets)'
    BY <2>1 DEF Row, Chain, PayTo
  <2> QED
    BY <2>2, <2>3
<1>4. PayoutsReachParties'
  BY <1>3 DEF PayoutsReachParties
<1> QED
  BY <1>2, <1>4

\* One step of an order.
LEMMA OrderStepInv ==
  ASSUME IInv, TypeOK', NEW o \in Orders, OrderStep(o)
  PROVE  IInv'
<1> USE DEF IInv
<1>1. CASE CreateOrder(o) \/ Detect(o) \/ TakeOrder(o) \/ RaiseDispute(o)
  <2>1. \A p \in Orders : status'[p] = "completed" => status[p] = "completed"
    BY <1>1 DEF CreateOrder, Detect, TakeOrder, RaiseDispute, TypeOK
  <2> QED
    BY <1>1, <2>1, QuietStep
       DEF CreateOrder, Detect, TakeOrder, RaiseDispute, chainVars, sessionVars
<1>2. CASE Deposit(o)
  BY <1>2, QuietStep DEF Deposit, tableVars, sessionVars
<1>3. CASE SweepNext(o)
  <2>1. \A t \in Sessions : work'[t] = work[t] \/ work'[t].at \notin {"send", "sent"}
    BY <1>3 DEF SweepNext, Start, TypeOK
  <2> QED
    BY <1>3, <2>1, QuietStep DEF SweepNext, tableVars, chainVars
<1>4. CASE \E a \in pool[o] : Mine(o, a)
  <2>1. PICK a \in pool[o] : Mine(o, a)
    BY <1>4
  <2>2. OfParty(a, o)
    BY DEF PoolIsForParties
  <2>3. \A b, p : OfParty(b, p)' <=> OfParty(b, p)
    BY <2>1 DEF Mine, OfParty, DrawnFor, Chain
  <2>4. \A t \in Sessions : ReadBy(t)'
    BY <2>1, RowsUnchanged DEF Mine, tableVars, sessionVars
  <2>5. RowsAreDrawn'
    BY <2>1, RowsUnchanged DEF Mine, tableVars, sessionVars
  <2>6. PoolIsForParties'
    BY <2>1, <2>3 DEF Mine, PoolIsForParties, TypeOK
  <2>7. ASSUME NEW p \in Orders
        PROVE  (/\ mined[p] # 0 => OfParty(mined[p], p)
                /\ status[p] = "completed" =>
                      Row(txHash[p], PayTo("confirm", p), p) \in wallets)'
    <3>1. /\ mined[p] # 0 => OfParty(mined[p], p)
          /\ status[p] = "completed" => Row(txHash[p], PayTo("confirm", p), p) \in wallets
      BY DEF PayoutsReachParties
    <3>2. (mined'[p] = a /\ p = o) \/ mined'[p] = mined[p]
      BY <2>1 DEF Mine, TypeOK
    <3>3. (mined[p] # 0 => OfParty(mined[p], p))'
      BY <2>2, <2>3, <3>1, <3>2
    <3>4. (status[p] = "completed" => Row(txHash[p], PayTo("confirm", p), p) \in wallets)'
      BY <2>1, <3>1 DEF Mine, Row, Chain, PayTo, tableVars
    <3> QED
      BY <3>3, <3>4
  <2>8. PayoutsReachParties'
    BY <2>7 DEF PayoutsReachParties
  <2> QED
    BY <2>4, <2>5, <2>6, <2>8 DEF WorkIsRead
<1> QED
  BY <1>1, <1>2, <1>3, <1>4 DEF OrderStep

\* The row of a key that is drawn now holds it, and the other rows theirs.
LEMMA NewKey ==
  ASSUME TypeOK, NEW u \in Users, NEW c \in Chains, NEW r, r = RowFor(u, c), Draw(u, c),
         asset' = asset
  PROVE  /\ KeyOf(r)'
         /\ \A q : KeyOf(q) => KeyOf(q)'
         /\ \E x \in Owners : drawn' = Append(drawn, x)
<1>1. [user |-> u, chain |-> c] \in Owners /\ drawn' = Append(drawn, [user |-> u, chain |-> c])
  BY DEF Owners, Draw
<1>2. /\ Len(drawn') = Len(drawn) + 1 /\ Len(drawn) \in Nat
      /\ drawn'[Len(drawn) + 1] = [user |-> u, chain |-> c]
      /\ \A q : KeyOf(q) => KeyOf(q)'
  BY <1>1, KeysStay DEF TypeOK
<1>3. r.address = Len(drawn) + 1 /\ r.user = u /\ r.chain = c
  BY DEF RowFor
<1> QED
  BY <1>1, <1>2, <1>3 DEF KeyOf

\* A settlement finds its payee's wallet.
LEMMA UseWalletInv ==
  ASSUME IInv, TypeOK', NEW s \in Sessions, UseWallet(s)
  PROVE  IInv'
<1> USE DEF IInv
<1>1. work[s].order \in Orders /\ work[s] \in Works
  BY DEF UseWallet, Looking, TypeOK, Works
<1>2. PICK r \in RowsOf(s) : PaysTo(s, r.address)
  BY DEF UseWallet
<1>3. r = Row(r.address, PayTo(work[s].op, work[s].order), work[s].order)
  BY <1>2 DEF RowsOf, Row, TypeOK, Rows
<1>4. work' = [work EXCEPT ![s] =
          [op |-> work[s].op, order |-> work[s].order, at |-> "send", to |-> r.address]]
  BY <1>2 DEF PaysTo
<1>5. /\ work'[s].order = work[s].order /\ work'[s].op = work[s].op
      /\ work'[s].to = r.address
      /\ \A t \in Sessions \ {s} : work'[t] = work[t]
  BY <1>4 DEF TypeOK
<1>6. ReadBy(s)'
  <2>1. Row(r.address, PayTo(work[s].op, work[s].order), work[s].order)
            \in wallets \cup unsaved[s]
    BY <1>2, <1>3 DEF RowsOf
  <2> QED
    BY <1>1, <1>5, <2>1 DEF ReadBy, Row, Chain, PayTo, UseWallet, tableVars
<1>7. \A t \in Sessions \ {s} : ReadBy(t)'
  BY <1>5, RowsUnchanged DEF UseWallet, tableVars
<1>8. RowsAreDrawn' /\ PoolIsForParties' /\ PayoutsReachParties'
  BY RowsUnchanged, MoneyUnchanged DEF UseWallet, tableVars, chainVars
<1> QED
  BY <1>6, <1>7, <1>8 DEF WorkIsRead

\* Or draws one, in a row of its session.
LEMMA NewWalletInv ==
  ASSUME IInv, TypeOK', NEW s \in Sessions, NewWallet(s)
  PROVE  IInv'
<1> USE DEF IInv
<1>1. work[s].order \in Orders /\ work[s] \in Works
  BY DEF NewWallet, Looking, TypeOK, Works
<1>2. PICK u \in Users, c \in Chains : /\ u = PayTo(work[s].op, work[s].order)
                                       /\ c = Chain(work[s].order)
  BY <1>1, PartiesAndChains
<1>3. PICK r : r = RowFor(u, c)
  OBVIOUS
<1>4. /\ Draw(u, c)
      /\ unsaved' = [unsaved EXCEPT ![s] = @ \cup {r}]
      /\ PaysTo(s, r.address)
      /\ UNCHANGED <<asset, tableVars, chainVars, client, lock, left>>
  BY <1>2, <1>3 DEF NewWallet, RowFor
<1>5. /\ KeyOf(r)' /\ \A q : KeyOf(q) => KeyOf(q)'
      /\ \E x \in Owners : drawn' = Append(drawn, x)
  BY <1>3, <1>4, NewKey
<1>6. work' = [work EXCEPT ![s] =
          [op |-> work[s].op, order |-> work[s].order, at |-> "send", to |-> r.address]]
  BY <1>4 DEF PaysTo
<1>7. /\ work'[s].order = work[s].order /\ work'[s].op = work[s].op
      /\ work'[s].to = r.address
      /\ \A t \in Sessions \ {s} : work'[t] = work[t] /\ unsaved'[t] = unsaved[t]
      /\ unsaved'[s] = unsaved[s] \cup {r}
  BY <1>4, <1>6 DEF TypeOK
<1>8. RowsAreDrawn'
  <2>1. ASSUME NEW t \in Sessions, NEW q \in unsaved'[t] PROVE KeyOf(q)'
    BY <1>5, <1>7, <2>1 DEF RowsAreDrawn
  <2>2. ASSUME NEW q \in wallets' PROVE KeyOf(q)'
    BY <1>4, <1>5, <2>2 DEF RowsAreDrawn, tableVars
  <2> QED
    BY <2>1, <2>2 DEF RowsAreDrawn
<1>9. ReadBy(s)'
  <2>1. r = Row(r.address, PayTo(work[s].op, work[s].order), work[s].order)
    BY <1>2, <1>3 DEF Row, RowFor
  <2>2. Row(r.address, PayTo(work[s].op, work[s].order), work[s].order) \in unsaved'[s]
    BY <1>7, <2>1
  <2> QED
    BY <1>1, <1>4, <1>7, <2>2 DEF ReadBy, Row, Chain, PayTo
<1>10. ASSUME NEW t \in Sessions \ {s} PROVE ReadBy(t)'
  <2>1. ReadBy(t)
    BY DEF WorkIsRead
  <2> QED
    BY <1>4, <1>7, <2>1 DEF ReadBy, Row, Chain, PayTo, tableVars
<1>11. PoolIsForParties' /\ PayoutsReachParties'
  BY <1>4, <1>5, KeyDrawn DEF tableVars, chainVars
<1> QED
  BY <1>8, <1>9, <1>10, <1>11 DEF WorkIsRead

\* A transfer is broadcast: to a wallet of its payee, hence of a party.
LEMMA BroadcastInv ==
  ASSUME IInv, TypeOK', NEW s \in Sessions, SendReturns(s) \/ SendLost(s)
  PROVE  IInv'
<1> USE DEF IInv
<1>1. /\ Broadcast(s)
      /\ UNCHANGED <<asset, tableVars, drawn, funded, mined, client, lock, unsaved, left>>
  BY DEF SendReturns, SendLost
<1>2. work[s].order \in Orders /\ OfParty(work[s].to, work[s].order)
  <2>1. ReadBy(s) /\ work[s].at = "send"
    BY <1>1 DEF WorkIsRead, Broadcast
  <2> QED
    BY <2>1, RowIsOfParty DEF ReadBy
<1>3. \A a, o : OfParty(a, o)' <=> OfParty(a, o)
  BY <1>1 DEF OfParty, DrawnFor, Chain
<1>4. PoolIsForParties'
  <2>1. pool' = [pool EXCEPT ![work[s].order] = @ \cup {work[s].to}]
    BY <1>1 DEF Broadcast
  <2> QED
    BY <1>2, <1>3, <2>1 DEF PoolIsForParties, TypeOK
<1>5. PayoutsReachParties'
  BY <1>1, <1>3 DEF PayoutsReachParties, Row, Chain, PayTo, tableVars
<1>6. /\ \A t \in Sessions \ {s} : work'[t] = work[t]
      /\ \/ work'[s].at \notin {"send", "sent"}
         \/ work'[s] = [work[s] EXCEPT !.at = "sent"]
  BY DEF SendReturns, SendLost, Raise, Idle, TypeOK, Works
<1>7. RowsAreDrawn' /\ \A t \in Sessions \ {s} : ReadBy(t)'
  BY <1>1, <1>6, RowsUnchanged DEF tableVars
<1>8. ReadBy(s)'
  <2>1. CASE work'[s].at \notin {"send", "sent"}
    BY <2>1 DEF ReadBy
  <2>2. CASE work'[s] = [work[s] EXCEPT !.at = "sent"]
    <3>1. /\ work'[s].order = work[s].order /\ work'[s].op = work[s].op
          /\ work'[s].to = work[s].to
      BY <2>2 DEF TypeOK, Works
    <3>2. ReadBy(s) /\ work[s].at = "send"
      BY <1>1 DEF WorkIsRead, Broadcast
    <3> QED
      BY <1>1, <3>1, <3>2 DEF ReadBy, Row, Chain, PayTo, tableVars
  <2> QED
    BY <1>6, <2>1, <2>2
<1> QED
  BY <1>4, <1>5, <1>7, <1>8 DEF WorkIsRead

\* A confirmation commits its status, its hash and the wallet it drew together.
LEMMA CommitInv ==
  ASSUME IInv, TypeOK', NEW s \in Sessions, CommitConfirm(s)
  PROVE  IInv'
<1> USE DEF IInv
<1> DEFINE o == work[s].order
<1>1. /\ wallets' = wallets \cup unsaved[s]
      /\ UNCHANGED <<asset, drawn, chainVars, client, left>>
      /\ work'[s] = Idle /\ unsaved'[s] = {}
      /\ \A t \in Sessions \ {s} : work'[t] = work[t] /\ unsaved'[t] = unsaved[t]
  BY DEF CommitConfirm, Ends, TypeOK
<1>2. RowsAreDrawn'
  BY <1>1 DEF RowsAreDrawn, KeyOf
<1>3. ASSUME NEW t \in Sessions PROVE ReadBy(t)'
  <2>1. CASE t = s
    BY <1>1, <2>1 DEF ReadBy, Idle
  <2>2. CASE t # s
    <3>1. ReadBy(t)
      BY DEF WorkIsRead
    <3> QED
      BY <1>1, <2>2, <3>1 DEF ReadBy, Row, Chain, PayTo
  <2> QED
    BY <2>1, <2>2
<1>4. \A a, p : OfParty(a, p)' <=> OfParty(a, p)
  BY <1>1 DEF OfParty, DrawnFor, Chain
<1>5. PoolIsForParties'
  BY <1>1, <1>4 DEF PoolIsForParties, chainVars
<1>6. ASSUME NEW p \in Orders
      PROVE  (/\ mined[p] # 0 => OfParty(mined[p], p)
              /\ status[p] = "completed" =>
                    Row(txHash[p], PayTo("confirm", p), p) \in wallets)'
  <2>1. /\ mined[p] # 0 => OfParty(mined[p], p)
        /\ status[p] = "completed" => Row(txHash[p], PayTo("confirm", p), p) \in wallets
    BY DEF PayoutsReachParties
  <2>2. (mined[p] # 0 => OfParty(mined[p], p))'
    BY <1>1, <1>4, <2>1 DEF chainVars
  <2>3. (status[p] = "completed" => Row(txHash[p], PayTo("confirm", p), p) \in wallets)'
    <3>1. CASE p = o /\ work[s].at = "sent"
      <4>1. ReadBy(s) /\ work[s].op = "confirm"
        BY DEF WorkIsRead, CommitConfirm
      <4>2. txHash'[p] = work[s].to
        BY <3>1 DEF CommitConfirm, TypeOK
      <4>3. Row(work[s].to, PayTo("confirm", p), p) \in wallets'
        BY <1>1, <3>1, <4>1 DEF ReadBy
      <4> QED
        BY <1>1, <4>2, <4>3 DEF Row, Chain, PayTo
    <3>2. CASE ~(p = o /\ work[s].at = "sent")
      <4>1. /\ status'[p] = "completed" => status[p] = "completed"
            /\ txHash'[p] = txHash[p]
        BY <3>2 DEF CommitConfirm, TypeOK
      <4> QED
        BY <1>1, <2>1, <4>1 DEF Row, Chain, PayTo
    <3> QED
      BY <3>1, <3>2
  <2> QED
    BY <2>2, <2>3
<1>7. PayoutsReachParties'
  BY <1>6 DEF PayoutsReachParties
<1> QED
  BY <1>2, <1>3, <1>5, <1>7 DEF WorkIsRead

\* One step of a session.
LEMMA SessionStepInv ==
  ASSUME IInv, TypeOK', NEW s \in Sessions, SessionStep(s)
  PROVE  IInv'
<1>1. CASE \E k \in Calls, o \in Orders : Begin(s, k, o)
  <2>1. PICK k \in Calls, o \in Orders : Begin(s, k, o)
    BY <1>1
  <2>2. \A t \in Sessions : work'[t] = work[t] \/ work'[t].at \notin {"send", "sent"}
    BY <2>1 DEF Begin, Start, IInv, TypeOK
  <2> QED
    BY <2>1, <2>2, QuietStep DEF Begin, tableVars, chainVars
<1>2. CASE NoAddress(s) \/ SendRaises(s)
  <2>1. \A t \in Sessions : work'[t] = work[t] \/ work'[t].at \notin {"send", "sent"}
    <3>1. [Idle EXCEPT !.op = "sweep"].at = "address"
      BY DEF Idle
    <3>2. [work[s] EXCEPT !.at = "failed"].at = "failed"
      BY DEF IInv, TypeOK, Works
    <3>3. \/ work' = [work EXCEPT ![s] = [Idle EXCEPT !.op = "sweep"]]
          \/ work' = [work EXCEPT ![s] = [work[s] EXCEPT !.at = "failed"]]
      BY <1>2 DEF NoAddress, SendRaises, Raise
    <3> QED
      BY <3>1, <3>2, <3>3 DEF IInv, TypeOK
  <2> QED
    BY <1>2, <2>1, QuietStep DEF NoAddress, SendRaises, tableVars, chainVars
<1>3. CASE RollBackDecision(s)
  <2>1. \A t \in Sessions : \/ work'[t] = work[t] /\ unsaved'[t] = unsaved[t]
                            \/ work'[t] = Idle /\ unsaved'[t] = {}
    BY <1>3 DEF RollBackDecision, Ends, IInv, TypeOK
  <2> QED
    BY <1>3, <2>1, SessionGone DEF RollBackDecision, tableVars, chainVars
<1> QED
  BY <1>1, <1>2, <1>3, UseWalletInv, NewWalletInv, BroadcastInv, CommitInv DEF SessionStep

\* The button of the wallet screen commits the key it draws.
LEMMA ButtonInv ==
  ASSUME IInv, TypeOK', NEW u \in Users, NEW c \in Chains, GenerateWallet(u, c)
  PROVE  IInv'
<1> USE DEF IInv
<1>1. PICK r : r = RowFor(u, c)
  OBVIOUS
<1>2. /\ Draw(u, c) /\ wallets' = wallets \cup {r}
      /\ UNCHANGED <<asset, status, txHash, chainVars, client, sessionVars>>
  BY <1>1 DEF GenerateWallet
<1>3. /\ KeyOf(r)' /\ \A q : KeyOf(q) => KeyOf(q)'
      /\ \E x \in Owners : drawn' = Append(drawn, x)
  BY <1>1, <1>2, NewKey
<1>4. RowsAreDrawn'
  BY <1>2, <1>3 DEF RowsAreDrawn, sessionVars
<1>5. ASSUME NEW t \in Sessions PROVE ReadBy(t)'
  <2>1. ReadBy(t)
    BY DEF WorkIsRead
  <2> QED
    BY <1>2, <2>1 DEF ReadBy, Row, Chain, PayTo, sessionVars
<1>6. PoolIsForParties' /\ PayoutsReachParties'
  BY <1>2, <1>3, KeyDrawn DEF chainVars
<1> QED
  BY <1>4, <1>5, <1>6 DEF WorkIsRead

-----------------------------------------------------------------------------
(* The theorems.                                                           *)

\* The inductive invariant: every row holds the key of its address, every
\* settlement under way has read the wallet it pays to, and what waits to be
\* mined was sent to a party.
THEOREM Inductive == Spec => []IInv
<1>1. Init => IInv
  BY InitInv
<1>2. IInv /\ [Next]_vars => IInv'
  <2> SUFFICES ASSUME IInv, [Next]_vars PROVE IInv'
    OBVIOUS
  <2>0. TypeOK'
    BY NextTypes DEF IInv
  <2>1. CASE \E o \in Orders : OrderStep(o)
    BY <2>0, <2>1, OrderStepInv
  <2>2. CASE \E s \in Sessions : SessionStep(s)
    BY <2>0, <2>2, SessionStepInv
  <2>3. CASE \E c \in {"connected", "unconnected"} : GetClient(c)
    BY <2>0, <2>3, QuietStep DEF GetClient, tableVars, chainVars, sessionVars
  <2>4. CASE \E u \in Users, c \in Chains : GenerateWallet(u, c)
    BY <2>0, <2>4, ButtonInv
  <2>5. CASE \E S \in SUBSET Orders : SweepBegin(S)
    <3>1. PICK S \in SUBSET Orders : SweepBegin(S)
      BY <2>5
    <3>2. \A t \in Sessions : work'[t] = work[t] \/ work'[t].at \notin {"send", "sent"}
      BY <3>1 DEF SweepBegin, Idle, IInv, TypeOK
    <3> QED
      BY <2>0, <3>1, <3>2, QuietStep DEF SweepBegin, tableVars, chainVars
  <2>6. CASE SweepEnd
    <3>1. \A t \in Sessions : \/ work'[t] = work[t] /\ unsaved'[t] = unsaved[t]
                              \/ work'[t] = Idle /\ unsaved'[t] = {}
      BY <2>6, WalletsAssumption DEF SweepEnd, Ends, IInv, TypeOK
    <3> QED
      BY <2>0, <2>6, <3>1, SessionGone DEF SweepEnd, chainVars
  <2>7. CASE Crash
    BY <2>0, <2>7, SessionGone DEF Crash, chainVars
  <2>8. CASE UNCHANGED vars
    BY <2>0, <2>8, QuietStep DEF vars, tableVars, chainVars, sessionVars
  <2> QED
    BY <2>1, <2>2, <2>3, <2>4, <2>5, <2>6, <2>7, <2>8 DEF Next
<1> QED
  BY <1>1, <1>2, PTL DEF Spec

\* The tables, the chain and the process hold values of their types.
THEOREM Types == Spec => []TypeOK
<1>1. IInv => TypeOK
  BY DEF IInv
<1> QED
  BY <1>1, Inductive, PTL

\* Every payout of an escrow wallet goes to an address drawn for a party, and a
\* completed order names a wallet of its payee that is in the table.
THEOREM PartiesArePaid == Spec => []PayoutsReachParties
<1>1. IInv => PayoutsReachParties
  BY DEF IInv
<1> QED
  BY <1>1, Inductive, PTL
=============================================================================
