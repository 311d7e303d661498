---------------------------- MODULE Dialogs_proofs ----------------------------
(***************************************************************************)
(* Theorems about Dialogs on MemoryStorage, for any orders, reasons,       *)
(* fields and number of handlers that overlap: a state is never without    *)
(* its data, and a handler acts on what the user was shown.                *)
(***************************************************************************)
EXTENDS Dialogs, TLAPS

-----------------------------------------------------------------------------
(* The operations of the storage.                                          *)

M(s, d, r) == [state |-> s, data |-> d, read |-> r]

\* Data with one key changed.
With(d, k, v) == [d EXCEPT ![k] = v]

\* Blocks that open a flow, that go on with one and that only change the state.
Enters(x, k, v) == <<Set(x), Get, Put(k, v)>>
Stores(x, k, v) == <<Get, Put(k, v), Set(x)>>
Only(x) == <<Set(x)>>
Takes == <<Get, Set(None), Wipe>>
Reads == <<Get>>

\* What each operation does to the state, the data and the handler's copy.
LEMMA Operations ==
  ASSUME NEW s, NEW d, NEW r
  PROVE  /\ \A x : Apply(M(s, d, r), Set(x)) = M(x, d, r)
         /\ Apply(M(s, d, r), Get) = M(s, d, d)
         /\ \A k, v : Apply(M(s, d, r), Put(k, v)) = M(s, With(r, k, v), r)
         /\ Apply(M(s, d, r), Wipe) = M(s, NoData, r)
<1>1. ASSUME NEW x PROVE Apply(M(s, d, r), Set(x)) = M(x, d, r)
  BY DEF Apply, Set, M
<1>2. Apply(M(s, d, r), Get) = M(s, d, d)
  BY DEF Apply, Get, M
<1>3. ASSUME NEW k, NEW v PROVE Apply(M(s, d, r), Put(k, v)) = M(s, With(r, k, v), r)
  BY DEF Apply, Put, M, With
<1>4. Apply(M(s, d, r), Wipe) = M(s, NoData, r)
  BY DEF Apply, Wipe, M
<1> QED
  BY <1>1, <1>2, <1>3, <1>4

\* A block is its operations one after the other.
LEMMA Blocks ==
  ASSUME NEW m, NEW b
  PROVE  /\ DOMAIN b = {} => ApplyAll(m, b) = m
         /\ DOMAIN b = {1} => ApplyAll(m, b) = Apply(m, b[1])
         /\ DOMAIN b = {1, 2} => ApplyAll(m, b) = Apply(Apply(m, b[1]), b[2])
         /\ DOMAIN b = {1, 2, 3}
              => ApplyAll(m, b) = Apply(Apply(Apply(m, b[1]), b[2]), b[3])
  BY DEF ApplyAll, ApplyAt

\* The blocks the handlers are made of.
LEMMA BlockEffects ==
  ASSUME NEW s, NEW d, NEW r
  PROVE  /\ ApplyAll(M(s, d, r), <<>>) = M(s, d, r)
         /\ ApplyAll(M(s, d, r), Reads) = M(s, d, d)
         /\ ApplyAll(M(s, d, r), Clear) = M(None, NoData, r)
         /\ ApplyAll(M(s, d, r), Takes) = M(None, NoData, d)
         /\ \A x : ApplyAll(M(s, d, r), Only(x)) = M(x, d, r)
         /\ \A x, k, v : ApplyAll(M(s, d, r), Enters(x, k, v)) = M(x, With(d, k, v), d)
         /\ \A x, k, v : ApplyAll(M(s, d, r), Stores(x, k, v)) = M(x, With(d, k, v), d)
<1>0. /\ Apply(M(s, d, r), Get) = M(s, d, d)
      /\ Apply(M(s, d, r), Wipe) = M(s, NoData, r)
      /\ Apply(M(None, d, r), Wipe) = M(None, NoData, r)
      /\ Apply(M(None, d, d), Wipe) = M(None, NoData, d)
  BY Operations
<1>1. ASSUME NEW x
      PROVE  /\ Apply(M(s, d, r), Set(x)) = M(x, d, r)
             /\ Apply(M(s, d, d), Set(x)) = M(x, d, d)
             /\ Apply(M(x, d, r), Get) = M(x, d, d)
  BY Operations
<1>2. ASSUME NEW x, NEW k, NEW v
      PROVE  /\ Apply(M(x, d, d), Put(k, v)) = M(x, With(d, k, v), d)
             /\ Apply(M(s, d, d), Put(k, v)) = M(s, With(d, k, v), d)
             /\ Apply(M(s, With(d, k, v), d), Set(x)) = M(x, With(d, k, v), d)
  BY Operations
<1>3. ApplyAll(M(s, d, r), <<>>) = M(s, d, r)
  BY DEF ApplyAll, ApplyAt
<1>4. ApplyAll(M(s, d, r), Reads) = M(s, d, d)
  <2>1. DOMAIN Reads = {1} /\ Reads[1] = Get
    BY DEF Reads
  <2> QED
    BY <1>0, <2>1, Blocks
<1>5. ApplyAll(M(s, d, r), Clear) = M(None, NoData, r)
  <2>1. DOMAIN Clear = {1, 2} /\ Clear[1] = Set(None) /\ Clear[2] = Wipe
    BY DEF Clear
  <2> QED
    BY <1>0, <1>1, <2>1, Blocks
<1>6. ApplyAll(M(s, d, r), Takes) = M(None, NoData, d)
  <2>1. DOMAIN Takes = {1, 2, 3} /\ Takes[1] = Get /\ Takes[2] = Set(None) /\ Takes[3] = Wipe
    BY DEF Takes
  <2> QED
    BY <1>0, <1>1, <2>1, Blocks
<1>7. ASSUME NEW x PROVE ApplyAll(M(s, d, r), Only(x)) = M(x, d, r)
  <2>1. DOMAIN Only(x) = {1} /\ Only(x)[1] = Set(x)
    BY DEF Only
  <2> QED
    BY <1>1, <2>1, Blocks
<1>8. ASSUME NEW x, NEW k, NEW v PROVE ApplyAll(M(s, d, r), Enters(x, k, v)) = M(x, With(d, k, v), d)
  <2>1. DOMAIN Enters(x, k, v) = {1, 2, 3} /\ Enters(x, k, v)[1] = Set(x) /\ Enters(x, k, v)[2] = Get /\ Enters(x, k, v)[3] = Put(k, v)
    BY DEF Enters
  <2>2. ApplyAll(M(s, d, r), Enters(x, k, v))
          = Apply(Apply(Apply(M(s, d, r), Enters(x, k, v)[1]), Enters(x, k, v)[2]), Enters(x, k, v)[3])
    BY <2>1, Blocks
  <2> QED
    BY <1>1, <1>2, <2>1, <2>2
<1>9. ASSUME NEW x, NEW k, NEW v PROVE ApplyAll(M(s, d, r), Stores(x, k, v)) = M(x, With(d, k, v), d)
  <2>1. DOMAIN Stores(x, k, v) = {1, 2, 3} /\ Stores(x, k, v)[1] = Get /\ Stores(x, k, v)[2] = Put(k, v) /\ Stores(x, k, v)[3] = Set(x)
    BY DEF Stores
  <2>2. ApplyAll(M(s, d, r), Stores(x, k, v))
          = Apply(Apply(Apply(M(s, d, r), Stores(x, k, v)[1]), Stores(x, k, v)[2]), Stores(x, k, v)[3])
    BY <2>1, Blocks
  <2> QED
    BY <1>0, <1>2, <2>1, <2>2
<1> QED
  <2>1. \A x : ApplyAll(M(s, d, r), Only(x)) = M(x, d, r)
    BY <1>7
  <2>2. \A x, k, v : ApplyAll(M(s, d, r), Enters(x, k, v)) = M(x, With(d, k, v), d)
    BY <1>8
  <2>3. \A x, k, v : ApplyAll(M(s, d, r), Stores(x, k, v)) = M(x, With(d, k, v), d)
    BY <1>9
  <2> QED
    BY <2>1, <2>2, <2>3, <1>3, <1>4, <1>5, <1>6, Zenon

\* Programs have one block, two or three.
LEMMA Sequences ==
  ASSUME NEW a, NEW b, NEW c
  PROVE  /\ <<a>> # <<>> /\ Head(<<a>>) = a /\ Tail(<<a>>) = <<>>
         /\ <<a, b>> # <<>> /\ Head(<<a, b>>) = a /\ Tail(<<a, b>>) = <<b>>
         /\ <<a, b, c>> # <<>> /\ Head(<<a, b, c>>) = a /\ Tail(<<a, b, c>>) = <<b, c>>
  OBVIOUS

\* Blocks that file are told apart from clear(), and by what they file.
FileDispute == File("dispute", <<"order", "reason">>)
FileMessage == File("message", <<"order">>)
FileBranding == File("branding", <<"field">>)

LEMMA Filing ==
  /\ FileDispute # <<>> /\ FileMessage # <<>> /\ FileBranding # <<>> /\ Clear # <<>>
  /\ FileDispute[1].op = "file" /\ FileDispute[1].kind = "dispute"
  /\ FileDispute[1].keys = <<"order", "reason">>
  /\ FileMessage[1].op = "file" /\ FileMessage[1].kind = "message"
  /\ FileMessage[1].keys = <<"order">>
  /\ FileBranding[1].op = "file" /\ FileBranding[1].kind = "branding"
  /\ FileBranding[1].keys = <<"field">>
  /\ Clear[1].op = "state"
<1>1. FileDispute # <<>>
      /\ FileDispute[1] = [op |-> "file", kind |-> "dispute", keys |-> <<"order", "reason">>]
  BY DEF FileDispute, File
<1>2. FileMessage # <<>>
      /\ FileMessage[1] = [op |-> "file", kind |-> "message", keys |-> <<"order">>]
  BY DEF FileMessage, File
<1>3. FileBranding # <<>>
      /\ FileBranding[1] = [op |-> "file", kind |-> "branding", keys |-> <<"field">>]
  BY DEF FileBranding, File
<1>4. Clear # <<>> /\ Clear[1].op = "state"
  BY DEF Clear, Set
<1> QED
  BY <1>1, <1>2, <1>3, <1>4

\* What a handler has left after its first block, block by block.
LEMMA Tails ==
  /\ Tail(Confirmed) = <<FileDispute>> /\ Tail(Forward) = <<FileMessage>>
  /\ Tail(Value) = <<FileBranding, Clear>>
  /\ Tail(Query) = <<Clear>> /\ Tail(ForceStatus) = <<Clear>>
  BY DEF Confirmed, Forward, Value, Query, ForceStatus, FileDispute, FileMessage, FileBranding

LEMMA Heads ==
  /\ Tail(Confirmed) # <<>> /\ Head(Tail(Confirmed)) = FileDispute
  /\ Tail(Forward) # <<>> /\ Head(Tail(Forward)) = FileMessage
  /\ Tail(Value) # <<>> /\ Head(Tail(Value)) = FileBranding
  /\ <<Clear>> # <<>> /\ Head(<<Clear>>) = Clear
  /\ Tail(Tail(Confirmed)) = <<>> /\ Tail(Tail(Forward)) = <<>>
  /\ Tail(Tail(Value)) = <<Clear>> /\ Tail(<<Clear>>) = <<>>
<1>2. Tail(Confirmed) # <<>> /\ Head(Tail(Confirmed)) = FileDispute
      /\ Tail(Tail(Confirmed)) = <<>>
  BY Sequences, Tails
<1>3. Tail(Forward) # <<>> /\ Head(Tail(Forward)) = FileMessage
      /\ Tail(Tail(Forward)) = <<>>
  BY Sequences, Tails
<1>4. Tail(Value) # <<>> /\ Head(Tail(Value)) = FileBranding
      /\ Tail(Tail(Value)) = <<Clear>>
  <2>1. Tail(Value) = <<FileBranding, Clear>>
    BY Tails
  <2>2. ASSUME NEW a, NEW b
        PROVE  <<a, b>> # <<>> /\ Head(<<a, b>>) = a /\ Tail(<<a, b>>) = <<b>>
    OBVIOUS
  <2> QED
    BY <2>1, <2>2
<1>5. <<Clear>> # <<>> /\ Head(<<Clear>>) = Clear /\ Tail(<<Clear>>) = <<>>
  BY Sequences
<1> QED
  BY <1>2, <1>3, <1>4, <1>5, Zenon

\* Hence a handler that has one of them left has no other.
LEMMA RestsDiffer ==
  /\ Tail(Confirmed) \notin {Tail(Forward), Tail(Value), <<Clear>>, <<>>}
  /\ Tail(Forward) \notin {Tail(Value), <<Clear>>, <<>>}
  /\ Tail(Value) \notin {<<Clear>>, <<>>}
  BY Heads, Filing

-----------------------------------------------------------------------------
(* The first block of every handler, and what is left of the handler then.  *)

\* u's handler starts with block b and has rest left after it.
Runs(u, b, rest) ==
    Program(u) # <<>> /\ Head(Program(u)) = b /\ Tail(Program(u)) = rest

\* The handlers of a trade.
LEMMA TradePrograms ==
  ASSUME NEW u
  PROVE  /\ u.handler = "raise" => Runs(u, Enters("enter_reason", "order", u.arg), <<>>)
         /\ u.handler = "reason" => Runs(u, Stores("confirm_dispute", "reason", u.arg), <<>>)
         /\ u.handler = "confirmed" => Runs(u, Takes, Tail(Confirmed))
         /\ u.handler = "abort" => Runs(u, Clear, <<>>)
         /\ u.handler = "enter" => Runs(u, Stores("chatting", "order", u.arg), <<>>)
         /\ u.handler = "forward" => Runs(u, Reads, Tail(Forward))
<1>1. ASSUME u.handler = "raise" PROVE Runs(u, Enters("enter_reason", "order", u.arg), <<>>)
  <2>1. Program(u) = Raise(u.arg)
    BY <1>1 DEF Program
  <2>2. Raise(u.arg) = <<Enters("enter_reason", "order", u.arg)>>
    BY DEF Raise, Enters
  <2> QED
    BY <2>1, <2>2, Sequences DEF Runs
<1>2. ASSUME u.handler = "reason" PROVE Runs(u, Stores("confirm_dispute", "reason", u.arg), <<>>)
  <2>1. Program(u) = Reason(u.arg)
    BY <1>2 DEF Program
  <2>2. Reason(u.arg) = <<Stores("confirm_dispute", "reason", u.arg)>>
    BY DEF Reason, Stores
  <2> QED
    BY <2>1, <2>2, Sequences DEF Runs
<1>3. ASSUME u.handler = "confirmed" PROVE Runs(u, Takes, Tail(Confirmed))
  <2>1. Program(u) = Confirmed
    BY <1>3 DEF Program
  <2>2. Confirmed = <<Takes, FileDispute>>
    BY DEF Confirmed, Takes, FileDispute
  <2> QED
    BY <2>1, <2>2, Sequences, Tails DEF Runs
<1>4. ASSUME u.handler = "abort" PROVE Runs(u, Clear, <<>>)
  <2>1. Program(u) = Abort
    BY <1>4 DEF Program
  <2>2. Abort = <<Clear>>
    BY DEF Abort
  <2> QED
    BY <2>1, <2>2, Sequences DEF Runs
<1>5. ASSUME u.handler = "enter" PROVE Runs(u, Stores("chatting", "order", u.arg), <<>>)
  <2>1. Program(u) = Enter(u.arg)
    BY <1>5 DEF Program
  <2>2. Enter(u.arg) = <<Stores("chatting", "order", u.arg)>>
    BY DEF Enter, Stores
  <2> QED
    BY <2>1, <2>2, Sequences DEF Runs
<1>6. ASSUME u.handler = "forward" PROVE Runs(u, Reads, Tail(Forward))
  <2>1. Program(u) = Forward
    BY <1>6 DEF Program
  <2>2. Forward = <<Reads, FileMessage>>
    BY DEF Forward, Reads, FileMessage
  <2> QED
    BY <2>1, <2>2, Sequences, Tails DEF Runs
<1> QED
  BY <1>1, <1>2, <1>3, <1>4, <1>5, <1>6

\* Those of a branding and of the ad wizard.
LEMMA OtherPrograms ==
  ASSUME NEW u
  PROVE  /\ u.handler = "edit" => Runs(u, Enters("enter_value", "field", u.arg), <<>>)
         /\ u.handler = "value" => Runs(u, Reads, Tail(Value))
         /\ u.handler = "create" => Runs(u, Only("choosing_type"), <<>>)
         /\ u.handler = "type" => Runs(u, Only("choosing_asset"), <<>>)
         /\ u.handler = "cancel" => Runs(u, Clear, <<>>)
<1>1. ASSUME u.handler = "edit" PROVE Runs(u, Enters("enter_value", "field", u.arg), <<>>)
  <2>1. Program(u) = Edit(u.arg)
    BY <1>1 DEF Program
  <2>2. Edit(u.arg) = <<Enters("enter_value", "field", u.arg)>>
    BY DEF Edit, Enters
  <2> QED
    BY <2>1, <2>2, Sequences DEF Runs
<1>2. ASSUME u.handler = "value" PROVE Runs(u, Reads, Tail(Value))
  <2>1. Program(u) = Value
    BY <1>2 DEF Program
  <2>2. Value = <<Reads, FileBranding, Clear>>
    BY DEF Value, Reads, FileBranding
  <2> QED
    BY <2>1, <2>2, Sequences, Tails DEF Runs
<1>3. ASSUME u.handler = "create" PROVE Runs(u, Only("choosing_type"), <<>>)
  <2>1. Program(u) = CreateAd
    BY <1>3 DEF Program
  <2>2. CreateAd = <<Only("choosing_type")>>
    BY DEF CreateAd, Only
  <2> QED
    BY <2>1, <2>2, Sequences DEF Runs
<1>4. ASSUME u.handler = "type" PROVE Runs(u, Only("choosing_asset"), <<>>)
  <2>1. Program(u) = AdType
    BY <1>4 DEF Program
  <2>2. AdType = <<Only("choosing_asset")>>
    BY DEF AdType, Only
  <2> QED
    BY <2>1, <2>2, Sequences DEF Runs
<1>5. ASSUME u.handler = "cancel" PROVE Runs(u, Clear, <<>>)
  <2>1. Program(u) = CancelAd
    BY <1>5 DEF Program
  <2>2. CancelAd = <<Clear>>
    BY DEF CancelAd
  <2> QED
    BY <2>1, <2>2, Sequences DEF Runs
<1> QED
  BY <1>1, <1>2, <1>3, <1>4, <1>5

\* And those of an administrator.
LEMMA AdminPrograms ==
  ASSUME NEW u
  PROVE  /\ u.handler = "arbitrate" => Runs(u, Only("enter_order_id"), <<>>)
         /\ u.handler = "arb_order" => Runs(u, Stores("choose_decision", "order", u.arg), <<>>)
         /\ u.handler = "resolve" => Runs(u, Clear, <<>>)
         /\ u.handler = "search" => Runs(u, Only("enter_query"), <<>>)
         /\ u.handler = "query" => Runs(u, <<>>, <<Clear>>)
         /\ u.handler = "order_state" => Runs(u, Only("sandbox_order_id"), <<>>)
         /\ u.handler = "sandbox_order" => Runs(u, Only("choose_status"), <<>>)
         /\ u.handler = "force" => Runs(u, <<>>, <<Clear>>)
<1>1. ASSUME u.handler = "arbitrate" PROVE Runs(u, Only("enter_order_id"), <<>>)
  <2>1. Program(u) = Arbitrate
    BY <1>1 DEF Program
  <2>2. Arbitrate = <<Only("enter_order_id")>>
    BY DEF Arbitrate, Only
  <2> QED
    BY <2>1, <2>2, Sequences DEF Runs
<1>2. ASSUME u.handler = "arb_order" PROVE Runs(u, Stores("choose_decision", "order", u.arg), <<>>)
  <2>1. Program(u) = ArbOrder(u.arg)
    BY <1>2 DEF Program
  <2>2. ArbOrder(u.arg) = <<Stores("choose_decision", "order", u.arg)>>
    BY DEF ArbOrder, Stores
  <2> QED
    BY <2>1, <2>2, Sequences DEF Runs
<1>3. ASSUME u.handler = "resolve" PROVE Runs(u, Clear, <<>>)
  <2>1. Program(u) = Resolve
    BY <1>3 DEF Program
  <2>2. Resolve = <<Clear>>
    BY DEF Resolve
  <2> QED
    BY <2>1, <2>2, Sequences DEF Runs
<1>4. ASSUME u.handler = "search" PROVE Runs(u, Only("enter_query"), <<>>)
  <2>1. Program(u) = Search
    BY <1>4 DEF Program
  <2>2. Search = <<Only("enter_query")>>
    BY DEF Search, Only
  <2> QED
    BY <2>1, <2>2, Sequences DEF Runs
<1>5. ASSUME u.handler = "query" PROVE Runs(u, <<>>, <<Clear>>)
  <2>1. Program(u) = Query
    BY <1>5 DEF Program
  <2>2. Query = <<<<>>, Clear>>
    BY DEF Query
  <2> QED
    BY <2>1, <2>2, Sequences DEF Runs
<1>6. ASSUME u.handler = "order_state" PROVE Runs(u, Only("sandbox_order_id"), <<>>)
  <2>1. Program(u) = OrderState
    BY <1>6 DEF Program
  <2>2. OrderState = <<Only("sandbox_order_id")>>
    BY DEF OrderState, Only
  <2> QED
    BY <2>1, <2>2, Sequences DEF Runs
<1>7. ASSUME u.handler = "sandbox_order" PROVE Runs(u, Only("choose_status"), <<>>)
  <2>1. Program(u) = SandboxOrder
    BY <1>7 DEF Program
  <2>2. SandboxOrder = <<Only("choose_status")>>
    BY DEF SandboxOrder, Only
  <2> QED
    BY <2>1, <2>2, Sequences DEF Runs
<1>8. ASSUME u.handler = "force" PROVE Runs(u, <<>>, <<Clear>>)
  <2>1. Program(u) = ForceStatus
    BY <1>8 DEF Program
  <2>2. ForceStatus = <<<<>>, Clear>>
    BY DEF ForceStatus
  <2> QED
    BY <2>1, <2>2, Sequences DEF Runs
<1> QED
  BY <1>1, <1>2, <1>3, <1>4, <1>5, <1>6, <1>7, <1>8

-----------------------------------------------------------------------------
(* What an update does when it arrives.                                     *)

\* The data a state needs, spelled out.
DataThere(s, d) ==
    /\ s \in {"enter_reason", "confirm_dispute", "chatting"} => d.order # None
    /\ s = "confirm_dispute" => d.reason # None
    /\ s = "enter_value" => d.field # None

LEMMA NeedsSpelledOut ==
  ASSUME NEW s, NEW d
  PROVE  (s \in DOMAIN Needs => \A k \in Needs[s] : d[k] # None) <=> DataThere(s, d)
<1>1. DOMAIN Needs = {"enter_reason", "confirm_dispute", "chatting", "enter_value"}
  BY DEF Needs
<1>2. /\ Needs["enter_reason"] = {"order"} /\ Needs["confirm_dispute"] = {"order", "reason"}
      /\ Needs["chatting"] = {"order"} /\ Needs["enter_value"] = {"field"}
  BY DEF Needs
<1> QED
  BY <1>1, <1>2 DEF DataThere

\* The screen is what the state stands for.
ScreenOf(s, d, sh) ==
    /\ s \in {"enter_reason", "confirm_dispute"} => sh = Screen("dispute", d.order)
    /\ s = "chatting" => sh = Screen("message", d.order)
    /\ s = "enter_value" => sh = Screen("branding", d.field)

\* A storage that may be left behind.
Sound(s, d, sh) == s \in States /\ d \in Kept /\ ScreenOf(s, d, sh) /\ DataThere(s, d)

\* A handler that has this left may be left behind.
SoundRest(sh, r, rest) ==
    /\ rest \in Rests /\ r \in Kept
    /\ rest = Tail(Confirmed) => sh = Screen("dispute", r.order)
    /\ rest = Tail(Forward) => sh = Screen("message", r.order)
    /\ rest = Tail(Value) => sh = Screen("branding", r.field)

\* The storage of the invariant is one.
LEMMA StorageIsSound == ASSUME IInv PROVE Sound(state, data, shown)
  BY NeedsSpelledOut DEF IInv, TypeOK, StateIsWhatWasShown, DialogHasItsData, Sound, ScreenOf

\* The state a block is run in and the state it leaves.
LEMMA FirstBlock ==
  ASSUME Storage = "memory", NEW t \in Slots, NEW u \in Updates, Arrive(t, u),
         NEW b, NEW rest, Runs(u, b, rest), NEW s, NEW d, NEW r,
         ApplyAll(M(state, data, NoData), b) = M(s, d, r)
  PROVE  /\ state' = s /\ data' = d /\ filed' = filed
         /\ work' = [work EXCEPT ![t] =
              IF rest = <<>> THEN Idle
              ELSE [handler |-> u.handler, shown |-> shown, read |-> r, rest |-> rest]]
<1> DEFINE w == [handler |-> u.handler, shown |-> shown, read |-> NoData, rest |-> Program(u)]
<1>1. RunBlock(t, w) /\ filed' = filed
  BY DEF Arrive, Steps
<1>2. w.read = NoData /\ Head(w.rest) = b /\ Tail(w.rest) = rest
  BY DEF Runs
<1>3. ApplyAll([state |-> state, data |-> data, read |-> w.read], Head(w.rest)) = M(s, d, r)
  BY <1>2 DEF M
<1>5. Then([w EXCEPT !.read = r], rest) =
        IF rest = <<>> THEN Idle
        ELSE [handler |-> u.handler, shown |-> shown, read |-> r, rest |-> rest]
  <2>1. [w EXCEPT !.read = r]
          = [handler |-> u.handler, shown |-> shown, read |-> r, rest |-> Program(u)]
    OBVIOUS
  <2>2. [[handler |-> u.handler, shown |-> shown, read |-> r, rest |-> Program(u)]
           EXCEPT !.rest = rest]
          = [handler |-> u.handler, shown |-> shown, read |-> r, rest |-> rest]
    OBVIOUS
  <2>3. [[w EXCEPT !.read = r] EXCEPT !.rest = rest]
          = [handler |-> u.handler, shown |-> shown, read |-> r, rest |-> rest]
    BY <2>1, <2>2, Zenon
  <2> QED
    BY <2>3, Zenon DEF Then
<1>6. M(s, d, r).state = s /\ M(s, d, r).data = d /\ M(s, d, r).read = r
  BY DEF M
<1> HIDE DEF w
<1> QED
  BY <1>1, <1>2, <1>3, <1>5, <1>6 DEF RunBlock

\* A slot whose handler went on, or ended, in a sound storage.
LEMMA SlotMoves ==
  ASSUME IInv, NEW t \in Slots, NEW h \in {None} \cup {u.handler : u \in Updates},
         NEW sh \in Screens, NEW r, NEW rest, SoundRest(sh, r, rest),
         work' = [work EXCEPT ![t] =
           IF rest = <<>> THEN Idle
           ELSE [handler |-> h, shown |-> sh, read |-> r, rest |-> rest]],
         Sound(state', data', shown'), shown' \in Screens,
         filed' \in [did: Screens, shown: Screens], filed'.did = filed'.shown
  PROVE  IInv'
<1> DEFINE w == IF rest = <<>> THEN Idle
                ELSE [handler |-> h, shown |-> sh, read |-> r, rest |-> rest]
<1>1. Idle.rest = <<>> /\ Idle \in [handler: {None} \cup {u.handler : u \in Updates},
                                    shown: Screens, read: Kept, rest: Rests]
  BY DEF Idle, Nothing, NoData, Screens, Kept, Rests
<1>2. w \in [handler: {None} \cup {u.handler : u \in Updates},
             shown: Screens, read: Kept, rest: Rests]
  BY <1>1 DEF SoundRest
<1>3. FilesWhatWasShown(w)
  <2>1. CASE rest = <<>>
    BY <2>1, <1>1, RestsDiffer DEF FilesWhatWasShown
  <2>2. CASE rest # <<>>
    BY <2>2 DEF FilesWhatWasShown, SoundRest
  <2> QED
    BY <2>1, <2>2
<1> HIDE DEF w
<1>4. TypeOK'
  BY <1>2 DEF IInv, TypeOK, Sound, w
<1>5. w.rest = <<>> => w = Idle
  BY DEF w
<1>8. \A q \in Slots : FilesWhatWasShown(work'[q]) /\ (work'[q].rest = <<>> => work'[q] = Idle)
  <2>1. \A q \in Slots : work'[q] = IF q = t THEN w ELSE work[q]
    BY DEF IInv, TypeOK, w
  <2>2. ASSUME NEW q \in Slots
        PROVE  FilesWhatWasShown(work'[q]) /\ (work'[q].rest = <<>> => work'[q] = Idle)
    <3>1. CASE q = t
      <4>1. work'[q] = w
        BY <2>1, <3>1
      <4> QED
        BY <4>1, <1>3, <1>5, Zenon
    <3>2. CASE q # t
      <4>1. work'[q] = work[q]
        BY <2>1, <3>2
      <4>2. FilesWhatWasShown(work[q]) /\ (work[q].rest = <<>> => work[q] = Idle)
        BY DEF IInv
      <4> QED
        BY <4>1, <4>2, Zenon
    <3> QED
      BY <3>1, <3>2
  <2> QED
    BY <2>2
<1>6. DialogHasItsData'
  BY NeedsSpelledOut DEF DialogHasItsData, Sound
<1>7. StateIsWhatWasShown' /\ ActsOnWhatWasShown'
  BY DEF StateIsWhatWasShown, ActsOnWhatWasShown, Sound, ScreenOf
<1> QED
  BY <1>4, <1>6, <1>7, <1>8 DEF IInv, FilesWhatWasShown

\* The buttons a user presses show a dispute, a chat or a field.
LEMMA ShownThen ==
  ASSUME IInv, NEW t \in Slots, NEW u \in Updates, Arrive(t, u)
  PROVE  /\ u.handler = "raise" => u.arg \in Orders /\ shown' = Screen("dispute", u.arg)
         /\ u.handler = "enter" => u.arg \in Orders /\ shown' = Screen("message", u.arg)
         /\ u.handler = "edit" => u.arg \in Fields /\ shown' = Screen("branding", u.arg)
         /\ u.handler \notin {"raise", "enter", "edit"} => shown' = shown
         /\ u.handler = "reason" => u.arg \in Reasons
         /\ u.handler = "arb_order" => u.arg \in Orders
         /\ shown' \in Screens /\ shown \in Screens
<1>1. DOMAIN Opens = {"raise", "enter", "edit"} /\ Opens["raise"] = "dispute"
      /\ Opens["enter"] = "message" /\ Opens["edit"] = "branding"
  BY DEF Opens
<1>2. /\ u.handler \in {"raise", "enter", "arb_order"} => u.arg \in Orders
      /\ u.handler = "reason" => u.arg \in Reasons
      /\ u.handler = "edit" => u.arg \in Fields
  BY DEF Updates, TradeUpdates, LicenceUpdates, AdUpdates, AdminUpdates
<1>3. shown' = IF u.handler \in DOMAIN Opens
               THEN [kind |-> Opens[u.handler], target |-> u.arg] ELSE shown
  BY DEF Arrive
<1>4. shown \in Screens
  BY DEF IInv, TypeOK
<1> QED
  BY <1>1, <1>2, <1>3, <1>4 DEF Screen, Screens

\* Changing a key of sound data.
LEMMA KeptData ==
  ASSUME NEW d \in Kept
  PROVE  /\ NoData \in Kept /\ NoData.order = None
         /\ \A o \in Orders : LET e == With(d, "order", o)
                              IN  e \in Kept /\ e.order = o
         /\ \A x \in Reasons : LET e == With(d, "reason", x)
                               IN  e \in Kept /\ e.order = d.order /\ e.reason = x
         /\ \A f \in Fields : LET e == With(d, "field", f)
                              IN  e \in Kept /\ e.field = f
  BY DEF Kept, NoData, With

\* The order of the guards: a handler of a dialog runs in a state of it.
LEMMA Guards ==
  ASSUME NEW t \in Slots, NEW u \in Updates, Arrive(t, u)
  PROVE  /\ u.handler = "reason" => state = "enter_reason"
         /\ u.handler = "confirmed" => state = "confirm_dispute"
         /\ u.handler = "forward" => state = "chatting"
         /\ u.handler = "value" => state = "enter_value"
  BY DEF Arrive, In

\* A handler whose first block leaves this storage and this rest is sound.
LEMMA ArriveSound ==
  ASSUME IInv, Storage = "memory", NEW t \in Slots, NEW u \in Updates, Arrive(t, u),
         NEW b, NEW rest, Runs(u, b, rest), NEW s, NEW d, NEW r,
         ApplyAll(M(state, data, NoData), b) = M(s, d, r),
         Sound(s, d, shown'), SoundRest(shown, r, rest)
  PROVE  IInv'
<1>1. /\ state' = s /\ data' = d /\ filed' = filed
      /\ work' = [work EXCEPT ![t] =
           IF rest = <<>> THEN Idle
           ELSE [handler |-> u.handler, shown |-> shown, read |-> r, rest |-> rest]]
  BY FirstBlock
<1>2. shown' \in Screens /\ shown \in Screens
  BY ShownThen
<1>3. u.handler \in {None} \cup {v.handler : v \in Updates}
  OBVIOUS
<1>4. filed' \in [did: Screens, shown: Screens] /\ filed'.did = filed'.shown
  BY <1>1 DEF IInv, TypeOK, ActsOnWhatWasShown
<1>5. Sound(state', data', shown')
  BY <1>1
<1> QED
  BY <1>1, <1>2, <1>3, <1>4, <1>5, SlotMoves

\* What has nothing left, or clear() alone, is sound whatever it has read.
LEMMA EasyRests ==
  ASSUME NEW sh, NEW r \in Kept
  PROVE  SoundRest(sh, r, <<>>) /\ SoundRest(sh, r, <<Clear>>)
  BY RestsDiffer DEF SoundRest, Rests

\* States outside the dialogs that keep data need none.
LEMMA EasyStates ==
  ASSUME NEW d \in Kept, NEW sh,
         NEW s \in States \ {"enter_reason", "confirm_dispute", "chatting", "enter_value"}
  PROVE  Sound(s, d, sh)
  BY DEF Sound, ScreenOf, DataThere

\* Buttons and texts of the dialogs that keep data.
LEMMA ArriveInDialog ==
  ASSUME IInv, Storage = "memory", NEW t \in Slots, NEW u \in Updates, Arrive(t, u),
         u.handler \in {"raise", "reason", "enter", "edit", "arb_order"}
  PROVE  IInv'
<1>1. Sound(state, data, shown) /\ data \in Kept
  BY StorageIsSound DEF Sound
<1>2. SoundRest(shown, data, <<>>)
  BY <1>1, EasyRests
<1>3. u.arg # None
  BY ShownThen, DialogsAssumption
<1>4. CASE u.handler = "raise"
  <2>1. Runs(u, Enters("enter_reason", "order", u.arg), <<>>)
    BY <1>4, TradePrograms
  <2>2. ApplyAll(M(state, data, NoData), Enters("enter_reason", "order", u.arg))
          = M("enter_reason", With(data, "order", u.arg), data)
    BY BlockEffects
  <2>3. Sound("enter_reason", With(data, "order", u.arg), shown')
    BY <1>1, <1>3, <1>4, ShownThen, KeptData
       DEF Sound, ScreenOf, DataThere, States, NamedStates
  <2> QED
    BY <1>2, <2>1, <2>2, <2>3, ArriveSound
<1>5. CASE u.handler = "reason"
  <2>1. Runs(u, Stores("confirm_dispute", "reason", u.arg), <<>>)
    BY <1>5, TradePrograms
  <2>2. ApplyAll(M(state, data, NoData), Stores("confirm_dispute", "reason", u.arg))
          = M("confirm_dispute", With(data, "reason", u.arg), data)
    BY BlockEffects
  <2>3. state = "enter_reason"
    BY <1>5, Guards
  <2>4. Sound("confirm_dispute", With(data, "reason", u.arg), shown')
    BY <1>1, <1>3, <1>5, <2>3, ShownThen, KeptData
       DEF Sound, ScreenOf, DataThere, States, NamedStates
  <2> QED
    BY <1>2, <2>1, <2>2, <2>4, ArriveSound
<1>6. CASE u.handler = "enter"
  <2>1. Runs(u, Stores("chatting", "order", u.arg), <<>>)
    BY <1>6, TradePrograms
  <2>2. ApplyAll(M(state, data, NoData), Stores("chatting", "order", u.arg))
          = M("chatting", With(data, "order", u.arg), data)
    BY BlockEffects
  <2>3. Sound("chatting", With(data, "order", u.arg), shown')
    BY <1>1, <1>3, <1>6, ShownThen, KeptData
       DEF Sound, ScreenOf, DataThere, States, NamedStates
  <2> QED
    BY <1>2, <2>1, <2>2, <2>3, ArriveSound
<1>7. CASE u.handler = "edit"
  <2>1. Runs(u, Enters("enter_value", "field", u.arg), <<>>)
    BY <1>7, OtherPrograms
  <2>2. ApplyAll(M(state, data, NoData), Enters("enter_value", "field", u.arg))
          = M("enter_value", With(data, "field", u.arg), data)
    BY BlockEffects
  <2>3. Sound("enter_value", With(data, "field", u.arg), shown')
    BY <1>1, <1>3, <1>7, ShownThen, KeptData
       DEF Sound, ScreenOf, DataThere, States, NamedStates
  <2> QED
    BY <1>2, <2>1, <2>2, <2>3, ArriveSound
<1>8. CASE u.handler = "arb_order"
  <2>1. Runs(u, Stores("choose_decision", "order", u.arg), <<>>)
    BY <1>8, AdminPrograms
  <2>2. ApplyAll(M(state, data, NoData), Stores("choose_decision", "order", u.arg))
          = M("choose_decision", With(data, "order", u.arg), data)
    BY BlockEffects
  <2>3. With(data, "order", u.arg) \in Kept
    BY <1>1, <1>8, ShownThen, KeptData
  <2>4. Sound("choose_decision", With(data, "order", u.arg), shown')
    BY <2>3, EasyStates DEF States, NamedStates
  <2> QED
    BY <1>2, <2>1, <2>2, <2>4, ArriveSound
<1> QED
  BY <1>4, <1>5, <1>6, <1>7, <1>8

\* Updates whose handler takes what it will file, and clears or keeps the data.
LEMMA ArriveToFile ==
  ASSUME IInv, Storage = "memory", NEW t \in Slots, NEW u \in Updates, Arrive(t, u),
         u.handler \in {"confirmed", "forward", "value"}
  PROVE  IInv'
<1>1. Sound(state, data, shown) /\ data \in Kept /\ NoData \in Kept
  BY StorageIsSound, KeptData DEF Sound
<1>2. shown' = shown
  BY ShownThen
<1>3. CASE u.handler = "confirmed"
  <2>1. Runs(u, Takes, Tail(Confirmed))
    BY <1>3, TradePrograms
  <2>2. ApplyAll(M(state, data, NoData), Takes) = M(None, NoData, data)
    BY BlockEffects
  <2>3. Sound(None, NoData, shown')
    BY <1>1, EasyStates, DialogsAssumption DEF States, NamedStates
  <2>4. shown = Screen("dispute", data.order)
    BY <1>1, <1>3, Guards DEF Sound, ScreenOf
  <2>5. SoundRest(shown, data, Tail(Confirmed))
    BY <1>1, <2>4, RestsDiffer DEF SoundRest, Rests
  <2> QED
    BY <2>1, <2>2, <2>3, <2>5, ArriveSound
<1>4. CASE u.handler = "forward"
  <2>1. Runs(u, Reads, Tail(Forward))
    BY <1>4, TradePrograms
  <2>2. ApplyAll(M(state, data, NoData), Reads) = M(state, data, data)
    BY BlockEffects
  <2>3. shown = Screen("message", data.order)
    BY <1>1, <1>4, Guards DEF Sound, ScreenOf
  <2>4. SoundRest(shown, data, Tail(Forward))
    BY <1>1, <2>3, RestsDiffer DEF SoundRest, Rests
  <2> QED
    BY <1>1, <1>2, <2>1, <2>2, <2>4, ArriveSound
<1>5. CASE u.handler = "value"
  <2>1. Runs(u, Reads, Tail(Value))
    BY <1>5, OtherPrograms
  <2>2. ApplyAll(M(state, data, NoData), Reads) = M(state, data, data)
    BY BlockEffects
  <2>3. shown = Screen("branding", data.field)
    BY <1>1, <1>5, Guards DEF Sound, ScreenOf
  <2>4. SoundRest(shown, data, Tail(Value))
    BY <1>1, <2>3, RestsDiffer DEF SoundRest, Rests
  <2> QED
    BY <1>1, <1>2, <2>1, <2>2, <2>4, ArriveSound
<1> QED
  BY <1>3, <1>4, <1>5

\* Updates that leave the flow, or enter one that keeps no data.
LEMMA ArriveElsewhere ==
  ASSUME IInv, Storage = "memory", NEW t \in Slots, NEW u \in Updates, Arrive(t, u),
         u.handler \in {"abort", "cancel", "resolve", "create", "type", "arbitrate",
                        "search", "order_state", "sandbox_order", "query", "force"}
  PROVE  IInv'
<1>1. Sound(state, data, shown) /\ data \in Kept /\ NoData \in Kept
  BY StorageIsSound, KeptData DEF Sound
<1>2. shown' = shown
  BY ShownThen
<1>3. SoundRest(shown, NoData, <<>>) /\ SoundRest(shown, NoData, <<Clear>>)
  BY <1>1, EasyRests
<1>4. CASE u.handler \in {"abort", "cancel", "resolve"}
  <2>1. Runs(u, Clear, <<>>)
    BY <1>4, TradePrograms, OtherPrograms, AdminPrograms
  <2>2. ApplyAll(M(state, data, NoData), Clear) = M(None, NoData, NoData)
    BY BlockEffects
  <2>3. Sound(None, NoData, shown')
    BY <1>1, EasyStates, DialogsAssumption DEF States, NamedStates
  <2> QED
    BY <1>3, <2>1, <2>2, <2>3, ArriveSound
<1>5. ASSUME NEW x \in NamedStates
                      \ {"enter_reason", "confirm_dispute", "chatting", "enter_value"},
             Runs(u, Only(x), <<>>)
      PROVE  IInv'
  <2>1. ApplyAll(M(state, data, NoData), Only(x)) = M(x, data, NoData)
    BY BlockEffects
  <2>2. Sound(x, data, shown')
    BY <1>1, EasyStates DEF States
  <2> QED
    BY <1>3, <1>5, <2>1, <2>2, ArriveSound
<1>6. CASE u.handler \in {"create", "type", "arbitrate", "search", "order_state",
                          "sandbox_order"}
  <2>1. \/ Runs(u, Only("choosing_type"), <<>>)
        \/ Runs(u, Only("choosing_asset"), <<>>)
        \/ Runs(u, Only("enter_order_id"), <<>>)
        \/ Runs(u, Only("enter_query"), <<>>)
        \/ Runs(u, Only("sandbox_order_id"), <<>>)
        \/ Runs(u, Only("choose_status"), <<>>)
    BY <1>6, OtherPrograms, AdminPrograms
  <2> QED
    BY <1>5, <2>1 DEF NamedStates
<1>7. CASE u.handler \in {"query", "force"}
  <2>1. Runs(u, <<>>, <<Clear>>)
    BY <1>7, AdminPrograms
  <2>2. ApplyAll(M(state, data, NoData), <<>>) = M(state, data, NoData)
    BY BlockEffects
  <2> QED
    BY <1>1, <1>2, <1>3, <2>1, <2>2, ArriveSound
<1> QED
  BY <1>4, <1>6, <1>7

LEMMA ArriveInv ==
  ASSUME IInv, Storage = "memory", NEW t \in Slots, NEW u \in Updates, Arrive(t, u)
  PROVE  IInv'
<1>1. u.handler \in {"raise", "reason", "enter", "edit", "arb_order"}
        \cup {"confirmed", "forward", "value"}
        \cup {"abort", "cancel", "resolve", "create", "type", "arbitrate",
              "search", "order_state", "sandbox_order", "query", "force"}
  BY DEF Updates, TradeUpdates, LicenceUpdates, AdUpdates, AdminUpdates
<1> QED
  BY <1>1, ArriveInDialog, ArriveToFile, ArriveElsewhere

-----------------------------------------------------------------------------
(* What a handler does when it is back from an await.                       *)

\* What the invariant says of one handler.
LEMMA SlotFields ==
  ASSUME IInv, NEW t \in Slots
  PROVE  /\ work[t].handler \in {None} \cup {u.handler : u \in Updates}
         /\ work[t].shown \in Screens /\ work[t].read \in Kept
         /\ SoundRest(work[t].shown, work[t].read, work[t].rest)
         /\ work[t].rest = <<>> => work[t] = Idle
         /\ work[t] = [handler |-> work[t].handler, shown |-> work[t].shown,
                       read |-> work[t].read, rest |-> work[t].rest]
<1>1. work[t] \in [handler: {None} \cup {u.handler : u \in Updates},
                   shown: Screens, read: Kept, rest: Rests]
  BY DEF IInv, TypeOK
<1>2. FilesWhatWasShown(work[t]) /\ (work[t].rest = <<>> => work[t] = Idle)
  BY DEF IInv
<1> QED
  BY <1>1, <1>2 DEF FilesWhatWasShown, SoundRest

\* Of what may be left, the three blocks that file are those that Files tells.
LEMMA FilesOrClears ==
  ASSUME NEW w, w.rest \in Rests
  PROVE  /\ Files(w) <=> w.rest \in {Tail(Confirmed), Tail(Forward), Tail(Value)}
         /\ ~Files(w) <=> w.rest \in {<<>>, <<Clear>>}
<1>1. w.rest = <<Clear>> => ~Files(w)
  BY Heads, Filing DEF Files
<1>2. w.rest = <<>> => ~Files(w)
  BY DEF Files
<1>3. w.rest \in {Tail(Confirmed), Tail(Forward), Tail(Value)} => Files(w)
  BY Heads, Filing DEF Files
<1> QED
  BY <1>1, <1>2, <1>3 DEF Rests

\* A handler that ends, or has clear() left, and the storage stays.
LEMMA HandlerStops ==
  ASSUME IInv, NEW t \in Slots, NEW rest \in {<<>>, <<Clear>>},
         work' = [work EXCEPT ![t] =
           IF rest = <<>> THEN Idle
           ELSE [handler |-> work[t].handler, shown |-> work[t].shown,
                 read |-> work[t].read, rest |-> rest]],
         UNCHANGED <<storageVars, shown>>,
         filed' \in {filed, [did |-> work[t].shown, shown |-> work[t].shown]}
  PROVE  IInv'
<1>1. Sound(state', data', shown') /\ shown' \in Screens
  BY StorageIsSound DEF IInv, TypeOK, storageVars
<1>2. SoundRest(work[t].shown, work[t].read, rest)
  BY SlotFields, EasyRests
<1>3. filed' \in [did: Screens, shown: Screens] /\ filed'.did = filed'.shown
  BY SlotFields DEF IInv, TypeOK, ActsOnWhatWasShown
<1> QED
  BY <1>1, <1>2, <1>3, SlotFields, SlotMoves

LEMMA GoOnInv ==
  ASSUME IInv, NEW t \in Slots, GoOn(t)
  PROVE  IInv'
<1>1. work[t].rest = <<Clear>>
  BY SlotFields, FilesOrClears DEF GoOn, SoundRest
<1>2. Head(work[t].rest) = Clear /\ Tail(work[t].rest) = <<>>
  BY <1>1, Heads
<1>3. ApplyAll([state |-> state, data |-> data, read |-> work[t].read], Head(work[t].rest))
        = M(None, NoData, work[t].read)
  <2>1. ApplyAll(M(state, data, work[t].read), Clear) = M(None, NoData, work[t].read)
    BY BlockEffects
  <2> QED
    BY <1>2, <2>1 DEF M
<1>4. state' = None /\ data' = NoData /\ work' = [work EXCEPT ![t] = Idle]
  BY <1>2, <1>3 DEF GoOn, RunBlock, M, Then
<1>5. Sound(state', data', shown')
  <2>1. NoData \in Kept
    BY DEF NoData, Kept
  <2> QED
    BY <1>4, <2>1, EasyStates, DialogsAssumption DEF States, NamedStates
<1>6. SoundRest(work[t].shown, work[t].read, <<>>)
  BY SlotFields, EasyRests
<1>7. shown' \in Screens /\ filed' \in [did: Screens, shown: Screens]
      /\ filed'.did = filed'.shown
  BY DEF GoOn, IInv, TypeOK, ActsOnWhatWasShown
<1> QED
  BY <1>4, <1>5, <1>6, <1>7, SlotFields, SlotMoves

\* What is filed is what the update was sent from, if it is filed at all.
LEMMA WriteInv ==
  ASSUME IInv, NEW t \in Slots, Write(t)
  PROVE  IInv'
<1> DEFINE w == work[t]
           f == Head(w.rest)[1]
           did == [kind |-> f.kind, target |-> w.read[f.keys[1]]]
           whole == \A i \in DOMAIN f.keys : w.read[f.keys[i]] # None
           rest == IF whole THEN Tail(w.rest)
                   ELSE IF f.kind = "message" THEN <<Clear>> ELSE <<>>
<1>1. /\ Files(w)
      /\ filed' = IF whole THEN [did |-> did, shown |-> w.shown] ELSE filed
      /\ work' = [work EXCEPT ![t] = Then(w, rest)]
      /\ UNCHANGED <<storageVars, shown>>
  BY DEF Write
<1>2. SoundRest(w.shown, w.read, w.rest)
      /\ w = [handler |-> w.handler, shown |-> w.shown, read |-> w.read, rest |-> w.rest]
  BY SlotFields
<1>3. w.rest \in {Tail(Confirmed), Tail(Forward), Tail(Value)}
  BY <1>1, <1>2, FilesOrClears DEF SoundRest
<1>4. did = w.shown /\ Tail(w.rest) \in {<<>>, <<Clear>>}
  <2>1. CASE w.rest = Tail(Confirmed)
    <3>1. f.kind = "dispute" /\ f.keys = <<"order", "reason">>
      BY <2>1, Heads, Filing
    <3>2. w.shown = Screen("dispute", w.read.order)
      BY <2>1, <1>2 DEF SoundRest
    <3> QED
      BY <2>1, <3>1, <3>2, Heads DEF Screen
  <2>2. CASE w.rest = Tail(Forward)
    <3>1. f.kind = "message" /\ f.keys = <<"order">>
      BY <2>2, Heads, Filing
    <3>2. w.shown = Screen("message", w.read.order)
      BY <2>2, <1>2 DEF SoundRest
    <3> QED
      BY <2>2, <3>1, <3>2, Heads DEF Screen
  <2>3. CASE w.rest = Tail(Value)
    <3>1. f.kind = "branding" /\ f.keys = <<"field">>
      BY <2>3, Heads, Filing
    <3>2. w.shown = Screen("branding", w.read.field)
      BY <2>3, <1>2 DEF SoundRest
    <3> QED
      BY <2>3, <3>1, <3>2, Heads DEF Screen
  <2> QED
    BY <1>3, <2>1, <2>2, <2>3
<1>5. rest \in {<<>>, <<Clear>>}
      /\ filed' \in {filed, [did |-> work[t].shown, shown |-> work[t].shown]}
  BY <1>1, <1>4
<1> HIDE DEF did, whole, rest, f
<1>6. Then(w, rest) = IF rest = <<>> THEN Idle
                      ELSE [handler |-> w.handler, shown |-> w.shown,
                            read |-> w.read, rest |-> rest]
  BY <1>2 DEF Then
<1>7. work' = [work EXCEPT ![t] =
           IF rest = <<>> THEN Idle
           ELSE [handler |-> work[t].handler, shown |-> work[t].shown,
                 read |-> work[t].read, rest |-> rest]]
  BY <1>1, <1>6
<1> QED
  BY <1>1, <1>5, <1>7, HandlerStops

LEMMA GiveUpInv ==
  ASSUME IInv, NEW t \in Slots, GiveUp(t)
  PROVE  IInv'
<1>1. work' = [work EXCEPT ![t] =
           IF <<>> = <<>> THEN Idle
           ELSE [handler |-> work[t].handler, shown |-> work[t].shown,
                 read |-> work[t].read, rest |-> <<>>]]
  BY DEF GiveUp
<1> QED
  BY <1>1, HandlerStops DEF GiveUp

LEMMA NoLicenceInv ==
  ASSUME IInv, NEW t \in Slots, NoLicence(t)
  PROVE  IInv'
<1>1. work[t].rest = Tail(Value)
  <2>1. work[t].rest \in {Tail(Confirmed), Tail(Forward), Tail(Value)}
    BY SlotFields, FilesOrClears DEF NoLicence, SoundRest
  <2>2. Head(work[t].rest)[1].kind = "branding"
    BY DEF NoLicence
  <2> QED
    BY <2>1, <2>2, Heads, Filing
<1>2. Tail(work[t].rest) = <<Clear>> /\ <<Clear>> # <<>>
  BY <1>1, Heads
<1>3. work' = [work EXCEPT ![t] = [work[t] EXCEPT !.rest = Tail(work[t].rest)]]
  BY DEF NoLicence
<1>4. work[t] = [handler |-> work[t].handler, shown |-> work[t].shown,
                read |-> work[t].read, rest |-> work[t].rest]
  BY SlotFields
<1>5. [work[t] EXCEPT !.rest = Tail(work[t].rest)]
        = [handler |-> work[t].handler, shown |-> work[t].shown,
           read |-> work[t].read, rest |-> <<Clear>>]
  <2>1. [[handler |-> work[t].handler, shown |-> work[t].shown,
          read |-> work[t].read, rest |-> work[t].rest] EXCEPT !.rest = <<Clear>>]
          = [handler |-> work[t].handler, shown |-> work[t].shown,
             read |-> work[t].read, rest |-> <<Clear>>]
    OBVIOUS
  <2> QED
    BY <1>2, <1>4, <2>1, Zenon
<1>6. work' = [work EXCEPT ![t] =
           IF <<Clear>> = <<>> THEN Idle
           ELSE [handler |-> work[t].handler, shown |-> work[t].shown,
                 read |-> work[t].read, rest |-> <<Clear>>]]
  BY <1>2, <1>3, <1>5
<1> QED
  BY <1>6, HandlerStops DEF NoLicence

\* MemoryStorage is lost with the process, and so are the handlers.
LEMMA RestartInv ==
  ASSUME IInv, Storage = "memory", Restart
  PROVE  IInv'
<1>1. state' = None /\ data' = NoData /\ work' = [t \in Slots |-> Idle]
      /\ shown' = shown /\ filed' = filed
  BY DEF Restart
<1>2. NoData \in Kept /\ Idle.rest = <<>>
      /\ Idle \in [handler: {None} \cup {u.handler : u \in Updates},
                    shown: Screens, read: Kept, rest: Rests]
  BY DEF Idle, Nothing, NoData, Screens, Kept, Rests
<1>3. Sound(state', data', shown')
  BY <1>1, <1>2, EasyStates, DialogsAssumption DEF States, NamedStates
<1>4. TypeOK'
  BY <1>1, <1>2 DEF IInv, TypeOK, States
<1>5. FilesWhatWasShown(Idle)
  BY <1>2, RestsDiffer DEF FilesWhatWasShown
<1>6. DialogHasItsData'
  BY <1>3, NeedsSpelledOut DEF DialogHasItsData, Sound
<1>7. StateIsWhatWasShown' /\ ActsOnWhatWasShown'
  BY <1>1, <1>3 DEF IInv, StateIsWhatWasShown, ActsOnWhatWasShown, Sound, ScreenOf
<1>8. \A t \in Slots : work'[t] = Idle
  BY <1>1
<1> QED
  BY <1>4, <1>5, <1>6, <1>7, <1>8 DEF IInv, FilesWhatWasShown

-----------------------------------------------------------------------------
(* The theorems.                                                            *)

LEMMA InitInv == Init => IInv
<1> SUFFICES ASSUME Init PROVE IInv
  OBVIOUS
<1>1. Idle.rest = <<>> /\ Nothing \in Screens /\ NoData \in Kept
      /\ Idle \in [handler: {None} \cup {u.handler : u \in Updates},
                    shown: Screens, read: Kept, rest: Rests]
  BY DEF Idle, Nothing, NoData, Screens, Kept, Rests
<1>2. TypeOK
  BY <1>1 DEF Init, TypeOK, States
<1>3. FilesWhatWasShown(Idle)
  BY <1>1, RestsDiffer DEF FilesWhatWasShown
<1>4. Sound(None, NoData, shown)
  BY <1>1, EasyStates, DialogsAssumption DEF States, NamedStates
<1>5. DialogHasItsData /\ StateIsWhatWasShown /\ ActsOnWhatWasShown
  BY <1>4, NeedsSpelledOut
     DEF Init, DialogHasItsData, StateIsWhatWasShown, ActsOnWhatWasShown, Sound, ScreenOf
<1> QED
  BY <1>2, <1>3, <1>5 DEF Init, IInv

LEMMA NextInv == Storage = "memory" /\ IInv /\ [Next]_vars => IInv'
<1> SUFFICES ASSUME Storage = "memory", IInv, [Next]_vars PROVE IInv'
  OBVIOUS
<1>1. ASSUME NEW t \in Slots, NEW u \in Updates, Arrive(t, u) PROVE IInv'
  BY <1>1, ArriveInv
<1>2. ASSUME NEW t \in Slots, GoOn(t) PROVE IInv'
  BY <1>2, GoOnInv
<1>3. ASSUME NEW t \in Slots, Write(t) PROVE IInv'
  BY <1>3, WriteInv
<1>4. ASSUME NEW t \in Slots, GiveUp(t) PROVE IInv'
  BY <1>4, GiveUpInv
<1>5. ASSUME NEW t \in Slots, NoLicence(t) PROVE IInv'
  BY <1>5, NoLicenceInv
<1>6. CASE Restart
  BY <1>6, RestartInv
<1>7. CASE UNCHANGED vars
  BY <1>7 DEF vars, storageVars, IInv, TypeOK, StateIsWhatWasShown, FilesWhatWasShown,
     DialogHasItsData, ActsOnWhatWasShown
<1> QED
  BY <1>1, <1>2, <1>3, <1>4, <1>5, <1>6, <1>7 DEF Next

\* On MemoryStorage the state, the data and what every handler still has to
\* file agree with what the user was shown, however many handlers overlap.
THEOREM Inductive == Storage = "memory" /\ Spec => []IInv
<1> SUFFICES ASSUME Storage = "memory" PROVE Spec => []IInv
  OBVIOUS
<1>1. IInv /\ [Next]_vars => IInv'
  BY NextInv
<1> QED
  BY <1>1, InitInv, PTL DEF Spec

\* There, no flow is left in a state without the keys its handlers read.
THEOREM StateHasData == Storage = "memory" /\ Spec => []DialogHasItsData
<1>1. IInv => DialogHasItsData
  BY DEF IInv
<1> QED
  BY <1>1, Inductive, PTL

\* There, a dispute, a message or a branding value goes to what was on the
\* screen the update was sent from.
THEOREM FiledAsShown == Storage = "memory" /\ Spec => []ActsOnWhatWasShown
<1>1. IInv => ActsOnWhatWasShown
  BY DEF IInv
<1> QED
  BY <1>1, Inductive, PTL

=============================================================================
