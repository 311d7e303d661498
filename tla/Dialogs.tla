------------------------------ MODULE Dialogs ------------------------------
(***************************************************************************)
(* The conversations of one user with the bot.  aiogram keeps for each user *)
(* a state and a dictionary of data; a handler is picked by the state the  *)
(* update found, and starts at once, whether or not the handlers of the    *)
(* user's earlier updates have ended.  All flows share the one dictionary: *)
(* a dispute, the trade chat and the arbitration of a moderator all write  *)
(* the key order_id.                                                       *)
(*                                                                         *)
(* A handler is a sequence of blocks: what it does to the storage between  *)
(* two awaits that reach Telegram or the database.  MemoryStorage never    *)
(* gives way, so a block is one step; with RedisStorage each operation is. *)
(*                                                                         *)
(* The ad wizard stops at choosing_asset: no middleware passes the db_user *)
(* its next handler asks for, so that every button there raises TypeError. *)
(* Keys nothing reads back (ad_type, sandbox_order_id) are left out.       *)
(***************************************************************************)
EXTENDS Sequences, SequencesExt

CONSTANTS
    Orders,   \* orders the user is shown buttons of
    Reasons,  \* texts given as a dispute's reason
    Fields,   \* field paths of the branding
    Storage,  \* "memory" (no REDIS_URL) or "redis"
    Slots,    \* handlers of the user that may run at once
    None      \* an absent key; the state outside every flow

NamedStates == {"choosing_type", "choosing_asset", "enter_reason", "confirm_dispute",
                "chatting", "enter_value", "enter_order_id", "choose_decision",
                "enter_query", "sandbox_order_id", "choose_status"}

ASSUME DialogsAssumption ==
    /\ None \notin Orders \cup Reasons \cup Fields \cup NamedStates
    /\ Storage \in {"memory", "redis"}

VARIABLES
    state,    \* FSMContext: the user's state
    data,     \* FSMContext: the user's data, by key
    work,     \* [Slots -> handler or Idle]
    shown,    \* what the user last opened: a dispute, a chat or a branding field
    filed     \* the last thing a handler did, and what was shown to the user then

storageVars == <<state, data>>
vars == <<storageVars, work, shown, filed>>

States == {None} \cup NamedStates
NoData == [order |-> None, reason |-> None, field |-> None]
Nothing == [kind |-> None, target |-> None]
Idle == [handler |-> None, shown |-> Nothing, read |-> NoData, rest |-> <<>>]

Init ==
    /\ state = None
    /\ data = NoData
    /\ work = [t \in Slots |-> Idle]
    /\ shown = Nothing
    /\ filed = [did |-> Nothing, shown |-> Nothing]

------------------------------------------------------------------------------
(* The operations of FSMContext.                                           *)

Set(s) == [op |-> "state", to |-> s]
Get == [op |-> "get"]
\* The end of update_data, which has read the dictionary: a key is changed in
\* the copy and all of it is written back.
Put(k, v) == [op |-> "put", key |-> k, to |-> v]
Wipe == [op |-> "wipe"]
\* clear() is set_state(None) and set_data({}).
Clear == <<Set(None), Wipe>>

\* One operation on m = [state, data, read]; read is the handler's own copy.
Apply(m, o) ==
    CASE o.op = "state" -> [m EXCEPT !.state = o.to]
      [] o.op = "get"   -> [m EXCEPT !.read = m.data]
      [] o.op = "put"   -> [m EXCEPT !.data = [m.read EXCEPT ![o.key] = o.to]]
      [] o.op = "wipe"  -> [m EXCEPT !.data = NoData]

\* The i-th operation of block b, if it has one, and all of them: no handler
\* has a block of more than three.
ApplyAt(m, b, i) == IF i \in DOMAIN b THEN Apply(m, b[i]) ELSE m
ApplyAll(m, b) == ApplyAt(ApplyAt(ApplyAt(m, b, 1), b, 2), b, 3)

------------------------------------------------------------------------------
(* The handlers.                                                           *)

\* A block that acts in the database on the keys the handler has read.
File(kind, keys) == <<[op |-> "file", kind |-> kind, keys |-> keys]>>

Raise(o) == <<<<Set("enter_reason"), Get, Put("order", o)>>>>
Reason(r) == <<<<Get, Put("reason", r), Set("confirm_dispute")>>>>
Confirmed == <<<<Get, Set(None), Wipe>>, File("dispute", <<"order", "reason">>)>>
AbortForgets == <<<<Wipe>>>>   \* mutant: set_data({}) for clear(), the state stays
Abort == <<Clear>>

Enter(o) == <<<<Get, Put("order", o), Set("chatting")>>>>
ForwardReadsLate == <<<<>>, <<Get>>, File("message", <<"order">>)>>   \* mutant: reads after an await
Forward == <<<<Get>>, File("message", <<"order">>)>>

Edit(f) == <<<<Set("enter_value"), Get, Put("field", f)>>>>
Value == <<<<Get>>, File("branding", <<"field">>), Clear>>

CreateAd == <<<<Set("choosing_type")>>>>
AdType == <<<<Set("choosing_asset")>>>>
CancelAd == <<Clear>>

Arbitrate == <<<<Set("enter_order_id")>>>>
ArbOrder(o) == <<<<Get, Put("order", o), Set("choose_decision")>>>>
Resolve == <<Clear>>
Search == <<<<Set("enter_query")>>>>
Query == <<<<>>, Clear>>               \* the user is looked up first
OrderState == <<<<Set("sandbox_order_id")>>>>
SandboxOrder == <<<<Set("choose_status")>>>>
ForceStatus == <<<<>>, Clear>>               \* the status is written first

\* The handlers an update may find, with the argument each takes from it: the
\* buttons of a trade and what is typed in its dialogs, ...
TradeUpdates ==
    [handler: {"raise", "enter"}, arg: Orders]
    \cup [handler: {"reason"}, arg: Reasons]
    \cup [handler: {"confirmed", "abort", "forward"}, arg: {None}]
\* ... those of the branding of a licence, ...
LicenceUpdates == [handler: {"edit"}, arg: Fields] \cup [handler: {"value"}, arg: {None}]
\* ... of the ad wizard as far as it gets, ...
AdUpdates == [handler: {"create", "type", "cancel"}, arg: {None}]
\* ... and of an administrator.
AdminUpdates ==
    [handler: {"arb_order"}, arg: Orders]
    \cup [handler: {"arbitrate", "resolve", "search", "query", "order_state",
                    "sandbox_order", "force"}, arg: {None}]
Updates == TradeUpdates \cup LicenceUpdates \cup AdUpdates \cup AdminUpdates

Program(u) ==
    CASE u.handler = "raise" -> Raise(u.arg)
      [] u.handler = "reason" -> Reason(u.arg)
      [] u.handler = "confirmed" -> Confirmed
      [] u.handler = "abort" -> Abort
      [] u.handler = "enter" -> Enter(u.arg)
      [] u.handler = "forward" -> Forward
      [] u.handler = "edit" -> Edit(u.arg)
      [] u.handler = "value" -> Value
      [] u.handler = "create" -> CreateAd
      [] u.handler = "type" -> AdType
      [] u.handler = "cancel" -> CancelAd
      [] u.handler = "arbitrate" -> Arbitrate
      [] u.handler = "arb_order" -> ArbOrder(u.arg)
      [] u.handler = "resolve" -> Resolve
      [] u.handler = "search" -> Search
      [] u.handler = "query" -> Query
      [] u.handler = "order_state" -> OrderState
      [] u.handler = "sandbox_order" -> SandboxOrder
      [] u.handler = "force" -> ForceStatus

\* The states in which the routers, asked in the order of ROUTERS, pick a
\* handler.  The dispute, chat and licence routers come before the admin's:
\* in their states /arbitrate is a reason, a chat message or a branding value.
In(h) ==
    CASE h = "reason" -> {"enter_reason"}
      [] h = "confirmed" -> {"confirm_dispute"}
      [] h = "forward" -> {"chatting"}
      [] h = "value" -> {"enter_value"}
      [] h = "type" -> {"choosing_type"}
      [] h = "arb_order" -> {"enter_order_id"}
      [] h = "query" -> {"enter_query"}
      [] h = "sandbox_order" -> {"sandbox_order_id"}
      [] h = "force" -> {"choose_status"}
      [] h = "arbitrate" -> States \ {"enter_reason", "chatting", "enter_value"}
      [] OTHER -> States

------------------------------------------------------------------------------
(* Running them.                                                           *)

\* The flow a button opens.
Opens == [raise |-> "dispute", enter |-> "message", edit |-> "branding"]

\* The steps of a program: its blocks, or its operations one by one.
Steps(p) ==
    IF Storage = "memory" THEN p
    ELSE LET ops == FlattenSeq(p) IN [i \in DOMAIN ops |-> <<ops[i]>>]

Then(w, rest) == IF rest = <<>> THEN Idle ELSE [w EXCEPT !.rest = rest]

\* Handler w of slot t runs its next block on the storage.
RunBlock(t, w) ==
    LET m == ApplyAll([state |-> state, data |-> data, read |-> w.read], Head(w.rest))
    IN  /\ state' = m.state
        /\ data' = m.data
        /\ work' = [work EXCEPT ![t] = Then([w EXCEPT !.read = m.read], Tail(w.rest))]

\* An update arrives and finds its handler by the state at that moment.  On
\* MemoryStorage nothing comes between that and the first await.
Arrive(t, u) ==
    /\ work[t] = Idle
    /\ state \in In(u.handler)
    /\ shown' = IF u.handler \in DOMAIN Opens
                THEN [kind |-> Opens[u.handler], target |-> u.arg] ELSE shown
    /\ LET w == [handler |-> u.handler, shown |-> shown, read |-> NoData,
                 rest |-> Steps(Program(u))]
       IN  IF Storage = "memory" THEN RunBlock(t, w)
           ELSE /\ work' = [work EXCEPT ![t] = w]
                /\ UNCHANGED storageVars
    /\ UNCHANGED filed

Files(w) == w.rest # <<>> /\ Head(w.rest) # <<>> /\ Head(w.rest)[1].op = "file"

\* The handler is back from an await and goes on.
GoOn(t) ==
    /\ work[t] # Idle
    /\ ~Files(work[t])
    /\ RunBlock(t, work[t])
    /\ UNCHANGED <<shown, filed>>

\* The database took what the handler had to write.  Without its keys a chat
\* message ends the chat ("Chat session expired") and the others raise KeyError.
Write(t) ==
    LET w == work[t]
        f == Head(w.rest)[1]
        did == [kind |-> f.kind, target |-> w.read[f.keys[1]]]
        whole == \A i \in DOMAIN f.keys : w.read[f.keys[i]] # None
    IN  /\ Files(w)
        /\ filed' = IF whole THEN [did |-> did, shown |-> w.shown] ELSE filed
        /\ work' = [work EXCEPT ![t] = Then(w, IF whole THEN Tail(w.rest)
                                               ELSE IF f.kind = "message" THEN <<Clear>>
                                               ELSE <<>>)]
        /\ UNCHANGED <<storageVars, shown>>

\* The handler returns or raises at an await: no such party, user or order, a
\* value it refuses, a dispute the service refuses, an error of Telegram.
GiveUp(t) ==
    /\ work[t] # Idle
    /\ work' = [work EXCEPT ![t] = Idle]
    /\ UNCHANGED <<storageVars, shown, filed>>

\* No licence is in force: the value is not written and the flow is cleared.
NoLicence(t) ==
    /\ Files(work[t])
    /\ Head(work[t].rest)[1].kind = "branding"
    /\ work' = [work EXCEPT ![t].rest = Tail(@)]
    /\ UNCHANGED <<storageVars, shown, filed>>

\* The process restarts: MemoryStorage is empty, the screens stay.
Restart ==
    /\ work' = [t \in Slots |-> Idle]
    /\ IF Storage = "memory" THEN state' = None /\ data' = NoData
       ELSE UNCHANGED storageVars
    /\ UNCHANGED <<shown, filed>>

Next ==
    \/ \E t \in Slots : \/ \E u \in Updates : Arrive(t, u)
                        \/ GoOn(t)
                        \/ Write(t)
                        \/ GiveUp(t)
                        \/ NoLicence(t)
    \/ Restart

Spec == Init /\ [][Next]_vars

------------------------------------------------------------------------------
(* Properties.                                                             *)

\* The keys the handlers of a state take from the data.
Needs == [enter_reason |-> {"order"}, confirm_dispute |-> {"order", "reason"},
          chatting |-> {"order"}, enter_value |-> {"field"}]

\* Whatever flows the user leaves, mixes or repeats, and whenever a slow
\* handler of one of them clears the storage, a state is never left without
\* the data its handlers need: cb_dispute_confirmed and msg_b2b_branding_value
\* read their keys unchecked (dispute.py:73, b2b.py:237).
DialogHasItsData ==
    state \in DOMAIN Needs => \A k \in Needs[state] : data[k] # None

\* A dispute is raised on the order whose dispute the user opened last, a
\* message goes to the trade whose chat was opened last and a value to the
\* field chosen last, as of the press or message that caused it, although the
\* flows share one order_id and other handlers run before the write.
ActsOnWhatWasShown == filed.did = filed.shown

\* Why both hold on MemoryStorage.  Of a handler that runs, either what it has
\* still to file is what its copy of the data names, or only clear() is left.
Kept == [order: Orders \cup {None}, reason: Reasons \cup {None}, field: Fields \cup {None}]
Screen(kind, target) == [kind |-> kind, target |-> target]
Screens == [kind: {None, "dispute", "message", "branding"},
            target: Orders \cup Fields \cup {None}]
Rests == {<<>>, <<Clear>>, Tail(Confirmed), Tail(Forward), Tail(Value)}

FilesWhatWasShown(w) ==
    /\ w.rest = Tail(Confirmed) => w.shown = Screen("dispute", w.read.order)
    /\ w.rest = Tail(Forward) => w.shown = Screen("message", w.read.order)
    /\ w.rest = Tail(Value) => w.shown = Screen("branding", w.read.field)

\* The state of a flow stands for its screen, and the data for what it shows.
StateIsWhatWasShown ==
    /\ state \in {"enter_reason", "confirm_dispute"} => shown = Screen("dispute", data.order)
    /\ state = "chatting" => shown = Screen("message", data.order)
    /\ state = "enter_value" => shown = Screen("branding", data.field)

TypeOK ==
    /\ state \in States
    /\ data \in Kept
    /\ work \in [Slots -> [handler: {None} \cup {u.handler : u \in Updates},
                          shown: Screens, read: Kept, rest: Rests]]
    /\ shown \in Screens
    /\ filed \in [did: Screens, shown: Screens]

\* The inductive invariant of an instance with Storage = "memory".
IInv ==
    /\ TypeOK
    /\ StateIsWhatWasShown
    /\ \A t \in Slots : FilesWhatWasShown(work[t]) /\ (work[t].rest = <<>> => work[t] = Idle)
    /\ DialogHasItsData
    /\ ActsOnWhatWasShown
=============================================================================
