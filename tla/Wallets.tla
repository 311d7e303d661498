------------------------------ MODULE Wallets ------------------------------
(***************************************************************************)
(* Keys and addresses: the wallets of users (wallet_service), the providers *)
(* of the four chains, and what a settlement of an order does with both:   *)
(* it looks up the payee's wallet, draws a key for one if there is none,   *)
(* broadcasts the transfer and then commits or rolls back its session.     *)
(* A key that was drawn exists in the row alone; the chain keeps what was  *)
(* broadcast to its address, whatever becomes of the row.                  *)
(*                                                                         *)
(* P2PEscrow has the life of an order in full.  Here only what leads to a  *)
(* settlement is kept: the ad, its deposit, the trade and the dispute.     *)
(***************************************************************************)
EXTENDS Integers, Sequences, FiniteSets

CONSTANTS
    Orders,      \* the orders of the instance, all paid on a chain
    Users,       \* Telegram ids
    Maker,       \* maker_id of each order
    Taker,       \* who takes it
    SellOrders,  \* order_type = sell_crypto; the others are buy_crypto
    Assets,      \* tickers the instance tries
    Chains,      \* and their chains
    Calls,       \* the settlements handlers make: no handler of this commit calls
                 \* confirm_fiat_payment ("confirm")
    MayCrash,    \* whether the process may crash
    Sessions,    \* database sessions of handlers, and that of the sweep
    Sweeper,
    NoSession,   \* the row is not locked
    NoOrder,     \* the session settles nothing
    MaxDrawn     \* bound: keys drawn

\* _ASSET_CHAINS: where an asset lives; an escrow wallet is on the first.
ChainsOf ==
    [TON |-> <<"ton">>, USDT |-> <<"ton", "tron", "evm", "solana">>,
     USDC |-> <<"evm", "solana">>, ETH |-> <<"evm">>, BNB |-> <<"evm">>,
     MATIC |-> <<"evm">>, SOL |-> <<"solana">>, TRX |-> <<"tron">>]
ChainForAsset(a) == ChainsOf[a][1]

\* The assets get_balance of each provider can read: it answers 0 for others.
Reads == [ton |-> {"TON"},
          evm |-> {"BNB", "ETH", "MATIC", "USDT", "USDC", "BUSD"},
          solana |-> {"SOL"},
          tron |-> {"TRX", "USDT", "USDC"}]

\* The assets transfer of each provider can send: it raises for others.
Sends == [ton |-> {"TON"},
          evm |-> {"BNB", "ETH", "MATIC", "USDT", "USDC"},
          solana |-> {"SOL"},
          tron |-> {"TRX", "USDT"}]

ASSUME WalletsAssumption ==
    /\ Maker \in [Orders -> Users]
    /\ Taker \in [Orders -> Users]
    /\ SellOrders \subseteq Orders
    /\ Assets \subseteq DOMAIN ChainsOf
    /\ \A a \in Assets : ChainForAsset(a) \in Chains
    /\ Calls \subseteq {"confirm", "release", "refund"}
    /\ MayCrash \in BOOLEAN
    /\ Sweeper \in Sessions
    /\ NoSession \notin Sessions
    /\ NoOrder \notin Orders
    /\ MaxDrawn \in Nat

VARIABLES
    asset,    \* [Orders -> Assets]
    \* The tables, as committed.
    status,   \* [Orders -> Statuses]
    txHash,   \* [Orders -> Nat]: on_chain_tx_hash, as the address it pays; 0 if NULL
    wallets,  \* set of Rows: table user_wallets
    \* The world outside the database.
    drawn,    \* Seq(Owners): for whom each key was drawn; an address is its place
    funded,   \* [Orders -> BOOLEAN]: the escrow wallet holds what its ad asks for
    pool,     \* [Orders -> SUBSET Nat]: addresses it has sent to, not yet mined
    mined,    \* [Orders -> Nat]: the address that got the funds; 0 if none
    \* The process: lost in a crash.
    client,   \* TonWalletProvider._client
    lock,     \* [Orders -> Sessions \cup {NoSession}]
    work,     \* [Sessions -> Works]
    unsaved,  \* [Sessions -> SUBSET Rows]: rows flushed and not committed
    left      \* SUBSET Orders: trades the sweep loaded and has not come to

tableVars == <<status, txHash, wallets>>
chainVars == <<funded, pool, mined>>
sessionVars == <<lock, work, unsaved, left>>
vars == <<asset, tableVars, drawn, chainVars, client, sessionVars>>

Statuses == {"none", "pending_funding", "active", "escrow_held", "dispute", "completed"}
Owners == [user: Users, chain: Chains]
Rows == [user: Users, chain: Chains, address: Nat]
Clients == {"none", "unconnected", "connected"}

\* A settlement: its kind, its order, what it does next and where it pays to.
Works == [op: {"none", "confirm", "release", "refund", "sweep"},
          order: Orders \cup {NoOrder},
          at: {"address", "send", "sent", "failed"},
          to: Nat]
Idle == [op |-> "none", order |-> NoOrder, at |-> "address", to |-> 0]

Init ==
    /\ asset \in [Orders -> Assets]
    /\ status = [o \in Orders |-> "none"]
    /\ txHash = [o \in Orders |-> 0]
    /\ wallets = {}
    /\ drawn = <<>>
    /\ funded = [o \in Orders |-> FALSE]
    /\ pool = [o \in Orders |-> {}]
    /\ mined = [o \in Orders |-> 0]
    /\ client = "none"
    /\ lock = [o \in Orders |-> NoSession]
    /\ work = [s \in Sessions |-> Idle]
    /\ unsaved = [s \in Sessions |-> {}]
    /\ left = {}

-----------------------------------------------------------------------------
(* Helpers.                                                                *)

Chain(o) == ChainForAsset(asset[o])

\* The recipient: the taker for a release of a sell order, else the maker.
PayTo(k, o) ==
    IF k \in {"confirm", "release"} /\ o \in SellOrders THEN Taker[o] ELSE Maker[o]

\* The provider of the chain answers: a client of TON that failed to connect
\* once is kept and fails every call.
Answers(c) == c # "ton" \/ client = "connected"

\* A key drawn now: the row of its wallet.
RowFor(u, c) == [user |-> u, chain |-> c, address |-> Len(drawn) + 1]
Draw(u, c) ==
    /\ Len(drawn) < MaxDrawn
    /\ drawn' = Append(drawn, [user |-> u, chain |-> c])

-----------------------------------------------------------------------------
(* What leads to a settlement.                                             *)

\* create_order: draws the key of the escrow wallet and commits it in the row
\* of the order before the address is shown.
CreateOrder(o) ==
    /\ status[o] = "none"
    /\ status' = [status EXCEPT ![o] = "pending_funding"]
    /\ UNCHANGED <<asset, txHash, wallets, drawn, chainVars, client, sessionVars>>

\* Amount and gas buffer arrive, in the coin the provider counts for the asset.
Deposit(o) ==
    /\ status[o] # "none"
    /\ funded' = [funded EXCEPT ![o] = TRUE]
    /\ UNCHANGED <<asset, tableVars, drawn, pool, mined, client, sessionVars>>

\* _get_client, when a balance on TON is read or a transfer made: the client is
\* kept before it has connected.
GetClient(c) ==
    /\ client = "none"
    /\ \/ \E o \in Orders : Chain(o) = "ton" /\ status[o] = "pending_funding"
       \/ \E s \in Sessions : work[s].at = "send" /\ Chain(work[s].order) = "ton"
       \/ \E r \in wallets : r.chain = "ton"
    /\ client' = c
    /\ UNCHANGED <<asset, tableVars, drawn, chainVars, sessionVars>>

\* EscrowScanner finds the balance; an error or an unknown asset reads as 0.
Detect(o) ==
    /\ status[o] = "pending_funding"
    /\ funded[o]
    /\ asset[o] \in Reads[Chain(o)]
    /\ Answers(Chain(o))
    /\ status' = [status EXCEPT ![o] = "active"]
    /\ UNCHANGED <<asset, txHash, wallets, drawn, chainVars, client, sessionVars>>

TakeOrder(o) ==
    /\ status[o] = "active"
    /\ status' = [status EXCEPT ![o] = "escrow_held"]
    /\ UNCHANGED <<asset, txHash, wallets, drawn, chainVars, client, sessionVars>>

RaiseDispute(o) ==
    /\ status[o] = "escrow_held"
    /\ lock[o] = NoSession
    /\ status' = [status EXCEPT ![o] = "dispute"]
    /\ UNCHANGED <<asset, txHash, wallets, drawn, chainVars, client, sessionVars>>

\* cb_generate_wallet: every press adds a wallet, whatever the user has.
GenerateWallet(u, c) ==
    /\ Draw(u, c)
    /\ wallets' = wallets \cup {RowFor(u, c)}
    /\ UNCHANGED <<asset, status, txHash, chainVars, client, sessionVars>>

-----------------------------------------------------------------------------
(* Settlements.                                                            *)

\* confirm_fiat_payment wants escrow_held, a decision wants dispute.  The sweep
\* believes the copy it loaded before it had the lock.
Accepted(k, o) ==
    status[o] = IF k = "confirm" THEN "escrow_held" ELSE "dispute"

Start(s, k, o) ==
    /\ lock[o] \in {NoSession, s}
    /\ lock' = [lock EXCEPT ![o] = s]
    /\ work' = [work EXCEPT ![s] = [op |-> k, order |-> o, at |-> "address", to |-> 0]]

Begin(s, k, o) ==
    /\ s # Sweeper
    /\ work[s] = Idle
    /\ Accepted(k, o)
    /\ Start(s, k, o)
    /\ UNCHANGED <<asset, tableVars, drawn, chainVars, client, unsaved, left>>

SweepBegin(S) ==
    /\ work[Sweeper] = Idle
    /\ S # {}
    /\ \A o \in S : status[o] = "escrow_held"
    /\ left' = S
    /\ work' = [work EXCEPT ![Sweeper].op = "sweep"]
    /\ UNCHANGED <<asset, tableVars, drawn, chainVars, client, lock, unsaved>>

SweepNext(o) ==
    /\ work[Sweeper].op = "sweep"
    /\ work[Sweeper].order = NoOrder
    /\ o \in left
    /\ left' = left \ {o}
    /\ Start(Sweeper, "sweep", o)
    /\ UNCHANGED <<asset, tableVars, drawn, chainVars, client, unsaved>>

\* get_user_wallet_by_chain: committed rows, and those this session flushed.
RowsOfAnyChain(s) ==   \* mutant: the chain is not asked for
    {r \in wallets \cup unsaved[s] : r.user = PayTo(work[s].op, work[s].order)}
RowsOf(s) ==
    {r \in wallets \cup unsaved[s] : /\ r.user = PayTo(work[s].op, work[s].order)
                                     /\ r.chain = Chain(work[s].order)}

Looking(s) == work[s].order # NoOrder /\ work[s].at = "address"
PaysTo(s, a) ==
    work' = [work EXCEPT ![s] =
                [op |-> @.op, order |-> @.order, at |-> "send", to |-> a]]

UseWallet(s) ==
    /\ Looking(s)
    /\ \E r \in RowsOf(s) : RowsOf(s) = {r} /\ PaysTo(s, r.address)
    /\ UNCHANGED <<asset, tableVars, drawn, chainVars, client, lock, unsaved, left>>

\* generate_and_save_wallet: add and flush; the caller's transaction keeps it.
NewWallet(s) ==
    /\ Looking(s)
    /\ RowsOf(s) = {}
    /\ LET u == PayTo(work[s].op, work[s].order)
           c == Chain(work[s].order)
       IN  /\ Draw(u, c)
           /\ unsaved' = [unsaved EXCEPT ![s] = @ \cup {RowFor(u, c)}]
           /\ PaysTo(s, Len(drawn) + 1)
    /\ UNCHANGED <<asset, tableVars, chainVars, client, lock, left>>

\* An exception inside a settlement.  The sweep logs it and goes on; the others
\* end, a confirmation by committing a dispute.
Raise(s) ==
    work' = [work EXCEPT ![s] = IF @.op = "sweep" THEN [Idle EXCEPT !.op = "sweep"]
                                ELSE [@ EXCEPT !.at = "failed"]]

\* scalar_one_or_none raises for two rows, and a provider may lack its library.
NoAddress(s) ==
    /\ Looking(s)
    /\ Cardinality(RowsOf(s)) # 1
    /\ Raise(s)
    /\ UNCHANGED <<asset, tableVars, drawn, chainVars, client, lock, unsaved, left>>

\* provider.transfer raises and nothing left: an asset the provider does not
\* know, no coin for gas, a client that is not connected, or no answer.
SendRaises(s) ==
    /\ work[s].at = "send"
    /\ Raise(s)
    /\ UNCHANGED <<asset, tableVars, drawn, chainVars, client, lock, unsaved, left>>

\* The transfer is broadcast and waits to be mined.
Broadcast(s) ==
    LET o == work[s].order
    IN  /\ work[s].at = "send"
        /\ asset[o] \in Sends[Chain(o)]
        /\ Answers(Chain(o))
        /\ funded[o] /\ mined[o] = 0
        /\ pool' = [pool EXCEPT ![o] = @ \cup {work[s].to}]

\* Its hash is returned.
SendReturns(s) ==
    /\ Broadcast(s)
    /\ work' = [work EXCEPT ![s] = IF @.op = "sweep" THEN [Idle EXCEPT !.op = "sweep"]
                                   ELSE [@ EXCEPT !.at = "sent"]]
    /\ UNCHANGED <<asset, tableVars, drawn, funded, mined, client, lock, unsaved, left>>

\* It raises all the same: the answer is lost, or TON's hash cannot be formed.
SendLost(s) ==
    /\ Broadcast(s)
    /\ Raise(s)
    /\ UNCHANGED <<asset, tableVars, drawn, funded, mined, client, lock, unsaved, left>>

\* Transfers of one wallet that wait together share a nonce: one is mined, and
\* it leaves too little for another.
Mine(o, a) ==
    /\ a \in pool[o]
    /\ mined' = [mined EXCEPT ![o] = a]
    /\ pool' = [pool EXCEPT ![o] = {}]
    /\ UNCHANGED <<asset, tableVars, drawn, funded, client, sessionVars>>

\* The session is over and its locks are free.
Ends(s) ==
    /\ lock' = [o \in Orders |-> IF lock[o] = s THEN NoSession ELSE lock[o]]
    /\ work' = [work EXCEPT ![s] = Idle]
    /\ unsaved' = [unsaved EXCEPT ![s] = {}]

\* confirm_fiat_payment commits, the wallet it drew with the rest.
CommitConfirm(s) ==
    LET o == work[s].order
    IN  /\ work[s].op = "confirm"
        /\ work[s].at \in {"sent", "failed"}
        /\ IF work[s].at = "sent"
           THEN /\ status' = [status EXCEPT ![o] = "completed"]
                /\ txHash' = [txHash EXCEPT ![o] = work[s].to]
           ELSE /\ status' = [status EXCEPT ![o] = "dispute"]
                /\ UNCHANGED txHash
        /\ wallets' = wallets \cup unsaved[s]
        /\ Ends(s)
        /\ UNCHANGED <<asset, drawn, chainVars, client, left>>

\* A decision of a moderator: nobody commits its session.
RollBackDecision(s) ==
    /\ work[s].op \in {"release", "refund"}
    /\ work[s].at \in {"sent", "failed"}
    /\ Ends(s)
    /\ UNCHANGED <<asset, tableVars, drawn, chainVars, client, left>>

\* Nor that of the sweep, when it has been through its trades.
SweepEnd ==
    /\ work[Sweeper].op = "sweep"
    /\ work[Sweeper].order = NoOrder
    /\ left = {}
    /\ Ends(Sweeper)
    /\ UNCHANGED <<asset, tableVars, drawn, chainVars, client, left>>

\* The process dies and starts again.
Crash ==
    /\ MayCrash
    /\ \E s \in Sessions : work[s] # Idle
    /\ client' = "none"
    /\ lock' = [o \in Orders |-> NoSession]
    /\ work' = [s \in Sessions |-> Idle]
    /\ unsaved' = [s \in Sessions |-> {}]
    /\ left' = {}
    /\ UNCHANGED <<asset, tableVars, drawn, chainVars>>

OrderStep(o) ==
    \/ CreateOrder(o)
    \/ Deposit(o)
    \/ Detect(o)
    \/ TakeOrder(o)
    \/ RaiseDispute(o)
    \/ SweepNext(o)
    \/ \E a \in pool[o] : Mine(o, a)

SessionStep(s) ==
    \/ \E k \in Calls, o \in Orders : Begin(s, k, o)
    \/ UseWallet(s)
    \/ NewWallet(s)
    \/ NoAddress(s)
    \/ SendRaises(s)
    \/ SendReturns(s)
    \/ SendLost(s)
    \/ CommitConfirm(s)
    \/ RollBackDecision(s)

Next ==
    \/ \E o \in Orders : OrderStep(o)
    \/ \E s \in Sessions : SessionStep(s)
    \/ \E c \in {"connected", "unconnected"} : GetClient(c)
    \/ \E u \in Users, c \in Chains : GenerateWallet(u, c)
    \/ \E S \in SUBSET Orders : SweepBegin(S)
    \/ SweepEnd
    \/ Crash

Spec == Init /\ [][Next]_vars

-----------------------------------------------------------------------------
(* Properties.                                                             *)

\* Type invariant.
TypeOK ==
    /\ asset \in [Orders -> Assets]
    /\ status \in [Orders -> Statuses]
    /\ txHash \in [Orders -> Nat]
    /\ wallets \subseteq Rows
    /\ drawn \in Seq(Owners)
    /\ funded \in [Orders -> BOOLEAN]
    /\ pool \in [Orders -> SUBSET Nat]
    /\ mined \in [Orders -> Nat]
    /\ client \in Clients
    /\ lock \in [Orders -> Sessions \cup {NoSession}]
    /\ work \in [Sessions -> Works]
    /\ unsaved \in [Sessions -> SUBSET Rows]
    /\ left \subseteq Orders

\* The key of address a was drawn for user u on the chain of o.
DrawnFor(a, u, o) ==
    /\ a \in 1..Len(drawn)
    /\ drawn[a] = [user |-> u, chain |-> Chain(o)]

\* It was drawn for one of the two parties of o.
OfParty(a, o) == \E u \in {Maker[o], Taker[o]} : DrawnFor(a, u, o)

\* The row that holds that key.
Row(a, u, o) == [user |-> u, chain |-> Chain(o), address |-> a]

\* Every payout of an escrow wallet goes to an address drawn for one of the two
\* parties on the chain of the asset; and the transfer a completed order
\* records goes to a wallet of its payee that is in the table with its key
\* (escrow_service.py:94-108: the row of a wallet that is drawn on the way and
\* the status are committed together).
PayoutsReachParties ==
    \A o \in Orders :
        /\ mined[o] # 0 => OfParty(mined[o], o)
        /\ status[o] = "completed" => Row(txHash[o], PayTo("confirm", o), o) \in wallets

\* The key of every address that got money is kept in a row, or in a session
\* that may still commit it (wallet_service.py:91: "persist it encrypted").
MoneyHasKey ==
    \A o \in Orders :
        mined[o] # 0 =>
            \E r \in wallets \cup UNION {unsaved[s] : s \in Sessions} : r.address = mined[o]

\* Every row holds the key drawn for its address.
KeyOf(r) ==
    /\ r.address \in 1..Len(drawn)
    /\ drawn[r.address] = [user |-> r.user, chain |-> r.chain]

RowsAreDrawn ==
    /\ \A r \in wallets : KeyOf(r)
    /\ \A s \in Sessions : \A r \in unsaved[s] : KeyOf(r)

\* A settlement pays to a wallet of its payee that it has read or flushed.
ReadBy(s) ==
    work[s].at \in {"send", "sent"} =>
        /\ work[s].order \in Orders
        /\ Row(work[s].to, PayTo(work[s].op, work[s].order), work[s].order)
               \in wallets \cup unsaved[s]

WorkIsRead == \A s \in Sessions : ReadBy(s)

\* What waits to be mined goes to a party as well.
PoolIsForParties ==
    \A o \in Orders : \A a \in pool[o] : OfParty(a, o)

\* The inductive invariant of keys and payouts (Wallets_proofs).
IInv ==
    /\ TypeOK
    /\ RowsAreDrawn
    /\ WorkIsRead
    /\ PoolIsForParties
    /\ PayoutsReachParties
=============================================================================
