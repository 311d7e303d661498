# A verification development for p2pCryptoBot

p2pCryptoBot is a Telegram bot for peer-to-peer crypto trades with escrow, with
a marketplace, white-label (B2B) licences and a mini-app API beside it. This
directory holds TLA+ models of its core, the TLC configurations that check them
on small instances, and TLAPS proofs of theorems about them for every instance.

## 1. Inventory

| part | state it keeps | operations | talks to |
|---|---|---|---|
| P2P orders, `services/order_service.py` | table `orders`: status, taker, on-chain status, timestamps | create, activate, take, confirm fiat, cancel, cancel by payload | called by handlers and webhook; calls escrow, wallets, Crypto Pay |
| Escrow, `services/escrow_service.py` | the same rows; money outside | release, refund | Crypto Pay or chain transfer inside the transaction; users, referrals |
| Disputes, `services/dispute_service.py` | the same rows | raise, resolve | escrow |
| Cleanup, `tasks/cleanup.py` | none between runs | expire ads, sweep stagnant trades, badges | escrow, every 60 s |
| Escrow scanner, `tasks/escrow_scanner.py` | none between runs | scan wallets, list funded ads | chain providers, every 30 s |
| Webhook, `bot/handlers/webhook.py` | none | invoice paid, invoice expired | orders |
| Trade handlers, `bot/handlers/{order,trade,escrow,dispute,admin}.py` | dialog state | call the services, tell the parties | services |
| Crypto Pay, `providers/crypto_pay.py` | invoices and used spend_ids (at Crypto Pay) | create invoice, transfer | HTTP |
| Wallets, `services/wallet_service.py`, `providers/wallet_provider.py` | keys; balances (on the chains) | generate, balance, transfer | four chains |
| Users and referrals, `services/{user,referral}_service.py` | trade counters, referral balance, reward rows | increment, reward | inside settlements, under row locks |
| Shop deals, `services/marketplace_ecommerce.py`, `api/main.py` | table `marketplace_deals`, promo codes | create, invoice, confirm Stars, mark paid, deliver, complete | API process; spawns the payout |
| Shop disputes, `services/marketplace_dispute_service.py` | the same rows, dispute counters and bans of `users` | open, resolve, unban | Telegram refunds, payout |
| Payout worker, `tasks/payout_worker.py` | `payout_status` | pay the seller of one deal | wallets; a task of the API process |
| Deposit scanner, `tasks/marketplace_scanner.py` | none between runs | mark funded deals as paid | chains; a task of the bot process |
| Storefront, `api/main.py`, `tasks/cleanup.py` | `products` with images and promotion, `product_reviews`, ratings and badges of sellers | create, activate, upload, boost, review, verify | API; badge task of the bot |
| B2B licences, `services/b2b_service.py`, `tasks/ton_scanner.py` | `ton_invoices`, `b2b_licenses` | invoice, scan, activate, Stars payment | master wallet, Telegram payments |
| Dialogs, `bot/handlers/*.py`, `bot/states.py` | FSM state and data of every user | raise a dispute, chat, brand, arbitrate, sandbox | services; memory or Redis |
| Bot spawner, `bot/dynamic_loader.py` | running bots (none at this commit) | spawn | B2B licences |
| Admin, sandbox, notifications, chat, rates, shell | audit rows, Redis caches | reads, forced writes | everything |

Hard behaviour. Handlers, webhooks and tasks are coroutines of two processes
(the bot, the Mini App API) over one PostgreSQL database, each with a session of
its own, so they interleave at every `await`. Also two updates of one user: aiogram
starts a task per update and does not wait for the one before. Row locks serialise most writers of an order, except the
escrow scanner (which reads and writes without one) and the refund sweep (which
takes the lock but trusts the status it loaded before). Money moves inside
database transactions: a rollback, a crash or a lost answer undoes the row and
not the transfer. Webhooks are repeated and late. Sessions open a transaction at
their first query (SQLAlchemy's autobegin) and roll back when they are closed,
so a service that finds itself inside a transaction leaves the commit to a caller
that may never commit.

What makes the parts correct:

* orders: an ad is listed only when its money is there; one taker per trade; a
  trade in escrow is not withdrawn; cancelled is final;
* escrow: money leaves only a trade, to the party of record, once per order; a
  completed order was paid; a failed transfer is not a success;
* disputes: a decision is carried out once, and saved;
* shop: one active deal per buyer and product; a deal is paid when its money is
  there, cancelled when the money went back, completed for good; the seller of a
  completed deal is paid, of a cancelled one never; promo codes have a limit;
* tasks: what was read without a lock is still good when it is used; every
  funded ad is listed and every overdue one goes away; no lock is kept for ever;
* counters, balances and ratings are what the rows they summarise add up to, and
  transactions that want the same rows in another order all end;
* licences: one for every payment, none without, whatever dialog the payer is in;
* wallets: money goes to a key that was drawn for the right party on the right chain
  and is kept;
* dialogs: a state is never without its data, and a handler acts on what the user
  was shown.

The hazards, each at its line with the properties aimed at it, are listed in
`PROJECT.json`.

## 2. Modules

| module | what it is |
|---|---|
| `OrderBook` | abstract specification: how the status of an order may move, and when its taker is set |
| `P2PEscrow` | the order lifecycle and escrow in detail: 6 services, webhook, scanner, sweep, crashes; implements `OrderBook` |
| `DealBook` | abstract specification: how the status of a shop deal may move |
| `MarketplaceDeal` | shop deals in detail: API handlers, disputes, payout worker, deposit scanner, crashes of the API; implements `DealBook` |
| `Ledger` | abstract specification: trades settled one after the other, with their counters and rewards |
| `SettlementLocks` | the rows of users a settlement locks after its order: counters, rewards, deadlocks; implements `Ledger` |
| `Wallets` | keys and addresses: four providers, look-up and drawing of wallets, transfers, rollbacks |
| `Shop` | abstract specification: reviews, uploads, trades and badges served one after the other |
| `Storefront` | products, images, reviews and ratings, badges: the shop side of the API under its row locks; implements `Shop` |
| `B2BLicense` | invoices, the TON scanner, Stars payments and the licences they buy |
| `Dialogs` | the conversations of one user: FSM state and data under overlapping handlers |
| `MC...` | instances for TLC |
| `..._proofs` | theorems and proofs about the module of that name; those about `DealBook`, `Ledger` and `Shop` are with the module that implements it |

`SettlementLocks` and `Wallets` look at the same settlements as `P2PEscrow`, from
the side it leaves out: the rows of users, and the keys. `Storefront` takes the
status of a deal from `MarketplaceDeal` as an input (`DealMoves`), and the trades
of a seller from settlements (`CountTrade`).

### P2PEscrow and the code

State. `status`, `taker`, `onChainStatus` are the committed columns of `orders`.
`overdue` abstracts the clock: `created_at` of an ad or `updated_at` of a trade
is older than the timeout; every commit of a status clears it (`onupdate=now()`).
The world: `invoice` (Crypto Pay), `deposited`, `paid`, `payee` count whole
amounts into and out of escrow. `notice` is what the bot last told the parties.
Open work, lost in a crash: `job[o]` is the transaction that holds the row lock
of `o` with the transfer it makes; `scanning`, `scanFound`, `scanHits` the local
variables of `_scan_once`; `sweeping`, `sweepLeft` those of
`expire_stagnant_trades`; `client` the connection to TON that the provider of the
process keeps.

Granularity. A service that locks its row, checks, writes and commits with
nothing awaited outside the database is one action (`activate_order` =
`ActivateOrder`, `take_order` = `TakeOrder`, ...): the lock makes it atomic.
`expire_pending_orders` notifies inside its transaction, but holds every row it
decided on until it commits, so it is one action too. One that awaits a transfer
is a job in three steps: it starts (`EscrowConfirm`, `ConfirmFiatPayment`,
`ResolveDispute`, `SweepRefund`), the transfer ends (`TransferSent`,
`TransferLost`, `TransferFails`), the transaction ends (`ReleaseCommits`,
`ConfirmFallsToDispute`, `ResolveEnds`, `SweepClose`, or a database error:
`JobRollsBack`, `SweepBreaks`). The scanner is `ScanBegin` (query), `ScanHit` or
`ScanMiss` per order (balance), `ScanCommit` (its UPDATE waits for row locks and
then writes unconditionally).

Facts about the code and its libraries that shape the model:

* `fiat_confirmed` starts FALSE and nothing assigns it, so `FiatConfirmed` is
  FALSE; with it a release by the handler is refused.
* `resolve_dispute` and the sweep query first and thereby open the transaction;
  `release_escrow` and `refund_escrow` then see `session.in_transaction()` and
  join it; nobody commits; closing the session rolls back. So `ResolveEnds` and
  `SweepClose` keep the row, and "refunded" never reaches `onChainStatus`.
* A locked re-read does not refresh an object already in the identity map
  (nothing uses `populate_existing`). The sweep holds its objects in a list, so
  the status it checks under the lock is the one it loaded: `SweepRefund` has no
  status guard. `resolve_dispute` keeps only a dictionary, so its re-read is new.
* `confirm_fiat_payment` and `cancel_order` are called by no handler of this
  commit. Constant `UnwiredCalls` says which of them an instance runs: `mixed`
  and all theorems include them, `live` and `resolution` do not.
* Crypto Pay holds one balance for all orders, so only the key `spend_id` limits
  a transfer; a chain order is limited by its own wallet. Both limits are the world's
  (`CanTransfer`), not the program's: that an escrow never pays more than it has is
  an assumption here and not a result.
* A provider of TON keeps its client before it has connected, and keeps it when
  `connect()` raises (`wallet_provider.py:443-453`); nothing in the program makes
  another. Every balance then reads 0 and every transfer raises until the process
  is restarted. `TonOrders` are the orders read that way, `GetClient` and
  `LoseClient` what becomes of the client, `Answers` what a provider can tell at
  all. `Unreadable` are orders in an asset whose balance the provider always gives
  as 0, as USDT on TON (`wallet_provider.py:508-514`).

Abstracted: amounts (a wallet holds whole deposits; fees, gas and rounding are
left out), trade counters and referral rewards of a settlement (`SettlementLocks`),
whose wallet is paid (`Wallets`), who presses a button except where the code checks it (`take_order`), a `create_order` that
fails (its rollback leaves nothing that later code can see).

### MarketplaceDeal and the code

State. `status`, `resolution`, `payoutStatus` are columns of `marketplace_deals`,
`discounted` its `promo_code_id`, `uses` the `current_uses` of a seller's code,
`lost` and `banned` the dispute counters and ban of `users`. The world:
`deposited` and `sent` count full prices into and out of a deal's wallet,
`refunded` the Stars Telegram gave back. Open work: `creating` (a `create_deal` past its checks), `job[d]` (who
holds the row of `d`: a completion, a decision, a payout or the scanner),
`waiting[d]` (payout tasks that were spawned), `unbanning[u]` (the row an
`unban_user` has read), `scanLeft` (deals the scanner loaded and has to check).

Granularity. `mark_deal_paid`, `deliver_deal` and `open_marketplace_dispute` lock,
check, write and commit: one action each. `create_deal` reads without a lock, so
its check (`CreateCheck`) and its commit (`CreateCommit`) are two. A completion
spawns the payout before it commits (`CompleteDeal`, `CompleteCommits`); a
decision reads the loser's row, spawns or refunds, and commits (`ResolveDispute`;
`StarsRefunded` or `RefundFails`; `ResolveCommits`). The worker gets the row
(`PayoutBegins`, `PayoutReturns`), transfers (`PayoutMade`, `PayoutFails`) and
records (`PayoutRecorded`). The scanner loads (`ScanBegin`) and for each deal
locks (`ScanLock`) and finds the price or does not (`ScanPaid`, `ScanMiss`).
`RollsBack` is a commit that fails, `ApiCrash` the end of the API process: its
transactions and payout tasks are gone, the scanner of the bot process is not.

Facts about the code and its libraries that shape the model:

* `get_deal(for_update=True)` and the worker put FOR UPDATE on the LEFT OUTER JOIN
  of `joinedload`, which PostgreSQL refuses ("cannot be applied to the nullable
  side of an outer join"); the worker records its outcome in a `session.begin()`
  after a query has already begun, which SQLAlchemy refuses. The unit tests mock
  the session and see neither. As shipped, `deliver_deal`, `complete_deal` and the
  worker therefore fail at their first query. Constant `Accepts` says which of
  the two uses is accepted: `{}` is what ships; with both the model shows what the
  code does once the queries are repaired. The
  theorems hold for every value.
* `_check_deal_deposit` re-reads the row under its lock, but the session still
  holds the object `_scan_once` loaded and does not refresh it: the second status
  check is on the old value, so `ScanPaid` has no status guard.
* `session.rollback()` expires every object of the session whatever
  `expire_on_commit` says; the next attribute access is a lazy load outside a
  greenlet and raises, also in the handler of the exception. So a pass ends at its
  first miss: `ScanMiss` empties `scanLeft`. The query has no ORDER BY: any order
  is possible.
* `buyer_wallet_address` is assigned nowhere, so an on-chain refund always raises.
  A Stars refund needs the charge id the Mini App sends; the shipped front end
  sends an empty one (`ProductDetails.tsx:107`). `ChargedDeals` are those with one.
* The row lock of a spawned payout waits behind the transaction that spawned it.
* SQLAlchemy writes only changed attributes: an `is_shadowbanned` that was read
  TRUE is not written again, a counter read 0 is not reset (`UnbanCommits`).
* The Stars handlers of `bot/handlers/stars_payment.py` are registered after the
  B2B router, whose handlers take every Stars payment first; they and their
  payload `deal:` (the API writes `product:user`) are left out.

Abstracted: amounts (a wallet holds whole prices), products, the cooldown of a
dispute (time may always have passed), expiry of promo codes, notifications,
which party opens a dispute. A CRYPTO product without a chain, which the shop
form does not offer, is left out, and so is a promo code of 100 %: it makes the
price 0, which an empty wallet covers, so that the scanner marks the deal without a
deposit (`marketplace_scanner.py:113`); `ScanPaid` takes a full price.

### SettlementLocks and the code

State. `status` of the orders, `trades` (`total_trades` and `successful_trades` of a
user, which settlements raise together), `balance` (`referral_balance`), `rewards`
(number and sum of a referrer's `referral_rewards`). `lock` says which session holds a
row; `op`, `order`, `step`, `read`, `left` are what a session is doing: which
settlement, how far down its list of rows (`Plan`), what it read of the rows of
users, and which trades the sweep has still to settle.

Granularity. One action per row lock (`LockOrder`, `LockUser`), because that is where
a settlement waits; the lists are those of `_release_escrow_logic` (order, maker,
taker, referrer of the taker) and `_refund_escrow_logic` (order, maker, taker). A
confirmation commits (`Commit`), a moderator's decision and the sweep roll back
(`Close`), the sweep only after its last trade (`SweepNext`). PostgreSQL ends a
session that is part of a cycle of waits (`DeadlockBroken`).

Facts: the balance has two decimals and a reward six, so every commit rounds
(`Rounded`, `Scale`); it adds rewards of all assets in one number;
`confirm_fiat_payment` is called by no handler at this commit, so as wired no
counter ever moves. Abstracted: amounts but for the rounding, and the transfer,
which may fail at any time (`TransferFails`).

`Ledger` has the same tables and no sessions, locks or sweep: `Settle` does in one
step what a commit does to the rows of an order, its parties and the referrer, and
`Dispute` what a failed confirmation or a party does. `SettledOneByOne` says that
`SettlementLocks` implements it.

### Wallets and the code

State. `asset`, `status`, `txHash` are columns of `orders`, `wallets` the table
`user_wallets`. The world: `drawn` is the list of all keys ever drawn, with whom for
(an address is a place in it), `funded` says that an escrow wallet got its deposit,
`pool` and `mined` hold the addresses it has sent to. `client` is the TON client of
the process. Open work: `work[s]` (a settlement between look-up and commit),
`unsaved[s]` (rows a session has flushed and not committed), `lock`, `left`.

Constants of the code (`ChainsOf`, `Reads`, `Sends`) are the tables of
`wallet_service.py` and of the four providers.

Granularity. A settlement looks up the payee's wallet (`UseWallet`), draws one
(`NewWallet`) or raises (`NoAddress`), sends (`Broadcast`, with the answers
`SendReturns` and `SendLost`, or `SendRaises`), and ends as its caller does
(`CommitConfirm`, `RollBackDecision`, `SweepEnd`).

Facts: nothing makes a user's wallet on a chain unique, so a second one (two
presses of the button) makes `scalar_one_or_none` raise for every later payout; a
TON client whose connection failed is kept and reports balance 0 for ever
(`wallet_provider.py:445`); USDT's first chain is TON, whose `get_balance` reads TON
only, so a USDT escrow is never seen funded; a token escrow holds no native coin to
pay for its own transfer. Abstracted: key derivation, fees, nonces, amounts.

### Storefront and the code

State. `product`, `images`, `promoted`; `review` (at most one row per deal, by its
unique index), `rating` (`rating_sum` and `review_count` of a seller); `trades` and
`badge` of users; `deal` (whether a deal may be reviewed). `stage`, `about`, `value`,
`seen` are an open request: where it stands, on what, with what rating or number of
files, and what it read of the row it locked. `scanned` are the sellers
`verify_top_sellers` is about to verify. `uploaded` counts committed images and is
there for the property.

Granularity. A review is a check without a lock, an INSERT that shares the rows of
both parties through its foreign keys, a lock of the seller and a commit:
`CheckReview`, `InsertReview` (or `RefusedByIndex`), `LockSeller`, `CommitReview`. An
upload holds the product from its SELECT to its commit (`BeginUpload`,
`CommitUpload`). Everything else is one action.

Facts: two reviews of one seller deadlock, whatever the order of their steps once
both are inserted, and one of them fails with status 500; an upload that fails in
its answer (a lazy load) has committed its images, so that a retry adds them again;
a boost is confirmed without proof of its payment and never taken back; the admin's
toggle sets `is_verified`, the badge is `is_verified_seller`.

`Shop` has the same tables without requests: `Review`, `Upload`, `Trade` and `Verify`
read and write what a request read under its locks or before them, in one step.
`ServedOneByOne` says that `Storefront` implements it.

### B2BLicense and the code

State. `status` and `txHash` of invoices, `licence` (owner by charge). The world:
`chain` (transfers to the master wallet, newest first), `update` (a Stars payment's
update at Telegram). The process: `scanning`, `todo`, `dirty` (a pass, what it has
still to look at, and what its one session wrote without a commit), `handler`,
`client` (as in `P2PEscrow`: the scanner's provider is one of its own), and
`disputing`, the users whose dialog waits for the reason of a dispute.

Granularity. A pass is `ScanBegin`, one action per transaction (`Ignore`,
`Activate`, or `PassFails`), `ScanEnd`. A Stars payment is read once
(`HandlePayment`, the look-up of its charge) and inserted later (`InsertLicence`); a
crash between the two, or before aiogram confirms the update, makes Telegram
deliver it again. Where the update goes depends on the payer's dialog: the dispute
router precedes the B2B router (`handlers/__init__.py:41,46`), and
`msg_dispute_reason` takes every message of a user in `enter_reason`
(`dispute.py:33`), so `HandlePayment` starts the handler of a payment only for a
payer outside `disputing`. A pass begins with `get_transactions`, which raises over
an unconnected client (`FetchFails`; `ScanBegin` needs a client that is not
unconnected). `Accepts` = {} is the shipped behaviour, where
`session.begin()` after a query raises (`b2b_service.py:202`) and no TON payment is
ever committed; with `{"nested_begin"}` the module shows the code repaired. The
theorems hold for both.

### Dialogs and the code

State. `state` and `data` as aiogram's FSMContext keeps them for one user; `work`
the handlers of the user that are under way; `shown` what the user was last shown
(the dispute, chat or field whose button was pressed), `filed` the last thing a
handler did with what was shown at its press.

A handler is a program: a sequence of blocks of storage operations, cut where it
awaits Telegram or the database. `Arrive` picks the handler by the state, in the order
of `ROUTERS`, and runs its first block; `GoOn` the others; `Write` is the database
call of a dispute, a message or a branding value; `GiveUp` any early return or error;
`Restart` empties MemoryStorage. A handler with RedisStorage is cut at every
operation (`Storage` = "redis").

Facts: no middleware passes `db_user` to handlers (`UserRegistrationMiddleware` is
registered on updates and tests for messages and callbacks), so the ad wizard ends
at its asset step and browsing raises; `ThrottlingMiddleware` never throttles for the
same reason; "Back to menu" leaves the state, so text after leaving a chat is still
forwarded, and neither way out promised by `chat.py:32` exists; Cancel of the branding
dialog keeps its state as well. `order.py`'s own wizard is shadowed by the
marketplace router and left out.

## 3. Runs

| run | instance | question |
|---|---|---|
| `mixed` | a sell order on Crypto Pay, a buy order on a chain, 2 takers, all services, 2 deposits, 1 crash | the safety of every interleaving, the inductive invariant, that the book is implemented, and what the book entails of takers |
| `live` | 2 orders on chains, one read over the TON client, wired services | the tasks get things done |
| `resolution` | 1 order | a resolved dispute is not saved (section 5) |
| `deal_mixed` | an on-chain and a Stars deal with a charge id, one promo use, 1 deposit, 1 fault, `Accepts` both | the safety of every interleaving, the inductive invariant, and that the deal book is implemented |
| `deal_live` | 1 on-chain deal, 2 deposits, 1 fault, `Accepts` both | locks come free |
| `settle` | 2 trades between 2 users in both roles, one referrer of both, 2 handlers and the sweep | counters and balances add up, the tables are those of a ledger; every settlement ends |
| `wallets` | 2 sell orders of one maker, TON or USDC, 1 handler and the sweep, 2 keys drawn, crashes | payouts reach parties |
| `lost_key` | the same without crashes and without the unwired confirmation | money on an address whose key is gone (section 5) |
| `storefront` | 2 deals of one buyer and one seller, 1 product, 2 requests, 2 ratings, 2 images | ratings and images add up, the tables are those of a shop that serves one request at a time; every request ends |
| `b2b` | 2 invoices, 5 transfers (one invoice paid twice, one short and then in full, one foreign), 1 Stars payment, window 2, 1 fault, `Accepts` repaired | what is licensed was paid for, once; a Stars payment that is routed to its handler becomes a licence |
| `ton_unlicensed` | the same as shipped (`Accepts` = {}), without faults | no TON payment is ever licensed (section 5) |
| `dialogs` | 2 orders, 1 reason, 2 fields, 2 handlers at a time, MemoryStorage, restarts | a state has its data; handlers act on what was shown |

Bounds. Rows interact only through the two tasks, which treat a set of orders;
two orders are enough for a batch of more than one and for the sweep to hold one
lock while it waits for another. `live` has both of its orders on chains, since
only the scanner has something to notice, and one of them over TON, since only its
client can be lost; the other must be noticed all the same. Two takers and the maker give every race for a
taker. A second deposit makes a second payout out of the same wallet possible, so
`mixed` allows two. One crash at every point is enough for safety of one
settlement. Deadlock is not checked: all
orders may be finished and no user has to make another.

Deals meet in three places only: the duplicate check, the promo code and the
loser's counters on one side, the scanner's session on the other; two deals of
one buyer and one seller meet in all of them. Two deposits make a second payout
possible (`deal_live`; with two deals they would take TLC too long), one fault
undoes one commit at any point. The passing runs take the repaired database
layer, where everything can happen; that the same safety holds of the shipped one
is what the theorems add, which leave `Accepts` open. `MaxUses` = 1 makes two deals
race for the last use.

`settle` has the smallest cycle of waits (two trades between the same two users, in
opposite roles) and the larger one through the sweep, which keeps the rows of its
first trade; `Scale` = 4 with rewards 1 and 3 rounds one down and one up.
`storefront` has two requests for every race of two, on the same deal, on two deals
of a seller, and on one product, with fewer images than two uploads would like.
`wallets` draws at most two keys: a second wallet of one user, and a wallet drawn
again after its row was rolled back, are both within it; two assets give an order
the wrong chain's row to pick up. `b2b` has a window smaller than the chain, so
that a transfer can be pushed out of reach. `dialogs` keeps the two orders a user
can confuse and two handlers, the least that can overlap; every flow of the bot that
keeps state is in it. In these runs too a system may stop when users do nothing.

The safety of the type invariants and of what open work relies on is part of `IInv`
where a run checks it (`mixed`, `deal_mixed`), and is proved everywhere.

Every property of the passing runs is paired in
`PROJECT.json` with a mutation of the code that breaks it (a lock not taken, a
status check dropped, a refused insert tried again for ever, ...).

Fairness (`TaskFairness`). Both tasks are loops that catch every exception, so
their steps are weakly fair. A transaction ends: the awaits have timeouts.
Strong fairness on `ScanHit(o)` says that a node asked again and again over a
working connection sometimes answers; the action is not enabled over a client that
is not connected, nor for an asset the provider does not know, so nothing is assumed
of these. `DepositIsNoticed` says so: an order outside `Unreadable` that is funded
leaves `pending_funding`, unless it is read over TON and the client is left
unconnected. Weak fairness on `GetClient` is the scanner's own look at a TON wallet, and
leaves open whether the connection comes about. Strong fairness on `SweepRefund` is
PostgreSQL's queue of lock waiters: other transactions may take the row in between,
not always. Nothing is assumed of users, of Crypto Pay or of time. The live run has
no crashes (a crash restarts everything) and leaves the unwired services out.

In `MarketplaceDeal` a transaction ends one way or another (`WF` on `JobStep(d)`), the
scanner's loop goes on (`WF` on `ScanBegin`) and PostgreSQL queues lock waiters (`SF`
on `ScanLock` and `TaskStep(d)`). `LocksAreReleased` needs the first only. Nothing is
assumed of a provider's answers: `FundedDealIsPaid` takes them for granted in its
hypothesis, and fails even so, because the order in which a pass checks its deals is
not fair (section 5). That a spawned payout task gets its row is not stated: as shipped
its first query is refused.

In `SettlementLocks` and `Storefront` the database serves the waiters of a row in
turn (`SF` on the next step of a session or request) and resolves deadlocks (`WF`
on `DeadlockBroken`, PostgreSQL's `deadlock_timeout`); nobody has to begin anything.
In `B2BLicense` the scanner's loop and aiogram's polling loop catch every exception
and go on (`WF` on `Scan`, `ConfirmUpdates`, `Handle(s)`); a pass over a connection
that works sometimes fetches, and `Scan` is not enabled over one that does not.
Transfers, payments, faults, connections and dialogs are not assumed.
`StarsPaymentIsLicensed` excepts payers who are asked for a reason. `Wallets` and `Dialogs` have safety properties only.

## 4. Proofs

`OrderBook_proofs`: types, `TakerOfRecord`, and from it `OneTaker`: a taker is
only set on an active order, which has none. `DisputesAreFinal`: nothing leads out of a
dispute.

`P2PEscrow_proofs`, for any sets of orders and users, any kinds of orders, any
choice of unwired services and any bounds:

* `TypeCorrect`;
* `Inductive`: `IInv` is an inductive invariant. The safety invariants are not
  inductive alone. That money leaves only traded or disputed orders
  (`NoPayoutOutsideTrade`) needs to know that the row of a job still has the
  status it checked (`TransactionsInFlight`), because the transfer is a later
  step than the check. That a listed ad is funded needs to know what the scanner
  carries (`ScanInFlight`), and that an order with a wallet has no invoice
  (`Bookkeeping`): otherwise a paid invoice would list an unfunded chain order,
  and an activated order could be one the scanner holds. That nobody is made
  payee afterwards (`PayeeOnRecord`) needs `Bookkeeping` (a payee was paid) with
  `NoPayoutOutsideTrade` (so the order is not active and cannot be taken). That
  the unlocked sweep pays only engaged orders is `SweepInFlight`, true because
  no status leads back from an engaged order to the book;
* the safety invariants as corollaries;
* `SettlingIsExclusive`: the row lock excludes every other writer;
* `OrderBookImplemented`: every step is a step of the book or a stutter, with
  relistable orders the on-chain ones; and through it `TakerStaysOnRecord`,
  `OnlyOneTakes` and `DisputesNeverEnd`, the theorems of the book carried over to the
  program. The last is the other side of the finding of `resolution`: whatever a
  moderator decides, pays and announces, the order stays in dispute;
* `WiredCompletesNothing`: as long as `confirm_fiat_payment` is called by no handler
  (`UnwiredCalls` without it, as in the shipped bot), no trade is ever completed.

`MarketplaceDeal_proofs`, for any deals and users, any choice of currencies and
charge ids, any bounds and either behaviour of the database layer:

* `TypeCorrect`, and `Inductive` for `IInv`. That sellers are paid only out of
  running deals (`PayoutOnlyWhileRunning`), although the worker never looks at
  the status, needs that a spawned payout is of a deal that was paid
  (`TasksInFlight`), that no wallet deal is ever cancelled
  (`CancelledMeansRefunded`), and that only wallets pay out (`Bookkeeping`). That
  a cancelled deal was refunded needs that a decision still finds the dispute it
  checked, and that a transfer it counts as made was made
  (`TransactionsInFlight`). The promo limit needs that discounts are finitely
  many, for their number to be one (`PromoStep`);
* the safety invariants as corollaries;
* `LocksAreExclusive`: the row lock excludes every other writer of a deal;
* `BookSettlesForGood` and `BookKeepsPaid`, about `DealBook` alone, from its
  transitions;
* `DealBookImplemented`, with the wallet deals as those a scan may set back; and
  through it `SettledDealsStaySettled` and `PaidDealsStayPaid`;
* `ShippedPaysNobody`: where `Accepts` lacks `"outer_join_lock"`, as on PostgreSQL, no
  deal is delivered, none is completed but by an admin's decision for the seller, and
  nothing is ever paid out. The runs take the repaired database layer, so this is
  said by the theorem only.

`SettlementLocks_proofs`, for any orders, parties, referrers, rewards and sessions:
`Inductive`, `Counters` and `Balances`. That a counter is the number of completed
trades needs that what a session read of a locked row is still what the table says
(`SessionInFlight`), because the increment is written from the read value at the
commit; that only the holder changes a row follows from the locks it has behind it
(`LockUserPreserves`, `CommitPreserves`). That a completed order is counted once needs
that a confirmation holds its order from check to commit. The distance between
balance and rewards grows by at most half a unit with every reward (`RoundedIsNear`).

`OneByOne` is the refinement of `Ledger`. The only steps that write its tables are a
commit, a failed confirmation and a dispute. What a commit does to users is written
once (`CommitEffect`): each party one trade more, the referrer the reward, rounded, and
everybody else nothing; that these are increments of what the table holds now, and not
of an older value, is again `SessionInFlight`. The step is then `Settle` of that order.

`CirclesNeedSwappedRoles` says where deadlocks come from, for any number of sessions.
`LockedAfter` has `<<q, r>>` if some release locks row `q` after row `r`. If that
relation is well-founded (no users who trade in both roles or refer each other in
a chain that comes back), no set of handlers waits in a circle. Every handler holds only
rows of its plan that come before the one it waits for (`HandlersHold`, inductive with
`IInv`), so along a circle of waits rows go up in `LockedAfter` (`WaitsUpwards`), and a
minimal one contradicts that (`NoCircle`). The sweep is left out on purpose: it keeps the
rows of trade after trade, and can close a circle of its own. Run `settle` has users in
both roles, where circles do happen and `DeadlockBroken` is needed.

`Storefront_proofs`, for any deals, users, products and concurrent requests:
`Inductive`, `RatingsAddUp`, `ImagesAddUp`. A rating is a pair of a count and a sum
over reviews; the sum is written as five cardinalities (`Stars`), so that a new review
adds to exactly one of them (`CountedOnce`). The invariant says that a request that
has the seller's row has read it as it is (`Own`), and that no two requests hold the
same row (`Apart`). `BadgesAreEarned` follows from it as well: trades and reviews only
grow between the look of `verify_top_sellers` and its UPDATE.

`OneByOne` is the refinement of `Shop`. A commit of a review is `Review` of its deal,
because the totals it read are still the seller's and the deal has still no review
(`CommitReviews`); of an upload, `Upload`, because the list it counted is still the
product's (`CommitUploads`); the UPDATE of the badge is `Verify`, because whoever was
scanned has the history still (`VerifyVerifies`). Every other step is a stutter.

`B2BLicense_proofs`, for any invoices, transfers, windows and either `Accepts`:
`Inductive`, `PaidFor`, `OneLicence`. What a pass has still to look at is on the chain
(`FetchedOnChain`, `ChainGrows`), so that a licence was paid for; an invoice and its
licence are written by one commit, so that each names the other.
`ShippedTonSellsNothing`: where `Accepts` lacks `"nested_begin"`, as with SQLAlchemy, no
TON payment ever buys a licence and no invoice is ever paid: the theorem behind run
`ton_unlicensed`.

`Wallets_proofs`, for any orders, users, assets, chains, sessions and callers:
`Inductive`, `PartiesArePaid`. A settlement pays to a row of its payee it has read or
flushed (`WorkIsRead`), every row has the key drawn for it (`RowsAreDrawn`), and
so has what waits to be mined (`PoolIsForParties`). That money keeps its key does
not hold (`lost_key`).

`Dialogs_proofs`, on MemoryStorage, for any orders, reasons, fields and number of
handlers that overlap: `Inductive`, `StateHasData` (`DialogHasItsData`) and `FiledAsShown`
(`ActsOnWhatWasShown`). The hypothesis `Storage = "memory"` cannot be dropped: both
properties fail on Redis (section 5). The invariant says of the storage that a
state of a flow stands for the screen its data names (`StateIsWhatWasShown`), and of a
handler under way that it has a tail of one of three programs left, and its own copy of
the data names what was on the screen when it was called (`FilesWhatWasShown`). A block
runs without giving way, so the state and the key a flow writes change together; the
lemmas about blocks (`Operations`, `BlockEffects`, `TradePrograms`, ...) compute what each
handler's first block does to the storage, and the tails left after it (`Tails`) only file
what was read or clear state and data together.

Assumptions: `P2PAssumption`, `DealAssumption`, `LocksAssumption`, `StorefrontAssumption`, `LicenseAssumption`, `WalletsAssumption` and
`DialogsAssumption` (parties are users, kinds do not overlap, bounds are numbers),
which TLC evaluates in the runs. What the order book needs of its constants
(`OrderBookAssumption`) is a hypothesis of its theorems, and `P2PEscrow` meets it
(`BookAssumption`); the abstract specifications of deals, ledger and shop need none. Hypotheses on constants that only some theorems have
(`Storage`, `Accepts`, `UnwiredCalls`, `LockedAfter`) are in their statements, and hold in
the shipped program or, the last, in every instance without swapped roles.

Only model-checked: liveness under fairness, which is out of the prover's reach. Every
other property of a passing run is a theorem.

## 5. Where the program does not do what it says

Three runs end in a counterexample to a sentence of the repository, which the
findings in `PROJECT.json` quote: a resolved dispute is announced and never committed
(`resolution`), a settlement pays to a fresh wallet whose key its own rollback
discards (`lost_key`), and a TON payment is found by every pass of its scanner and
licensed by none (`ton_unlicensed`: `b2b_service.py:202` calls `create_b2b_license`
inside the transaction its own query opened, where the comment above it says that
this is safe).

Six more sentences are stated in the modules and refuted by TLC in the same way;
they are not among the runs. To see a counterexample, name the formula as INVARIANT
or PROPERTY of a configuration like the one given:

| formula | module, configuration | what happens |
|---|---|---|
| `CancelledIsFinal` | `MCP2PEscrow`, one order on a chain | an ad cancelled while the scanner awaits balances comes back |
| `SettledOnce` | `MCP2PEscrow`, one order on Crypto Pay | an order is refunded and released, under two keys |
| `SweepSparesDisputes` | `MCP2PEscrow`, one order | the sweep refunds a trade that is already disputed |
| `ScanPaysCreatedOnly` | `MCMarketplaceDeal`, two deals, `Accepts = {}` | a late scan sets a deal that moved on back to paid |
| `FundedDealIsPaid` | `MCMarketplaceDeal`, two wallet deals, `FairSpec` | a funded deal behind an unfunded one is never marked |
| `LosersAreCounted` | `MCMarketplaceDeal`, two deals | concurrent decisions lose a count |

Both properties of `Dialogs` fail with `Storage = "redis"`: the state of a dispute is written before its
order, and two buttons pressed at once mix their keys.

Other disagreements were met while the code was translated. The models contain
them, but they need no interleaving to show themselves, so no run is spent on
them:

* the release of a buy order goes to its maker (`escrow_service.py:92`), also when
  the taker has won the dispute (`dispute_service.py:82`);
* the maker's confirmation is always refused: nothing sets `fiat_confirmed`
  (`escrow_service.py:88`);
* a swept trade stays in escrow, its refund is not committed (`cleanup.py:80`);
* two requests of a buyer make two active deals of a product: the duplicate check
  locks nothing (`marketplace_ecommerce.py:92`);
* `mark_deal_paid` takes the buyer's word for an on-chain deal (`api/main.py:983`);
* an on-chain refund needs `buyer_wallet_address`, which nothing assigns
  (`marketplace_dispute_service.py:264`);
* the payout worker's first query is one PostgreSQL refuses, and nothing calls the
  worker again (`payout_worker.py:36`);
* a payment that arrives after its ad was cancelled is acknowledged and not returned
  (`webhook.py:78`);
* `max_uses` = 0 means no limit (`marketplace_ecommerce.py:122`), and a second code of
  the same name makes its validation raise;
* `confirm_stars_deal` called twice for one payment makes two paid deals
  (`api/main.py:805`);
* a branding value is reported as saved and never committed (`b2b.py:260`);
* a Stars payment that reaches the B2B router becomes a licence, whatever it was for
  and whatever its amount: the router comes before that of Stars deals, and neither
  amount nor payload is looked at (`b2b.py:112`);
* the Stars payment of a user who is asked for the reason of a dispute is answered
  "Reason cannot be empty." and becomes nothing (`dispute.py:33`, before the B2B router
  in `handlers/__init__.py:41,46`); `StarsPaymentIsLicensed` excepts it;
* a TON client that failed to connect once is kept: no TON deposit is noticed and no
  transfer to the master wallet is fetched until the process restarts
  (`wallet_provider.py:445`); `DepositIsNoticed` and `TonPaymentIsLicensed` except it;
* a USDT escrow is never seen funded: its wallet is on TON, where only TON is read
  (`wallet_provider.py:508`); a token escrow of any chain has no coin for the gas of
  its own transfer;
* every API endpoint that asks who its caller is fails: `BOT_TOKEN` is a plain string
  (`config.py:52`) and has no `get_secret_value()` (`api/main.py:121`). The models of
  the API take the repaired line;
* a promo code of 100 % makes a deal whose empty wallet counts as paid
  (`marketplace_scanner.py:113`);
* no licensed bot is ever started (`dynamic_loader.py:81`).

What does hold in spite of all this is the subject of sections 3 and 4: no ad
without money, no second taker, no paid order back in the book, nobody but the party
of record paid; no payout out of an unpaid or cancelled deal, no cancellation without
the refund, no promo code past its limit, no false payout record, and locked rows stay
as they are; counters, balances and ratings that add up, and no wait without end; no
licence without a payment, none for a stranger; no payout to a stranger; no dialog
without its data, in memory.

## 6. Not modelled

* Bot spawner: no spawned bot runs at this commit (section 5), so there is
  no behaviour beyond its failure.
* Rates, brokers, balances, the front end, texts, keyboards beyond the dialogs they
  open, profile and settings: reads, caches and layout that hold no state of a
  trade.
* Key derivation, wire formats and fees of the chain SDKs, encryption, HMAC, the
  start-up licence key: pure functions and I/O.
* File delivery, categories, search, statistics, audit rows and stored
  notifications: reads and single inserts.
* The P2P ads of the bot's marketplace and the wizard of `order.py`: their dialogs
  cannot be finished, or never begun, at this commit.
* The sandbox's forced writes: an administrator sets any status by hand; every
  property of an order would be about the administrator.
* Set-up scripts.

Still worth doing: the gas and fee arithmetic of an escrow (deposit threshold in two
currencies, `escrow_scanner.py:97`), a composition of `P2PEscrow` with
`SettlementLocks` in one instance, and the expiry of licences.
