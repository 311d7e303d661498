----------------------------- MODULE Storefront -----------------------------
(***************************************************************************)
(* The shop side of the marketplace in api/main.py: products and their     *)
(* images, reviews of deals and the rating of sellers they add up to, and  *)
(* the badge the cleanup task gives to well rated sellers.  Deals are in   *)
(* MarketplaceDeal; here they only become fit for a review and stop being. *)
(*                                                                         *)
(* A review is one transaction of three statements.  Its INSERT waits for  *)
(* another review of the same deal (the unique index) and takes a share    *)
(* lock on the rows of reviewer and seller (the foreign keys); the SELECT  *)
(* ... FOR UPDATE of the seller waits for the shares of others, so that    *)
(* two reviews of one seller can wait on each other.                       *)
(* Shop says what all of it comes to.                                      *)
(***************************************************************************)
EXTENDS Integers, FiniteSets

CONSTANTS
    Deals,
    Users,
    Buyer,      \* buyer_id of each deal
    Seller,     \* seller_id of each deal
    Ratings,    \* what a reviewer may give
    Products,
    Requests,   \* concurrent HTTP requests
    MaxImages,
    MinTrades,  \* what the badge asks for: trades, reviews
    MinReviews,
    MinDoubled, \* and twice the average rating
    NoRating,
    Nothing     \* a request works on nothing

ASSUME StorefrontAssumption ==
    /\ IsFiniteSet(Deals)
    /\ Buyer \in [Deals -> Users]
    /\ Seller \in [Deals -> Users]
    /\ Ratings \subseteq 1..5
    /\ NoRating \notin 1..5
    /\ Nothing \notin Deals \cup Products
    /\ Deals \cap Products = {}
    /\ MaxImages \in Nat
    /\ {MinTrades, MinReviews, MinDoubled} \subseteq Nat \ {0}

VARIABLES
    \* The tables, as committed.
    deal,       \* [Deals -> {"created", "reviewable", "other"}]
    review,     \* [Deals -> Ratings \cup {NoRating}]
    rating,     \* [Users -> Totals]: rating_sum and review_count
    trades,     \* [Users -> Nat]: successful_trades, up to MinTrades
    badge,      \* SUBSET Users: is_verified_seller
    product,    \* [Products -> {"none", "active", "inactive"}]
    images,     \* [Products -> Nat]: how many image_urls
    promoted,   \* SUBSET Products: is_promoted
    \* Open requests and the task: lost in a crash.
    stage,      \* [Requests -> Stages]
    about,      \* [Requests -> Deals \cup Products \cup {Nothing}]
    value,      \* [Requests -> Nat]: the rating, or how many files
    seen,       \* [Requests -> Totals]: what it read of the row it locked
    scanned,    \* SUBSET Users: whom verify_top_sellers is about to verify
    \* Bookkeeping of the properties.
    uploaded    \* [Products -> Nat]: images of uploads that were committed

shopVars == <<product, images, promoted, uploaded>>
reviewVars == <<deal, review, rating>>
badgeVars == <<trades, badge>>
requestVars == <<stage, about, value, seen>>
vars == <<reviewVars, badgeVars, shopVars, requestVars, scanned>>

Totals == [sum: Nat, n: Nat]
Zero == [sum |-> 0, n |-> 0]
Stages == {"idle", "checked", "inserted", "locked", "upload"}

Init ==
    /\ deal = [d \in Deals |-> "created"]
    /\ review = [d \in Deals |-> NoRating]
    /\ rating = [u \in Users |-> Zero]
    /\ trades = [u \in Users |-> 0]
    /\ badge = {}
    /\ product = [p \in Products |-> "none"]
    /\ images = [p \in Products |-> 0]
    /\ promoted = {}
    /\ stage = [r \in Requests |-> "idle"]
    /\ about = [r \in Requests |-> Nothing]
    /\ value = [r \in Requests |-> 0]
    /\ seen = [r \in Requests |-> Zero]
    /\ scanned = {}
    /\ uploaded = [p \in Products |-> 0]

-----------------------------------------------------------------------------
(* Row locks.                                                              *)

Party(d) == {Buyer[d], Seller[d]}

\* Requests whose INSERT has happened: they share the rows of both parties.
Inserted == {r \in Requests : stage[r] \in {"inserted", "locked"}}
Sharing(u) == {r \in Inserted : u \in Party(about[r])}
Locking(u) == {r \in Requests : stage[r] = "locked" /\ Seller[about[r]] = u}
Uploading(p) == {r \in Requests : stage[r] = "upload" /\ about[r] = p}

\* Whom request r waits for.
Blockers(r) ==
    CASE stage[r] = "checked" ->
             {t \in Inserted : about[t] = about[r]}
                 \cup UNION {Locking(u) : u \in Party(about[r])}
      [] stage[r] = "inserted" -> Sharing(Seller[about[r]]) \ {r}
      [] OTHER -> {}

\* r is on a cycle of requests that wait for each other.
Deadlocked(r) ==
    \E S \in SUBSET Requests :
        /\ r \in S
        /\ \A t \in S : Blockers(t) \cap S # {}

Ends(r) ==
    /\ stage' = [stage EXCEPT ![r] = "idle"]
    /\ about' = [about EXCEPT ![r] = Nothing]
    /\ value' = [value EXCEPT ![r] = 0]
    /\ seen' = [seen EXCEPT ![r] = Zero]

-----------------------------------------------------------------------------
(* Reviews.                                                                *)

\* The deal is paid, delivered or completed; later a dispute may end it.
DealMoves(d) ==
    /\ deal' = [deal EXCEPT ![d] = IF deal[d] = "created" THEN "reviewable" ELSE "other"]
    /\ deal[d] # "other"
    /\ UNCHANGED <<review, rating, badgeVars, shopVars, requestVars, scanned>>

\* create_deal_review looks at the deal and for a review, without a lock.
CheckReview(r, d, n) ==
    /\ stage[r] = "idle"
    /\ deal[d] = "reviewable"
    /\ review[d] = NoRating
    /\ stage' = [stage EXCEPT ![r] = "checked"]
    /\ about' = [about EXCEPT ![r] = d]
    /\ value' = [value EXCEPT ![r] = n]
    /\ UNCHANGED <<reviewVars, badgeVars, shopVars, seen, scanned>>

\* The INSERT, sent by the flush before the next SELECT.
InsertReview(r) ==
    /\ stage[r] = "checked"
    /\ Blockers(r) = {}
    /\ review[about[r]] = NoRating
    /\ stage' = [stage EXCEPT ![r] = "inserted"]
    /\ UNCHANGED <<reviewVars, badgeVars, shopVars, about, value, seen, scanned>>

\* Another review of the deal was committed: the unique index refuses this one.
RefusedByIndexRetries(r) ==   \* mutant: a refused insert is tried again
    /\ stage[r] = "checked"
    /\ Blockers(r) = {}
    /\ review[about[r]] # NoRating
    /\ UNCHANGED vars
RefusedByIndex(r) ==
    /\ stage[r] = "checked"
    /\ Blockers(r) = {}
    /\ review[about[r]] # NoRating
    /\ Ends(r)
    /\ UNCHANGED <<reviewVars, badgeVars, shopVars, scanned>>

\* SELECT ... FOR UPDATE of the seller, which reads the totals.
LockSellerAtOnce(r) ==   \* mutant: the seller is read without a lock
    /\ stage[r] = "inserted"
    /\ seen' = [seen EXCEPT ![r] = rating[Seller[about[r]]]]
    /\ stage' = [stage EXCEPT ![r] = "locked"]
    /\ UNCHANGED <<reviewVars, badgeVars, shopVars, about, value, scanned>>
LockSeller(r) ==
    /\ stage[r] = "inserted"
    /\ Blockers(r) = {}
    /\ seen' = [seen EXCEPT ![r] = rating[Seller[about[r]]]]
    /\ stage' = [stage EXCEPT ![r] = "locked"]
    /\ UNCHANGED <<reviewVars, badgeVars, shopVars, about, value, scanned>>

CommitReview(r) ==
    LET d == about[r]
    IN  /\ stage[r] = "locked"
        /\ review' = [review EXCEPT ![d] = value[r]]
        /\ rating' = [rating EXCEPT ![Seller[d]] =
                        [sum |-> seen[r].sum + value[r], n |-> seen[r].n + 1]]
        /\ Ends(r)
        /\ UNCHANGED <<deal, badgeVars, shopVars, scanned>>

\* PostgreSQL ends one transaction of a cycle; the request fails.
DeadlockBroken(r) ==
    /\ Deadlocked(r)
    /\ Ends(r)
    /\ UNCHANGED <<reviewVars, badgeVars, shopVars, scanned>>

-----------------------------------------------------------------------------
(* The badge.                                                              *)

\* A settlement counts a trade of u (increment_user_trade_stats), on a row that
\* no review locks or shares.
CountTrade(u) ==
    /\ trades[u] < MinTrades
    /\ Sharing(u) = {}
    /\ trades' = [trades EXCEPT ![u] = trades[u] + 1]
    /\ UNCHANGED <<reviewVars, badge, shopVars, requestVars, scanned>>

EarnedAnyCount(u) ==   \* mutant: without the least number of reviews
    /\ trades[u] >= MinTrades
    /\ 2 * rating[u].sum >= MinDoubled * rating[u].n
Earned(u) ==
    /\ trades[u] >= MinTrades
    /\ rating[u].n >= MinReviews
    /\ 2 * rating[u].sum >= MinDoubled * rating[u].n

\* verify_top_sellers reads the users without a lock,
ScanSellers ==
    /\ scanned = {}
    /\ scanned' = {u \in Users \ badge : Earned(u)}
    /\ UNCHANGED <<reviewVars, badgeVars, shopVars, requestVars>>

\* and commits one UPDATE for all of them, which waits for who locked them.
VerifySellers ==
    /\ scanned # {}
    /\ \A u \in scanned : Locking(u) = {}
    /\ badge' = badge \cup scanned
    /\ scanned' = {}
    /\ UNCHANGED <<reviewVars, trades, shopVars, requestVars>>

-----------------------------------------------------------------------------
(* Products.  Whoever is not the owner is refused and changes nothing.     *)

\* create_product, by a seller who is not banned.
CreateProduct(p) ==
    /\ product[p] = "none"
    /\ product' = [product EXCEPT ![p] = "active"]
    /\ UNCHANGED <<reviewVars, badgeVars, images, promoted, uploaded, requestVars, scanned>>

\* update_product with is_active, or delete_product.
SetActive(p, to) ==
    /\ product[p] # "none"
    /\ Uploading(p) = {}
    /\ product' = [product EXCEPT ![p] = to]
    /\ UNCHANGED <<reviewVars, badgeVars, images, promoted, uploaded, requestVars, scanned>>

\* confirm_product_boost: for the owner it takes no proof of a payment.
Boost(p) ==
    /\ product[p] # "none"
    /\ Uploading(p) = {}
    /\ promoted' = promoted \cup {p}
    /\ UNCHANGED <<reviewVars, badgeVars, product, images, uploaded, requestVars, scanned>>

\* upload_product_images locks the row and counts; it keeps the lock while it
\* reads and writes one file after the other.
BeginUploadUnlocked(r, p, k) ==   \* mutant: SELECT without FOR UPDATE
    /\ stage[r] = "idle"
    /\ product[p] # "none"
    /\ images[p] + k <= MaxImages
    /\ stage' = [stage EXCEPT ![r] = "upload"]
    /\ about' = [about EXCEPT ![r] = p]
    /\ value' = [value EXCEPT ![r] = k]
    /\ seen' = [seen EXCEPT ![r] = [sum |-> 0, n |-> images[p]]]
    /\ UNCHANGED <<reviewVars, badgeVars, shopVars, scanned>>
BeginUpload(r, p, k) ==
    /\ stage[r] = "idle"
    /\ product[p] # "none"
    /\ Uploading(p) = {}
    /\ images[p] + k <= MaxImages
    /\ stage' = [stage EXCEPT ![r] = "upload"]
    /\ about' = [about EXCEPT ![r] = p]
    /\ value' = [value EXCEPT ![r] = k]
    /\ seen' = [seen EXCEPT ![r] = [sum |-> 0, n |-> images[p]]]
    /\ UNCHANGED <<reviewVars, badgeVars, shopVars, scanned>>

\* The list of images is what was read and the new ones.
CommitUpload(r) ==
    LET p == about[r]
    IN  /\ stage[r] = "upload"
        /\ images' = [images EXCEPT ![p] = seen[r].n + value[r]]
        /\ uploaded' = [uploaded EXCEPT ![p] = uploaded[p] + value[r]]
        /\ Ends(r)
        /\ UNCHANGED <<reviewVars, badgeVars, product, promoted, scanned>>

\* A file is refused, the client goes away: the transaction is rolled back.
RequestFails(r) ==
    /\ stage[r] # "idle"
    /\ Ends(r)
    /\ UNCHANGED <<reviewVars, badgeVars, shopVars, scanned>>

Crash ==
    /\ scanned # {} \/ \E r \in Requests : stage[r] # "idle"
    /\ stage' = [r \in Requests |-> "idle"]
    /\ about' = [r \in Requests |-> Nothing]
    /\ value' = [r \in Requests |-> 0]
    /\ seen' = [r \in Requests |-> Zero]
    /\ scanned' = {}
    /\ UNCHANGED <<reviewVars, badgeVars, shopVars>>

-----------------------------------------------------------------------------
\* What the database or the file system lets a request do next.
Step(r) ==
    \/ InsertReview(r)
    \/ RefusedByIndex(r)
    \/ LockSeller(r)
    \/ CommitReview(r)
    \/ CommitUpload(r)

Next ==
    \/ \E r \in Requests :
          \/ \E d \in Deals, n \in Ratings : CheckReview(r, d, n)
          \/ \E p \in Products, k \in 1..MaxImages : BeginUpload(r, p, k)
          \/ Step(r)
          \/ DeadlockBroken(r)
          \/ RequestFails(r)
    \/ \E d \in Deals : DealMoves(d)
    \/ \E u \in Users : CountTrade(u)
    \/ ScanSellers
    \/ VerifySellers
    \/ \E p \in Products :
          \/ CreateProduct(p)
          \/ \E to \in {"active", "inactive"} : SetActive(p, to)
          \/ Boost(p)
    \/ Crash

Spec == Init /\ [][Next]_vars

\* Statements end, a lock that comes free again and again is granted, and
\* PostgreSQL looks for a cycle when a lock is waited for longer than a second.
Fairness ==
    /\ \A r \in Requests : SF_vars(Step(r))
    /\ WF_vars(\E r \in Requests : DeadlockBroken(r))

FairSpec == Spec /\ Fairness

-----------------------------------------------------------------------------
(* Properties.                                                             *)

TypeOK ==
    /\ deal \in [Deals -> {"created", "reviewable", "other"}]
    /\ review \in [Deals -> Ratings \cup {NoRating}]
    /\ rating \in [Users -> Totals]
    /\ trades \in [Users -> Nat]
    /\ badge \subseteq Users
    /\ product \in [Products -> {"none", "active", "inactive"}]
    /\ images \in [Products -> Nat]
    /\ promoted \subseteq Products
    /\ stage \in [Requests -> Stages]
    /\ about \in [Requests -> Deals \cup Products \cup {Nothing}]
    /\ value \in [Requests -> Nat]
    /\ seen \in [Requests -> Totals]
    /\ scanned \subseteq Users
    /\ uploaded \in [Products -> Nat]

\* Deals of seller u that were reviewed, and those that got rating n.
Reviewed(u) == {d \in Deals : Seller[d] = u /\ review[d] # NoRating}
Rated(u, n) == {d \in Deals : Seller[d] = u /\ review[d] = n}
Stars(u) ==
    LET count(n) == Cardinality(Rated(u, n))
    IN  count(1) + 2 * count(2) + 3 * count(3) + 4 * count(4) + 5 * count(5)

\* The totals of a seller are those of the reviews in the table: one rating for
\* each reviewed deal, whoever reviews at the same time, retries or fails, and
\* so does the average that the catalogue shows (create_deal_review).
RatingIsSumOfReviews ==
    \A u \in Users :
        /\ rating[u].n = Cardinality(Reviewed(u))
        /\ rating[u].sum = Stars(u)

\* A product lists the images of every upload that was committed and never more
\* than five, though two uploads may count the same list before they write
\* (upload_product_images).
ImagesAreThoseUploaded ==
    \A p \in Products : images[p] = uploaded[p] /\ images[p] <= MaxImages

\* Only a seller with enough trades and reviews has the badge, or is about to
\* get it; the average was high enough when the task looked.
BadgeHasHistory ==
    \A u \in badge \cup scanned :
        trades[u] >= MinTrades /\ rating[u].n >= MinReviews

\* Reviews, uploads and the badge, however their requests interleave, wait on
\* each other, fail or are cut off by a crash, leave the tables as requests
\* served one after the other would: no review counts twice or is lost from the
\* totals, no badge goes to somebody whose history the task did not see.
Served == INSTANCE Shop
ServedOneByOne == Served!Spec

\* What an open request relies on: a row it locked is as it read it,
Own(r) ==
    /\ stage[r] = "idle" => about[r] = Nothing
    /\ stage[r] \in {"checked", "inserted", "locked"} =>
          about[r] \in Deals /\ value[r] \in Ratings
    /\ stage[r] \in {"inserted", "locked"} => review[about[r]] = NoRating
    /\ stage[r] = "locked" => seen[r] = rating[Seller[about[r]]]
    /\ stage[r] = "upload" =>
          /\ about[r] \in Products
          /\ seen[r].n = images[about[r]]
          /\ seen[r].n + value[r] <= MaxImages

\* and no other request has a lock that it needs for itself.
Apart(r, t) ==
    /\ {r, t} \subseteq Inserted => about[r] # about[t]
    /\ stage[r] = "locked" /\ stage[t] = "locked" => Seller[about[r]] # Seller[about[t]]
    /\ stage[r] = "upload" /\ stage[t] = "upload" => about[r] # about[t]

InFlight ==
    /\ \A r \in Requests : Own(r)
    /\ \A r, t \in Requests : r # t => Apart(r, t)

IInv ==
    /\ TypeOK
    /\ RatingIsSumOfReviews
    /\ ImagesAreThoseUploaded
    /\ BadgeHasHistory
    /\ InFlight

\* A request ends, though two reviews of one seller both share the row that
\* each of them then wants for itself (create_deal_review).
EveryRequestEnds ==
    \A r \in Requests : stage[r] # "idle" ~> stage[r] = "idle"

=============================================================================
