-------------------------- MODULE Storefront_proofs --------------------------
(***************************************************************************)
(* Theorems about Storefront, for any deals, sellers, products and         *)
(* requests: its types, its inductive invariant, and that ratings and      *)
(* images are what the committed reviews and uploads make them.            *)
(***************************************************************************)
EXTENDS Storefront, FiniteSetTheorems, TLAPS

-----------------------------------------------------------------------------
(* Counting.                                                               *)

\* The reviews of a seller are finite in number.
LEMMA RatedIsFinite ==
  ASSUME NEW u, NEW n
  PROVE  IsFiniteSet(Reviewed(u)) /\ IsFiniteSet(Rated(u, n))
         /\ Cardinality(Reviewed(u)) \in Nat /\ Cardinality(Rated(u, n)) \in Nat
<1>1. Reviewed(u) \subseteq Deals /\ Rated(u, n) \subseteq Deals
  BY DEF Reviewed, Rated
<1> QED
  BY <1>1, FS_Subset, FS_CardinalityType, StorefrontAssumption

\* A review of d that is committed counts once, with its rating, for the seller
\* of d and for nobody else.
LEMMA CountedOnce ==
  ASSUME TypeOK, NEW d \in Deals, NEW k \in Ratings, review[d] = NoRating,
         review' = [review EXCEPT ![d] = k], NEW u
  PROVE  /\ Cardinality(Reviewed(u)') =
               Cardinality(Reviewed(u)) + (IF u = Seller[d] THEN 1 ELSE 0)
         /\ Stars(u)' = Stars(u) + (IF u = Seller[d] THEN k ELSE 0)
<1> USE StorefrontAssumption
<1>1. k # NoRating /\ k \in 1..5 /\ review \in [Deals -> Ratings \cup {NoRating}]
  BY DEF TypeOK
<1>2. CASE u = Seller[d]
  <2>1. Reviewed(u)' = Reviewed(u) \cup {d} /\ d \notin Reviewed(u)
    BY <1>1, <1>2 DEF Reviewed
  <2>2. Cardinality(Reviewed(u)') = Cardinality(Reviewed(u)) + 1
    BY <2>1, RatedIsFinite, FS_AddElement
  <2>3. Rated(u, k)' = Rated(u, k) \cup {d} /\ d \notin Rated(u, k)
    BY <1>1, <1>2 DEF Rated
  <2>4. Cardinality(Rated(u, k)') = Cardinality(Rated(u, k)) + 1
    BY <2>3, RatedIsFinite, FS_AddElement
  <2>5. \A n \in 1..5 : n # k => Rated(u, n)' = Rated(u, n)
    BY <1>1 DEF Rated
  <2>6. \A n \in 1..5 : Cardinality(Rated(u, n)) \in Nat
    BY RatedIsFinite
  <2>7. Stars(u)' = Stars(u) + k
    BY <1>1, <2>4, <2>5, <2>6 DEF Stars
  <2> QED
    BY <1>2, <2>2, <2>7
<1>3. CASE u # Seller[d]
  <2>1. Reviewed(u)' = Reviewed(u) /\ \A n \in 1..5 : Rated(u, n)' = Rated(u, n)
    BY <1>1, <1>3 DEF Reviewed, Rated
  <2>2. Cardinality(Reviewed(u)) \in Nat /\ \A n \in 1..5 : Cardinality(Rated(u, n)) \in Nat
    BY RatedIsFinite
  <2>3. Stars(u)' = Stars(u) /\ Stars(u) \in Nat
    BY <2>1, <2>2 DEF Stars
  <2> QED
    BY <1>3, <2>1, <2>2, <2>3
<1> QED
  BY <1>2, <1>3

-----------------------------------------------------------------------------
(* Parts of the invariant that a step leaves alone.                        *)

\* The totals depend on the reviews.
LEMMA ReviewsUnchanged ==
  ASSUME RatingIsSumOfReviews, UNCHANGED <<review, rating>>
  PROVE  RatingIsSumOfReviews'
<1>1. \A u \in Users : Reviewed(u)' = Reviewed(u) /\ \A n \in 1..5 : Rated(u, n)' = Rated(u, n)
  BY DEF Reviewed, Rated
<1>2. \A u \in Users : Stars(u)' = Stars(u)
  BY <1>1 DEF Stars
<1> QED
  BY <1>1, <1>2 DEF RatingIsSumOfReviews

\* A step of request r keeps what open requests rely on, when it changes no row
\* that another one locked and r itself is in order afterwards.
LEMMA OneChanges ==
  ASSUME InFlight, NEW r \in Requests, Own(r)',
         \A t \in Requests \ {r} :
            /\ stage'[t] = stage[t] /\ about'[t] = about[t]
            /\ value'[t] = value[t] /\ seen'[t] = seen[t]
            /\ stage[t] \in {"inserted", "locked"} => review'[about[t]] = review[about[t]]
            /\ stage[t] = "locked" => rating'[Seller[about[t]]] = rating[Seller[about[t]]]
            /\ stage[t] = "upload" => images'[about[t]] = images[about[t]]
            /\ Apart(r, t)'
  PROVE  InFlight'
<1>1. ASSUME NEW t \in Requests \ {r} PROVE Own(t)'
  <2>1. Own(t)
    BY DEF InFlight
  <2> QED
    BY <2>1 DEF Own
<1>2. ASSUME NEW q \in Requests, NEW t \in Requests, q # t PROVE Apart(q, t)'
  <2>1. CASE q # r /\ t # r
    <3>1. Apart(q, t)
      BY <1>2 DEF InFlight
    <3> QED
      BY <3>1, <2>1 DEF Apart, Inserted
  <2>2. CASE q = r
    BY <2>2, <1>2
  <2>3. CASE t = r
    <3>1. Apart(t, q)'
      BY <2>3, <1>2
    <3> QED
      BY <3>1 DEF Apart
  <2> QED
    BY <2>1, <2>2, <2>3
<1> QED
  BY <1>1, <1>2 DEF InFlight

\* A request that has ended works on nothing.
LEMMA EndedIsIdle ==
  ASSUME TypeOK, NEW r \in Requests, Ends(r)
  PROVE  /\ stage' \in [Requests -> Stages]
         /\ about' \in [Requests -> Deals \cup Products \cup {Nothing}]
         /\ value' \in [Requests -> Nat]
         /\ seen' \in [Requests -> Totals]
         /\ Own(r)'
         /\ \A t \in Requests \ {r} :
               /\ stage'[t] = stage[t] /\ about'[t] = about[t]
               /\ value'[t] = value[t] /\ seen'[t] = seen[t]
               /\ Apart(r, t)'
<1> USE DEF Ends, TypeOK
<1>1. /\ stage' \in [Requests -> Stages] /\ value' \in [Requests -> Nat]
      /\ about' \in [Requests -> Deals \cup Products \cup {Nothing}]
  BY DEF Stages
<1>2. Zero \in Totals
  BY DEF Zero, Totals
<1>3. seen' \in [Requests -> Totals]
  BY <1>2
<1>4. stage'[r] = "idle" /\ about'[r] = Nothing
  OBVIOUS
<1>5. Own(r)'
  BY <1>4 DEF Own
<1>6. \A t \in Requests \ {r} : Apart(r, t)'
  BY <1>4 DEF Apart, Inserted
<1> QED
  BY <1>1, <1>3, <1>5, <1>6

\* A request that ends without a write keeps the invariant.
LEMMA EndsPreserves ==
  ASSUME IInv, NEW r \in Requests, Ends(r),
         UNCHANGED <<reviewVars, badgeVars, shopVars, scanned>>
  PROVE  IInv'
<1>1. TypeOK'
  BY EndedIsIdle DEF IInv, TypeOK, reviewVars, badgeVars, shopVars
<1>2. InFlight'
  BY EndedIsIdle, OneChanges DEF IInv, reviewVars, shopVars
<1>3. RatingIsSumOfReviews'
  BY ReviewsUnchanged DEF IInv, reviewVars
<1>4. ImagesAreThoseUploaded' /\ BadgeHasHistory'
  BY DEF IInv, ImagesAreThoseUploaded, BadgeHasHistory, reviewVars, badgeVars, shopVars
<1> QED
  BY <1>1, <1>2, <1>3, <1>4 DEF IInv

\* A step that leaves requests, reviews and images alone keeps what they say.
LEMMA RequestsUnchanged ==
  ASSUME IInv, UNCHANGED <<requestVars, review, rating, images>>
  PROVE  InFlight' /\ RatingIsSumOfReviews'
<1>1. InFlight'
  BY DEF IInv, InFlight, Own, Apart, Inserted, requestVars
<1> QED
  BY <1>1, ReviewsUnchanged DEF IInv

-----------------------------------------------------------------------------
(* The steps.                                                              *)

\* The first look at a deal locks nothing.
LEMMA CheckPreserves ==
  ASSUME IInv, NEW r \in Requests, NEW d \in Deals, NEW n \in Ratings, CheckReview(r, d, n)
  PROVE  IInv'
<1> USE StorefrontAssumption
<1>1. /\ stage' = [stage EXCEPT ![r] = "checked"] /\ about' = [about EXCEPT ![r] = d]
      /\ value' = [value EXCEPT ![r] = n]
      /\ UNCHANGED <<reviewVars, badgeVars, shopVars, seen, scanned>>
  BY DEF CheckReview
<1>2. TypeOK /\ InFlight
  BY DEF IInv
<1>3. TypeOK'
  BY <1>1, <1>2 DEF TypeOK, Stages, reviewVars, badgeVars, shopVars
<1>4. Own(r)'
  BY <1>1, <1>2 DEF TypeOK, Own
<1>5. ASSUME NEW t \in Requests \ {r}
      PROVE  /\ stage'[t] = stage[t] /\ about'[t] = about[t]
             /\ value'[t] = value[t] /\ seen'[t] = seen[t] /\ Apart(r, t)'
  BY <1>1, <1>2 DEF TypeOK, Apart, Inserted
<1>6. InFlight'
  BY <1>1, <1>2, <1>4, <1>5, OneChanges DEF reviewVars, shopVars
<1>7. RatingIsSumOfReviews'
  BY <1>1, ReviewsUnchanged DEF IInv, reviewVars
<1>8. ImagesAreThoseUploaded' /\ BadgeHasHistory'
  BY <1>1 DEF IInv, ImagesAreThoseUploaded, BadgeHasHistory, reviewVars, badgeVars, shopVars
<1> QED
  BY <1>3, <1>6, <1>7, <1>8 DEF IInv

\* The INSERT waits for other reviews of the deal, the SELECT for whoever shares
\* the row of the seller.
LEMMA LockPreserves ==
  ASSUME IInv, NEW r \in Requests, InsertReview(r) \/ LockSeller(r) PROVE IInv'
<1> USE StorefrontAssumption
<1>1. TypeOK /\ InFlight /\ Own(r)
  BY DEF IInv, InFlight
<1>2. about[r] \in Deals /\ value[r] \in Ratings /\ Seller[about[r]] \in Users
  BY <1>1 DEF Own, InsertReview, LockSeller
<1>3. UNCHANGED <<reviewVars, badgeVars, shopVars, about, value, scanned>>
  BY DEF InsertReview, LockSeller
<1>4. CASE InsertReview(r)
  <2>1. /\ stage[r] = "checked" /\ Blockers(r) = {} /\ review[about[r]] = NoRating
        /\ stage' = [stage EXCEPT ![r] = "inserted"] /\ UNCHANGED seen
    BY <1>4 DEF InsertReview
  <2>2. \A t \in Inserted : about[t] # about[r]
    BY <2>1 DEF Blockers
  <2>3. TypeOK'
    BY <1>1, <1>3, <2>1 DEF TypeOK, Stages, reviewVars, badgeVars, shopVars
  <2>4. Own(r)'
    BY <1>1, <1>2, <1>3, <2>1 DEF TypeOK, Own, reviewVars
  <2>5. ASSUME NEW t \in Requests \ {r}
        PROVE  stage'[t] = stage[t] /\ Apart(r, t)'
    BY <1>1, <1>3, <2>1, <2>2 DEF TypeOK, Apart, Inserted
  <2>6. InFlight'
    BY <1>1, <1>3, <2>1, <2>4, <2>5, OneChanges DEF reviewVars, shopVars
  <2> QED
    BY <2>3, <2>6, <1>3, ReviewsUnchanged
    DEF IInv, ImagesAreThoseUploaded, BadgeHasHistory, reviewVars, badgeVars, shopVars
<1>5. CASE LockSeller(r)
  <2>1. /\ stage[r] = "inserted" /\ Blockers(r) = {}
        /\ stage' = [stage EXCEPT ![r] = "locked"]
        /\ seen' = [seen EXCEPT ![r] = rating[Seller[about[r]]]]
    BY <1>5 DEF LockSeller
  <2>2. ASSUME NEW t \in Inserted \ {r} PROVE Seller[about[t]] # Seller[about[r]]
    BY <2>1 DEF Blockers, Sharing, Party
  <2>3. TypeOK'
    BY <1>1, <1>2, <1>3, <2>1 DEF TypeOK, Stages, reviewVars, badgeVars, shopVars
  <2>4. Own(r)'
    BY <1>1, <1>2, <1>3, <2>1 DEF TypeOK, Own, reviewVars
  <2>5. ASSUME NEW t \in Requests \ {r}
        PROVE  stage'[t] = stage[t] /\ seen'[t] = seen[t] /\ Apart(r, t)'
    <3>1. Apart(r, t)
      BY <1>1 DEF InFlight
    <3> QED
      BY <3>1, <1>1, <1>3, <2>1, <2>2 DEF TypeOK, Apart, Inserted
  <2>6. InFlight'
    BY <1>1, <1>3, <2>1, <2>4, <2>5, OneChanges DEF reviewVars, shopVars
  <2> QED
    BY <2>3, <2>6, <1>3, ReviewsUnchanged
    DEF IInv, ImagesAreThoseUploaded, BadgeHasHistory, reviewVars, badgeVars, shopVars
<1> QED
  BY <1>4, <1>5

\* The commit of a review writes the totals it read, under the lock, plus one.
LEMMA CommitReviewPreserves ==
  ASSUME IInv, NEW r \in Requests, CommitReview(r) PROVE IInv'
<1> USE StorefrontAssumption
<1> DEFINE d == about[r]
           k == value[r]
<1>1. TypeOK /\ InFlight /\ Own(r) /\ stage[r] = "locked"
  BY DEF IInv, InFlight, CommitReview
<1>2. /\ d \in Deals /\ k \in Ratings /\ Seller[d] \in Users
      /\ review[d] = NoRating /\ seen[r] = rating[Seller[d]]
  BY <1>1 DEF Own
<1>3. /\ review' = [review EXCEPT ![d] = k] /\ Ends(r)
      /\ rating' = [rating EXCEPT ![Seller[d]] =
                      [sum |-> rating[Seller[d]].sum + k, n |-> rating[Seller[d]].n + 1]]
      /\ UNCHANGED <<deal, badgeVars, shopVars, scanned>>
  BY <1>2 DEF CommitReview
<1>4. rating \in [Users -> Totals] /\ k \in Nat /\ k \in 1..5
  BY <1>1, <1>2 DEF TypeOK
<1> HIDE DEF d, k
<1>5. rating' \in [Users -> Totals]
  BY <1>2, <1>3, <1>4 DEF Totals
<1>6. review' \in [Deals -> Ratings \cup {NoRating}]
  BY <1>1, <1>2, <1>3 DEF TypeOK
<1>7. TypeOK'
  BY <1>1, <1>3, <1>5, <1>6, EndedIsIdle DEF TypeOK, badgeVars, shopVars
<1>8. RatingIsSumOfReviews'
  <2> SUFFICES ASSUME NEW u \in Users
               PROVE  /\ rating'[u].n = Cardinality(Reviewed(u)')
                      /\ rating'[u].sum = Stars(u)'
    BY DEF RatingIsSumOfReviews
  <2>1. rating[u].n = Cardinality(Reviewed(u)) /\ rating[u].sum = Stars(u)
    BY DEF IInv, RatingIsSumOfReviews
  <2>2. /\ Cardinality(Reviewed(u)') =
              Cardinality(Reviewed(u)) + (IF u = Seller[d] THEN 1 ELSE 0)
        /\ Stars(u)' = Stars(u) + (IF u = Seller[d] THEN k ELSE 0)
    BY <1>1, <1>2, <1>3, CountedOnce
  <2>3. rating[u].n \in Nat /\ rating[u].sum \in Nat
    BY <1>4 DEF Totals
  <2>4. CASE u = Seller[d]
    <3>1. rating'[u] = [sum |-> rating[u].sum + k, n |-> rating[u].n + 1]
      BY <1>2, <1>3, <1>4, <2>4
    <3> QED
      BY <3>1, <2>1, <2>2, <2>4
  <2>5. CASE u # Seller[d]
    <3>1. rating'[u] = rating[u]
      BY <1>3, <1>4, <2>5
    <3> QED
      BY <3>1, <2>1, <2>2, <2>3, <2>5
  <2> QED
    BY <2>4, <2>5
<1>9. InFlight'
  <2>1. ASSUME NEW t \in Requests \ {r}
        PROVE  /\ stage[t] \in {"inserted", "locked"} => review'[about[t]] = review[about[t]]
               /\ stage[t] = "locked" => rating'[Seller[about[t]]] = rating[Seller[about[t]]]
    <3>1. Apart(r, t) /\ Own(t)
      BY <1>1 DEF InFlight
    <3>2. stage[t] \in {"inserted", "locked"} => about[t] # d /\ about[t] \in Deals
      BY <3>1, <1>1 DEF Apart, Inserted, Own, d
    <3>3. stage[t] = "locked" => Seller[about[t]] # Seller[d] /\ Seller[about[t]] \in Users
      BY <3>1, <3>2, <1>1 DEF Apart, d
    <3> QED
      BY <3>2, <3>3, <1>1, <1>3, <1>4 DEF TypeOK
  <2> QED
    BY <2>1, <1>1, <1>3, EndedIsIdle, OneChanges DEF shopVars
<1>10. ImagesAreThoseUploaded'
  BY <1>3 DEF IInv, ImagesAreThoseUploaded, shopVars
<1>11. BadgeHasHistory'
  <2>1. \A u \in Users : rating'[u].n >= rating[u].n
    BY <1>2, <1>3, <1>4 DEF Totals
  <2>2. badge \cup scanned \subseteq Users /\ trades \in [Users -> Nat]
    BY <1>1 DEF TypeOK
  <2>3. \A u \in Users : rating'[u].n \in Nat /\ rating[u].n \in Nat
    BY <1>4, <1>5 DEF Totals
  <2> QED
    BY <2>1, <2>2, <2>3, <1>3 DEF IInv, BadgeHasHistory, badgeVars
<1> QED
  BY <1>7, <1>8, <1>9, <1>10, <1>11 DEF IInv

\* An upload counts under the lock of the product and keeps it.
LEMMA UploadPreserves ==
  ASSUME IInv, NEW r \in Requests,
         (\E p \in Products, k \in 1..MaxImages : BeginUpload(r, p, k)) \/ CommitUpload(r)
  PROVE  IInv'
<1> USE StorefrontAssumption
<1>1. TypeOK /\ InFlight /\ Own(r) /\ images \in [Products -> Nat]
  BY DEF IInv, InFlight, TypeOK
<1>2. CASE \E p \in Products, k \in 1..MaxImages : BeginUpload(r, p, k)
  <2>1. PICK p \in Products, k \in 1..MaxImages : BeginUpload(r, p, k)
    BY <1>2
  <2>2. /\ stage' = [stage EXCEPT ![r] = "upload"] /\ about' = [about EXCEPT ![r] = p]
        /\ value' = [value EXCEPT ![r] = k]
        /\ seen' = [seen EXCEPT ![r] = [sum |-> 0, n |-> images[p]]]
        /\ Uploading(p) = {} /\ images[p] + k <= MaxImages
        /\ UNCHANGED <<reviewVars, badgeVars, shopVars, scanned>>
    BY <2>1 DEF BeginUpload
  <2>3. TypeOK'
    BY <1>1, <2>2 DEF TypeOK, Stages, Totals, reviewVars, badgeVars, shopVars
  <2>4. Own(r)'
    BY <1>1, <2>2 DEF TypeOK, Own, shopVars
  <2>5. ASSUME NEW t \in Requests \ {r}
        PROVE  /\ stage'[t] = stage[t] /\ about'[t] = about[t]
               /\ value'[t] = value[t] /\ seen'[t] = seen[t] /\ Apart(r, t)'
    BY <1>1, <2>2 DEF TypeOK, Apart, Inserted, Uploading
  <2>6. InFlight'
    BY <1>1, <2>2, <2>4, <2>5, OneChanges DEF reviewVars, shopVars
  <2> QED
    BY <2>2, <2>3, <2>6, ReviewsUnchanged
    DEF IInv, ImagesAreThoseUploaded, BadgeHasHistory, reviewVars, badgeVars, shopVars
<1>3. CASE CommitUpload(r)
  <2> DEFINE p == about[r]
  <2>1. /\ stage[r] = "upload" /\ Ends(r)
        /\ images' = [images EXCEPT ![p] = seen[r].n + value[r]]
        /\ uploaded' = [uploaded EXCEPT ![p] = uploaded[p] + value[r]]
        /\ UNCHANGED <<reviewVars, badgeVars, product, promoted, scanned>>
    BY <1>3 DEF CommitUpload
  <2>2. /\ p \in Products /\ seen[r].n = images[p] /\ images[p] = uploaded[p]
        /\ images[p] + value[r] <= MaxImages
    BY <1>1, <2>1 DEF Own, IInv, ImagesAreThoseUploaded
  <2>3. value[r] \in Nat /\ uploaded \in [Products -> Nat]
    BY <1>1 DEF TypeOK
  <2> HIDE DEF p
  <2>4. images' \in [Products -> Nat] /\ uploaded' \in [Products -> Nat]
    BY <1>1, <2>1, <2>2, <2>3
  <2>5. TypeOK'
    BY <1>1, <2>1, <2>4, EndedIsIdle DEF TypeOK, reviewVars, badgeVars
  <2>6. ImagesAreThoseUploaded'
    BY <1>1, <2>1, <2>2, <2>3 DEF IInv, ImagesAreThoseUploaded
  <2>7. ASSUME NEW t \in Requests \ {r}, stage[t] = "upload"
        PROVE  images'[about[t]] = images[about[t]]
    <3>1. Apart(r, t) /\ Own(t)
      BY <1>1 DEF InFlight
    <3>2. about[t] # p /\ about[t] \in Products
      BY <3>1, <2>1, <2>7 DEF Apart, Own, p
    <3> QED
      BY <3>2, <1>1, <2>1
  <2>8. InFlight'
    BY <1>1, <2>1, <2>7, EndedIsIdle, OneChanges DEF reviewVars
  <2> QED
    BY <2>1, <2>5, <2>6, <2>8, ReviewsUnchanged
    DEF IInv, BadgeHasHistory, reviewVars, badgeVars
<1> QED
  BY <1>2, <1>3

\* Deals, trades, the badge and the flags of products.
LEMMA RestPreserves ==
  ASSUME IInv,
         \/ \E d \in Deals : DealMoves(d)
         \/ \E u \in Users : CountTrade(u)
         \/ ScanSellers
         \/ VerifySellers
         \/ \E p \in Products : \/ CreateProduct(p)
                                \/ \E to \in {"active", "inactive"} : SetActive(p, to)
                                \/ Boost(p)
  PROVE  IInv'
<1> USE StorefrontAssumption
<1>1. UNCHANGED <<requestVars, review, rating, images, uploaded>>
  BY DEF DealMoves, CountTrade, ScanSellers, VerifySellers, CreateProduct, SetActive, Boost,
         reviewVars, shopVars
<1>2. InFlight' /\ RatingIsSumOfReviews' /\ ImagesAreThoseUploaded'
  BY <1>1, RequestsUnchanged DEF IInv, ImagesAreThoseUploaded
<1>3. TypeOK /\ BadgeHasHistory
  BY DEF IInv
<1>4. TypeOK'
  BY <1>1, <1>3 DEF TypeOK, DealMoves, CountTrade, ScanSellers, VerifySellers, CreateProduct,
                    SetActive, Boost, reviewVars, badgeVars, shopVars, requestVars
<1>5. BadgeHasHistory'
  <2>1. ASSUME NEW u \in Users, CountTrade(u) PROVE BadgeHasHistory'
    <3>1. \A v \in Users : trades'[v] >= trades[v] /\ trades[v] \in Nat /\ trades'[v] \in Nat
      BY <1>3, <2>1 DEF TypeOK, CountTrade
    <3>2. UNCHANGED <<badge, scanned, rating>> /\ badge \cup scanned \subseteq Users
      BY <1>1, <1>3, <2>1 DEF TypeOK, CountTrade
    <3> QED
      BY <3>1, <3>2, <1>3 DEF BadgeHasHistory
  <2>2. CASE ScanSellers
    BY <2>2, <1>1, <1>3 DEF ScanSellers, Earned, BadgeHasHistory, badgeVars
  <2>3. CASE VerifySellers
    BY <2>3, <1>1, <1>3 DEF VerifySellers, BadgeHasHistory
  <2>4. CASE UNCHANGED <<badgeVars, scanned>>
    BY <2>4, <1>1, <1>3 DEF BadgeHasHistory, badgeVars
  <2> QED
    BY <2>1, <2>2, <2>3, <2>4 DEF DealMoves, CreateProduct, SetActive, Boost, badgeVars
<1> QED
  BY <1>2, <1>4, <1>5 DEF IInv

\* A crash leaves the tables.
LEMMA CrashPreserves == ASSUME IInv, Crash PROVE IInv'
<1>1. TypeOK'
  BY DEF IInv, Crash, TypeOK, Stages, Totals, Zero, reviewVars, badgeVars, shopVars
<1>2. InFlight'
  BY DEF Crash, InFlight, Own, Apart, Inserted
<1>3. RatingIsSumOfReviews'
  BY ReviewsUnchanged DEF IInv, Crash, reviewVars
<1>4. ImagesAreThoseUploaded' /\ BadgeHasHistory'
  BY DEF IInv, Crash, ImagesAreThoseUploaded, BadgeHasHistory, reviewVars, badgeVars, shopVars
<1> QED
  BY <1>1, <1>2, <1>3, <1>4 DEF IInv

-----------------------------------------------------------------------------
(* The theorems.                                                           *)

\* Nothing is reviewed and nothing uploaded at the start.
LEMMA IInvInit == Init => IInv
<1> SUFFICES ASSUME Init PROVE IInv
  OBVIOUS
<1> USE StorefrontAssumption DEF Init
<1>1. TypeOK
  BY DEF TypeOK, Stages, Totals, Zero
<1>2. RatingIsSumOfReviews
  <2>1. \A u \in Users : Reviewed(u) = {} /\ \A n \in 1..5 : Rated(u, n) = {}
    BY DEF Reviewed, Rated
  <2>2. ASSUME NEW u \in Users PROVE Cardinality(Reviewed(u)) = 0 /\ Stars(u) = 0
    <3>1. Cardinality(Reviewed(u)) = 0 /\ \A n \in 1..5 : Cardinality(Rated(u, n)) = 0
      BY <2>1, FS_EmptySet
    <3> QED
      BY <3>1 DEF Stars
  <2> QED
    BY <2>2 DEF RatingIsSumOfReviews, Zero
<1>3. ImagesAreThoseUploaded /\ BadgeHasHistory
  BY DEF ImagesAreThoseUploaded, BadgeHasHistory
<1>4. InFlight
  BY DEF InFlight, Own, Apart, Inserted
<1> QED
  BY <1>1, <1>2, <1>3, <1>4 DEF IInv

\* Every step keeps the invariant.
LEMMA IInvNext == IInv /\ [Next]_vars => IInv'
<1> SUFFICES ASSUME IInv, [Next]_vars PROVE IInv'
  OBVIOUS
<1>1. ASSUME NEW r \in Requests, Step(r) \/ DeadlockBroken(r) \/ RequestFails(r) PROVE IInv'
  <2>1. CASE RefusedByIndex(r)
    BY <2>1, EndsPreserves DEF RefusedByIndex
  <2>2. CASE DeadlockBroken(r)
    BY <2>2, EndsPreserves DEF DeadlockBroken
  <2>3. CASE RequestFails(r)
    BY <2>3, EndsPreserves DEF RequestFails
  <2> QED
    BY <1>1, <2>1, <2>2, <2>3, LockPreserves, CommitReviewPreserves, UploadPreserves DEF Step
<1>2. CASE UNCHANGED vars
  <2>1. InFlight' /\ RatingIsSumOfReviews'
    BY <1>2, RequestsUnchanged DEF vars, requestVars, reviewVars, shopVars
  <2>2. TypeOK' /\ ImagesAreThoseUploaded' /\ BadgeHasHistory'
    BY <1>2 DEF IInv, TypeOK, ImagesAreThoseUploaded, BadgeHasHistory, vars, requestVars,
                reviewVars, badgeVars, shopVars
  <2> QED
    BY <2>1, <2>2 DEF IInv
<1> QED
  BY <1>1, <1>2, CheckPreserves, UploadPreserves, RestPreserves, CrashPreserves DEF Next

\* The inductive invariant of the shop holds in every reachable state.
THEOREM Inductive == Spec => []IInv
<1>1. Init => IInv
  BY IInvInit
<1>2. IInv /\ [Next]_vars => IInv'
  BY IInvNext
<1> QED
  BY <1>1, <1>2, PTL DEF Spec

\* Every variable keeps its type.
THEOREM Types == Spec => []TypeOK
<1>1. IInv => TypeOK
  BY DEF IInv
<1> QED
  BY <1>1, Inductive, PTL

\* The totals of every seller are those of the committed reviews.
THEOREM RatingsAddUp == Spec => []RatingIsSumOfReviews
<1>1. IInv => RatingIsSumOfReviews
  BY DEF IInv
<1> QED
  BY <1>1, Inductive, PTL

\* No upload is lost to another one and none passes the limit.
THEOREM ImagesAddUp == Spec => []ImagesAreThoseUploaded
<1>1. IInv => ImagesAreThoseUploaded
  BY DEF IInv
<1> QED
  BY <1>1, Inductive, PTL

-----------------------------------------------------------------------------
(* Requests are as if served one after the other.                          *)

\* The commit of a review is one review of Shop.
LEMMA CommitReviews ==
  ASSUME IInv, NEW r \in Requests, CommitReview(r) PROVE Served!Next
<1> DEFINE d == about[r]
           k == value[r]
<1>1. Own(r) /\ stage[r] = "locked"
  BY DEF IInv, InFlight, CommitReview
<1>2. d \in Deals /\ k \in Ratings /\ review[d] = NoRating /\ seen[r] = rating[Seller[d]]
  BY <1>1 DEF Own
<1>3. /\ review' = [review EXCEPT ![d] = k]
      /\ rating' = [rating EXCEPT ![Seller[d]] =
                      [sum |-> rating[Seller[d]].sum + k, n |-> rating[Seller[d]].n + 1]]
      /\ UNCHANGED <<trades, badge, images>>
  BY <1>2 DEF CommitReview, badgeVars, shopVars
<1> HIDE DEF d, k
<1>4. Served!Review(d, k)
  BY <1>2, <1>3 DEF Served!Review
<1> QED
  BY <1>2, <1>4 DEF Served!Next

\* The commit of an upload adds to what the table lists.
LEMMA CommitUploads ==
  ASSUME IInv, NEW r \in Requests, CommitUpload(r) PROVE Served!Next
<1> DEFINE p == about[r]
           k == value[r]
<1>1. Own(r) /\ stage[r] = "upload" /\ TypeOK
  BY DEF IInv, InFlight, CommitUpload
<1>2. /\ p \in Products /\ k \in Nat /\ images[p] \in Nat /\ seen[r].n = images[p]
      /\ images[p] + k <= MaxImages
  BY <1>1 DEF Own, TypeOK
<1>3. /\ images' = [images EXCEPT ![p] = images[p] + k]
      /\ UNCHANGED <<review, rating, trades, badge>>
  BY <1>2 DEF CommitUpload, badgeVars, reviewVars
<1> HIDE DEF p, k
<1>4. k \in 0..MaxImages
  BY <1>2, StorefrontAssumption
<1>5. Served!Upload(p, k)
  BY <1>2, <1>3 DEF Served!Upload
<1> QED
  BY <1>2, <1>4, <1>5 DEF Served!Next

\* The badge goes to those whom the task found, and who still have the history.
LEMMA VerifyVerifies == ASSUME IInv, VerifySellers PROVE Served!Next
<1>1. scanned \in SUBSET Users
  BY DEF IInv, TypeOK
<1>2. Served!Verify(scanned)
  BY DEF IInv, BadgeHasHistory, VerifySellers, Served!Verify, reviewVars, shopVars
<1> QED
  BY <1>1, <1>2 DEF Served!Next

LEMMA ServedStep == IInv /\ [Next]_vars => [Served!Next]_(Served!vars)
<1> DEFINE same == UNCHANGED <<review, rating, trades, badge, images>>
<1> SUFFICES ASSUME IInv, [Next]_vars PROVE Served!Next \/ same
  BY DEF Served!vars
<1>1. ASSUME NEW r \in Requests, Step(r) PROVE Served!Next \/ same
  <2>1. CASE CommitReview(r)
    BY <2>1, CommitReviews
  <2>2. CASE CommitUpload(r)
    BY <2>2, CommitUploads
  <2> QED
    BY <1>1, <2>1, <2>2
    DEF Step, InsertReview, RefusedByIndex, LockSeller, reviewVars, badgeVars, shopVars
<1>2. ASSUME NEW u \in Users, CountTrade(u) PROVE Served!Next
  BY <1>2 DEF CountTrade, Served!Next, Served!Trade, reviewVars, shopVars
<1>3. CASE VerifySellers
  BY <1>3, VerifyVerifies
<1>4. CASE \/ \E r \in Requests :
               \/ \E d \in Deals, n \in Ratings : CheckReview(r, d, n)
               \/ \E p \in Products, k \in 1..MaxImages : BeginUpload(r, p, k)
               \/ DeadlockBroken(r)
               \/ RequestFails(r)
           \/ Crash
           \/ UNCHANGED vars
  BY <1>4 DEF CheckReview, BeginUpload, DeadlockBroken, RequestFails, Crash, vars,
             reviewVars, badgeVars, shopVars
<1>5. CASE \/ \E d \in Deals : DealMoves(d)
           \/ ScanSellers
           \/ \E p \in Products : \/ CreateProduct(p)
                                  \/ \E to \in {"active", "inactive"} : SetActive(p, to)
                                  \/ Boost(p)
  BY <1>5 DEF DealMoves, ScanSellers, CreateProduct, SetActive, Boost,
             reviewVars, badgeVars, shopVars
<1> QED
  BY <1>1, <1>2, <1>3, <1>4, <1>5 DEF Next

\* Whatever requests, locks, the task and crashes do, the tables are those of
\* requests served one after the other.
THEOREM OneByOne == Spec => ServedOneByOne
<1>1. Init => Served!Init
  BY DEF Init, Served!Init, Zero
<1>2. IInv /\ [Next]_vars => [Served!Next]_(Served!vars)
  BY ServedStep
<1> QED
  BY <1>1, <1>2, Inductive, PTL DEF Spec, ServedOneByOne, Served!Spec

\* A badge, given or about to be, has its trades and its reviews behind it,
\* although the task reads the sellers without a lock (verify_top_sellers).
THEOREM BadgesAreEarned == Spec => []BadgeHasHistory
<1>1. IInv => BadgeHasHistory
  BY DEF IInv
<1> QED
  BY <1>1, Inductive, PTL

=============================================================================
