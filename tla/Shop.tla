--------------------------------- MODULE Shop ---------------------------------
(***************************************************************************)
(* What the shop promises of its tables: a deal is reviewed once and for   *)
(* good, and its rating is added to the seller's totals with it; uploads   *)
(* add to the images of a product up to the limit; a badge, which nobody   *)
(* loses, goes to sellers with enough trades and reviews.  All of it as if *)
(* requests were served one after the other.  Storefront is how the code   *)
(* does it.                                                                *)
(***************************************************************************)
EXTENDS Integers

CONSTANTS
    Deals, Users, Products,
    Seller,         \* [Deals -> Users]
    Ratings,
    NoRating,
    MaxImages, MinTrades, MinReviews

VARIABLES
    review,         \* the rating each deal got, or NoRating
    rating,         \* the totals of each user: sum, and n of reviews
    trades,         \* of each user
    badge,          \* users who have it
    images          \* of each product

vars == <<review, rating, trades, badge, images>>

Init ==
    /\ review = [d \in Deals |-> NoRating]
    /\ rating = [u \in Users |-> [sum |-> 0, n |-> 0]]
    /\ trades = [u \in Users |-> 0]
    /\ badge = {}
    /\ images = [p \in Products |-> 0]

Review(d, k) ==
    /\ review[d] = NoRating
    /\ review' = [review EXCEPT ![d] = k]
    /\ rating' = [rating EXCEPT ![Seller[d]] = [sum |-> @.sum + k, n |-> @.n + 1]]
    /\ UNCHANGED <<trades, badge, images>>

Upload(p, k) ==
    /\ images[p] + k <= MaxImages
    /\ images' = [images EXCEPT ![p] = @ + k]
    /\ UNCHANGED <<review, rating, trades, badge>>

Trade(u) ==
    /\ trades' = [trades EXCEPT ![u] = @ + 1]
    /\ UNCHANGED <<review, rating, badge, images>>

Verify(S) ==
    /\ \A u \in S : trades[u] >= MinTrades /\ rating[u].n >= MinReviews
    /\ badge' = badge \cup S
    /\ UNCHANGED <<review, rating, trades, images>>

Next ==
    \/ \E d \in Deals, k \in Ratings : Review(d, k)
    \/ \E p \in Products, k \in 0..MaxImages : Upload(p, k)
    \/ \E u \in Users : Trade(u)
    \/ \E S \in SUBSET Users : Verify(S)

Spec == Init /\ [][Next]_vars
=============================================================================
