CONSTANTS
    d1 = d1
    d2 = d2
    ann = ann
    ben = ben
    p1 = p1
    r1 = r1
    r2 = r2
    NoRating = NoRating
    Nothing = Nothing
    Deals = {d1, d2}
    Users = {ann, ben}
    Buyer <- MCBuyer
    Seller <- MCSeller
    Ratings = {4, 5}
    Products = {p1}
    Requests = {r1, r2}
    MaxImages = 2
    MinTrades = 1
    MinReviews = 1
    MinDoubled = 9

SPECIFICATION FairSpec
CHECK_DEADLOCK FALSE
INVARIANT RatingIsSumOfReviews ImagesAreThoseUploaded
PROPERTY EveryRequestEnds ServedOneByOne
