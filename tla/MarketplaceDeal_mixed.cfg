CONSTANTS
    d1 = d1
    d2 = d2
    buyer = buyer
    seller = seller
    product = product
    Deals = {d1, d2}
    Users = {buyer, seller}
    BuyerOf <- MCBuyerOf
    SellerOf <- MCSellerOf
    ProductOf <- MCProductOf
    WalletDeals = {d1}
    StarsDeals = {d2}
    ChargedDeals = {d2}
    Accepts = {"outer_join_lock", "nested_begin"}
    MaxUses = 1
    MaxDeposits = 1
    MaxFaults = 1

SPECIFICATION Spec
CHECK_DEADLOCK FALSE
INVARIANT PromoWithinLimit PayoutOnlyWhileRunning CancelledMeansRefunded VerdictOnRecord PayoutRecordTrue IInv
PROPERTY LockedDealFrozen BookSpec SettledForGood
