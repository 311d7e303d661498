CONSTANTS
    d1 = d1
    d2 = d2
    buyer = buyer
    seller = seller
    product = product
    Deals = {d1}
    Users = {buyer, seller}
    BuyerOf <- MCBuyerOf
    SellerOf <- MCSellerOf
    ProductOf <- MCProductOf
    WalletDeals = {d1}
    StarsDeals = {}
    ChargedDeals = {}
    Accepts = {"outer_join_lock", "nested_begin"}
    MaxUses = 1
    MaxDeposits = 2
    MaxFaults = 1

SPECIFICATION FairSpec
CHECK_DEADLOCK FALSE
PROPERTY LocksAreReleased
