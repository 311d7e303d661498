CONSTANTS
    o1 = o1
    o2 = o2
    maker = maker
    alice = alice
    bob = bob
    NoUser = NoUser
    Orders = {o1, o2}
    Users = {maker, alice}
    Maker <- MCMaker
    SellOrders = {o1, o2}
    ChainOrders = {o1, o2}
    TonOrders = {o2}
    Unreadable = {}
    UnwiredCalls = {}
    MaxDeposits = 1
    MaxCrashes = 0

SPECIFICATION FairSpec
CHECK_DEADLOCK FALSE
PROPERTY DepositIsNoticed OverdueAdExpires LocksAreReleased
