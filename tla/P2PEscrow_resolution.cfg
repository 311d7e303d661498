CONSTANTS
    o1 = o1
    o2 = o2
    maker = maker
    alice = alice
    bob = bob
    NoUser = NoUser
    Orders = {o1}
    Users = {maker, alice}
    Maker <- MCMaker
    SellOrders = {o1}
    ChainOrders = {}
    TonOrders = {}
    Unreadable = {}
    UnwiredCalls = {}
    MaxDeposits = 1
    MaxCrashes = 0

SPECIFICATION Spec
CHECK_DEADLOCK FALSE
INVARIANT ResolutionPersists
