CONSTANTS
    o1 = o1
    o2 = o2
    maker = maker
    alice = alice
    bob = bob
    NoUser = NoUser
    Orders = {o1, o2}
    Users = {maker, alice, bob}
    Maker <- MCMaker
    SellOrders = {o1}
    ChainOrders = {o2}
    TonOrders = {}
    Unreadable = {}
    UnwiredCalls = {"confirm_fiat_payment", "cancel_order"}
    MaxDeposits = 2
    MaxCrashes = 1

SPECIFICATION Spec
CHECK_DEADLOCK FALSE
INVARIANT TakerOfRecord FundedBeforeListed NoPayoutOutsideTrade PayeeOnRecord CompletedMeansReleased IInv
PROPERTY SettlingOrderFrozen BookSpec OneTaker
