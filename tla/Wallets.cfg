CONSTANTS
    o1 = o1
    o2 = o2
    ann = ann
    ben = ben
    h1 = h1
    sweep = sweep
    NoSession = NoSession
    NoOrder = NoOrder
    Orders = {o1, o2}
    Users = {ann, ben}
    Maker <- MCMaker
    Taker <- MCTaker
    SellOrders = {o1}
    Assets = {"TON", "USDC"}
    Chains = {"ton", "evm"}
    Calls = {"confirm", "release", "refund"}
    MayCrash = TRUE
    Sessions = {h1, sweep}
    Sweeper = sweep
    MaxDrawn = 2

SPECIFICATION Spec
CHECK_DEADLOCK FALSE
INVARIANT PayoutsReachParties
