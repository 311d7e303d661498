CONSTANTS
    o1 = o1
    o2 = o2
    alice = alice
    bob = bob
    carol = carol
    h1 = h1
    h2 = h2
    sweep = sweep
    NoUser = NoUser
    NoSession = NoSession
    NoOrder = NoOrder
    Orders = {o1, o2}
    Users = {alice, bob, carol}
    Maker <- MCMaker
    Taker <- MCTaker
    Referrer <- MCReferrer
    Reward <- MCReward
    Scale = 4
    Sessions = {h1, h2, sweep}
    Sweeper = sweep

SPECIFICATION FairSpec
CHECK_DEADLOCK FALSE
INVARIANT TradesAreSettlements BalanceFollowsRewards
PROPERTY EverySettlementEnds SettledOneByOne
