CONSTANTS
    o1 = o1
    o2 = o2
    r1 = r1
    name = name
    welcome = welcome
    k1 = k1
    k2 = k2
    None = None
    Orders = {o1, o2}
    Reasons = {r1}
    Fields = {name, welcome}
    Storage = "memory"
    Slots = {k1, k2}

SPECIFICATION Spec
CHECK_DEADLOCK FALSE
INVARIANT DialogHasItsData ActsOnWhatWasShown
