CONSTANTS
    i1 = i1
    i2 = i2
    t1 = t1
    t2 = t2
    t3 = t3
    t4 = t4
    t5 = t5
    s1 = s1
    alice = alice
    bob = bob
    NoUser = NoUser
    NoInvoice = NoInvoice
    NoTx = NoTx
    Users = {alice, bob}
    Invoices = {i1, i2}
    Owner <- MCOwner
    Txs = {t1, t2, t3, t4, t5}
    Memo <- MCMemo
    Enough = {t1, t2, t4}
    Stars = {s1}
    Payer <- MCPayer
    Window = 2
    Accepts = {}
    MaxFaults = 0

SPECIFICATION FairSpec
CHECK_DEADLOCK FALSE
PROPERTY TonPaymentIsLicensed
