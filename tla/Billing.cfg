\* Two requests and two administrator calls on one wallet.
SPECIFICATION FairSpec
CONSTANTS
    u1 = u1
    Users = {u1}
    Requests = {r1, r2}
    Owner <- MCOwner
    AdminOps = {a1, a2}
    LedgerUnit = 4
    MinBalance = 1
    Reserves = {0, 5}
    Billables = {0, 1, 3, 6}
    AdminAmounts = {4, 8}
    NoTx = NoTx
INVARIANTS
    LedgerChain
    ChargesMatchLogs
    ShortfallNeedsARace
    ReportsExplained
PROPERTIES
    AccountSpec
    ChargeConcludes
CHECK_DEADLOCK FALSE
