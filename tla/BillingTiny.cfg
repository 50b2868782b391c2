\* One request whose usage comes to less than half a ledger unit.
SPECIFICATION Spec
CONSTANTS
    u1 = u1
    Users = {u1}
    Requests = {r1}
    Owner <- MCOwner
    AdminOps = {a1}
    LedgerUnit = 4
    MinBalance = 1
    Reserves = {0}
    Billables = {1}
    AdminAmounts = {4}
    NoTx = NoTx
INVARIANT
    UsageIsDebited
CHECK_DEADLOCK FALSE
