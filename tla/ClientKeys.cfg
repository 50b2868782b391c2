\* Two administrators, one user, two keys, two requests and a reader of the log.
SPECIFICATION ReportSpec
CONSTANTS
    u1 = u1
    m1 = m1
    m2 = m2
    NoRow = NoRow
    Calls = {c1, c2}
    Requests = {r1, r2}
    Users = {u1}
    ClientKeys = {1, 2}
    Models = {m1, m2}
    Forms <- MCForms
    Expiries <- MCExpiries
    Amounts = {1, 2}
    Databases <- MCDatabases
    DayTicks = 2
    MonthDays = 2
    SessionTicks = 1
    Start = 5
    MaxTime = 6
    MaxWork = 3
    WindowTicks = 1
    TopLimit = 1
    ExportLimit = 2
    PageSize = 1
    ZoneTicks = 1
    WarningThreshold = 80
INVARIANTS
    RightsAreOneForm
    StatsAgree
    PagesCoverAll
PROPERTIES
    AdmissionIsCurrent
    AuthenticationsEnd
CHECK_DEADLOCK FALSE
