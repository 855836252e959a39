CONSTANTS
    Consoles = {p1, p2}
    Operators = {o1, o2, o3}
    Seeded = o1
    NoOperator = NoOperator
    Plans = {k1, k2}
    NoPlan = NoPlan
    Joiners = {c}
    Desks = {p1}
    Companies = {c}
    Sweepers = {s1, s2}
    Trials = {0, 1, 2}
    GraceDays = 1
    MaxDay = 3
    NoDate = NoDate
    Authors = {p1, p2}
    Notices = {a}
    Texts = {t1, t2}
    NoNotice = NoNotice
    NoText = NoText
    Connections = {n1, n2}
    Nothing = Nothing
    Members = {"ada", "bo"}
    RoleOf <- RolesHere
    EventsHere = {"task_assigned", "payment_recorded"}
    Posts = {"post"}
    AudienceOf <- AudiencesHere
    Tabs = {t1}
    NoMember = NoMember
    MaxDeeds = 1
    Fetchers = {f1, f2}
    Quotes = {10, 100, 120}
    NoRate = NoRate
    LastDay = 2
    Sockets = {"x1", "x2", "x3"}
    Readers = {"ada", "bo"}
    OwnerOf <- OwnersHere
    MaxBusy = 1
SPECIFICATION PlatformSpec
INVARIANTS PlatformTypeOK TeamKeptUnlessRaced CustomersServedUnlessRaced OneListener SharedStateTrusted
PROPERTIES WarnedUnlessLate ServerCatchesUp
CHECK_DEADLOCK FALSE
