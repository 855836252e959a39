CONSTANTS
    People = {p1, p2}
    Threads = {t1, t2}
    NoThread = NoThread
    Texts = {q1, q2}
    NoText = NoText
    Nobody = Nobody
    MaxTicks = 3
    Requesters = {q1, q2}
    Staff = {p1, p2}
    NoStaff = NoStaff
    Absences = {a1, a2}
    NoAbsence = NoAbsence
    LastDate = 2
    Taps = {q1, q2}
    Midnight = 4
    NoTime = NoTime
    Partners = {q1, q2}
    Holders = {p1, p2}
    NoHolder = NoHolder
    Percents = {0, 60}
    MaxPaid = 1
    j = j
    k1 = k1
    k2 = k2
    Entries <- EntriesHere
    Jobs = {j}
    NoJob = NoJob
    Departments = {d1}
    NoDepartment = NoDepartment
    Employees = {"ann", "bob"}
    DaysInMonth = 2
    FinalDay = 3
    Agencies = {p1, p2}
    PlansSold = {k1, k2}
    PriceOf <- PricesHere
    Jobs24 = {j1}
    Costs = {x}
    Sums = {1}
    LastNight = 1
    MaxShifts = 1
    NoSnapshot = NoSnapshot
    Deals = {"l1", "l2"}
    Brokers = {"ann"}
    NoBroker = "nobody"
    Sources = {}
    NoSource = NoSource
    WorthOf <- WorthHere
    LastMove = 1
    MaxSteps = 3
    Crew = {"ann", "bob"}
    WeeklyHours = {0, 20}
    BillRates = {50}
    HourSteps = {7}
    Collected = {100}
    GoalValues = {0, 5000}
    MaxHours = 14
    Principals = {1, 100, 101}
    StartDates <- StartsHere
    Terms = {1, 3, 4}
    Items = {"x1", "x2", "x3", "x4"}
    DayOn <- DaysHere
    Limits = {1, 2, 3}
    MaxPage = 2
SPECIFICATION OfficeSpec
INVARIANTS OfficeTypeOK DaysHoldUnlessRaced ThreadsHoldUnlessLate OwnedOnceUnlessUnchecked FiguresAgree
SYMMETRY Symmetry
CHECK_DEADLOCK FALSE
