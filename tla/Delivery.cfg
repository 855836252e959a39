CONSTANTS
    Editors = {p1, p2}
    Columns = {k1, k2, k3}
    NoColumn = NoColumn
    Tasks = {t}
    Workers = {w1, w2}
    Approvers = {w1}
    Jobs = {j1, j2}
    NoJob = NoJob
    Pieces = {t}
    NoPiece = NoPiece
    Entries = {e}
    NoEntry = NoEntry
    Hours = {1, 2}
    Managers = {p1, p2}
    Milestones = {m}
    NoMilestone = NoMilestone
    Today = 1
    LastDay = 2
    NoDay = NoDay
    Sellers = {p1, p2}
    Leads = {l}
    NoLead = NoLead
    Stages = {"new", "proposal"}
    NoStage = NoStage
    MaxMoves = 4
    Clerks = {p1, p2}
    Clients = {c1}
    NoClient = NoClient
    Projects = {j1, j2}
    NoProject = NoProject
    MaxProjects = 1
    Plans = {b1, b2}
    MaxRecords = 1
    NoPlanYet = NoPlanYet
SPECIFICATION DeliverySpec
INVARIANTS DeliveryTypeOK BoardHoldsUnlessRacedOrWaived SignedOffStaysUnlessRaced HistoryHoldsUnlessRaced ProjectsHoldUnlessRaced
PROPERTY BaselineStaysUnlessRaced
SYMMETRY Symmetry
CHECK_DEADLOCK FALSE
