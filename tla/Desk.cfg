CONSTANTS
    Clerks = {q1, q2}
    Entries = {e1, e2}
    NoEntry = NoEntry
    Names = {n1, n2}
    Records = {r}
    NoRecord = NoRecord
    Editors = {q1, q2}
    Services = {s1, s2}
    MaxEdits = 3
    Planners = {q1, q2}
    Goals = {g1, g2}
    NoGoal = NoGoal
    Owners = {u, org}
    Agency = org
    Months = {0, 1}
    Colleagues = {c}
    Nobody = Nobody
    Hands = {q1, q2}
    Places = {p1, p2}
    NoPlace = NoPlace
    Things = {k}
    NoThing = NoThing
    MaxTold = 4
    MaxMoves = 1
SPECIFICATION DeskSpec
INVARIANTS DeskTypeOK SetUpHoldsUnlessRaced VaultHoldsUnlessRaced
SYMMETRY Symmetry
CHECK_DEADLOCK FALSE
