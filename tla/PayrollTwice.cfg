CONSTANTS
    p1 = p1  p2 = p2  r1 = r1  r2 = r2  r3 = r3  ann = ann  ben = ben  m1 = m1  m2 = m2
    Requests = {p1, p2}
    Runs = {r1, r2, r3}
    Months = {m1}
    Members = {ann, ben}
    Nets = {0, 1}
    NoRun = NoRun
    NoMonth = NoMonth
SYMMETRY Symmetric
SPECIFICATION Spec
INVARIANT MonthPaidOnce
CHECK_DEADLOCK FALSE
