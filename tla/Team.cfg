CONSTANTS
    p1 = p1  p2 = p2  founder = founder  alice = alice  bob = bob
    Requests = {p1, p2}
    Users = {founder, alice, bob}
    Founder = founder
    MaxSeats = 2
    UserEdits <- MCUserEdits
    NoUser = NoUser
SYMMETRY Symmetric
SPECIFICATION Spec
INVARIANTS SeatsNeverOversold TeamHoldsUnlessRaced
CHECK_DEADLOCK FALSE
