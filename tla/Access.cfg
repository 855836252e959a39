CONSTANTS
    Clients = {p1, p2}
    People = {u}
    Links = {l1, l2}
    Passwords = {w1, w2}
    MaxVersion = 2
    FirstPassword = w1
    NoPerson = NoPerson
    NoLink = NoLink
    NoToken = NoToken
    Askers = {p1, p2}
    Emails = {e1, e2}
    Invites = {l1, l2}
    MaxAccounts = 2
    NoInvite = NoInvite
    NoEmail = NoEmail
SPECIFICATION AccessSpec
INVARIANTS LiveTokensKnowPassword OneAccountPerAddress LinksHoldUnlessRaced
PROPERTIES ResetLinksWorkOnce
SYMMETRY Symmetric
CHECK_DEADLOCK FALSE
