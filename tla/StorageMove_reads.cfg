SPECIFICATION Spec
CONSTANTS
    Remotes = {A, B}
    Direct = {B}
    Local = Local
    Moves = {m1}
    NoMove = NoMove
    Requests = {q1}
    Pulls = {p1}
    Previews = {v1}
    TTL = 1
    MaxFaults = 1
INVARIANT TypeOK
INVARIANT PullsKeepTheirCopy
INVARIANT LinksHonoured
