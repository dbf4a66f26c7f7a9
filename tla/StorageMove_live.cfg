SPECIFICATION FairSpec
CONSTANTS
    Remotes = {A, B}
    Direct = {B}
    Local = Local
    Moves = {m1}
    NoMove = NoMove
    Requests = {q1}
    Pulls = {p1}
    Previews = {}
    TTL = 1
    MaxFaults = 1
PROPERTY SettlesFromBucket
PROPERTY SettlesWhenQuiet
