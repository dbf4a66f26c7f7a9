SPECIFICATION Spec
CONSTANTS
    Remotes = {A, B}
    Direct = {B}
    Local = Local
    Moves = {m1}
    NoMove = NoMove
    Requests = {q1}
    Pulls = {}
    Previews = {}
    TTL = 1
    MaxFaults = 1
CHECK_DEADLOCK FALSE
INVARIANT DoneKeepsPin
