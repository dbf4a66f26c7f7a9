SPECIFICATION Spec
CONSTANTS
    Remotes = {A, B}
    Direct = {}
    Local = Local
    Moves = {m1, m2}
    NoMove = NoMove
    Requests = {q1}
    Pulls = {}
    Previews = {}
    TTL = 1
    MaxFaults = 0
SYMMETRY PlaceSymmetry
CHECK_DEADLOCK FALSE
INVARIANT WholeAfterMoves
