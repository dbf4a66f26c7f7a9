SPECIFICATION Spec
CONSTANTS
    Paths = {f, g}
    Changes = {c1, c2, c3}
    First = First
    Removal = Removal
    NoChange = NoChange
    MaxFaults = 2
SYMMETRY Interchange
CHECK_DEADLOCK FALSE
INVARIANT TypeOK
INVARIANT ListedIsPublished
 
 
