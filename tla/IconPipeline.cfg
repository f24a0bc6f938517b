SPECIFICATION Spec
CONSTANTS
    Names = {a, b, c}
    Unresolved = {c}
    Empty = empty
    Slots = 2
    RequestRoom = 1
    ResultRoom = 1
    MaxEpoch = 3
INVARIANTS
    RightIcon
    OneResolvePerKey
PROPERTIES
    ResultsAreDrained
