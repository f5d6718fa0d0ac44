SPECIFICATION Spec
CONSTANTS
    t1 = t1
    t2 = t2
    Units <- const_Units
    MaxFiles = 3
    MaxNodes = 2
    MaxBuilds = 3
    NoUnit = NoUnit
    Reflection = Reflection
INVARIANTS
    TypeOK
    NoOverlap
    HandlesPacked
    OwnersKeepTheirHandles
    OwnedNodesAttached
PROPERTIES
    OtherUnitsUntouched
