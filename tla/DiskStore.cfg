SPECIFICATION FairDiskSpec
CONSTANTS
    Key = {k1, k2}
    c = c
    Component = {c}
    ComponentOf <- MCComponentOf
    Art = {a, b}
    WithCSS = {a}
    None = None
    Husk = Husk
    Torn = Torn
    Attempts = 3
INVARIANTS
    GetIsCurrent
    IndexIsDisk
    NoTemporaryLeft
PROPERTIES
    OperationEnds
    IsAtomicStore
CHECK_DEADLOCK FALSE
