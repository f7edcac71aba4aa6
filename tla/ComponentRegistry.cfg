SPECIFICATION RegistrySpec
CONSTANTS
    Dir <- MCDir
    File <- MCFile
    Above <- MCAbove
    Root = "root"
    QueueSize = 2
    Name <- MCName
    None = "none"
    NameOf <- MCNameOf
    Inline = "Anon"
    InlinePath = "memory"
CONSTRAINT Faultless
INVARIANTS
    TypeOK
    SettledIsTree
    SettledIsKnown
    SettledIsWatched
PROPERTIES
    QuietOnceStopped
    CloseEnds
CHECK_DEADLOCK FALSE
