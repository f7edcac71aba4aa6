SPECIFICATION CachesSpec
CONSTANTS
    Dir <- MCDir
    File <- MCFile
    Above <- MCAbove
    Root = "root"
    QueueSize = 1
    Name <- MCName
    None = "none"
    NameOf <- MCNameOf
    Inline = "Anon"
    InlinePath = "memory"
    Selector <- MCSelector
    FileNameOf <- MCFileNameOf
    Imports <- MCImports
CONSTRAINT Enough
INVARIANTS
    CachesTypeOK
    StaleOnlyIfGone
    PlainGoesWithFile
CHECK_DEADLOCK FALSE
