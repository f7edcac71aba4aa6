SPECIFICATION Spec
CONSTANTS
    page = page
    part = part
    own = own
    lib = lib
    x = x
    y = y
    Component = {page}
    Root = {"app"}
    File = {own, lib}
    Content = {x, y}
    PathOf <- OwnPath
    Imports <- LibWhileX
    Watched = {own, lib}
    Renderer = {r1}
    Fire = {d1, d2}
    NoFile = NoFile
    None = None
INVARIANTS
    TypeOK
    IndexCoversCaches
    NoLostInvalidation
    NoStaleDiskEntry
SYMMETRY Goroutines
CHECK_DEADLOCK FALSE
