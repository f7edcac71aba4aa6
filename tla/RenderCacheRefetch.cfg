SPECIFICATION Spec
CONSTANTS
    page = page
    part = part
    own = own
    lib = lib
    x = x
    y = y
    Component = {page}
    Root = {"app"}
    File = {own}
    Content = {x, y}
    PathOf <- OwnPath
    Imports <- NoImports
    Watched = {own}
    Renderer = {r1}
    Fire = {d1}
    NoFile = NoFile
    None = None
INVARIANT
    RefetchIsFresh
CHECK_DEADLOCK FALSE
