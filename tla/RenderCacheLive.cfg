SPECIFICATION RunSpec
CONSTANTS
    page = page
    part = part
    own = own
    lib = lib
    x = x
    y = y
    Component = {page, part}
    Root = {"app"}
    File = {own}
    Content = {x}
    PathOf <- OwnPath
    Imports <- NoImports
    Watched = {own}
    Renderer = {r1}
    Fire = {d1}
    NoFile = NoFile
    None = None
PROPERTIES
    StaleEntriesLeave
    ChangeReachesTabs
CHECK_DEADLOCK FALSE
