SPECIFICATION FairBundlesSpec
CONSTANTS
    logo = logo
    icon = icon
    x = x
    Asset = {logo, icon}
    Content = {x}
    KeyOf <- OneKey
    Large = {x}
    Fire = {f1, f2}
    Boot = Boot
    Closer = Closer
    MaxEvents = 1
    NoFile = NoFile
    None = None
CONSTRAINT NoMishap
INVARIANTS
    BundlesTypeOK
    StaleBundleIsDropped
    NoDanglingURL
    SettledIsCurrent
PROPERTIES
    ClosedIsQuiet
    CatchesUp
CHECK_DEADLOCK FALSE
