SPECIFICATION FairSpec
CONSTANTS
    Fire = {f1, f2, f3}
    Stopper = {s1, s2}
INVARIANTS
    TypeOK
    StopIsFinal
    NoArmLost
PROPERTIES
    NoAddDuringWait
    ArmedRuns
CHECK_DEADLOCK FALSE
