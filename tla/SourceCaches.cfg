SPECIFICATION Spec
CONSTANTS
    Preparer = {p1, p2}
    Component = {k}
    Named = {k}
    Root = root
    t1 = t1
    Candidate <- MCCandidate
    Text = {a, b}
    Importing = {a}
    None = None
    MaxEdits = 2
    MaxRestarts = 1
SYMMETRY Alike
CONSTRAINTS Quiet Apart
INVARIANTS
    StampedTextIsCurrent
    VouchedTypeIsCurrent
    StillCallIsExact
