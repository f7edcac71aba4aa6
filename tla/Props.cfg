SPECIFICATION PropsSpec
CONSTANTS
    Name = {"n"}
    MaxDepth = 2
    StructType <- MCStructType
    Element = {"any", "string", "ptr", "ptrptr", "array"}
    Declared <- MCDeclared
INVARIANTS
    AcceptedFits
    RefusalIsEarned
CHECK_DEADLOCK FALSE
