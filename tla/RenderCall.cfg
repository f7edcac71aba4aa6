SPECIFICATION RenderSpec
CONSTANTS
    Writer = {"w1", "w2"}
    NoWriter = "nil"
    Code = {418}
    Registered <- MCRegistered
    Middleware <- MCMiddleware
    DefaultMiddleware <- MCDefaultMiddleware
    DefaultHandlers <- MCDefaultHandlers
    HandledType = {"TransmitRenderedTemplate", "Failure"}
    MaxCalls = 3
    MaxRenders = 2
INVARIANTS
    StartsOver
    OwnTypeDecides
    ErrorStops
    SuccessIsTransmitted
CHECK_DEADLOCK FALSE
