SPECIFICATION RenderSpec
CONSTANTS
    Writer = {"w1", "w2"}
    NoWriter = "nil"
    Code = {418}
    Registered <- MCRegistered
    Middleware <- MCMiddleware
    DefaultMiddleware <- MCDefaultMiddleware
    DefaultHandlers <- MCDefaultHandlers
    HandledType = {"RegistryLookup", "Failure"}
    MaxCalls = 1
    MaxRenders = 1
INVARIANT EveryEventAnswered
CHECK_DEADLOCK FALSE
