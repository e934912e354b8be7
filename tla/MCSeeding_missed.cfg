SPECIFICATION Spec
CONSTANTS
    Bots = {b1, b2}
    Callers = {c1, c2}
    Handlers = {h1, h2}
    NoCaller = NoCaller
    Window = 2
    Limit = 1
    Environments <- Overlapping
CHECK_DEADLOCK FALSE
INVARIANT NoMemberIsMissed
