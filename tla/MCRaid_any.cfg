SPECIFICATION Spec
CONSTANTS
    Guilds = {g1, g2}
    Commands = {c1, c2, c3}
    Speakers = {s1, s2}
    Owner = owner
    None = None
    Silent = Silent
    Offers = {"host", "guest", "stop", "idle", "forget"}
    Faults = {"config", "join", "apply", "build"}
    Races = {"startDuringTeardown", "stopDuringStart"}
SYMMETRY Symmetry
CHECK_DEADLOCK FALSE
INVARIANT TypeOK
INVARIANT StartsNeverCollide
INVARIANT NoSendOnClosed
INVARIANT NoLeakedInputs
