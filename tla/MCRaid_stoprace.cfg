SPECIFICATION Spec
CONSTANTS
    Guilds = {g1}
    Commands = {c1, c2}
    Speakers = {s1}
    Owner = owner
    None = None
    Silent = Silent
    Offers = {"host", "guest", "stop"}
    Faults = {}
    Races = {"stopDuringStart"}
SYMMETRY Symmetry
CHECK_DEADLOCK FALSE
INVARIANT StopHonoured
