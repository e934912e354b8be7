SPECIFICATION Spec
CONSTANTS
    Guilds = {g1, g2}
    Commands = {c1, c2, c3, c4}
    Speakers = {s1}
    Owner = owner
    None = None
    Silent = Silent
    Offers = {"host", "guest", "stop"}
    Faults = {}
    Races = {"startDuringTeardown"}
SYMMETRY Symmetry
CHECK_DEADLOCK FALSE
INVARIANT StopEndsGuests
