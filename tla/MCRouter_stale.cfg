SPECIFICATION Spec
CONSTANTS
    a = a
    u = u
    v = v
    w = w
    Sources = {owner, a}
    Dests = {owner, a, relay}
    Mixers = {owner, a, relay}
    RelayDest = relay
    Nobody = Nobody
    Boot = boot
    Watched = {}
    Humans = {u}
    Bearers = {u}
    Runs = {boot, r1, r2}
    MaxChanges = 1
    Environments <- Overtaking
SYMMETRY Symmetry
CHECK_DEADLOCK FALSE
INVARIANT RelayIsHeard
