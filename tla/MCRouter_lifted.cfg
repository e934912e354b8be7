SPECIFICATION Spec
CONSTANTS
    a = a
    u = u
    v = v
    w = w
    Sources = {owner, a}
    Dests = {owner, a, relay}
    Mixers = {owner, a, relay}
    RelayDest = relay
    Nobody = Nobody
    Boot = boot
    Watched = {a}
    Humans = {u, v}
    Bearers = {u, v}
    Runs = {boot, r1}
    MaxChanges = 1
    Environments <- Settling
SYMMETRY Symmetry
CHECK_DEADLOCK FALSE
INVARIANT RouterPauseHolds
