SPECIFICATION Spec
CONSTANTS
    a = a
    u = u
    v = v
    w = w
    Sources = {owner, a}
    Dests = {owner, a, relay}
    Mixers = {owner, a, relay}
    RelayDest = relay
    Nobody = Nobody
    Boot = boot
    Watched = {a}
    Humans = {u, v, w}
    Bearers = {u, v}
    Runs = {boot, r1, r2, r3}
    MaxChanges = 1
    Environments <- MCEnvironments
SYMMETRY Symmetry
CHECK_DEADLOCK FALSE
INVARIANT NoTwoWriters
INVARIANT InputsMatch
INVARIANT Converged
INVARIANT ParkedOnlyByWatcher
