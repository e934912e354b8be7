SPECIFICATION Spec
CONSTANTS
    Guilds = {g1, g2}
    Commands = {c1, c2, c3, c4}
    Speakers = {s1}
    Owner = owner
    None = None
    Silent = Silent
    Offers = {"host", "guest", "stop", "idle", "forget"}
    Faults = {"config", "join", "build"}
    Races = {}
SYMMETRY Symmetry
CHECK_DEADLOCK FALSE
INVARIANT RaidJoinable
INVARIANT BotsServeTheirRaid
INVARIANT NoBotLeftBehind
INVARIANT NoOrphanGuest
PROPERTY OnlyItsOwnEnd
