SPECIFICATION FairSpec
CONSTANTS
    Guilds = {g1, g2}
    Commands = {c1, c2, c3}
    Speakers = {s1}
    Owner = owner
    None = None
    Silent = Silent
    Offers = {"host", "guest", "stop"}
    Faults = {}
    Races = {"startDuringTeardown", "stopDuringStart"}
CHECK_DEADLOCK FALSE
PROPERTY CommandsReturn
PROPERTY GuestsFollowHost
PROPERTY StoppedStartsAreUndone
