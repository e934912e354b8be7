SPECIFICATION Spec
CONSTANTS
    Guilds = {g1}
    Bots = {owner, speaker}
    Channels = {c1, c2}
    RoleTypes = {caller}
    Roles = {r1}
    Codes = {k1}
    Locales = {l1}
    None = None
    Torn = Torn
    NoFile = NoFile
    Binders = {h1, h2}
    MaxChanges = 4
    MaxFaults = 0
    MaxLives = 1
    MaxDeletions = 1
PROPERTY OnlyGoneIsUnbound
CHECK_DEADLOCK FALSE
