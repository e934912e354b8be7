SPECIFICATION FairSpec
CONSTANTS
    Sessions = {s1, s2}
    Users = {u}
    Unknown = unknown
    StallFrames = 2
    Environments <- Late
INVARIANT NoFrameSilenced
