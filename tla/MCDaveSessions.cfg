SPECIFICATION FairSpec
CONSTANTS
    Sessions = {s1, s2}
    Users = {u}
    Unknown = unknown
    StallFrames = 2
    Environments <- MCEnvironments
INVARIANT SessionsAgree
PROPERTY ExportIsMonotone
PROPERTY LeaversAreForgotten
PROPERTY SilenceIsReported
