SPECIFICATION FairSpec
CONSTANTS
  owner = owner
  speaker = speaker
  Bots = {owner, speaker}
  Owner = owner
  DeafRetryLimit = 2
  MaxObserves = 2
  MaxFaults = 2
  MaxLate = 1
  Environments <- AllKinds
CHECK_DEADLOCK FALSE
INVARIANT DeafeningInv
PROPERTY RetriesArePaced
PROPERTY ComesToRest
PROPERTY TeardownEnds
