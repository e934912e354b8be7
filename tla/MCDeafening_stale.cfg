SPECIFICATION Spec
CONSTANTS
  owner = owner
  speaker = speaker
  Bots = {owner, speaker}
  Owner = owner
  DeafRetryLimit = 2
  MaxObserves = 2
  MaxFaults = 2
  MaxLate = 1
  Environments <- OnlyLagging
INVARIANT CacheIsTrustworthy
CHECK_DEADLOCK FALSE
