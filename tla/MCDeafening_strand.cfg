SPECIFICATION Spec
CONSTANTS
  owner = owner
  speaker = speaker
  Bots = {owner, speaker}
  Owner = owner
  DeafRetryLimit = 2
  MaxObserves = 2
  MaxFaults = 2
  MaxLate = 1
  Environments <- OnlyPreempted
INVARIANT CloseUndoesAll
CHECK_DEADLOCK FALSE
