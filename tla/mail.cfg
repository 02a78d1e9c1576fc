SPECIFICATION QueueFairSpec
CONSTANTS
  Docs = {d1, d2}
  Jobs = {j1}
  Workers = {w1}
  NoJob = NoJob
  NoDoc = NoDoc
  ATTEMPTS = 3
  MAX_STALLED = 1
  MaxClaim = 2
INVARIANTS NeverDemandsMore LogIsTruthful OnlyCrashesLock
PROPERTIES SettledSilencesJob EveryJobEnds
