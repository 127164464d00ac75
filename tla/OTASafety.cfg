SPECIFICATION FairSpec
CONSTANTS
  MAX_BOOT_ATTEMPTS = 3
  ATTEMPTS_MOD = 5
  EarlySetBoot = FALSE
  NoInfo = NoInfo
  NoRequest = NoRequest
INVARIANTS NeverHalts UpdatesOtherPartition
PROPERTY RollbackUnlessInfoLost
