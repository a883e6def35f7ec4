CONSTANTS
  Browsers = {b1}
  MaxConn = 2
  MaxVersion = 3
SPECIFICATION FairSpec
INVARIANTS TypeOK NoSyncLost NoSleepOnFlag
PROPERTIES PushRefined HintsArrive
CHECK_DEADLOCK FALSE
