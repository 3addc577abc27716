CONSTANTS
  None = None
  Uids = {1, 2, 3}
  AUTHLIST_MAX = 2
  CRASH_LOOP_THRESHOLD = 2
  COUNT_MAX = 3
  INT16_MAX = 32767
  STAMP_MOD = 8
  PERSIST_QUEUE_DEPTH = 1
  MAX_FAILS = 1
  EV_SECTORS = 3
  SE_SECTORS = 2
  PER_SECTOR = 2
  Stamps = {0, 1, 2, 3, 4, 5, 6, 7}
  Times = {1, 2}
  LIST_SLOTS = 1
  Requests <- MCRequests
  Mixes <- MCMixes
SPECIFICATION PersistSpec
INVARIANTS
  ListIsDurable
  InForceIsDurable
  LogsFindHead
  LogsKeepRecent
  CrashLoopCaught
