CONSTANTS
  Data = {1, 2}
  Blank = 0
  Garbage = 9
  OTA_STAGE_REGION_SIZE = 4
  W25Q_SECTOR_SIZE = 2
  BANK0_SIZE = 3
  FLASH_PAGE_SIZE = 1
  FLASH_OTA_APPLY_MAX_SIZE = 2
  SessionIds = {0, 1, 2}
  Announced <- MCAnnounced
  Chunks <- MCChunks
  Factory <- MCFactory
SPECIFICATION OtaFairSpec
PROPERTIES
  HalfWrittenIsReapplied
