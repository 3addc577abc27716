CONSTANTS
  J1772_DEBOUNCE_N = 2
  STREAK_MAX = 2
  OT_PERSIST_TICKS = 1
  GFCI_PERSIST_TICKS = 2
  CP_E_PERSIST_TICKS = 2
  EVSE_C_DWELL_TICKS = 2
  SAFETY_REPLUG_WINDOW_TICKS = 2
  RFID_LEARN_TICKS = 1
  ADC_RUNTIME_PERSIST_TICKS = 1
  SAFETY_INBOX_DEPTH = 1
  BOOT_SAMPLES = 1
  BL0939_POLL_TICKS = 1
  BL0939_DETECTOR_PERSIST = 2
  BL0939_STUCK_OPEN_PERSIST = 3
  BL0939_WELD_SETTLE_POLLS = 2
  BL0939_HOC_PERSIST_POLLS = 2
  BL0939_SOC_PERSIST_POLLS = 2
  RESIDUAL_POLLS = 0
  SESSION_FAULTS_MAX = 2
  CP_LAG = 1
  CpMv <- MV_ABC
  NtcPairs <- CoolAndHot
  Pe2Low = {FALSE}
  AdcRail = {TRUE, FALSE}
  CalOutcomes = {TRUE}
  MeterClosed <- NoMeter
  MeterOpen <- NoMeter
  Swipes = {"none", "listed", "unlisted"}
  ReqTypes = {"RFID_LEARN_ARM", "USER_RESUME", "USER_PAUSE", "SIMULATE_REPLUG"}
  ClearIds = {0}
  Configs <- AuthToggle
  SafeFailBoots = {FALSE}
  Resets = {"soft"}
  Buttons = {"TOP", "MID"}
  DIP1_CLOSED = TRUE
SPECIFICATION HeldSpec
INVARIANTS
  PauseHolds
PROPERTIES
  CloseNeedsDwellAndAuth
