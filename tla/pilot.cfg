CONSTANTS
  J1772_DEBOUNCE_N = 3
  STREAK_MAX = 3
  OT_PERSIST_TICKS = 2
  GFCI_PERSIST_TICKS = 2
  CP_E_PERSIST_TICKS = 3
  EVSE_C_DWELL_TICKS = 2
  SAFETY_REPLUG_WINDOW_TICKS = 6
  RFID_LEARN_TICKS = 2
  ADC_RUNTIME_PERSIST_TICKS = 1
  SAFETY_INBOX_DEPTH = 2
  BOOT_SAMPLES = 1
  BL0939_POLL_TICKS = 2
  BL0939_DETECTOR_PERSIST = 2
  BL0939_STUCK_OPEN_PERSIST = 3
  BL0939_WELD_SETTLE_POLLS = 2
  BL0939_HOC_PERSIST_POLLS = 2
  BL0939_SOC_PERSIST_POLLS = 2
  RESIDUAL_POLLS = 0
  SESSION_FAULTS_MAX = 2
  CP_LAG = 1
  CpMv <- MV_AC
  NtcPairs <- OnlyCool
  Pe2Low = {FALSE}
  AdcRail = {TRUE, FALSE}
  CalOutcomes = {TRUE}
  MeterClosed <- NoMeter
  MeterOpen <- NoMeter
  Swipes = {"none"}
  ReqTypes = {"USER_PAUSE", "USER_RESUME", "SIMULATE_REPLUG"}
  ClearIds = {0}
  Configs <- PlainConfig
  SafeFailBoots = {FALSE}
  Resets = {}
  Buttons = {}
  DIP1_CLOSED = TRUE
SPECIFICATION FairSpec
INVARIANTS
  NoSpuriousPilotFault
PROPERTIES
  ReplugEnds
