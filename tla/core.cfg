CONSTANTS
  J1772_DEBOUNCE_N = 2
  STREAK_MAX = 2
  OT_PERSIST_TICKS = 2
  GFCI_PERSIST_TICKS = 2
  CP_E_PERSIST_TICKS = 2
  EVSE_C_DWELL_TICKS = 2
  SAFETY_REPLUG_WINDOW_TICKS = 3
  RFID_LEARN_TICKS = 1
  ADC_RUNTIME_PERSIST_TICKS = 2
  SAFETY_INBOX_DEPTH = 1
  BOOT_SAMPLES = 1
  BL0939_POLL_TICKS = 2
  BL0939_DETECTOR_PERSIST = 2
  BL0939_STUCK_OPEN_PERSIST = 3
  BL0939_WELD_SETTLE_POLLS = 2
  BL0939_HOC_PERSIST_POLLS = 2
  BL0939_SOC_PERSIST_POLLS = 2
  RESIDUAL_POLLS = 0
  SESSION_FAULTS_MAX = 2
  CP_LAG = 1
  CpMv <- MV_ACE
  NtcPairs <- OnlyCool
  Pe2Low = {TRUE, FALSE}
  AdcRail = {FALSE}
  CalOutcomes = {TRUE, FALSE}
  MeterClosed <- NoMeter
  MeterOpen <- NoMeter
  Swipes = {"none"}
  ReqTypes = {"USER_PAUSE", "USER_RESUME", "SIMULATE_REPLUG", "RUN_GFCI_CAL_TEST", "PUBLISH", "RFID_LEARN_ARM"}
  ClearIds = {0, 1}
  Configs <- PolicyConfigs
  SafeFailBoots = {TRUE, FALSE}
  Resets = {"soft", "watchdog"}
  Buttons = {}
  DIP1_CLOSED = TRUE
SPECIFICATION Spec
INVARIANTS
  TypeOK
  ContactorInterlock
  FaultLatchCoherent
  SafeFailOpen
  GroundFaultStops
PROPERTIES
  FaultEndIsCounted
  GfciNeedsReset
