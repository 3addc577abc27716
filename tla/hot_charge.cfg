CONSTANTS
  J1772_DEBOUNCE_N = 2
  STREAK_MAX = 2
  OT_PERSIST_TICKS = 2
  GFCI_PERSIST_TICKS = 2
  CP_E_PERSIST_TICKS = 2
  EVSE_C_DWELL_TICKS = 2
  SAFETY_REPLUG_WINDOW_TICKS = 3
  RFID_LEARN_TICKS = 2
  ADC_RUNTIME_PERSIST_TICKS = 2
  SAFETY_INBOX_DEPTH = 2
  BOOT_SAMPLES = 1
  BL0939_POLL_TICKS = 2
  BL0939_DETECTOR_PERSIST = 2
  BL0939_STUCK_OPEN_PERSIST = 3
  BL0939_WELD_SETTLE_POLLS = 2
  BL0939_HOC_PERSIST_POLLS = 2
  BL0939_SOC_PERSIST_POLLS = 2
  RESIDUAL_POLLS = 0
  SESSION_FAULTS_MAX = 2
  CP_LAG = 1
  CpMv <- MV_C
  NtcPairs <- CoolAndHot
  Pe2Low = {FALSE}
  AdcRail = {FALSE}
  CalOutcomes = {TRUE}
  MeterClosed <- NoMeter
  MeterOpen <- NoMeter
  Swipes = {"none"}
  ReqTypes = {"SIMULATE_REPLUG"}
  ClearIds = {}
  Configs <- PlainConfig
  SafeFailBoots = {FALSE}
  Resets = {}
  Buttons = {}
  DIP1_CLOSED = TRUE
SPECIFICATION Spec
INVARIANTS
  NoChargeWhileOverTemp
