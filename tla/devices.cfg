SPECIFICATION DevicesSpec
CONSTANTS
  Parts = {"alarm", "buttons", "helper", "gfci", "reader", "store"}
  IO_TICK_MS = 500  DEBOUNCE_N = 3  ALIVE_POLLS = 2
  Raws = {0, 600, 1200, 2300, 3000, 4000}  Pc9 = {TRUE, FALSE}
  Snapshots <- MCSnapshots
  Beeps = {300}  Overrides = {0, 1}  FlashModes = {TRUE, FALSE}
  FLOAT = 2  HIGH = 2  IDLE = 4  PULSE = 4  TAIL = 4  RELEASE = 3  CYCLES = 2
  Delays = {1, 2, 5}  Widths = {1, 3}  CalTests = TRUE
  Uids <- MCUids  Cuts = {3, 6, 9}  KEEPALIVE_TICKS = 3  MAX_CARD_MOVES = 3  MAX_HITS = 1
  Value <- MCValue  Default <- Defaults  COUNTER_MOD = 4
  Amps = {0, 16}  AuthBytes = {0, 2}  PolicyBytes = {0, 1, 2}  Images = {7}
INVARIANTS
  AlarmHolds
  HandshakeMasked
  SwipesAreCards
PROPERTIES
  PressesCount
  GroundFaultSeen
  ReaderConverges
  AtomicStore
  StoredIsDurable
