SPECIFICATION LinkRunSpec
CONSTANTS
  Parts = {"bytes", "mirror", "push"}
  Payloads <- MCPayloads  PAYLOAD_MAX = 2  RING_LEN = 4
  Senders = {"comms", "safety"}  MAX_FRAMES = 2  MAX_FAULTS = 2  Receivers = {"mcu", "fc41d"}
  Amps = {6, 60}  Cards = {"u1"}
  QUEUE_DEPTH = 4  INBOX_DEPTH = 4  RFID_AUTHLIST_MAX = 1  LINK_POLLS = 2  LIFETIME_DIV = 2  LINE_MAX = 0  Mixes <- MCMixes
  Images <- MCImages  MAX_CHUNKS = 2  MAX_PUSHES = 2  MAX_LOSSES = 3
INVARIANTS
  IntactFrameKept
  QuietMirror
  DoneIsArmed
PROPERTIES
  OnlySentFrames
  MirrorCatchesUp
CHECK_DEADLOCK FALSE
