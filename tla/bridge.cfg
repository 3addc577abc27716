CONSTANTS
  Volts = {0, 2}
  Pilots = {"unknown", "A"}
  Amps = {6}
  Users = {0, 2}
  RX_PIECES = 4
  TX_AHEAD = 2
  Commands <- MCCommands
  Budgets <- MCBudgets
SPECIFICATION BridgeSpec
INVARIANTS
  StreamAligned
  PrevIsPublished
PROPERTIES
  BrokerCatchesUp
