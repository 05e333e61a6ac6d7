SPECIFICATION ModelSlotSpec
CONSTANTS
  Models = {m1, m2, m3}
  Calls = {c1, c2}
  NoModel = NoModel
CHECK_DEADLOCK FALSE
INVARIANTS
  CallsHoldOpenClients
  RetiredInOnePlace
  CleanShutdownClosesAll
PROPERTIES
  RetiredIsClosed
