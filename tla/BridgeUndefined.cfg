SPECIFICATION Spec
CONSTANTS
  a = a
  b = b
  Handshake = Handshake
  Calls <- OneCall
  ClientIds <- AmendedClientIds
  MaxDrops = 2
INVARIANTS PayloadDelivered
CHECK_DEADLOCK FALSE
