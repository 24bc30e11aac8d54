SPECIFICATION Spec
CONSTANTS
  a = a
  b = b
  Handshake = Handshake
  Calls <- OneCall
  ClientIds <- RepoClientIds
  MaxDrops = 2
PROPERTIES EventuallyConnected
CHECK_DEADLOCK FALSE
