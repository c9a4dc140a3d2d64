\* Three lines; every state of secrets.json, every outcome of the connections.
SPECIFICATION ManagerSpec
CONSTANTS
  MaxMessages = 3
CHECK_DEADLOCK FALSE
INVARIANTS
  ManagerTypeOK
  Conserved
  OneWriter
  InOrder
  CommandsAuthenticated
PROPERTIES
  ImplementsFeed
  EventuallyDispatched
  HandshakeGoesOn
