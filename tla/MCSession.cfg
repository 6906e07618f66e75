SPECIFICATION ClientFairSpec
CONSTANTS
  c1 = c1  c2 = c2  None = None
  Callers = {c1, c2}
  IdSpace = 3
  MaxChunk = 2
  Bodies <- AllKinds
  ClientMaxBytes = 3
  ServerMaxBytes = 4
  SessionLimits = {1, 2}
  MaxCalls = 3
INVARIANTS
  DeliveredExactly
  NoProtocolError
  ConversationOrdered
  SessionAtRest
PROPERTIES
  CallsReturn
  ServerFollows
