SPECIFICATION Spec
CONSTANTS
  c1 = c1  c2 = c2  None = None
  Callers = {c1, c2}
  IdSpace = 3
  MaxChunk = 2
  Bodies <- OneChunk
  ClientMaxBytes = 3
  ServerMaxBytes = 4
  SessionLimits = {3}
  MaxCalls = 2
INVARIANT
  ReusableAfterSuccess
