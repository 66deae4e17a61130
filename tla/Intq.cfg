SPECIFICATION IntqSpec
CONSTANTS
  None = None
  Reader = {r1, r2}
  Writer = {w1, w2}
  HandlerGets = TRUE
  HandlerPuts = TRUE
  Byte = {x, y}
  INTQ_BUFSIZE = 3
CHECK_DEADLOCK FALSE
INVARIANTS
  NoForgottenWaiter
PROPERTY
  ImplementsQueue
