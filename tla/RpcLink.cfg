SPECIFICATION FairSpec
CONSTANTS
  m1 = m1
  m2 = m2
  Mailbox = {m1, m2}
  Calls <- CallsDef
  MaxCalls = 2
  Kinds = {"mqtt", "ws", "ws2", "tcp"}
PROPERTY PromiseKept
CHECK_DEADLOCK FALSE
