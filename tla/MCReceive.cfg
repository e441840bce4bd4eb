CONSTANTS
  MaxGiven = 1
  MaxMid = 2
  MaxInflight = 1
  MaxQueued = 1
  Protocols = {"v311"}
  Threads = {FALSE}
  Expiring = {FALSE}
  MaxBreaks = 2
SPECIFICATION Spec
CHECK_DEADLOCK FALSE
INVARIANT OneCallback
