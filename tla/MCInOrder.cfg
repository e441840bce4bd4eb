CONSTANTS
  MaxGiven = 4
  MaxMid = 5
  MaxInflight = 1
  MaxQueued = 3
  Protocols = {"v311"}
  Threads = {FALSE}
  Expiring = {FALSE}
  MaxBreaks = 1
SPECIFICATION Spec
CHECK_DEADLOCK FALSE
PROPERTY InOrderDelivery
