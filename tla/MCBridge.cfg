CONSTANTS
  address_count = 2
  StartTypes = {"automatic", "lazy"}
  backoff_base = 2
  backoff_cap = 4
  Randoms = {0, 1}
  PrimaryRetry = 2
  threshold = 1
  MaxMsgs = 1
  MaxChanges = 2
SPECIFICATION Spec
CHECK_DEADLOCK FALSE
PROPERTY EveryAddressTried
