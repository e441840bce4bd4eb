CONSTANTS
  MaxGiven = 2
  MaxConns = 2
  MaxPair = 2
  keepalive = 3
  timeout = 3
  MaxDelay = 1
  MaxDead = 11
SPECIFICATION ClientSpec
CHECK_DEADLOCK FALSE
INVARIANTS SentInTime ComputedAsDefined
PROPERTIES OnlyTheDeadGivenUp DisconnectEndsThread BridgeFindsItsWay
