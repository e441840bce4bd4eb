SPECIFICATION Spec
CHECK_DEADLOCK FALSE
INVARIANTS MessagesKept BothSidesAgree FiledUnderItsTopic 
PROPERTIES DeliverySpec  EverythingAnswered
CONSTANTS MaxGiven = 3 MaxMid = 2 SendMaximum = 3 MaxInflight = 3 MaxQueued = 1 MaxBreaks = 2
