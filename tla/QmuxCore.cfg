SPECIFICATION Spec
CONSTANTS
    PeerUni = {"u"}
    PeerBidi = {"b"}
    LocalBidi = {"l"}
    Allowance = 2
    Carry = 1
    RouteBudget = 3
    PendingLimit = 1
    MaxJams = 1
    Scenes <- TheScenes
CHECK_DEADLOCK FALSE
INVARIANTS EveryoneIsTold CreditedOnce StreamsRetire
