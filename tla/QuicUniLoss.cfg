SPECIFICATION Spec
CONSTANTS
  PeerUni = {"u1", "u2"}
  PeerBidi = {"b1"}
  LocalBidi = {"l1"}
  Inbound = 2
  Outbound = 1
  TimerTurns = 2
  MaxTime = 3
  MaxDisplaced = 1
  Scenes <- LossScenes
INVARIANT DeliveredIsKept
CHECK_DEADLOCK FALSE
