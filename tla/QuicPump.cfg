SPECIFICATION Spec
CONSTANTS
    Total = 2
    Limit = 1
    Queue = 3
    Budget = 2
    Batch = 2
    MaxTime = 3
    MaxSent = 3
    MaxOwed = 3
    Scenes <- TheScenes
INVARIANTS ParkIsSafe EndsStartABatch FinIsHonest
PROPERTY KeepsPromise
