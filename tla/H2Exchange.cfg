SPECIFICATION Spec
CONSTANTS
    Requests = {r1, r2}
    ReadAhead = 2
    Window = 1
    Scenes <- ExchangesAndEnds
SYMMETRY Symmetry
INVARIANTS NobodyWaitsInVain NothingLeaks ErrorsAreHonest
PROPERTY UnsentCancelNeverSent
