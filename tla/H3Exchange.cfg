SPECIFICATION Spec
CONSTANTS
    Requests = {r1, r2}
    EventsPerPass = 3
    Streams = 1
    Window = 1
    Scenes <- ExchangesAndEnds
SYMMETRY Symmetry
INVARIANTS NobodyWaitsInVain WindowConserved OutcomesAreHonest
