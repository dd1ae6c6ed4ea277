SPECIFICATION Spec
CONSTANTS
    MaxRecord = 4
    Ceiling = 9
    MaxControl = 4
    Total = 4
    Pieces = {1, 4}
    Allowance = 2
    Batch = 2
    MaxOffers = 2
    Scenes <- TheScenes
INVARIANTS WireIsKept OfferIsHonest NothingWaitsAtPark EndsComeLast
