CONSTANTS
    MaxHits = 4
    Capacity = 2
SPECIFICATION Spec
INVARIANTS BoundedFanOut NoSlotRace RankOrder EmptyMeansNothing EveryHitTried
PROPERTY Returns
