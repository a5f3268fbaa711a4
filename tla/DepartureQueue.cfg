SPECIFICATION FairSpec
CONSTANTS
    Veh = {1, 2, 3, 4, 5}
    DeltaT = 2
    Departs = {0, 1, 3, 4, 6}
    Demands <- InOrder
    InitialCapacity = 1
    Horizon = 6
INVARIANT TypeOK
INVARIANT TopIsEarliest
INVARIANT RoomForTheHole
INVARIANT StoredOnce
PROPERTY ScheduleKept
PROPERTY EveryoneEmitted
