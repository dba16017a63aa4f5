\* Two files, a directory of one entry per sector, one failure.
CONSTANTS
    Names = {n1, n2}
    NFat = 7
    PerFat = 5
    PerDir = 1
    SS = 2
    MaxSize = 3
    MaxFuel = 8
    Volumes <- RoomOrNoFailure
    Calls = {}
SYMMETRY NamesAreAlike
\* The calls run out.
CHECK_DEADLOCK FALSE
SPECIFICATION Spec
INVARIANTS
    VolumeIsSound
    PromisesAreKept
    ReadsAreExact
    FreeCountIsExact
