CONSTANTS
    WorkgroupCount <- Grid4x2x1
    WorkerCount = 2
    MaxReservation = 3
    WordMod = 17
    FailingTiles = {5}
    Grids <- SmallGrids
    TilesPerSlice <- SquareSlices
    StartWorkers = {0, 1}
    TilesMayFail = TRUE
SPECIFICATION DispatchSpec
INVARIANTS
    TileAtMostOnce
    AllTilesWhenRetired
    WholeGridOnce
