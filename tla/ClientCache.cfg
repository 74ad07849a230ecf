SPECIFICATION Spec
CONSTANTS
  Rooms = {r1, r2}
  None = None
  History = 3
  MaxLive = 3
  MaxMeanwhile = 2
  PageSize = 2
  Batch = 6
  CreatedAt <- MCCreatedAt
SYMMETRY RoomSymmetry
CHECK_DEADLOCK FALSE
INVARIANT TypeOK
INVARIANT NoHole
INVARIANT RoomShowsCache
INVARIANT CatchUpShown
