SPECIFICATION Spec
CONSTANTS
  Last = 4
  Cells <- MCCells
  Blank <- Unmapped
  Requests <- MCRequests
  SystemMemory <- MCSystem
  EntriesPerPage = 4
  MaxAdds = 3
  Page = 2
  Words = 10
INVARIANTS
  TypeOK
  Partition
  HobsSound
  TableMatchesMap
  InsertExact
  UefiRegionKept
PROPERTIES
  ReservedKept
  Overlays
CHECK_DEADLOCK FALSE
