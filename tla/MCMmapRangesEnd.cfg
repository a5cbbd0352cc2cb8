SPECIFICATION Spec
CONSTANTS
  Last = 5
  Cells <- MCCells
  Blank <- IdentityMapped
  Requests <- MCRequests
  SystemMemory <- MCSystem
  EntriesPerPage = 4
  MaxAdds = 2
  Page = 2
  Words = 12
INVARIANT TerminatorFits
CHECK_DEADLOCK FALSE
