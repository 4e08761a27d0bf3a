\* Pages mapped with and without the right of access.
SPECIFICATION MCSpec
CONSTANTS
  Entries = 4
  DirEntries = 5
  Pmem <- MCPmem
  UserSpace <- MCUserSpace
  Pool <- MCPool
  DataPages <- MCTwoPages
  MapVas <- MCThreeVas
  Spaces = {as1, as2}
  Kas = kas
  Callers = {c1}
  Main = c1
  Prots = {0, 1}
  NoAccess = 0
  None = None
INVARIANT NoneIsNoAccess
CHECK_DEADLOCK FALSE
SYMMETRY SpaceSymmetry
