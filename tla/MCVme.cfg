\* One caller maps and maps again; two callers preempt each other.
SPECIFICATION MCSpec
CONSTANTS
  Entries = 4
  DirEntries = 5
  Pmem <- MCPmem
  UserSpace <- MCUserSpace
  Pool <- MCPool
  DataPages <- MCTwoPages
  MapVas <- MCThreeVas
  Spaces = {as1, as2}
  Kas = kas
  Callers = {c1, c2}
  Main = c1
  Prots = {1}
  NoAccess = 0
  None = None
INVARIANTS TypeOK TablesOwned KernelMapped
PROPERTY AddressSpacesSpec
CHECK_DEADLOCK FALSE
SYMMETRY SpaceSymmetry
