CONSTANTS
  None = None
  Files = {1, 2}
  RootFile = 1
  FSSIZE = 6
  BSIZE = 2
  NDIRECT = 2
  NINDIRECT = 2
  MAXOPBLOCKS = 6
  UINT = 16
  RootBytes = 1
  Sizes = {5}
  Lens = {1, 3, 8}
  MaxWrites = 2
SPECIFICATION Spec
INVARIANTS ReadBack BlocksOnce OpFits
