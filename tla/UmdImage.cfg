CONSTANTS
  Reserved = 2
  FatSectors = 2
  RootSectors = 2
  ClusterSectors = 8
  PerFatSector = 4
  ImageEnd = 25
  DiscSizes = {1, 2, 3, 4, 5, 6}
  Offsets <- MCOffsets
  MaxRead = 6
  LastPointer = 36
SPECIFICATION Spec
INVARIANTS BufferIsTheSector ReadsTheDisc FatChainsTheFile
