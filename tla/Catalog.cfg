SPECIFICATION Spec
CONSTANTS
  Clients = {c1, c2}
  codecs = codecs
  index = index
  Names = {codecs, index}
  Indexes = {i}
  CodecTable <- MCCodecTable
  IndexTable <- MCIndexTable
  Parts = {p1, p2}
  Whole = Whole
  None = None
  MaxWrites = 3
  Faults = {"record"}
SYMMETRY Interchangeable
INVARIANTS
  TypeOK
  MemoryMirrorsDisk
  StatsCountData
  ResultsAreTrue
