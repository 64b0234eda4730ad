SPECIFICATION Spec
CONSTANTS
  r1 = r1
  r2 = r2
  r3 = r3

  Record = {r1, r2, r3}
  HeapSize = 9
  Prefix = 1
  TailSize = 1
  SizeMax = 5
  BlockLimit = 1
  ByteLimit = 2
  InitCapacity = 2
  Hash <- MCHash
  Sizes = {0, 3, 4}
  MaxReleases = 2
SYMMETRY Symmetry
INVARIANTS
  TypeOK
  LookupExact
  StorageMatchesRecords
  Accounting
  QuarantineWindow
PROPERTIES
  DamageNeverForgotten
  ImplementsCheckedHeap
CHECK_DEADLOCK FALSE
