SPECIFICATION Spec
CONSTANTS
  TotalHeapSize = 168
  Alignment = 8
  LinkSize = 8
  Requests <- Sizes
INVARIANTS OnceEach Apart
PROPERTY PromiseKept
