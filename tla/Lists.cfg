SPECIFICATION Spec
CONSTANTS
  Items = {i1, i2, i3}
  Ready = {ready}
  Fifo = {pending}
  Sorted = {delayed}
  Reported = {ready, delayed}
  Null = Null
  MaxDelay = 2
INVARIANT WellFormed
PROPERTY PromiseKept
SYMMETRY ItemSymmetry
