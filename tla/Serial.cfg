SPECIFICATION SerialSpec
CONSTANTS
  a = a b = b
  Backspace = Backspace Enter = Enter Space = Space Nothing = Nothing
  Letters <- TwoLetters
  gsCommandTable <- CommandTable
  BufferSize = 3
  MaxKeys = 5
INVARIANTS NeverMixed ShowsBuffer LostAcrossLocks
