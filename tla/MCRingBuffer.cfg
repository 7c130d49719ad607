SPECIFICATION Spec
CONSTANTS
  Size = 4
  Chars = {a, b}
  Nothing = Nothing
  Indexes = {0, 1, 2, 3, 4}
INVARIANT TypeOK
PROPERTY IsBoundedFifo
