SPECIFICATION Spec
CONSTANTS
  Line1 <- MCLine1
  Line2 <- MCLine2
  Cells <- MCCells
  Blank = 32
  NoProgram = NoProgram
INVARIANTS InStep TextShown
PROPERTY CallsAreAtomic
