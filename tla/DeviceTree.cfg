SPECIFICATION Spec
CONSTANT MaxLoads = 4
INVARIANTS RestoresTree BrokenHasCause RefsCoverHolders
PROPERTY ReaderFindsNode
CHECK_DEADLOCK FALSE
