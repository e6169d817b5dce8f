CONSTANTS
  Processes = {p1, p2}
  Words = {{0, 1, 2, 3, 5, 6, 7, 9, 10, 11, 12, 13, 15}, {}}
SPECIFICATION Spec
INVARIANTS SaidIsHeard AnswersAreOwn PrintedIffIntact
\* Every program ends or is left to sleep.
CHECK_DEADLOCK FALSE
