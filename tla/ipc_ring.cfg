SPECIFICATION Spec
CONSTANTS
  Cap = 3
  Width = 6
  Words = 2
  Requests = 10
  Window = 7
INVARIANTS
  AnswersInOrder
PROPERTIES
  RingsQueue
  AllAnswered
CHECK_DEADLOCK FALSE
