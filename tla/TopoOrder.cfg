SPECIFICATION Spec
INVARIANTS OrderSound AnswerExact
PROPERTIES SearchesEnd
CONSTANTS
  N = 5
  MCMaxEdges = 4
  MCKernels = {1, 3}
  Programs0 <- MCPrograms
  LabelBits = 4
  MaxStamp = 6
CHECK_DEADLOCK FALSE
