SPECIFICATION Spec
CONSTANTS
  c1 = c1
  c2 = c2
  Call = {c1, c2}
  Id = {1, 2}
  None = None
INVARIANTS TypeOK OwnAnswers WaitingForChild OnlyChildRuns RunsAsDecided
PROPERTIES CallsAreDecided ImplementsGate
CHECK_DEADLOCK FALSE
