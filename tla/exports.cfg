SPECIFICATION Spec
CONSTANTS
  Requests = {r1, r2}
  Ops <- RaceOps
  MaxExports = 5
CHECK_DEADLOCK FALSE
INVARIANTS CyclesNeedCompose
PROPERTIES NeverLosesTheLast AloneRestoresOne EveryRequestEnds
