SPECIFICATION Spec
CONSTANTS
  Requests = {r1, r2}
  Ops <- AllOps
  MaxExports = 4
CHECK_DEADLOCK FALSE
INVARIANTS OneActivePerKind
