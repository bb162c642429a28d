SPECIFICATION Spec
CONSTANTS
    Backends <- MCBackends
INVARIANTS
    BelievesRight
CHECK_DEADLOCK FALSE
