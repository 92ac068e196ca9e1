\* The destructor touches a worker that has just deleted itself.
CONSTANTS
    MaxPairs = 2
    MaxStrays = 0
SPECIFICATION Spec
INVARIANTS
    TouchedWorkerExists
CHECK_DEADLOCK FALSE
