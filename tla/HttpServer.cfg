SPECIFICATION Spec
CONSTANTS
    Workers = {w1, w2}
    Requests = {r1, r2, r3}
    maxDepth = 2
INVARIANT OrderlyStop
PROPERTIES StopReturns RequestsAnswered
CHECK_DEADLOCK FALSE
