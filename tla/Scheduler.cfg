CONSTANTS
    Services = {"s1", "s2"}
    Tasks = {"dump", "once"}
    Every = {"dump"}
    Delta = 1
    MaxTime = 2
SPECIFICATION Spec
PROPERTIES ThreadsEnd TasksCalled
CHECK_DEADLOCK FALSE
