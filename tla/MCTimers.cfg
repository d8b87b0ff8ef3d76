\* Trees of up to seven timers; 3 bits of the keys are compared, 4 apart is too far.
CONSTANTS
    n1 = n1
    n2 = n2
    n3 = n3
    n4 = n4
    n5 = n5
    n6 = n6
    n7 = n7
    Sentinel = Sentinel
    Null = Null
    Nodes = {n1, n2, n3, n4, n5, n6, n7}
    Half = 4
    Delays = {0, 1, 3}
    MaxClock = 1
SPECIFICATION TimersSpec
VIEW MCView
INVARIANTS
    TreeBalanced
    EarliestFirst
PROPERTIES
    ImplementsTimerSet
