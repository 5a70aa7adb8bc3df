SPECIFICATION Spec
CONSTANTS
    MaxGen = 1
    MaxFaults = 0
PROPERTIES
    TransitionTimeKept
CHECK_DEADLOCK FALSE
