\* Every layout, with devices that answer in time and one of which may refuse a byte
\* at every attempt, and with slow devices, keys and movements at any time.
SPECIFICATION Spec
CONSTANTS
    FIRST = first
    SECOND = second
    NPOS = npos
    Values <- MCValues
    Attempts = 3
    Layouts <- MCLayouts
    Circumstances <- MCCircumstances
INVARIANTS
    FailsOnlyWhenRefused
    StartedRight
PROPERTIES
    AnswersMatch
    StartEnds
    NoByteIsStuck
\* The start ends, or waits for a device.
CHECK_DEADLOCK FALSE
