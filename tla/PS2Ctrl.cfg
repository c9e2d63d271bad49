\* Firmware whole, damaged and outdated in every part, and controllers of every kind;
\* three polls for both registers.
SPECIFICATION Spec
CONSTANTS
    High = {"high"}
    Polls = 3
    MaxEntries = 4
    Computers <- MCComputers
INVARIANTS
    PowerOffIsRight
    EnabledMeansOn
    StartedAsItIs
PROPERTIES
    StartEnds
\* The kernel goes on when the controller is started.
CHECK_DEADLOCK FALSE
