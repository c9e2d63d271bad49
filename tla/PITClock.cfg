\* Halves of four values: the low half wraps within the ticks.  The line of the
\* last driver is one of the slave's; another device has no driver.
SPECIFICATION InterruptsSpec
CONSTANTS
    HalfMod = 4
    Durations = {1, 5}
    MaxTicks = 7
    Lines = {0, 3, 12}
    Order <- MCOrder
    FirstMasks <- MCFirstMasks
INVARIANTS
    InterruptsAreServed
PROPERTIES
    LoadsNeverLag
    EarlyOnlyAcrossAWrap
    SleepReturns
