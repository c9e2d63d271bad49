\* A buffer of three bytes that overflows, six bytes from the device: two packets.
SPECIFICATION MouseSpec
CONSTANTS
    BufferLength = 3
    MaxBytes = 6
    PS2_MOUSE_MAX_X = 128
    PS2_MOUSE_MAX_Y = 128
    WordMod = 1024
    DeltasX <- MCDeltasX
    DeltasY <- MCDeltasY
INVARIANTS
    NoPhantomBytes
    ArrivalOrder
    MouseFollows
PROPERTIES
    QuietPopsAreFifo
    EmptyBufferReturns
\* PopFirstByte waits for ever for a device that sends nothing more.
CHECK_DEADLOCK FALSE
