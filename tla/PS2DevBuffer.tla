---------------------------- MODULE PS2DevBuffer ----------------------------
(***************************************************************************)
(* The buffer of one PS/2 port, src/kernel/source/ps2-dev.c:123-161 and    *)
(* 219-237.  The interrupt handler puts each byte the device sends at      *)
(* index 0 and moves the others up; PopFirstByte takes the oldest byte     *)
(* from the top, PopLastByte takes index 0 and moves the others down, and  *)
(* EmptyBuffer calls PopLastByte until nothing is left.                    *)
(*                                                                         *)
(* The handler runs with interrupts disabled, so it is one step.  The main *)
(* flow disables nothing: every load and store of the -O0 code that reads  *)
(* or writes the shared variables is a step of its own, and the handler    *)
(* may run between any two.  A byte is the number of its arrival.          *)
(***************************************************************************)
EXTENDS Integers

CONSTANTS
    BufferLength,   \* PS2_DEV_BUFFER_LENGTH
    MaxBytes        \* bound: the bytes the device sends

ASSUME BufferAssumption == BufferLength \in Nat \ {0} /\ MaxBytes \in Nat

Empty == 0          \* what a static buffer holds before anything is stored

Index == 0 .. BufferLength - 1

VARIABLES
    FirstPS2DevBuffer,          \* the bytes
    FirstPS2DevBufferLength,    \* how many of them count
    pc,                         \* the main flow's next load or store
    reg,                        \* the register that holds a length
    i,                          \* the index of PopLastByte's loop
    byte,                       \* the register that holds a byte
    received,                   \* how many bytes the device has sent
    taken,                      \* how often a pop has lowered the length
    quiet                       \* no interrupt has come during this pop

buffer == <<FirstPS2DevBuffer, FirstPS2DevBufferLength>>
history == <<received, quiet>>
vars == <<buffer, pc, reg, i, byte, taken, history>>

\* The bytes that count.
Buffered == {FirstPS2DevBuffer[k] : k \in 0 .. FirstPS2DevBufferLength - 1}

\* A load past the end of the array finds another variable: not a byte of the device.
Load(k) == IF k \in Index THEN FirstPS2DevBuffer[k] ELSE Empty

-----------------------------------------------------------------------------
\* PS2FirstHandler and PS2SecondHandler, without the call of the device's own handler

Pushed_NotMoved(data) == [FirstPS2DevBuffer EXCEPT ![0] = data]

\* The bytes that count move up, the oldest falling off a full buffer.
Pushed(data) ==
    LET count == IF FirstPS2DevBufferLength < BufferLength
                 THEN FirstPS2DevBufferLength ELSE BufferLength - 1
    IN [k \in Index |-> IF k = 0 THEN data
                        ELSE IF k <= count THEN FirstPS2DevBuffer[k - 1]
                        ELSE FirstPS2DevBuffer[k]]

Grown ==
    IF FirstPS2DevBufferLength < BufferLength
    THEN FirstPS2DevBufferLength + 1 ELSE FirstPS2DevBufferLength

PS2FirstHandler ==
    /\ received < MaxBytes
    /\ received' = received + 1
    /\ FirstPS2DevBuffer' = Pushed(received + 1)
    /\ FirstPS2DevBufferLength' = Grown
    /\ quiet' = FALSE
    /\ UNCHANGED <<pc, reg, i, byte, taken>>

-----------------------------------------------------------------------------
\* PS2DevBufferPopFirstByte

CallPopFirst ==
    /\ pc = "idle"
    /\ pc' = "wait" /\ quiet' = TRUE
    /\ UNCHANGED <<buffer, reg, i, byte, taken, received>>

\* while (!FirstPS2DevBufferLength) {}
Wait ==
    /\ pc = "wait" /\ FirstPS2DevBufferLength > 0
    /\ pc' = "load"
    /\ UNCHANGED <<buffer, reg, i, byte, taken, history>>

\* --FirstPS2DevBufferLength is a load and a store.
LoadLength ==
    /\ pc = "load"
    /\ reg' = FirstPS2DevBufferLength /\ pc' = "store"
    /\ UNCHANGED <<buffer, i, byte, taken, history>>

Lowered_Not(length) == length

Lowered(length) == length - 1

StoreLength ==
    /\ pc = "store"
    /\ FirstPS2DevBufferLength' = Lowered(reg) /\ taken' = taken + 1
    /\ pc' = "reload"
    /\ UNCHANGED <<FirstPS2DevBuffer, reg, i, byte, history>>

\* The index of the byte is loaded from the length again.
ReloadLength ==
    /\ pc = "reload"
    /\ reg' = FirstPS2DevBufferLength /\ pc' = "read"
    /\ UNCHANGED <<buffer, i, byte, taken, history>>

ReadByte_Newest ==
    /\ pc = "read"
    /\ byte' = Load(0) /\ pc' = "idle"
    /\ UNCHANGED <<buffer, reg, i, taken, history>>

ReadByte ==
    /\ pc = "read"
    /\ byte' = Load(reg) /\ pc' = "idle"
    /\ UNCHANGED <<buffer, reg, i, taken, history>>

PopFirst == Wait \/ LoadLength \/ StoreLength \/ ReloadLength \/ ReadByte

-----------------------------------------------------------------------------
\* PS2DevEmptyBuffer, and PS2DevBufferPopLastByte, which only it calls

Emptying == pc \in {"full", "lastWait", "lastRead", "lastLoad", "lastStore", "test", "shiftLoad", "shiftStore"}

CallEmpty ==
    /\ pc = "idle" /\ pc' = "full"
    /\ UNCHANGED <<buffer, reg, i, byte, taken, history>>

TestFull_Always ==
    /\ pc = "full"
    /\ pc' = "lastWait"
    /\ UNCHANGED <<buffer, reg, i, byte, taken, history>>

\* while (PS2DevBufferFull(devIndex)), which is the length
TestFull ==
    /\ pc = "full"
    /\ pc' = IF FirstPS2DevBufferLength > 0 THEN "lastWait" ELSE "idle"
    /\ UNCHANGED <<buffer, reg, i, byte, taken, history>>

LastWait ==
    /\ pc = "lastWait" /\ FirstPS2DevBufferLength > 0
    /\ pc' = "lastRead"
    /\ UNCHANGED <<buffer, reg, i, byte, taken, history>>

LastRead ==
    /\ pc = "lastRead"
    /\ byte' = FirstPS2DevBuffer[0] /\ pc' = "lastLoad"
    /\ UNCHANGED <<buffer, reg, i, taken, history>>

LastLoadLength ==
    /\ pc = "lastLoad"
    /\ reg' = FirstPS2DevBufferLength /\ pc' = "lastStore"
    /\ UNCHANGED <<buffer, i, byte, taken, history>>

LastStoreLength ==
    /\ pc = "lastStore"
    /\ FirstPS2DevBufferLength' = Lowered(reg) /\ taken' = taken + 1
    /\ i' = 0 /\ pc' = "test"
    /\ UNCHANGED <<FirstPS2DevBuffer, reg, byte, history>>

\* The loop loads the length each time round.
TestIndex ==
    /\ pc = "test"
    /\ pc' = IF i < FirstPS2DevBufferLength THEN "shiftLoad" ELSE "full"
    /\ UNCHANGED <<buffer, reg, i, byte, taken, history>>

ShiftLoad ==
    /\ pc = "shiftLoad"
    /\ byte' = Load(i + 1) /\ pc' = "shiftStore"
    /\ UNCHANGED <<buffer, reg, i, taken, history>>

ShiftStore ==
    /\ pc = "shiftStore"
    /\ FirstPS2DevBuffer' = [FirstPS2DevBuffer EXCEPT ![i] = byte]
    /\ i' = i + 1 /\ pc' = "test"
    /\ UNCHANGED <<FirstPS2DevBufferLength, reg, byte, taken, history>>

EmptyBuffer ==
    \/ TestFull \/ LastWait \/ LastRead \/ LastLoadLength \/ LastStoreLength
    \/ TestIndex \/ ShiftLoad \/ ShiftStore

-----------------------------------------------------------------------------

Init ==
    /\ FirstPS2DevBuffer = [k \in Index |-> Empty] /\ FirstPS2DevBufferLength = 0
    /\ pc = "idle" /\ reg = 0 /\ i = 0 /\ byte = Empty
    /\ received = 0 /\ taken = 0 /\ quiet = TRUE

Next == PS2FirstHandler \/ CallPopFirst \/ PopFirst \/ CallEmpty \/ EmptyBuffer

\* The processor keeps executing the main flow between interrupts.
Spec == Init /\ [][Next]_vars /\ WF_vars(PopFirst) /\ WF_vars(EmptyBuffer)

-----------------------------------------------------------------------------
\* Properties

\* An interrupt between the load and the store of the length may make it too small,
\* losing bytes, but never too large or negative: what has been taken is not counted again
\* (ps2-dev.c:132, 149, 225).
NoPhantomBytes ==
    /\ FirstPS2DevBufferLength \in 0 .. BufferLength
    /\ FirstPS2DevBufferLength <= received - taken

\* However the interrupts fall, the bytes that count are in the order in which they
\* came, each once, newest first, unless the buffer is being emptied (ps2-dev.c:219-225).
ArrivalOrder ==
    ~Emptying =>
        \A k, l \in 0 .. FirstPS2DevBufferLength - 1 :
            k < l => FirstPS2DevBuffer[k] > FirstPS2DevBuffer[l]

ReadByteStep == pc = "read" /\ pc' = "idle"

\* A pop that no interrupt disturbs returns a byte of the device that is older than
\* every byte that stays (ps2-dev.c:145-156).
QuietPopsAreFifo ==
    [][ReadByteStep /\ quiet => byte' # Empty /\ \A b \in Buffered : byte' < b]_vars

\* EmptyBuffer returns once the device pauses: an interrupted pop always makes the
\* buffer shorter in the end (ps2-dev.c:127-143, 159-161).
EmptyBufferReturns == Emptying ~> pc = "idle"

=============================================================================
