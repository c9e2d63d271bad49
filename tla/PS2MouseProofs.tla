---------------------------- MODULE PS2MouseProofs ----------------------------
(***************************************************************************)
(* What TLAPS proves of the buffer of a PS/2 port, for a buffer of any     *)
(* length, any number of bytes and interrupts between any two loads and    *)
(* stores of the main flow; and of the mouse driver that works beside it.  *)
(***************************************************************************)
EXTENDS PS2Mouse, TLAPS

-----------------------------------------------------------------------------
\* The invariant of the buffer

\* The first n bytes are bytes of the device, newest first.
Ordered(n) ==
    /\ \A k \in 0 .. n - 1 : FirstPS2DevBuffer[k] > Empty
    /\ \A k, l \in 0 .. n - 1 : k < l => FirstPS2DevBuffer[k] > FirstPS2DevBuffer[l]

Typed ==
    /\ FirstPS2DevBuffer \in [Index -> Nat]
    /\ FirstPS2DevBufferLength \in 0 .. BufferLength
    /\ reg \in Nat /\ i \in Nat /\ byte \in Nat
    /\ received \in Nat /\ taken \in Nat

\* Nothing is newer than the last byte that came.
Known ==
    /\ byte <= received
    /\ \A k \in Index : FirstPS2DevBuffer[k] <= received

\* A length that is going to be lowered is not zero, and what an interrupt has added since
\* it was loaded makes it too small, never too large.
Lengths ==
    /\ FirstPS2DevBufferLength + taken <= received
    /\ pc \in {"load", "lastRead", "lastLoad"} => FirstPS2DevBufferLength > 0
    /\ pc \in {"store", "lastStore"} => 0 < reg /\ reg <= FirstPS2DevBufferLength
    /\ pc \in {"shiftLoad", "shiftStore"} => i < FirstPS2DevBufferLength

\* In a pop without an interrupt the byte above those that count is the oldest one.
QuietPop ==
    quiet =>
        /\ pc = "store" => reg = FirstPS2DevBufferLength
        /\ pc = "read" => reg = FirstPS2DevBufferLength
        /\ pc \in {"reload", "read"} =>
              FirstPS2DevBufferLength < BufferLength /\ Ordered(FirstPS2DevBufferLength + 1)

InOrder == ~Emptying => Ordered(FirstPS2DevBufferLength)

BufferInv == Typed /\ Known /\ Lengths /\ QuietPop /\ InOrder

-----------------------------------------------------------------------------
\* The steps

LEMMA BufferInitially == Init => BufferInv
BY BufferAssumption
DEF Init, BufferInv, Typed, Known, Lengths, QuietPop, InOrder, Ordered, Index, Empty, Emptying

\* The bytes that count stay in order under the new one, the oldest falling off a full
\* buffer.
LEMMA HandlerKeeps == ASSUME BufferInv, PS2FirstHandler PROVE BufferInv'
<1> DEFINE new == FirstPS2DevBufferLength'
           pushed == FirstPS2DevBuffer'
<1>1. /\ BufferLength \in Nat \ {0} /\ FirstPS2DevBufferLength \in 0 .. BufferLength
      /\ received \in Nat /\ taken \in Nat /\ i \in Nat
      /\ received' = received + 1 /\ quiet' = FALSE
      /\ pc' = pc /\ reg' = reg /\ i' = i /\ byte' = byte /\ taken' = taken
  BY BufferAssumption DEF BufferInv, Typed, PS2FirstHandler
<1>2. /\ FirstPS2DevBuffer \in [Index -> Nat]
      /\ \A k \in Index : FirstPS2DevBuffer[k] <= received
  BY DEF BufferInv, Typed, Known
<1>3. /\ new \in Nat /\ 1 <= new /\ new <= BufferLength
      /\ FirstPS2DevBufferLength <= new /\ new <= FirstPS2DevBufferLength + 1
  BY <1>1 DEF PS2FirstHandler, Grown
<1>4. /\ pushed \in [Index -> Nat]
      /\ \A k \in Index : pushed[k] <= received + 1
      /\ \A k \in Index : k < new =>
            pushed[k] = IF k = 0 THEN received + 1 ELSE FirstPS2DevBuffer[k - 1]
  <2>1. \A k \in Index :
           pushed[k] = IF k = 0 THEN received + 1
                       ELSE IF k < Grown THEN FirstPS2DevBuffer[k - 1]
                       ELSE FirstPS2DevBuffer[k]
    BY <1>1, <1>2 DEF PS2FirstHandler, Pushed, Grown, Index
  <2>2. pushed = [k \in Index |-> pushed[k]]
    BY DEF PS2FirstHandler, Pushed
  <2>3. new = Grown
    BY DEF PS2FirstHandler
  <2> HIDE DEF pushed, new
  <2>4. \A k \in Index : k # 0 => k - 1 \in Index
    BY <1>1 DEF Index
  <2>5. \A k \in Index : pushed[k] \in Nat /\ pushed[k] <= received + 1
    BY <1>1, <1>2, <2>1, <2>4
  <2> QED
    BY <2>1, <2>2, <2>3, <2>5
<1>5. Typed'
  BY <1>1, <1>3, <1>4 DEF BufferInv, Typed
<1>6. Known'
  BY <1>1, <1>4 DEF BufferInv, Typed, Known
<1> HIDE DEF new, pushed
<1>7. Lengths'
  <2>1. new + taken <= received + 1 /\ new > 0 /\ \A n \in Nat : n < FirstPS2DevBufferLength => n < new
    BY <1>1, <1>3 DEF BufferInv, Lengths
  <2>2. /\ pc \in {"store", "lastStore"} => 0 < reg /\ reg <= new
        /\ pc \in {"shiftLoad", "shiftStore"} => i < new
    BY <1>1, <1>3 DEF BufferInv, Typed, Lengths
  <2> QED
    BY <1>1, <2>1, <2>2 DEF Lengths, new
<1>8. QuietPop'
  BY <1>1 DEF QuietPop
<1>9. InOrder'
  <2> SUFFICES ASSUME ~Emptying PROVE Ordered(FirstPS2DevBufferLength)'
    BY <1>1 DEF InOrder, Emptying
  <2>1. Ordered(FirstPS2DevBufferLength)
    BY DEF BufferInv, InOrder
  <2>2. \A k \in 0 .. new - 1 :
           \/ k = 0 /\ pushed[k] = received + 1
           \/ /\ k - 1 \in 0 .. FirstPS2DevBufferLength - 1 /\ k - 1 \in Index
              /\ pushed[k] = FirstPS2DevBuffer[k - 1]
              /\ pushed[k] <= received
    BY <1>1, <1>2, <1>3, <1>4 DEF Index
  <2>3. /\ \A k \in 0 .. new - 1 : pushed[k] > 0
        /\ \A k, l \in 0 .. new - 1 : k < l => pushed[k] > pushed[l]
    BY <1>1, <1>2, <1>3, <2>1, <2>2 DEF Ordered, Empty
  <2> QED
    BY <2>3 DEF Ordered, Empty, new, pushed
<1> QED
  BY <1>5, <1>6, <1>7, <1>8, <1>9 DEF BufferInv

LEMMA CallPopFirstKeeps == ASSUME BufferInv, CallPopFirst PROVE BufferInv'
BY DEF BufferInv, Typed, Known, Lengths, QuietPop, InOrder, Ordered, Emptying, CallPopFirst, buffer

LEMMA WaitKeeps == ASSUME BufferInv, Wait PROVE BufferInv'
BY DEF BufferInv, Typed, Known, Lengths, QuietPop, InOrder, Ordered, Emptying, Wait, buffer, history

LEMMA LoadLengthKeeps == ASSUME BufferInv, LoadLength PROVE BufferInv'
BY DEF BufferInv, Typed, Known, Lengths, QuietPop, InOrder, Ordered, Emptying, LoadLength, buffer, history

LEMMA StoreLengthKeeps == ASSUME BufferInv, StoreLength PROVE BufferInv'
<1>1. /\ pc = "store" /\ pc' = "reload" /\ BufferLength \in Nat
      /\ FirstPS2DevBufferLength' = reg - 1 /\ taken' = taken + 1
      /\ 0 < reg /\ reg <= FirstPS2DevBufferLength
      /\ UNCHANGED <<FirstPS2DevBuffer, reg, i, byte, received, quiet>>
  BY BufferAssumption DEF BufferInv, Lengths, StoreLength, Lowered, history
<1>2. Typed' /\ Known' /\ Lengths'
  BY <1>1 DEF BufferInv, Typed, Known, Lengths
<1>3. Ordered(FirstPS2DevBufferLength)
  BY <1>1 DEF BufferInv, InOrder, Emptying
<1>4. Ordered(FirstPS2DevBufferLength)'
  BY <1>1, <1>3 DEF Ordered, BufferInv, Typed
<1>5. QuietPop'
  <2> SUFFICES ASSUME quiet PROVE FirstPS2DevBufferLength' + 1 = FirstPS2DevBufferLength
    BY <1>1, <1>3 DEF QuietPop, Ordered, BufferInv, Typed
  <2> QED
    BY <1>1 DEF BufferInv, QuietPop, Typed
<1> QED
  BY <1>2, <1>4, <1>5 DEF BufferInv, InOrder

LEMMA ReloadLengthKeeps == ASSUME BufferInv, ReloadLength PROVE BufferInv'
BY DEF BufferInv, Typed, Known, Lengths, QuietPop, InOrder, Ordered, Emptying, ReloadLength, buffer, history

LEMMA LoadTyped == ASSUME BufferInv, NEW k PROVE Load(k) \in Nat /\ Load(k) <= received
BY DEF BufferInv, Typed, Known, Load, Empty

LEMMA ReadByteKeeps == ASSUME BufferInv, ReadByte PROVE BufferInv'
BY LoadTyped
DEF BufferInv, Typed, Known, Lengths, QuietPop, InOrder, Ordered, Emptying, ReadByte, buffer, history

LEMMA CallEmptyKeeps == ASSUME BufferInv, CallEmpty PROVE BufferInv'
BY DEF BufferInv, Typed, Known, Lengths, QuietPop, InOrder, Emptying, CallEmpty, buffer, history

\* The moves down leave the bytes in any order; the emptying ends when none of them counts.
LEMMA TestFullKeeps == ASSUME BufferInv, TestFull PROVE BufferInv'
BY DEF BufferInv, Typed, Known, Lengths, QuietPop, InOrder, Ordered, Emptying, TestFull, buffer, history

LEMMA LastWaitKeeps == ASSUME BufferInv, LastWait PROVE BufferInv'
BY DEF BufferInv, Typed, Known, Lengths, QuietPop, InOrder, Emptying, LastWait, buffer, history

LEMMA LastReadKeeps == ASSUME BufferInv, LastRead PROVE BufferInv'
<1>1. 0 \in Index
  BY BufferAssumption DEF Index
<1> QED
  BY <1>1 DEF BufferInv, Typed, Known, Lengths, QuietPop, InOrder, Emptying, LastRead, buffer, history

LEMMA LastLoadLengthKeeps == ASSUME BufferInv, LastLoadLength PROVE BufferInv'
BY DEF BufferInv, Typed, Known, Lengths, QuietPop, InOrder, Emptying, LastLoadLength, buffer, history

LEMMA LastStoreLengthKeeps == ASSUME BufferInv, LastStoreLength PROVE BufferInv'
<1>1. BufferLength \in Nat
  BY BufferAssumption
<1> QED
  BY <1>1
  DEF BufferInv, Typed, Known, Lengths, QuietPop, InOrder, Emptying, LastStoreLength, Lowered, history

LEMMA TestIndexKeeps == ASSUME BufferInv, TestIndex PROVE BufferInv'
BY DEF BufferInv, Typed, Known, Lengths, QuietPop, InOrder, Emptying, TestIndex, buffer, history

LEMMA ShiftLoadKeeps == ASSUME BufferInv, ShiftLoad PROVE BufferInv'
BY LoadTyped
DEF BufferInv, Typed, Known, Lengths, QuietPop, InOrder, Emptying, ShiftLoad, buffer, history

LEMMA ShiftStoreKeeps == ASSUME BufferInv, ShiftStore PROVE BufferInv'
<1>1. i \in Index
  BY BufferAssumption DEF BufferInv, Typed, Lengths, ShiftStore, Index
<1>2. /\ FirstPS2DevBuffer' \in [Index -> Nat]
      /\ \A k \in Index : FirstPS2DevBuffer'[k] <= received
  BY <1>1 DEF BufferInv, Typed, Known, ShiftStore
<1> QED
  BY <1>1, <1>2 DEF BufferInv, Typed, Known, Lengths, QuietPop, InOrder, Emptying, ShiftStore, history

LEMMA BufferStep == BufferInv /\ [Next]_vars => BufferInv'
<1> SUFFICES ASSUME BufferInv, [Next]_vars PROVE BufferInv'
  OBVIOUS
<1>1. CASE PS2FirstHandler
  BY <1>1, HandlerKeeps
<1>2. CASE CallPopFirst \/ PopFirst
  BY <1>2, CallPopFirstKeeps, WaitKeeps, LoadLengthKeeps, StoreLengthKeeps, ReloadLengthKeeps, ReadByteKeeps
  DEF PopFirst
<1>3. CASE CallEmpty \/ EmptyBuffer
  BY <1>3, CallEmptyKeeps, TestFullKeeps, LastWaitKeeps, LastReadKeeps, LastLoadLengthKeeps,
     LastStoreLengthKeeps, TestIndexKeeps, ShiftLoadKeeps, ShiftStoreKeeps
  DEF EmptyBuffer
<1>4. CASE UNCHANGED vars
  BY <1>4
  DEF BufferInv, Typed, Known, Lengths, QuietPop, InOrder, Ordered, Emptying, vars, buffer, history
<1> QED
  BY <1>1, <1>2, <1>3, <1>4 DEF Next

\* A pop that no interrupt disturbed finds the oldest byte above those that count.
LEMMA QuietPopStep ==
    BufferInv /\ [Next]_vars =>
        [ReadByteStep /\ quiet => byte' # Empty /\ \A b \in Buffered : byte' < b]_vars
<1> SUFFICES ASSUME BufferInv, Next, ReadByteStep, quiet
             PROVE  byte' # Empty /\ \A b \in Buffered : byte' < b
  OBVIOUS
<1>1. ReadByte
  BY DEF Next, ReadByteStep, PS2FirstHandler, CallPopFirst, PopFirst, Wait, LoadLength, StoreLength,
         ReloadLength, CallEmpty, EmptyBuffer, TestFull, LastWait, LastRead, LastLoadLength,
         LastStoreLength, TestIndex, ShiftLoad, ShiftStore
<1>2. /\ reg = FirstPS2DevBufferLength /\ FirstPS2DevBufferLength \in Nat
      /\ FirstPS2DevBufferLength < BufferLength /\ Ordered(FirstPS2DevBufferLength + 1)
  BY BufferAssumption DEF ReadByteStep, BufferInv, QuietPop, Typed
<1>3. byte' = FirstPS2DevBuffer[FirstPS2DevBufferLength]
  BY <1>1, <1>2, BufferAssumption DEF ReadByte, Load, Index
<1> QED
  BY <1>2, <1>3 DEF Ordered, Buffered, Empty

-----------------------------------------------------------------------------
\* The buffer

\* However the loads and stores of a pop and the interrupts mix, the length never counts
\* a byte that did not come or that has been taken (ps2-dev.c:132, 149, 225).
THEOREM PhantomBytes == Spec => []NoPhantomBytes
<1>1. BufferInv => NoPhantomBytes
  BY BufferAssumption DEF BufferInv, Typed, Lengths, NoPhantomBytes
<1> QED
  BY <1>1, BufferInitially, BufferStep, PTL DEF Spec

\* The bytes that count stay in the order of their arrival (ps2-dev.c:219-225).
THEOREM Arrival == Spec => []ArrivalOrder
<1>1. BufferInv => ArrivalOrder
  BY DEF BufferInv, InOrder, Ordered, ArrivalOrder
<1> QED
  BY <1>1, BufferInitially, BufferStep, PTL DEF Spec

\* A pop that no interrupt disturbs returns the oldest byte (ps2-dev.c:145-156).
THEOREM QuietPops == Spec => QuietPopsAreFifo
BY BufferInitially, BufferStep, QuietPopStep, PTL DEF Spec, QuietPopsAreFifo

-----------------------------------------------------------------------------
\* The mouse driver beside the buffer

LEMMA MouseStepsBuffer == [MouseNext]_<<vars, mouse>> => [Next]_vars
<1> SUFFICES ASSUME MouseNext PROVE Next \/ UNCHANGED vars
  OBVIOUS
<1>1. CASE PortHandler
  BY <1>1 DEF PortHandler, Next
<1>2. CASE InstallPS2Mouse
  BY <1>2 DEF InstallPS2Mouse
<1> QED
  BY <1>1, <1>2 DEF MouseNext, Next

LEMMA MouseInitially == MouseInit => Init
BY DEF MouseInit

\* What the driver adds to the interrupt handler touches nothing that the pops use: the
\* promises of the buffer stand with a mouse on it (ps2-dev.c:219-237, ps2-mouse.c:58-63).
THEOREM BufferUnderMouse ==
    MouseSpec => []NoPhantomBytes /\ []ArrivalOrder /\ QuietPopsAreFifo
<1>1. BufferInv => NoPhantomBytes
  BY BufferAssumption DEF BufferInv, Typed, Lengths, NoPhantomBytes
<1>2. BufferInv => ArrivalOrder
  BY DEF BufferInv, InOrder, Ordered, ArrivalOrder
<1> QED
  BY <1>1, <1>2, MouseInitially, MouseStepsBuffer, BufferInitially, BufferStep, QuietPopStep, PTL
  DEF MouseSpec, QuietPopsAreFifo

\* Once it is in step with the mouse the driver stays so: it waits for the byte that the
\* mouse sends next, and has kept the sign of the movement that it is in.
MouseInv ==
    /\ ~installed => ~inStep /\ MouseX = 0 /\ shouldX = 0 /\ MouseCycle = 0
    /\ packet \in [x : DeltasX, y : DeltasY]
    /\ inStep =>
          /\ installed /\ MouseCycle = Phase
          /\ Phase = 1 => SignBit(MouseState, 16) = Sign(packet.x)
          /\ MouseX = shouldX /\ MouseX \in 0 .. PS2_MOUSE_MAX_X - 1

LEMMA Thirds == ASSUME NEW n \in Nat
                PROVE  /\ n % 3 \in 0 .. 2
                       /\ (n + 1) % 3 = IF n % 3 = 2 THEN 0 ELSE (n % 3) + 1
BY SMT

LEMMA SmallMod == ASSUME NEW m \in Nat, NEW n \in Nat, n < m PROVE n % m = n
BY SMT

\* The first byte of a packet holds the sign of x in bit 4.
LEMMA SignKept == ASSUME NEW a \in {0, 1}, NEW b \in {0, 1}
                  PROVE  SignBit(8 + 16 * a + 32 * b, 16) = a
BY DEF SignBit

\* The eight bits of a movement and its sign give the movement back.
LEMMA MovementKept == ASSUME NEW x \in -128 .. 127, SignBit(MouseState, 16) = Sign(x)
                      PROVE  Rel(x % 256, 16) = x
<1>1. CASE x < 0
  BY <1>1, x % 256 = x + 256, (x + 128) % 256 = x + 128 DEF Rel, INT8, Sign
<1>2. CASE x >= 0
  BY <1>2, x % 256 = x, (x + 128) % 256 = x + 128 DEF Rel, INT8, Sign
<1> QED
  BY <1>1, <1>2

\* Whatever the nine bits are, a movement of eight comes of them.
LEMMA RelIsShort == ASSUME NEW data \in Int, NEW bit, SignBit(MouseState, bit) \in Int
                    PROVE  Rel(data, bit) \in -128 .. 127
<1> DEFINE value == data - 256 * SignBit(MouseState, bit)
<1>1. value \in Int
  OBVIOUS
<1> HIDE DEF value
<1>2. INT8(value) \in -128 .. 127
  BY <1>1 DEF INT8
<1> QED
  BY <1>2 DEF Rel, value

\* The handler moves the pointer by what keeps it on the screen.
LEMMA MoveIsMoved == ASSUME NEW place \in 0 .. PS2_MOUSE_MAX_X - 1, NEW rel \in -128 .. 127
                     PROVE  LET moved == IF MayMove(place, rel, PS2_MOUSE_MAX_X)
                                         THEN (place + rel) % WordMod ELSE place
                            IN /\ moved = Moved(place, rel)
                               /\ moved \in 0 .. PS2_MOUSE_MAX_X - 1
<1> DEFINE sum == place + rel
<1>1. PS2_MOUSE_MAX_X \in Nat /\ WordMod \in Nat /\ PS2_MOUSE_MAX_X <= WordMod
  BY ScreenAssumption
<1>2. CASE MayMove(place, rel, PS2_MOUSE_MAX_X)
  <2>1. sum \in Nat /\ sum < PS2_MOUSE_MAX_X /\ sum < WordMod
    BY <1>1, <1>2 DEF MayMove
  <2>2. sum % WordMod = sum
    BY <1>1, <2>1, SmallMod
  <2> QED
    BY <1>1, <1>2, <2>1, <2>2 DEF Moved
<1>3. CASE ~MayMove(place, rel, PS2_MOUSE_MAX_X)
  <2>1. rel = 0 \/ sum \notin 0 .. PS2_MOUSE_MAX_X - 1
    BY <1>1, <1>3 DEF MayMove
  <2> QED
    BY <1>1, <1>3, <2>1 DEF Moved
<1> QED
  BY <1>2, <1>3

LEMMA MouseInvInitially == MouseInit => MouseInv
BY ScreenAssumption DEF MouseInit, MouseInv

LEMMA PortKeepsStep == ASSUME BufferInv, MouseInv, PortHandler PROVE MouseInv'
<1>1. PICK x \in DeltasX, y \in DeltasY :
        LET p == [x |-> x, y |-> y]
        IN /\ Phase # 0 => p = packet
           /\ PS2FirstHandler
           /\ PS2MouseHandler(ByteOf(p))
           /\ packet' = p
           /\ shouldX' = IF installed /\ Phase = 1 THEN Due(x) ELSE shouldX
           /\ UNCHANGED <<installed, inStep>>
  BY DEF PortHandler
<1> DEFINE p == [x |-> x, y |-> y]
<1>2. /\ x \in -256 .. 255 /\ p \in [x : DeltasX, y : DeltasY]
      /\ p.x = x /\ p.y = y /\ packet' = p
      /\ installed' = installed /\ inStep' = inStep
      /\ Phase # 0 => p = packet
  BY <1>1, DeltasAssumption
<1>3. /\ Phase \in 0 .. 2
      /\ Phase' = IF Phase = 2 THEN 0 ELSE Phase + 1
  BY <1>1, Thirds DEF BufferInv, Typed, PS2FirstHandler, Phase
<1>4. ~installed => MouseX' = MouseX /\ shouldX' = shouldX /\ MouseCycle' = MouseCycle
  BY <1>1 DEF PS2MouseHandler
<1>5. ASSUME inStep
      PROVE  /\ MouseCycle' = Phase'
             /\ Phase' = 1 => SignBit(MouseState', 16) = Sign(x)
             /\ MouseX' = shouldX' /\ MouseX' \in 0 .. PS2_MOUSE_MAX_X - 1
  <2>1. /\ installed /\ MouseCycle = Phase /\ MouseX = shouldX
        /\ MouseX \in 0 .. PS2_MOUSE_MAX_X - 1
        /\ Phase = 1 => SignBit(MouseState, 16) = Sign(packet.x)
        /\ Move(ByteOf(p))
    BY <1>1, <1>5 DEF MouseInv, PS2MouseHandler
  <2>2. CASE Phase = 0
    <3>1. MouseState' = 8 + 16 * Sign(x) + 32 * Sign(y) /\ MouseCycle' = 1 /\ MouseX' = MouseX
      BY <2>1, <2>2, <1>2 DEF Move, ByteOf
    <3>2. SignBit(MouseState', 16) = Sign(x)
      BY <3>1, SignKept DEF Sign
    <3> QED
      BY <1>1, <1>3, <2>1, <2>2, <3>1, <3>2
  <2>3. CASE Phase = 1
    <3>1. SignBit(MouseState, 16) = Sign(x)
      BY <1>2, <2>1, <2>3
    <3> DEFINE rel == Rel(x % 256, 16)
    <3>2. rel \in -128 .. 127
      BY <1>2, <3>1, RelIsShort DEF Sign
    <3>3. /\ MouseX' = IF MayMove(MouseX, rel, PS2_MOUSE_MAX_X) THEN (MouseX + rel) % WordMod ELSE MouseX
          /\ MouseCycle' = 2
      BY <1>2, <2>1, <2>3 DEF Move, ByteOf
    <3> HIDE DEF rel
    <3>4. MouseX' = Moved(MouseX, rel) /\ MouseX' \in 0 .. PS2_MOUSE_MAX_X - 1
      BY <2>1, <3>2, <3>3, MoveIsMoved
    <3>5. x \in -128 .. 127 => rel = x
      BY <3>1, MovementKept DEF rel
    <3>6. shouldX' = MouseX'
      BY <1>1, <2>1, <2>3, <3>4, <3>5 DEF Due
    <3> QED
      BY <1>1, <1>3, <2>1, <2>3, <3>3, <3>4, <3>6
  <2>4. CASE Phase = 2
    BY <1>1, <1>3, <2>1, <2>4 DEF Move
  <2> QED
    BY <1>3, <2>2, <2>3, <2>4
<1> QED
  BY <1>2, <1>4, <1>5 DEF MouseInv

LEMMA InstallKeepsStep == ASSUME BufferInv, MouseInv, InstallPS2Mouse PROVE MouseInv'
<1>1. /\ ~installed /\ installed' /\ (inStep' <=> Phase = 0)
      /\ UNCHANGED <<MouseX, MouseCycle, MouseState, packet, shouldX, received>>
  BY DEF InstallPS2Mouse, vars, history
<1>2. Phase' = Phase
  BY <1>1 DEF Phase
<1> QED
  BY <1>1, <1>2, ScreenAssumption DEF MouseInv

LEMMA MouseStep ==
    BufferInv /\ MouseInv /\ [MouseNext]_<<vars, mouse>> => MouseInv'
<1> SUFFICES ASSUME BufferInv, MouseInv, [MouseNext]_<<vars, mouse>> PROVE MouseInv'
  OBVIOUS
<1>1. CASE PortHandler
  BY <1>1, PortKeepsStep
<1>2. CASE InstallPS2Mouse
  BY <1>2, InstallKeepsStep
<1>3. CASE (CallPopFirst \/ PopFirst \/ CallEmpty \/ EmptyBuffer) /\ UNCHANGED mouse
  <2>1. UNCHANGED <<received, mouse>>
    BY <1>3
    DEF MouseNext, CallPopFirst, PopFirst, Wait, LoadLength, StoreLength, ReloadLength, ReadByte,
        CallEmpty, EmptyBuffer, TestFull, LastWait, LastRead, LastLoadLength, LastStoreLength,
        TestIndex, ShiftLoad, ShiftStore, history
  <2> QED
    BY <2>1 DEF MouseInv, mouse, Phase
<1>4. CASE UNCHANGED <<vars, mouse>>
  BY <1>4 DEF MouseInv, mouse, vars, history, Phase
<1> QED
  BY <1>1, <1>2, <1>3, <1>4 DEF MouseNext

\* Whatever a packet can hold, a driver that was installed between two packets never falls out
\* of step with the mouse nor leaves the screen, though movements of nine bits are cut, and it
\* follows those of eight, whatever becomes of the bytes in the buffer (ps2-mouse.c:71-79).
THEOREM MouseFollowsAlways == MouseSpec => []MouseFollows
<1>1. MouseInv => MouseFollows
  BY DEF MouseInv, MouseFollows
<1> QED
  BY <1>1, MouseInvInitially, MouseStep, MouseInitially, MouseStepsBuffer, BufferInitially,
     BufferStep, PTL
  DEF MouseSpec

=============================================================================
