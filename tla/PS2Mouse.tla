------------------------------ MODULE PS2Mouse ------------------------------
(***************************************************************************)
(* The mouse driver, src/kernel/source/ps2-mouse.c, on the buffer of its   *)
(* port: the interrupt handler of the port buffers the byte, as in         *)
(* PS2DevBuffer, and then calls PS2MouseHandler, which puts the packets    *)
(* together.  The driver may be installed while the mouse already sends,   *)
(* and nobody has to take the bytes from the buffer.                       *)
(***************************************************************************)
EXTENDS PS2DevBuffer

CONSTANTS
    PS2_MOUSE_MAX_X, PS2_MOUSE_MAX_Y,
    WordMod,        \* 2^32, the modulus of SIZE_T
    DeltasX, DeltasY    \* the movements that the mouse reports

\* What a packet can hold: eight bits and a sign.
ASSUME DeltasAssumption == DeltasX \cup DeltasY \subseteq -256 .. 255

\* The screen is larger than any movement of the pointer, so that max - rel does not wrap.
ASSUME ScreenAssumption ==
    /\ WordMod \in Nat
    /\ PS2_MOUSE_MAX_X \in 127 .. WordMod /\ PS2_MOUSE_MAX_Y \in 127 .. WordMod

VARIABLES
    installed,      \* MouseIndex # NPOS, and the port calls PS2MouseHandler
    MouseCycle, MouseState, MouseX, MouseY,
    packet,         \* the mouse: the movement that it is sending
    inStep,         \* history: the driver was installed between two packets
    shouldX         \* history: where the packets should have moved the pointer

mouse == <<installed, MouseCycle, MouseState, MouseX, MouseY, packet, inStep, shouldX>>

-----------------------------------------------------------------------------
\* The mouse

\* Which byte of a packet comes next.
Phase == received % 3

Sign(delta) == IF delta < 0 THEN 1 ELSE 0

ByteOf(p) ==
    CASE Phase = 0 -> 8 + 16 * Sign(p.x) + 32 * Sign(p.y)
      [] Phase = 1 -> p.x % 256
      [] Phase = 2 -> p.y % 256

-----------------------------------------------------------------------------
\* InstallPS2Mouse, when the devices have been started and one is a mouse

InstallPS2Mouse ==
    /\ pc = "idle" /\ ~installed
    /\ installed' = TRUE
    /\ inStep' = (Phase = 0)
    /\ UNCHANGED <<vars, MouseCycle, MouseState, MouseX, MouseY, packet, shouldX>>

-----------------------------------------------------------------------------
\* PS2MouseHandler

INT8(value) == ((value + 128) % 256) - 128

\* Bits 4 and 5 of the first byte are the ninth bits of the two movements.  The others,
\* the buttons and the overflows, are not looked at.
SignBit(state, bit) == (state \div bit) % 2

\* The cast cuts the nine bits to eight.
Rel(data, bit) == INT8(data - 256 * SignBit(MouseState, bit))

MayMove_OverTheEdge(place, rel, max) == rel # 0

\* A movement past the edge is not made at all.  Both coordinates are tested for an
\* addition, though MouseY is lowered.
MayMove(place, rel, max) == (rel < 0 /\ place >= -rel) \/ (rel > 0 /\ place < max - rel)

Move(data) ==
    CASE MouseCycle = 0 ->
            /\ MouseState' = data /\ MouseCycle' = 1
            /\ UNCHANGED <<MouseX, MouseY>>
      [] MouseCycle = 1 ->
            /\ MouseX' = IF MayMove(MouseX, Rel(data, 16), PS2_MOUSE_MAX_X)
                         THEN (MouseX + Rel(data, 16)) % WordMod ELSE MouseX
            /\ MouseCycle' = 2
            /\ UNCHANGED <<MouseState, MouseY>>
      [] MouseCycle = 2 ->
            /\ MouseY' = IF MayMove(MouseY, Rel(data, 32), PS2_MOUSE_MAX_Y)
                         THEN (MouseY - Rel(data, 32)) % WordMod ELSE MouseY
            /\ MouseCycle' = 0
            /\ UNCHANGED <<MouseState, MouseX>>

PS2MouseHandler(data) ==
    IF installed THEN Move(data) ELSE UNCHANGED <<MouseCycle, MouseState, MouseX, MouseY>>

\* The movement, when it keeps the pointer on the screen.
Moved(place, delta) ==
    IF place + delta \in 0 .. PS2_MOUSE_MAX_X - 1 THEN place + delta ELSE place

\* A movement of nine bits is cut to eight, which may turn it round; nothing says where it
\* should take the pointer, and what is due afterwards starts from where it has taken it.
Due(x) == IF x \in -128 .. 127 THEN Moved(shouldX, x) ELSE MouseX'

\* An interrupt of the port.
PortHandler ==
    \E x \in DeltasX, y \in DeltasY :
        LET p == [x |-> x, y |-> y]
        IN /\ Phase # 0 => p = packet
           /\ PS2FirstHandler
           /\ PS2MouseHandler(ByteOf(p))
           /\ packet' = p
           /\ shouldX' = IF installed /\ Phase = 1 THEN Due(x) ELSE shouldX
           /\ UNCHANGED <<installed, inStep>>

-----------------------------------------------------------------------------

MouseInit ==
    /\ Init
    /\ installed = FALSE
    /\ MouseCycle = 0 /\ MouseState = 0 /\ MouseX = 0 /\ MouseY = 0
    /\ packet \in [x : DeltasX, y : DeltasY]
    /\ inStep = FALSE /\ shouldX = 0

MouseNext ==
    \/ PortHandler \/ InstallPS2Mouse
    \/ (CallPopFirst \/ PopFirst \/ CallEmpty \/ EmptyBuffer) /\ UNCHANGED mouse

MouseSpec ==
    MouseInit /\ [][MouseNext]_<<vars, mouse>> /\ WF_vars(PopFirst) /\ WF_vars(EmptyBuffer)

-----------------------------------------------------------------------------
\* Properties

\* A driver that was installed between two packets never leaves the screen, and follows
\* every movement of up to eight bits, before and after longer ones that were cut, whatever
\* becomes of the bytes in the buffer: of one that overflows because nobody takes them, and
\* of one that is emptied or popped in the middle of a packet (ps2-mouse.c:71-79,
\* ps2-dev.c:219-237).
MouseFollows ==
    inStep => MouseX = shouldX /\ MouseX \in 0 .. PS2_MOUSE_MAX_X - 1

=============================================================================
