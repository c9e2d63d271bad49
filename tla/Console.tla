------------------------------ MODULE Console -------------------------------
(***************************************************************************)
(* The reading of characters and lines from the keyboard,                  *)
(* src/kernel/source/ps2-kbd.c, and their echo on the terminal, InputChar  *)
(* and InputString of terminal.c.  The keyboard and its user are the       *)
(* environment: keys are pressed, repeated while they are held, and        *)
(* released at any time, and their scan codes (set 1) wait in the buffer   *)
(* of the port, which drops its oldest byte when it is full.               *)
(***************************************************************************)
EXTENDS Terminal

CONSTANTS
    BufferLength,   \* PS2_DEV_BUFFER_LENGTH
    MaxLength,      \* maxLength of the callers, not 0
    Circumstances   \* what happens: a set of records of
                    \*   keys: the keys users press,
                    \*   maxEvents: bound, how often they press, hold or release one,
                    \*   maxSpurious: bound, how many interrupts have no handler,
                    \*   calls: the functions that read,
                    \*   maxCalls: bound, how often one is called,
                    \*   start: where the cursor is when reading begins

Shifts == {"left shift", "right shift"}     \* PS2_KBD_SCS1_LEFT_SHIFT, .._RIGHT_SHIFT

\* Keys whose scan codes PS2_KBD_SCS1_EXTENDED_SCAN_CODE precedes.
Extended == {"arrow", "delete"}

\* Keys for which PS2KbdReadChar goes on.
Ignored == {"ctrl"}

\* The scan codes with bit 4, among these keys.
Bit4 == {"letter", "right shift", "caps lock", "function", "enter", "delete", "ctrl"}

Kind == {"line", "silent", "char", "key"}

Key ==
    Shifts \cup Extended \cup Ignored \cup
        {"caps lock", "letter", "function", "enter", "backspace", "tab"}

ASSUME ConsoleAssumption ==
    /\ BufferLength \in Nat \ {0} /\ MaxLength \in Nat \ {0}
    /\ Circumstances \subseteq
           [keys : SUBSET Key, maxEvents : Nat, maxSpurious : Nat,
            calls : SUBSET Kind, maxCalls : Nat, start : {2 * n : n \in 0 .. Width * Height}]

VARIABLES
    \* the keyboard and its user
    circumstance,       \* one of Circumstances
    held,               \* the keys that are down, in the order they were pressed
    capsMeant,          \* caps lock as the user has switched it
    buffer,             \* the bytes of the port: [key, released, meant]
    \* ps2-kbd.c and terminal.c
    ShiftPressed, CapsLockActivated,
    pc,                 \* "idle", "read": the next byte, "extended": the one after a prefix
    call,               \* "line" with an echo, "silent" without, "char", "key"
    result, length,     \* PS2KbdReadString
    entered, character, \* InputChar
    \* history
    meant,              \* the line as it was typed
    confused,           \* a byte was lost, or a shift key did what a toggle cannot follow
    uneven,             \* in this call the cursor has moved other than by one character
    events, calls

keyboard == <<circumstance, held, capsMeant, buffer>>
reading == <<ShiftPressed, CapsLockActivated, pc, call, result, length, entered, character>>
vars == <<terminal, keyboard, reading, meant, confused, uneven, events, calls>>

-----------------------------------------------------------------------------
\* FirstScanCodeSet

Character(key, shift, caps) ==
    CASE key = "letter"    -> IF shift # caps THEN "A" ELSE "a"
      [] key = "enter"     -> "LF"
      [] key = "backspace" -> "BS"
      [] key = "tab"       -> "TAB"
      [] key = "arrow"     -> "4"
      [] key = "delete"    -> "."
      [] OTHER             -> "NUL"

Decoded(key) == Character(key, ShiftPressed, CapsLockActivated)

-----------------------------------------------------------------------------
\* The keyboard.  Printing does not look at its bytes, which arrive before or after it.

Prefix == [key |-> "prefix", released |-> TRUE, meant |-> "NUL"]

ScanCodes(key, released, c) ==
    (IF key \in Extended THEN <<Prefix>> ELSE <<>>)
        \o <<[key |-> key, released |-> released, meant |-> c]>>

\* The handler of the port appends bytes and keeps the newest.
Arrive(bytes) ==
    LET all == buffer \o bytes
    IN /\ buffer' = SubSeq(all, Max({1, Len(all) - BufferLength + 1}), Len(all))
       /\ events' = events + 1

Overflows(n) == Len(buffer) + n > BufferLength

HeldShifts(keys) == Range(keys) \cap Shifts

\* The user does something.
Acts == Quiet /\ events < circumstance.maxEvents

Press(key) ==
    LET caps == IF key = "caps lock" THEN ~capsMeant ELSE capsMeant
        bytes == ScanCodes(key, FALSE, Character(key, HeldShifts(held) # {}, capsMeant))
    IN /\ Acts /\ key \notin Range(held)
       /\ held' = Append(held, key)
       /\ capsMeant' = caps
       /\ Arrive(bytes)
       /\ confused' = (confused \/ Overflows(Len(bytes)) \/ Cardinality(HeldShifts(held')) = 2)
       /\ UNCHANGED <<terminal, circumstance, reading, meant, uneven, calls>>

\* The key that was pressed last repeats its scan code.
Repeat ==
    /\ Acts /\ held # <<>>
    /\ LET key == Last(held)
           bytes == ScanCodes(key, FALSE, Character(key, HeldShifts(held) # {}, capsMeant))
       IN /\ Arrive(bytes)
          /\ confused' = (confused \/ Overflows(Len(bytes)) \/ key \in Shifts \cup {"caps lock"})
    /\ UNCHANGED <<terminal, circumstance, held, capsMeant, reading, meant, uneven, calls>>

Release(key) ==
    LET bytes == ScanCodes(key, TRUE, "NUL")
    IN /\ Acts
       /\ \E k \in DOMAIN held : held[k] = key /\ held' = RemoveAt(held, k)
       /\ Arrive(bytes)
       /\ confused' = (confused \/ Overflows(Len(bytes)))
       /\ UNCHANGED <<terminal, circumstance, capsMeant, reading, meant, uneven, calls>>

-----------------------------------------------------------------------------
\* PS2KbdReadString, InputChar

Call(kind) ==
    /\ pc = "idle" /\ Quiet /\ calls < circumstance.maxCalls /\ kind \in circumstance.calls
    /\ pc' = "read" /\ call' = kind /\ calls' = calls + 1
    /\ length' = 0 /\ entered' = FALSE /\ meant' = <<>> /\ uneven' = FALSE
    /\ UNCHANGED <<terminal, keyboard, ShiftPressed, CapsLockActivated, result, character,
                   confused, events>>

Echo(code) == IF call = "silent" THEN UNCHANGED flow ELSE flow' = <<[flow[1] EXCEPT !.code = code]>>

\* The line as typed, with the character that the user meant.
Typed(c) ==
    CASE c = "BS" -> IF meant = <<>> THEN meant ELSE Front(meant)
      [] c = "LF" -> meant
      [] OTHER    -> IF Len(meant) < MaxLength THEN Append(meant, c) ELSE meant

HasRoom == length < MaxLength

Ends_NotEmpty(c) == c = "LF" /\ length > 0

Ends(c) == c = "LF"

LineGets(c) ==
    CASE Ends(c) ->
            /\ result' = [result EXCEPT ![length] = "NUL"]
            /\ pc' = "idle" /\ UNCHANGED length
            /\ Echo(Text(<<"CR", "LF">>))
      [] c = "BS" /\ length > 0 ->
            /\ result' = [result EXCEPT ![length] = " "]
            /\ length' = length - 1 /\ pc' = "read"
            /\ Echo(Erase)
      [] c \notin {"LF", "BS"} /\ HasRoom ->
            /\ result' = [result EXCEPT ![length] = c]
            /\ length' = length + 1 /\ pc' = "read"
            /\ Echo(<<Put(c)>>)
      [] OTHER ->
            pc' = "read" /\ UNCHANGED <<result, length, flow>>

\* A backspace that comes first is a character.
CharGets(c) ==
    CASE c = "LF" /\ entered ->
            pc' = "idle" /\ UNCHANGED <<entered, character>> /\ Echo(Text(<<"CR", "LF">>))
      [] c = "LF" /\ ~entered ->
            pc' = "read" /\ UNCHANGED <<entered, character, flow>>
      [] c = "BS" /\ entered ->
            pc' = "read" /\ entered' = FALSE /\ UNCHANGED character /\ Echo(Erase)
      [] OTHER ->
            /\ pc' = "read" /\ entered' = TRUE /\ character' = c
            /\ Echo((IF entered THEN StepBack ELSE <<>>) \o <<Put(c)>>)

Gets(c, m) ==
    /\ meant' = Typed(m)
    /\ uneven' = (uneven \/ c = "TAB" \/ (call = "char" /\ ~entered /\ c = "BS"))
    /\ IF call = "char" THEN CharGets(c) /\ UNCHANGED <<result, length>>
       ELSE LineGets(c) /\ UNCHANGED <<entered, character>>
    /\ UNCHANGED <<CursorOffset, TerminalBuffer, beyond, spurious, raced>>

NoCharacter(next) ==
    /\ pc' = next
    /\ UNCHANGED <<terminal, result, length, entered, character, meant, uneven>>

-----------------------------------------------------------------------------
\* PS2KbdReadKey and PS2KbdReadChar

Reads(b) ==
    /\ Quiet /\ buffer # <<>> /\ b = Head(buffer)
    /\ buffer' = Tail(buffer)
    /\ UNCHANGED <<circumstance, held, capsMeant, call, events, calls>>

Toggled_OnPress(b) == IF b.released THEN ShiftPressed ELSE ~ShiftPressed

Toggled(b) == ~ShiftPressed

ReadShift(b) ==
    /\ pc = "read" /\ call # "key" /\ Reads(b) /\ b.key \in Shifts
    /\ ShiftPressed' = Toggled(b)
    /\ NoCharacter("read")
    /\ UNCHANGED <<CapsLockActivated, confused>>

ReadCapsLock(b) ==
    /\ pc = "read" /\ call # "key" /\ Reads(b) /\ b.key = "caps lock" /\ ~b.released
    /\ CapsLockActivated' = ~CapsLockActivated
    /\ NoCharacter("read")
    /\ UNCHANGED <<ShiftPressed, confused>>

ReadPrefix(b) ==
    /\ pc = "read" /\ call # "key" /\ Reads(b) /\ b.key = "prefix"
    /\ NoCharacter("extended")
    /\ UNCHANGED <<ShiftPressed, CapsLockActivated, confused>>

\* What comes after the prefix counts as released if bit 7 or bit 4 is set.
ReadExtended(b) ==
    /\ pc = "extended" /\ Reads(b)
    /\ IF b.released \/ b.key \in Bit4 \cup Ignored THEN NoCharacter("read")
       ELSE Gets(Decoded(b.key), b.meant)
    /\ UNCHANGED <<ShiftPressed, CapsLockActivated, confused>>

ReadPlain(b) ==
    /\ pc = "read" /\ call # "key" /\ Reads(b)
    /\ b.key \notin Shifts \cup {"prefix"} /\ ~(b.key = "caps lock" /\ ~b.released)
    /\ IF b.released \/ b.key \in Ignored THEN NoCharacter("read")
       ELSE Gets(Decoded(b.key), b.meant)
    /\ UNCHANGED <<ShiftPressed, CapsLockActivated, confused>>

\* PS2KbdReadKey(TRUE) returns the next byte and follows neither shift nor caps lock.
ReadKey(b) ==
    /\ pc = "read" /\ call = "key" /\ Reads(b)
    /\ NoCharacter("idle")
    /\ confused' = (confused \/ b.key \in Shifts \cup {"caps lock", "prefix"})
    /\ UNCHANGED <<ShiftPressed, CapsLockActivated>>

-----------------------------------------------------------------------------

Init ==
    /\ TerminalInit
    /\ circumstance \in Circumstances /\ CursorOffset = circumstance.start
    /\ held = <<>> /\ capsMeant = FALSE /\ buffer = <<>>
    /\ ShiftPressed = FALSE /\ CapsLockActivated = FALSE
    /\ pc = "idle" /\ call = "line"
    /\ result = [k \in 0 .. MaxLength |-> "NUL"] /\ length = 0
    /\ entered = FALSE /\ character = "NUL"
    /\ meant = <<>> /\ confused = FALSE /\ uneven = FALSE /\ events = 0 /\ calls = 0

others == <<keyboard, reading, meant, confused, uneven, events, calls>>

Main ==
    \/ Execute /\ UNCHANGED others
    \/ \E b \in Range(buffer) :
          \/ ReadShift(b) \/ ReadCapsLock(b) \/ ReadPrefix(b)
          \/ ReadExtended(b) \/ ReadPlain(b) \/ ReadKey(b)

Next ==
    \/ Main
    \/ \E kind \in Kind : Call(kind)
    \/ spurious < circumstance.maxSpurious /\ HardwareInterruptHandler /\ UNCHANGED others
    \/ \E key \in circumstance.keys : Press(key) \/ Release(key)
    \/ Repeat

\* The processor executes the main flow and the handler; nobody has to press a key.
Spec == Init /\ [][Next]_vars /\ WF_vars(Main)

-----------------------------------------------------------------------------
\* Properties

\* The characters of the array before the terminator.
StringOf(array) ==
    LET end == Min({k \in DOMAIN array : array[k] = "NUL"})
    IN [k \in 1 .. end |-> array[k - 1]]

\* A line that is returned is what the user typed, with the case that the shift and caps
\* lock keys gave each letter when it was pressed, however late it was read and whatever was
\* erased; unless a byte was lost or a shift key was repeated or held with the other
\* (ps2-kbd.c:198-286).  It ends at a key without a character.
LineAsMeant ==
    [][pc # "idle" /\ pc' = "idle" /\ call \in {"line", "silent"} /\ ~confused
        => StringOf(result') = StringOf([k \in 0 .. Len(meant') |->
               IF k < Len(meant') THEN meant'[k + 1] ELSE "NUL"])]_vars

\* What has been read and not erased stands before the cursor, as far as it fits on the
\* screen, across the ends of lines and scrolls (terminal.c:142-188); unless a
\* tab, which takes four places, or a handler has moved the cursor.  A line never
\* outgrows the caller's array (ps2-kbd.c:265).
Shown ==
    IF call = "line" THEN [k \in 1 .. length |-> result[k - 1]]
    ELSE IF call = "char" /\ entered THEN <<character>> ELSE <<>>

EchoMatches ==
    /\ length \in 0 .. MaxLength /\ DOMAIN result = 0 .. MaxLength
    /\ Quiet /\ pc # "idle" /\ spurious = 0 /\ ~uneven =>
          \A k \in 1 .. Min({Len(Shown), CursorOffset \div 2}) :
              TerminalBuffer[CursorOffset - 2 * k] = Shown[Len(Shown) - k + 1]

\* A line ends when the user has pressed the enter key, however many keys and interrupts
\* come with it, unless the byte is lost.
LinesEnd ==
    (pc # "idle" /\ call \in {"line", "silent"} /\
        \E b \in Range(buffer) : b.key = "enter" /\ ~b.released)
        ~> (pc = "idle" \/ confused)
=============================================================================
