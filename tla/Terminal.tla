------------------------------ MODULE Terminal ------------------------------
(***************************************************************************)
(* The text terminal, src/kernel/source/terminal.c, at the granularity of  *)
(* loads and stores of CursorOffset.  The main flow prints, and so does    *)
(* HardwareInterruptHandler (cpu-int-handlers.c) when an interrupt comes   *)
(* for which there is no handler, between any two steps of the main flow.  *)
(*                                                                         *)
(* What a flow has still to do on the terminal is a sequence of            *)
(* instructions; PutString and the other callers of PutChar are the        *)
(* sequences Text, Erase and StepBack.  A scroll is one step: what a       *)
(* mixture of two texts looks like is no concern.                          *)
(***************************************************************************)
EXTENDS Integers, Sequences, SequencesExt

CONSTANTS
    Width, Height,      \* TERMINAL_WIDTH, TERMINAL_HEIGHT
    Word,               \* the values of CursorOffset, 2^32
    Message             \* the characters that the handler prints

LineSize == 2 * Width               \* TERMINAL_WIDTH_SIZE

TerminalSize == LineSize * Height   \* TERMINAL_SIZE

ASSUME TerminalAssumption ==
    /\ Width \in Nat \ {0} /\ Height \in Nat \ {0, 1}
    /\ Word \in Nat /\ Word > TerminalSize + LineSize
    /\ Message \in Seq(Range(Message))

Color == "color"    \* the byte beside each character

VARIABLES
    CursorOffset,
    TerminalBuffer,     \* the bytes of the screen: characters, colors and NUL
    flow,               \* <<main flow>>, or <<main flow, handler>>: [code, reg], the
                        \* instructions to come and the CursorOffset in the register
    beyond,             \* history: the places past the screen that were written,
    spurious,           \* how many interrupts had no handler,
    raced               \* and whether one came while the main flow was printing

terminal == <<CursorOffset, TerminalBuffer, flow, beyond, spurious, raced>>

-----------------------------------------------------------------------------
\* The instructions

Load == <<"load">>
Add(n) == <<"add", n>>
Line == <<"line">>
Write(byte) == <<"write", byte>>
Scroll == <<"scroll">>
Put(c) == <<"put", c>>
IfNotFirst(n) == <<"first", n>>     \* the next n instructions unless CursorOffset is 0

PutByte(byte) == <<Load, Add(1), Write(byte)>>

FixCursorPosition == <<Load, Add(-LineSize), Scroll>>

\* PutString, and PrintFormatted without arguments.
Text(text) == [k \in 1 .. Len(text) |-> Put(text[k])]

Back == <<Load, Add(-2)>>

\* The body of PutChar(c), which begins with a test in all but two cases.
PutVisible_NotFixed(c) == PutByte(c) \o PutByte(Color)

PutVisible(c) ==
    (IF CursorOffset >= TerminalSize THEN FixCursorPosition ELSE <<>>) \o PutByte(c) \o PutByte(Color)

Body(c) ==
    CASE c = "TAB" -> Text(<<" ", " ", " ", " ">>)
      [] c = "VT" -> Text(<<"LF", "LF", "LF", "LF">>)
      [] c = "CR" -> <<Load, Line>>
      [] c = "LF" -> IF CursorOffset + LineSize < TerminalSize THEN <<Load, Add(LineSize)>> ELSE <<Scroll>>
      [] c = "BS" -> IF CursorOffset >= 2 THEN Back ELSE <<>>
      [] OTHER    -> PutVisible(c)

\* InputStringKeyHandler('\b')
Erase_Once == <<IfNotFirst(3)>> \o Back \o <<Put(" ")>>

Erase ==
    LET blank == Back \o <<Put(" ")>> \o Back
    IN <<IfNotFirst(Len(blank))>> \o blank

\* CursorOffset -= 2 before a character takes the place of another, InputChar.
StepBack == <<IfNotFirst(Len(Back))>> \o Back

-----------------------------------------------------------------------------
\* Their execution

Top == flow[Len(flow)]

Running(instruction) == Top.code # <<>> /\ Top.code[1][1] = instruction

Operand == Top.code[1][2]

\* The instruction is done; others come before the rest.
Continue(more) == flow' = [flow EXCEPT ![Len(flow)].code = more \o Tail(@)]

Scrolled ==
    [o \in 0 .. TerminalSize - 1 |->
        IF o + LineSize < TerminalSize THEN TerminalBuffer[o + LineSize] ELSE "NUL"]

LoadCursor ==
    /\ Running("load")
    /\ flow' = [flow EXCEPT ![Len(flow)] = [code |-> Tail(@.code), reg |-> CursorOffset]]
    /\ UNCHANGED <<CursorOffset, TerminalBuffer, beyond, spurious, raced>>

AddToCursor ==
    /\ Running("add")
    /\ CursorOffset' = (Top.reg + Operand) % Word
    /\ Continue(<<>>)
    /\ UNCHANGED <<TerminalBuffer, beyond, spurious, raced>>

\* SetCursorPosition on the first column of the line; it refuses lines past the screen.
BeginLine ==
    /\ Running("line")
    /\ CursorOffset' = IF Top.reg < TerminalSize THEN LineSize * (Top.reg \div LineSize) ELSE CursorOffset
    /\ Continue(<<>>)
    /\ UNCHANGED <<TerminalBuffer, beyond, spurious, raced>>

WriteByte ==
    /\ Running("write")
    /\ IF Top.reg < TerminalSize
       THEN TerminalBuffer' = [TerminalBuffer EXCEPT ![Top.reg] = Operand] /\ UNCHANGED beyond
       ELSE beyond' = beyond \cup {Top.reg} /\ UNCHANGED TerminalBuffer
    /\ Continue(<<>>)
    /\ UNCHANGED <<CursorOffset, spurious, raced>>

ScrollUp ==
    /\ Running("scroll")
    /\ TerminalBuffer' = Scrolled
    /\ Continue(<<>>)
    /\ UNCHANGED <<CursorOffset, beyond, spurious, raced>>

PutChar ==
    /\ Running("put")
    /\ Continue(Body(Operand))
    /\ UNCHANGED <<CursorOffset, TerminalBuffer, beyond, spurious, raced>>

TestFirst ==
    /\ Running("first")
    /\ flow' = [flow EXCEPT ![Len(flow)].code =
                   IF CursorOffset = 0 THEN SubSeq(@, Operand + 2, Len(@)) ELSE Tail(@)]
    /\ UNCHANGED <<CursorOffset, TerminalBuffer, beyond, spurious, raced>>

\* No gate lets a second interrupt in.
HardwareInterruptHandler ==
    /\ Len(flow) = 1
    /\ flow' = Append(flow, [code |-> Text(Message), reg |-> 0])
    /\ spurious' = spurious + 1
    /\ raced' = (raced \/ Top.code # <<>>)
    /\ UNCHANGED <<CursorOffset, TerminalBuffer, beyond>>

HandlerReturns ==
    /\ Len(flow) = 2 /\ Top.code = <<>>
    /\ flow' = <<flow[1]>>
    /\ UNCHANGED <<CursorOffset, TerminalBuffer, beyond, spurious, raced>>

Execute ==
    \/ LoadCursor \/ AddToCursor \/ BeginLine \/ WriteByte \/ ScrollUp
    \/ PutChar \/ TestFirst \/ HandlerReturns

\* The main flow has nothing to print.
Quiet == Len(flow) = 1 /\ Top.code = <<>>

TerminalInit ==
    /\ TerminalBuffer = [o \in 0 .. TerminalSize - 1 |-> "NUL"]
    /\ flow = <<[code |-> <<>>, reg |-> 0]>>
    /\ beyond = {} /\ spurious = 0 /\ raced = FALSE

-----------------------------------------------------------------------------
\* Properties

\* Nothing is written past the screen, whatever is printed and erased where, and between
\* two characters the cursor is at a character and not at a color, from where erasing
\* would take it below zero; unless a handler has printed inside a character
\* (terminal.c:36-42, 67-69; cpu-int-handlers.c:177).
WritesStayOnScreen ==
    ~raced =>
        /\ beyond = {}
        /\ Quiet => CursorOffset % 2 = 0
=============================================================================
