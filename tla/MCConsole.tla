------------------------------ MODULE MCConsole ------------------------------
(* Users of the run, and a message that can end where the screen ends. *)
EXTENDS Console, Conversions

\* The conversions, for words of nine bits.
ASSUME ConversionsAreRight ==
    StringsMeanTheirValues(512) /\ DecimalsAreReadBack(512) /\ AlignsUp(512)

MCMessage == <<"!", "CR", "LF">>

\* Typing with the shift keys; all other keys; and interrupts that print, between the
\* characters of a line at the end of the screen and between those of a single character.
MCCircumstances ==
    {[keys |-> Shifts \cup {"letter", "enter", "backspace"}, maxEvents |-> 5, maxSpurious |-> 0,
      calls |-> {"silent", "key"}, maxCalls |-> 2, start |-> 0],
     [keys |-> Key \ Shifts, maxEvents |-> 4, maxSpurious |-> 0,
      calls |-> {"line"}, maxCalls |-> 1, start |-> 6],
     [keys |-> {"letter", "enter", "backspace"}, maxEvents |-> 5, maxSpurious |-> 0,
      calls |-> {"line"}, maxCalls |-> 2, start |-> 8],
     [keys |-> {"letter", "enter", "backspace", "tab"}, maxEvents |-> 3, maxSpurious |-> 1,
      calls |-> {"line", "char"}, maxCalls |-> 1, start |-> 8]}
==============================================================================
