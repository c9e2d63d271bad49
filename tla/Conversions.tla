----------------------------- MODULE Conversions -----------------------------
(***************************************************************************)
(* The numbers that PrintFormatted prints and the parsers beside it:       *)
(* src/kernel/source/int-utils.c and string-utils.c, and the alignment of  *)
(* math-utils.c.  A string is the sequence of its characters without the   *)
(* terminator; a digit is its value, and Minus the sign.  word is 2^32,    *)
(* the modulus of SIZE_T.                                                  *)
(***************************************************************************)
EXTENDS Integers, Sequences, SequencesExt

Radixes == 2 .. 16

Minus == -1

-----------------------------------------------------------------------------
\* int-utils.c

UintToString(value, radix) ==
    LET String[v \in 0 .. value] ==
            IF v < radix THEN <<v>> ELSE Append(String[v \div radix], v % radix)
    IN String[value]

\* The lowest value, which has no positive counterpart, is left out: its remainders are
\* negative indices of Digits.
IntToString(value, radix) ==
    IF value < 0 THEN <<Minus>> \o UintToString(-value, radix) ELSE UintToString(value, radix)

-----------------------------------------------------------------------------
\* string-utils.c

\* The radix is not used, and a digit is always worth ten times the next.  The buffer holds
\* zero before the call; what the loop has multiplied too often is divided out at the end.
StringToUint(digits, word) ==
    (FoldLeft(LAMBDA sum, digit : ((sum + digit) * 10) % word, 0, digits) \div 2) \div 5

StringToInt(str, word) ==
    IF Head(str) = Minus THEN -StringToUint(Tail(str), word) ELSE StringToUint(str, word)

-----------------------------------------------------------------------------
\* math-utils.c

UintAlignUp(value, alignment) ==
    IF value % alignment # 0 THEN value + (alignment - (value % alignment)) ELSE value

-----------------------------------------------------------------------------
\* What the conversions compute

ValueOf(digits, radix) == FoldLeft(LAMBDA sum, digit : sum * radix + digit, 0, digits)

\* The digits of a number are digits of the radix, mean the number, and do not begin with a
\* zero that is not the only one (int-utils.c:5-44).
StringsMeanTheirValues(word) ==
    \A value \in 0 .. word - 1 : \A radix \in Radixes :
        LET digits == UintToString(value, radix)
        IN /\ Range(digits) \subseteq 0 .. radix - 1
           /\ ValueOf(digits, radix) = value
           /\ Len(digits) > 1 => digits[1] # 0

\* What is printed in decimal is read back, as long as ten times the value is in the range
\* of the type: the multiplication that comes before the division must not wrap
\* (string-utils.c:19-61).
DecimalsAreReadBack(word) ==
    /\ \A value \in 0 .. word - 1 :
          10 * value < word => StringToUint(UintToString(value, 10), word) = value
    /\ \A value \in -(word \div 2 - 1) .. word \div 2 - 1 :
          10 * value < word \div 2 /\ -10 * value < word \div 2
              => StringToInt(IntToString(value, 10), word) = value

\* The aligned value is the lowest multiple that is not below the value (math-utils.c:8-11).
AlignsUp(word) ==
    \A value \in 0 .. word - 1 : \A alignment \in 1 .. 16 :
        UintAlignUp(value, alignment) = CHOOSE m \in value .. value + alignment - 1 : m % alignment = 0

==============================================================================
