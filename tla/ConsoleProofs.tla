---------------------------- MODULE ConsoleProofs ----------------------------
(***************************************************************************)
(* What TLAPS proves of the terminal and of the reading of keys, for a     *)
(* screen and lines of any length, any message of the handler, and any     *)
(* number of keys, calls and interrupts at any point.                      *)
(***************************************************************************)
EXTENDS Console, SequenceTheorems, FiniteSetTheorems, WellFoundedInduction, TLAPS

-----------------------------------------------------------------------------
\* The invariant

\* What a key can give, blank and terminator included.
Visible == {"A", "a", "4", ".", " ", "NUL"}

Chars == Visible \cup {"TAB", "VT", "CR", "LF", "BS"} \cup Range(Message)

Bytes == Chars \cup {Color}

Instr ==
    {Load, Line, Scroll} \cup {Add(n) : n \in Int} \cup {Write(byte) : byte \in Bytes}
        \cup {Put(c) : c \in Chars} \cup {IfNotFirst(n) : n \in Nat}

Puts == {Put(c) : c \in Chars}

\* The texts on the screen and the rests of a flow's instructions.
Texts == Seq(Chars)
Rests == Seq(Instr)

FlowOK ==
    /\ flow \in Seq([code : Seq(Instr), reg : Nat])
    /\ Len(flow) \in {1, 2}
    /\ Len(flow) = 2 => flow[1].code = <<>> /\ spurious > 0
    /\ spurious \in Nat /\ beyond = {}
    /\ CursorOffset \in 0 .. TerminalSize
    /\ TerminalBuffer \in [0 .. TerminalSize - 1 -> Bytes]

ReadingOK ==
    /\ length \in 0 .. MaxLength /\ result \in [0 .. MaxLength -> Chars]
    /\ character \in Chars /\ entered \in BOOLEAN
    /\ call \in Kind
    /\ pc = "extended" => call # "key"

\* The text b stands before place p of the screen, as far as it fits.
On(screen, p, b) ==
    \A k \in 1 .. Len(b) : 2 * k <= p => screen[p - 2 * k] = b[Len(b) - k + 1]

\* EchoMatches says something of the call.
Claimed == pc # "idle" /\ spurious = 0 /\ ~uneven

\* The flow is in the routine of instructions f, at the n-th, and goes on with r.
Doing(f, n, r) ==
    /\ n \in 1 .. Len(f) /\ r \in Rests
    /\ Top.code = SubSeq(f, n, Len(f)) \o r

Fixing(x) == FixCursorPosition \o PutByte(x) \o PutByte(Color)

\* What TAB writes and erasing leaves.
Space == " "

Blank == <<Put(Space)>> \o Back

Even == CursorOffset % 2 = 0

\* The rest of the instructions r makes, of the text b before the cursor, what is to be shown.
Leads(r, b) ==
    \/ /\ r \in Seq(Puts)
       /\ Claimed => \/ r = <<>> /\ Shown = b
                     \/ \E x \in Visible : r = <<Put(x)>> /\ Shown = Append(b, x)
    \/ r = Blank /\ (Claimed => Shown = b)

\* What is known before the n-th instruction of the writing of x behind the text b.
Stage(n, x, b) ==
    \/ n = 1 /\ CursorOffset = TerminalSize /\ On(TerminalBuffer, CursorOffset, b)
    \/ n = 2 /\ CursorOffset = TerminalSize /\ On(TerminalBuffer, CursorOffset, b) /\ Top.reg = CursorOffset
    \/ n = 3 /\ CursorOffset + LineSize = TerminalSize /\ On(TerminalBuffer, CursorOffset + LineSize, b)
    \/ /\ n \in {4, 5} /\ Even /\ CursorOffset < TerminalSize /\ On(TerminalBuffer, CursorOffset, b)
       /\ n = 5 => Top.reg = CursorOffset
    \/ n = 6 /\ ~Even /\ Top.reg = CursorOffset - 1 /\ On(TerminalBuffer, CursorOffset - 1, b)
    \/ /\ n \in {7, 8} /\ ~Even /\ On(TerminalBuffer, CursorOffset - 1, b)
       /\ TerminalBuffer[CursorOffset - 1] = x
       /\ n = 8 => Top.reg = CursorOffset
    \/ /\ n = 9 /\ Even /\ CursorOffset >= 2 /\ Top.reg = CursorOffset - 1
       /\ On(TerminalBuffer, CursorOffset - 2, b) /\ TerminalBuffer[CursorOffset - 2] = x

Putting ==
    \E n \in 1 .. 9, x \in Chars, r \in Rests, b \in Texts :
        /\ Doing(Fixing(x), n, r) /\ Stage(n, x, b)
        /\ Leads(r, Append(b, x)) \/ (r = Back /\ (Claimed => Shown = b))

Between == \E r \in Rests, b \in Texts :
    Top.code = r /\ Even /\ On(TerminalBuffer, CursorOffset, b) /\ Leads(r, b)

GoingBack ==
    \E n \in {1, 2}, r \in Rests, b \in Texts :
        /\ Doing(Back, n, r) /\ Even /\ CursorOffset >= 2
        /\ n = 2 => Top.reg = CursorOffset
        /\ On(TerminalBuffer, CursorOffset - 2, b) /\ Leads(r, b)

\* The first column and the next line; nothing is claimed of the screen.
Moving ==
    \E f \in {<<Load, Line>>, <<Load, Add(LineSize)>>, <<Scroll>>}, n \in {1, 2}, r \in Rests :
        /\ Doing(f, n, r) /\ r \in Seq(Puts) /\ Even /\ ~Claimed
        /\ n = 2 => Top.reg = CursorOffset
        /\ f = <<Load, Add(LineSize)>> => CursorOffset + LineSize < TerminalSize

Testing ==
    \/ /\ Top.code = Erase /\ Even
       /\ Claimed /\ CursorOffset >= 2 => On(TerminalBuffer, CursorOffset - 2, Shown)
    \/ \E x \in Chars : /\ Top.code = StepBack \o <<Put(x)>> /\ Even
                        /\ Claimed => x \in Visible /\ Shown = <<x>>

Screen == FlowOK /\ (Between \/ Putting \/ GoingBack \/ Moving \/ Testing)

ConsoleInv == ReadingOK /\ (raced => spurious > 0) /\ spurious \in Nat /\ (~raced => Screen)

-----------------------------------------------------------------------------
\* Numbers

LEMMA Products == \A m, n \in Nat : m * n \in Nat /\ (2 * m) * n = 2 * (m * n)
BY SMT

LEMMA ProductGrows == ASSUME NEW m \in Nat, NEW n \in Nat, n >= 2 PROVE m * n >= 2 * m
<1>1. n - 2 \in Nat /\ m * (n - 2) \in Nat /\ m * n = m * (n - 2) + 2 * m
  BY SMT
<1> QED
  BY <1>1

LEMMA DoubleIsEven == ASSUME NEW n \in Nat PROVE (2 * n) % 2 = 0
BY SMT

LEMMA Quotients ==
    ASSUME NEW x \in Nat, NEW w \in Nat \ {0}
    PROVE  x \div w \in Nat /\ w * (x \div w) \in Nat /\ w * (x \div w) <= x
BY SMT

\* The screen has an even number of bytes, two lines at least, and no offset wraps.
LEMMA Sizes ==
    /\ LineSize \in Nat /\ LineSize >= 2 /\ LineSize % 2 = 0
    /\ TerminalSize \in Nat /\ TerminalSize >= 2 * LineSize /\ TerminalSize % 2 = 0
    /\ \A x \in 0 .. TerminalSize + LineSize : x % Word = x
<1>1. Width \in Nat \ {0} /\ Height \in Nat /\ Height >= 2 /\ Word \in Nat /\ Word > TerminalSize + LineSize
  BY TerminalAssumption
<1>2. LineSize \in Nat /\ LineSize >= 2 /\ LineSize % 2 = 0
  BY <1>1, DoubleIsEven DEF LineSize
<1>3. TerminalSize \in Nat /\ TerminalSize >= 2 * LineSize
  BY <1>1, <1>2, ProductGrows, Products DEF TerminalSize
<1>4. Width * Height \in Nat /\ TerminalSize = 2 * (Width * Height)
  BY <1>1, Products DEF TerminalSize, LineSize
<1>5. TerminalSize % 2 = 0
  BY <1>4, DoubleIsEven
<1>6. ASSUME NEW x \in 0 .. TerminalSize + LineSize PROVE x % Word = x
  BY <1>1, <1>2, <1>3
<1> QED
  BY <1>2, <1>3, <1>5, <1>6

LEMMA LineBegin == ASSUME NEW c \in 0 .. TerminalSize
                   PROVE  /\ LineSize * (c \div LineSize) \in 0 .. TerminalSize
                          /\ (LineSize * (c \div LineSize)) % 2 = 0
<1>1. c \in Nat /\ LineSize \in Nat \ {0} /\ TerminalSize \in Nat
  BY Sizes
<1>2. c \div LineSize \in Nat /\ LineSize * (c \div LineSize) \in Nat /\ LineSize * (c \div LineSize) <= c
  BY <1>1, Quotients
<1>3. Width \in Nat /\ LineSize * (c \div LineSize) = 2 * (Width * (c \div LineSize)) /\ Width * (c \div LineSize) \in Nat
  BY <1>2, Products, TerminalAssumption DEF LineSize
<1>4. (LineSize * (c \div LineSize)) % 2 = 0
  BY <1>3, DoubleIsEven
<1> QED
  BY <1>1, <1>2, <1>4

-----------------------------------------------------------------------------
\* Instructions

LEMMA Part ==
    ASSUME NEW S, NEW s \in Seq(S), NEW m \in 1 .. Len(s)
    PROVE  /\ SubSeq(s, m, Len(s)) \in Seq(S) /\ Len(SubSeq(s, m, Len(s))) = Len(s) - m + 1
           /\ \A i \in 1 .. Len(s) - m + 1 : SubSeq(s, m, Len(s))[i] = s[m + i - 1]
<1>1. m \in Int /\ Len(s) \in Int /\ m <= Len(s) /\ \A i \in m .. Len(s) : s[i] \in S
  OBVIOUS
<1> QED
  BY <1>1, SubSeqProperties

LEMMA Routines ==
    /\ Back \in Rests /\ Len(Back) = 2 /\ Back[1] = Load /\ Back[2] = Add(-2)
    /\ <<Load, Line>> \in Rests /\ <<Scroll>> \in Rests
    /\ <<Load, Add(LineSize)>> \in Rests /\ <<>> \in Rests
    /\ \A c \in Chars : <<Put(c)>> \in Seq(Puts)
    /\ Seq(Puts) \subseteq Rests
<1>1. Load \in Instr /\ Line \in Instr /\ Scroll \in Instr
  BY DEF Instr
<1>2. \A n \in Int : Add(n) \in Instr
  BY DEF Instr
<1>3. -2 \in Int /\ LineSize \in Int
  BY Sizes
<1>4. Add(-2) \in Instr /\ Add(LineSize) \in Instr
  BY <1>2, <1>3
<1>5. Back \in Rests /\ Len(Back) = 2 /\ Back[1] = Load /\ Back[2] = Add(-2)
  <2>1. \A a, b \in Instr : <<a, b>> \in Seq(Instr) /\ Len(<<a, b>>) = 2 /\ <<a, b>>[1] = a /\ <<a, b>>[2] = b
    OBVIOUS
  <2> QED
    BY <1>1, <1>4, <2>1 DEF Back, Rests
<1>6. \A a, b \in Instr : <<a, b>> \in Seq(Instr)
  OBVIOUS
<1>7. \A a \in Instr : <<a>> \in Seq(Instr)
  OBVIOUS
<1>8. <<>> \in Seq(Instr)
  OBVIOUS
<1>9. \A a \in Puts : <<a>> \in Seq(Puts)
  OBVIOUS
<1>10. Puts \subseteq Instr
  BY DEF Puts, Instr
<1>11. Seq(Puts) \subseteq Seq(Instr)
  BY <1>10, SeqMonotonic
<1>12. \A c \in Chars : Put(c) \in Puts
  BY DEF Puts
<1> QED
  BY <1>1, <1>4, <1>5, <1>6, <1>7, <1>8, <1>9, <1>11, <1>12 DEF Rests

\* z joins s, t and u, each of three elements of S.
Joins(S, z, s, t, u) ==
    /\ z \in Seq(S) /\ Len(z) = 9
    /\ z[1] = s[1] /\ z[2] = s[2] /\ z[3] = s[3]
    /\ z[4] = t[1] /\ z[5] = t[2] /\ z[6] = t[3]
    /\ z[7] = u[1] /\ z[8] = u[2] /\ z[9] = u[3]
    /\ t \o u = SubSeq(z, 4, 9)

LEMMA ThreeByThree ==
    ASSUME NEW S, NEW s \in Seq(S), NEW t \in Seq(S), NEW u \in Seq(S), Len(s) = 3, Len(t) = 3, Len(u) = 3
    PROVE  Joins(S, s \o t \o u, s, t, u)
<1> DEFINE st == s \o t
           tu == t \o u
           z == st \o u
<1>1. /\ s \o t \in Seq(S) /\ Len(s \o t) = Len(s) + Len(t)
      /\ \A k \in 1 .. Len(s) + Len(t) : (s \o t)[k] = IF k <= Len(s) THEN s[k] ELSE t[k - Len(s)]
  BY ConcatProperties
<1>2. st \in Seq(S) /\ Len(st) = 6
  BY <1>1
<1>3. st[1] = s[1] /\ st[2] = s[2] /\ st[3] = s[3] /\ st[4] = t[1] /\ st[5] = t[2] /\ st[6] = t[3]
  BY <1>1
<1> HIDE DEF st
<1>4. /\ st \o u \in Seq(S) /\ Len(st \o u) = Len(st) + Len(u)
      /\ \A k \in 1 .. Len(st) + Len(u) : (st \o u)[k] = IF k <= Len(st) THEN st[k] ELSE u[k - Len(st)]
  BY <1>2, ConcatProperties
<1>5. z \in Seq(S) /\ Len(z) = 9
  BY <1>2, <1>4
<1>6. z[1] = st[1] /\ z[2] = st[2] /\ z[3] = st[3] /\ z[4] = st[4] /\ z[5] = st[5] /\ z[6] = st[6]
  BY <1>2, <1>4
<1>7. z[7] = u[1] /\ z[8] = u[2] /\ z[9] = u[3]
  BY <1>2, <1>4
<1>8. /\ t \o u \in Seq(S) /\ Len(t \o u) = Len(t) + Len(u)
      /\ \A k \in 1 .. Len(t) + Len(u) : (t \o u)[k] = IF k <= Len(t) THEN t[k] ELSE u[k - Len(t)]
  BY ConcatProperties
<1>9. tu \in Seq(S) /\ Len(tu) = 6
  BY <1>8
<1>10. tu[1] = t[1] /\ tu[2] = t[2] /\ tu[3] = t[3] /\ tu[4] = u[1] /\ tu[5] = u[2] /\ tu[6] = u[3]
  BY <1>8
<1>11. 4 \in 1 .. Len(z)
  BY <1>5
<1> HIDE DEF z, tu
<1>12. /\ SubSeq(z, 4, Len(z)) \in Seq(S) /\ Len(SubSeq(z, 4, Len(z))) = Len(z) - 4 + 1
       /\ \A i \in 1 .. Len(z) - 4 + 1 : SubSeq(z, 4, Len(z))[i] = z[4 + i - 1]
  BY <1>5, <1>11, Part
<1> DEFINE y == SubSeq(z, 4, 9)
<1>13. y \in Seq(S) /\ Len(y) = 6
  BY <1>5, <1>12
<1>14. y[1] = z[4] /\ y[2] = z[5] /\ y[3] = z[6] /\ y[4] = z[7] /\ y[5] = z[8] /\ y[6] = z[9]
  BY <1>5, <1>12
<1> HIDE DEF y
<1>15. \A k \in 1 .. Len(tu) : tu[k] = y[k]
  BY <1>3, <1>6, <1>7, <1>9, <1>10, <1>14
<1>16. tu = y
  BY <1>9, <1>13, <1>15, SeqEqual
<1>17. z[1] = s[1] /\ z[2] = s[2] /\ z[3] = s[3] /\ z[4] = t[1] /\ z[5] = t[2] /\ z[6] = t[3]
  BY <1>3, <1>6
<1>18. z = s \o t \o u
  BY DEF z, st
<1>19. t \o u = SubSeq(s \o t \o u, 4, 9)
  BY <1>16, <1>18 DEF tu, y
<1> QED
  BY <1>5, <1>7, <1>17, <1>18, <1>19 DEF Joins

LEMMA PutByteIs ==
    ASSUME NEW byte \in Bytes
    PROVE  /\ PutByte(byte) \in Seq(Instr) /\ Len(PutByte(byte)) = 3
           /\ PutByte(byte)[1] = Load /\ PutByte(byte)[2] = Add(1) /\ PutByte(byte)[3] = Write(byte)
<1>1. Load \in Instr /\ Add(1) \in Instr /\ Write(byte) \in Instr
  BY DEF Instr
<1>2. \A a, b, c \in Instr : <<a, b, c>> \in Seq(Instr) /\ Len(<<a, b, c>>) = 3
  OBVIOUS
<1>3. \A a, b, c \in Instr : <<a, b, c>>[1] = a /\ <<a, b, c>>[2] = b /\ <<a, b, c>>[3] = c
  OBVIOUS
<1> QED
  BY <1>1, <1>2, <1>3 DEF PutByte

LEMMA FixCursorPositionIs ==
    /\ FixCursorPosition \in Seq(Instr) /\ Len(FixCursorPosition) = 3
    /\ FixCursorPosition[1] = Load /\ FixCursorPosition[2] = Add(-LineSize) /\ FixCursorPosition[3] = Scroll
<1>1. -LineSize \in Int
  BY Sizes
<1>2. Load \in Instr /\ Add(-LineSize) \in Instr /\ Scroll \in Instr
  BY <1>1 DEF Instr
<1>3. \A a, b, c \in Instr : <<a, b, c>> \in Seq(Instr) /\ Len(<<a, b, c>>) = 3
  OBVIOUS
<1>4. \A a, b, c \in Instr : <<a, b, c>>[1] = a /\ <<a, b, c>>[2] = b /\ <<a, b, c>>[3] = c
  OBVIOUS
<1> QED
  BY <1>2, <1>3, <1>4 DEF FixCursorPosition

LEMMA FixingIs ==
    ASSUME NEW x \in Chars
    PROVE  LET f == Fixing(x) IN
           /\ f \in Rests /\ Len(f) = 9
           /\ f[1] = Load /\ f[2] = Add(-LineSize) /\ f[3] = Scroll
           /\ f[4] = Load /\ f[5] = Add(1) /\ f[6] = Write(x)
           /\ f[7] = Load /\ f[8] = Add(1) /\ f[9] = Write(Color)
           /\ PutByte(x) \o PutByte(Color) = SubSeq(f, 4, 9)
<1>1. x \in Bytes /\ Color \in Bytes
  BY DEF Bytes
<1> DEFINE s == FixCursorPosition
           t == PutByte(x)
           u == PutByte(Color)
<1>2. s \in Seq(Instr) /\ Len(s) = 3 /\ s[1] = Load /\ s[2] = Add(-LineSize) /\ s[3] = Scroll
  BY FixCursorPositionIs
<1>3. t \in Seq(Instr) /\ Len(t) = 3 /\ t[1] = Load /\ t[2] = Add(1) /\ t[3] = Write(x)
  BY <1>1, PutByteIs
<1>4. u \in Seq(Instr) /\ Len(u) = 3 /\ u[1] = Load /\ u[2] = Add(1) /\ u[3] = Write(Color)
  BY <1>1, PutByteIs
<1>5. Fixing(x) = s \o t \o u
  BY DEF Fixing
<1> HIDE DEF s, t, u
<1>6. Joins(Instr, s \o t \o u, s, t, u)
  BY <1>2, <1>3, <1>4, ThreeByThree
<1>7. t \o u = PutByte(x) \o PutByte(Color)
  BY DEF t, u
<1> QED
  BY <1>2, <1>3, <1>4, <1>5, <1>6, <1>7 DEF Rests, Joins

\* What a flow in a routine does next, and what is left of the routine then.
LEMMA Suffix ==
    ASSUME NEW S, NEW f \in Seq(S), NEW n \in 1 .. Len(f), NEW r \in Seq(S)
    PROVE  LET s == SubSeq(f, n, Len(f)) \o r IN
           /\ s \in Seq(S) /\ s # <<>> /\ s[1] = f[n]
           /\ IF n = Len(f) THEN Tail(s) = r ELSE Tail(s) = SubSeq(f, n + 1, Len(f)) \o r
<1> DEFINE p == SubSeq(f, n, Len(f))
           s == p \o r
<1>1. p \in Seq(S) /\ Len(p) = Len(f) - n + 1 /\ \A i \in 1 .. Len(f) - n + 1 : p[i] = f[n + i - 1]
  BY Part
<1> HIDE DEF p
<1>2. /\ s \in Seq(S) /\ Len(s) = Len(p) + Len(r)
      /\ \A k \in 1 .. Len(p) + Len(r) : s[k] = IF k <= Len(p) THEN p[k] ELSE r[k - Len(p)]
  BY <1>1, ConcatProperties
<1> HIDE DEF s
<1>3. Len(f) \in Nat /\ n \in Nat /\ Len(p) \in Nat /\ Len(p) >= 1 /\ Len(r) \in Nat
  BY <1>1
<1>4. Len(s) \in Nat /\ Len(s) >= 1 /\ s # <<>>
  BY <1>2, <1>3
<1>5. s[1] = p[1] /\ p[1] = f[n]
  <2>1. 1 \in 1 .. Len(p) + Len(r) /\ 1 <= Len(p) /\ 1 \in 1 .. Len(f) - n + 1 /\ n + 1 - 1 = n
    BY <1>1, <1>3
  <2>2. s[1] = p[1]
    BY <1>2, <2>1
  <2>3. p[1] = f[n + 1 - 1]
    BY <1>1, <2>1
  <2> QED
    BY <2>1, <2>2, <2>3
<1>6. Tail(s) \in Seq(S) /\ Len(Tail(s)) = Len(s) - 1 /\ \A i \in 1 .. Len(Tail(s)) : Tail(s)[i] = s[i + 1]
  BY <1>2, <1>4, HeadTailProperties
<1>7. CASE n = Len(f)
  <2>1. Len(p) = 1 /\ Len(Tail(s)) = Len(r)
    BY <1>1, <1>2, <1>3, <1>6, <1>7
  <2>2. \A i \in 1 .. Len(Tail(s)) : Tail(s)[i] = r[i]
    BY <1>2, <1>3, <1>6, <2>1
  <2>3. Tail(s) = r
    BY <1>6, <2>1, <2>2, SeqEqual
  <2> QED
    BY <1>2, <1>4, <1>5, <1>7, <2>3 DEF s, p
<1>8. CASE n # Len(f)
  <2> DEFINE q == SubSeq(f, n + 1, Len(f))
             t == q \o r
  <2>1. n + 1 \in 1 .. Len(f)
    BY <1>3, <1>8
  <2>2. q \in Seq(S) /\ Len(q) = Len(f) - n /\ \A i \in 1 .. Len(f) - n : q[i] = f[n + i]
    <3>1. /\ q \in Seq(S) /\ Len(q) = Len(f) - (n + 1) + 1
          /\ \A i \in 1 .. Len(f) - (n + 1) + 1 : q[i] = f[(n + 1) + i - 1]
      BY <2>1, Part
    <3> HIDE DEF q
    <3> QED
      BY <1>3, <3>1
  <2> HIDE DEF q
  <2>3. /\ t \in Seq(S) /\ Len(t) = Len(q) + Len(r)
        /\ \A k \in 1 .. Len(q) + Len(r) : t[k] = IF k <= Len(q) THEN q[k] ELSE r[k - Len(q)]
    BY <2>2, ConcatProperties
  <2> HIDE DEF t
  <2>4. Len(p) = Len(q) + 1 /\ Len(q) \in Nat /\ \A i \in 1 .. Len(q) : q[i] = p[i + 1]
    BY <1>1, <1>3, <2>2
  <2>5. Len(Tail(s)) = Len(t)
    BY <1>2, <1>3, <1>6, <2>3, <2>4
  <2>6. ASSUME NEW i \in 1 .. Len(Tail(s)) PROVE Tail(s)[i] = t[i]
    <3>1. Tail(s)[i] = s[i + 1] /\ i + 1 \in 1 .. Len(p) + Len(r) /\ i \in 1 .. Len(q) + Len(r) /\ i \in Nat
      BY <1>2, <1>3, <1>6, <2>4, <2>5, <2>3
    <3>2. CASE i <= Len(q)
      <4>1. s[i + 1] = p[i + 1]
        BY <1>2, <1>3, <2>4, <3>1, <3>2
      <4>2. t[i] = q[i] /\ q[i] = p[i + 1]
        BY <2>3, <2>4, <3>1, <3>2
      <4> QED
        BY <3>1, <4>1, <4>2
    <3>3. CASE ~(i <= Len(q))
      <4>1. s[i + 1] = r[(i + 1) - Len(p)]
        BY <1>2, <1>3, <2>4, <3>1, <3>3
      <4>2. t[i] = r[i - Len(q)]
        BY <2>3, <2>4, <3>1, <3>3
      <4>3. (i + 1) - Len(p) = i - Len(q)
        BY <1>3, <2>4, <3>1
      <4> QED
        BY <3>1, <4>1, <4>2, <4>3
    <3> QED
      BY <3>2, <3>3
  <2>7. Tail(s) = t
    BY <1>6, <2>3, <2>5, <2>6, SeqEqual
  <2> QED
    BY <1>2, <1>4, <1>5, <1>8, <2>7 DEF s, p, t, q
<1> QED
  BY <1>7, <1>8

LEMMA DoingNow ==
    ASSUME NEW f \in Rests, NEW n, NEW r, Doing(f, n, r)
    PROVE  /\ Top.code \in Rests /\ Top.code # <<>> /\ Top.code[1] = f[n]
           /\ Tail(Top.code) = (IF n = Len(f) THEN r ELSE SubSeq(f, n + 1, Len(f)) \o r)
<1>1. n \in 1 .. Len(f) /\ r \in Seq(Instr) /\ f \in Seq(Instr) /\ Top.code = SubSeq(f, n, Len(f)) \o r
  BY DEF Doing, Rests
<1> DEFINE s == SubSeq(f, n, Len(f)) \o r
<1>2. /\ s \in Seq(Instr) /\ s # <<>> /\ s[1] = f[n]
      /\ IF n = Len(f) THEN Tail(s) = r ELSE Tail(s) = SubSeq(f, n + 1, Len(f)) \o r
  BY <1>1, Suffix
<1> HIDE DEF s
<1>3. Top.code = s
  BY <1>1 DEF s
<1> QED
  BY <1>2, <1>3 DEF Rests

LEMMA DoingNext ==
    ASSUME NEW f \in Rests, NEW n, NEW r, Doing(f, n, r), Top'.code = Tail(Top.code)
    PROVE  IF n = Len(f) THEN Top'.code = r ELSE Doing(f, n + 1, r)'
<1>1. n \in 1 .. Len(f) /\ r \in Rests /\ Len(f) \in Nat
  BY DEF Doing, Rests
<1>2. Tail(Top.code) = (IF n = Len(f) THEN r ELSE SubSeq(f, n + 1, Len(f)) \o r)
  BY DoingNow
<1>3. n # Len(f) => n + 1 \in 1 .. Len(f)
  BY <1>1
<1> QED
  BY <1>1, <1>2, <1>3 DEF Doing

-----------------------------------------------------------------------------
\* The effects of the instructions

Flow == [code : Seq(Instr), reg : Nat]

LEMMA TopOK == ASSUME FlowOK PROVE Top \in Flow /\ Top.code \in Seq(Instr) /\ Top.reg \in Nat /\ Len(flow) \in 1 .. Len(flow)
<1>1. flow \in Seq(Flow) /\ (Len(flow) = 1 \/ Len(flow) = 2)
  BY DEF FlowOK, Flow
<1>2. Len(flow) \in 1 .. Len(flow)
  BY <1>1
<1>3. Top \in Flow
  BY <1>1, <1>2, ElementOfSeq DEF Top
<1>4. \A e \in Flow : e.code \in Seq(Instr) /\ e.reg \in Nat
  BY DEF Flow
<1> QED
  BY <1>2, <1>3, <1>4

LEMMA FlowSteps ==
    ASSUME FlowOK, NEW e \in Flow, flow' = [flow EXCEPT ![Len(flow)] = e]
    PROVE  /\ flow' \in Seq(Flow) /\ Len(flow') = Len(flow) /\ Top' = e
           /\ Len(flow') = 2 => flow'[1].code = <<>>
<1>1. flow \in Seq(Flow) /\ (Len(flow) = 1 \/ Len(flow) = 2) /\ (Len(flow) = 2 => flow[1].code = <<>>)
  BY DEF FlowOK, Flow
<1>2. Len(flow) \in 1 .. Len(flow)
  BY TopOK
<1>3. /\ flow' \in Seq(Flow) /\ Len(flow') = Len(flow)
      /\ \A j \in 1 .. Len(flow) : flow'[j] = IF j = Len(flow) THEN e ELSE flow[j]
  BY <1>1, <1>2, ExceptSeq
<1>4. flow'[Len(flow')] = e
  BY <1>2, <1>3
<1>5. Len(flow') = 2 => flow'[1] = flow[1]
  BY <1>1, <1>3
<1> QED
  BY <1>1, <1>3, <1>4, <1>5 DEF Top

LEMMA Continues ==
    ASSUME FlowOK, NEW more \in Seq(Instr), Top.code # <<>>, Continue(more)
    PROVE  /\ flow' \in Seq(Flow) /\ Len(flow') = Len(flow)
           /\ Len(flow') = 2 => flow'[1].code = <<>>
           /\ Top'.code = more \o Tail(Top.code) /\ Top'.reg = Top.reg
<1> DEFINE e == [Top EXCEPT !.code = more \o Tail(Top.code)]
<1>1. Top \in Flow /\ Top.code \in Seq(Instr) /\ Top.reg \in Nat /\ Len(flow) \in 1 .. Len(flow)
  BY TopOK
<1>2. Tail(Top.code) \in Seq(Instr)
  BY <1>1, HeadTailProperties
<1>3. more \o Tail(Top.code) \in Seq(Instr)
  BY <1>2, ConcatProperties
<1>4. e \in Flow /\ e.code = more \o Tail(Top.code) /\ e.reg = Top.reg
  BY <1>1, <1>3 DEF Flow
<1>5. flow' = [flow EXCEPT ![Len(flow)] = e]
  BY <1>1 DEF Continue, Top
<1> HIDE DEF e
<1> QED
  BY <1>4, <1>5, FlowSteps

\* What no instruction changes of the flows; the rest of the state is the instruction's.
Going ==
    /\ flow' \in Seq(Flow) /\ Len(flow') = Len(flow)
    /\ Len(flow') = 2 => flow'[1].code = <<>>
    /\ UNCHANGED <<spurious, raced>>

LEMMA GoingOK ==
    ASSUME FlowOK, Going, beyond' = {}, CursorOffset' \in 0 .. TerminalSize,
           TerminalBuffer' \in [0 .. TerminalSize - 1 -> Bytes]
    PROVE  FlowOK'
BY DEF FlowOK, Going, Flow

LEMMA Nothing == ASSUME NEW s \in Seq(Instr) PROVE <<>> \in Seq(Instr) /\ <<>> \o s = s
BY ConcatEmptySeq

LEMMA ContinuesPlain ==
    ASSUME FlowOK, Top.code # <<>>, Continue(<<>>), UNCHANGED <<spurious, raced>>
    PROVE  Going /\ Top'.code = Tail(Top.code) /\ Top'.reg = Top.reg
<1>1. Top.code \in Seq(Instr)
  BY TopOK
<1>2. Tail(Top.code) \in Seq(Instr)
  BY <1>1, HeadTailProperties
<1>3. <<>> \in Seq(Instr) /\ <<>> \o Tail(Top.code) = Tail(Top.code)
  BY <1>2, Nothing
<1> QED
  BY <1>3, Continues DEF Going

LEMMA LoadEffect ==
    ASSUME FlowOK, LoadCursor
    PROVE  /\ Going /\ Top'.code = Tail(Top.code) /\ Top'.reg = CursorOffset
           /\ UNCHANGED <<CursorOffset, TerminalBuffer, beyond>>
<1> DEFINE e == [code |-> Tail(Top.code), reg |-> CursorOffset]
<1>1. Top.code # <<>> /\ Top.code \in Seq(Instr) /\ CursorOffset \in Nat
  BY TopOK, Sizes DEF LoadCursor, Running, FlowOK
<1>2. e \in Flow
  BY <1>1, HeadTailProperties DEF Flow
<1>3. flow' = [flow EXCEPT ![Len(flow)] = e]
  BY TopOK DEF LoadCursor, Top
<1>4. Going /\ Top' = e
  BY <1>2, <1>3, FlowSteps DEF Going, LoadCursor
<1> QED
  BY <1>4 DEF LoadCursor

LEMMA AddEffect ==
    ASSUME FlowOK, AddToCursor
    PROVE  /\ Going /\ Top'.code = Tail(Top.code)
           /\ CursorOffset' = (Top.reg + Operand) % Word
           /\ UNCHANGED <<TerminalBuffer, beyond>>
BY ContinuesPlain DEF AddToCursor, Running

LEMMA LineEffect ==
    ASSUME FlowOK, BeginLine
    PROVE  /\ Going /\ Top'.code = Tail(Top.code)
           /\ CursorOffset' = (IF Top.reg < TerminalSize THEN LineSize * (Top.reg \div LineSize) ELSE CursorOffset)
           /\ UNCHANGED <<TerminalBuffer, beyond>>
BY ContinuesPlain DEF BeginLine, Running

LEMMA WriteEffect ==
    ASSUME FlowOK, WriteByte, Top.reg < TerminalSize
    PROVE  /\ Going /\ Top'.code = Tail(Top.code)
           /\ TerminalBuffer' = [TerminalBuffer EXCEPT ![Top.reg] = Operand]
           /\ UNCHANGED <<CursorOffset, beyond>>
BY ContinuesPlain DEF WriteByte, Running

LEMMA ScrollEffect ==
    ASSUME FlowOK, ScrollUp
    PROVE  /\ Going /\ Top'.code = Tail(Top.code) /\ TerminalBuffer' = Scrolled
           /\ UNCHANGED <<CursorOffset, beyond>>
BY ContinuesPlain DEF ScrollUp, Running

LEMMA PutEffect ==
    ASSUME FlowOK, PutChar, Body(Operand) \in Seq(Instr)
    PROVE  /\ Going /\ Top'.code = Body(Operand) \o Tail(Top.code)
           /\ UNCHANGED <<CursorOffset, TerminalBuffer, beyond>>
<1>1. Top.code # <<>>
  BY DEF PutChar, Running
<1> QED
  BY <1>1, Continues DEF PutChar, Going

LEMMA TestEffect ==
    ASSUME FlowOK, TestFirst, Operand \in Nat, Top.code # <<>>, NEW code \in Seq(Instr),
           code = IF CursorOffset = 0 THEN SubSeq(Top.code, Operand + 2, Len(Top.code)) ELSE Tail(Top.code)
    PROVE  /\ Going /\ Top'.code = code
           /\ UNCHANGED <<CursorOffset, TerminalBuffer, beyond>>
<1> DEFINE e == [Top EXCEPT !.code = code]
<1>1. Top \in Flow /\ Len(flow) \in 1 .. Len(flow)
  BY TopOK
<1>2. e \in Flow /\ e.code = code
  BY <1>1 DEF Flow
<1>3. flow' = [flow EXCEPT ![Len(flow)] = e]
  BY <1>1 DEF TestFirst, Top, Operand
<1> HIDE DEF e
<1>4. Going /\ Top' = e
  BY <1>2, <1>3, FlowSteps DEF Going, TestFirst
<1> QED
  BY <1>2, <1>4 DEF TestFirst

\* Which step it is that the flow takes.
LEMMA StepIs ==
    ASSUME Execute, Top.code # <<>>
    PROVE  /\ Top.code[1] = Load => LoadCursor
           /\ \A n \in Int : Top.code[1] = Add(n) => AddToCursor /\ Operand = n
           /\ Top.code[1] = Line => BeginLine
           /\ \A byte \in Bytes : Top.code[1] = Write(byte) => WriteByte /\ Operand = byte
           /\ Top.code[1] = Scroll => ScrollUp
           /\ \A c \in Chars : Top.code[1] = Put(c) => PutChar /\ Operand = c
           /\ \A n \in Nat : Top.code[1] = IfNotFirst(n) => TestFirst /\ Operand = n
<1> DEFINE i == Top.code[1]
<1>1. \/ i[1] = "load" /\ LoadCursor
      \/ i[1] = "add" /\ AddToCursor
      \/ i[1] = "line" /\ BeginLine
      \/ i[1] = "write" /\ WriteByte
      \/ i[1] = "scroll" /\ ScrollUp
      \/ i[1] = "put" /\ PutChar
      \/ i[1] = "first" /\ TestFirst
  <2>1. CASE LoadCursor
    BY <2>1 DEF LoadCursor, Running
  <2>2. CASE AddToCursor
    BY <2>2 DEF AddToCursor, Running
  <2>3. CASE BeginLine
    BY <2>3 DEF BeginLine, Running
  <2>4. CASE WriteByte
    BY <2>4 DEF WriteByte, Running
  <2>5. CASE ScrollUp
    BY <2>5 DEF ScrollUp, Running
  <2>6. CASE PutChar
    BY <2>6 DEF PutChar, Running
  <2>7. CASE TestFirst
    BY <2>7 DEF TestFirst, Running
  <2>8. ~HandlerReturns
    BY DEF HandlerReturns
  <2> QED
    BY <2>1, <2>2, <2>3, <2>4, <2>5, <2>6, <2>7, <2>8 DEF Execute
<1>2. Operand = i[2]
  BY DEF Operand
<1> HIDE DEF i
<1>3. i = Load => i[1] = "load"
  BY DEF Load
<1>4. i = Line => i[1] = "line"
  BY DEF Line
<1>5. i = Scroll => i[1] = "scroll"
  BY DEF Scroll
<1>6. \A n : i = Add(n) => i[1] = "add" /\ i[2] = n
  BY DEF Add
<1>7. \A byte : i = Write(byte) => i[1] = "write" /\ i[2] = byte
  BY DEF Write
<1>8. \A c : i = Put(c) => i[1] = "put" /\ i[2] = c
  BY DEF Put
<1>9. \A n : i = IfNotFirst(n) => i[1] = "first" /\ i[2] = n
  BY DEF IfNotFirst
<1>10. i = Load => LoadCursor
  BY <1>1, <1>3
<1>11. i = Line => BeginLine
  BY <1>1, <1>4
<1>12. i = Scroll => ScrollUp
  BY <1>1, <1>5
<1>13. \A n : i = Add(n) => AddToCursor /\ Operand = n
  BY <1>1, <1>2, <1>6
<1>14. \A byte : i = Write(byte) => WriteByte /\ Operand = byte
  BY <1>1, <1>2, <1>7
<1>15. \A c : i = Put(c) => PutChar /\ Operand = c
  BY <1>1, <1>2, <1>8
<1>16. \A n : i = IfNotFirst(n) => TestFirst /\ Operand = n
  BY <1>1, <1>2, <1>9
<1> QED
  BY <1>10, <1>11, <1>12, <1>13, <1>14, <1>15, <1>16 DEF i

-----------------------------------------------------------------------------
\* Texts on the screen

Place == 0 .. TerminalSize - 1

LEMMA NoText == ASSUME NEW s, NEW p PROVE <<>> \in Texts /\ On(s, p, <<>>)
BY DEF On, Texts

LEMMA TextBefore ==
    ASSUME NEW s \in [Place -> Bytes], NEW p \in 0 .. TerminalSize, NEW b \in Texts, On(s, p, b),
           NEW q \in Place, q >= p, NEW v
    PROVE  On([s EXCEPT ![q] = v], p, b)
<1>1. Len(b) \in Nat /\ p \in Nat /\ TerminalSize \in Nat
  BY Sizes DEF Texts
<1>2. SUFFICES ASSUME NEW k \in 1 .. Len(b), 2 * k <= p
               PROVE  [s EXCEPT ![q] = v][p - 2 * k] = b[Len(b) - k + 1]
  BY DEF On
<1>3. p - 2 * k \in Place /\ p - 2 * k # q
  BY <1>1, <1>2 DEF Place
<1>4. s[p - 2 * k] = b[Len(b) - k + 1]
  BY <1>2 DEF On
<1> QED
  BY <1>3, <1>4

LEMMA TextGrows ==
    ASSUME NEW s, NEW p \in Nat, NEW b \in Texts, On(s, p, b), NEW x \in Chars, s[p] = x
    PROVE  Append(b, x) \in Texts /\ On(s, p + 2, Append(b, x))
<1>1. /\ b \in Seq(Chars) /\ Append(b, x) \in Seq(Chars) /\ Len(Append(b, x)) = Len(b) + 1 /\ Len(b) \in Nat
      /\ Append(b, x)[Len(b) + 1] = x /\ \A k \in 1 .. Len(b) : Append(b, x)[k] = b[k]
  BY DEF Texts
<1> DEFINE a == Append(b, x)
<1> HIDE DEF a
<1>2. ASSUME NEW k \in 1 .. Len(a), 2 * k <= p + 2 PROVE s[p + 2 - 2 * k] = a[Len(a) - k + 1]
  <2>1. CASE k = 1
    <3>1. Len(a) - k + 1 = Len(b) + 1 /\ p + 2 - 2 * k = p
      BY <1>1, <2>1 DEF a
    <3>2. a[Len(b) + 1] = x
      BY <1>1 DEF a
    <3> QED
      BY <3>1, <3>2
  <2>2. CASE k # 1
    <3> DEFINE m == k - 1
    <3>1. m \in 1 .. Len(b) /\ 2 * m <= p /\ p + 2 - 2 * k = p - 2 * m /\ Len(a) - k + 1 = Len(b) - m + 1
      BY <1>1, <1>2, <2>2 DEF a
    <3> HIDE DEF m
    <3>2. s[p - 2 * m] = b[Len(b) - m + 1]
      BY <3>1 DEF On
    <3>3. Len(b) - m + 1 \in 1 .. Len(b)
      BY <1>1, <3>1
    <3>4. a[Len(b) - m + 1] = b[Len(b) - m + 1]
      BY <1>1, <3>3 DEF a
    <3> QED
      BY <3>1, <3>2, <3>4
  <2> QED
    BY <2>1, <2>2
<1>3. On(s, p + 2, a)
  BY <1>2 DEF On
<1> QED
  BY <1>1, <1>3 DEF a, Texts

LEMMA TextShrinks ==
    ASSUME NEW s, NEW p \in Nat, p >= 2, NEW b \in Texts, NEW x \in Chars, On(s, p, Append(b, x))
    PROVE  On(s, p - 2, b)
<1>1. /\ b \in Seq(Chars) /\ Append(b, x) \in Seq(Chars) /\ Len(Append(b, x)) = Len(b) + 1 /\ Len(b) \in Nat
      /\ \A k \in 1 .. Len(b) : Append(b, x)[k] = b[k]
  BY DEF Texts
<1> DEFINE a == Append(b, x)
<1>2. On(s, p, a)
  OBVIOUS
<1> HIDE DEF a
<1>3. SUFFICES ASSUME NEW k \in 1 .. Len(b), 2 * k <= p - 2 PROVE s[p - 2 - 2 * k] = b[Len(b) - k + 1]
  BY DEF On
<1> DEFINE m == k + 1
<1>4. m \in 1 .. Len(a) /\ 2 * m <= p /\ p - 2 * m = p - 2 - 2 * k /\ Len(a) - m + 1 = Len(b) - k + 1
  BY <1>1, <1>3 DEF a
<1> HIDE DEF m
<1>5. s[p - 2 * m] = a[Len(a) - m + 1]
  BY <1>2, <1>4 DEF On
<1>6. Len(b) - k + 1 \in 1 .. Len(b)
  BY <1>1
<1>7. a[Len(b) - k + 1] = b[Len(b) - k + 1]
  BY <1>1, <1>6 DEF a
<1> QED
  BY <1>4, <1>5, <1>7

LEMMA TextScrolls ==
    ASSUME TerminalBuffer \in [Place -> Bytes], NEW p \in Nat, p + LineSize <= TerminalSize, NEW b \in Texts,
           On(TerminalBuffer, p + LineSize, b)
    PROVE  On(Scrolled, p, b)
<1>1. Len(b) \in Nat /\ TerminalSize \in Nat /\ LineSize \in Nat
  BY Sizes DEF Texts
<1>2. SUFFICES ASSUME NEW k \in 1 .. Len(b), 2 * k <= p PROVE Scrolled[p - 2 * k] = b[Len(b) - k + 1]
  BY DEF On
<1>3. p - 2 * k \in Place /\ (p - 2 * k) + LineSize < TerminalSize /\ 2 * k <= p + LineSize
      /\ (p - 2 * k) + LineSize = (p + LineSize) - 2 * k
  BY <1>1, <1>2 DEF Place
<1>4. Scrolled[p - 2 * k] = TerminalBuffer[(p - 2 * k) + LineSize]
  BY <1>3 DEF Scrolled, Place
<1>5. TerminalBuffer[(p + LineSize) - 2 * k] = b[Len(b) - k + 1]
  BY <1>3 DEF On
<1> QED
  BY <1>3, <1>4, <1>5

LEMMA ScrolledOK == ASSUME TerminalBuffer \in [Place -> Bytes] PROVE Scrolled \in [Place -> Bytes]
<1>1. "NUL" \in Bytes
  BY DEF Bytes, Chars, Visible
<1>2. \A o \in Place : o + LineSize < TerminalSize => o + LineSize \in Place
  BY Sizes DEF Place
<1>3. \A o \in Place : (IF o + LineSize < TerminalSize THEN TerminalBuffer[o + LineSize] ELSE "NUL") \in Bytes
  BY <1>1, <1>2
<1> QED
  BY <1>3 DEF Scrolled, Place

-----------------------------------------------------------------------------
\* What the instructions leave alone

LEMMA ClaimKept ==
    ASSUME UNCHANGED others, UNCHANGED spurious
    PROVE  /\ Claimed' <=> Claimed
           /\ Shown' = Shown
           /\ \A r, b : Leads(r, b)' <=> Leads(r, b)
<1>1. UNCHANGED <<pc, uneven, call, length, result, entered, character>>
  BY DEF others, reading
<1>2. (Claimed' <=> Claimed) /\ Shown' = Shown
  BY <1>1 DEF Claimed, Shown
<1>3. \A r, b : Leads(r, b)' <=> Leads(r, b)
  BY <1>2 DEF Leads
<1> QED
  BY <1>2, <1>3

LEMMA ReadingKept == ASSUME ReadingOK, UNCHANGED others PROVE ReadingOK'
BY DEF others, reading, ReadingOK

\* (What holds between two characters is always shown of the next state.)
LEMMA BetweenNext ==
    ASSUME NEW r \in Rests, NEW b \in Texts, Top'.code = r, Even', On(TerminalBuffer', CursorOffset', b), Leads(r, b)'
    PROVE  Between'
BY DEF Between

-----------------------------------------------------------------------------
\* Writing a character

\* What follows the character x behind the text b.
Completes(r, b, x) == Leads(r, Append(b, x)) \/ (r = Back /\ (Claimed => Shown = b))

\* The last instruction is done.
LEMMA WrittenOut ==
    ASSUME NEW x \in Chars, NEW r \in Rests, NEW b \in Texts, Completes(r, b, x)', Top'.code = r,
           NEW p \in Nat, CursorOffset' = p + 2, Even', On(TerminalBuffer', p, b), TerminalBuffer'[p] = x
    PROVE  (Between \/ GoingBack)'
<1>1. CursorOffset' >= 2 /\ CursorOffset' - 2 = p
  OBVIOUS
<1>2. Append(b, x) \in Texts /\ On(TerminalBuffer', CursorOffset', Append(b, x))
  BY TextGrows
<1>3. CASE Leads(r, Append(b, x))'
  BY <1>2, <1>3, BetweenNext
<1>4. CASE (r = Back /\ (Claimed => Shown = b))'
  <2>1. Back \in Rests /\ Len(Back) = 2 /\ <<>> \in Rests
    BY Routines
  <2>2. SubSeq(Back, 1, Len(Back)) \o <<>> = Back
    BY <2>1, SubSeqFull, ConcatEmptySeq DEF Rests
  <2>3. Doing(Back, 1, <<>>)'
    BY <1>4, <2>1, <2>2 DEF Doing
  <2>4. <<>> \in Seq(Puts)
    OBVIOUS
  <2>5. Leads(<<>>, b)'
    BY <1>4, <2>4 DEF Leads
  <2>6. On(TerminalBuffer', CursorOffset' - 2, b)
    BY <1>1
  <2> QED
    BY <1>1, <2>1, <2>3, <2>5, <2>6 DEF GoingBack
<1> QED
  BY <1>3, <1>4 DEF Completes

LEMMA PuttingGoesOn ==
    ASSUME FlowOK, Putting, Execute, UNCHANGED others
    PROVE  FlowOK' /\ UNCHANGED <<spurious, raced>> /\ (Between \/ Putting \/ GoingBack)'
<1>1. PICK n \in 1 .. 9, x \in Chars, r \in Rests, b \in Texts :
        Doing(Fixing(x), n, r) /\ Stage(n, x, b) /\ Completes(r, b, x)
  BY DEF Putting, Completes
<1> DEFINE f == Fixing(x)
<1>2. /\ f \in Rests /\ Len(f) = 9
      /\ f[1] = Load /\ f[2] = Add(-LineSize) /\ f[3] = Scroll
      /\ f[4] = Load /\ f[5] = Add(1) /\ f[6] = Write(x)
      /\ f[7] = Load /\ f[8] = Add(1) /\ f[9] = Write(Color)
  BY FixingIs
<1> HIDE DEF f
<1>3. Doing(f, n, r) /\ Stage(n, x, b) /\ Completes(r, b, x)
  BY <1>1 DEF f
<1>4. Top.code # <<>> /\ Top.code[1] = f[n]
  BY <1>2, <1>3, DoingNow
<1>5. /\ Top.code[1] = Load => LoadCursor
      /\ \A m \in Int : Top.code[1] = Add(m) => AddToCursor /\ Operand = m
      /\ \A byte \in Bytes : Top.code[1] = Write(byte) => WriteByte /\ Operand = byte
      /\ Top.code[1] = Scroll => ScrollUp
  BY <1>4, StepIs
<1>6. /\ CursorOffset \in 0 .. TerminalSize /\ TerminalBuffer \in [Place -> Bytes] /\ beyond = {}
      /\ CursorOffset \in Nat /\ TerminalSize \in Nat /\ LineSize \in Nat /\ LineSize >= 2
      /\ TerminalSize >= 2 * LineSize /\ LineSize % 2 = 0 /\ TerminalSize % 2 = 0
  BY Sizes DEF FlowOK, Place
<1>7. x \in Bytes /\ Color \in Bytes
  BY DEF Bytes
<1>8. Going => UNCHANGED <<spurious, raced>>
  BY DEF Going
<1>9. Going => (Completes(r, b, x)' <=> Completes(r, b, x))
  BY ClaimKept DEF Completes, Going
<1>10. ASSUME Going, beyond' = {}, CursorOffset' \in 0 .. TerminalSize, TerminalBuffer' \in [Place -> Bytes]
       PROVE  FlowOK'
  BY <1>10, GoingOK DEF Place
<1>11. ASSUME Going, Top'.code = Tail(Top.code), n < 9, n + 1 \in 1 .. 9 => Stage(n + 1, x, b)'
       PROVE  Putting'
  <2>1. n + 1 \in 1 .. 9 /\ n # Len(f)
    BY <1>2, <1>11
  <2>2. Doing(f, n + 1, r)'
    BY <1>2, <1>3, <1>11, <2>1, DoingNext
  <2>3. Completes(r, b, x)'
    BY <1>3, <1>9, <1>11
  <2>4. Doing(Fixing(x), n + 1, r)'
    BY <2>2 DEF f
  <2> QED
    BY <1>11, <2>1, <2>3, <2>4 DEF Putting, Completes
<1>12. CASE n = 1 \/ n = 4 \/ n = 7
  <2>1. LoadCursor
    BY <1>2, <1>4, <1>5, <1>12
  <2>2. Going /\ Top'.code = Tail(Top.code) /\ Top'.reg = CursorOffset /\ UNCHANGED <<CursorOffset, TerminalBuffer, beyond>>
    BY <2>1, LoadEffect
  <2>3. n = 1 => Stage(2, x, b)'
    BY <1>3, <2>2 DEF Stage
  <2>4. n = 4 => Stage(5, x, b)'
    BY <1>3, <2>2 DEF Stage, Even
  <2>5. n = 7 => Stage(8, x, b)'
    BY <1>3, <2>2 DEF Stage, Even
  <2>6. Putting'
    BY <1>11, <1>12, <2>2, <2>3, <2>4, <2>5
  <2> QED
    BY <1>6, <1>8, <1>10, <2>2, <2>6
<1>13. CASE n = 2
  <2>1. CursorOffset = TerminalSize /\ Top.reg = CursorOffset /\ On(TerminalBuffer, CursorOffset, b)
    BY <1>3, <1>13 DEF Stage
  <2>2. -LineSize \in Int
    BY <1>6
  <2>3. AddToCursor /\ Operand = -LineSize
    BY <1>2, <1>4, <1>5, <1>13, <2>2
  <2>4. Going /\ Top'.code = Tail(Top.code) /\ CursorOffset' = (Top.reg + Operand) % Word /\ UNCHANGED <<TerminalBuffer, beyond>>
    BY <2>3, AddEffect
  <2>5. TerminalSize - LineSize \in 0 .. TerminalSize + LineSize /\ Top.reg + Operand = TerminalSize - LineSize
    BY <1>6, <2>1, <2>3
  <2>6. CursorOffset' = TerminalSize - LineSize
    BY <2>4, <2>5, Sizes
  <2>7. CursorOffset' + LineSize = TerminalSize /\ CursorOffset' \in 0 .. TerminalSize
    BY <1>6, <2>6
  <2>8. On(TerminalBuffer', CursorOffset' + LineSize, b)
    BY <2>1, <2>4, <2>7
  <2>9. Stage(3, x, b)'
    BY <2>7, <2>8 DEF Stage
  <2>10. Putting'
    BY <1>11, <1>13, <2>4, <2>9
  <2> QED
    BY <1>6, <1>8, <1>10, <2>4, <2>7, <2>10
<1>14. CASE n = 3
  <2>1. CursorOffset + LineSize = TerminalSize /\ On(TerminalBuffer, CursorOffset + LineSize, b)
    BY <1>3, <1>14 DEF Stage
  <2>2. ScrollUp
    BY <1>2, <1>4, <1>5, <1>14
  <2>3. Going /\ Top'.code = Tail(Top.code) /\ TerminalBuffer' = Scrolled /\ UNCHANGED <<CursorOffset, beyond>>
    BY <2>2, ScrollEffect
  <2>4. On(Scrolled, CursorOffset, b)
    BY <1>6, <2>1, TextScrolls
  <2>5. Even /\ CursorOffset < TerminalSize
    BY <1>6, <2>1 DEF Even
  <2>6. Stage(4, x, b)'
    BY <2>3, <2>4, <2>5 DEF Stage, Even
  <2>7. Putting'
    BY <1>11, <1>14, <2>3, <2>6
  <2>8. TerminalBuffer' \in [Place -> Bytes]
    BY <1>6, <2>3, ScrolledOK
  <2> QED
    BY <1>6, <1>8, <1>10, <2>3, <2>7, <2>8
<1>15. CASE n = 5
  <2>1. Even /\ CursorOffset < TerminalSize /\ On(TerminalBuffer, CursorOffset, b) /\ Top.reg = CursorOffset
    BY <1>3, <1>15 DEF Stage
  <2>2. AddToCursor /\ Operand = 1
    BY <1>2, <1>4, <1>5, <1>15
  <2>3. Going /\ Top'.code = Tail(Top.code) /\ CursorOffset' = (Top.reg + Operand) % Word /\ UNCHANGED <<TerminalBuffer, beyond>>
    BY <2>2, AddEffect
  <2>4. CursorOffset + 1 \in 0 .. TerminalSize + LineSize /\ Top.reg + Operand = CursorOffset + 1
    BY <1>6, <2>1, <2>2
  <2>5. CursorOffset' = CursorOffset + 1
    BY <2>3, <2>4, Sizes
  <2>6. ~Even' /\ CursorOffset' \in 0 .. TerminalSize /\ CursorOffset' - 1 = CursorOffset
    BY <1>6, <2>1, <2>5 DEF Even
  <2>7. Top'.reg = CursorOffset' - 1
    BY <2>1, <2>2, <2>6, ContinuesPlain, <1>4 DEF AddToCursor
  <2>8. On(TerminalBuffer', CursorOffset' - 1, b)
    BY <2>1, <2>3, <2>6
  <2>9. Stage(6, x, b)'
    BY <2>6, <2>7, <2>8 DEF Stage
  <2>10. Putting'
    BY <1>11, <1>15, <2>3, <2>9
  <2> QED
    BY <1>6, <1>8, <1>10, <2>3, <2>6, <2>10
<1>16. CASE n = 6
  <2>1. ~Even /\ Top.reg = CursorOffset - 1 /\ On(TerminalBuffer, CursorOffset - 1, b)
    BY <1>3, <1>16 DEF Stage
  <2>2. WriteByte /\ Operand = x
    BY <1>2, <1>4, <1>5, <1>7, <1>16
  <2>3. Top.reg \in Place /\ Top.reg < TerminalSize /\ CursorOffset - 1 \in 0 .. TerminalSize
    BY <1>6, <2>1 DEF Even, Place
  <2>4. Going /\ Top'.code = Tail(Top.code) /\ TerminalBuffer' = [TerminalBuffer EXCEPT ![Top.reg] = x] /\ UNCHANGED <<CursorOffset, beyond>>
    BY <2>2, <2>3, WriteEffect
  <2>5. TerminalBuffer' \in [Place -> Bytes] /\ TerminalBuffer'[CursorOffset - 1] = x
    BY <1>6, <1>7, <2>1, <2>3, <2>4
  <2>6. On([TerminalBuffer EXCEPT ![CursorOffset - 1] = x], CursorOffset - 1, b)
    <3> DEFINE q == CursorOffset - 1
    <3>1. q \in Place /\ q \in 0 .. TerminalSize /\ q >= q /\ On(TerminalBuffer, q, b)
      BY <1>6, <2>1, <2>3
    <3> HIDE DEF q
    <3>2. On([TerminalBuffer EXCEPT ![q] = x], q, b)
      BY <1>6, <3>1, TextBefore
    <3> QED
      BY <3>2 DEF q
  <2>7. On(TerminalBuffer', CursorOffset' - 1, b) /\ TerminalBuffer'[CursorOffset' - 1] = x
    BY <2>1, <2>4, <2>5, <2>6
  <2>8. Stage(7, x, b)'
    BY <2>1, <2>4, <2>7 DEF Stage, Even
  <2>9. Putting'
    BY <1>11, <1>16, <2>4, <2>8
  <2> QED
    BY <1>6, <1>8, <1>10, <2>4, <2>5, <2>9
<1>17. CASE n = 8
  <2>1. /\ ~Even /\ Top.reg = CursorOffset /\ On(TerminalBuffer, CursorOffset - 1, b)
        /\ TerminalBuffer[CursorOffset - 1] = x
    BY <1>3, <1>17 DEF Stage
  <2>2. AddToCursor /\ Operand = 1
    BY <1>2, <1>4, <1>5, <1>17
  <2>3. Going /\ Top'.code = Tail(Top.code) /\ CursorOffset' = (Top.reg + Operand) % Word /\ UNCHANGED <<TerminalBuffer, beyond>>
    BY <2>2, AddEffect
  <2>4. CursorOffset + 1 \in 0 .. TerminalSize + LineSize /\ Top.reg + Operand = CursorOffset + 1
    BY <1>6, <2>1, <2>2
  <2>5. CursorOffset' = CursorOffset + 1
    BY <2>3, <2>4, Sizes
  <2>6. Even' /\ CursorOffset' \in 0 .. TerminalSize /\ CursorOffset' - 1 = CursorOffset /\ CursorOffset' - 2 = CursorOffset - 1
        /\ CursorOffset' >= 2
    BY <1>6, <2>1, <2>5 DEF Even
  <2>7. Top'.reg = CursorOffset' - 1
    BY <2>1, <2>2, <2>6, ContinuesPlain, <1>4 DEF AddToCursor
  <2>8. On(TerminalBuffer', CursorOffset' - 2, b) /\ TerminalBuffer'[CursorOffset' - 2] = x
    BY <2>1, <2>3, <2>6
  <2>9. Stage(9, x, b)'
    BY <2>6, <2>7, <2>8 DEF Stage
  <2>10. Putting'
    BY <1>11, <1>17, <2>3, <2>9
  <2> QED
    BY <1>6, <1>8, <1>10, <2>3, <2>6, <2>10
<1>18. CASE n = 9
  <2>1. /\ Even /\ CursorOffset >= 2 /\ Top.reg = CursorOffset - 1
        /\ On(TerminalBuffer, CursorOffset - 2, b) /\ TerminalBuffer[CursorOffset - 2] = x
    BY <1>3, <1>18 DEF Stage
  <2>2. WriteByte /\ Operand = Color
    BY <1>2, <1>4, <1>5, <1>7, <1>18
  <2>3. Top.reg \in Place /\ Top.reg < TerminalSize /\ CursorOffset - 2 \in 0 .. TerminalSize /\ Top.reg >= CursorOffset - 2
        /\ Top.reg # CursorOffset - 2 /\ CursorOffset - 2 \in Place
    BY <1>6, <2>1 DEF Even, Place
  <2>4. Going /\ Top'.code = Tail(Top.code) /\ TerminalBuffer' = [TerminalBuffer EXCEPT ![Top.reg] = Color] /\ UNCHANGED <<CursorOffset, beyond>>
    BY <2>2, <2>3, WriteEffect
  <2>5. TerminalBuffer' \in [Place -> Bytes] /\ TerminalBuffer'[CursorOffset - 2] = x
    BY <1>6, <1>7, <2>1, <2>3, <2>4
  <2>6. On([TerminalBuffer EXCEPT ![Top.reg] = Color], CursorOffset - 2, b)
    <3> DEFINE q == Top.reg
               p == CursorOffset - 2
    <3>1. q \in Place /\ p \in 0 .. TerminalSize /\ q >= p /\ On(TerminalBuffer, p, b)
      BY <2>1, <2>3
    <3> HIDE DEF q, p
    <3>2. On([TerminalBuffer EXCEPT ![q] = Color], p, b)
      BY <1>6, <3>1, TextBefore
    <3> QED
      BY <3>2 DEF q, p
  <2>8. Top'.code = r
    BY <1>2, <1>3, <1>18, <2>4, DoingNext
  <2>9. CursorOffset' \in Nat /\ Even' /\ CursorOffset' >= 2 /\ Completes(r, b, x)'
    BY <1>3, <1>6, <1>9, <2>1, <2>4 DEF Even
  <2> DEFINE p == CursorOffset - 2
  <2>11. p \in Nat /\ CursorOffset' = p + 2
    BY <1>6, <2>1, <2>4
  <2>12. On(TerminalBuffer', p, b) /\ TerminalBuffer'[p] = x
    BY <2>4, <2>5, <2>6
  <2> HIDE DEF p
  <2>10. (Between \/ GoingBack)'
    BY <2>8, <2>9, <2>11, <2>12, WrittenOut
  <2> QED
    BY <1>6, <1>8, <1>10, <2>4, <2>5, <2>10
<1> QED
  BY <1>12, <1>13, <1>14, <1>15, <1>16, <1>17, <1>18

-----------------------------------------------------------------------------
\* Going back, to another line, or nowhere

LEMMA GoingBackGoesOn ==
    ASSUME FlowOK, GoingBack, Execute, UNCHANGED others
    PROVE  FlowOK' /\ UNCHANGED <<spurious, raced>> /\ (Between \/ GoingBack)'
<1>1. PICK n \in {1, 2}, r \in Rests, b \in Texts :
        /\ Doing(Back, n, r) /\ Even /\ CursorOffset >= 2
        /\ n = 2 => Top.reg = CursorOffset
        /\ On(TerminalBuffer, CursorOffset - 2, b) /\ Leads(r, b)
  BY DEF GoingBack
<1>2. Back \in Rests /\ Len(Back) = 2 /\ Back[1] = Load /\ Back[2] = Add(-2)
  BY Routines
<1>3. Top.code # <<>> /\ Top.code[1] = Back[n]
  BY <1>1, <1>2, DoingNow
<1>4. Top.code[1] = Load => LoadCursor
  BY <1>3, StepIs
<1>5. \A m \in Int : Top.code[1] = Add(m) => AddToCursor /\ Operand = m
  BY <1>3, StepIs
<1>6. /\ CursorOffset \in 0 .. TerminalSize /\ TerminalBuffer \in [Place -> Bytes] /\ beyond = {}
      /\ CursorOffset \in Nat /\ TerminalSize \in Nat /\ LineSize \in Nat
  BY Sizes DEF FlowOK, Place
<1>7. CASE n = 1
  <2>1. LoadCursor
    BY <1>2, <1>3, <1>4, <1>7
  <2>2. Going /\ Top'.code = Tail(Top.code) /\ Top'.reg = CursorOffset /\ UNCHANGED <<CursorOffset, TerminalBuffer, beyond>>
    BY <2>1, LoadEffect
  <2>3. Doing(Back, 2, r)'
    BY <1>1, <1>2, <1>7, <2>2, DoingNext
  <2>4. UNCHANGED <<spurious, raced>>
    BY <2>2 DEF Going
  <2>5. Leads(r, b)'
    BY <1>1, <2>4, ClaimKept
  <2>6. On(TerminalBuffer', CursorOffset' - 2, b) /\ CursorOffset' >= 2 /\ Even' /\ Top'.reg = CursorOffset'
    BY <1>1, <2>2 DEF Even
  <2>7. GoingBack'
    BY <2>3, <2>5, <2>6 DEF GoingBack
  <2>8. FlowOK'
    BY <1>6, <2>2, GoingOK DEF Place
  <2> QED
    BY <2>4, <2>7, <2>8
<1>8. CASE n = 2
  <2>1. AddToCursor /\ Operand = -2
    BY <1>2, <1>3, <1>5, <1>8
  <2>2. Going /\ Top'.code = Tail(Top.code) /\ CursorOffset' = (Top.reg + Operand) % Word /\ UNCHANGED <<TerminalBuffer, beyond>>
    BY <2>1, AddEffect
  <2>3. Top'.code = r
    BY <1>1, <1>2, <1>8, <2>2, DoingNext
  <2>4. CursorOffset - 2 \in 0 .. TerminalSize + LineSize /\ Top.reg + Operand = CursorOffset - 2
    BY <1>1, <1>6, <1>8, <2>1
  <2>5. CursorOffset' = CursorOffset - 2
    BY <2>2, <2>4, Sizes
  <2>6. CursorOffset' \in 0 .. TerminalSize /\ Even'
    BY <1>1, <1>6, <2>5 DEF Even
  <2>7. UNCHANGED <<spurious, raced>>
    BY <2>2 DEF Going
  <2>8. Leads(r, b)'
    BY <1>1, <2>7, ClaimKept
  <2>9. On(TerminalBuffer', CursorOffset', b)
    BY <1>1, <2>2, <2>5
  <2>10. Between'
    BY <1>1, <2>3, <2>6, <2>8, <2>9, BetweenNext
  <2>11. FlowOK'
    BY <1>6, <2>2, <2>6, GoingOK DEF Place
  <2> QED
    BY <2>7, <2>10, <2>11
<1> QED
  BY <1>7, <1>8

LEMMA MovingGoesOn ==
    ASSUME FlowOK, Moving, Execute, UNCHANGED others
    PROVE  FlowOK' /\ UNCHANGED <<spurious, raced>> /\ (Between \/ Moving)'
<1> DEFINE Begin == <<Load, Line>>
           Down == <<Load, Add(LineSize)>>
           Up == <<Scroll>>
<1>1. PICK f \in {Begin, Down, Up}, n \in {1, 2}, r \in Rests :
        /\ Doing(f, n, r) /\ r \in Seq(Puts) /\ Even /\ ~Claimed
        /\ n = 2 => Top.reg = CursorOffset
        /\ f = Down => CursorOffset + LineSize < TerminalSize
  BY DEF Moving
<1>2. Begin \in Rests /\ Down \in Rests /\ Up \in Rests
  BY Routines
<1>3. /\ Len(Begin) = 2 /\ Begin[1] = Load /\ Begin[2] = Line
      /\ Len(Down) = 2 /\ Down[1] = Load /\ Down[2] = Add(LineSize)
      /\ Len(Up) = 1 /\ Up[1] = Scroll
  OBVIOUS
<1>4. Begin = <<Load, Line>> /\ Down = <<Load, Add(LineSize)>> /\ Up = <<Scroll>>
  OBVIOUS
<1> HIDE DEF Begin, Down, Up
<1>5. f \in Rests
  BY <1>1, <1>2
<1>6. Top.code # <<>> /\ Top.code[1] = f[n] /\ n \in 1 .. Len(f)
  BY <1>1, <1>5, DoingNow DEF Doing
<1>7. /\ Top.code[1] = Load => LoadCursor
      /\ Top.code[1] = Line => BeginLine
      /\ Top.code[1] = Scroll => ScrollUp
  BY <1>6, StepIs
<1>8. \A m \in Int : Top.code[1] = Add(m) => AddToCursor /\ Operand = m
  BY <1>6, StepIs
<1>9. /\ CursorOffset \in 0 .. TerminalSize /\ TerminalBuffer \in [Place -> Bytes] /\ beyond = {}
      /\ CursorOffset \in Nat /\ TerminalSize \in Nat /\ LineSize \in Nat /\ LineSize % 2 = 0
  BY Sizes DEF FlowOK, Place
<1>10. ASSUME Going PROVE UNCHANGED <<spurious, raced>> /\ ~Claimed' /\ Leads(r, <<>>)'
  <2>1. UNCHANGED <<spurious, raced>>
    BY <1>10 DEF Going
  <2>2. ~Claimed'
    BY <1>1, <2>1, ClaimKept
  <2> QED
    BY <1>1, <2>1, <2>2 DEF Leads
<1>11. ASSUME Going, Top'.code = r, Even', CursorOffset' \in 0 .. TerminalSize,
              TerminalBuffer' \in [Place -> Bytes], beyond' = {}
       PROVE  FlowOK' /\ UNCHANGED <<spurious, raced>> /\ Between'
  <2>1. FlowOK'
    BY <1>11, GoingOK DEF Place
  <2>2. <<>> \in Texts /\ On(TerminalBuffer', CursorOffset', <<>>)
    BY NoText
  <2>3. UNCHANGED <<spurious, raced>> /\ Leads(r, <<>>)'
    BY <1>10, <1>11
  <2>4. Between'
    BY <1>1, <1>11, <2>2, <2>3, BetweenNext
  <2> QED
    BY <2>1, <2>3, <2>4
<1>12. CASE n = 1 /\ f # Up
  <2>1. f[1] = Load /\ Len(f) = 2
    BY <1>1, <1>3, <1>12
  <2>2. LoadCursor
    BY <1>6, <1>7, <1>12, <2>1
  <2>3. Going /\ Top'.code = Tail(Top.code) /\ Top'.reg = CursorOffset /\ UNCHANGED <<CursorOffset, TerminalBuffer, beyond>>
    BY <2>2, LoadEffect
  <2>11. n # Len(f) /\ n + 1 = 2
    BY <1>12, <2>1
  <2>12. Doing(f, n + 1, r)'
    BY <1>1, <1>5, <2>3, <2>11, DoingNext
  <2>4. Doing(f, 2, r)'
    BY <2>11, <2>12
  <2>5. UNCHANGED <<spurious, raced>> /\ ~Claimed'
    BY <1>10, <2>3
  <2>6. FlowOK'
    BY <1>9, <2>3, GoingOK DEF Place
  <2>7. Even' /\ Top'.reg = CursorOffset' /\ (f = Down => CursorOffset' + LineSize < TerminalSize)
    BY <1>1, <2>3 DEF Even
  <2>9. f \in {<<Load, Line>>, <<Load, Add(LineSize)>>, <<Scroll>>} /\ 2 \in {1, 2}
    BY <1>1, <1>4
  <2>10. f = <<Load, Add(LineSize)>> => CursorOffset' + LineSize < TerminalSize
    BY <1>4, <2>7
  <2>8. Moving'
    BY <1>1, <2>4, <2>5, <2>7, <2>9, <2>10, Zenon DEF Moving
  <2> QED
    BY <2>5, <2>6, <2>8
<1>13. CASE n = 2 /\ f = Begin
  <2>1. BeginLine /\ Top.reg = CursorOffset
    BY <1>1, <1>3, <1>6, <1>7, <1>13
  <2>2. /\ Going /\ Top'.code = Tail(Top.code)
        /\ CursorOffset' = (IF CursorOffset < TerminalSize THEN LineSize * (CursorOffset \div LineSize) ELSE CursorOffset)
        /\ UNCHANGED <<TerminalBuffer, beyond>>
    BY <2>1, LineEffect
  <2>3. Top'.code = r
    BY <1>1, <1>3, <1>5, <1>13, <2>2, DoingNext
  <2>4. CursorOffset' \in 0 .. TerminalSize /\ Even'
    <3>1. /\ LineSize * (CursorOffset \div LineSize) \in 0 .. TerminalSize
          /\ (LineSize * (CursorOffset \div LineSize)) % 2 = 0
      BY <1>9, LineBegin
    <3> DEFINE q == LineSize * (CursorOffset \div LineSize)
    <3>2. CursorOffset' = q \/ CursorOffset' = CursorOffset
      BY <2>2
    <3>3. q \in 0 .. TerminalSize /\ q % 2 = 0
      BY <3>1
    <3> HIDE DEF q
    <3> QED
      BY <1>1, <1>9, <3>2, <3>3 DEF Even
  <2> QED
    BY <1>9, <1>11, <2>2, <2>3, <2>4
<1>14. CASE n = 2 /\ f = Down
  <2>1. AddToCursor /\ Operand = LineSize /\ Top.reg = CursorOffset /\ CursorOffset + LineSize < TerminalSize
    BY <1>1, <1>3, <1>6, <1>8, <1>9, <1>14
  <2>2. Going /\ Top'.code = Tail(Top.code) /\ CursorOffset' = (Top.reg + Operand) % Word /\ UNCHANGED <<TerminalBuffer, beyond>>
    BY <2>1, AddEffect
  <2>3. Top'.code = r
    BY <1>1, <1>3, <1>5, <1>14, <2>2, DoingNext
  <2>4. CursorOffset + LineSize \in 0 .. TerminalSize + LineSize /\ Top.reg + Operand = CursorOffset + LineSize
    BY <1>9, <2>1
  <2>5. CursorOffset' = CursorOffset + LineSize
    BY <2>2, <2>4, Sizes
  <2>6. CursorOffset' \in 0 .. TerminalSize /\ Even'
    BY <1>1, <1>9, <2>1, <2>5 DEF Even
  <2> QED
    BY <1>9, <1>11, <2>2, <2>3, <2>6
<1>15. CASE f = Up
  <2>1. n = 1 /\ n = Len(f)
    BY <1>3, <1>6, <1>15
  <2>2. ScrollUp
    BY <1>3, <1>6, <1>7, <1>15, <2>1
  <2>3. Going /\ Top'.code = Tail(Top.code) /\ TerminalBuffer' = Scrolled /\ UNCHANGED <<CursorOffset, beyond>>
    BY <2>2, ScrollEffect
  <2>4. Top'.code = r
    BY <1>1, <1>5, <2>1, <2>3, DoingNext
  <2>5. TerminalBuffer' \in [Place -> Bytes]
    BY <1>9, <2>3, ScrolledOK
  <2>6. Even' /\ CursorOffset' \in 0 .. TerminalSize
    BY <1>1, <1>9, <2>3 DEF Even
  <2> QED
    BY <1>9, <1>11, <2>3, <2>4, <2>5, <2>6
<1> QED
  BY <1>1, <1>12, <1>13, <1>14, <1>15

-----------------------------------------------------------------------------
\* The test of the cursor

LEMMA Prefixed ==
    ASSUME NEW S, NEW i \in S, NEW s \in Seq(S)
    PROVE  /\ <<i>> \o s \in Seq(S) /\ <<i>> \o s # <<>> /\ (<<i>> \o s)[1] = i
           /\ Tail(<<i>> \o s) = s /\ Len(<<i>> \o s) = Len(s) + 1
<1> DEFINE f == <<i>>
<1>1. f \in Seq(S) /\ Len(f) = 1 /\ f[1] = i
  OBVIOUS
<1> HIDE DEF f
<1>2. SubSeq(f, 1, Len(f)) = f
  BY <1>1, SubSeqFull
<1>3. 1 \in 1 .. Len(f)
  BY <1>1
<1>4. ASSUME NEW n \in 1 .. Len(f), n = Len(f)
      PROVE  LET z == SubSeq(f, n, Len(f)) \o s IN z \in Seq(S) /\ z # <<>> /\ z[1] = f[n] /\ Tail(z) = s
  BY <1>1, <1>4, Suffix
<1>5. Len(f \o s) = Len(f) + Len(s)
  BY <1>1, ConcatProperties
<1>6. Len(s) \in Nat
  OBVIOUS
<1>7. f \o s \in Seq(S) /\ f \o s # <<>> /\ (f \o s)[1] = i /\ Tail(f \o s) = s /\ Len(f \o s) = Len(s) + 1
  BY <1>1, <1>2, <1>4, <1>5, <1>6
<1> QED
  BY <1>7 DEF f

LEMMA StartOfRoutine ==
    ASSUME NEW f \in Rests, NEW r \in Rests, Len(f) \in {1, 2}, Top'.code = f \o r
    PROVE  Doing(f, 1, r)'
<1>1. SubSeq(f, 1, Len(f)) = f /\ Len(f) \in Nat
  BY SubSeqFull DEF Rests
<1>2. 1 \in 1 .. Len(f)
  BY <1>1
<1> QED
  BY <1>1, <1>2 DEF Doing

LEMMA Blanking ==
    /\ Space \in Chars /\ Blank \in Rests /\ Len(Blank) = 3 /\ Blank # <<>>
    /\ Blank[1] = Put(Space) /\ Tail(Blank) = Back
    /\ Erase = <<IfNotFirst(5)>> \o (Back \o Blank) /\ Back \o Blank \in Rests /\ Len(Back \o Blank) = 5
<1>1. Space \in Chars
  BY Zenon DEF Chars, Visible, Space
<1>2. Put(Space) \in Instr
  BY <1>1 DEF Instr
<1>3. Back \in Seq(Instr) /\ Len(Back) = 2
  BY Routines DEF Rests
<1> DEFINE p == <<Put(Space)>>
<1>4. \A i \in Instr : <<i>> \in Seq(Instr)
  OBVIOUS
<1>5. /\ Blank \in Seq(Instr) /\ Blank # <<>> /\ Blank[1] = Put(Space) /\ Tail(Blank) = Back
      /\ Len(Blank) = Len(Back) + 1
  BY <1>2, <1>3, Prefixed DEF Blank
<1>6. Len(Blank) = 3
  BY <1>3, <1>5
<1>7. Back \o Blank \in Seq(Instr) /\ Len(Back \o Blank) = Len(Back) + Len(Blank)
  BY <1>3, <1>5, ConcatProperties
<1>8. Len(Back \o Blank) = 5
  BY <1>3, <1>6, <1>7
<1>9. p \in Seq(Instr)
  BY <1>2, <1>4
<1> HIDE DEF p
<1>10. (Back \o p) \o Back = Back \o (p \o Back)
  BY <1>3, <1>9, ConcatAssociative
<1>11. Back \o <<Put(Space)>> \o Back = Back \o Blank
  BY <1>10 DEF p, Blank
<1>12. Erase = <<IfNotFirst(Len(Back \o <<Put(Space)>> \o Back))>> \o (Back \o <<Put(Space)>> \o Back)
  BY Zenon DEF Erase, Space
<1>13. Erase = <<IfNotFirst(5)>> \o (Back \o Blank)
  BY <1>8, <1>11, <1>12, Zenon
<1> QED
  BY <1>1, <1>5, <1>6, <1>7, <1>8, <1>13 DEF Rests

LEMMA ShownOK == ASSUME ReadingOK PROVE Shown \in Texts
<1>1. length \in Nat /\ length <= MaxLength /\ result \in [0 .. MaxLength -> Chars] /\ character \in Chars /\ MaxLength \in Nat
  BY ConsoleAssumption DEF ReadingOK
<1>2. \A k \in 1 .. length : result[k - 1] \in Chars
  BY <1>1
<1> DEFINE line == [k \in 1 .. length |-> result[k - 1]]
<1>3. line \in [1 .. length -> Chars]
  BY <1>2
<1>4. line \in Seq(Chars)
  BY <1>1, <1>3
<1>5. \A a \in Chars : <<a>> \in Seq(Chars)
  OBVIOUS
<1>6. <<character>> \in Seq(Chars) /\ <<>> \in Seq(Chars)
  BY <1>1, <1>5
<1>7. Shown = line \/ Shown = <<character>> \/ Shown = <<>>
  BY DEF Shown
<1> HIDE DEF line
<1> QED
  BY <1>4, <1>6, <1>7 DEF Texts

LEMMA TestingGoesOn ==
    ASSUME FlowOK, ReadingOK, Testing, Execute, UNCHANGED others
    PROVE  FlowOK' /\ UNCHANGED <<spurious, raced>> /\ (Between \/ GoingBack)'
<1>1. /\ CursorOffset \in 0 .. TerminalSize /\ TerminalBuffer \in [Place -> Bytes] /\ beyond = {}
      /\ CursorOffset \in Nat /\ TerminalSize \in Nat
  BY Sizes DEF FlowOK, Place
<1>2. Back \in Rests /\ Len(Back) = 2 /\ <<>> \in Rests /\ \A c \in Chars : <<Put(c)>> \in Seq(Puts)
  BY Routines
<1>3. /\ Blank \in Rests /\ Len(Blank) = 3
      /\ Erase = <<IfNotFirst(5)>> \o (Back \o Blank) /\ Back \o Blank \in Rests /\ Len(Back \o Blank) = 5
  BY Blanking
<1>4. \A n \in Nat : IfNotFirst(n) \in Instr
  BY DEF Instr
<1>5. ASSUME Going, UNCHANGED <<CursorOffset, TerminalBuffer, beyond>>
      PROVE  /\ FlowOK' /\ UNCHANGED <<spurious, raced>> /\ (Even' <=> Even)
             /\ Claimed' <=> Claimed
             /\ Shown' = Shown
             /\ \A r, b : Leads(r, b)' <=> Leads(r, b)
  <2>1. FlowOK'
    BY <1>1, <1>5, GoingOK DEF Place
  <2>2. UNCHANGED <<spurious, raced>> /\ (Even' <=> Even)
    BY <1>5 DEF Going, Even
  <2> QED
    BY <2>1, <2>2, ClaimKept
<1>6. CASE /\ Top.code = Erase /\ Even
           /\ Claimed /\ CursorOffset >= 2 => On(TerminalBuffer, CursorOffset - 2, Shown)
  <2> DEFINE s == Back \o Blank
  <2>1. s \in Seq(Instr) /\ Len(s) = 5 /\ IfNotFirst(5) \in Instr
    BY <1>3, <1>4 DEF Rests
  <2>2. Top.code = <<IfNotFirst(5)>> \o s
    BY <1>3, <1>6
  <2>3. PICK b \in Texts : (Claimed => b = Shown) /\ (~Claimed => b = <<>>)
    BY ShownOK, NoText
  <2> DEFINE i == IfNotFirst(5)
  <2> HIDE DEF s, i
  <2>41. i \in Instr /\ s \in Seq(Instr) /\ Top.code = <<i>> \o s
    BY <2>1, <2>2 DEF i
  <2>42. /\ Top.code \in Seq(Instr) /\ Top.code # <<>> /\ Top.code[1] = i
         /\ Tail(Top.code) = s /\ Len(Top.code) = Len(s) + 1
    BY <2>41, Prefixed
  <2>4. /\ Top.code \in Seq(Instr) /\ Top.code # <<>> /\ Top.code[1] = IfNotFirst(5)
        /\ Tail(Top.code) = s /\ Len(Top.code) = 6
    BY <2>1, <2>42 DEF i
  <2>5. TestFirst /\ Operand = 5
    BY <2>4, StepIs
  <2> DEFINE code == IF CursorOffset = 0 THEN <<>> ELSE s
  <2>6. SubSeq(Top.code, Operand + 2, Len(Top.code)) = <<>>
    BY <2>4, <2>5, SubSeqEmpty
  <2>7. code = (IF CursorOffset = 0 THEN SubSeq(Top.code, Operand + 2, Len(Top.code)) ELSE Tail(Top.code))
    BY <2>4, <2>6
  <2>8. code \in Seq(Instr)
    BY <1>2, <2>1 DEF Rests
  <2> HIDE DEF code
  <2>9. Going /\ Top'.code = code /\ UNCHANGED <<CursorOffset, TerminalBuffer, beyond>>
    BY <2>4, <2>5, <2>7, <2>8, TestEffect
  <2>10. CASE CursorOffset = 0
    <3>1. Top'.code = <<>> /\ CursorOffset' = 0
      BY <2>9, <2>10 DEF code
    <3>2. On(TerminalBuffer', CursorOffset', b)
      <4>1. Len(b) \in Nat
        BY <2>3 DEF Texts
      <4>2. \A k \in 1 .. Len(b) : ~(2 * k <= 0)
        BY <4>1
      <4> QED
        BY <3>1, <4>2 DEF On
    <3>3. <<>> \in Seq(Puts)
      OBVIOUS
    <3>4. Leads(<<>>, b)
      BY <2>3, <3>3 DEF Leads
    <3>51. \A r, c : Leads(r, c)' <=> Leads(r, c)
      BY <1>5, <2>9
    <3>52. Even' /\ FlowOK' /\ UNCHANGED <<spurious, raced>>
      BY <1>5, <1>6, <2>9
    <3>5. Leads(<<>>, b)' /\ Even' /\ FlowOK' /\ UNCHANGED <<spurious, raced>>
      BY <3>4, <3>51, <3>52
    <3> QED
      BY <1>2, <2>3, <3>1, <3>2, <3>5, BetweenNext
  <2>11. CASE CursorOffset # 0
    <3>1. Top'.code = Back \o Blank
      BY <2>9, <2>11 DEF code, s
    <3> DEFINE f == Back
               r == Blank
    <3>21. f \in Rests /\ r \in Rests /\ Len(f) = 2 /\ Top'.code = f \o r
      BY <1>2, <1>3, <3>1
    <3> HIDE DEF f, r
    <3>22. Doing(f, 1, r)'
      BY <3>21, StartOfRoutine
    <3>2. Doing(Back, 1, Blank)'
      BY <3>22 DEF f, r
    <3>3. CursorOffset >= 2
      BY <1>1, <1>6, <2>11 DEF Even
    <3>4. On(TerminalBuffer, CursorOffset - 2, b)
      BY <1>6, <2>3, <3>3, NoText
    <3>5. Leads(Blank, b)
      BY <2>3 DEF Leads
    <3>61. \A q, c : Leads(q, c)' <=> Leads(q, c)
      BY <1>5, <2>9
    <3>62. Even' /\ FlowOK' /\ UNCHANGED <<spurious, raced>>
      BY <1>5, <1>6, <2>9
    <3>6. Leads(Blank, b)' /\ Even' /\ FlowOK' /\ UNCHANGED <<spurious, raced>>
      BY <3>5, <3>61, <3>62
    <3>7. CursorOffset' >= 2 /\ On(TerminalBuffer', CursorOffset' - 2, b)
      BY <2>9, <3>3, <3>4
    <3>8. GoingBack'
      BY <1>3, <2>3, <3>2, <3>6, <3>7 DEF GoingBack
    <3> QED
      BY <3>6, <3>8
  <2> QED
    BY <2>10, <2>11
<1>7. ASSUME NEW x \in Chars, Top.code = StepBack \o <<Put(x)>>, Even, Claimed => x \in Visible /\ Shown = <<x>>
      PROVE  FlowOK' /\ UNCHANGED <<spurious, raced>> /\ (Between \/ GoingBack)'
  <2> DEFINE i == IfNotFirst(2)
             p == <<Put(x)>>
             s == Back \o p
  <2>1. p \in Seq(Puts) /\ p \in Seq(Instr) /\ Len(p) = 1 /\ p # <<>>
    BY Routines DEF Rests
  <2>2. i \in Instr /\ <<i>> \in Seq(Instr)
    BY <1>4
  <2>3. StepBack = <<i>> \o Back
    BY <1>2 DEF StepBack
  <2> HIDE DEF i, p
  <2>4. (<<i>> \o Back) \o p = <<i>> \o (Back \o p)
    BY <1>2, <2>1, <2>2, ConcatAssociative DEF Rests
  <2>5. s \in Seq(Instr) /\ Len(s) = Len(Back) + Len(p) /\ \A k \in 1 .. Len(Back) + Len(p) : s[k] = IF k <= Len(Back) THEN Back[k] ELSE p[k - Len(Back)]
    BY <1>2, <2>1, ConcatProperties DEF Rests
  <2>6. Len(s) = 3 /\ s[3] = p[1]
    BY <1>2, <2>1, <2>5
  <2>7. Top.code = <<i>> \o s
    BY <1>7, <2>3, <2>4 DEF p
  <2> HIDE DEF s
  <2>81. i \in Instr /\ s \in Seq(Instr) /\ Top.code = <<i>> \o s
    BY <2>2, <2>5, <2>7
  <2>82. /\ Top.code \in Seq(Instr) /\ Top.code # <<>> /\ Top.code[1] = i
         /\ Tail(Top.code) = s /\ Len(Top.code) = Len(s) + 1
    BY <2>81, Prefixed
  <2>8. /\ Top.code \in Seq(Instr) /\ Top.code # <<>> /\ Top.code[1] = i
        /\ Tail(Top.code) = s /\ Len(Top.code) = 4
    BY <2>6, <2>82
  <2>9. TestFirst /\ Operand = 2
    BY <2>8, StepIs DEF i
  <2> DEFINE code == IF CursorOffset = 0 THEN p ELSE s
  <2>10. SubSeq(Top.code, Operand + 2, Len(Top.code)) = p
    <3>1. 4 \in 1 .. Len(Top.code)
      BY <2>8
    <3> DEFINE q == SubSeq(Top.code, 4, Len(Top.code))
    <3>2. q \in Seq(Instr) /\ Len(q) = Len(Top.code) - 4 + 1 /\ \A k \in 1 .. Len(Top.code) - 4 + 1 : q[k] = Top.code[4 + k - 1]
      BY <2>8, <3>1, Part
    <3>3. Tail(Top.code)[3] = Top.code[3 + 1]
      BY <2>6, <2>8, HeadTailProperties
    <3> HIDE DEF q
    <3>4. Len(q) = 1 /\ q[1] = p[1]
      BY <2>6, <2>8, <3>2, <3>3
    <3>5. \A k \in 1 .. Len(q) : q[k] = p[k]
      BY <3>4
    <3>6. q = p
      BY <2>1, <3>2, <3>4, <3>5, SeqEqual
    <3> QED
      BY <2>9, <3>6 DEF q
  <2>11. code = (IF CursorOffset = 0 THEN SubSeq(Top.code, Operand + 2, Len(Top.code)) ELSE Tail(Top.code))
    BY <2>8, <2>10
  <2>12. code \in Seq(Instr)
    BY <2>1, <2>5
  <2> HIDE DEF code
  <2>13. Going /\ Top'.code = code /\ UNCHANGED <<CursorOffset, TerminalBuffer, beyond>>
    BY <2>8, <2>9, <2>11, <2>12, TestEffect
  <2>14. <<>> \in Texts /\ Append(<<>>, x) = <<x>>
    BY NoText
  <2>15. Leads(p, <<>>)
    BY <1>7, <2>1, <2>14 DEF Leads, p
  <2>16. Leads(p, <<>>)' /\ Even' /\ FlowOK' /\ UNCHANGED <<spurious, raced>>
    BY <1>5, <1>7, <2>13, <2>15
  <2>17. p \in Rests
    BY <2>1 DEF Rests
  <2>18. CASE CursorOffset = 0
    <3>1. Top'.code = p
      BY <2>13, <2>18 DEF code
    <3> QED
      BY <2>14, <2>16, <2>17, <3>1, BetweenNext, NoText
  <2>19. CASE CursorOffset # 0
    <3>1. Top'.code = Back \o p
      BY <2>13, <2>19 DEF code, s
    <3> DEFINE f == Back
    <3>21. f \in Rests /\ p \in Rests /\ Len(f) = 2 /\ Top'.code = f \o p
      BY <1>2, <2>17, <3>1
    <3> HIDE DEF f
    <3>22. Doing(f, 1, p)'
      BY <3>21, StartOfRoutine
    <3>2. Doing(Back, 1, p)'
      BY <3>22 DEF f
    <3>3. CursorOffset' >= 2
      BY <1>1, <1>7, <2>13, <2>19 DEF Even
    <3>4. On(TerminalBuffer', CursorOffset' - 2, <<>>)
      BY NoText
    <3>5. GoingBack'
      BY <2>14, <2>16, <2>17, <3>2, <3>3, <3>4 DEF GoingBack
    <3> QED
      BY <2>16, <3>5
  <2> QED
    BY <2>18, <2>19
<1> QED
  BY <1>6, <1>7 DEF Testing
-----------------------------------------------------------------------------
\* A character to be put

LEMMA TextIs == ASSUME NEW text \in Seq(Chars) PROVE Text(text) \in Seq(Puts)
<1>1. Len(text) \in Nat /\ \A k \in 1 .. Len(text) : Put(text[k]) \in Puts
  BY DEF Puts
<1>2. [k \in 1 .. Len(text) |-> Put(text[k])] \in [1 .. Len(text) -> Puts]
  BY <1>1
<1>3. [k \in 1 .. Len(text) |-> Put(text[k])] \in Seq(Puts)
  BY <1>1, <1>2
<1> QED
  BY <1>3 DEF Text

\* PutChar writes what is to be seen, behind a scroll at the end of the screen; whatever else
\* it is given makes it go on with characters, or move the cursor over whole places.
LEMMA BodyIs ==
    ASSUME FlowOK, NEW x \in Chars
    PROVE  \/ x \notin Visible /\ Body(x) \in Seq(Puts)
           \/ x \notin Visible /\ Body(x) = <<Load, Line>>
           \/ x \notin Visible /\ Body(x) = <<Load, Add(LineSize)>> /\ CursorOffset + LineSize < TerminalSize
           \/ x \notin Visible /\ Body(x) = <<Scroll>>
           \/ x \notin Visible /\ Body(x) = Back /\ CursorOffset >= 2
           \/ Body(x) = Fixing(x) /\ CursorOffset = TerminalSize
           \/ Body(x) = SubSeq(Fixing(x), 4, 9) /\ CursorOffset < TerminalSize
<1> DEFINE Others == {"TAB", "VT", "CR", "LF", "BS"}
<1>1. x \in Others => x \notin Visible
  BY Zenon DEF Visible
<1>2. \A a, b, c, d \in Chars : <<a, b, c, d>> \in Seq(Chars)
  OBVIOUS
<1>3. CASE x = "TAB"
  <2>1. Body(x) = Text(<<Space, Space, Space, Space>>)
    BY <1>3, Zenon DEF Body, Space
  <2>2. <<Space, Space, Space, Space>> \in Seq(Chars)
    BY <1>2, Blanking
  <2> QED
    BY <1>1, <1>3, <2>1, <2>2, TextIs
<1>4. CASE x = "VT"
  <2>1. Body(x) = Text(<<"LF", "LF", "LF", "LF">>)
    BY <1>4, SMT DEF Body
  <2>2. "LF" \in Chars
    BY Zenon DEF Chars
  <2>3. <<"LF", "LF", "LF", "LF">> \in Seq(Chars)
    BY <1>2, <2>2
  <2> QED
    BY <1>1, <1>4, <2>1, <2>3, TextIs
<1>5. CASE x = "CR"
  BY <1>1, <1>5, SMT DEF Body
<1>6. CASE x = "LF"
  <2>1. Body(x) = (IF CursorOffset + LineSize < TerminalSize THEN <<Load, Add(LineSize)>> ELSE <<Scroll>>)
    BY <1>6, SMT DEF Body
  <2> QED
    BY <1>1, <1>6, <2>1
<1>7. CASE x = "BS"
  <2>1. Body(x) = (IF CursorOffset >= 2 THEN Back ELSE <<>>)
    BY <1>7, SMT DEF Body
  <2>2. <<>> \in Seq(Puts)
    OBVIOUS
  <2> QED
    BY <1>1, <1>7, <2>1, <2>2
<1>8. CASE x \notin Others
  <2>1. Body(x) = PutVisible(x)
    BY <1>8, Zenon DEF Body
  <2>2. CursorOffset \in 0 .. TerminalSize /\ TerminalSize \in Nat
    BY Sizes DEF FlowOK
  <2>3. CASE CursorOffset = TerminalSize
    <3>1. CursorOffset >= TerminalSize
      BY <2>2, <2>3
    <3>2. PutVisible(x) = FixCursorPosition \o PutByte(x) \o PutByte(Color)
      BY <3>1 DEF PutVisible
    <3> QED
      BY <2>1, <2>3, <3>2 DEF Fixing
  <2>4. CASE CursorOffset # TerminalSize
    <3>1. ~(CursorOffset >= TerminalSize) /\ CursorOffset < TerminalSize
      BY <2>2, <2>4
    <3>2. PutVisible(x) = <<>> \o PutByte(x) \o PutByte(Color)
      BY <3>1 DEF PutVisible
    <3>3. x \in Bytes
      BY DEF Bytes
    <3>4. PutByte(x) \in Seq(Instr)
      BY <3>3, PutByteIs
    <3>5. <<>> \o PutByte(x) = PutByte(x)
      BY <3>4, Nothing
    <3>6. PutByte(x) \o PutByte(Color) = SubSeq(Fixing(x), 4, 9)
      BY FixingIs
    <3> QED
      BY <2>1, <3>1, <3>2, <3>5, <3>6
  <2> QED
    BY <2>3, <2>4
<1> QED
  BY <1>3, <1>4, <1>5, <1>6, <1>7, <1>8
LEMMA PutGoesOn ==
    ASSUME FlowOK, Even, NEW x \in Chars, NEW r \in Rests, NEW b \in Texts, On(TerminalBuffer, CursorOffset, b),
           Top.code # <<>>, Top.code[1] = Put(x), Tail(Top.code) = r, Completes(r, b, x),
           x \notin Visible => r \in Seq(Puts) /\ ~Claimed, Execute, UNCHANGED others
    PROVE  FlowOK' /\ UNCHANGED <<spurious, raced>> /\ (Between \/ Putting \/ GoingBack \/ Moving)'
<1>1. PutChar /\ Operand = x
  BY StepIs
<1>2. /\ CursorOffset \in 0 .. TerminalSize /\ TerminalBuffer \in [Place -> Bytes] /\ beyond = {}
      /\ CursorOffset \in Nat /\ TerminalSize \in Nat
  BY Sizes DEF FlowOK, Place
<1>3. PICK body : body = Body(x)
  OBVIOUS
<1> DEFINE f == Fixing(x)
<1>4. f \in Rests /\ Len(f) = 9
  BY FixingIs
<1>5. SubSeq(f, 1, 9) = f
  BY <1>4, SubSeqFull DEF Rests
<1>6. 4 \in 1 .. Len(f)
  BY <1>4
<1> HIDE DEF f
<1>7. SubSeq(f, 4, Len(f)) \in Seq(Instr)
  BY <1>4, <1>6, Part DEF Rests
<1>8. /\ Back \in Rests /\ <<Load, Line>> \in Rests /\ <<Load, Add(LineSize)>> \in Rests
      /\ <<Scroll>> \in Rests /\ Seq(Puts) \subseteq Rests /\ Len(Back) = 2
  BY Routines
<1>9. Len(<<Load, Line>>) = 2 /\ Len(<<Load, Add(LineSize)>>) = 2 /\ Len(<<Scroll>>) = 1
  OBVIOUS
<1>10. \/ x \notin Visible /\ body \in Seq(Puts)
       \/ x \notin Visible /\ body = <<Load, Line>>
       \/ x \notin Visible /\ body = <<Load, Add(LineSize)>> /\ CursorOffset + LineSize < TerminalSize
       \/ x \notin Visible /\ body = <<Scroll>>
       \/ x \notin Visible /\ body = Back /\ CursorOffset >= 2
       \/ body = f /\ CursorOffset = TerminalSize
       \/ body = SubSeq(f, 4, 9) /\ CursorOffset < TerminalSize
  BY <1>3, BodyIs DEF f
<1>11. body \in Seq(Instr)
  BY <1>4, <1>7, <1>8, <1>10 DEF Rests
<1>12. Going /\ Top'.code = body \o r /\ UNCHANGED <<CursorOffset, TerminalBuffer, beyond>>
  BY <1>1, <1>3, <1>11, PutEffect
<1>13. FlowOK' /\ UNCHANGED <<spurious, raced>> /\ Even'
  <2>1. FlowOK'
    BY <1>2, <1>12, GoingOK DEF Place
  <2> QED
    BY <1>12, <2>1 DEF Going, Even
<1>14. /\ Claimed' <=> Claimed
       /\ \A q, c : Leads(q, c)' <=> Leads(q, c)
       /\ Completes(r, b, x)' <=> Completes(r, b, x)
  BY <1>13, ClaimKept DEF Completes
<1>15. <<>> \in Texts /\ On(TerminalBuffer', CursorOffset', <<>>) /\ On(TerminalBuffer', CursorOffset' - 2, <<>>)
  BY NoText
<1>16. x \notin Visible => ~Claimed' /\ r \in Seq(Puts) /\ Leads(r, <<>>)'
  BY <1>14 DEF Leads
<1>17. CASE x \notin Visible /\ body \in Seq(Puts)
  <2>1. body \o r \in Seq(Puts)
    BY <1>16, <1>17, ConcatProperties
  <2>2. PICK q \in Seq(Puts) : q = body \o r
    BY <2>1
  <2>3. Leads(q, <<>>)'
    BY <1>16, <1>17 DEF Leads
  <2>4. q \in Rests /\ Top'.code = q
    BY <1>8, <1>12, <2>2
  <2>5. Between'
    BY <1>13, <1>15, <2>3, <2>4, BetweenNext
  <2> QED
    BY <1>13, <2>5
<1>18. ASSUME NEW g \in {<<Load, Line>>, <<Load, Add(LineSize)>>, <<Scroll>>}, x \notin Visible, body = g,
              g = <<Load, Add(LineSize)>> => CursorOffset + LineSize < TerminalSize
       PROVE  Moving'
  <2>1. g \in Rests /\ Len(g) \in {1, 2}
    BY <1>8, <1>9
  <2>2. Doing(g, 1, r)'
    BY <1>12, <1>18, <2>1, StartOfRoutine
  <2>3. g = <<Load, Add(LineSize)>> => CursorOffset' + LineSize < TerminalSize
    BY <1>12, <1>18
  <2>4. 1 \in {1, 2} /\ ~(1 = 2)
    OBVIOUS
  <2> QED
    BY <1>13, <1>16, <1>18, <2>2, <2>3, <2>4, Zenon DEF Moving
<1>19. CASE x \notin Visible /\ body = Back /\ CursorOffset >= 2
  <2>1. Doing(Back, 1, r)'
    BY <1>8, <1>12, <1>19, StartOfRoutine
  <2>2. CursorOffset' >= 2
    BY <1>12, <1>19
  <2>3. GoingBack'
    BY <1>13, <1>15, <1>16, <1>19, <2>1, <2>2 DEF GoingBack
  <2> QED
    BY <1>13, <2>3
<1>20. ASSUME NEW n \in {1, 4}, body = SubSeq(f, n, 9), Stage(n, x, b)' PROVE Putting'
  <2>1. n \in 1 .. Len(f) /\ n \in 1 .. 9
    BY <1>4
  <2>2. Doing(f, n, r)'
    BY <1>4, <1>12, <1>20, <2>1 DEF Doing
  <2>3. Doing(Fixing(x), n, r)'
    BY <2>2 DEF f
  <2>4. Completes(r, b, x)'
    BY <1>14
  <2> QED
    BY <1>20, <2>1, <2>3, <2>4 DEF Putting, Completes
<1>21. CASE body = f /\ CursorOffset = TerminalSize
  <2>1. Stage(1, x, b)'
    BY <1>12, <1>21 DEF Stage
  <2>2. Putting'
    BY <1>5, <1>20, <1>21, <2>1
  <2> QED
    BY <1>13, <2>2
<1>22. CASE body = SubSeq(f, 4, 9) /\ CursorOffset < TerminalSize
  <2>1. Stage(4, x, b)'
    BY <1>12, <1>13, <1>22 DEF Stage
  <2>2. Putting'
    BY <1>20, <1>22, <2>1
  <2> QED
    BY <1>13, <2>2
<1>23. <<Load, Line>> # <<Load, Add(LineSize)>> /\ <<Scroll>> # <<Load, Add(LineSize)>>
  BY <1>9 DEF Line, Add, Load, Scroll
<1> QED
  BY <1>10, <1>13, <1>17, <1>18, <1>19, <1>21, <1>22, <1>23

LEMMA BetweenGoesOn ==
    ASSUME FlowOK, Between, Execute, UNCHANGED others
    PROVE  FlowOK' /\ UNCHANGED <<spurious, raced>> /\ (Between \/ Putting \/ GoingBack \/ Moving)'
<1>1. PICK r \in Rests, b \in Texts : Top.code = r /\ Even /\ On(TerminalBuffer, CursorOffset, b) /\ Leads(r, b)
  BY DEF Between
<1>2. CASE r = <<>>
  <2>1. HandlerReturns
    BY <1>1, <1>2 DEF Execute, LoadCursor, AddToCursor, BeginLine, WriteByte, ScrollUp, PutChar, TestFirst, Running
  <2>2. /\ Len(flow) = 2 /\ flow' = <<flow[1]>>
        /\ UNCHANGED <<CursorOffset, TerminalBuffer, beyond, spurious, raced>>
    BY <2>1 DEF HandlerReturns
  <2>3. flow \in Seq(Flow) /\ flow[1].code = <<>> /\ spurious > 0 /\ spurious \in Nat
    BY <2>2 DEF FlowOK, Flow
  <2>16. 1 \in 1 .. Len(flow)
    BY <2>2
  <2>17. flow[1] \in Flow
    BY <2>3, <2>16, ElementOfSeq
  <2>4. PICK e \in Flow : e = flow[1] /\ e.code = <<>>
    BY <2>3, <2>17
  <2>5. flow' = <<e>>
    BY <2>2, <2>4
  <2>6. \A a \in Flow : <<a>> \in Seq(Flow) /\ Len(<<a>>) = 1 /\ <<a>>[1] = a
    OBVIOUS
  <2>7. flow' \in Seq(Flow) /\ Len(flow') = 1 /\ flow'[1] = e
    BY <2>5, <2>6
  <2>8. Top'.code = <<>>
    BY <2>4, <2>7 DEF Top
  <2>9. FlowOK'
    BY <2>2, <2>7 DEF FlowOK, Flow
  <2>10. ~Claimed'
    BY <2>2, <2>3 DEF Claimed
  <2>11. <<>> \in Seq(Puts) /\ <<>> \in Rests
    BY Routines
  <2>12. Leads(<<>>, <<>>)'
    BY <2>10, <2>11 DEF Leads
  <2>13. <<>> \in Texts /\ On(TerminalBuffer', CursorOffset', <<>>)
    BY NoText
  <2>14. Even'
    BY <1>1, <2>2 DEF Even
  <2>15. Between'
    BY <2>8, <2>11, <2>12, <2>13, <2>14, BetweenNext
  <2> QED
    BY <2>2, <2>9, <2>15
<1>3. CASE r # <<>> /\ r \in Seq(Puts)
  <2>1. r[1] \in Puts /\ Tail(r) \in Seq(Puts)
    BY <1>3, HeadTailProperties
  <2>2. PICK x \in Chars : r[1] = Put(x)
    BY <2>1 DEF Puts
  <2>3. PICK q \in Seq(Puts) : q = Tail(r)
    BY <2>1
  <2>4. q \in Rests
    BY Routines
  <2>5. ASSUME Claimed PROVE x \in Visible /\ q = <<>> /\ Shown = Append(b, x)
    <3>1. ~(r = Blank)
      <4>1. Tail(Blank) = Back /\ Len(Back) = 2 /\ Back[1] = Load
        BY Blanking, Routines
      <4>2. r = Blank => q[1] = Load /\ Len(q) = 2
        BY <2>3, <4>1
      <4>3. \A p \in Seq(Puts) : Len(p) = 2 => p[1] \in Puts
        OBVIOUS
      <4>4. Load \notin Puts
        BY DEF Load, Puts, Put
      <4> QED
        BY <4>2, <4>3, <4>4
    <3>2. PICK y \in Visible : r = <<Put(y)>> /\ Shown = Append(b, y)
      BY <1>1, <1>3, <2>5, <3>1 DEF Leads
    <3>3. y = x
      BY <2>2, <3>2 DEF Put
    <3>4. \A a : Tail(<<a>>) = <<>>
      OBVIOUS
    <3> QED
      BY <2>3, <3>2, <3>3, <3>4
  <2>6. Completes(q, b, x)
    BY <2>5 DEF Completes, Leads
  <2> QED
    BY <1>1, <1>3, <2>2, <2>3, <2>4, <2>5, <2>6, PutGoesOn
<1>4. CASE r = Blank /\ r \notin Seq(Puts)
  <2>1. Claimed => Shown = b
    BY <1>1, <1>4 DEF Leads
  <2>2. Space \in Chars /\ Blank # <<>> /\ Blank[1] = Put(Space) /\ Tail(Blank) = Back /\ Back \in Rests
    BY Blanking, Routines
  <2>3. Space \in Visible
    BY Zenon DEF Space, Visible
  <2>4. Completes(Back, b, Space)
    BY <2>1 DEF Completes
  <2> QED
    BY <1>1, <1>4, <2>2, <2>3, <2>4, PutGoesOn
<1> QED
  BY <1>1, <1>2, <1>3, <1>4 DEF Leads
-----------------------------------------------------------------------------
\* The steps of the processor

LEMMA ExecuteStep == ASSUME ConsoleInv, Execute, UNCHANGED others PROVE ConsoleInv'
<1>1. ReadingOK /\ (raced => spurious > 0) /\ spurious \in Nat
  BY DEF ConsoleInv
<1>2. UNCHANGED <<spurious, raced>>
  BY DEF Execute, LoadCursor, AddToCursor, BeginLine, WriteByte, ScrollUp, PutChar, TestFirst, HandlerReturns
<1>3. ReadingOK'
  BY <1>1, ReadingKept
<1>4. ASSUME ~raced PROVE Screen'
  <2>1. FlowOK /\ (Between \/ Putting \/ GoingBack \/ Moving \/ Testing)
    BY <1>4 DEF ConsoleInv, Screen
  <2>2. CASE Between
    BY <2>1, <2>2, BetweenGoesOn DEF Screen
  <2>3. CASE Putting
    BY <2>1, <2>3, PuttingGoesOn DEF Screen
  <2>4. CASE GoingBack
    BY <2>1, <2>4, GoingBackGoesOn DEF Screen
  <2>5. CASE Moving
    BY <2>1, <2>5, MovingGoesOn DEF Screen
  <2>6. CASE Testing
    BY <1>1, <2>1, <2>6, TestingGoesOn DEF Screen
  <2> QED
    BY <2>1, <2>2, <2>3, <2>4, <2>5, <2>6
<1> QED
  BY <1>1, <1>2, <1>3, <1>4 DEF ConsoleInv

\* When a flow has nothing to do, the cursor is between two characters, behind what is shown.
LEMMA NothingToDo ==
    ASSUME Screen, Top.code = <<>>
    PROVE  FlowOK /\ Even /\ (Claimed => On(TerminalBuffer, CursorOffset, Shown))
<1>1. FlowOK
  BY DEF Screen
<1>2. ~Putting
  <2>1. SUFFICES ASSUME NEW n \in 1 .. 9, NEW x \in Chars, NEW r \in Rests, Doing(Fixing(x), n, r) PROVE FALSE
    BY DEF Putting
  <2>2. Fixing(x) \in Rests
    BY FixingIs
  <2> QED
    BY <2>1, <2>2, DoingNow
<1>3. ~GoingBack
  <2>1. SUFFICES ASSUME NEW n \in {1, 2}, NEW r \in Rests, Doing(Back, n, r) PROVE FALSE
    BY DEF GoingBack
  <2> QED
    BY <2>1, Routines, DoingNow
<1>4. ~Moving
  <2>1. SUFFICES ASSUME NEW f \in {<<Load, Line>>, <<Load, Add(LineSize)>>, <<Scroll>>}, NEW n \in {1, 2}, NEW r \in Rests,
                        Doing(f, n, r)
                 PROVE  FALSE
    BY DEF Moving
  <2>2. f \in Rests
    BY Routines
  <2> QED
    BY <2>1, <2>2, DoingNow
<1>5. ~Testing
  <2>1. Top.code # Erase
    <3>1. IfNotFirst(5) \in Instr /\ Back \o Blank \in Seq(Instr) /\ Erase = <<IfNotFirst(5)>> \o (Back \o Blank)
      BY Blanking DEF Instr, Rests
    <3> QED
      BY <3>1, Prefixed
  <2>2. ASSUME NEW x \in Chars PROVE Top.code # StepBack \o <<Put(x)>>
    <3>1. Back \in Seq(Instr) /\ Len(Back) = 2 /\ <<Put(x)>> \in Seq(Instr) /\ IfNotFirst(Len(Back)) \in Instr
      BY Routines DEF Rests, Instr
    <3> DEFINE i == IfNotFirst(Len(Back))
               p == <<Put(x)>>
               b == Back
    <3>2. i \in Instr /\ p \in Seq(Instr) /\ Len(p) = 1
      BY <3>1
    <3>8. b \in Seq(Instr) /\ Len(b) = 2
      BY <3>1
    <3> HIDE DEF i, p, b
    <3>3. \A a \in Instr : <<a>> \in Seq(Instr) /\ Len(<<a>>) = 1
      OBVIOUS
    <3> DEFINE j == <<i>>
               s == j \o b
    <3>9. j \in Seq(Instr) /\ Len(j) = 1
      BY <3>2, <3>3
    <3> HIDE DEF j
    <3>10. j \o b \in Seq(Instr) /\ Len(j \o b) = Len(j) + Len(b)
      BY <3>8, <3>9, ConcatProperties
    <3>4. s \in Seq(Instr) /\ Len(s) = 3
      BY <3>8, <3>9, <3>10
    <3> HIDE DEF s
    <3>5. Len(s \o p) = Len(s) + Len(p)
      BY <3>2, <3>4, ConcatProperties
    <3>6. Len(s \o p) = 4 /\ Len(<<>>) = 0
      BY <3>2, <3>4, <3>5
    <3>7. s \o p # <<>>
      BY <3>6
    <3> QED
      BY <3>7 DEF StepBack, s, i, j, p, b
  <2> QED
    BY <2>1, <2>2 DEF Testing
<1>6. PICK r \in Rests, b \in Texts : Top.code = r /\ Even /\ On(TerminalBuffer, CursorOffset, b) /\ Leads(r, b)
  BY <1>2, <1>3, <1>4, <1>5 DEF Screen, Between
<1>7. Blank # <<>> /\ \A a : <<a>> # <<>>
  BY Blanking
<1>8. r = <<>>
  BY <1>6
<1>9. Claimed => Shown = b
  BY <1>6, <1>7, <1>8 DEF Leads
<1> QED
  BY <1>1, <1>6, <1>9

\* An interrupt that finds a flow inside of what it prints is recorded.
LEMMA HandlerStep == ASSUME ConsoleInv, HardwareInterruptHandler, UNCHANGED others PROVE ConsoleInv'
<1>1. ReadingOK /\ spurious \in Nat
  BY DEF ConsoleInv
<1>2. /\ Len(flow) = 1 /\ flow' = Append(flow, [code |-> Text(Message), reg |-> 0])
      /\ spurious' = spurious + 1 /\ (raced' <=> raced \/ Top.code # <<>>)
      /\ UNCHANGED <<CursorOffset, TerminalBuffer, beyond>>
  BY DEF HardwareInterruptHandler
<1>3. ReadingOK'
  BY <1>1, ReadingKept
<1>4. spurious' \in Nat /\ spurious' > 0
  BY <1>1, <1>2
<1>5. ASSUME ~raced' PROVE Screen'
  <2>1. ~raced /\ Top.code = <<>>
    BY <1>2, <1>5
  <2>2. FlowOK /\ Even
    BY <2>1, NothingToDo DEF ConsoleInv
  <2>3. Message \in Seq(Chars)
    <3>1. Message \in Seq(Range(Message)) /\ Range(Message) \subseteq Chars
      BY TerminalAssumption DEF Chars
    <3> QED
      BY <3>1, SeqMonotonic
  <2>4. PICK r \in Seq(Puts) : r = Text(Message)
    BY <2>3, TextIs
  <2>5. r \in Rests
    BY Routines
  <2> DEFINE e == [code |-> r, reg |-> 0]
  <2>6. e \in Flow /\ e.code = r
    BY <2>5 DEF Flow, Rests
  <2>7. flow' = Append(flow, e)
    BY <1>2, <2>4
  <2> HIDE DEF e
  <2>8. flow \in Seq(Flow)
    BY <2>2 DEF FlowOK, Flow
  <2>9. flow' \in Seq(Flow) /\ Len(flow') = 2 /\ flow'[1] = flow[1] /\ flow'[2] = e
    <3>1. /\ Append(flow, e) \in Seq(Flow) /\ Len(Append(flow, e)) = Len(flow) + 1
          /\ \A k \in 1 .. Len(flow) : Append(flow, e)[k] = flow[k]
          /\ Append(flow, e)[Len(flow) + 1] = e
      BY <2>6, <2>8, AppendProperties
    <3> QED
      BY <1>2, <2>7, <3>1
  <2>10. flow'[1].code = <<>>
    BY <1>2, <2>1, <2>9 DEF Top
  <2>11. Top'.code = r
    BY <2>6, <2>9 DEF Top
  <2>12. FlowOK'
    BY <1>2, <1>4, <2>2, <2>9, <2>10 DEF FlowOK, Flow
  <2>13. ~Claimed' /\ Even'
    BY <1>2, <1>4, <2>2 DEF Claimed, Even
  <2>14. Leads(r, <<>>)'
    BY <2>13 DEF Leads
  <2>15. <<>> \in Texts /\ On(TerminalBuffer', CursorOffset', <<>>)
    BY NoText
  <2>16. Between'
    BY <2>5, <2>11, <2>13, <2>14, <2>15, BetweenNext
  <2> QED
    BY <2>12, <2>16 DEF Screen
<1> QED
  BY <1>3, <1>4, <1>5 DEF ConsoleInv
-----------------------------------------------------------------------------
\* The reading of a character

LEMMA EchoSteps ==
    ASSUME FlowOK, Quiet, NEW code \in Seq(Instr), Echo(code),
           UNCHANGED <<CursorOffset, TerminalBuffer, beyond, spurious, raced>>
    PROVE  /\ FlowOK'
           /\ call = "silent" => Top'.code = <<>>
           /\ call # "silent" => Top'.code = code
<1>1. Len(flow) = 1 /\ Top.code = <<>> /\ flow \in Seq(Flow) /\ flow[1] = Top /\ Top \in Flow
  BY TopOK DEF Quiet, FlowOK, Flow, Top
<1>2. CASE call = "silent"
  BY <1>1, <1>2 DEF Echo, FlowOK, Top
<1>3. CASE call # "silent"
  <2> DEFINE e == [Top EXCEPT !.code = code]
  <2>1. e \in Flow /\ e.code = code
    BY <1>1 DEF Flow
  <2>2. flow' = <<e>>
    BY <1>1, <1>3 DEF Echo
  <2> HIDE DEF e
  <2>3. \A a \in Flow : <<a>> \in Seq(Flow) /\ Len(<<a>>) = 1 /\ <<a>>[1] = a
    OBVIOUS
  <2>4. flow' \in Seq(Flow) /\ Len(flow') = 1 /\ flow'[1] = e
    BY <2>1, <2>2, <2>3
  <2>5. Top'.code = code
    BY <2>1, <2>4 DEF Top
  <2>6. FlowOK'
    BY <2>4 DEF FlowOK, Flow
  <2> QED
    BY <1>3, <2>5, <2>6
<1> QED
  BY <1>2, <1>3

\* The first n characters of an array.
LineOf(array, n) == [k \in 1 .. n |-> array[k - 1]]

LEMMA LineOfOK ==
    ASSUME NEW array \in [0 .. MaxLength -> Chars], NEW n \in 0 .. MaxLength
    PROVE  LineOf(array, n) \in Texts /\ Len(LineOf(array, n)) = n
<1>1. n \in Nat /\ MaxLength \in Nat /\ \A k \in 1 .. n : array[k - 1] \in Chars
  BY ConsoleAssumption
<1> DEFINE line == [k \in 1 .. n |-> array[k - 1]]
<1>2. line \in [1 .. n -> Chars]
  BY <1>1
<1>3. line \in Seq(Chars) /\ Len(line) = n
  BY <1>1, <1>2
<1> QED
  BY <1>3 DEF LineOf, Texts

LEMMA LineOfSame ==
    ASSUME NEW array \in [0 .. MaxLength -> Chars], NEW n \in 0 .. MaxLength, NEW q \in 0 .. MaxLength, q >= n, NEW v
    PROVE  LineOf([array EXCEPT ![q] = v], n) = LineOf(array, n)
<1>1. \A k \in 1 .. n : [array EXCEPT ![q] = v][k - 1] = array[k - 1]
  BY ConsoleAssumption
<1> QED
  BY <1>1 DEF LineOf

LEMMA LineOfGrows ==
    ASSUME NEW array \in [0 .. MaxLength -> Chars], NEW n \in 0 .. MaxLength, n < MaxLength
    PROVE  LineOf(array, n + 1) = Append(LineOf(array, n), array[n])
<1> DEFINE m == n + 1
           s == LineOf(array, n)
           t == LineOf(array, m)
<1>1. m \in 0 .. MaxLength /\ n \in Nat /\ array[n] \in Chars
  BY ConsoleAssumption
<1>2. s \in Seq(Chars) /\ Len(s) = n /\ \A k \in 1 .. n : s[k] = array[k - 1]
  BY LineOfOK DEF LineOf, Texts
<1> HIDE DEF m
<1>3. t \in Seq(Chars) /\ Len(t) = m /\ \A k \in 1 .. m : t[k] = array[k - 1]
  BY <1>1, LineOfOK DEF LineOf, Texts
<1> HIDE DEF s, t
<1>4. /\ Append(s, array[n]) \in Seq(Chars) /\ Len(Append(s, array[n])) = Len(s) + 1
      /\ \A k \in 1 .. Len(s) : Append(s, array[n])[k] = s[k]
      /\ Append(s, array[n])[Len(s) + 1] = array[n]
  BY <1>1, <1>2, AppendProperties
<1> DEFINE a == Append(s, array[n])
<1>5. m = n + 1
  BY DEF m
<1>6. a \in Seq(Chars) /\ Len(a) = m /\ a[m] = array[n] /\ \A k \in 1 .. n : a[k] = array[k - 1]
  BY <1>2, <1>4, <1>5
<1> HIDE DEF a
<1>7. ASSUME NEW k \in 1 .. Len(t) PROVE t[k] = a[k]
  <2>1. CASE k = m
    BY <1>1, <1>3, <1>5, <1>6, <2>1
  <2>2. CASE k # m
    <3>1. k \in 1 .. n
      BY <1>1, <1>3, <1>5, <2>2
    <3> QED
      BY <1>3, <1>6, <3>1
  <2> QED
    BY <2>1, <2>2
<1>8. t = a
  BY <1>3, <1>6, <1>7, SeqEqual
<1> QED
  BY <1>8 DEF t, a, s, m

LEMMA ShownIs == Shown = IF call = "line" THEN LineOf(result, length)
                         ELSE IF call = "char" /\ entered THEN <<character>> ELSE <<>>
BY DEF Shown, LineOf

\* What a key that is read gives.
Gotten == {"A", "a", "LF", "BS", "TAB", "4", ".", "NUL"}

LEMMA DecodedIs == ASSUME NEW key PROVE Decoded(key) \in Gotten
BY Zenon DEF Decoded, Character, Gotten

LEMMA GottenIs ==
    ASSUME NEW c \in Gotten
    PROVE  c \in Chars /\ (c \in Visible \/ c = "LF" \/ c = "BS" \/ c = "TAB")
BY Zenon DEF Gotten, Chars, Visible

LEMMA NewLine == Text(<<"CR", "LF">>) \in Seq(Puts)
<1>1. "CR" \in Chars /\ "LF" \in Chars
  BY Zenon DEF Chars
<1>2. \A a, b \in Chars : <<a, b>> \in Seq(Chars)
  OBVIOUS
<1> QED
  BY <1>1, <1>2, TextIs
LEMMA GetsReading ==
    ASSUME ReadingOK, call # "key", NEW c \in Gotten, NEW m, Gets(c, m), call' = call
    PROVE  ReadingOK'
<1>1. /\ length \in 0 .. MaxLength /\ result \in [0 .. MaxLength -> Chars] /\ MaxLength \in Nat
      /\ character \in Chars /\ entered \in BOOLEAN
  BY ConsoleAssumption DEF ReadingOK
<1>2. c \in Chars
  BY GottenIs
<1>3. CASE call = "char"
  <2>1. CharGets(c) /\ UNCHANGED <<result, length>>
    BY <1>3 DEF Gets
  <2>2. \/ UNCHANGED <<entered, character>>
        \/ entered' = FALSE /\ UNCHANGED character
        \/ entered' = TRUE /\ character' = c
    BY <2>1, Zenon DEF CharGets
  <2> QED
    BY <1>1, <1>2, <1>3, <2>1, <2>2 DEF ReadingOK
<1>4. CASE call # "char"
  <2>1. LineGets(c) /\ UNCHANGED <<entered, character>>
    BY <1>4 DEF Gets
  <2>2. \/ result' = [result EXCEPT ![length] = "NUL"] /\ length' = length
        \/ length > 0 /\ result' = [result EXCEPT ![length] = " "] /\ length' = length - 1
        \/ HasRoom /\ result' = [result EXCEPT ![length] = c] /\ length' = length + 1
        \/ UNCHANGED <<result, length>>
    BY <2>1, Zenon DEF LineGets
  <2>3. \E v \in Chars : result' = [result EXCEPT ![length] = v] \/ result' = result
    <3>1. "NUL" \in Chars
      BY Zenon DEF Chars, Visible
    <3>2. " " \in Chars
      BY Zenon DEF Chars, Visible
    <3> QED
      BY <1>2, <2>2, <3>1, <3>2, Zenon
  <2>4. result' \in [0 .. MaxLength -> Chars]
    BY <1>1, <2>3
  <2>5. length' = length \/ (length > 0 /\ length' = length - 1) \/ (HasRoom /\ length' = length + 1)
    BY <2>2, Zenon
  <2>6. length' \in 0 .. MaxLength
    BY <1>1, <2>5 DEF HasRoom
  <2> QED
    BY <1>1, <2>1, <2>4, <2>6 DEF ReadingOK
<1> QED
  BY <1>3, <1>4

\* The screen stays what it should be, whichever way the flow goes on from here.
LEMMA SaysPuts ==
    ASSUME FlowOK', Even', NEW r \in Seq(Puts), Top'.code = r, NEW b \in Texts, On(TerminalBuffer', CursorOffset', b),
           Claimed' => \/ r = <<>> /\ Shown' = b
                       \/ \E x \in Visible : r = <<Put(x)>> /\ Shown' = Append(b, x)
    PROVE  Screen'
<1>1. r \in Rests
  BY Routines
<1>2. Leads(r, b)'
  BY DEF Leads
<1>3. Between'
  BY <1>1, <1>2, BetweenNext
<1> QED
  BY <1>3 DEF Screen

LEMMA Instructions ==
    /\ Erase \in Seq(Instr)
    /\ \A x \in Chars : /\ StepBack \o <<Put(x)>> \in Seq(Instr) /\ <<Put(x)>> \in Seq(Instr) /\ <<Put(x)>> \in Seq(Puts)
                        /\ <<>> \o <<Put(x)>> = <<Put(x)>>
<1>1. Back \in Seq(Instr) /\ Len(Back) = 2 /\ (\A c \in Chars : <<Put(c)>> \in Seq(Puts)) /\ Seq(Puts) \subseteq Seq(Instr)
  BY Routines DEF Rests
<1>2. \A n \in Nat : IfNotFirst(n) \in Instr
  BY DEF Instr
<1>3. \A i \in Instr : <<i>> \in Seq(Instr)
  OBVIOUS
<1>4. Erase \in Seq(Instr)
  <2> DEFINE f == <<IfNotFirst(5)>>
  <2>1. Back \o Blank \in Seq(Instr) /\ Erase = f \o (Back \o Blank)
    BY Blanking DEF Rests
  <2>2. f \in Seq(Instr)
    BY <1>2, <1>3
  <2> HIDE DEF f
  <2> QED
    BY <2>1, <2>2, ConcatProperties
<1>5. StepBack \in Seq(Instr)
  <2> DEFINE f == <<IfNotFirst(Len(Back))>>
  <2>1. f \in Seq(Instr)
    BY <1>1, <1>2, <1>3
  <2>2. StepBack = f \o Back
    BY DEF StepBack
  <2> HIDE DEF f
  <2> QED
    BY <1>1, <2>1, <2>2, ConcatProperties
<1>6. ASSUME NEW x \in Chars
      PROVE  /\ StepBack \o <<Put(x)>> \in Seq(Instr) /\ <<Put(x)>> \in Seq(Instr) /\ <<Put(x)>> \in Seq(Puts)
             /\ <<>> \o <<Put(x)>> = <<Put(x)>>
  <2> DEFINE p == <<Put(x)>>
  <2>1. p \in Seq(Instr) /\ p \in Seq(Puts)
    BY <1>1
  <2> HIDE DEF p
  <2>2. StepBack \o p \in Seq(Instr) /\ <<>> \o p = p
    BY <1>5, <2>1, ConcatProperties, Nothing
  <2> QED
    BY <2>1, <2>2 DEF p
<1> QED
  BY <1>4, <1>6

LEMMA CharGetsScreen ==
    ASSUME ReadingOK, FlowOK, Even, Quiet, Claimed => On(TerminalBuffer, CursorOffset, Shown), pc # "idle", call = "char",
           NEW c \in Gotten, CharGets(c), call' = call, UNCHANGED <<CursorOffset, TerminalBuffer, beyond, spurious, raced>>,
           uneven' <=> (uneven \/ c = "TAB" \/ (call = "char" /\ ~entered /\ c = "BS"))
    PROVE  Screen'
<1>1. c \in Chars /\ (c \in Visible \/ c = "LF" \/ c = "BS" \/ c = "TAB")
  BY GottenIs
<1>2. Top.code = <<>>
  BY DEF Quiet
<1>3. Even' /\ (Claimed' => Claimed)
  BY DEF Even, Claimed
<1>4. \A s, p : <<>> \in Texts /\ On(s, p, <<>>)
  BY NoText
<1>5. call # "silent"
  OBVIOUS
<1>6. CASE c = "LF" /\ entered
  <2>1. pc' = "idle" /\ Echo(Text(<<"CR", "LF">>))
    BY <1>6, Zenon DEF CharGets
  <2>2. PICK r \in Seq(Puts) : r = Text(<<"CR", "LF">>)
    BY NewLine
  <2>3. r \in Seq(Instr)
    BY Routines DEF Rests
  <2>4. FlowOK' /\ Top'.code = r
    BY <1>5, <2>1, <2>2, <2>3, EchoSteps
  <2>5. ~Claimed'
    BY <2>1 DEF Claimed
  <2> QED
    BY <1>3, <1>4, <2>4, <2>5, SaysPuts
<1>7. CASE c = "LF" /\ ~entered
  <2>1. pc' = "read" /\ UNCHANGED <<entered, character, flow>>
    BY <1>7, Zenon DEF CharGets
  <2>2. FlowOK' /\ Top'.code = <<>>
    BY <1>2, <2>1 DEF FlowOK, Top
  <2>3. Shown' = <<>> /\ <<>> \in Seq(Puts)
    BY <1>7, <2>1 DEF Shown
  <2> QED
    BY <1>3, <1>4, <2>2, <2>3, SaysPuts
<1>8. CASE c = "BS" /\ entered
  <2>1. entered' = FALSE /\ Echo(Erase)
    BY <1>8, Zenon DEF CharGets
  <2>2. FlowOK' /\ Top'.code = Erase
    BY <1>5, <2>1, Instructions, EchoSteps
  <2>3. Shown' = <<>>
    BY <2>1 DEF Shown
  <2>4. Testing'
    BY <1>3, <1>4, <2>2, <2>3 DEF Testing
  <2> QED
    BY <2>2, <2>4 DEF Screen
<1>9. CASE c # "LF" /\ ~(c = "BS" /\ entered)
  <2>1. entered' = TRUE /\ character' = c /\ Echo((IF entered THEN StepBack ELSE <<>>) \o <<Put(c)>>)
    BY <1>9, Zenon DEF CharGets
  <2>2. Shown' = <<c>>
    BY <2>1 DEF Shown
  <2>3. Claimed' => c \in Visible
    BY <1>1, <1>9 DEF Claimed
  <2>4. CASE entered
    <3>1. Echo(StepBack \o <<Put(c)>>)
      BY <2>1, <2>4
    <3>2. FlowOK' /\ Top'.code = StepBack \o <<Put(c)>>
      BY <1>1, <1>5, <3>1, Instructions, EchoSteps
    <3>3. Testing'
      BY <1>1, <1>3, <2>2, <2>3, <3>2 DEF Testing
    <3> QED
      BY <3>2, <3>3 DEF Screen
  <2>5. CASE ~entered
    <3>1. Echo(<<Put(c)>>)
      BY <1>1, <2>1, <2>5, Instructions
    <3>2. PICK r \in Seq(Puts) : r = <<Put(c)>>
      BY <1>1, Instructions
    <3>3. r \in Seq(Instr)
      BY Routines DEF Rests
    <3>4. FlowOK' /\ Top'.code = r
      BY <1>5, <3>1, <3>2, <3>3, EchoSteps
    <3>5. Append(<<>>, c) = <<c>>
      OBVIOUS
    <3>6. Claimed' => \E x \in Visible : r = <<Put(x)>> /\ Shown' = Append(<<>>, x)
      BY <2>2, <2>3, <3>2, <3>5
    <3> QED
      BY <1>3, <1>4, <3>4, <3>6, SaysPuts
  <2> QED
    BY <2>4, <2>5
<1> QED
  BY <1>6, <1>7, <1>8, <1>9
LEMMA LineGetsScreen ==
    ASSUME ReadingOK, FlowOK, Even, Quiet, Claimed => On(TerminalBuffer, CursorOffset, Shown), pc # "idle",
           call = "line" \/ call = "silent", NEW c \in Gotten, LineGets(c), call' = call,
           UNCHANGED <<CursorOffset, TerminalBuffer, beyond, spurious, raced, entered, character>>,
           uneven' <=> (uneven \/ c = "TAB" \/ (call = "char" /\ ~entered /\ c = "BS"))
    PROVE  Screen'
<1>1. c \in Chars /\ (c \in Visible \/ c = "LF" \/ c = "BS" \/ c = "TAB")
  BY GottenIs
<1>2. Top.code = <<>> /\ <<>> \in Seq(Puts)
  BY DEF Quiet
<1>3. Even' /\ (Claimed' => Claimed)
  BY DEF Even, Claimed
<1>4. \A s, p : <<>> \in Texts /\ On(s, p, <<>>)
  BY NoText
<1>5. /\ length \in 0 .. MaxLength /\ result \in [0 .. MaxLength -> Chars] /\ MaxLength \in Nat
      /\ CursorOffset \in Nat
  BY ConsoleAssumption, Sizes DEF ReadingOK, FlowOK
<1>6. call = "silent" => Shown' = <<>>
  BY DEF Shown
<1>7. call = "line" => Shown = LineOf(result, length) /\ Shown' = LineOf(result', length')
  BY DEF Shown, LineOf
<1>8. CASE c = "LF"
  <2>1. pc' = "idle" /\ Echo(Text(<<"CR", "LF">>))
    BY <1>8, Zenon DEF LineGets, Ends
  <2>2. PICK r \in Seq(Puts) : r = Text(<<"CR", "LF">>)
    BY NewLine
  <2>3. r \in Seq(Instr)
    BY Routines DEF Rests
  <2>4. FlowOK' /\ (Top'.code = r \/ Top'.code = <<>>)
    BY <2>1, <2>2, <2>3, EchoSteps
  <2>5. ~Claimed'
    BY <2>1 DEF Claimed
  <2>6. PICK q \in Seq(Puts) : Top'.code = q
    BY <1>2, <2>4
  <2> QED
    BY <1>3, <1>4, <2>4, <2>5, <2>6, SaysPuts
<1>9. CASE c = "BS" /\ length > 0
  <2>1. result' = [result EXCEPT ![length] = " "] /\ length' = length - 1 /\ Echo(Erase)
    BY <1>9, Zenon DEF LineGets, Ends
  <2>2. FlowOK' /\ (call = "silent" => Top'.code = <<>>) /\ (call # "silent" => Top'.code = Erase)
    BY <2>1, Instructions, EchoSteps
  <2>3. CASE call = "silent"
    BY <1>2, <1>3, <1>4, <1>6, <2>2, <2>3, SaysPuts
  <2>4. CASE call = "line"
    <3> DEFINE n == length - 1
    <3>1. n \in 0 .. MaxLength /\ n < MaxLength /\ n + 1 = length /\ length >= n
      BY <1>5, <1>9
    <3> HIDE DEF n
    <3>2. LineOf(result, n + 1) = Append(LineOf(result, n), result[n])
      BY <1>5, <3>1, LineOfGrows
    <3>3. LineOf([result EXCEPT ![length] = " "], n) = LineOf(result, n)
      BY <1>5, <3>1, LineOfSame, Zenon
    <3>4. Shown = Append(LineOf(result, n), result[n])
      BY <1>7, <2>4, <3>1, <3>2
    <3>5. n = length'
      BY <2>1 DEF n
    <3>6. Shown' = LineOf(result, n)
      BY <1>7, <2>1, <2>4, <3>3, <3>5, Zenon
    <3>7. LineOf(result, n) \in Texts /\ result[n] \in Chars
      BY <1>5, <3>1, LineOfOK
    <3>8. ASSUME Claimed', CursorOffset' >= 2 PROVE On(TerminalBuffer', CursorOffset' - 2, Shown')
      <4>1. On(TerminalBuffer, CursorOffset, Append(LineOf(result, n), result[n])) /\ CursorOffset >= 2
        BY <1>3, <3>4, <3>8
      <4>2. On(TerminalBuffer, CursorOffset - 2, LineOf(result, n))
        BY <1>5, <3>7, <4>1, TextShrinks
      <4> QED
        BY <3>6, <4>2
    <3>9. Testing'
      BY <1>3, <2>2, <2>4, <3>8 DEF Testing
    <3> QED
      BY <2>2, <3>9 DEF Screen
  <2> QED
    BY <2>3, <2>4
<1>10. CASE c \notin {"LF", "BS"} /\ HasRoom
  <2>1. result' = [result EXCEPT ![length] = c] /\ length' = length + 1 /\ Echo(<<Put(c)>>)
    BY <1>10, Zenon DEF LineGets, Ends
  <2>2. PICK r \in Seq(Puts) : r = <<Put(c)>>
    BY <1>1, Instructions
  <2>3. r \in Seq(Instr)
    BY Routines DEF Rests
  <2>4. FlowOK' /\ (call = "silent" => Top'.code = <<>>) /\ (call # "silent" => Top'.code = r)
    BY <2>1, <2>2, <2>3, EchoSteps
  <2>5. CASE call = "silent"
    BY <1>2, <1>3, <1>4, <1>6, <2>4, <2>5, SaysPuts
  <2>6. CASE call = "line"
    <3>1. length < MaxLength
      BY <1>10 DEF HasRoom
    <3> DEFINE array == [result EXCEPT ![length] = c]
    <3>2. array \in [0 .. MaxLength -> Chars] /\ array[length] = c
      BY <1>1, <1>5
    <3>12. length >= length
      BY <1>5
    <3>3. LineOf(array, length) = LineOf(result, length)
      BY <1>5, <3>12, LineOfSame, Zenon
    <3>4. result' = array
      BY <2>1
    <3> HIDE DEF array
    <3>5. LineOf(array, length + 1) = Append(LineOf(array, length), array[length])
      BY <1>5, <3>1, <3>2, LineOfGrows
    <3>6. Shown' = Append(Shown, c)
      BY <1>7, <2>1, <2>6, <3>2, <3>3, <3>4, <3>5
    <3>7. Shown \in Texts
      BY ShownOK
    <3>8. PICK b \in Texts : On(TerminalBuffer, CursorOffset, b) /\ (Claimed => b = Shown)
      BY <1>4, <3>7
    <3>9. Claimed' => c \in Visible
      BY <1>1, <1>10 DEF Claimed
    <3>10. Claimed' => \E x \in Visible : r = <<Put(x)>> /\ Shown' = Append(b, x)
      BY <1>3, <2>2, <3>6, <3>8, <3>9
    <3>11. Top'.code = r /\ On(TerminalBuffer', CursorOffset', b)
      BY <2>4, <2>6, <3>8
    <3> QED
      BY <1>3, <2>4, <3>8, <3>10, <3>11, SaysPuts
  <2> QED
    BY <2>5, <2>6
<1>11. CASE c # "LF" /\ ~(c = "BS" /\ length > 0) /\ ~(c \notin {"LF", "BS"} /\ HasRoom)
  <2>1. UNCHANGED <<result, length, flow>>
    BY <1>11, Zenon DEF LineGets, Ends
  <2>2. FlowOK' /\ Top'.code = <<>> /\ Shown' = Shown
    BY <1>2, <2>1 DEF FlowOK, Top, Shown
  <2>3. Shown \in Texts
    BY ShownOK
  <2>4. PICK b \in Texts : On(TerminalBuffer, CursorOffset, b) /\ (Claimed => b = Shown)
    BY <1>4, <2>3
  <2>5. On(TerminalBuffer', CursorOffset', b) /\ (Claimed' => Shown' = b)
    BY <1>3, <2>2, <2>4
  <2> QED
    BY <1>2, <1>3, <2>2, <2>4, <2>5, SaysPuts
<1> QED
  BY <1>8, <1>9, <1>10, <1>11
LEMMA GetsStep ==
    ASSUME ConsoleInv, Quiet, pc # "idle", call # "key", NEW key, NEW m, Gets(Decoded(key), m), call' = call
    PROVE  ConsoleInv'
<1>1. ReadingOK /\ (raced => spurious > 0) /\ spurious \in Nat
  BY DEF ConsoleInv
<1>2. PICK c \in Gotten : c = Decoded(key)
  BY DecodedIs
<1>3. Gets(c, m)
  BY <1>2
<1>4. /\ UNCHANGED <<CursorOffset, TerminalBuffer, beyond, spurious, raced>>
      /\ uneven' <=> (uneven \/ c = "TAB" \/ (call = "char" /\ ~entered /\ c = "BS"))
      /\ call = "char" => CharGets(c)
      /\ call # "char" => LineGets(c) /\ UNCHANGED <<entered, character>>
  BY <1>3 DEF Gets
<1>5. ReadingOK'
  BY <1>1, <1>3, GetsReading
<1>6. call \in Kind
  BY <1>1 DEF ReadingOK
<1>7. call = "line" \/ call = "silent" \/ call = "char"
  BY <1>6 DEF Kind
<1>8. ASSUME ~raced PROVE Screen'
  <2>1. FlowOK /\ Even /\ (Claimed => On(TerminalBuffer, CursorOffset, Shown))
    BY <1>8, NothingToDo DEF ConsoleInv, Quiet
  <2>2. CASE call = "char"
    BY <1>1, <1>4, <2>1, <2>2, CharGetsScreen
  <2>3. CASE call # "char"
    BY <1>1, <1>4, <1>7, <2>1, <2>3, LineGetsScreen
  <2> QED
    BY <2>2, <2>3
<1> QED
  BY <1>1, <1>4, <1>5, <1>8 DEF ConsoleInv

\* Whatever leaves the screen alone and claims no more than what is shown.
LEMMA StillStep ==
    ASSUME ConsoleInv, Quiet, UNCHANGED terminal, ReadingOK',
           Claimed' => \/ Claimed /\ Shown' = Shown
                       \/ Shown' = <<>>
    PROVE  ConsoleInv'
<1>1. ReadingOK /\ (raced => spurious > 0) /\ spurious \in Nat
  BY DEF ConsoleInv
<1>2. UNCHANGED <<CursorOffset, TerminalBuffer, flow, beyond, spurious, raced>>
  BY DEF terminal
<1>3. ASSUME ~raced PROVE Screen'
  <2>1. FlowOK /\ Even /\ (Claimed => On(TerminalBuffer, CursorOffset, Shown)) /\ Top.code = <<>>
    BY <1>3, NothingToDo DEF ConsoleInv, Quiet
  <2>2. FlowOK' /\ Even' /\ Top'.code = <<>>
    BY <1>2, <2>1 DEF FlowOK, Even, Top
  <2>3. Shown \in Texts /\ <<>> \in Texts /\ On(TerminalBuffer, CursorOffset, <<>>)
    BY <1>1, ShownOK, NoText
  <2>4. PICK b \in Texts : On(TerminalBuffer, CursorOffset, b) /\ (Claimed' => Shown' = b)
    BY <2>1, <2>3
  <2>5. On(TerminalBuffer', CursorOffset', b) /\ <<>> \in Seq(Puts)
    BY <1>2, <2>4
  <2> QED
    BY <2>2, <2>4, <2>5, SaysPuts
<1> QED
  BY <1>1, <1>2, <1>3 DEF ConsoleInv

LEMMA NoCharacterStep ==
    ASSUME ConsoleInv, Quiet, pc # "idle", NEW next, NoCharacter(next), call' = call, next = "extended" => call # "key"
    PROVE  ConsoleInv'
<1>1. ReadingOK
  BY DEF ConsoleInv
<1>2. pc' = next /\ UNCHANGED terminal /\ UNCHANGED <<result, length, entered, character, uneven, call>>
  BY DEF NoCharacter
<1>3. ReadingOK'
  BY <1>1, <1>2 DEF ReadingOK
<1>4. Claimed' => Claimed /\ Shown' = Shown
  BY <1>2 DEF Claimed, Shown, terminal
<1> QED
  BY <1>2, <1>3, <1>4, StillStep

\* The steps that read a byte.
LEMMA ReadStep ==
    ASSUME ConsoleInv, NEW b,
           \/ ReadShift(b)
           \/ ReadCapsLock(b)
           \/ ReadPrefix(b)
           \/ ReadExtended(b)
           \/ ReadPlain(b)
           \/ ReadKey(b)
    PROVE  ConsoleInv'
<1>1. ReadingOK
  BY DEF ConsoleInv
<1>2. CASE ReadShift(b)
  <2>1. Quiet /\ pc # "idle" /\ NoCharacter("read") /\ call' = call
    BY <1>2 DEF ReadShift, Reads
  <2> QED
    BY <2>1, NoCharacterStep
<1>3. CASE ReadCapsLock(b)
  <2>1. Quiet /\ pc # "idle" /\ NoCharacter("read") /\ call' = call
    BY <1>3 DEF ReadCapsLock, Reads
  <2> QED
    BY <2>1, NoCharacterStep
<1>4. CASE ReadPrefix(b)
  <2>1. Quiet /\ pc # "idle" /\ NoCharacter("extended") /\ call' = call /\ call # "key"
    BY <1>4 DEF ReadPrefix, Reads
  <2> QED
    BY <2>1, NoCharacterStep
<1>5. CASE ReadExtended(b)
  <2>1. Quiet /\ pc = "extended" /\ call' = call /\ (NoCharacter("read") \/ Gets(Decoded(b.key), b.meant))
    BY <1>5 DEF ReadExtended, Reads
  <2>2. pc # "idle" /\ call # "key"
    BY <1>1, <2>1 DEF ReadingOK
  <2>3. CASE NoCharacter("read")
    BY <2>1, <2>2, <2>3, NoCharacterStep
  <2>4. CASE Gets(Decoded(b.key), b.meant)
    BY <2>1, <2>2, <2>4, GetsStep
  <2> QED
    BY <2>1, <2>3, <2>4
<1>6. CASE ReadPlain(b)
  <2>1. Quiet /\ pc # "idle" /\ call # "key" /\ call' = call /\ (NoCharacter("read") \/ Gets(Decoded(b.key), b.meant))
    BY <1>6 DEF ReadPlain, Reads
  <2>2. CASE NoCharacter("read")
    BY <2>1, <2>2, NoCharacterStep
  <2>3. CASE Gets(Decoded(b.key), b.meant)
    BY <2>1, <2>3, GetsStep
  <2> QED
    BY <2>1, <2>2, <2>3
<1>7. CASE ReadKey(b)
  <2>1. Quiet /\ pc # "idle" /\ NoCharacter("idle") /\ call' = call
    BY <1>7 DEF ReadKey, Reads
  <2> QED
    BY <2>1, NoCharacterStep
<1> QED
  BY <1>2, <1>3, <1>4, <1>5, <1>6, <1>7

LEMMA CallStep == ASSUME ConsoleInv, NEW kind \in Kind, Call(kind) PROVE ConsoleInv'
<1>1. ReadingOK
  BY DEF ConsoleInv
<1>2. /\ Quiet /\ UNCHANGED <<terminal, result, character>>
      /\ pc' = "read" /\ call' = kind /\ length' = 0 /\ entered' = FALSE
  BY DEF Call
<1>3. ReadingOK'
  <2>1. MaxLength \in Nat
    BY ConsoleAssumption
  <2>2. 0 \in 0 .. MaxLength
    BY <2>1
  <2> QED
    BY <1>1, <1>2, <2>2 DEF ReadingOK
<1>4. Shown' = <<>>
  <2>1. [k \in 1 .. 0 |-> result'[k - 1]] = <<>>
    OBVIOUS
  <2>2. call' = "line" => Shown' = <<>>
    BY <1>2, <2>1 DEF Shown
  <2>3. call' # "line" => Shown' = <<>>
    BY <1>2 DEF Shown
  <2> QED
    BY <2>2, <2>3
<1> QED
  BY <1>2, <1>3, <1>4, StillStep

\* What the user does to the keys.
LEMMA KeyStep ==
    ASSUME ConsoleInv, Quiet, UNCHANGED <<terminal, reading, uneven>>
    PROVE  ConsoleInv'
<1>1. ReadingOK
  BY DEF ConsoleInv
<1>2. ReadingOK'
  BY <1>1 DEF ReadingOK, reading
<1>3. Claimed' => Claimed /\ Shown' = Shown
  BY DEF Claimed, Shown, reading, terminal
<1> QED
  BY <1>2, <1>3, StillStep

LEMMA ConsoleInvStarts == Init => ConsoleInv
<1> SUFFICES ASSUME Init PROVE ConsoleInv
  OBVIOUS
<1>1. /\ TerminalBuffer = [o \in 0 .. TerminalSize - 1 |-> "NUL"]
      /\ flow = <<[code |-> <<>>, reg |-> 0]>>
      /\ beyond = {} /\ spurious = 0 /\ raced = FALSE
      /\ circumstance \in Circumstances /\ CursorOffset = circumstance.start
      /\ pc = "idle" /\ call = "line"
      /\ result = [k \in 0 .. MaxLength |-> "NUL"] /\ length = 0
      /\ entered = FALSE /\ character = "NUL"
  BY DEF Init, TerminalInit
<1>2. "NUL" \in Chars /\ Chars \subseteq Bytes
  BY Zenon DEF Chars, Visible, Bytes
<1>3. ReadingOK
  <2>1. MaxLength \in Nat
    BY ConsoleAssumption
  <2>2. result \in [0 .. MaxLength -> Chars] /\ length \in 0 .. MaxLength
    BY <1>1, <1>2, <2>1
  <2>3. call \in Kind /\ pc # "extended"
    BY <1>1 DEF Kind
  <2> QED
    BY <1>1, <1>2, <2>2, <2>3 DEF ReadingOK
<1>4. CursorOffset \in 0 .. TerminalSize /\ Even
  <2>1. circumstance.start \in {2 * n : n \in 0 .. Width * Height}
    BY <1>1, ConsoleAssumption
  <2>2. PICK n \in 0 .. Width * Height : CursorOffset = 2 * n
    BY <1>1, <2>1
  <2>3. Width \in Nat /\ Height \in Nat
    BY TerminalAssumption
  <2>4. Width * Height \in Nat /\ TerminalSize = 2 * (Width * Height)
    BY <2>3, Products DEF TerminalSize, LineSize
  <2>5. n \in Nat /\ 2 * n <= 2 * (Width * Height)
    BY <2>4
  <2> QED
    BY <2>2, <2>4, <2>5, DoubleIsEven DEF Even
<1>5. FlowOK /\ Top.code = <<>>
  <2> DEFINE e == [code |-> <<>>, reg |-> 0]
  <2>1. <<>> \in Seq(Instr)
    OBVIOUS
  <2>2. e \in Flow /\ e.code = <<>>
    BY <2>1 DEF Flow
  <2>3. flow = <<e>>
    BY <1>1
  <2> HIDE DEF e
  <2>4. \A a \in Flow : <<a>> \in Seq(Flow) /\ Len(<<a>>) = 1 /\ <<a>>[1] = a
    OBVIOUS
  <2>5. flow \in Seq(Flow) /\ Len(flow) = 1 /\ flow[1] = e
    BY <2>2, <2>3, <2>4
  <2>6. TerminalBuffer \in [0 .. TerminalSize - 1 -> Bytes]
    BY <1>1, <1>2
  <2>7. Top.code = <<>>
    BY <2>2, <2>5 DEF Top
  <2> QED
    BY <1>1, <1>4, <2>5, <2>6, <2>7 DEF FlowOK, Flow
<1>6. Between
  <2>1. <<>> \in Rests /\ <<>> \in Texts /\ On(TerminalBuffer, CursorOffset, <<>>)
    BY Routines, NoText
  <2>2. ~Claimed /\ <<>> \in Seq(Puts)
    BY <1>1 DEF Claimed
  <2>3. Leads(<<>>, <<>>)
    BY <2>2 DEF Leads
  <2> QED
    BY <1>4, <1>5, <2>1, <2>3 DEF Between
<1> QED
  BY <1>1, <1>3, <1>5, <1>6 DEF ConsoleInv, Screen

LEMMA ConsoleInvGoesOn == ConsoleInv /\ [Next]_vars => ConsoleInv'
<1> SUFFICES ASSUME ConsoleInv, [Next]_vars PROVE ConsoleInv'
  OBVIOUS
<1>1. CASE Main
  <2>1. CASE Execute /\ UNCHANGED others
    BY <2>1, ExecuteStep
  <2>2. ASSUME NEW b \in Range(buffer),
               \/ ReadShift(b)
               \/ ReadCapsLock(b)
               \/ ReadPrefix(b)
               \/ ReadExtended(b)
               \/ ReadPlain(b)
               \/ ReadKey(b)
        PROVE  ConsoleInv'
    BY <2>2, ReadStep
  <2> QED
    BY <1>1, <2>1, <2>2 DEF Main
<1>2. ASSUME NEW kind \in Kind, Call(kind) PROVE ConsoleInv'
  BY <1>2, CallStep
<1>3. CASE HardwareInterruptHandler /\ UNCHANGED others
  BY <1>3, HandlerStep
<1>4. ASSUME NEW key, Press(key) \/ Release(key) PROVE ConsoleInv'
  <2>1. Quiet /\ UNCHANGED <<terminal, reading, uneven>>
    BY <1>4 DEF Press, Release, Acts
  <2> QED
    BY <2>1, KeyStep
<1>5. CASE Repeat
  <2>1. Quiet /\ UNCHANGED <<terminal, reading, uneven>>
    BY <1>5 DEF Repeat, Acts
  <2> QED
    BY <2>1, KeyStep
<1>6. CASE UNCHANGED vars
  <2>1. UNCHANGED <<CursorOffset, TerminalBuffer, flow, beyond, spurious, raced>>
    BY <1>6 DEF vars, terminal
  <2>2. UNCHANGED <<pc, call, result, length, entered, character, uneven>>
    BY <1>6 DEF vars, reading
  <2>3. (Claimed' <=> Claimed) /\ Shown' = Shown
    BY <2>1, <2>2 DEF Claimed, Shown
  <2>4. ReadingOK' <=> ReadingOK
    BY <2>2 DEF ReadingOK
  <2>5. (FlowOK' <=> FlowOK) /\ Top' = Top /\ (Even' <=> Even)
    BY <2>1 DEF FlowOK, Top, Even
  <2>6. \A r, b : Leads(r, b)' <=> Leads(r, b)
    BY <2>3 DEF Leads
  <2>7. \A f, n, r : Doing(f, n, r)' <=> Doing(f, n, r)
    BY <2>5 DEF Doing
  <2>8. \A n, x, b : Stage(n, x, b)' <=> Stage(n, x, b)
    BY <2>1, <2>5 DEF Stage
  <2>9. Between' <=> Between
    BY <2>1, <2>5, <2>6 DEF Between
  <2>10. Putting' <=> Putting
    BY <2>3, <2>6, <2>7, <2>8 DEF Putting
  <2>11. GoingBack' <=> GoingBack
    BY <2>1, <2>5, <2>6, <2>7 DEF GoingBack
  <2>12. Moving' <=> Moving
    BY <2>1, <2>3, <2>5, <2>7 DEF Moving
  <2>13. Testing' <=> Testing
    BY <2>1, <2>3, <2>5 DEF Testing
  <2> QED
    BY <2>1, <2>4, <2>5, <2>9, <2>10, <2>11, <2>12, <2>13 DEF ConsoleInv, Screen
<1> QED
  BY <1>1, <1>2, <1>3, <1>4, <1>5, <1>6 DEF Next

-----------------------------------------------------------------------------
\* The theorems

THEOREM ConsoleInvHolds == Spec => []ConsoleInv
BY ConsoleInvStarts, ConsoleInvGoesOn, PTL DEF Spec

\* However characters, lines, erasing and scrolls follow one another, and whatever handlers
\* print while no character is under way, no byte is written past the screen, and the cursor is at a
\* character when nothing is being printed (terminal.c:36-42, 67-69).
THEOREM WritesStayOnScreenHolds == Spec => []WritesStayOnScreen
<1>1. ConsoleInv => WritesStayOnScreen
  <2> SUFFICES ASSUME ConsoleInv, ~raced PROVE beyond = {} /\ (Quiet => CursorOffset % 2 = 0)
    BY DEF WritesStayOnScreen
  <2>1. Screen
    BY DEF ConsoleInv
  <2>2. beyond = {}
    BY <2>1 DEF Screen, FlowOK
  <2>3. Quiet => CursorOffset % 2 = 0
    BY <2>1, NothingToDo DEF Quiet, Even
  <2> QED
    BY <2>2, <2>3
<1> QED
  BY <1>1, ConsoleInvHolds, PTL

LEMMA MinOfTwo == ASSUME NEW a \in Nat, NEW b \in Nat PROVE Min({a, b}) \in Nat /\ Min({a, b}) <= a /\ Min({a, b}) <= b
<1>1. \E x \in {a, b} : \A y \in {a, b} : x <= y
  <2>1. CASE a <= b
    BY <2>1
  <2>2. CASE ~(a <= b)
    BY <2>2
  <2> QED
    BY <2>1, <2>2
<1>2. Min({a, b}) \in {a, b} /\ \A y \in {a, b} : Min({a, b}) <= y
  BY <1>1 DEF Min
<1> QED
  BY <1>2

\* What has been read and not erased stands before the cursor as far as the screen holds it,
\* however long the line and wherever it wraps or scrolls; and no line outgrows the caller's
\* array, with any keys at any time (terminal.c:142-188, ps2-kbd.c:265).
THEOREM EchoMatchesHolds == Spec => []EchoMatches
<1>1. ConsoleInv => EchoMatches
  <2> SUFFICES ASSUME ConsoleInv PROVE EchoMatches
    OBVIOUS
  <2>1. ReadingOK /\ length \in 0 .. MaxLength /\ DOMAIN result = 0 .. MaxLength
    BY DEF ConsoleInv, ReadingOK
  <2>2. ASSUME Quiet, pc # "idle", spurious = 0, ~uneven, NEW k \in 1 .. Min({Len(Shown), CursorOffset \div 2})
        PROVE  TerminalBuffer[CursorOffset - 2 * k] = Shown[Len(Shown) - k + 1]
    <3>1. ~raced
      BY <2>2 DEF ConsoleInv
    <3>2. Screen /\ Top.code = <<>> /\ Claimed
      BY <2>2, <3>1 DEF ConsoleInv, Quiet, Claimed
    <3>3. FlowOK /\ On(TerminalBuffer, CursorOffset, Shown)
      BY <3>2, NothingToDo
    <3>4. CursorOffset \in Nat /\ CursorOffset \div 2 \in Nat
      BY <3>3, Sizes DEF FlowOK
    <3>5. Len(Shown) \in Nat
      BY <2>1, ShownOK DEF Texts
    <3>6. k \in 1 .. Len(Shown) /\ k <= CursorOffset \div 2
      BY <2>2, <3>4, <3>5, MinOfTwo
    <3>7. 2 * k <= CursorOffset
      BY <3>4, <3>6
    <3> QED
      BY <3>3, <3>6, <3>7 DEF On
  <2> QED
    BY <2>1, <2>2 DEF EchoMatches
<1> QED
  BY <1>1, ConsoleInvHolds, PTL

-----------------------------------------------------------------------------
\* What the user meant

\* A byte of the buffer.
Byte == [key : Key \cup {"prefix"}, released : BOOLEAN, meant : Chars]

\* What a byte makes of shift and of caps lock, and that it means then what was meant.
ShiftAfter(b, s) == IF b.key \in Shifts THEN ~s ELSE s
CapsAfter(b, c) == IF b.key = "caps lock" /\ ~b.released THEN ~c ELSE c
AsMeant(b, s, c) == ~b.released => b.meant = Character(b.key, s, c)

\* sh and cp are shift and caps lock before each of the bytes and after the last.
Traces(bytes, sh, cp) ==
    \A k \in 1 .. Len(bytes) :
        /\ sh[k + 1] = ShiftAfter(bytes[k], sh[k]) /\ cp[k + 1] = CapsAfter(bytes[k], cp[k])
        /\ AsMeant(bytes[k], sh[k], cp[k])

\* The bytes lead from shift s and caps lock c to shift and caps lock t and d.
Follows(bytes, s, c, t, d) ==
    \E sh, cp \in [1 .. Len(bytes) + 1 -> BOOLEAN] :
        /\ sh[1] = s /\ cp[1] = c /\ sh[Len(bytes) + 1] = t /\ cp[Len(bytes) + 1] = d
        /\ Traces(bytes, sh, cp)

\* A prefix is followed by the byte of its key.
Whole(bytes) ==
    \A k \in 1 .. Len(bytes) :
        bytes[k].key = "prefix" => k < Len(bytes) /\ bytes[k + 1].key \in Extended

KeysOK == held \in Seq(Key) /\ \A i, j \in 1 .. Len(held) : held[i] = held[j] => i = j

AnyShift == HeldShifts(held) # {}

LineKept ==
    pc # "idle" /\ call \in {"line", "silent"} =>
        length = Len(meant) /\ \A k \in 1 .. length : result[k - 1] = meant[k]

InStep ==
    /\ HeldShifts(held) # Shifts
    /\ Follows(buffer, ShiftPressed, CapsLockActivated, AnyShift, capsMeant)
    /\ Whole(buffer)
    /\ pc = "extended" => buffer # <<>> /\ Head(buffer).key \in Extended
    /\ LineKept

UserOK ==
    /\ circumstance \in Circumstances /\ KeysOK
    /\ capsMeant \in BOOLEAN /\ ShiftPressed \in BOOLEAN /\ CapsLockActivated \in BOOLEAN
    /\ buffer \in Seq(Byte) /\ meant \in Seq(Chars)

UserInv == UserOK /\ (~confused => InStep)

LEMMA AfterOK ==
    ASSUME NEW b, NEW s \in BOOLEAN
    PROVE  ShiftAfter(b, s) \in BOOLEAN /\ CapsAfter(b, s) \in BOOLEAN
BY Zenon DEF ShiftAfter, CapsAfter

LEMMA FollowsNone ==
    ASSUME NEW s \in BOOLEAN, NEW c \in BOOLEAN
    PROVE  Follows(<<>>, s, c, s, c)
<1> DEFINE sh == [k \in 1 .. 1 |-> s]
           cp == [k \in 1 .. 1 |-> c]
<1>1. sh \in [1 .. 1 -> BOOLEAN] /\ cp \in [1 .. 1 -> BOOLEAN] /\ sh[1] = s /\ cp[1] = c
  OBVIOUS
<1>2. Traces(<<>>, sh, cp)
  BY DEF Traces
<1>3. Len(<<>>) + 1 = 1
  OBVIOUS
<1> HIDE DEF sh, cp
<1> QED
  BY <1>1, <1>2, <1>3 DEF Follows

LEMMA FollowsOne ==
    ASSUME NEW bytes \in Seq(Byte), NEW b \in Byte, NEW s, NEW c, NEW t \in BOOLEAN, NEW d \in BOOLEAN,
           Follows(bytes, s, c, t, d), AsMeant(b, t, d)
    PROVE  Follows(Append(bytes, b), s, c, ShiftAfter(b, t), CapsAfter(b, d))
<1> DEFINE n == Len(bytes)
<1>1. PICK sh \in [1 .. n + 1 -> BOOLEAN], cp \in [1 .. n + 1 -> BOOLEAN] :
          sh[1] = s /\ cp[1] = c /\ sh[n + 1] = t /\ cp[n + 1] = d /\ Traces(bytes, sh, cp)
  BY DEF Follows
<1>2. n \in Nat
  OBVIOUS
<1> DEFINE all == Append(bytes, b)
           st == ShiftAfter(b, t)
           ca == CapsAfter(b, d)
<1>3. all \in Seq(Byte) /\ Len(all) = n + 1 /\ (\A i \in 1 .. n : all[i] = bytes[i]) /\ all[n + 1] = b
  BY AppendProperties
<1>4. st \in BOOLEAN /\ ca \in BOOLEAN
  BY AfterOK
<1> HIDE DEF n, all, st, ca
<1> DEFINE sh1 == [k \in 1 .. n + 2 |-> IF k <= n + 1 THEN sh[k] ELSE st]
           cp1 == [k \in 1 .. n + 2 |-> IF k <= n + 1 THEN cp[k] ELSE ca]
<1>5. sh1 \in [1 .. n + 2 -> BOOLEAN] /\ cp1 \in [1 .. n + 2 -> BOOLEAN]
  BY <1>2, <1>4
<1>6. \A k \in 1 .. n + 1 : sh1[k] = sh[k] /\ cp1[k] = cp[k]
  BY <1>2
<1>7. sh1[n + 2] = st /\ cp1[n + 2] = ca
  BY <1>2
<1> HIDE DEF sh1, cp1
<1>8. ASSUME NEW k \in 1 .. n + 1
      PROVE  /\ sh1[k + 1] = ShiftAfter(all[k], sh1[k]) /\ cp1[k + 1] = CapsAfter(all[k], cp1[k])
             /\ AsMeant(all[k], sh1[k], cp1[k])
  <2>1. CASE k = n + 1
    <3>1. all[k] = b /\ sh1[k] = t /\ cp1[k] = d /\ sh1[k + 1] = st /\ cp1[k + 1] = ca
      <4>1. k + 1 = n + 2 /\ k \in 1 .. n + 1
        BY <1>2, <2>1
      <4> QED
        BY <1>1, <1>3, <1>6, <1>7, <2>1, <4>1
    <3> QED
      BY Zenon, <3>1 DEF st, ca
  <2>2. CASE k # n + 1
    <3>1. k \in 1 .. n /\ k + 1 \in 1 .. n + 1
      BY <1>2, <2>2
    <3>2. all[k] = bytes[k] /\ sh1[k] = sh[k] /\ cp1[k] = cp[k] /\ sh1[k + 1] = sh[k + 1] /\ cp1[k + 1] = cp[k + 1]
      BY <1>3, <1>6, <3>1
    <3>3. /\ sh[k + 1] = ShiftAfter(bytes[k], sh[k]) /\ cp[k + 1] = CapsAfter(bytes[k], cp[k])
          /\ AsMeant(bytes[k], sh[k], cp[k])
      BY <1>1, <3>1 DEF Traces, n
    <3> QED
      BY Zenon, <3>2, <3>3
  <2> QED
    BY <2>1, <2>2
<1>9. Traces(all, sh1, cp1)
  BY <1>3, <1>8 DEF Traces
<1>10. Len(all) + 1 = n + 2 /\ 1 \in 1 .. n + 1
  BY <1>2, <1>3
<1>11. sh1[1] = s /\ cp1[1] = c
  BY <1>1, <1>6, <1>10
<1>12. Follows(all, s, c, st, ca)
  BY <1>5, <1>7, <1>9, <1>10, <1>11 DEF Follows
<1> QED
  BY <1>12 DEF all, st, ca

LEMMA FollowsRest ==
    ASSUME NEW bytes \in Seq(Byte), bytes # <<>>, NEW s, NEW c, NEW t, NEW d, Follows(bytes, s, c, t, d)
    PROVE  /\ AsMeant(Head(bytes), s, c)
           /\ Follows(Tail(bytes), ShiftAfter(Head(bytes), s), CapsAfter(Head(bytes), c), t, d)
<1> DEFINE n == Len(bytes)
           rest == Tail(bytes)
<1>1. PICK sh \in [1 .. n + 1 -> BOOLEAN], cp \in [1 .. n + 1 -> BOOLEAN] :
          sh[1] = s /\ cp[1] = c /\ sh[n + 1] = t /\ cp[n + 1] = d /\ Traces(bytes, sh, cp)
  BY DEF Follows
<1>2. n \in Nat /\ n >= 1 /\ bytes[1] = Head(bytes)
  OBVIOUS
<1>3. rest \in Seq(Byte) /\ Len(rest) = n - 1 /\ \A i \in 1 .. n - 1 : rest[i] = bytes[i + 1]
  BY HeadTailProperties
<1>4. \A k \in 1 .. n :
          /\ sh[k + 1] = ShiftAfter(bytes[k], sh[k]) /\ cp[k + 1] = CapsAfter(bytes[k], cp[k])
          /\ AsMeant(bytes[k], sh[k], cp[k])
  BY <1>1 DEF Traces
<1> HIDE DEF n, rest
<1> DEFINE sh1 == [k \in 1 .. n |-> sh[k + 1]]
           cp1 == [k \in 1 .. n |-> cp[k + 1]]
<1>5. sh1 \in [1 .. n -> BOOLEAN] /\ cp1 \in [1 .. n -> BOOLEAN]
  BY <1>2
<1>6. \A k \in 1 .. n : sh1[k] = sh[k + 1] /\ cp1[k] = cp[k + 1]
  BY <1>2
<1> HIDE DEF sh1, cp1
<1>7. 1 \in 1 .. n /\ n \in 1 .. n /\ Len(rest) + 1 = n /\ 1 + 1 = 2
  BY <1>2, <1>3
<1>8. AsMeant(Head(bytes), s, c) /\ sh[2] = ShiftAfter(Head(bytes), s) /\ cp[2] = CapsAfter(Head(bytes), c)
  <2>1. /\ sh[2] = ShiftAfter(bytes[1], sh[1]) /\ cp[2] = CapsAfter(bytes[1], cp[1])
        /\ AsMeant(bytes[1], sh[1], cp[1])
    BY <1>4, <1>7
  <2> QED
    BY Zenon, <1>1, <1>2, <2>1
<1>9. Traces(rest, sh1, cp1)
  <2>1. ASSUME NEW k \in 1 .. Len(rest)
        PROVE  /\ sh1[k + 1] = ShiftAfter(rest[k], sh1[k]) /\ cp1[k + 1] = CapsAfter(rest[k], cp1[k])
               /\ AsMeant(rest[k], sh1[k], cp1[k])
    <3>1. k \in 1 .. n /\ k + 1 \in 1 .. n /\ k \in 1 .. n - 1
      BY <1>2, <1>3
    <3>2. rest[k] = bytes[k + 1] /\ sh1[k] = sh[k + 1] /\ cp1[k] = cp[k + 1]
          /\ sh1[k + 1] = sh[(k + 1) + 1] /\ cp1[k + 1] = cp[(k + 1) + 1]
      BY <1>3, <1>6, <3>1
    <3>3. /\ sh[(k + 1) + 1] = ShiftAfter(bytes[k + 1], sh[k + 1]) /\ cp[(k + 1) + 1] = CapsAfter(bytes[k + 1], cp[k + 1])
          /\ AsMeant(bytes[k + 1], sh[k + 1], cp[k + 1])
      BY <1>4, <3>1
    <3> QED
      BY Zenon, <3>2, <3>3
  <2> QED
    BY <2>1 DEF Traces
<1>10. sh1[1] = sh[2] /\ cp1[1] = cp[2] /\ sh1[n] = t /\ cp1[n] = d
  BY <1>1, <1>6, <1>7
<1>11. Follows(rest, sh[2], cp[2], t, d)
  BY <1>5, <1>7, <1>9, <1>10 DEF Follows
<1> QED
  BY Zenon, <1>8, <1>11 DEF rest
-----------------------------------------------------------------------------
\* The user

LEMMA CharacterIs == ASSUME NEW key, NEW s, NEW c PROVE Character(key, s, c) \in Chars
<1>1. {"A", "a", "LF", "BS", "TAB", "4", ".", "NUL"} \subseteq Chars
  BY Zenon DEF Chars, Visible
<1>2. Character(key, s, c) \in {"A", "a", "LF", "BS", "TAB", "4", ".", "NUL"}
  BY DEF Character
<1> QED
  BY <1>1, <1>2

LEMMA Codes ==
    ASSUME NEW key \in Key, NEW released \in BOOLEAN, NEW c \in Chars
    PROVE  LET b == [key |-> key, released |-> released, meant |-> c] IN
           /\ b \in Byte /\ Prefix \in Byte
           /\ key \in Extended => ScanCodes(key, released, c) = <<Prefix>> \o <<b>>
           /\ key \notin Extended => ScanCodes(key, released, c) = <<>> \o <<b>>
<1> DEFINE b == [key |-> key, released |-> released, meant |-> c]
<1>1. b \in Byte
  BY DEF Byte
<1>2. "NUL" \in Chars
  BY Zenon DEF Chars, Visible
<1>3. Prefix \in Byte
  BY <1>2 DEF Byte, Prefix
<1> QED
  BY <1>1, <1>3 DEF ScanCodes

LEMMA CodesJoined ==
    ASSUME NEW key \in Key, NEW released \in BOOLEAN, NEW c \in Chars, NEW bytes \in Seq(Byte)
    PROVE  LET b == [key |-> key, released |-> released, meant |-> c]
               codes == ScanCodes(key, released, c)
           IN /\ codes \in Seq(Byte) /\ Len(codes) \in {1, 2}
              /\ key \in Extended => bytes \o codes = Append(Append(bytes, Prefix), b)
              /\ key \notin Extended => bytes \o codes = Append(bytes, b)
<1> DEFINE b == [key |-> key, released |-> released, meant |-> c]
           codes == ScanCodes(key, released, c)
<1>1. /\ b \in Byte /\ Prefix \in Byte
      /\ key \in Extended => codes = <<Prefix>> \o <<b>>
      /\ key \notin Extended => codes = <<>> \o <<b>>
  BY Codes
<1> HIDE DEF b, codes
<1>2. \A x \in Byte : <<x>> \in Seq(Byte) /\ Len(<<x>>) = 1
  OBVIOUS
<1>3. \A x \in Byte : <<>> \o <<x>> = <<x>>
  BY <1>2, ConcatEmptySeq
<1>4. <<Prefix>> \o <<b>> \in Seq(Byte) /\ Len(<<Prefix>> \o <<b>>) = 2
  <2>1. <<Prefix>> \in Seq(Byte) /\ <<b>> \in Seq(Byte) /\ Len(<<Prefix>>) = 1 /\ Len(<<b>>) = 1
    BY <1>1, <1>2
  <2> QED
    BY <2>1, ConcatProperties
<1>5. codes \in Seq(Byte) /\ Len(codes) \in {1, 2}
  BY <1>1, <1>2, <1>3, <1>4
<1>6. bytes \o <<b>> = Append(bytes, b)
  BY <1>1, AppendIsConcat
<1>7. bytes \o (<<Prefix>> \o <<b>>) = Append(Append(bytes, Prefix), b)
  <2>1. <<Prefix>> \in Seq(Byte) /\ <<b>> \in Seq(Byte)
    BY <1>1, <1>2
  <2>2. bytes \o (<<Prefix>> \o <<b>>) = (bytes \o <<Prefix>>) \o <<b>>
    BY <2>1, ConcatAssociative
  <2>3. bytes \o <<Prefix>> = Append(bytes, Prefix) /\ Append(bytes, Prefix) \in Seq(Byte)
    BY <1>1, AppendIsConcat, AppendProperties
  <2>4. Append(bytes, Prefix) \o <<b>> = Append(Append(bytes, Prefix), b)
    BY <1>1, <2>3, AppendIsConcat
  <2> QED
    BY <2>2, <2>3, <2>4
<1>8. key \notin Extended => codes = <<b>>
  BY <1>1, <1>3
<1> QED
  BY <1>1, <1>5, <1>6, <1>7, <1>8 DEF b, codes

LEMMA MaxOfTwo == ASSUME NEW a \in Int, NEW b \in Int PROVE Max({a, b}) \in {a, b} /\ Max({a, b}) >= a /\ Max({a, b}) >= b
<1>1. \E x \in {a, b} : \A y \in {a, b} : x >= y
  <2>1. CASE a >= b
    BY <2>1
  <2>2. CASE ~(a >= b)
    BY <2>2
  <2> QED
    BY <2>1, <2>2
<1>2. Max({a, b}) \in {a, b} /\ \A y \in {a, b} : Max({a, b}) >= y
  BY <1>1 DEF Max
<1> QED
  BY <1>2

LEMMA Arrives ==
    ASSUME buffer \in Seq(Byte), NEW bytes \in Seq(Byte), Len(bytes) \in {1, 2}, Arrive(bytes)
    PROVE  /\ buffer' \in Seq(Byte)
           /\ ~Overflows(Len(bytes)) => buffer' = buffer \o bytes
<1> DEFINE all == buffer \o bytes
           from == Max({1, Len(all) - BufferLength + 1})
<1>1. all \in Seq(Byte) /\ Len(all) = Len(buffer) + Len(bytes)
  BY ConcatProperties
<1>2. Len(buffer) \in Nat /\ Len(bytes) \in Nat /\ Len(all) \in Nat /\ Len(all) >= 1
  BY <1>1
<1>3. BufferLength \in Nat /\ BufferLength >= 1
  BY ConsoleAssumption
<1>4. buffer' = SubSeq(all, from, Len(all))
  BY DEF Arrive
<1> HIDE DEF all
<1>5. from \in {1, Len(all) - BufferLength + 1} /\ from >= 1 /\ from >= Len(all) - BufferLength + 1
  <2> DEFINE x == Len(all) - BufferLength + 1
  <2>1. 1 \in Int /\ x \in Int
    BY <1>2, <1>3
  <2> HIDE DEF x
  <2>2. Max({1, x}) \in {1, x} /\ Max({1, x}) >= 1 /\ Max({1, x}) >= x
    BY <2>1, MaxOfTwo
  <2> QED
    BY <2>2 DEF x
<1> HIDE DEF from
<1>6. from \in 1 .. Len(all)
  BY <1>2, <1>3, <1>5
<1>7. /\ SubSeq(all, from, Len(all)) \in Seq(Byte) /\ Len(SubSeq(all, from, Len(all))) = Len(all) - from + 1
      /\ \A i \in 1 .. Len(all) - from + 1 : SubSeq(all, from, Len(all))[i] = all[from + i - 1]
  BY <1>1, <1>6, Part
<1>8. ASSUME ~Overflows(Len(bytes)) PROVE buffer' = all
  <2>1. from = 1
    BY <1>1, <1>2, <1>3, <1>5, <1>8 DEF Overflows
  <2>2. Len(buffer') = Len(all) /\ \A i \in 1 .. Len(all) : buffer'[i] = all[i]
    BY <1>2, <1>4, <1>7, <2>1
  <2> QED
    BY <1>1, <1>4, <1>7, <2>2, SeqEqual
<1> QED
  BY <1>4, <1>7, <1>8 DEF all

LEMMA WholeOne ==
    ASSUME NEW bytes \in Seq(Byte), NEW b \in Byte, Whole(bytes), b.key # "prefix"
    PROVE  Whole(Append(bytes, b))
<1>1. /\ Len(bytes) \in Nat /\ Len(Append(bytes, b)) = Len(bytes) + 1
      /\ (\A i \in 1 .. Len(bytes) : Append(bytes, b)[i] = bytes[i]) /\ Append(bytes, b)[Len(bytes) + 1] = b
  BY AppendProperties
<1> DEFINE all == Append(bytes, b)
<1> HIDE DEF all
<1>2. ASSUME NEW k \in 1 .. Len(bytes) + 1, all[k].key = "prefix"
      PROVE  k < Len(bytes) + 1 /\ all[k + 1].key \in Extended
  <2>1. k \in 1 .. Len(bytes) /\ all[k] = bytes[k]
    BY <1>1, <1>2 DEF all
  <2>2. k < Len(bytes) /\ bytes[k + 1].key \in Extended
    BY <1>2, <2>1 DEF Whole
  <2>3. k + 1 \in 1 .. Len(bytes)
    BY <1>1, <2>2
  <2> QED
    BY <1>1, <2>2, <2>3 DEF all
<1> QED
  BY <1>1, <1>2 DEF Whole, all

LEMMA WholeTwo ==
    ASSUME NEW bytes \in Seq(Byte), NEW b \in Byte, Whole(bytes), b.key \in Extended
    PROVE  Whole(Append(Append(bytes, Prefix), b))
<1> DEFINE one == Append(bytes, Prefix)
           all == Append(one, b)
           n == Len(bytes)
<1>1. Prefix \in Byte
  <2>1. "NUL" \in Chars
    BY Zenon DEF Chars, Visible
  <2> QED
    BY <2>1 DEF Prefix, Byte
<1>2. /\ n \in Nat /\ one \in Seq(Byte) /\ Len(one) = n + 1
      /\ (\A i \in 1 .. n : one[i] = bytes[i]) /\ one[n + 1] = Prefix
  BY <1>1, AppendProperties
<1> HIDE DEF one
<1>3. /\ Len(all) = n + 2 /\ (\A i \in 1 .. n + 1 : all[i] = one[i]) /\ all[n + 2] = b
  BY <1>2, AppendProperties
<1> HIDE DEF all, n
<1>4. b.key # "prefix"
  BY DEF Extended
<1>5. ASSUME NEW k \in 1 .. n + 2, all[k].key = "prefix"
      PROVE  k < n + 2 /\ all[k + 1].key \in Extended
  <2>1. k # n + 2
    BY <1>3, <1>4, <1>5
  <2>2. CASE k = n + 1
    <3>1. k < n + 2 /\ k + 1 = n + 2
      BY <1>2, <2>2
    <3> QED
      BY <1>3, <3>1
  <2>3. CASE k \in 1 .. n
    <3>1. k \in 1 .. n + 1 /\ all[k] = bytes[k]
      BY <1>2, <1>3, <2>3
    <3>2. k < n /\ bytes[k + 1].key \in Extended
      BY <1>5, <2>3, <3>1 DEF Whole, n
    <3>3. k + 1 \in 1 .. n /\ k + 1 \in 1 .. n + 1
      BY <1>2, <3>2
    <3>4. all[k + 1] = bytes[k + 1]
      BY <1>2, <1>3, <3>3
    <3> QED
      BY <1>2, <3>2, <3>4
  <2> QED
    BY <1>2, <2>1, <2>2, <2>3
<1>6. Whole(all)
  BY <1>3, <1>5 DEF Whole
<1> QED
  BY <1>6 DEF all, one

LEMMA WholeRest ==
    ASSUME NEW bytes \in Seq(Byte), bytes # <<>>, Whole(bytes)
    PROVE  /\ Whole(Tail(bytes))
           /\ Head(bytes).key = "prefix" => Tail(bytes) # <<>> /\ Head(Tail(bytes)).key \in Extended
<1> DEFINE rest == Tail(bytes)
           n == Len(bytes)
<1>1. /\ n \in Nat /\ n >= 1 /\ bytes[1] = Head(bytes)
      /\ rest \in Seq(Byte) /\ Len(rest) = n - 1 /\ \A i \in 1 .. n - 1 : rest[i] = bytes[i + 1]
  BY HeadTailProperties
<1> HIDE DEF n, rest
<1>2. \A k \in 1 .. n : bytes[k].key = "prefix" => k < n /\ bytes[k + 1].key \in Extended
  BY DEF Whole, n
<1>3. ASSUME NEW k \in 1 .. n - 1, rest[k].key = "prefix" PROVE k < n - 1 /\ rest[k + 1].key \in Extended
  <2>1. k + 1 \in 1 .. n /\ rest[k] = bytes[k + 1]
    BY <1>1
  <2>2. k + 1 < n /\ bytes[(k + 1) + 1].key \in Extended
    BY <1>2, <1>3, <2>1
  <2>3. k + 1 \in 1 .. n - 1 /\ k < n - 1
    BY <1>1, <2>2
  <2> QED
    BY <1>1, <2>2, <2>3
<1>4. ASSUME Head(bytes).key = "prefix" PROVE rest # <<>> /\ Head(rest).key \in Extended
  <2>1. 1 \in 1 .. n /\ 1 + 1 = 2
    BY <1>1
  <2>2. 1 < n /\ bytes[2].key \in Extended
    BY <1>1, <1>2, <1>4, <2>1
  <2>3. 1 \in 1 .. n - 1 /\ Len(rest) >= 1
    BY <1>1, <2>2
  <2>4. rest[1] = bytes[2]
    BY <1>1, <2>1, <2>3
  <2>5. rest # <<>> /\ Head(rest) = rest[1]
    BY <1>1, <2>3
  <2> QED
    BY <2>2, <2>4, <2>5
<1> QED
  BY <1>1, <1>3, <1>4 DEF Whole, rest

\* What happens to the keyboard reaches the buffer whole, unless a byte is lost.
LEMMA KeySent ==
    ASSUME UserOK, NEW key \in Key, NEW released \in BOOLEAN, NEW c \in Chars,
           Arrive(ScanCodes(key, released, c))
    PROVE  LET b == [key |-> key, released |-> released, meant |-> c] IN
           /\ buffer' \in Seq(Byte)
           /\ ~Overflows(Len(ScanCodes(key, released, c))) /\ InStep /\ AsMeant(b, AnyShift, capsMeant) =>
                 /\ Follows(buffer', ShiftPressed, CapsLockActivated,
                            ShiftAfter(b, AnyShift), CapsAfter(b, capsMeant))
                 /\ Whole(buffer')
                 /\ pc = "extended" => buffer' # <<>> /\ Head(buffer').key \in Extended
<1> DEFINE b == [key |-> key, released |-> released, meant |-> c]
           codes == ScanCodes(key, released, c)
<1>1. buffer \in Seq(Byte) /\ capsMeant \in BOOLEAN
  BY DEF UserOK
<1>2. /\ codes \in Seq(Byte) /\ Len(codes) \in {1, 2}
      /\ key \in Extended => buffer \o codes = Append(Append(buffer, Prefix), b)
      /\ key \notin Extended => buffer \o codes = Append(buffer, b)
  BY <1>1, CodesJoined
<1>3. b \in Byte /\ Prefix \in Byte /\ b.key = key /\ b.key # "prefix"
  <2>1. b \in Byte /\ Prefix \in Byte
    BY Codes
  <2>2. key # "prefix"
    BY DEF Key, Shifts, Extended, Ignored
  <2> QED
    BY <2>1, <2>2
<1> HIDE DEF codes, b
<1>4. buffer' \in Seq(Byte) /\ (~Overflows(Len(codes)) => buffer' = buffer \o codes)
  BY <1>1, <1>2, Arrives DEF codes
<1>5. ASSUME ~Overflows(Len(codes)), InStep, AsMeant(b, AnyShift, capsMeant)
      PROVE  /\ Follows(buffer', ShiftPressed, CapsLockActivated,
                        ShiftAfter(b, AnyShift), CapsAfter(b, capsMeant))
             /\ Whole(buffer')
             /\ pc = "extended" => buffer' # <<>> /\ Head(buffer').key \in Extended
  <2>1. /\ Follows(buffer, ShiftPressed, CapsLockActivated, AnyShift, capsMeant) /\ Whole(buffer)
        /\ pc = "extended" => buffer # <<>> /\ Head(buffer).key \in Extended
    BY <1>5 DEF InStep
  <2>2. AnyShift \in BOOLEAN
    BY DEF AnyShift
  <2>3. buffer' = buffer \o codes
    BY <1>4, <1>5
  <2>4. pc = "extended" => buffer' # <<>> /\ Head(buffer').key \in Extended
    <3>1. SUFFICES ASSUME buffer # <<>>, Head(buffer).key \in Extended
                   PROVE  buffer' # <<>> /\ Head(buffer').key \in Extended
      BY <2>1
    <3>2. Len(buffer) \in Nat /\ Len(buffer) >= 1 /\ Head(buffer) = buffer[1]
      BY <1>1, <3>1
    <3>3. Len(buffer') = Len(buffer) + Len(codes) /\ buffer'[1] = buffer[1] /\ buffer' # <<>>
      <4>1. /\ Len(buffer \o codes) = Len(buffer) + Len(codes)
            /\ \A i \in 1 .. Len(buffer) + Len(codes) :
                  (buffer \o codes)[i] = IF i <= Len(buffer) THEN buffer[i] ELSE codes[i - Len(buffer)]
        BY <1>1, <1>2, ConcatProperties
      <4>2. 1 \in 1 .. Len(buffer) + Len(codes) /\ 1 <= Len(buffer) /\ Len(buffer) + Len(codes) >= 1
        BY <1>2, <3>2
      <4>3. Len(<<>>) = 0
        OBVIOUS
      <4> QED
        BY <2>3, <4>1, <4>2, <4>3
    <3>4. Head(buffer') = buffer'[1]
      BY <1>4, <3>3
    <3> QED
      BY <3>1, <3>2, <3>3, <3>4
  <2>5. CASE key \notin Extended
    <3>1. buffer' = Append(buffer, b)
      BY <1>2, <2>3, <2>5
    <3>2. Follows(Append(buffer, b), ShiftPressed, CapsLockActivated,
                  ShiftAfter(b, AnyShift), CapsAfter(b, capsMeant))
      BY <1>1, <1>3, <1>5, <2>1, <2>2, FollowsOne
    <3>3. Whole(Append(buffer, b))
      BY <1>1, <1>3, <2>1, WholeOne
    <3> QED
      BY <2>4, <3>1, <3>2, <3>3
  <2>6. CASE key \in Extended
    <3>1. buffer' = Append(Append(buffer, Prefix), b) /\ Append(buffer, Prefix) \in Seq(Byte)
      BY <1>1, <1>2, <1>3, <2>3, <2>6, AppendProperties
    <3>2. /\ AsMeant(Prefix, AnyShift, capsMeant)
          /\ ShiftAfter(Prefix, AnyShift) = AnyShift /\ CapsAfter(Prefix, capsMeant) = capsMeant
      BY DEF AsMeant, ShiftAfter, CapsAfter, Prefix, Shifts
    <3>3. Follows(Append(buffer, Prefix), ShiftPressed, CapsLockActivated,
                  ShiftAfter(Prefix, AnyShift), CapsAfter(Prefix, capsMeant))
      BY <1>1, <1>3, <2>1, <2>2, <3>2, FollowsOne
    <3>4. Follows(Append(buffer, Prefix), ShiftPressed, CapsLockActivated, AnyShift, capsMeant)
      BY Zenon, <3>2, <3>3
    <3>5. Follows(Append(Append(buffer, Prefix), b), ShiftPressed, CapsLockActivated,
                  ShiftAfter(b, AnyShift), CapsAfter(b, capsMeant))
      BY <1>1, <1>3, <1>5, <2>2, <3>1, <3>4, FollowsOne
    <3>6. Whole(Append(Append(buffer, Prefix), b))
      BY <1>1, <1>3, <2>1, <2>6, WholeTwo
    <3> QED
      BY <2>4, <3>1, <3>5, <3>6
  <2> QED
    BY <2>5, <2>6
<1> QED
  BY <1>4, <1>5 DEF codes, b

LEMMA RemovedAt ==
    ASSUME NEW S, NEW s \in Seq(S), NEW i \in 1 .. Len(s)
    PROVE  /\ RemoveAt(s, i) \in Seq(S) /\ Len(RemoveAt(s, i)) = Len(s) - 1
           /\ \A k \in 1 .. Len(s) - 1 : RemoveAt(s, i)[k] = IF k < i THEN s[k] ELSE s[k + 1]
<1> DEFINE p == SubSeq(s, 1, i - 1)
           q == SubSeq(s, i + 1, Len(s))
           n == Len(s)
<1>1. n \in Nat /\ i \in Int /\ i >= 1 /\ i <= n
  OBVIOUS
<1>2. p \in Seq(S) /\ Len(p) = i - 1 /\ \A k \in 1 .. i - 1 : p[k] = s[k]
  <2>1. 1 \in Int /\ i - 1 \in Int /\ \A k \in 1 .. i - 1 : s[k] \in S
    BY <1>1
  <2>2. /\ SubSeq(s, 1, i - 1) \in Seq(S) /\ Len(SubSeq(s, 1, i - 1)) = IF 1 <= i - 1 THEN (i - 1) - 1 + 1 ELSE 0
        /\ \A k \in 1 .. (i - 1) - 1 + 1 : SubSeq(s, 1, i - 1)[k] = s[1 + k - 1]
    BY <2>1, SubSeqProperties
  <2> QED
    BY <1>1, <2>2
<1>3. q \in Seq(S) /\ Len(q) = n - i /\ \A k \in 1 .. n - i : q[k] = s[i + k]
  <2>1. i + 1 \in Int /\ n \in Int /\ \A k \in i + 1 .. n : s[k] \in S
    BY <1>1
  <2>2. /\ SubSeq(s, i + 1, n) \in Seq(S) /\ Len(SubSeq(s, i + 1, n)) = IF i + 1 <= n THEN n - (i + 1) + 1 ELSE 0
        /\ \A k \in 1 .. n - (i + 1) + 1 : SubSeq(s, i + 1, n)[k] = s[(i + 1) + k - 1]
    BY <2>1, SubSeqProperties
  <2> QED
    BY <1>1, <2>2
<1> HIDE DEF p, q, n
<1>4. /\ p \o q \in Seq(S) /\ Len(p \o q) = Len(p) + Len(q)
      /\ \A k \in 1 .. Len(p) + Len(q) : (p \o q)[k] = IF k <= Len(p) THEN p[k] ELSE q[k - Len(p)]
  BY <1>2, <1>3, ConcatProperties
<1>5. ASSUME NEW k \in 1 .. n - 1 PROVE (p \o q)[k] = IF k < i THEN s[k] ELSE s[k + 1]
  <2>1. k \in 1 .. Len(p) + Len(q)
    BY <1>1, <1>2, <1>3
  <2>2. CASE k < i
    <3>1. k \in 1 .. i - 1 /\ k <= Len(p)
      BY <1>1, <1>2, <2>2
    <3> QED
      BY <1>2, <1>4, <2>1, <2>2, <3>1
  <2>3. CASE ~(k < i)
    <3>1. ~(k <= Len(p)) /\ k - Len(p) \in 1 .. n - i /\ i + (k - Len(p)) = k + 1
      BY <1>1, <1>2, <2>3
    <3> QED
      BY <1>3, <1>4, <2>1, <2>3, <3>1
  <2> QED
    BY <2>2, <2>3
<1>6. Len(p \o q) = n - 1
  BY <1>1, <1>2, <1>3, <1>4
<1>7. RemoveAt(s, i) = p \o q
  BY DEF RemoveAt, p, q, n
<1> QED
  BY <1>4, <1>5, <1>6, <1>7 DEF n

LEMMA RangeIs == ASSUME NEW S, NEW s \in Seq(S) PROVE Range(s) = {s[i] : i \in 1 .. Len(s)}
BY DEF Range

\* A key more, and a key less.
LEMMA KeyDown ==
    ASSUME KeysOK, NEW key \in Key, key \notin Range(held), held' = Append(held, key)
    PROVE  KeysOK' /\ Range(held') = Range(held) \cup {key}
<1>1. held \in Seq(Key) /\ Len(held) \in Nat /\ \A i, j \in 1 .. Len(held) : held[i] = held[j] => i = j
  BY DEF KeysOK
<1>2. /\ held' \in Seq(Key) /\ Len(held') = Len(held) + 1
      /\ (\A i \in 1 .. Len(held) : held'[i] = held[i]) /\ held'[Len(held) + 1] = key
  BY <1>1, AppendProperties
<1>3. Range(held) = {held[i] : i \in 1 .. Len(held)} /\ Range(held') = {held'[i] : i \in 1 .. Len(held')}
  <2>1. \A h \in Seq(Key) : Range(h) = {h[i] : i \in 1 .. Len(h)}
    BY RangeIs
  <2> QED
    BY <1>1, <1>2, <2>1
<1>4. \A i \in 1 .. Len(held) : held[i] # key
  BY <1>3
<1>5. ASSUME NEW i \in 1 .. Len(held'), NEW j \in 1 .. Len(held'), held'[i] = held'[j] PROVE i = j
  <2>1. i \in 1 .. Len(held) \/ i = Len(held) + 1
    BY <1>1, <1>2
  <2>2. j \in 1 .. Len(held) \/ j = Len(held) + 1
    BY <1>1, <1>2
  <2> QED
    BY <1>1, <1>2, <1>4, <1>5, <2>1, <2>2
<1>6. Range(held') \subseteq Range(held) \cup {key}
  <2>1. ASSUME NEW i \in 1 .. Len(held') PROVE held'[i] \in Range(held) \cup {key}
    <3>1. i \in 1 .. Len(held) \/ i = Len(held) + 1
      BY <1>1, <1>2
    <3> QED
      BY <1>2, <1>3, <3>1
  <2> QED
    BY <1>3, <2>1
<1>7. Range(held) \cup {key} \subseteq Range(held')
  <2>1. Len(held) + 1 \in 1 .. Len(held') /\ \A i \in 1 .. Len(held) : i \in 1 .. Len(held')
    BY <1>1, <1>2
  <2> QED
    BY <1>2, <1>3, <2>1
<1> QED
  BY <1>2, <1>5, <1>6, <1>7 DEF KeysOK

LEMMA KeyUp ==
    ASSUME KeysOK, NEW p \in DOMAIN held, held' = RemoveAt(held, p)
    PROVE  KeysOK' /\ Range(held') = Range(held) \ {held[p]}
<1>1. held \in Seq(Key) /\ Len(held) \in Nat /\ \A i, j \in 1 .. Len(held) : held[i] = held[j] => i = j
  BY DEF KeysOK
<1>2. p \in 1 .. Len(held)
  BY <1>1
<1>3. /\ held' \in Seq(Key) /\ Len(held') = Len(held) - 1
      /\ \A k \in 1 .. Len(held) - 1 : held'[k] = IF k < p THEN held[k] ELSE held[k + 1]
  BY <1>1, <1>2, RemovedAt
<1>4. Range(held) = {held[i] : i \in 1 .. Len(held)} /\ Range(held') = {held'[i] : i \in 1 .. Len(held')}
  BY <1>1, <1>3, RangeIs
<1>5. \A k \in 1 .. Len(held') : k \in 1 .. Len(held) /\ k + 1 \in 1 .. Len(held) /\ k \in 1 .. Len(held) - 1
  BY <1>1, <1>3
<1>6. ASSUME NEW i \in 1 .. Len(held'), NEW j \in 1 .. Len(held'), held'[i] = held'[j] PROVE i = j
  <2> DEFINE a == IF i < p THEN i ELSE i + 1
             b == IF j < p THEN j ELSE j + 1
  <2>1. a \in 1 .. Len(held) /\ b \in 1 .. Len(held) /\ held'[i] = held[a] /\ held'[j] = held[b]
    BY <1>3, <1>5
  <2>2. a = b
    BY <1>1, <1>6, <2>1
  <2> QED
    BY <1>1, <1>2, <1>5, <2>2
<1>7. Range(held') \subseteq Range(held) \ {held[p]}
  <2>1. ASSUME NEW i \in 1 .. Len(held') PROVE held'[i] \in Range(held) \ {held[p]}
    <3> DEFINE a == IF i < p THEN i ELSE i + 1
    <3>1. a \in 1 .. Len(held) /\ held'[i] = held[a] /\ a # p
      BY <1>2, <1>3, <1>5
    <3> HIDE DEF a
    <3>2. held[a] # held[p]
      BY <1>1, <1>2, <3>1
    <3> QED
      BY <1>4, <3>1, <3>2
  <2> QED
    BY <1>4, <2>1
<1>8. Range(held) \ {held[p]} \subseteq Range(held')
  <2>1. ASSUME NEW i \in 1 .. Len(held), held[i] # held[p] PROVE held[i] \in Range(held')
    <3>1. i < p \/ i > p
      BY <1>1, <1>2, <2>1
    <3>2. CASE i < p
      <4>1. i \in 1 .. Len(held')
        BY <1>1, <1>2, <1>3, <3>2
      <4>2. held'[i] = held[i]
        BY <1>3, <1>5, <3>2, <4>1
      <4> QED
        BY <1>4, <4>1, <4>2
    <3>3. CASE i > p
      <4>1. i - 1 \in 1 .. Len(held') /\ ~(i - 1 < p) /\ (i - 1) + 1 = i
        BY <1>1, <1>2, <1>3, <3>3
      <4>2. held'[i - 1] = held[i]
        BY <1>3, <1>5, <4>1
      <4> QED
        BY <1>4, <4>1, <4>2
    <3> QED
      BY <3>1, <3>2, <3>3
  <2> QED
    BY <1>4, <2>1
<1> QED
  BY <1>3, <1>6, <1>7, <1>8 DEF KeysOK

LEMMA TwoShifts == Cardinality(Shifts) = 2
<1>1. IsFiniteSet({}) /\ Cardinality({}) = 0
  BY FS_EmptySet
<1>2. IsFiniteSet({"left shift"}) /\ Cardinality({"left shift"}) = 1
  BY FS_Singleton
<1>3. "right shift" \notin {"left shift"}
  OBVIOUS
<1>4. Cardinality({"left shift"} \cup {"right shift"}) = Cardinality({"left shift"}) + 1
  BY <1>2, <1>3, FS_AddElement
<1>5. Shifts = {"left shift"} \cup {"right shift"}
  BY DEF Shifts
<1>6. Cardinality(Shifts) = Cardinality({"left shift"}) + 1
  BY Zenon, <1>4, <1>5
<1>7. Cardinality({"left shift"}) + 1 = 2
  <2>1. 1 + 1 = 2
    OBVIOUS
  <2> QED
    BY Zenon, <1>2, <2>1
<1> QED
  BY Zenon, <1>6, <1>7

\* The keyboard steps.
LEMMA UserAgain ==
    ASSUME UserInv, UNCHANGED <<circumstance, reading, meant>>, KeysOK', capsMeant' \in BOOLEAN, buffer' \in Seq(Byte),
           ~confused' => /\ ~confused /\ HeldShifts(held') # Shifts
                         /\ Follows(buffer', ShiftPressed, CapsLockActivated, AnyShift', capsMeant')
                         /\ Whole(buffer')
                         /\ pc = "extended" => buffer' # <<>> /\ Head(buffer').key \in Extended
    PROVE  UserInv'
<1>1. UNCHANGED <<ShiftPressed, CapsLockActivated, pc, call, result, length>>
  BY DEF reading
<1>2. UserOK'
  BY <1>1 DEF UserInv, UserOK
<1>3. ASSUME ~confused' PROVE InStep'
  <2>1. ~confused /\ InStep
    BY <1>3 DEF UserInv
  <2>2. LineKept'
    BY <1>1, <2>1 DEF InStep, LineKept
  <2>3. Follows(buffer', ShiftPressed', CapsLockActivated', AnyShift', capsMeant')
    BY Zenon, <1>1, <1>3
  <2> QED
    BY <1>1, <1>3, <2>2, <2>3 DEF InStep
<1> QED
  BY <1>2, <1>3 DEF UserInv

LEMMA PressStep == ASSUME UserInv, NEW key \in Key, Press(key) PROVE UserInv'
<1> DEFINE caps == IF key = "caps lock" THEN ~capsMeant ELSE capsMeant
           c == Character(key, HeldShifts(held) # {}, capsMeant)
           codes == ScanCodes(key, FALSE, c)
           b == [key |-> key, released |-> FALSE, meant |-> c]
<1>1. /\ key \notin Range(held) /\ held' = Append(held, key) /\ capsMeant' = caps /\ Arrive(codes)
      /\ confused' = (confused \/ Overflows(Len(codes)) \/ Cardinality(HeldShifts(held')) = 2)
      /\ UNCHANGED <<circumstance, reading, meant>>
  BY DEF Press
<1>2. UserOK /\ KeysOK /\ capsMeant \in BOOLEAN
  BY DEF UserInv, UserOK
<1>3. c \in Chars
  BY CharacterIs
<1>4. KeysOK' /\ Range(held') = Range(held) \cup {key}
  BY <1>1, <1>2, KeyDown
<1>5. /\ buffer' \in Seq(Byte)
      /\ ~Overflows(Len(codes)) /\ InStep /\ AsMeant(b, AnyShift, capsMeant) =>
            /\ Follows(buffer', ShiftPressed, CapsLockActivated, ShiftAfter(b, AnyShift), CapsAfter(b, capsMeant))
            /\ Whole(buffer')
            /\ pc = "extended" => buffer' # <<>> /\ Head(buffer').key \in Extended
  BY <1>1, <1>2, <1>3, KeySent
<1>6. AsMeant(b, AnyShift, capsMeant)
  BY DEF AsMeant, AnyShift
<1>7. CapsAfter(b, capsMeant) = capsMeant'
  BY <1>1 DEF CapsAfter
<1>8. ASSUME ~confused'
      PROVE  ~confused /\ HeldShifts(held') # Shifts /\ ~Overflows(Len(codes)) /\ InStep
  <2>1. ~confused /\ ~Overflows(Len(codes)) /\ Cardinality(HeldShifts(held')) # 2
    BY <1>1, <1>8
  <2> QED
    BY <2>1, TwoShifts DEF UserInv
<1>9. ASSUME ~confused' PROVE ShiftAfter(b, AnyShift) = AnyShift'
  <2>1. HeldShifts(held') # Shifts
    BY <1>8, <1>9
  <2>2. CASE key \in Shifts
    <3>1. HeldShifts(held') = HeldShifts(held) \cup {key}
      BY <1>4, <2>2 DEF HeldShifts
    <3>2. HeldShifts(held) = {}
      BY <1>1, <2>1, <2>2, <3>1 DEF HeldShifts, Shifts
    <3>3. AnyShift' = TRUE /\ AnyShift = FALSE
      BY <3>1, <3>2 DEF AnyShift
    <3>4. ShiftAfter(b, AnyShift) = ~AnyShift
      BY <2>2 DEF ShiftAfter
    <3> QED
      BY <3>3, <3>4
  <2>3. CASE key \notin Shifts
    <3>1. HeldShifts(held') = HeldShifts(held)
      BY <1>4, <2>3 DEF HeldShifts
    <3>2. ShiftAfter(b, AnyShift) = AnyShift
      BY <2>3 DEF ShiftAfter
    <3> QED
      BY <3>1, <3>2 DEF AnyShift
  <2> QED
    BY <2>2, <2>3
<1>10. capsMeant' \in BOOLEAN
  BY <1>1, <1>2
<1> HIDE DEF b, codes, c, caps
<1>11. ASSUME ~confused'
       PROVE  /\ Follows(buffer', ShiftPressed, CapsLockActivated, AnyShift', capsMeant') /\ Whole(buffer')
              /\ pc = "extended" => buffer' # <<>> /\ Head(buffer').key \in Extended
  <2>1. /\ Follows(buffer', ShiftPressed, CapsLockActivated, ShiftAfter(b, AnyShift), CapsAfter(b, capsMeant))
        /\ Whole(buffer')
        /\ pc = "extended" => buffer' # <<>> /\ Head(buffer').key \in Extended
    BY <1>5, <1>6, <1>8, <1>11
  <2>2. ShiftAfter(b, AnyShift) = AnyShift'
    BY <1>9, <1>11
  <2> QED
    BY Zenon, <1>7, <2>1, <2>2
<1> QED
  BY <1>1, <1>4, <1>5, <1>8, <1>10, <1>11, UserAgain

LEMMA ReleaseStep == ASSUME UserInv, NEW key \in Key, Release(key) PROVE UserInv'
<1> DEFINE codes == ScanCodes(key, TRUE, "NUL")
           b == [key |-> key, released |-> TRUE, meant |-> "NUL"]
<1>1. PICK p \in DOMAIN held : held[p] = key /\ held' = RemoveAt(held, p)
  BY DEF Release
<1>2. /\ Arrive(codes) /\ confused' = (confused \/ Overflows(Len(codes)))
      /\ UNCHANGED <<circumstance, capsMeant, reading, meant>>
  BY DEF Release
<1>3. UserOK /\ KeysOK /\ capsMeant \in BOOLEAN
  BY DEF UserInv, UserOK
<1>4. KeysOK' /\ Range(held') = Range(held) \ {key} /\ key \in Range(held)
  <2>1. key \in Range(held)
    BY <1>1 DEF Range
  <2> QED
    BY <1>1, <1>3, <2>1, KeyUp
<1>5. /\ buffer' \in Seq(Byte)
      /\ ~Overflows(Len(codes)) /\ InStep /\ AsMeant(b, AnyShift, capsMeant) =>
            /\ Follows(buffer', ShiftPressed, CapsLockActivated, ShiftAfter(b, AnyShift), CapsAfter(b, capsMeant))
            /\ Whole(buffer')
            /\ pc = "extended" => buffer' # <<>> /\ Head(buffer').key \in Extended
  <2>1. "NUL" \in Chars
    BY Zenon DEF Chars, Visible
  <2> QED
    BY <1>2, <1>3, <2>1, KeySent
<1>6. AsMeant(b, AnyShift, capsMeant) /\ CapsAfter(b, capsMeant) = capsMeant'
  BY <1>2 DEF AsMeant, CapsAfter
<1>7. ASSUME ~confused' PROVE ~confused /\ ~Overflows(Len(codes)) /\ InStep /\ HeldShifts(held) # Shifts
  <2>1. ~confused /\ ~Overflows(Len(codes))
    BY <1>2, <1>7
  <2>2. InStep
    BY <2>1 DEF UserInv
  <2> QED
    BY <2>1, <2>2 DEF InStep
<1>8. ASSUME ~confused' PROVE ShiftAfter(b, AnyShift) = AnyShift' /\ HeldShifts(held') # Shifts
  <2>1. HeldShifts(held) # Shifts /\ HeldShifts(held) \subseteq Shifts
    BY <1>7, <1>8 DEF HeldShifts
  <2>2. CASE key \in Shifts
    <3>1. HeldShifts(held') = HeldShifts(held) \ {key} /\ key \in HeldShifts(held)
      BY <1>4, <2>2 DEF HeldShifts
    <3>2. HeldShifts(held') = {}
      BY <2>1, <2>2, <3>1 DEF Shifts
    <3>3. AnyShift' = FALSE /\ AnyShift = TRUE
      BY <3>1, <3>2 DEF AnyShift
    <3>4. ShiftAfter(b, AnyShift) = ~AnyShift
      BY <2>2 DEF ShiftAfter
    <3>5. HeldShifts(held') # Shifts
      BY <3>2 DEF Shifts
    <3> QED
      BY <3>3, <3>4, <3>5
  <2>3. CASE key \notin Shifts
    <3>1. HeldShifts(held') = HeldShifts(held)
      BY <1>4, <2>3 DEF HeldShifts
    <3>2. ShiftAfter(b, AnyShift) = AnyShift
      BY <2>3 DEF ShiftAfter
    <3> QED
      BY <2>1, <3>1, <3>2 DEF AnyShift
  <2> QED
    BY <2>2, <2>3
<1> HIDE DEF b, codes
<1>9. ASSUME ~confused'
      PROVE  /\ Follows(buffer', ShiftPressed, CapsLockActivated, AnyShift', capsMeant') /\ Whole(buffer')
             /\ pc = "extended" => buffer' # <<>> /\ Head(buffer').key \in Extended
  <2>1. /\ Follows(buffer', ShiftPressed, CapsLockActivated, ShiftAfter(b, AnyShift), CapsAfter(b, capsMeant))
        /\ Whole(buffer')
        /\ pc = "extended" => buffer' # <<>> /\ Head(buffer').key \in Extended
    BY <1>5, <1>6, <1>7, <1>9
  <2>2. ShiftAfter(b, AnyShift) = AnyShift'
    BY <1>8, <1>9
  <2> QED
    BY Zenon, <1>6, <2>1, <2>2
<1> QED
  BY <1>2, <1>3, <1>4, <1>5, <1>7, <1>8, <1>9, UserAgain

LEMMA RepeatStep == ASSUME UserInv, Repeat PROVE UserInv'
<1> DEFINE key == Last(held)
           c == Character(key, HeldShifts(held) # {}, capsMeant)
           codes == ScanCodes(key, FALSE, c)
           b == [key |-> key, released |-> FALSE, meant |-> c]
<1>1. /\ held # <<>> /\ Arrive(codes)
      /\ confused' = (confused \/ Overflows(Len(codes)) \/ key \in Shifts \cup {"caps lock"})
      /\ UNCHANGED <<circumstance, held, capsMeant, reading, meant>>
  BY DEF Repeat
<1>2. UserOK /\ KeysOK /\ capsMeant \in BOOLEAN /\ held \in Seq(Key)
  BY DEF UserInv, UserOK, KeysOK
<1>3. key \in Key /\ c \in Chars
  <2>1. Len(held) \in 1 .. Len(held)
    <3>1. Len(held) \in Nat \ {0}
      BY <1>1, <1>2, EmptySeq
    <3> QED
      BY <3>1
  <2>2. key \in Key
    BY <1>2, <2>1, ElementOfSeq DEF Last
  <2> QED
    BY <2>2, CharacterIs
<1>4. AsMeant(b, AnyShift, capsMeant)
  BY DEF AsMeant, AnyShift
<1>5. ASSUME key \notin Shifts \cup {"caps lock"}
      PROVE  ShiftAfter(b, AnyShift) = AnyShift /\ CapsAfter(b, capsMeant) = capsMeant
  BY <1>5 DEF ShiftAfter, CapsAfter
<1> HIDE DEF key
<1>6. /\ buffer' \in Seq(Byte)
      /\ ~Overflows(Len(codes)) /\ InStep /\ AsMeant(b, AnyShift, capsMeant) =>
            /\ Follows(buffer', ShiftPressed, CapsLockActivated, ShiftAfter(b, AnyShift), CapsAfter(b, capsMeant))
            /\ Whole(buffer')
            /\ pc = "extended" => buffer' # <<>> /\ Head(buffer').key \in Extended
  BY <1>1, <1>2, <1>3, KeySent
<1> HIDE DEF b, codes, c
<1>7. ASSUME ~confused'
      PROVE  /\ ~confused /\ ~Overflows(Len(codes)) /\ InStep /\ key \notin Shifts \cup {"caps lock"}
             /\ HeldShifts(held') # Shifts
  <2>1. ~confused /\ ~Overflows(Len(codes)) /\ key \notin Shifts \cup {"caps lock"}
    BY <1>1, <1>7
  <2>2. InStep
    BY <2>1 DEF UserInv
  <2> QED
    BY <1>1, <2>1, <2>2 DEF InStep
<1>8. (AnyShift' <=> AnyShift) /\ KeysOK' /\ capsMeant' = capsMeant
  BY <1>1, <1>2 DEF AnyShift, KeysOK
<1>9. AnyShift' = AnyShift
  BY <1>8 DEF AnyShift
<1>10. ASSUME ~confused'
       PROVE  /\ Follows(buffer', ShiftPressed, CapsLockActivated, AnyShift', capsMeant') /\ Whole(buffer')
              /\ pc = "extended" => buffer' # <<>> /\ Head(buffer').key \in Extended
  <2>1. /\ Follows(buffer', ShiftPressed, CapsLockActivated, ShiftAfter(b, AnyShift), CapsAfter(b, capsMeant))
        /\ Whole(buffer')
        /\ pc = "extended" => buffer' # <<>> /\ Head(buffer').key \in Extended
    BY <1>4, <1>6, <1>7, <1>10
  <2>2. ShiftAfter(b, AnyShift) = AnyShift /\ CapsAfter(b, capsMeant) = capsMeant
    BY <1>5, <1>7, <1>10
  <2> QED
    BY Zenon, <1>8, <1>9, <2>1, <2>2
<1> QED
  BY <1>1, <1>2, <1>6, <1>7, <1>8, <1>10, UserAgain

-----------------------------------------------------------------------------
\* The line

LEMMA TypedOK ==
    ASSUME meant \in Seq(Chars), NEW m \in Chars PROVE Typed(m) \in Seq(Chars)
<1>1. CASE m = "BS"
  <2>1. CASE meant = <<>>
    BY <1>1, <2>1 DEF Typed
  <2>2. CASE meant # <<>>
    <3>1. Front(meant) \in Seq(Chars)
      BY <2>2 DEF Front
    <3> QED
      BY <1>1, <2>2, <3>1 DEF Typed
  <2> QED
    BY <2>1, <2>2
<1>2. CASE m # "BS"
  <2>1. Append(meant, m) \in Seq(Chars)
    BY AppendProperties
  <2>2. Typed(m) \in {meant, Append(meant, m)}
    BY <1>2 DEF Typed
  <2> QED
    BY <2>1, <2>2
<1> QED
  BY <1>1, <1>2

\* The line and what is meant change alike.
LEMMA LineGoesOn ==
    ASSUME ReadingOK, meant \in Seq(Chars), pc # "idle", LineKept, NEW c \in Chars, Gets(c, c), call' = call
    PROVE  LineKept'
<1> SUFFICES ASSUME pc' # "idle", call' \in {"line", "silent"}
             PROVE  length' = Len(meant') /\ \A k \in 1 .. length' : result'[k - 1] = meant'[k]
  BY DEF LineKept
<1>1. call \in {"line", "silent"} /\ call # "char" /\ meant' = Typed(c) /\ LineGets(c)
  BY DEF Gets
<1>2. length = Len(meant) /\ \A k \in 1 .. length : result[k - 1] = meant[k]
  BY <1>1 DEF LineKept
<1>3. MaxLength \in Nat /\ length \in 0 .. MaxLength /\ result \in [0 .. MaxLength -> Chars] /\ c # "LF"
  BY <1>1, ConsoleAssumption DEF ReadingOK, LineGets, Ends
<1>4. CASE c = "BS" /\ length > 0
  <2>1. result' = [result EXCEPT ![length] = " "] /\ length' = length - 1
    BY <1>1, <1>3, <1>4 DEF LineGets, Ends
  <2>2. meant # <<>> /\ meant' = Front(meant)
    BY <1>1, <1>2, <1>4 DEF Typed
  <2>3. Len(meant') = Len(meant) - 1 /\ \A k \in 1 .. Len(meant) - 1 : meant'[k] = meant[k]
    <3>1. 1 \in Int /\ Len(meant) - 1 \in Int /\ \A k \in 1 .. Len(meant) - 1 : meant[k] \in Chars
      BY <1>2, <1>3
    <3>2. /\ Len(SubSeq(meant, 1, Len(meant) - 1)) = IF 1 <= Len(meant) - 1 THEN (Len(meant) - 1) - 1 + 1 ELSE 0
          /\ \A k \in 1 .. (Len(meant) - 1) - 1 + 1 : SubSeq(meant, 1, Len(meant) - 1)[k] = meant[1 + k - 1]
      BY <3>1, SubSeqProperties
    <3> QED
      BY <1>2, <1>3, <1>4, <2>2, <3>2 DEF Front
  <2>4. ASSUME NEW k \in 1 .. length - 1 PROVE result'[k - 1] = meant'[k]
    <3>1. k \in 1 .. length /\ k - 1 # length /\ k - 1 \in 0 .. MaxLength
      BY <1>3
    <3>2. result'[k - 1] = result[k - 1]
      BY <1>3, <2>1, <3>1
    <3> QED
      BY <1>2, <2>3, <3>1, <3>2
  <2> QED
    BY <1>2, <2>1, <2>3, <2>4
<1>5. CASE c # "BS" /\ length < MaxLength
  <2>1. result' = [result EXCEPT ![length] = c] /\ length' = length + 1
    BY <1>1, <1>3, <1>5 DEF LineGets, Ends, HasRoom
  <2>2. meant' = Append(meant, c)
    BY <1>1, <1>2, <1>3, <1>5 DEF Typed
  <2>3. Len(meant') = Len(meant) + 1 /\ (\A k \in 1 .. Len(meant) : meant'[k] = meant[k]) /\ meant'[Len(meant) + 1] = c
    BY <2>2, AppendProperties
  <2>4. ASSUME NEW k \in 1 .. length + 1 PROVE result'[k - 1] = meant'[k]
    <3>1. CASE k = length + 1
      <4>1. k - 1 = length /\ length \in 0 .. MaxLength
        BY <1>3, <3>1
      <4> QED
        BY <1>2, <1>3, <2>1, <2>3, <3>1, <4>1
    <3>2. CASE k # length + 1
      <4>1. k \in 1 .. length /\ k - 1 # length /\ k - 1 \in 0 .. MaxLength
        BY <1>3, <3>2
      <4>2. result'[k - 1] = result[k - 1]
        BY <1>3, <2>1, <4>1
      <4> QED
        BY <1>2, <2>3, <4>1, <4>2
    <3> QED
      BY <3>1, <3>2
  <2> QED
    BY <1>2, <2>1, <2>3, <2>4
<1>6. CASE (c = "BS" /\ ~(length > 0)) \/ (c # "BS" /\ ~(length < MaxLength))
  <2>1. UNCHANGED <<result, length>>
    BY <1>1, <1>3, <1>6 DEF LineGets, Ends, HasRoom
  <2>2. c = "BS" => meant = <<>>
    BY <1>2, <1>3, <1>6
  <2>3. meant' = meant
    BY <1>1, <1>2, <1>3, <1>6, <2>2 DEF Typed
  <2> QED
    BY <1>2, <2>1, <2>3
<1> QED
  BY <1>3, <1>4, <1>5, <1>6

-----------------------------------------------------------------------------
\* The steps that read

\* A byte has been read.
LEMMA ByteRead ==
    ASSUME UserInv, NEW b, Reads(b)
    PROVE  /\ b \in Byte /\ buffer' \in Seq(Byte) /\ UNCHANGED <<circumstance, held, capsMeant, call>>
           /\ InStep => /\ AsMeant(b, ShiftPressed, CapsLockActivated)
                        /\ Follows(buffer', ShiftAfter(b, ShiftPressed), CapsAfter(b, CapsLockActivated),
                                   AnyShift, capsMeant)
                        /\ Whole(buffer')
                        /\ b.key = "prefix" => buffer' # <<>> /\ Head(buffer').key \in Extended
                        /\ pc = "extended" => b.key \in Extended
<1>1. /\ buffer \in Seq(Byte) /\ buffer # <<>> /\ b = Head(buffer) /\ buffer' = Tail(buffer)
      /\ UNCHANGED <<circumstance, held, capsMeant, call>>
  BY DEF UserInv, UserOK, Reads
<1>2. b \in Byte /\ buffer' \in Seq(Byte)
  BY <1>1, HeadTailProperties
<1>3. ASSUME InStep
      PROVE  /\ AsMeant(b, ShiftPressed, CapsLockActivated)
             /\ Follows(buffer', ShiftAfter(b, ShiftPressed), CapsAfter(b, CapsLockActivated), AnyShift, capsMeant)
  <2>1. Follows(buffer, ShiftPressed, CapsLockActivated, AnyShift, capsMeant)
    BY <1>3 DEF InStep
  <2>2. /\ AsMeant(Head(buffer), ShiftPressed, CapsLockActivated)
        /\ Follows(Tail(buffer), ShiftAfter(Head(buffer), ShiftPressed),
                   CapsAfter(Head(buffer), CapsLockActivated), AnyShift, capsMeant)
    BY <1>1, <2>1, FollowsRest
  <2> QED
    BY Zenon, <1>1, <2>2
<1>4. ASSUME InStep
      PROVE  /\ Whole(buffer') /\ (b.key = "prefix" => buffer' # <<>> /\ Head(buffer').key \in Extended)
             /\ pc = "extended" => b.key \in Extended
  <2>1. Whole(buffer) /\ (pc = "extended" => Head(buffer).key \in Extended)
    BY <1>4 DEF InStep
  <2> QED
    BY <1>1, <2>1, WholeRest
<1> QED
  BY <1>1, <1>2, <1>3, <1>4

\* What a step that reads has to show.
LEMMA ReadAgain ==
    ASSUME UserInv, NEW b, Reads(b), meant' \in Seq(Chars),
           ShiftPressed' \in BOOLEAN, CapsLockActivated' \in BOOLEAN,
           ~confused' => /\ ~confused
                         /\ ShiftPressed' = ShiftAfter(b, ShiftPressed)
                         /\ CapsLockActivated' = CapsAfter(b, CapsLockActivated)
                         /\ pc' = "extended" => b.key = "prefix"
                         /\ LineKept'
    PROVE  UserInv'
<1>1. /\ b \in Byte /\ buffer' \in Seq(Byte) /\ UNCHANGED <<circumstance, held, capsMeant, call>>
      /\ InStep => /\ Follows(buffer', ShiftAfter(b, ShiftPressed), CapsAfter(b, CapsLockActivated), AnyShift, capsMeant)
                   /\ Whole(buffer')
                   /\ b.key = "prefix" => buffer' # <<>> /\ Head(buffer').key \in Extended
  BY ByteRead
<1>2. UserOK'
  BY <1>1 DEF UserInv, UserOK, KeysOK
<1>3. AnyShift' = AnyShift /\ HeldShifts(held') = HeldShifts(held)
  BY Zenon, <1>1 DEF AnyShift
<1>4. ASSUME ~confused' PROVE InStep'
  <2>1. ~confused /\ InStep
    BY <1>4 DEF UserInv
  <2>2. HeldShifts(held') # Shifts
    BY <1>3, <2>1 DEF InStep
  <2>3. Follows(buffer', ShiftPressed', CapsLockActivated', AnyShift', capsMeant')
    BY Zenon, <1>1, <1>3, <1>4, <2>1
  <2> QED
    BY <1>1, <1>4, <2>1, <2>2, <2>3 DEF InStep
<1> QED
  BY <1>2, <1>4 DEF UserInv

\* A byte without a character leaves the line alone.
LEMMA LineRests ==
    ASSUME NEW next, NoCharacter(next), pc # "idle", call' = call, LineKept PROVE LineKept'
BY DEF NoCharacter, LineKept

\* The character that a byte gives is the one that was meant.
LEMMA GivenAsMeant ==
    ASSUME NEW b \in Byte, ~b.released, AsMeant(b, ShiftPressed, CapsLockActivated)
    PROVE  Decoded(b.key) = b.meant
BY Zenon DEF AsMeant, Decoded

LEMMA GetsAgain ==
    ASSUME UserInv, ReadingOK, NEW b, Reads(b), pc # "idle",
           UNCHANGED <<ShiftPressed, CapsLockActivated, confused>>,
           \/ NoCharacter("read")
           \/ ~b.released /\ Gets(Decoded(b.key), b.meant),
           InStep => b.key \notin Shifts /\ ~(b.key = "caps lock" /\ ~b.released)
    PROVE  UserInv'
<1>1. /\ b \in Byte /\ call' = call
      /\ InStep => AsMeant(b, ShiftPressed, CapsLockActivated)
  BY ByteRead
<1>2. ShiftPressed \in BOOLEAN /\ CapsLockActivated \in BOOLEAN /\ meant \in Seq(Chars)
  BY DEF UserInv, UserOK
<1>3. meant' \in Seq(Chars)
  <2>1. CASE NoCharacter("read")
    BY <1>2, <2>1 DEF NoCharacter
  <2>2. CASE Gets(Decoded(b.key), b.meant)
    <3>1. meant' = Typed(b.meant) /\ b.meant \in Chars
      BY <1>1, <2>2 DEF Gets, Byte
    <3> QED
      BY <1>2, <3>1, TypedOK
  <2> QED
    BY <2>1, <2>2
<1>4. pc' # "extended"
  <2>1. CASE NoCharacter("read")
    BY <2>1 DEF NoCharacter
  <2>2. CASE Gets(Decoded(b.key), b.meant)
    <3>1. CharGets(Decoded(b.key)) => pc' # "extended"
      BY DEF CharGets
    <3>2. LineGets(Decoded(b.key)) => pc' # "extended"
      BY DEF LineGets
    <3> QED
      BY <2>2, <3>1, <3>2 DEF Gets
  <2> QED
    BY <2>1, <2>2
<1>5. ASSUME ~confused'
      PROVE  /\ ~confused
             /\ ShiftPressed' = ShiftAfter(b, ShiftPressed)
             /\ CapsLockActivated' = CapsAfter(b, CapsLockActivated)
             /\ LineKept'
  <2>1. ~confused /\ InStep /\ LineKept
    BY <1>5 DEF UserInv, InStep
  <2>2. ShiftAfter(b, ShiftPressed) = ShiftPressed /\ CapsAfter(b, CapsLockActivated) = CapsLockActivated
    BY <2>1 DEF ShiftAfter, CapsAfter
  <2>3. LineKept'
    <3>1. CASE NoCharacter("read")
      BY <1>1, <2>1, <3>1, LineRests
    <3>2. CASE ~b.released /\ Gets(Decoded(b.key), b.meant)
      <4>1. Decoded(b.key) = b.meant /\ b.meant \in Chars
        BY <1>1, <2>1, <3>2, GivenAsMeant DEF Byte
      <4> DEFINE c == b.meant
      <4>2. Gets(c, c) /\ c \in Chars
        BY <3>2, <4>1
      <4> HIDE DEF c
      <4> QED
        BY <1>1, <1>2, <2>1, <4>2, LineGoesOn
    <3> QED
      BY <3>1, <3>2
  <2> QED
    BY <2>1, <2>2, <2>3
<1>6. ShiftPressed' \in BOOLEAN /\ CapsLockActivated' \in BOOLEAN
  BY <1>2
<1> QED
  BY <1>3, <1>4, <1>5, <1>6, ReadAgain

\* A byte has been read that gives no character.
LEMMA NothingAgain ==
    ASSUME UserInv, NEW b, Reads(b), NEW next, NoCharacter(next), pc # "idle",
           ShiftPressed' \in BOOLEAN, CapsLockActivated' \in BOOLEAN,
           ~confused' => /\ ~confused
                         /\ ShiftPressed' = ShiftAfter(b, ShiftPressed)
                         /\ CapsLockActivated' = CapsAfter(b, CapsLockActivated)
                         /\ next = "extended" => b.key = "prefix"
    PROVE  UserInv'
<1>1. meant' = meant /\ pc' = next /\ call' = call /\ meant \in Seq(Chars)
  BY ByteRead DEF NoCharacter, UserInv, UserOK
<1>2. ASSUME ~confused' PROVE LineKept'
  <2>1. LineKept
    BY <1>2 DEF UserInv, InStep
  <2> QED
    BY <1>1, <2>1, LineRests
<1> QED
  BY <1>1, <1>2, ReadAgain

LEMMA UserReadStep ==
    ASSUME UserInv, ReadingOK, NEW b,
           \/ ReadShift(b)
           \/ ReadCapsLock(b)
           \/ ReadPrefix(b)
           \/ ReadExtended(b)
           \/ ReadPlain(b)
           \/ ReadKey(b)
    PROVE  UserInv'
<1>1. ShiftPressed \in BOOLEAN /\ CapsLockActivated \in BOOLEAN
  BY DEF UserInv, UserOK
<1>2. CASE ReadShift(b)
  <2>1. /\ Reads(b) /\ pc # "idle" /\ NoCharacter("read") /\ b.key \in Shifts
        /\ ShiftPressed' = ~ShiftPressed /\ UNCHANGED <<CapsLockActivated, confused>>
    BY <1>2 DEF ReadShift, Toggled
  <2>2. ShiftPressed' = ShiftAfter(b, ShiftPressed) /\ CapsLockActivated' = CapsAfter(b, CapsLockActivated)
    BY <2>1 DEF ShiftAfter, CapsAfter, Shifts
  <2>3. ShiftPressed' \in BOOLEAN /\ CapsLockActivated' \in BOOLEAN
    BY <1>1, <2>1
  <2> QED
    BY <2>1, <2>2, <2>3, NothingAgain
<1>3. CASE ReadCapsLock(b)
  <2>1. /\ Reads(b) /\ pc # "idle" /\ NoCharacter("read") /\ b.key = "caps lock" /\ ~b.released
        /\ CapsLockActivated' = ~CapsLockActivated /\ UNCHANGED <<ShiftPressed, confused>>
    BY <1>3 DEF ReadCapsLock
  <2>2. ShiftPressed' = ShiftAfter(b, ShiftPressed) /\ CapsLockActivated' = CapsAfter(b, CapsLockActivated)
    BY <2>1 DEF ShiftAfter, CapsAfter, Shifts
  <2>3. ShiftPressed' \in BOOLEAN /\ CapsLockActivated' \in BOOLEAN
    BY <1>1, <2>1
  <2> QED
    BY <2>1, <2>2, <2>3, NothingAgain
<1>4. CASE ReadPrefix(b)
  <2>1. /\ Reads(b) /\ pc # "idle" /\ NoCharacter("extended") /\ b.key = "prefix"
        /\ UNCHANGED <<ShiftPressed, CapsLockActivated, confused>>
    BY <1>4 DEF ReadPrefix
  <2>2. ShiftPressed' = ShiftAfter(b, ShiftPressed) /\ CapsLockActivated' = CapsAfter(b, CapsLockActivated)
    BY <2>1 DEF ShiftAfter, CapsAfter, Shifts
  <2>3. ShiftPressed' \in BOOLEAN /\ CapsLockActivated' \in BOOLEAN
    BY <1>1, <2>1
  <2> QED
    BY <2>1, <2>2, <2>3, NothingAgain
<1>5. CASE ReadExtended(b)
  <2>1. /\ Reads(b) /\ pc = "extended" /\ UNCHANGED <<ShiftPressed, CapsLockActivated, confused>>
        /\ NoCharacter("read") \/ (~b.released /\ Gets(Decoded(b.key), b.meant))
    BY <1>5 DEF ReadExtended
  <2>2. InStep => b.key \in Extended
    BY <2>1, ByteRead
  <2>3. InStep => b.key \notin Shifts /\ ~(b.key = "caps lock" /\ ~b.released)
    BY <2>2 DEF Extended, Shifts
  <2> QED
    BY <2>1, <2>3, GetsAgain
<1>6. CASE ReadPlain(b)
  <2>1. /\ Reads(b) /\ pc # "idle" /\ UNCHANGED <<ShiftPressed, CapsLockActivated, confused>>
        /\ b.key \notin Shifts /\ ~(b.key = "caps lock" /\ ~b.released)
        /\ NoCharacter("read") \/ (~b.released /\ Gets(Decoded(b.key), b.meant))
    BY <1>6 DEF ReadPlain
  <2> QED
    BY <2>1, GetsAgain
<1>7. CASE ReadKey(b)
  <2>1. /\ Reads(b) /\ pc # "idle" /\ NoCharacter("idle")
        /\ confused' = (confused \/ b.key \in Shifts \cup {"caps lock", "prefix"})
        /\ UNCHANGED <<ShiftPressed, CapsLockActivated>>
    BY <1>7 DEF ReadKey
  <2>2. ASSUME ~confused'
        PROVE  /\ ~confused
               /\ ShiftPressed' = ShiftAfter(b, ShiftPressed) /\ CapsLockActivated' = CapsAfter(b, CapsLockActivated)
    BY <2>1, <2>2 DEF ShiftAfter, CapsAfter
  <2>3. ShiftPressed' \in BOOLEAN /\ CapsLockActivated' \in BOOLEAN
    BY <1>1, <2>1
  <2> QED
    BY <2>1, <2>2, <2>3, NothingAgain
<1> QED
  BY <1>2, <1>3, <1>4, <1>5, <1>6, <1>7

LEMMA UserCallStep == ASSUME UserInv, NEW kind, Call(kind) PROVE UserInv'
<1>1. /\ UNCHANGED <<circumstance, held, capsMeant, buffer, ShiftPressed, CapsLockActivated, confused>>
      /\ pc' = "read" /\ length' = 0 /\ meant' = <<>>
  BY DEF Call, keyboard
<1>2. UserOK'
  <2>1. <<>> \in Seq(Chars)
    OBVIOUS
  <2> QED
    BY <1>1, <2>1 DEF UserInv, UserOK, KeysOK
<1>3. ASSUME ~confused' PROVE InStep'
  <2>1. InStep
    BY <1>1, <1>3 DEF UserInv
  <2>2. LineKept'
    BY <1>1 DEF LineKept
  <2>3. AnyShift' = AnyShift /\ HeldShifts(held') = HeldShifts(held)
    BY Zenon, <1>1 DEF AnyShift
  <2>4. Follows(buffer', ShiftPressed', CapsLockActivated', AnyShift', capsMeant') /\ Whole(buffer')
    BY Zenon, <1>1, <2>1, <2>3 DEF InStep
  <2> QED
    BY <1>1, <2>1, <2>2, <2>3, <2>4 DEF InStep
<1> QED
  BY <1>2, <1>3 DEF UserInv

LEMMA UserRests == ASSUME UserInv, UNCHANGED others PROVE UserInv'
<1>1. /\ UNCHANGED <<circumstance, held, capsMeant, buffer, ShiftPressed, CapsLockActivated, confused>>
      /\ UNCHANGED <<pc, call, result, length, meant>>
  BY DEF others, keyboard, reading
<1>2. UserOK' <=> UserOK
  BY <1>1 DEF UserOK, KeysOK
<1>3. LineKept' <=> LineKept
  BY <1>1 DEF LineKept
<1>4. AnyShift' = AnyShift
  BY Zenon, <1>1 DEF AnyShift
<1>5. InStep' <=> InStep
  BY Zenon, <1>1, <1>3, <1>4 DEF InStep
<1> QED
  BY <1>1, <1>2, <1>5 DEF UserInv

LEMMA UserInvStarts == Init => UserInv
<1> SUFFICES ASSUME Init PROVE UserInv
  OBVIOUS
<1>1. /\ circumstance \in Circumstances /\ held = <<>> /\ capsMeant = FALSE /\ buffer = <<>>
      /\ ShiftPressed = FALSE /\ CapsLockActivated = FALSE /\ pc = "idle" /\ meant = <<>>
  BY DEF Init
<1>2. held \in Seq(Key) /\ Len(held) = 0 /\ buffer \in Seq(Byte) /\ meant \in Seq(Chars)
  <2>1. <<>> \in Seq(Byte) /\ <<>> \in Seq(Chars) /\ <<>> \in Seq(Key) /\ Len(<<>>) = 0
    OBVIOUS
  <2> QED
    BY Zenon, <1>1, <2>1
<1>21. UserOK
  <2>1. KeysOK
    BY <1>2 DEF KeysOK
  <2> QED
    BY <1>1, <1>2, <2>1 DEF UserOK
<1>3. HeldShifts(held) = {}
  <2>1. \A h \in Seq(Key) : Range(h) = {h[i] : i \in 1 .. Len(h)}
    BY RangeIs
  <2>2. Range(held) = {held[i] : i \in 1 .. Len(held)}
    BY <1>2, <2>1
  <2>3. 1 .. Len(held) = {}
    BY <1>2
  <2> QED
    BY <2>2, <2>3 DEF HeldShifts
<1>4. HeldShifts(held) # Shifts /\ AnyShift = FALSE
  BY <1>3 DEF AnyShift, Shifts
<1>5. Follows(buffer, ShiftPressed, CapsLockActivated, AnyShift, capsMeant)
  <2>1. Follows(<<>>, FALSE, FALSE, FALSE, FALSE)
    BY FollowsNone
  <2> QED
    BY Zenon, <1>1, <1>4, <2>1
<1>6. Whole(buffer)
  BY <1>1 DEF Whole
<1>7. LineKept
  BY <1>1 DEF LineKept
<1> QED
  BY <1>1, <1>21, <1>4, <1>5, <1>6, <1>7 DEF UserInv, InStep

LEMMA UserInvGoesOn == ConsoleInv /\ UserInv /\ [Next]_vars => UserInv'
<1> SUFFICES ASSUME ConsoleInv, UserInv, [Next]_vars PROVE UserInv'
  OBVIOUS
<1>1. ReadingOK
  BY DEF ConsoleInv
<1>2. CASE Main
  <2>1. CASE UNCHANGED others
    BY <2>1, UserRests
  <2>2. ASSUME NEW b \in Range(buffer),
               \/ ReadShift(b)
               \/ ReadCapsLock(b)
               \/ ReadPrefix(b)
               \/ ReadExtended(b)
               \/ ReadPlain(b)
               \/ ReadKey(b)
        PROVE  UserInv'
    BY <1>1, <2>2, UserReadStep
  <2> QED
    BY <1>2, <2>1, <2>2 DEF Main
<1>3. ASSUME NEW kind \in Kind, Call(kind) PROVE UserInv'
  BY <1>3, UserCallStep
<1>4. CASE UNCHANGED others
  BY <1>4, UserRests
<1>5. ASSUME NEW key \in circumstance.keys, Press(key) \/ Release(key) PROVE UserInv'
  <2>1. key \in Key
    BY ConsoleAssumption DEF UserInv, UserOK
  <2> QED
    BY <1>5, <2>1, PressStep, ReleaseStep
<1>6. CASE Repeat
  BY <1>6, RepeatStep
<1>7. CASE UNCHANGED vars
  <2>1. UNCHANGED others
    BY <1>7 DEF vars, others
  <2> QED
    BY <2>1, UserRests
<1> QED
  BY <1>2, <1>3, <1>4, <1>5, <1>6, <1>7 DEF Next

THEOREM UserInvHolds == Spec => []UserInv
<1>1. Spec => []ConsoleInv
  BY ConsoleInvHolds
<1> QED
  BY <1>1, UserInvStarts, UserInvGoesOn, PTL DEF Spec

\* Two arrays that agree up to a terminator hold the same string.
LEMMA SameString ==
    ASSUME NEW n \in Nat, NEW a, NEW b, NEW p \in Nat, NEW q \in Nat, n <= p, n <= q,
           DOMAIN a = 0 .. p, DOMAIN b = 0 .. q, \A k \in 0 .. n : a[k] = b[k], a[n] = "NUL"
    PROVE  StringOf(a) = StringOf(b)
<1> DEFINE A == {k \in DOMAIN a : a[k] = "NUL"}
           B == {k \in DOMAIN b : b[k] = "NUL"}
<1>1. \A k \in 0 .. n : k \in A <=> k \in B
  OBVIOUS
<1>2. n \in A /\ n \in B /\ A \subseteq Nat /\ B \subseteq Nat /\ n \in 0 .. n
  OBVIOUS
<1> HIDE DEF A, B
<1>3. PICK m \in A : \A k \in A : m <= k
  <2>1. PICK x \in A : \A y \in A : <<y, x>> \notin OpToRel(<, Nat)
    <3>1. A \subseteq Nat /\ A # {}
      BY <1>2
    <3> QED
      BY <3>1, NatLessThanWellFounded, WFMin
  <2>2. \A y \in A : x <= y
    <3> TAKE y \in A
    <3>1. ~(y < x) /\ x \in Nat /\ y \in Nat
      BY <1>2, <2>1 DEF OpToRel
    <3> QED
      BY <3>1
  <2> QED
    BY <2>2
<1>4. m \in Nat /\ m <= n /\ m \in B
  <2>1. m \in Nat /\ m <= n
    BY <1>2, <1>3
  <2>2. m \in 0 .. n
    BY <2>1
  <2> QED
    BY <1>1, <2>1, <2>2
<1>5. \A k \in B : m <= k
  <2> TAKE k \in B
  <2>1. k \in Nat
    BY <1>2
  <2>2. CASE k <= n
    <3>1. k \in 0 .. n
      BY <2>1, <2>2
    <3> QED
      BY <1>1, <1>3, <3>1
  <2>3. CASE ~(k <= n)
    BY <1>4, <2>1, <2>3
  <2> QED
    BY <2>2, <2>3
<1>6. Min(A) = m
  <2>1. \A x \in A : (\A y \in A : x <= y) => x = m
    <3> TAKE x \in A
    <3>1. x \in Nat
      BY <1>2
    <3> QED
      BY <1>3, <1>4, <3>1
  <2> QED
    BY <1>3, <2>1 DEF Min
<1>7. Min(B) = m
  <2>1. \A x \in B : (\A y \in B : x <= y) => x = m
    <3> TAKE x \in B
    <3>1. x \in Nat
      BY <1>2
    <3> QED
      BY <1>4, <1>5, <3>1
  <2> QED
    BY <1>4, <1>5, <2>1 DEF Min
<1>8. \A k \in 1 .. m : a[k - 1] = b[k - 1]
  <2> TAKE k \in 1 .. m
  <2>1. k - 1 \in 0 .. n
    BY <1>4
  <2> QED
    BY <2>1
<1>9. [k \in 1 .. m |-> a[k - 1]] = [k \in 1 .. m |-> b[k - 1]]
  BY <1>8
<1>10. StringOf(a) = [k \in 1 .. m |-> a[k - 1]] /\ StringOf(b) = [k \in 1 .. m |-> b[k - 1]]
  BY <1>6, <1>7 DEF StringOf, A, B
<1> QED
  BY <1>9, <1>10

\* The step that ends a line.
LEMMA LineEndsAsMeant ==
    ASSUME ReadingOK, meant \in Seq(Chars), LineKept, pc # "idle", pc' = "idle",
           call \in {"line", "silent"}, NEW c \in Chars, Gets(c, c)
    PROVE  StringOf(result') = StringOf([k \in 0 .. Len(meant') |->
               IF k < Len(meant') THEN meant'[k + 1] ELSE "NUL"])
<1>1. call # "char" /\ meant' = Typed(c) /\ LineGets(c)
  BY DEF Gets
<1>2. length = Len(meant) /\ \A k \in 1 .. length : result[k - 1] = meant[k]
  BY DEF LineKept
<1>3. MaxLength \in Nat /\ length \in 0 .. MaxLength /\ result \in [0 .. MaxLength -> Chars]
  BY ConsoleAssumption DEF ReadingOK
<1>4. c = "LF" /\ result' = [result EXCEPT ![length] = "NUL"]
  BY <1>1 DEF LineGets, Ends
<1>5. meant' = meant
  BY <1>1, <1>4 DEF Typed
<1> DEFINE b == [k \in 0 .. Len(meant') |-> IF k < Len(meant') THEN meant'[k + 1] ELSE "NUL"]
<1>6. DOMAIN result' = 0 .. MaxLength /\ result'[length] = "NUL"
  BY <1>3, <1>4
<1>7. DOMAIN b = 0 .. length
  BY <1>2, <1>5
<1>8. ASSUME NEW k \in 0 .. length PROVE result'[k] = b[k]
  <2>1. CASE k = length
    <3>1. b[k] = "NUL"
      BY <1>2, <1>3, <1>5, <2>1
    <3> QED
      BY <1>6, <2>1, <3>1
  <2>2. CASE k # length
    <3>1. k + 1 \in 1 .. length /\ k < length /\ (k + 1) - 1 = k /\ k \in 0 .. MaxLength
      BY <1>3, <2>2
    <3>2. result'[k] = result[k]
      BY <1>3, <1>4, <2>2, <3>1
    <3>3. result[k] = meant[k + 1]
      BY <1>2, <3>1
    <3>4. b[k] = meant[k + 1]
      BY <1>2, <1>5, <3>1
    <3> QED
      BY <3>2, <3>3, <3>4
  <2> QED
    BY <2>1, <2>2
<1> HIDE DEF b
<1>9. StringOf(result') = StringOf(b)
  <2>1. length \in Nat /\ length <= MaxLength
    BY <1>3
  <2> QED
    BY <1>3, <1>6, <1>7, <1>8, <2>1, SameString
<1> QED
  BY <1>9 DEF b

\* Of any number of keys, with shift and caps lock at any time before and while the line is
\* read, the line that is returned holds what the user meant, for lines and buffers of any
\* length (ps2-kbd.c:198-286).
THEOREM LineAsMeantHolds == Spec => LineAsMeant
<1>1. ASSUME ConsoleInv, UserInv, [Next]_vars
      PROVE  [pc # "idle" /\ pc' = "idle" /\ call \in {"line", "silent"} /\ ~confused
                 => StringOf(result') = StringOf([k \in 0 .. Len(meant') |->
                        IF k < Len(meant') THEN meant'[k + 1] ELSE "NUL"])]_vars
  <2> SUFFICES ASSUME pc # "idle", pc' = "idle", call \in {"line", "silent"}, ~confused
               PROVE  StringOf(result') = StringOf([k \in 0 .. Len(meant') |->
                          IF k < Len(meant') THEN meant'[k + 1] ELSE "NUL"])
    OBVIOUS
  <2>1. ReadingOK /\ InStep /\ LineKept /\ meant \in Seq(Chars)
    BY <1>1 DEF ConsoleInv, UserInv, UserOK, InStep
  <2>2. Main
    <3>1. UNCHANGED others => pc' = pc
      BY DEF others, reading
    <3>2. UNCHANGED vars => pc' = pc
      BY DEF vars, reading
    <3>3. \A kind : Call(kind) => pc = "idle"
      BY DEF Call
    <3>4. \A key : Press(key) \/ Release(key) => pc' = pc
      BY DEF Press, Release, reading
    <3>5. Repeat => pc' = pc
      BY DEF Repeat, reading
    <3> QED
      BY <1>1, <3>1, <3>2, <3>3, <3>4, <3>5 DEF Next
  <2>3. PICK b : Reads(b) /\ ~b.released /\ Gets(Decoded(b.key), b.meant)
    <3>1. ~(Execute /\ UNCHANGED others)
      BY DEF others, reading
    <3>2. \A b : ~(ReadShift(b) \/ ReadCapsLock(b) \/ ReadPrefix(b))
      BY DEF ReadShift, ReadCapsLock, ReadPrefix, NoCharacter
    <3>3. \A b : ~ReadKey(b)
      BY DEF ReadKey
    <3>4. \A b : ReadExtended(b) => Reads(b) /\ ~b.released /\ Gets(Decoded(b.key), b.meant)
      BY DEF ReadExtended, NoCharacter
    <3>5. \A b : ReadPlain(b) => Reads(b) /\ ~b.released /\ Gets(Decoded(b.key), b.meant)
      BY DEF ReadPlain, NoCharacter
    <3> QED
      BY <2>2, <3>1, <3>2, <3>3, <3>4, <3>5 DEF Main
  <2>4. b \in Byte /\ AsMeant(b, ShiftPressed, CapsLockActivated)
    BY <1>1, <2>1, <2>3, ByteRead
  <2>5. Decoded(b.key) = b.meant /\ b.meant \in Chars
    BY <2>3, <2>4, GivenAsMeant DEF Byte
  <2> DEFINE c == b.meant
  <2>6. Gets(c, c) /\ c \in Chars
    BY <2>3, <2>5
  <2> HIDE DEF c
  <2> QED
    BY <2>1, <2>6, LineEndsAsMeant
<1> QED
  BY <1>1, ConsoleInvHolds, UserInvHolds, PTL DEF LineAsMeant, Spec

=============================================================================
