-------------------------- MODULE InterruptsProofs --------------------------
(***************************************************************************)
(* What PITClock's runs check on a small counter, proved for halves of any *)
(* width, any arguments of Sleep and any number of ticks that fits; and    *)
(* for all lines, drivers and masks that interrupts find their handlers    *)
(* and are ended, and that the clock they drive is the one of PITClock,    *)
(* whose proved properties therefore hold with the interrupts as they      *)
(* come.                                                                   *)
(***************************************************************************)
EXTENDS Interrupts, TLAPS

-----------------------------------------------------------------------------
\* The clock and Sleep

\* The first tick at which the high half is h.
Base(h) == h * HalfMod

Loading == {"startHigh", "testHigh", "getHigh"}

\* The ticks the main flow remembers are past, and the clock is within its bound.
Past == Now <= MaxTicks /\ called <= Now /\ loadedAt <= Now

\* What was loaded is the low half of the tick at which it was loaded.
LowHalfOf == pc \in Loading => \E h \in 0 .. high : loadedAt = Base(h) + loaded

\* Sleep loads after it was called.
LoadedAfterCall == pc \in {"startHigh", "testHigh"} => called <= loadedAt

\* Unless the high half has changed since the call, Sleep waits for a tick that lies
\* its argument after the call.
Target ==
    pc \in {"test", "testHigh"} /\ called >= Base(high) => ticksCount >= called + duration

\* Until Sleep has added the clock, ticksCount is its argument.
Argument == pc \in {"start", "startHigh"} => ticksCount = duration

IInv == TypeOK /\ Past /\ LowHalfOf /\ LoadedAfterCall /\ Target /\ Argument

-----------------------------------------------------------------------------

\* The multiples of HalfMod: integers, monotone, HalfMod apart, and below the
\* counter's end.
LEMMA Bases ==
    /\ \A h \in Nat : Base(h) \in Nat /\ Base(h + 1) = Base(h) + HalfMod
    /\ \A h, k \in Nat : h <= k => Base(h) <= Base(k)
    /\ \A h, k \in Nat : h < k => Base(h) + HalfMod <= Base(k)
    /\ \A h \in 0 .. HalfMod - 1 : Base(h) + HalfMod <= Base(HalfMod)
    /\ Base(0) = 0
<1>1. HalfMod \in Nat
  BY ClockAssumption
<1>2. \A h \in Nat : Base(h) \in Nat /\ Base(h + 1) = Base(h) + HalfMod
  BY <1>1, SMT DEF Base
<1>3. \A h, k \in Nat : h <= k => Base(h) <= Base(k)
  <2> SUFFICES ASSUME NEW h \in Nat, NEW k \in Nat, h <= k PROVE Base(h) <= Base(k)
    OBVIOUS
  <2>1. (k - h) \in Nat
    BY SMT
  <2>2. (k - h) * HalfMod \in Nat
    BY <1>1, <2>1, SMT
  <2>3. Base(k) = Base(h) + (k - h) * HalfMod
    BY <1>1, SMT DEF Base
  <2> QED
    BY <2>2, <2>3, <1>2, SMT
<1>4. \A h, k \in Nat : h < k => Base(h) + HalfMod <= Base(k)
  BY <1>2, <1>3, SMT
<1>5. \A h \in 0 .. HalfMod - 1 : Base(h) + HalfMod <= Base(HalfMod)
  BY <1>1, <1>4, SMT
<1>6. Base(0) = 0
  BY <1>1, SMT DEF Base
<1> QED
  BY <1>2, <1>3, <1>4, <1>5, <1>6

\* The same halves and quotients in terms of Base.
LEMMA InBases ==
    /\ Now = Base(high) + low
    /\ Loaded = Base(high) + loaded
    /\ HalfMod * HalfMod = Base(HalfMod)
    /\ \A n \in Durations \cup {0} : n + MaxTicks < Base(HalfMod)
BY ClockAssumption DEF Now, Loaded, Base

\* Division by HalfMod finds the base below.
LEMMA Quotient ==
    ASSUME NEW n \in Nat
    PROVE  n \div HalfMod \in Nat /\ Base(n \div HalfMod) <= n
BY ClockAssumption, SMT DEF Base

\* The clock under the invariant.
LEMMA Clock ==
    ASSUME IInv
    PROVE  /\ low \in 0 .. HalfMod - 1 /\ high \in 0 .. HalfMod - 1
           /\ HalfMod \in Nat \ {0} /\ MaxTicks \in Nat
           /\ Base(high) \in Nat /\ Base(high) + HalfMod <= Base(HalfMod)
           /\ Base(HalfMod) \in Nat \ {0} /\ HalfMod * HalfMod = Base(HalfMod)
           /\ Now = Base(high) + low
           /\ Now \in 0 .. MaxTicks
<1>1. low \in 0 .. HalfMod - 1 /\ high \in 0 .. HalfMod - 1
  BY DEF IInv, TypeOK
<1>2. HalfMod \in Nat \ {0} /\ MaxTicks \in Nat
  BY ClockAssumption
<1>3. high \in Nat
  BY <1>1, <1>2, SMT
<1>4. Base(high) \in Nat /\ Base(HalfMod) \in Nat
  BY <1>2, <1>3, Bases
<1>5. Base(high) + HalfMod <= Base(HalfMod)
  BY <1>1, Bases
<1>6. Now = Base(high) + low /\ HalfMod * HalfMod = Base(HalfMod)
  BY InBases
<1>7. Now <= MaxTicks
  BY DEF IInv, Past
<1> QED
  BY <1>1, <1>2, <1>4, <1>5, <1>6, <1>7, SMT

-----------------------------------------------------------------------------

THEOREM Initially == Init => IInv
<1> SUFFICES ASSUME Init PROVE IInv
  OBVIOUS
<1>1. Now = 0
  BY InBases, Bases DEF Init
<1>2. TypeOK
  <2>1. HalfMod \in Nat \ {0} /\ MaxTicks \in Nat /\ 0 < HalfMod * HalfMod
    BY ClockAssumption, InBases, SMT DEF Base
  <2> QED
    BY <2>1 DEF Init, TypeOK
<1> QED
  BY <1>1, <1>2, ClockAssumption DEF Init, IInv, Past, LowHalfOf, LoadedAfterCall, Target, Argument, Loading

\* A tick, which no other step makes: the clock advances by one, the low half with it
\* or, from its last value, back to zero with the high half one up.
LEMMA TickMoves ==
    ASSUME IInv, PITHandler
    PROVE  /\ low' \in 0 .. HalfMod - 1 /\ high' \in 0 .. HalfMod - 1
           /\ Base(high') + low' = Base(high) + low + 1
           /\ high <= high'
<1>1. low \in 0 .. HalfMod - 1 /\ high \in 0 .. HalfMod - 1
  BY DEF IInv, TypeOK
<1>2. HalfMod \in Nat \ {0} /\ MaxTicks \in Nat /\ MaxTicks < Base(HalfMod)
  BY InBases, ClockAssumption, SMT
<1>3. Base(high) + low < MaxTicks
  BY InBases DEF PITHandler
<1>4. CASE low = HalfMod - 1
  <2>1. (low + 1) % HalfMod = 0
    BY <1>2, <1>4, SMT
  <2>2. Base(high + 1) = Base(high) + HalfMod /\ Base(high) \in Nat
    BY <1>1, Bases
  <2>3. high + 1 # HalfMod
    BY <2>2, <1>2, <1>3, <1>4, SMT
  <2>4. (high + 1) % HalfMod = high + 1
    BY <2>3, <1>1, <1>2, SMT
  <2>5. low' = 0 /\ high' = high + 1
    BY <2>1, <2>4, <1>4 DEF PITHandler
  <2> QED
    BY <2>2, <2>3, <2>5, <1>1, <1>2, <1>4, SMT
<1>5. CASE low # HalfMod - 1
  <2>1. (low + 1) % HalfMod = low + 1
    BY <1>1, <1>2, <1>5, SMT
  <2>2. low' = low + 1 /\ high' = high
    BY <2>1, <1>5 DEF PITHandler
  <2>3. Base(high) \in Nat
    BY <1>1, Bases
  <2> QED
    BY <2>2, <2>3, <1>1, <1>2, <1>5, SMT
<1> QED
  BY <1>4, <1>5

\* A tick keeps the invariant: the load remembers the tick it was made at, and when the
\* high half changes the target is no longer promised anything.
LEMMA TickKeeps ==
    ASSUME IInv, PITHandler
    PROVE  IInv'
<1>1. /\ low' \in 0 .. HalfMod - 1 /\ high' \in 0 .. HalfMod - 1
      /\ Base(high') + low' = Base(high) + low + 1
      /\ high <= high'
  BY TickMoves
<1>2. UNCHANGED <<pc, loaded, ticksCount, got, duration, called, loadedAt>>
  BY DEF PITHandler
<1>3. /\ Now = Base(high) + low /\ Now' = Base(high') + low'
      /\ Base(high) \in Nat /\ Base(high') \in Nat /\ Base(high) <= Base(high')
      /\ Now < MaxTicks /\ MaxTicks \in Nat
  <2>1. Now' = Base(high') + low'
    BY DEF Now, Base
  <2>2. high \in Nat /\ high' \in Nat
    BY <1>1, Clock, SMT
  <2>3. Base(high') \in Nat /\ Base(high) <= Base(high')
    BY <2>2, <1>1, Bases
  <2> QED
    BY <2>1, <2>3, Clock DEF PITHandler
<1>4. /\ low \in 0 .. HalfMod - 1 /\ high \in 0 .. HalfMod - 1 /\ HalfMod \in Nat
      /\ called \in 0 .. MaxTicks /\ loadedAt \in 0 .. MaxTicks
  BY ClockAssumption DEF IInv, TypeOK
<1>5. TypeOK'
  BY <1>1, <1>2 DEF IInv, TypeOK
<1>6. Past'
  BY <1>1, <1>2, <1>3, <1>4, SMT DEF IInv, Past
<1>7. LowHalfOf'
  <2> SUFFICES ASSUME pc \in Loading
               PROVE  \E h \in 0 .. high' : loadedAt = Base(h) + loaded
    BY <1>2 DEF LowHalfOf, Loading, Base
  <2>1. PICK h \in 0 .. high : loadedAt = Base(h) + loaded
    BY DEF IInv, LowHalfOf
  <2>2. h \in 0 .. high'
    BY <1>1, <1>4, SMT
  <2> QED
    BY <2>1, <2>2
<1>8. LoadedAfterCall'
  BY <1>2 DEF IInv, LoadedAfterCall
<1>9. Target'
  <2> SUFFICES ASSUME pc \in {"test", "testHigh"}, called >= Base(high')
               PROVE  ticksCount >= called + duration
    BY <1>2 DEF Target, Base
  <2>1. called >= Base(high)
    BY <1>3, <1>4, SMT
  <2> QED
    BY <2>1 DEF IInv, Target
<1>10. Argument'
  BY <1>2 DEF IInv, Argument
<1> QED
  BY <1>5, <1>6, <1>7, <1>8, <1>9, <1>10 DEF IInv

\* What a load of the counter gives: at least the tick of its first half, and no more
\* than the clock when the first half's tick has this high half.
LEMMA LoadedBounds ==
    ASSUME IInv, pc \in Loading
    PROVE  /\ Loaded \in 0 .. HalfMod * HalfMod - 1
           /\ loadedAt <= Loaded
           /\ Loaded < Now + HalfMod
           /\ Loaded <= Now \/ low < loaded
           /\ loadedAt >= Base(high) => loadedAt = Loaded
<1>1. PICK h \in 0 .. high : loadedAt = Base(h) + loaded
  BY DEF IInv, LowHalfOf
<1>2. /\ low \in 0 .. HalfMod - 1 /\ high \in 0 .. HalfMod - 1
      /\ loaded \in 0 .. HalfMod - 1 /\ HalfMod \in Nat
  BY ClockAssumption DEF IInv, TypeOK
<1>3. /\ Base(h) \in Nat /\ Base(high) \in Nat /\ Base(HalfMod) \in Nat
      /\ Base(h) <= Base(high) /\ (h < high => Base(h) + HalfMod <= Base(high))
      /\ Base(high) + HalfMod <= Base(HalfMod)
  <2>1. h \in Nat /\ high \in Nat /\ h <= high
    BY <1>2, SMT
  <2>2. Base(h) \in Nat /\ Base(h) <= Base(high) /\ (h < high => Base(h) + HalfMod <= Base(high))
    BY <2>1, Bases
  <2> QED
    BY <2>2, Clock
<1>4. /\ Loaded = Base(high) + loaded /\ Now = Base(high) + low
      /\ HalfMod * HalfMod = Base(HalfMod)
  BY InBases
<1>5. h = high \/ h < high
  BY <1>2, SMT
<1> QED
  BY <1>1, <1>2, <1>3, <1>4, <1>5, SMT

\* A load of the low half, whatever it is for.
LEMMA LowLoads ==
    ASSUME IInv, LoadLow, UNCHANGED <<low, high>>
    PROVE  /\ loaded' \in 0 .. HalfMod - 1 /\ loadedAt' \in 0 .. MaxTicks
           /\ \E h \in 0 .. high' : loadedAt' = Base(h) + loaded'
           /\ loadedAt' = Now
<1>1. /\ Now \in Nat /\ high \in 0 .. high /\ Now = Base(high) + low
  <2>1. high \in 0 .. high
    BY Clock, SMT
  <2> QED
    BY <2>1, Clock
<1> QED
  BY <1>1, Clock DEF LoadLow

-----------------------------------------------------------------------------
\* Every step of the main flow keeps the invariant.

LEMMA CallSleepKeeps ==
    ASSUME IInv, CallSleep
    PROVE  IInv'
<1>1. UNCHANGED <<low, high, loaded, got, loadedAt>> /\ Now' = Now /\ pc' = "start"
      /\ called' = Now
  BY DEF CallSleep, Now
<1>2. PICK n \in Durations : ticksCount' = n /\ duration' = n
  BY DEF CallSleep
<1>3. /\ n \in Nat /\ n < Base(HalfMod) /\ MaxTicks \in Nat
      /\ HalfMod * HalfMod = Base(HalfMod)
  BY <1>2, ClockAssumption, InBases, SMT
<1>4. Now \in 0 .. MaxTicks
  BY Clock
<1>5. TypeOK'
  <2>1. n \in 0 .. Base(HalfMod) - 1
    BY <1>3, Clock, SMT
  <2> QED
    BY <2>1, <1>1, <1>2, <1>3, <1>4 DEF IInv, TypeOK
<1>6. Past'
  BY <1>1, <1>4 DEF IInv, Past
<1> QED
  BY <1>1, <1>2, <1>5, <1>6 DEF IInv, LowHalfOf, LoadedAfterCall, Target, Argument, Loading

LEMMA StartLowKeeps ==
    ASSUME IInv, StartLow
    PROVE  IInv'
<1>1. /\ UNCHANGED <<low, high, ticksCount, got, duration, called>>
      /\ LoadLow /\ pc = "start" /\ pc' = "startHigh" /\ Now' = Now
  BY DEF StartLow, Now
<1>2. /\ loaded' \in 0 .. HalfMod - 1 /\ loadedAt' \in 0 .. MaxTicks
      /\ \E h \in 0 .. high' : loadedAt' = Base(h) + loaded'
      /\ loadedAt' = Now
  BY <1>1, LowLoads
<1>3. TypeOK' /\ Past'
  <2>1. Now \in Nat
    BY Clock
  <2> QED
    BY <2>1, <1>1, <1>2, SMT DEF IInv, TypeOK, Past
<1>4. LowHalfOf' /\ LoadedAfterCall' /\ Target' /\ Argument'
  BY <1>1, <1>2 DEF IInv, LowHalfOf, LoadedAfterCall, Target, Argument, Loading, Past, Base
<1> QED
  BY <1>3, <1>4 DEF IInv

LEMMA TestLowKeeps ==
    ASSUME IInv, TestLow
    PROVE  IInv'
<1>1. /\ UNCHANGED <<low, high, ticksCount, got, duration, called>>
      /\ LoadLow /\ pc = "test" /\ pc' = "testHigh" /\ Now' = Now
  BY DEF TestLow, Now
<1>2. /\ loaded' \in 0 .. HalfMod - 1 /\ loadedAt' \in 0 .. MaxTicks
      /\ \E h \in 0 .. high' : loadedAt' = Base(h) + loaded'
      /\ loadedAt' = Now
  BY <1>1, LowLoads
<1>3. TypeOK' /\ Past'
  <2>1. Now \in Nat
    BY Clock
  <2> QED
    BY <2>1, <1>1, <1>2, SMT DEF IInv, TypeOK, Past
<1>4. LowHalfOf' /\ LoadedAfterCall' /\ Target' /\ Argument'
  BY <1>1, <1>2 DEF IInv, LowHalfOf, LoadedAfterCall, Target, Argument, Loading, Past, Base
<1> QED
  BY <1>3, <1>4 DEF IInv

LEMMA CallGetKeeps ==
    ASSUME IInv, CallGet
    PROVE  IInv'
<1>1. /\ UNCHANGED <<low, high, ticksCount, got, duration>>
      /\ LoadLow /\ pc' = "getHigh" /\ Now' = Now /\ called' = Now
  BY DEF CallGet, Now
<1>2. /\ loaded' \in 0 .. HalfMod - 1 /\ loadedAt' \in 0 .. MaxTicks
      /\ \E h \in 0 .. high' : loadedAt' = Base(h) + loaded'
      /\ loadedAt' = Now
  BY <1>1, LowLoads
<1>3. TypeOK' /\ Past'
  <2>1. Now \in Nat
    BY Clock
  <2> QED
    BY <2>1, <1>1, <1>2, SMT DEF IInv, TypeOK, Past
<1>4. LowHalfOf' /\ LoadedAfterCall' /\ Target' /\ Argument'
  BY <1>1, <1>2 DEF IInv, LowHalfOf, LoadedAfterCall, Target, Argument, Loading, Past, Base
<1> QED
  BY <1>3, <1>4 DEF IInv

\* The tick to wait for: without a change of the high half since the call the sum does
\* not wrap and is what the call asked for, counted from a load made after it.
LEMMA StartHighKeeps ==
    ASSUME IInv, StartHigh
    PROVE  IInv'
<1>1. /\ UNCHANGED <<low, high, loaded, duration, called, loadedAt>>
      /\ got' = Loaded /\ ticksCount' = (ticksCount + Loaded) % Base(HalfMod)
      /\ pc = "startHigh" /\ pc' = "test" /\ Now' = Now /\ ticksCount = duration
  BY InBases DEF StartHigh, Now, IInv, Argument
<1>2. /\ Loaded \in 0 .. HalfMod * HalfMod - 1
      /\ loadedAt >= Base(high) => loadedAt = Loaded
  BY <1>1, LoadedBounds DEF Loading
<1>3. /\ HalfMod * HalfMod = Base(HalfMod) /\ Base(HalfMod) \in Nat \ {0}
      /\ duration + MaxTicks < Base(HalfMod) /\ duration \in Nat /\ MaxTicks \in Nat
  <2>1. duration \in Durations \cup {0}
    BY DEF IInv, TypeOK
  <2> QED
    BY <2>1, Clock, InBases, ClockAssumption, SMT
<1>4. TypeOK'
  <2>1. ticksCount' \in 0 .. Base(HalfMod) - 1
    <3>1. ticksCount + Loaded \in Nat
      BY <1>2, <1>3, SMT DEF IInv, TypeOK
    <3> QED
      BY <3>1, <1>1, <1>3, SMT
  <2> QED
    BY <2>1, <1>1, <1>2, <1>3 DEF IInv, TypeOK
<1>5. Past'
  BY <1>1 DEF IInv, Past
<1>6. LowHalfOf' /\ LoadedAfterCall' /\ Argument'
  BY <1>1 DEF LowHalfOf, LoadedAfterCall, Argument, Loading
<1>7. Target'
  <2> SUFFICES ASSUME called >= Base(high)
               PROVE  ticksCount' >= called + duration
    BY <1>1 DEF Target, Base
  <2>1. /\ called <= loadedAt /\ called \in Nat /\ loadedAt \in Nat /\ loadedAt <= MaxTicks
        /\ high \in 0 .. HalfMod - 1
    BY <1>1, <1>3, SMT DEF IInv, LoadedAfterCall, TypeOK
  <2>2. Base(high) \in Nat
    BY <2>1, Bases
  <2>3. Loaded = loadedAt
    BY <2>1, <2>2, <1>2, SMT
  <2>4. ticksCount + Loaded \in 0 .. Base(HalfMod) - 1
    BY <2>1, <2>3, <1>1, <1>3, SMT
  <2>5. ticksCount' = ticksCount + Loaded
    BY <2>4, <1>1, <1>3, SMT
  <2> QED
    BY <2>1, <2>3, <2>5, <1>1, <1>3, SMT
<1> QED
  BY <1>4, <1>5, <1>6, <1>7 DEF IInv

LEMMA TestHighKeeps ==
    ASSUME IInv, TestHigh
    PROVE  IInv'
<1>1. /\ UNCHANGED <<low, high, loaded, ticksCount, duration, called, loadedAt>>
      /\ got' = Loaded /\ pc = "testHigh" /\ pc' \in {"test", "idle"} /\ Now' = Now
  BY DEF TestHigh, Now
<1>2. Loaded \in 0 .. HalfMod * HalfMod - 1
  BY <1>1, LoadedBounds DEF Loading
<1>3. TypeOK'
  BY <1>1, <1>2 DEF IInv, TypeOK
<1> QED
  BY <1>1, <1>3 DEF IInv, Past, LowHalfOf, LoadedAfterCall, Target, Argument, Loading, Base

LEMMA GetHighKeeps ==
    ASSUME IInv, GetHigh
    PROVE  IInv'
<1>1. /\ UNCHANGED <<low, high, loaded, ticksCount, duration, called, loadedAt>>
      /\ got' = Loaded /\ pc = "getHigh" /\ pc' = "idle" /\ Now' = Now
  BY DEF GetHigh, Now
<1>2. Loaded \in 0 .. HalfMod * HalfMod - 1
  BY <1>1, LoadedBounds DEF Loading
<1>3. TypeOK'
  BY <1>1, <1>2 DEF IInv, TypeOK
<1> QED
  BY <1>1, <1>3 DEF IInv, Past, LowHalfOf, LoadedAfterCall, Target, Argument, Loading, Base


THEOREM Inductive == IInv /\ [Next]_vars => IInv'
<1> SUFFICES ASSUME IInv, [Next]_vars PROVE IInv'
  OBVIOUS
<1>1. CASE PITHandler
  BY <1>1, TickKeeps
<1>2. CASE CallSleep
  BY <1>2, CallSleepKeeps
<1>3. CASE StartLow
  BY <1>3, StartLowKeeps
<1>4. CASE StartHigh
  BY <1>4, StartHighKeeps
<1>5. CASE TestLow
  BY <1>5, TestLowKeeps
<1>6. CASE TestHigh
  BY <1>6, TestHighKeeps
<1>7. CASE CallGet
  BY <1>7, CallGetKeeps
<1>8. CASE GetHigh
  BY <1>8, GetHighKeeps
<1>9. CASE UNCHANGED vars
  BY <1>9 DEF vars, IInv, TypeOK, Past, LowHalfOf, LoadedAfterCall, Target, Argument, Now, Base
<1> QED
  BY <1>1, <1>2, <1>3, <1>4, <1>5, <1>6, <1>7, <1>8, <1>9 DEF Next, Sleeping

LEMMA Invariant == Spec => []IInv
<1>1. IInv /\ UNCHANGED vars => IInv'
  BY Inductive
<1> QED
  BY Initially, Inductive, PTL DEF Spec

-----------------------------------------------------------------------------

\* The variables of pit.c and of its two functions keep their types: the counter stays
\* within 64 bits and what Sleep and GetTicksCount64 compute does too.
THEOREM TypeCorrect == Spec => []TypeOK
<1>1. IInv => TypeOK
  BY DEF IInv
<1> QED
  BY <1>1, Invariant, PTL

\* A step that completes a load gives what LoadedBounds says.
LEMMA CompletionIsBounded ==
    ASSUME IInv, [Next]_vars, Completes
    PROVE  /\ loadedAt <= got' /\ got' < Now + HalfMod
           /\ got' <= Now \/ low < loaded
<1>1. pc \in Loading /\ pc' # pc
  BY DEF Completes, Loading
<1>2. got' = Loaded
  BY <1>1 DEF Next, vars, Sleeping, PITHandler, CallSleep, StartLow, StartHigh, TestLow, TestHigh,
              CallGet, GetHigh, Loading
<1> QED
  BY <1>1, <1>2, LoadedBounds

\* However the ticks fall between the two loads of the counter, the value is not behind
\* the tick of the first load, and ahead of the clock only by a wrap (pit.c:20-31).
THEOREM LoadsAreNeverBehind == Spec => LoadsNeverLag
<1>1. IInv /\ [Next]_vars =>
        [Completes => /\ loadedAt <= got' /\ got' < Now + HalfMod
                      /\ got' <= Now \/ low < loaded]_vars
  BY CompletionIsBounded
<1> QED
  BY <1>1, Invariant, PTL DEF Spec, LoadsNeverLag

\* A Sleep that returns while the high half is what it was at the call has slept.
LEMMA ReturnIsInTime ==
    ASSUME IInv, [Next]_vars, Returns, called \div HalfMod = high
    PROVE  Now - called >= duration
<1>1. pc = "testHigh" /\ pc' = "idle"
  BY DEF Returns
<1>2. ~(Loaded < ticksCount)
  BY <1>1 DEF Next, vars, Sleeping, PITHandler, CallSleep, StartLow, StartHigh, TestLow, TestHigh,
              CallGet, GetHigh, Again
<1>3. /\ called \in Nat /\ loadedAt \in Nat /\ ticksCount \in Nat
      /\ called <= loadedAt /\ loadedAt <= Now
  <2>1. called \in 0 .. MaxTicks /\ loadedAt \in 0 .. MaxTicks /\ MaxTicks \in Nat
        /\ ticksCount \in 0 .. Base(HalfMod) - 1 /\ Base(HalfMod) \in Nat
    BY Clock DEF IInv, TypeOK
  <2>2. called <= loadedAt /\ loadedAt <= Now
    BY <1>1 DEF IInv, LoadedAfterCall, Past
  <2> QED
    BY <2>1, <2>2, SMT
<1>4. called >= Base(high)
  BY <1>3, Quotient
<1>5. ticksCount >= called + duration
  BY <1>1, <1>4 DEF IInv, Target
<1>6. Loaded = loadedAt
  <2>1. loadedAt >= Base(high)
    BY <1>3, <1>4, Clock, SMT
  <2> QED
    BY <2>1, <1>1, LoadedBounds DEF Loading
<1>7. duration \in Nat /\ Now \in Nat
  BY Clock, ClockAssumption, SMT DEF IInv, TypeOK
<1> QED
  BY <1>2, <1>3, <1>5, <1>6, <1>7, SMT

\* Sleep keeps its promise except across a change of the high half (pit.c:20-23).
THEOREM SleepsLongEnough == Spec => EarlyOnlyAcrossAWrap
<1>1. IInv /\ [Next]_vars =>
        [Returns /\ called \div HalfMod = high => Now - called >= duration]_vars
  BY ReturnIsInTime
<1> QED
  BY <1>1, Invariant, PTL DEF Spec, EarlyOnlyAcrossAWrap

-----------------------------------------------------------------------------
\* The interrupts

\* What is acknowledged: a request, or none.
Serves ==
    \/ /\ ~spurious /\ intIndex \in Lines \cap HardwareIntHandlers
       /\ inService = {intIndex, MasterLine(intIndex)}
    \/ spurious /\ intIndex = 7 /\ inService = {}
    \/ spurious /\ intIndex = 15 /\ inService = {Cascade}

\* Nothing is in service outside a handler.
Service ==
    /\ cpu \in {"flow", "acknowledge"} => inService = {}
    /\ cpu \in {"handle", "end"} => Serves

\* Interrupts wait for the controllers to be programmed.
Guarded ==
    /\ step \in Nat
    /\ IF_ \/ cpu # "flow" => step >= 2
    /\ cpu \in {"flow", "acknowledge", "handle", "end"}

\* From then on only lines with a handler are open, and the one that is about to be opened
\* has it; the mask that was read is still the controller's.
Open ==
    /\ requested \subseteq Lines
    /\ step >= 1 => (0 .. 15) \ masked \subseteq HardwareIntHandlers \cup {Cascade}
    /\ \A k \in 1 .. Len(Order) :
          /\ step \in {3 * k, 3 * k + 1} => Order[k] \in HardwareIntHandlers
          /\ step = 3 * k + 1 => value = masked \cap ControllerOf(Order[k])

ServedInv == Service /\ Guarded /\ Open

-----------------------------------------------------------------------------
\* Numbers and lines

LEMMA Singleton == \A n \in Int : Ended({n}) = {}
<1> SUFFICES ASSUME NEW n \in Int PROVE {n} \ {Min({n})} = {}
  BY DEF Ended
<1>1. \E x \in {n} : \A y \in {n} : x =< y
  BY SMT
<1>2. Min({n}) \in {n}
  BY <1>1 DEF Min
<1> QED
  BY <1>2

LEMMA Nothing == Ended({}) = {}
BY DEF Ended

LEMMA LineFacts ==
    /\ \A i \in Lines : i \in 0 .. 15 /\ i # Cascade
    /\ \A k \in 1 .. Len(Order) : k \in Nat /\ Order[k] \in Lines
BY LinesAssumption DEF Cascade

\* The end of interrupt leaves nothing in service.
LEMMA AllEnded == Serves => PICSendCommand(intIndex) = {}
<1> SUFFICES ASSUME Serves PROVE PICSendCommand(intIndex) = {}
  OBVIOUS
<1>1. CASE ~spurious /\ intIndex \in Lines /\ intIndex < 8 /\ inService = {intIndex, MasterLine(intIndex)}
  <2>1. intIndex \in 0 .. 15
    BY <1>1, LineFacts
  <2>2. intIndex \in Master /\ intIndex \notin Slave
    BY <1>1, <2>1 DEF Master, Slave
  <2>3. inService = {intIndex}
    BY <1>1, <2>2 DEF MasterLine
  <2>4. inService \cap Master = {intIndex} /\ inService \cap Slave = {}
    BY <2>2, <2>3
  <2> QED
    BY <1>1, <2>1, <2>4, Singleton DEF PICSendCommand
<1>2. CASE ~spurious /\ intIndex \in Lines /\ ~(intIndex < 8) /\ inService = {intIndex, MasterLine(intIndex)}
  <2>1. intIndex \in 0 .. 15
    BY <1>2, LineFacts
  <2>2. intIndex \in Slave /\ intIndex \notin Master
    BY <1>2, <2>1 DEF Master, Slave
  <2>3. Cascade \in Master /\ Cascade \notin Slave /\ Cascade \in Int
    BY DEF Master, Slave, Cascade
  <2>4. inService = {intIndex, Cascade}
    BY <1>2, <2>2 DEF MasterLine
  <2>5. inService \cap Master = {Cascade} /\ inService \cap Slave = {intIndex}
    BY <2>2, <2>3, <2>4
  <2>6. intIndex \in Int /\ intIndex >= 8
    BY <1>2, <2>1
  <2> QED
    BY <2>3, <2>5, <2>6, Singleton DEF PICSendCommand
<1>3. CASE intIndex = 7 /\ inService = {}
  BY <1>3, Nothing DEF PICSendCommand
<1>4. CASE intIndex = 15 /\ inService = {Cascade}
  <2>1. inService \cap Master = {Cascade} /\ inService \cap Slave = {}
    BY <1>4 DEF Master, Slave, Cascade
  <2> QED
    BY <1>4, <2>1, Singleton, Nothing DEF PICSendCommand, Cascade
<1> QED
  BY <1>1, <1>2, <1>3, <1>4 DEF Serves

-----------------------------------------------------------------------------
\* The steps

LEMMA ServedInitially == InterruptsInit => ServedInv
<1> SUFFICES ASSUME InterruptsInit PROVE ServedInv
  OBVIOUS
<1>1. Service
  BY DEF InterruptsInit, Service
<1>2. Guarded
  BY DEF InterruptsInit, Guarded
<1>3. Open
  BY LineFacts, SMT DEF InterruptsInit, Open
<1> QED
  BY <1>1, <1>2, <1>3 DEF ServedInv

LEMMA RequestKeeps == ASSUME ServedInv, NEW i \in Lines, Request(i) PROVE ServedInv'
<1>1. requested' \subseteq Lines
  BY DEF ServedInv, Open, Request
<1> QED
  BY <1>1 DEF ServedInv, Service, Serves, Guarded, Open, Request, processor, start

LEMMA WithdrawKeeps == ASSUME ServedInv, Withdraw PROVE ServedInv'
<1>1. requested' \subseteq Lines
  BY DEF ServedInv, Open, Withdraw
<1> QED
  BY <1>1 DEF ServedInv, Service, Serves, Guarded, Open, Withdraw, processor, start

LEMMA InterruptKeeps == ASSUME ServedInv, Interrupt PROVE ServedInv'
BY DEF ServedInv, Service, Serves, Guarded, Open, Interrupt, chips, start

\* What is signalled is requested and open, so that it has a handler.
LEMMA AcknowledgeKeeps == ASSUME ServedInv, Acknowledge PROVE ServedInv'
<1>1. /\ cpu = "acknowledge" /\ cpu' = "handle" /\ inService = {} /\ step \in Nat /\ step >= 1
      /\ UNCHANGED <<masked, HardwareIntHandlers, step, value>>
      /\ spurious' = (Signalled = {})
  BY DEF ServedInv, Service, Guarded, Acknowledge, start
<1>2. Serves' /\ requested' \subseteq Lines
  <2>1. CASE \E i \in Signalled : /\ intIndex' = i /\ requested' = requested \ {i}
                                  /\ inService' = inService \cup {i, MasterLine(i)}
    <3>1. PICK i \in Signalled : /\ intIndex' = i /\ requested' = requested \ {i}
                                 /\ inService' = inService \cup {i, MasterLine(i)}
      BY <2>1
    <3>2. i \in Lines /\ i \notin masked
      BY DEF Signalled, ServedInv, Open
    <3>3. i \in HardwareIntHandlers
      BY <1>1, <3>2, LineFacts DEF ServedInv, Open
    <3>4. ~spurious'
      BY <1>1, <3>1
    <3>5. inService' = {intIndex', MasterLine(intIndex)'}
      BY <1>1, <3>1 DEF MasterLine
    <3>6. Serves'
      BY <1>1, <3>1, <3>2, <3>3, <3>4, <3>5 DEF Serves
    <3> QED
      BY <3>1, <3>6 DEF ServedInv, Open
  <2>2. CASE Signalled = {} /\ intIndex' = 7 /\ UNCHANGED <<requested, inService>>
    BY <1>1, <2>2 DEF Serves, ServedInv, Open
  <2>3. CASE Signalled = {} /\ intIndex' = 15 /\ inService' = inService \cup {Cascade} /\ UNCHANGED requested
    BY <1>1, <2>3 DEF Serves, ServedInv, Open
  <2> QED
    BY <2>1, <2>2, <2>3 DEF Acknowledge
<1>3. Service'
  BY <1>1, <1>2 DEF Service
<1>4. Guarded'
  BY <1>1 DEF Guarded, ServedInv
<1>5. Open'
  BY <1>1, <1>2 DEF Open, ServedInv
<1> QED
  BY <1>3, <1>4, <1>5 DEF ServedInv

LEMMA HandleKeeps == ASSUME ServedInv, Handle PROVE ServedInv'
BY DEF ServedInv, Service, Serves, Guarded, Open, Handle, chips, start

LEMMA EndOfInterruptKeeps == ASSUME ServedInv, EndOfInterrupt PROVE ServedInv'
<1>1. /\ cpu = "end" /\ cpu' = "flow" /\ inService' = PICSendCommand(intIndex)
      /\ UNCHANGED <<requested, masked, HardwareIntHandlers, step, value>>
  BY DEF EndOfInterrupt, start
<1>2. inService' = {}
  BY <1>1, AllEnded DEF ServedInv, Service
<1>3. Service' /\ Guarded'
  BY <1>1, <1>2 DEF ServedInv, Service, Guarded
<1>4. Open'
  BY <1>1 DEF ServedInv, Open
<1> QED
  BY <1>3, <1>4 DEF ServedInv

LEMMA RemapAndMaskKeeps == ASSUME ServedInv, RemapAndMask PROVE ServedInv'
<1>1. /\ cpu = "flow" /\ step = 0 /\ step' = 1 /\ requested' = {} /\ inService' = {}
      /\ masked' = (0 .. 15) \ {Cascade}
      /\ UNCHANGED <<IF_, cpu, intIndex, spurious, HardwareIntHandlers, value>>
  BY DEF RemapAndMask, Starting, processor
<1>2. Service'
  BY <1>1 DEF Service
<1>3. Guarded'
  BY <1>1, SMT DEF ServedInv, Guarded
<1>4. Open'
  <2>1. (0 .. 15) \ masked' \subseteq {Cascade}
    BY <1>1
  <2> QED
    BY <1>1, <2>1, LineFacts, SMT DEF Open
<1> QED
  BY <1>2, <1>3, <1>4 DEF ServedInv

LEMMA EnableInterruptsKeeps == ASSUME ServedInv, EnableInterrupts PROVE ServedInv'
<1>1. /\ cpu = "flow" /\ step = 1 /\ step' = 2
      /\ UNCHANGED <<requested, inService, masked, cpu, intIndex, spurious, HardwareIntHandlers, value>>
  BY DEF EnableInterrupts, Starting, chips
<1>2. Service'
  BY <1>1 DEF ServedInv, Service
<1>3. Guarded'
  BY <1>1, SMT DEF ServedInv, Guarded
<1>4. Open'
  BY <1>1, LineFacts, SMT DEF ServedInv, Open
<1> QED
  BY <1>2, <1>3, <1>4 DEF ServedInv

LEMMA InstallKeeps == ASSUME ServedInv, InstallHardwareIntHandler PROVE ServedInv'
<1>1. PICK k \in 1 .. Len(Order) :
        /\ Starting(3 * k - 1)
        /\ HardwareIntHandlers' = HardwareIntHandlers \cup {Order[k]}
        /\ UNCHANGED <<vars, chips, processor, value>>
  BY DEF InstallHardwareIntHandler
<1>2. /\ cpu = "flow" /\ step = 3 * k - 1 /\ step' = 3 * k /\ k \in Nat \ {0}
      /\ UNCHANGED <<requested, inService, masked, IF_, cpu, intIndex, spurious, value>>
  BY <1>1, LineFacts, SMT DEF Starting, chips, processor
<1>3. Service'
  BY <1>2 DEF ServedInv, Service
<1>4. Guarded'
  BY <1>2, SMT DEF ServedInv, Guarded
<1>5. Open'
  <2>1. requested' \subseteq Lines
    BY <1>2 DEF ServedInv, Open
  <2>2. (0 .. 15) \ masked' \subseteq HardwareIntHandlers' \cup {Cascade}
    BY <1>1, <1>2 DEF ServedInv, Open
  <2>3. ASSUME NEW l \in 1 .. Len(Order)
        PROVE  /\ step' \in {3 * l, 3 * l + 1} => l = k
               /\ step' # 3 * l + 1
    BY <1>2, LineFacts, SMT
  <2> QED
    BY <1>1, <2>1, <2>2, <2>3 DEF Open
<1> QED
  BY <1>3, <1>4, <1>5 DEF ServedInv

LEMMA ReadMaskKeeps == ASSUME ServedInv, ReadMask PROVE ServedInv'
<1>1. PICK k \in 1 .. Len(Order) :
        /\ Starting(3 * k)
        /\ value' = masked \cap ControllerOf(Order[k])
        /\ UNCHANGED <<vars, chips, processor, HardwareIntHandlers>>
  BY DEF ReadMask
<1>2. /\ cpu = "flow" /\ step = 3 * k /\ step' = 3 * k + 1 /\ k \in Nat \ {0}
      /\ UNCHANGED <<requested, inService, masked, IF_, cpu, intIndex, spurious, HardwareIntHandlers>>
  BY <1>1, LineFacts, SMT DEF Starting, chips, processor
<1>3. Service'
  BY <1>2 DEF ServedInv, Service
<1>4. Guarded'
  BY <1>2, SMT DEF ServedInv, Guarded
<1>5. Open'
  <2>1. requested' \subseteq Lines
    BY <1>2 DEF ServedInv, Open
  <2>2. (0 .. 15) \ masked' \subseteq HardwareIntHandlers' \cup {Cascade}
    BY <1>2 DEF ServedInv, Open
  <2>3. ASSUME NEW l \in 1 .. Len(Order), step' \in {3 * l, 3 * l + 1} PROVE l = k
    BY <1>2, <2>3, LineFacts, SMT
  <2>4. Order[k] \in HardwareIntHandlers
    BY <1>2 DEF ServedInv, Open
  <2>5. value' = masked' \cap ControllerOf(Order[k])
    BY <1>1, <1>2
  <2> QED
    BY <1>2, <2>1, <2>2, <2>3, <2>4, <2>5 DEF Open
<1> QED
  BY <1>3, <1>4, <1>5 DEF ServedInv

\* The write opens the driver's line and no other: the mask has not changed since it was read.
LEMMA WriteMaskKeeps == ASSUME ServedInv, WriteMask PROVE ServedInv'
<1>1. PICK k \in 1 .. Len(Order) :
        /\ Starting(3 * k + 1)
        /\ masked' = (masked \ ControllerOf(Order[k])) \cup Unmasked(Order[k])
        /\ UNCHANGED <<vars, requested, inService, processor, HardwareIntHandlers, value>>
  BY DEF WriteMask
<1>2. /\ cpu = "flow" /\ step = 3 * k + 1 /\ step' = 3 * k + 2 /\ k \in Nat \ {0}
      /\ UNCHANGED <<requested, inService, IF_, cpu, intIndex, spurious, HardwareIntHandlers>>
  BY <1>1, LineFacts, SMT DEF Starting, processor
<1>3. Service'
  BY <1>2 DEF ServedInv, Service
<1>4. Guarded'
  BY <1>2, SMT DEF ServedInv, Guarded
<1>5. Open'
  <2>1. requested' \subseteq Lines
    BY <1>2 DEF ServedInv, Open
  <2>2. Order[k] \in HardwareIntHandlers /\ value = masked \cap ControllerOf(Order[k])
    BY <1>2 DEF ServedInv, Open
  <2>3. (0 .. 15) \ masked' \subseteq ((0 .. 15) \ masked) \cup {Order[k]}
    BY <1>1, <2>2 DEF Unmasked
  <2>4. (0 .. 15) \ masked' \subseteq HardwareIntHandlers' \cup {Cascade}
    BY <1>2, <2>2, <2>3 DEF ServedInv, Open
  <2>5. ASSUME NEW l \in 1 .. Len(Order) PROVE step' \notin {3 * l, 3 * l + 1}
    BY <1>2, LineFacts, SMT
  <2> QED
    BY <2>1, <2>4, <2>5 DEF Open
<1> QED
  BY <1>3, <1>4, <1>5 DEF ServedInv

LEMMA FlowKeeps == ASSUME ServedInv, Flow PROVE ServedInv'
BY DEF ServedInv, Service, Serves, Guarded, Open, Flow, chips, processor, start

LEMMA ServedStep == ServedInv /\ [InterruptsNext]_all => ServedInv'
<1> SUFFICES ASSUME ServedInv, [InterruptsNext]_all PROVE ServedInv'
  OBVIOUS
<1>1. CASE \E i \in Lines : Request(i)
  BY <1>1, RequestKeeps
<1>2. CASE Withdraw
  BY <1>2, WithdrawKeeps
<1>3. CASE Serving
  BY <1>3, InterruptKeeps, AcknowledgeKeeps, HandleKeeps, EndOfInterruptKeeps DEF Serving
<1>4. CASE RemapAndMask \/ EnableInterrupts \/ InstallHardwareIntHandler \/ ReadMask \/ WriteMask
  BY <1>4, RemapAndMaskKeeps, EnableInterruptsKeeps, InstallKeeps, ReadMaskKeeps, WriteMaskKeeps
<1>5. CASE Flow
  BY <1>5, FlowKeeps
<1>6. CASE UNCHANGED all
  BY <1>6 DEF ServedInv, Service, Serves, Guarded, Open, all, chips, processor, start
<1> QED
  BY <1>1, <1>2, <1>3, <1>4, <1>5, <1>6 DEF InterruptsNext

\* Whatever lines there are, in whatever order their drivers start, whatever masks the BIOS
\* has left and whenever requests come and go: an interrupt that is asked for finds its
\* handler, and none stays in service (pic.c:3-6, cpu-int-handlers.c:172-204).
THEOREM InterruptsServed == InterruptsSpec => []InterruptsAreServed
<1>1. ServedInv => InterruptsAreServed
  BY DEF ServedInv, Service, Serves, InterruptsAreServed
<1> QED
  BY <1>1, ServedInitially, ServedStep, PTL DEF InterruptsSpec

-----------------------------------------------------------------------------
\* The clock

\* Each step of the kernel with its interrupts is a step of the clock, or changes nothing of it.
LEMMA ClockSteps == [InterruptsNext]_all => [Next]_vars
<1> SUFFICES ASSUME [InterruptsNext]_all PROVE [Next]_vars
  OBVIOUS
<1>1. CASE \E i \in Lines : Request(i)
  BY <1>1 DEF Request
<1>2. CASE Withdraw
  BY <1>2 DEF Withdraw
<1>3. CASE Serving
  BY <1>3 DEF Serving, Interrupt, Acknowledge, Handle, EndOfInterrupt, Next
<1>4. CASE RemapAndMask \/ EnableInterrupts \/ InstallHardwareIntHandler \/ ReadMask \/ WriteMask
  BY <1>4 DEF RemapAndMask, EnableInterrupts, InstallHardwareIntHandler, ReadMask, WriteMask
<1>5. CASE Flow
  BY <1>5 DEF Flow, Next
<1>6. CASE UNCHANGED all
  BY <1>6 DEF all
<1> QED
  BY <1>1, <1>2, <1>3, <1>4, <1>5, <1>6 DEF InterruptsNext

LEMMA ClockStarts == InterruptsInit => Init
BY DEF InterruptsInit

\* The kernel with its interrupts behaves as the clock, whose invariant it keeps.
LEMMA ClockInvariant == InterruptsSpec => []IInv /\ [][Next]_vars
<1>1. InterruptsInit => IInv
  BY ClockStarts, Initially
<1> QED
  BY <1>1, ClockSteps, Inductive, PTL DEF InterruptsSpec

\* A tick that waits for the main flow to enable interrupts, or for another handler to end,
\* makes no torn load worse (pit.c:20-31, cpu-int-handlers.c:172-204).
THEOREM LoadsAreNeverBehindInterrupts == InterruptsSpec => LoadsNeverLag
<1>1. IInv /\ [Next]_vars =>
        [Completes => /\ loadedAt <= got' /\ got' < Now + HalfMod
                      /\ got' <= Now \/ low < loaded]_vars
  BY CompletionIsBounded
<1> QED
  BY <1>1, ClockInvariant, PTL DEF LoadsNeverLag

\* The same for the end of Sleep (pit.c:20-23).
THEOREM SleepsLongEnoughWithInterrupts == InterruptsSpec => EarlyOnlyAcrossAWrap
<1>1. IInv /\ [Next]_vars =>
        [Returns /\ called \div HalfMod = high => Now - called >= duration]_vars
  BY ReturnIsInTime
<1> QED
  BY <1>1, ClockInvariant, PTL DEF EarlyOnlyAcrossAWrap

=============================================================================
