------------------------------ MODULE PITClock ------------------------------
(***************************************************************************)
(* The tick counter of src/kernel/source/pit.c.  TicksCount has 64 bits    *)
(* and the kernel is built for 32: PITHandler, which runs with interrupts  *)
(* disabled, changes both halves in one step, while Sleep and              *)
(* GetTicksCount64 load the low half and then the high half, and a tick    *)
(* may come between the two loads.                                         *)
(***************************************************************************)
EXTENDS Integers

CONSTANTS
    HalfMod,    \* 2^32, the values of a half of the counter
    Durations,  \* the arguments Sleep is called with
    MaxTicks    \* bound: the ticks of a behaviour

ASSUME ClockAssumption ==
    /\ HalfMod \in Nat \ {0} /\ Durations \subseteq Nat
    /\ MaxTicks \in Nat
    /\ \A n \in Durations \cup {0} : n + MaxTicks < HalfMod * HalfMod

VARIABLES
    low, high,      \* the halves of TicksCount
    pc,             \* where the main flow is: "idle", or before a load of a half
    loaded,         \* the low half it has loaded
    ticksCount,     \* the variable of Sleep: its argument, then the tick it waits for
    got,            \* the value of the last complete load
    duration,       \* Sleep's argument
    called,         \* the tick at which Sleep or GetTicksCount64 was called
    loadedAt        \* the tick of the last load of a low half

vars == <<low, high, pc, loaded, ticksCount, got, duration, called, loadedAt>>

Now == high * HalfMod + low

\* PITHandler: ++TicksCount
PITHandler ==
    /\ Now < MaxTicks
    /\ low' = (low + 1) % HalfMod
    /\ high' = IF low = HalfMod - 1 THEN (high + 1) % HalfMod ELSE high
    /\ UNCHANGED <<pc, loaded, ticksCount, got, duration, called, loadedAt>>

LoadLow ==
    /\ loaded' = low /\ loadedAt' = Now

\* What the second load completes.
Loaded_LowHalf == loaded

Loaded == high * HalfMod + loaded

-----------------------------------------------------------------------------
\* Sleep(ticksCount)

CallSleep ==
    /\ pc = "idle"
    /\ \E n \in Durations : ticksCount' = n /\ duration' = n
    /\ called' = Now /\ pc' = "start"
    /\ UNCHANGED <<low, high, loaded, got, loadedAt>>

\* ticksCount += TicksCount
StartLow ==
    /\ pc = "start" /\ LoadLow /\ pc' = "startHigh"
    /\ UNCHANGED <<low, high, ticksCount, got, duration, called>>

StartHigh ==
    /\ pc = "startHigh" /\ got' = Loaded
    /\ ticksCount' = (ticksCount + Loaded) % (HalfMod * HalfMod)
    /\ pc' = "test"
    /\ UNCHANGED <<low, high, loaded, duration, called, loadedAt>>

\* while (TicksCount < ticksCount) {}
TestLow ==
    /\ pc = "test" /\ LoadLow /\ pc' = "testHigh"
    /\ UNCHANGED <<low, high, ticksCount, got, duration, called>>

Again_LowHalves(value) == value % HalfMod < ticksCount % HalfMod

Again_NotEqual(value) == value # ticksCount

Again(value) == value < ticksCount

TestHigh ==
    /\ pc = "testHigh" /\ got' = Loaded
    /\ pc' = IF Again(Loaded) THEN "test" ELSE "idle"
    /\ UNCHANGED <<low, high, loaded, ticksCount, duration, called, loadedAt>>

-----------------------------------------------------------------------------
\* GetTicksCount64()

CallGet ==
    /\ pc = "idle" /\ LoadLow /\ called' = Now /\ pc' = "getHigh"
    /\ UNCHANGED <<low, high, ticksCount, got, duration>>

GetHigh ==
    /\ pc = "getHigh" /\ got' = Loaded /\ pc' = "idle"
    /\ UNCHANGED <<low, high, loaded, ticksCount, duration, called, loadedAt>>

Init ==
    /\ low = 0 /\ high = 0 /\ pc = "idle"
    /\ loaded = 0 /\ ticksCount = 0 /\ got = 0
    /\ duration = 0 /\ called = 0 /\ loadedAt = 0

Sleeping == StartLow \/ StartHigh \/ TestLow \/ TestHigh

Next == PITHandler \/ CallSleep \/ Sleeping \/ CallGet \/ GetHigh

\* The timer keeps ticking and the processor keeps executing.
Fairness == WF_vars(PITHandler) /\ WF_vars(Sleeping) /\ WF_vars(GetHigh)

Spec == Init /\ [][Next]_vars /\ Fairness

-----------------------------------------------------------------------------
\* Properties

\* Types of the variables.
TypeOK ==
    /\ low \in 0 .. HalfMod - 1 /\ high \in 0 .. HalfMod - 1
    /\ pc \in {"idle", "start", "startHigh", "test", "testHigh", "getHigh"}
    /\ loaded \in 0 .. HalfMod - 1
    /\ ticksCount \in 0 .. HalfMod * HalfMod - 1 /\ got \in 0 .. HalfMod * HalfMod - 1
    /\ duration \in Durations \cup {0}
    /\ called \in 0 .. MaxTicks /\ loadedAt \in 0 .. MaxTicks

Completes == pc \in {"startHigh", "testHigh", "getHigh"} /\ pc' # pc

Returns == pc = "testHigh" /\ pc' = "idle"

\* A load of the counter is never behind the tick at which it began, and is ahead of
\* the clock only when the low half wrapped between the two loads, by less than the
\* low half holds (pit.c:20-31).
LoadsNeverLag ==
    [][Completes => /\ loadedAt <= got' /\ got' < Now + HalfMod
                    /\ got' <= Now \/ low < loaded]_vars

\* Sleep returns before its ticks have passed only if the counter's high half changed
\* while it slept (pit.c:20-23).
EarlyOnlyAcrossAWrap ==
    [][Returns /\ called \div HalfMod = high => Now - called >= duration]_vars

\* Every Sleep returns once the clock has passed the tick it waits for, however the
\* ticks fall between its loads (pit.c:22).
SleepReturns ==
    (pc = "test" /\ ticksCount <= MaxTicks) ~> pc = "idle"

=============================================================================
