---------------------------- MODULE PS2CtrlProofs ----------------------------
(***************************************************************************)
(* What TLAPS proves of the start of ACPI and of the PS/2 controller after *)
(* it, for every firmware and controller that satisfies the assumptions,   *)
(* however many tables it has and pointers lie damaged among the right     *)
(* ones, any number of polls and any pace of the machine.                  *)
(***************************************************************************)
EXTENDS PS2Ctrl, WellFoundedInduction, TLAPS

-----------------------------------------------------------------------------
\* The invariant of InstallACPI

Switches == {"test", "pollA", "pollB", "enabled"}

Installing == pc = "entry" \/ pc \in Switches

Typed ==
    /\ IsFirmware(firmware)
    /\ commanded \in BOOLEAN /\ A \in BOOLEAN /\ B \in BOOLEAN
    /\ SCIEnabled \in BOOLEAN /\ result \in BOOLEAN
    /\ j \in Nat
    /\ entry \in [i : Nat, count : Nat, table : DOMAIN firmware.tables \cup {NULL}, step : {0, 4, 8}]
    /\ pc \in {"start", "entry", "returned"} \cup Switches

\* The loop reads the entries of a root table that a whole pointer gives.
Rooted ==
    Installing =>
        /\ IF pc = "entry" THEN entry.i <= entry.count ELSE entry.i < entry.count
        /\ \E n \in DOMAIN firmware.area : LET rsdp == firmware.area[n] IN
              /\ CheckRSDP(rsdp) /\ entry.table = RootOf(rsdp)
              /\ rsdp.revision = 0 => entry.step = 4 /\ entry.count = 4 * Len(Entries)

\* The one FADT has been read when SCIEnabled is set.
ReadOnce ==
    /\ SCIEnabled /\ Installing =>
          \A m \in DOMAIN Entries : Whole(firmware.tables, Entries[m], "FACP") =>
              m <= entry.i + IF pc = "entry" THEN 0 ELSE 1
    /\ pc \in Switches => SCIEnabled
    /\ pc = "start" => ~SCIEnabled

SleepRead ==
    firmware.sleep # NotRead =>
        /\ SCIEnabled => SleepTypeA = firmware.sleep
        /\ written # <<>> => written[1] = firmware.sleep

\* What is known of the registers between the polls.
Switched ==
    /\ firmware.on => A
    /\ ~SCIEnabled \/ pc = "test" => ~commanded
    /\ SCIEnabled /\ pc = "entry" => A /\ (commanded /\ fadt.pm1b => B)
    /\ pc = "pollB" => A \/ TimedOut
    /\ pc = "enabled" => TimedOut \/ (A /\ (fadt.pm1b => B))
    /\ EnabledMeansOn

\* No pointer of a later revision is whole.
Old == \A rsdp \in Range(firmware.area) : ~(rsdp.sum /\ rsdp.revision # 0)

Good(m) ==
    LET address == Entries[m] IN
    /\ Whole(firmware.tables, address, "FACP")
    /\ Whole(firmware.tables, DSDTBehind(firmware, address), "DSDT")
    /\ S5Behind(firmware, address).at = "proper"
    /\ firmware.on \/ firmware.tables[address].fadt.smi

\* A machine that describes itself as it should has its FADT ahead, or is being switched.
Promised ==
    firmware.conforming /\ Old =>
        /\ Installing /\ ~SCIEnabled => \E m \in DOMAIN Entries : m > entry.i /\ Good(m)
        /\ SCIEnabled => firmware.on \/ fadt.smi
        /\ Returned => SCIEnabled /\ (result \/ TimedOut)

ACPIInv == Typed /\ Rooted /\ ReadOnce /\ SleepRead /\ Switched /\ Promised

-----------------------------------------------------------------------------
\* The invariant of InstallPS2Ctrl

\* The state of the controller when it has done what is in its input buffer.
Told == IF in = <<>> THEN config8042
        ELSE IF in[1].data THEN (IF awaits THEN Settled(in[1].byte) ELSE config8042)
        ELSE Configured(in[1].byte)

Answered == IF in # <<>> /\ ~in[1].data /\ Reply(in[1].byte) # <<>> THEN Reply(in[1].byte) ELSE out

Awaiting == IF in = <<>> THEN awaits ELSE ~in[1].data /\ in[1].byte = "60"

\* The bits that are not the start's business.
Others == controller.config \cap {SYSTEM}

ConfigAt ==
    CASE at \in {0, 1}                   -> Settled(controller.config)
      [] at = 2                          -> Settled(controller.config) \cup {CLOCK1}
      [] at \in 3 .. 7                   -> Settled(controller.config) \cup {CLOCK1, CLOCK2}
      [] at \in {9, 10, 11} /\ controller.resets -> Settled(controller.config)
      [] at \in {16, 17, 18, 19, 20, 21} -> Others \cup {CLOCK2}
      [] OTHER                           -> Settled(Others)

OutAt ==
    CASE at = 5  -> <<ConfigAt>>
      [] at = 9  -> <<Outcome(controller.test)>>
      [] at = 14 -> <<Settled(Others)>>
      [] at = 17 -> <<Outcome(controller.test1)>>
      [] at = 19 -> <<Outcome(controller.test2)>>
      [] OTHER   -> <<>>

\* The controller is told one thing at a time, and is then as the list of steps wants it.
Following ==
    installed = "none" =>
        /\ at \in 0 .. Len(Steps)
        /\ in # <<>> => 1 \in DOMAIN in
        /\ at \in {0, 1} => in = <<>>
        /\ Told = ConfigAt /\ (Awaiting <=> at \in {7, 11})
        /\ at > 3 => Answered = OutAt
        /\ in # <<>> /\ ~in[1].data /\ Reply(in[1].byte) # <<>> => out = <<>>
        /\ at \in 6 .. 11 => config = Others
        /\ at \in 10 .. 21 => ctrlTestRes = Outcome(controller.test)
        /\ at > 12 => controller.test
        /\ singleChnl <=> at > 14 /\ ~controller.dual
        /\ at \in {15, 18, 19} => controller.dual
        /\ at > 17 => FirstPortAvailable = controller.test1
        /\ SecondPortAvailable = (at > 19 /\ controller.dual /\ controller.test2)

Started ==
    /\ installed # "none" => at = 0
    /\ installed = "FALSE" /\ touched => ~controller.test
    /\ installed = "TRUE" =>
          /\ Told = Settled(Others)
          /\ FirstPortAvailable = controller.test1
          /\ SecondPortAvailable = (controller.dual /\ controller.test2)

DeniedAlone == at # 0 \/ touched => pc = "returned" /\ ~Absent

CtrlInv ==
    /\ controller \in Controllers /\ installed \in {"none", "TRUE", "FALSE"}
    /\ DeniedAlone
    /\ Calm => keys \in Nat /\ Following /\ Started

-----------------------------------------------------------------------------
\* The search for the pointer

LEMMA MinOfNumbers ==
    ASSUME NEW S \in SUBSET Nat, S # {}
    PROVE  Min(S) \in S
<1>1. PICK x \in S : \A y \in S : <<y, x>> \notin OpToRel(<, Nat)
  <2>1. S \subseteq Nat
    OBVIOUS
  <2> QED
    BY <2>1, NatLessThanWellFounded, WFMin
<1>2. \A y \in S : x <= y
  <2> TAKE y \in S
  <2>1. ~(y < x)
    BY <1>1 DEF OpToRel
  <2> QED
    BY <2>1
<1> QED
  BY <1>2 DEF Min

\* The pointer that is found is whole, and one is found when there is one.
LEMMA WholePointerFound ==
    ASSUME Typed
    PROVE  LET k == SelectInSeq(firmware.area, CheckRSDP) IN
           IF \E n \in DOMAIN firmware.area : CheckRSDP(firmware.area[n])
           THEN k # 0 /\ k \in DOMAIN firmware.area /\ CheckRSDP(firmware.area[k])
           ELSE k = 0
<1> DEFINE area == firmware.area
           I == {n \in 1 .. Len(area) : CheckRSDP(area[n])}
<1>1. area \in Seq(Range(area))
  BY DEF Typed, IsFirmware, Typical
<1>2. DOMAIN area = 1 .. Len(area) /\ Len(area) \in Nat
  BY <1>1
<1>3. SelectInSeq(area, CheckRSDP) = IF I # {} THEN Min(I) ELSE 0
  BY DEF SelectInSeq
<1>4. I \subseteq Nat \ {0}
  BY <1>2
<1>5. I # {} => Min(I) \in I /\ Min(I) # 0
  <2> HIDE DEF I
  <2> QED
    BY <1>4, MinOfNumbers
<1> QED
  BY <1>2, <1>3, <1>5

-----------------------------------------------------------------------------
\* The steps of ACPI

LEMMA ACPIInitially ==
    ASSUME NEW f, IsFirmware(f), ACPIInit(f)
    PROVE  ACPIInv
<1>1. Typed
  BY DEF ACPIInit, Typed, IsFirmware, Typical
<1>2. Rooted /\ ReadOnce /\ SleepRead
  BY DEF ACPIInit, Rooted, ReadOnce, SleepRead, Installing, Switches
<1>3. Switched /\ Promised
  BY DEF ACPIInit, Switched, Promised, EnabledMeansOn, Installing, Switches, Returned, TimedOut
<1> QED
  BY <1>1, <1>2, <1>3 DEF ACPIInv

LEMMA FindRootKeeps == ASSUME ACPIInv, FindRoot PROVE ACPIInv'
<1> DEFINE k == SelectInSeq(firmware.area, CheckRSDP)
           rsdp == firmware.area[k]
           table == RootOf(rsdp)
<1>1. /\ Typed /\ SleepRead /\ Switched /\ ReadOnce /\ Promised /\ pc = "start"
      /\ UNCHANGED <<firmware, commanded, A, B, written, SCIEnabled, fadt, SleepTypeA, j>>
  BY DEF ACPIInv, FindRoot, machine
<1>2. \/ pc' = "returned" /\ result' = FALSE /\ entry' = entry
         /\ (k = 0 \/ ~CheckSDT(table, IF Short(rsdp) THEN "RSDT" ELSE "XSDT"))
      \/ /\ pc' = "entry" /\ result' = result /\ k # 0
         /\ \E count \in Counts(rsdp.revision, table) :
               entry' = [i |-> 0, count |-> count, table |-> table,
                         step |-> IF Short(rsdp) THEN 4 ELSE 8]
  BY DEF FindRoot, Return
<1>3. IF \E n \in DOMAIN firmware.area : CheckRSDP(firmware.area[n])
      THEN k # 0 /\ k \in DOMAIN firmware.area /\ CheckRSDP(rsdp)
      ELSE k = 0
  BY <1>1, WholePointerFound
<1>4. ASSUME k # 0
      PROVE  /\ table \in DOMAIN firmware.tables
             /\ Len(firmware.tables[table].entries) \in Nat
             /\ DOMAIN firmware.tables[table].entries = 1 .. Len(firmware.tables[table].entries)
             /\ firmware.conforming /\ Old => rsdp.revision = 0
  <2>1. table \in DOMAIN firmware.tables
    BY <1>1, <1>3, <1>4 DEF Typed, IsFirmware, Typical, Genuine, CheckRSDP
  <2>2. firmware.tables[table].entries \in Seq(DOMAIN firmware.tables)
    BY <1>1, <2>1 DEF Typed, IsFirmware, Typical
  <2>3. Old => rsdp.revision = 0
    BY <1>3, <1>4 DEF Old, CheckRSDP, Range
  <2> QED
    BY <2>1, <2>2, <2>3
<1> HIDE DEF k
<1>5. CASE pc' = "returned"
  <2>1. Typed'
    BY <1>1, <1>2, <1>5 DEF Typed
  <2>2. Rooted' /\ ReadOnce' /\ SleepRead'
    BY <1>1, <1>5 DEF Rooted, ReadOnce, SleepRead, Installing, Switches
  <2>3. Switched'
    BY <1>1, <1>2, <1>5 DEF Switched, EnabledMeansOn, Returned
  <2>4. ~(firmware.conforming /\ Old)
    <3> SUFFICES ASSUME firmware.conforming, Old PROVE FALSE
      OBVIOUS
    <3>1. Conforming(firmware)
      BY <1>1 DEF Typed, IsFirmware
    <3>2. k # 0 /\ k \in DOMAIN firmware.area /\ CheckRSDP(rsdp)
      BY <1>3, <3>1 DEF Conforming, Genuine, CheckRSDP
    <3>3. rsdp.revision = 0
      BY <1>4, <3>2
    <3>4. Short(rsdp) /\ table = rsdp.rsdt
      BY <3>3 DEF Short, RootOf
    <3>5. Whole(firmware.tables, table, "RSDT")
      BY <3>1, <3>2, <3>3, <3>4 DEF Conforming, Genuine, CheckRSDP
    <3> QED
      BY <1>2, <1>5, <3>2, <3>4, <3>5 DEF CheckSDT
  <2>5. Promised'
    BY <1>1, <2>4 DEF Promised, Old
  <2> QED
    BY <2>1, <2>2, <2>3, <2>5 DEF ACPIInv
<1>6. CASE pc' = "entry"
  <2>1. PICK count \in Counts(rsdp.revision, table) :
           entry' = [i |-> 0, count |-> count, table |-> table,
                     step |-> IF Short(rsdp) THEN 4 ELSE 8]
    BY <1>2, <1>6
  <2>2. k # 0 /\ k \in DOMAIN firmware.area /\ CheckRSDP(rsdp) /\ result' = result
    BY <1>2, <1>3, <1>6
  <2>3. count \in Nat /\ (rsdp.revision = 0 => count = 4 * Len(firmware.tables[table].entries))
    BY <1>4, <2>2, ACPIAssumption DEF Counts
  <2>4. /\ entry'.i = 0 /\ entry'.count = count /\ entry'.table = table
        /\ rsdp.revision = 0 => entry'.step = 4
        /\ entry' \in [i : Nat, count : Nat, table : DOMAIN firmware.tables \cup {NULL}, step : {0, 4, 8}]
    BY <1>4, <2>1, <2>2, <2>3 DEF Short
  <2>5. Entries' = firmware.tables[table].entries
    BY <1>1, <2>4 DEF Entries
  <2>6. Typed'
    BY <1>1, <1>6, <2>2, <2>3, <2>4 DEF Typed
  <2>7. Rooted'
    BY <1>1, <1>6, <2>2, <2>3, <2>4, <2>5 DEF Rooted
  <2>8. ~SCIEnabled
    BY <1>1 DEF ReadOnce
  <2>9. ReadOnce' /\ SleepRead' /\ Switched'
    BY <1>1, <1>6, <2>8 DEF ReadOnce, SleepRead, Switched, EnabledMeansOn, Returned, Switches
  <2>10. Promised'
    <3> SUFFICES ASSUME firmware.conforming, Old PROVE Promised'
      BY <1>1 DEF Promised, Old
    <3>1. Conforming(firmware) /\ rsdp.revision = 0 /\ table = rsdp.rsdt
      BY <1>1, <1>4, <2>2 DEF Typed, IsFirmware, RootOf, Short
    <3> DEFINE e == firmware.tables[table].entries
    <3>2. \E m \in DOMAIN e :
             /\ Whole(firmware.tables, e[m], "FACP")
             /\ Whole(firmware.tables, DSDTBehind(firmware, e[m]), "DSDT")
             /\ S5Behind(firmware, e[m]).at = "proper"
             /\ firmware.on \/ firmware.tables[e[m]].fadt.smi
      BY <2>2, <3>1 DEF Conforming, Genuine, CheckRSDP
    <3>3. \A m \in DOMAIN e : m > 0
      BY <1>4, <2>2
    <3>4. firmware' = firmware /\ entry'.i = 0 /\ Entries' = e
      BY <1>1, <2>4, <2>5
    <3> HIDE DEF e
    <3>5. \E m \in DOMAIN Entries' : m > entry'.i /\ Good(m)'
      BY <3>2, <3>3, <3>4 DEF Good
    <3> QED
      BY <1>1, <1>6, <2>8, <3>5 DEF Promised, Returned
  <2> QED
    BY <2>6, <2>7, <2>9, <2>10 DEF ACPIInv
<1> QED
  BY <1>2, <1>5, <1>6

\* What holds of the tables in the loop.
LEMMA InLoop ==
    ASSUME ACPIInv, Installing
    PROVE  /\ entry.table \in DOMAIN firmware.tables
           /\ Entries \in Seq(DOMAIN firmware.tables) /\ Len(Entries) \in Nat
           /\ DOMAIN Entries = 1 .. Len(Entries)
           /\ \A m, n \in DOMAIN Entries :
                 Whole(firmware.tables, Entries[m], "FACP") /\ Whole(firmware.tables, Entries[n], "FACP")
                 => m = n
<1>1. Typical(firmware)
  BY DEF ACPIInv, Typed, IsFirmware
<1>2. entry.table \in DOMAIN firmware.tables
  BY <1>1 DEF ACPIInv, Rooted, Typical, Genuine, CheckRSDP
<1>3. Entries \in Seq(DOMAIN firmware.tables)
  BY <1>1, <1>2 DEF Typical, Entries
<1>4. \A m, n \in DOMAIN Entries :
         Whole(firmware.tables, Entries[m], "FACP") /\ Whole(firmware.tables, Entries[n], "FACP") => m = n
  BY <1>1, <1>2 DEF Typical, Entries
<1>5. Len(Entries) \in Nat /\ DOMAIN Entries = 1 .. Len(Entries)
  BY <1>3
<1> QED
  BY <1>2, <1>3, <1>4, <1>5

\* An entry that is taken for the FADT is one.
LEMMA FADTDesignated ==
    ASSUME ACPIInv, pc = "entry", IsFADT
    PROVE  /\ entry.i + 1 \in DOMAIN Entries /\ Designated = Entries[entry.i + 1]
           /\ Whole(firmware.tables, Designated, "FACP")
<1>1. Whole(firmware.tables, Designated, "FACP")
  BY DEF IsFADT, CheckSDT
<1>2. Designated # NULL
  BY <1>1 DEF ACPIInv, Typed, IsFirmware, Typical
<1>3. entry.i < Len(Entries) /\ Designated = Entries[entry.i + 1]
  BY <1>2 DEF Designated
<1>4. entry.i \in Nat /\ Len(Entries) \in Nat /\ DOMAIN Entries = 1 .. Len(Entries)
  BY InLoop DEF ACPIInv, Typed, Installing
<1> QED
  BY <1>1, <1>3, <1>4

\* The loop goes on when the entry was not the FADT, or has been dealt with.
LEMMA NextEntryKeeps ==
    ASSUME ACPIInv, NextEntry, Installing, entry.i < entry.count,
           UNCHANGED <<firmware, A, B, written, SCIEnabled, SleepTypeA, commanded>>, j' \in Nat,
           fadt'.pm1b = fadt.pm1b /\ fadt'.smi = fadt.smi,
           firmware.conforming /\ Old /\ ~SCIEnabled =>
               entry.i + 1 \notin DOMAIN Entries \/ ~Good(entry.i + 1),
           SCIEnabled => A /\ (commanded /\ fadt.pm1b => B)
    PROVE  ACPIInv'
<1> DEFINE i == entry.i
<1>1. /\ Typed /\ Rooted /\ ReadOnce /\ SleepRead /\ Switched /\ Promised
      /\ pc' = "entry" /\ entry' = [entry EXCEPT !.i = @ + 1] /\ result' = result
  BY DEF ACPIInv, NextEntry
<1>2. /\ i \in Nat /\ entry.count \in Nat /\ Installing'
      /\ UNCHANGED <<entry.count, entry.table, entry.step>> /\ entry'.i = i + 1
  BY <1>1 DEF Typed, Installing
<1>3. Entries' = Entries
  BY <1>2 DEF Entries
<1>4. Typed'
  <2>1. entry' \in [i : Nat, count : Nat, table : DOMAIN firmware.tables \cup {NULL}, step : {0, 4, 8}]
    BY <1>1, <1>2 DEF Typed
  <2> QED
    BY <1>1, <2>1 DEF Typed
<1>5. Rooted'
  <2>1. entry'.i <= entry'.count
    BY <1>2
  <2> QED
    BY <1>1, <1>2, <1>3, <2>1 DEF Rooted
<1>6. ReadOnce'
  <2>1. \A m \in DOMAIN Entries : m \in Nat /\ (m <= i => m <= i + 1)
    BY <1>2, InLoop
  <2> QED
    BY <1>1, <1>2, <1>3, <2>1 DEF ReadOnce, Switches
<1>7. SleepRead'
  BY <1>1 DEF SleepRead
<1>8. Switched'
  BY <1>1 DEF Switched, EnabledMeansOn, Returned
<1>9. Promised'
  <2> SUFFICES ASSUME firmware.conforming, Old, ~SCIEnabled
               PROVE  \E m \in DOMAIN Entries : m > i + 1 /\ Good(m)
    BY <1>1, <1>2, <1>3 DEF Promised, Old, Good, Returned
  <2>1. PICK m \in DOMAIN Entries : m > i /\ Good(m)
    BY <1>1 DEF Promised
  <2>2. m # i + 1 /\ m \in Nat
    BY <2>1, InLoop
  <2>3. m > i + 1
    BY <1>2, <2>1, <2>2
  <2> QED
    BY <2>1, <2>3
<1> QED
  BY <1>4, <1>5, <1>6, <1>7, <1>8, <1>9 DEF ACPIInv

\* An entry that is taken for nothing but an FADT is not a good one.
LEMMA SkipEntryKeeps == ASSUME ACPIInv, SkipEntry PROVE ACPIInv'
<1>1. /\ Rooted /\ Switched /\ Promised /\ Typed
      /\ pc = "entry" /\ Installing /\ entry.i < entry.count /\ ~IsFADT /\ NextEntry
      /\ UNCHANGED <<firmware, commanded, A, B, written, SCIEnabled, fadt, SleepTypeA, j>>
  BY DEF ACPIInv, SkipEntry, machine, Installing
<1>2. SCIEnabled => A /\ (commanded /\ fadt.pm1b => B)
  BY <1>1 DEF Switched
<1>3. ASSUME firmware.conforming, Old, entry.i + 1 \in DOMAIN Entries
      PROVE  ~Good(entry.i + 1)
  <2>1. entry.step # 8
    <3>1. PICK n \in DOMAIN firmware.area :
             /\ CheckRSDP(firmware.area[n])
             /\ firmware.area[n].revision = 0 => entry.step = 4
      BY <1>1 DEF Rooted
    <3> QED
      BY <1>3, <3>1 DEF Old, CheckRSDP, Range
  <2>2. entry.i \in Nat /\ Len(Entries) \in Nat /\ DOMAIN Entries = 1 .. Len(Entries)
    BY <1>1, InLoop DEF Typed
  <2>3. Designated = Entries[entry.i + 1]
    BY <1>3, <2>2 DEF Designated
  <2> QED
    BY <1>1, <2>1, <2>3 DEF IsFADT, CheckSDT, Good
<1> QED
  BY <1>1, <1>2, <1>3, NextEntryKeeps DEF Typed

LEMMA EndEntriesKeeps == ASSUME ACPIInv, EndEntries PROVE ACPIInv'
<1>1. /\ Typed /\ Rooted /\ ReadOnce /\ SleepRead /\ Switched /\ Promised
      /\ pc = "entry" /\ Installing /\ entry.i = entry.count /\ pc' = "returned" /\ result' = TRUE
      /\ UNCHANGED <<firmware, commanded, A, B, written, SCIEnabled, fadt, SleepTypeA, entry, j>>
  BY DEF ACPIInv, EndEntries, Return, machine, driver, Installing
<1>2. Typed'
  BY <1>1 DEF Typed
<1>3. Rooted' /\ ReadOnce' /\ SleepRead'
  BY <1>1 DEF Rooted, ReadOnce, SleepRead, Installing, Switches
<1>4. Switched'
  BY <1>1 DEF Switched, EnabledMeansOn, Returned
<1>5. ASSUME firmware.conforming, Old, ~SCIEnabled PROVE FALSE
  <2>1. PICK m \in DOMAIN Entries : m > entry.i
    BY <1>1, <1>5 DEF Promised
  <2>2. PICK n \in DOMAIN firmware.area :
           /\ CheckRSDP(firmware.area[n])
           /\ firmware.area[n].revision = 0 => entry.count = 4 * Len(Entries)
    BY <1>1 DEF Rooted
  <2>3. entry.count = 4 * Len(Entries)
    BY <1>5, <2>2 DEF Old, CheckRSDP, Range
  <2>4. m <= Len(Entries) /\ Len(Entries) \in Nat /\ m \in Nat
    BY InLoop, <1>1
  <2> QED
    BY <1>1, <2>1, <2>3, <2>4
<1>6. Promised'
  BY <1>1, <1>5 DEF Promised, Old, Returned, Installing, Switches
<1> QED
  BY <1>2, <1>3, <1>4, <1>6 DEF ACPIInv

\* The FADT that is read leads to the machine's own \_S5_, or the loop goes on after it.
LEMMA ReadFADTKeeps == ASSUME ACPIInv, ReadFADT PROVE ACPIInv'
<1> DEFINE table == firmware.tables[Designated].fadt
           dsdt == DSDT(table)
           s5 == firmware.tables[dsdt].s5
           i == entry.i
<1>1. /\ Typed /\ Rooted /\ ReadOnce /\ SleepRead /\ Switched /\ Promised
      /\ pc = "entry" /\ Installing /\ IsFADT /\ i < entry.count
      /\ UNCHANGED <<firmware, commanded, A, B, written, j>>
  BY DEF ACPIInv, ReadFADT, machine, Installing
<1>2. /\ i \in Nat /\ i + 1 \in DOMAIN Entries /\ Designated = Entries[i + 1]
      /\ Whole(firmware.tables, Entries[i + 1], "FACP")
  BY <1>1, FADTDesignated DEF Typed
<1>3. dsdt = DSDTBehind(firmware, Entries[i + 1]) /\ s5 = S5Behind(firmware, Entries[i + 1])
  BY <1>2 DEF DSDTBehind, S5Behind
<1>4. ~SCIEnabled
  BY <1>1, <1>2 DEF ReadOnce
<1>5. \A m \in DOMAIN Entries : Whole(firmware.tables, Entries[m], "FACP") => m = i + 1
  BY <1>1, <1>2, InLoop
<1>6. firmware.conforming /\ Old => Good(i + 1)
  <2> SUFFICES ASSUME firmware.conforming, Old PROVE Good(i + 1)
    OBVIOUS
  <2>1. PICK m \in DOMAIN Entries : Good(m)
    BY <1>1, <1>4 DEF Promised
  <2>2. m = i + 1
    BY <1>5, <2>1 DEF Good
  <2> QED
    BY <2>1, <2>2
<1>7. \/ /\ ~CheckSDT(dsdt, "DSDT") \/ s5.at = "last"
         /\ fadt' = [fadt EXCEPT !.major = table.major] /\ pc' = "returned" /\ result' = FALSE
         /\ UNCHANGED <<SCIEnabled, SleepTypeA, entry>>
      \/ /\ CheckSDT(dsdt, "DSDT") /\ s5.at # "last" /\ TRUE \in ProperS5(s5.at)
         /\ fadt' = table /\ SCIEnabled' = TRUE /\ pc' = "test" /\ UNCHANGED <<entry, result>>
         /\ SleepTypeA' = IF s5.at = "nowhere" THEN NotRead ELSE s5.type
      \/ /\ FALSE \in ProperS5(s5.at)
         /\ fadt' = [fadt EXCEPT !.major = table.major] /\ NextEntry
         /\ UNCHANGED <<SCIEnabled, SleepTypeA>>
  <2>1. IF ~CheckSDT(dsdt, "DSDT") \/ s5.at = "last"
        THEN /\ fadt' = [fadt EXCEPT !.major = table.major]
             /\ Return(FALSE) /\ UNCHANGED <<SCIEnabled, SleepTypeA, entry>>
        ELSE \E proper \in ProperS5(s5.at) :
             IF proper
             THEN /\ fadt' = table /\ SCIEnabled' = TRUE
                  /\ SleepTypeA' = IF s5.at = "nowhere" THEN NotRead ELSE s5.type
                  /\ pc' = "test" /\ UNCHANGED <<entry, result>>
             ELSE /\ fadt' = [fadt EXCEPT !.major = table.major]
                  /\ NextEntry /\ UNCHANGED <<SCIEnabled, SleepTypeA>>
    BY DEF ReadFADT
  <2>2. ProperS5(s5.at) \subseteq BOOLEAN
    BY DEF ProperS5
  <2> HIDE DEF table, dsdt, s5
  <2> QED
    BY <2>1, <2>2 DEF Return
<1> HIDE DEF table, dsdt, s5
<1>8. CASE pc' = "returned"
  <2>1. (~CheckSDT(dsdt, "DSDT") \/ s5.at = "last") /\ UNCHANGED <<SCIEnabled, SleepTypeA, entry>>
        /\ result' = FALSE
    BY <1>7, <1>8 DEF NextEntry
  <2>2. ~(firmware.conforming /\ Old)
    BY <1>3, <1>6, <2>1 DEF Good, CheckSDT
  <2>3. Typed'
    BY <1>1, <1>8, <2>1 DEF Typed
  <2>4. Rooted' /\ ReadOnce' /\ SleepRead'
    BY <1>1, <1>8, <2>1 DEF Rooted, ReadOnce, SleepRead, Installing, Switches
  <2>5. Switched' /\ Promised'
    BY <1>1, <1>4, <1>8, <2>1, <2>2 DEF Switched, EnabledMeansOn, Returned, Promised, Old
  <2> QED
    BY <2>3, <2>4, <2>5 DEF ACPIInv
<1>9. CASE pc' = "test"
  <2>1. /\ CheckSDT(dsdt, "DSDT") /\ TRUE \in ProperS5(s5.at)
        /\ fadt' = table /\ SCIEnabled' = TRUE /\ UNCHANGED <<entry, result>>
        /\ SleepTypeA' = IF s5.at = "nowhere" THEN NotRead ELSE s5.type
    BY <1>7, <1>9 DEF NextEntry
  <2>2. Entries' = Entries
    BY <1>1, <2>1 DEF Entries
  <2>3. Typed'
    BY <1>1, <1>9, <2>1 DEF Typed, Switches
  <2>4. Rooted'
    BY <1>1, <1>9, <2>1, <2>2 DEF Rooted
  <2>5. ReadOnce'
    <3>1. \A m \in DOMAIN Entries : m \in Nat
      BY <1>1, InLoop
    <3> QED
      BY <1>1, <1>2, <1>5, <1>9, <2>1, <2>2, <3>1 DEF ReadOnce, Switches
  <2>6. firmware.sleep # NotRead => SleepTypeA' = firmware.sleep
    <3> SUFFICES ASSUME firmware.sleep # NotRead PROVE SleepTypeA' = firmware.sleep
      OBVIOUS
    <3>1. Sleeps(firmware)
      BY <1>1 DEF Typed, IsFirmware
    <3>2. PICK n \in DOMAIN firmware.area :
             CheckRSDP(firmware.area[n]) /\ entry.table = RootOf(firmware.area[n])
      BY <1>1 DEF Rooted
    <3>3. Whole(firmware.tables, dsdt, "DSDT")
      BY <2>1 DEF CheckSDT
    <3>4. s5.at # "nowhere" /\ (s5.at = "proper" => s5.type = firmware.sleep)
      BY <1>2, <1>3, <3>1, <3>2, <3>3 DEF Sleeps, Entries, Genuine, CheckRSDP
    <3> QED
      BY <2>1, <3>4 DEF ProperS5
  <2>7. SleepRead'
    BY <1>1, <2>6 DEF SleepRead
  <2>8. Switched'
    BY <1>1, <1>4, <1>9 DEF Switched, EnabledMeansOn, Returned
  <2>9. firmware.conforming /\ Old => firmware.on \/ fadt'.smi
    BY <1>2, <1>6, <2>1 DEF Good, table
  <2>10. Promised'
    BY <1>1, <1>9, <2>1, <2>9 DEF Promised, Old, Returned
  <2> QED
    BY <2>3, <2>4, <2>5, <2>7, <2>8, <2>10 DEF ACPIInv
<1>10. CASE pc' = "entry"
  <2>1. /\ FALSE \in ProperS5(s5.at) /\ NextEntry /\ UNCHANGED <<SCIEnabled, SleepTypeA>>
        /\ fadt' = [fadt EXCEPT !.major = table.major]
    BY <1>7, <1>10
  <2>2. fadt'.pm1b = fadt.pm1b /\ fadt'.smi = fadt.smi
    BY <2>1
  <2>3. ~(firmware.conforming /\ Old)
    BY <1>3, <1>6, <2>1 DEF Good, ProperS5
  <2> QED
    BY <1>1, <1>4, <2>1, <2>2, <2>3, NextEntryKeeps DEF Typed
<1> QED
  BY <1>7, <1>8, <1>9, <1>10 DEF NextEntry

-----------------------------------------------------------------------------
\* The switch

\* A step that moves between the polls.
LEMMA SwitchKeeps ==
    ASSUME ACPIInv, pc \in Switches, pc' \in Switches, Switched', j' \in Nat, commanded' \in BOOLEAN,
           UNCHANGED <<firmware, A, B, written, SCIEnabled, fadt, SleepTypeA, entry, result>>
    PROVE  ACPIInv'
<1>1. Typed'
  BY DEF ACPIInv, Typed
<1>2. Entries' = Entries /\ Installing /\ Installing' /\ pc # "entry" /\ pc' # "entry"
  BY DEF Entries, Installing, Switches
<1>3. Rooted' /\ ReadOnce'
  BY <1>2 DEF ACPIInv, Rooted, ReadOnce, Switches
<1>4. SleepRead'
  BY DEF ACPIInv, SleepRead
<1>5. Promised'
  BY DEF ACPIInv, Promised, ReadOnce, Old, Returned, Switches
<1> QED
  BY <1>1, <1>3, <1>4, <1>5 DEF ACPIInv

\* A call that returns from the switch has been told to, and was not able to.
LEMMA SwitchFails ==
    ASSUME ACPIInv, pc \in Switches, pc' = "returned", result' = FALSE,
           UNCHANGED <<machine, driver>>,
           firmware.conforming /\ Old => TimedOut
    PROVE  ACPIInv'
<1>1. Typed'
  BY DEF ACPIInv, Typed, machine, driver
<1>2. Rooted' /\ ReadOnce' /\ SleepRead' /\ SCIEnabled
  BY DEF ACPIInv, Rooted, ReadOnce, SleepRead, Installing, Switches, machine, driver
<1>3. Switched'
  BY DEF ACPIInv, Switched, EnabledMeansOn, Returned, machine, driver
<1>4. Promised'
  BY <1>2 DEF ACPIInv, Promised, Old, Returned, Installing, Switches, TimedOut, machine, driver
<1> QED
  BY <1>1, <1>2, <1>3, <1>4 DEF ACPIInv

LEMMA EnableKeeps == ASSUME ACPIInv, Enable PROVE ACPIInv'
<1>1. /\ Typed /\ Rooted /\ ReadOnce /\ Switched /\ Promised /\ pc = "test" /\ pc \in Switches
      /\ UNCHANGED <<firmware, A, B, written, SCIEnabled, fadt, SleepTypeA>>
  BY DEF ACPIInv, Enable, Switches
<1>2. SCIEnabled /\ ~commanded /\ Installing /\ entry.i < entry.count
  BY <1>1 DEF ReadOnce, Switched, Rooted, Installing
<1>3. CASE A
  <2>1. NextEntry /\ UNCHANGED <<commanded, j>>
    BY <1>3 DEF Enable
  <2> QED
    BY <1>1, <1>2, <1>3, <2>1, NextEntryKeeps DEF Typed
<1>4. CASE ~A /\ fadt.smi
  <2>1. commanded' = TRUE /\ j' = 0 /\ pc' = "pollA" /\ UNCHANGED <<entry, result>>
    BY <1>4 DEF Enable
  <2>2. Switched'
    BY <1>1, <1>2, <2>1 DEF Switched, EnabledMeansOn, Returned
  <2> QED
    BY <1>1, <2>1, <2>2, SwitchKeeps DEF Switches
<1>5. CASE ~A /\ ~fadt.smi
  <2>1. pc' = "returned" /\ result' = FALSE /\ UNCHANGED <<commanded, j, entry>>
    BY <1>5 DEF Enable, Return
  <2>2. ~(firmware.conforming /\ Old)
    BY <1>1, <1>2, <1>5 DEF Promised, Switched
  <2> QED
    BY <1>1, <2>1, <2>2, SwitchFails DEF machine, driver
<1> QED
  BY <1>3, <1>4, <1>5

LEMMA PollKeeps == ASSUME ACPIInv, PollA \/ PollB PROVE ACPIInv'
<1>1. /\ Typed /\ ReadOnce /\ Switched /\ pc \in {"pollA", "pollB"} /\ pc \in Switches
      /\ UNCHANGED <<machine, SCIEnabled, fadt, SleepTypeA, entry, result>>
  BY DEF ACPIInv, PollA, PollB, Switches
<1>2. SCIEnabled /\ j \in Nat /\ Polls \in Nat
  BY <1>1, ACPIAssumption DEF ReadOnce, Typed
<1>3. j' \in Nat
  <2>1. j' = j + 1 \/ j' = j
    BY DEF PollA, PollB
  <2> QED
    BY <1>2, <2>1
<1>4. Switched' /\ pc' \in Switches
  <2>1. CASE PollA /\ j < Polls /\ ~A
    BY <1>1, <1>2, <2>1 DEF PollA, Switched, EnabledMeansOn, Returned, Switches, machine
  <2>2. CASE PollA /\ ~(j < Polls /\ ~A)
    <3>1. A \/ j >= Polls
      BY <1>2, <2>2
    <3> QED
      BY <1>1, <1>2, <2>2, <3>1
      DEF PollA, Switched, EnabledMeansOn, Returned, Switches, machine, TimedOut
  <2>3. CASE PollB /\ j < Polls /\ ~B
    <3>1. A
      BY <1>1, <1>2, <2>3 DEF PollB, Switched, TimedOut
    <3> QED
      BY <1>1, <1>2, <2>3, <3>1 DEF PollB, Switched, EnabledMeansOn, Returned, Switches, machine
  <2>4. CASE PollB /\ ~(j < Polls /\ ~B)
    <3>1. B \/ j >= Polls
      BY <1>2, <2>4
    <3> QED
      BY <1>1, <1>2, <2>4, <3>1
      DEF PollB, Switched, EnabledMeansOn, Returned, Switches, machine, TimedOut
  <2> QED
    BY <2>1, <2>2, <2>3, <2>4
<1> QED
  BY <1>1, <1>3, <1>4, SwitchKeeps DEF machine, Typed

LEMMA EnabledKeeps == ASSUME ACPIInv, Enabled PROVE ACPIInv'
<1>1. /\ Typed /\ Rooted /\ ReadOnce /\ Switched /\ pc = "enabled" /\ pc \in Switches
      /\ UNCHANGED <<machine, SCIEnabled, fadt, SleepTypeA, j>>
  BY DEF ACPIInv, Enabled, Switches
<1>2. SCIEnabled /\ Installing /\ entry.i < entry.count
  BY <1>1 DEF ReadOnce, Rooted, Installing
<1>3. CASE TimedOut
  BY <1>1, <1>3, SwitchFails DEF Enabled, Return, driver
<1>4. CASE ~TimedOut
  BY <1>1, <1>2, <1>4, NextEntryKeeps DEF Enabled, Switched, machine, Typed
<1> QED
  BY <1>3, <1>4

\* The machine's registers change to ACPI mode, and never back.
LEMMA MachineKeeps == ASSUME ACPIInv, SwitchA \/ SwitchB PROVE ACPIInv'
<1>1. /\ Typed /\ Switched
      /\ UNCHANGED <<firmware, commanded, written, driver, pc, result>>
      /\ (A => A') /\ (B => B') /\ A' \in BOOLEAN /\ B' \in BOOLEAN
  BY DEF ACPIInv, SwitchA, SwitchB, Typed
<1>2. Typed'
  BY <1>1 DEF Typed, driver
<1>3. Entries' = Entries /\ (Installing' <=> Installing)
  BY <1>1 DEF Entries, Installing, driver
<1>4. Rooted' /\ ReadOnce' /\ SleepRead'
  BY <1>1, <1>3 DEF ACPIInv, Rooted, ReadOnce, SleepRead, driver
<1>5. Switched'
  BY <1>1 DEF Switched, EnabledMeansOn, Returned, TimedOut, driver
<1>6. Promised'
  BY <1>1, <1>3 DEF ACPIInv, Promised, Old, Good, Returned, TimedOut, driver
<1> QED
  BY <1>2, <1>4, <1>5, <1>6 DEF ACPIInv

LEMMA PowerOffKeeps == ASSUME ACPIInv, ACPIPowerOff PROVE ACPIInv'
<1>1. /\ SCIEnabled /\ SleepRead
      /\ written' = <<SleepTypeA>> \o (IF fadt.pm1b THEN <<0>> ELSE <<>>)
      /\ UNCHANGED <<firmware, commanded, A, B, driver, pc, result>>
  BY DEF ACPIInv, ACPIPowerOff
<1>2. written'[1] = SleepTypeA
  BY <1>1
<1>3. SleepRead'
  BY <1>1, <1>2 DEF SleepRead, driver
<1>4. Typed' /\ Entries' = Entries /\ (Installing' <=> Installing)
  BY <1>1 DEF ACPIInv, Typed, Entries, Installing, driver
<1>5. Rooted' /\ ReadOnce'
  BY <1>1, <1>4 DEF ACPIInv, Rooted, ReadOnce, driver
<1>6. Switched' /\ Promised'
  BY <1>1, <1>4
  DEF ACPIInv, Switched, EnabledMeansOn, Promised, Old, Good, Returned, TimedOut, driver
<1> QED
  BY <1>3, <1>4, <1>5, <1>6 DEF ACPIInv

LEMMA ACPIStep == ACPIInv /\ ACPINext => ACPIInv'
BY FindRootKeeps, SkipEntryKeeps, EndEntriesKeeps, ReadFADTKeeps, EnableKeeps, PollKeeps,
   EnabledKeeps, MachineKeeps, PowerOffKeeps
DEF ACPINext, InstallACPI

LEMMA ACPIStays == ASSUME ACPIInv, UNCHANGED acpi PROVE ACPIInv'
<1>1. Typed' /\ Entries' = Entries /\ (Installing' <=> Installing)
  BY DEF ACPIInv, Typed, Entries, Installing, acpi, machine, driver
<1>2. Rooted' /\ ReadOnce' /\ SleepRead'
  BY <1>1 DEF ACPIInv, Rooted, ReadOnce, SleepRead, acpi, machine, driver
<1>3. Switched' /\ Promised'
  BY <1>1
  DEF ACPIInv, Switched, EnabledMeansOn, Promised, Old, Good, Returned, TimedOut, acpi, machine, driver
<1> QED
  BY <1>1, <1>2, <1>3 DEF ACPIInv

-----------------------------------------------------------------------------
\* ACPI in the start of the kernel

\* Nothing that the second start, the controller or the keyboard does changes ACPI.
LEMMA OthersLeaveACPI ==
    ASSUME InstallPS2Ctrl \/ Process \/ Key
    PROVE  UNCHANGED acpi
BY DEF InstallPS2Ctrl, CallInstall, FailTest, SendCommand, SendData, Flush, Read, Process, Key

LEMMA ACPIInvAlways == Spec => []ACPIInv
<1>1. Init => ACPIInv
  BY ComputersAssumption, ACPIInitially DEF Init
<1>2. ACPIInv /\ [Next]_vars => ACPIInv'
  <2> SUFFICES ASSUME ACPIInv, [Next]_vars PROVE ACPIInv'
    OBVIOUS
  <2>1. ACPINext \/ UNCHANGED acpi
    BY OthersLeaveACPI DEF Next, vars
  <2> QED
    BY <2>1, ACPIStep, ACPIStays
<1> QED
  BY <1>1, <1>2, PTL DEF Spec

\* However many whole but outdated or damaged tables there are, power off writes the sleep
\* type of the machine's own \_S5_, and a machine that describes itself as it should is
\* switched, unless it takes too long (acpi.c:17-54, 70-98, 113-135, 176-184).
THEOREM RightSleepType == Spec => []PowerOffIsRight
<1>1. ACPIInv => PowerOffIsRight
  <2> SUFFICES ASSUME ACPIInv PROVE PowerOffIsRight
    OBVIOUS
  <2>1. written # <<>> /\ firmware.sleep # NotRead => written[1] = firmware.sleep
    BY DEF ACPIInv, SleepRead
  <2>2. Returned /\ firmware.conforming /\ Old => SCIEnabled /\ (result \/ TimedOut)
    BY DEF ACPIInv, Promised
  <2> QED
    BY <2>1, <2>2 DEF PowerOffIsRight, Old
<1> QED
  BY <1>1, ACPIInvAlways, PTL

\* When installation succeeds with ACPI enabled, both registers have been seen in ACPI
\* mode, however the machine's changes fall between the polls (acpi.c:111-133).
THEOREM SwitchedWhenEnabled == Spec => []EnabledMeansOn
<1>1. ACPIInv => EnabledMeansOn
  BY DEF ACPIInv, Switched
<1> QED
  BY <1>1, ACPIInvAlways, PTL

-----------------------------------------------------------------------------
\* The list of steps

Commands == {1, 2, 4, 6, 8, 10, 12, 13, 15, 16, 18, 20, 21}

LEMMA StepsAre ==
    /\ Len(Steps) = 21
    /\ \A k \in 1 .. 21 :
          Steps[k].do = IF k \in Commands THEN "command"
                        ELSE IF k \in {7, 11} THEN "data" ELSE IF k = 3 THEN "flush" ELSE "read"
    /\ Steps[1].byte = "AD" /\ Steps[2].byte = "A7" /\ Steps[4].byte = "20" /\ Steps[5].byte = "config"
    /\ Steps[6].byte = "60" /\ Steps[8].byte = "AA" /\ Steps[9].byte = "test" /\ Steps[10].byte = "60"
    /\ Steps[12].byte = "A8" /\ Steps[13].byte = "20" /\ Steps[14].byte = "single"
    /\ Steps[15].byte = "A7" /\ Steps[16].byte = "AB" /\ Steps[17].byte = "first"
    /\ Steps[18].byte = "A9" /\ Steps[19].byte = "second" /\ Steps[20].byte = "AE"
    /\ Steps[21].byte = "A8"
<1>1. Len(Steps) = 21
  BY DEF Steps
<1>2. /\ Steps[1] = C("AD") /\ Steps[2] = C("A7") /\ Steps[3] = F /\ Steps[4] = C("20")
      /\ Steps[5] = R("config") /\ Steps[6] = C("60") /\ Steps[7] = D /\ Steps[8] = C("AA")
      /\ Steps[9] = R("test") /\ Steps[10] = C("60") /\ Steps[11] = D /\ Steps[12] = C("A8")
      /\ Steps[13] = C("20") /\ Steps[14] = R("single") /\ Steps[15] = C("A7")
      /\ Steps[16] = C("AB") /\ Steps[17] = R("first") /\ Steps[18] = C("A9")
      /\ Steps[19] = R("second") /\ Steps[20] = C("AE") /\ Steps[21] = C("A8")
  BY DEF Steps
<1>3. \A k \in 1 .. 21 : k \in {1, 2, 3, 4, 5, 6, 7, 8, 9, 10, 11, 12, 13, 14, 15, 16, 17, 18, 19, 20, 21}
  OBVIOUS
<1>4. \A k \in 1 .. 21 :
          Steps[k].do = IF k \in Commands THEN "command"
                        ELSE IF k \in {7, 11} THEN "data" ELSE IF k = 3 THEN "flush" ELSE "read"
  <2>1. \A k \in Commands : Steps[k].do = "command"
    BY <1>2 DEF C, Commands
  <2>2. Steps[3].do = "flush" /\ Steps[7].do = "data" /\ Steps[11].do = "data"
    BY <1>2 DEF D, F
  <2>3. \A k \in {5, 9, 14, 17, 19} : Steps[k].do = "read"
    BY <1>2 DEF R
  <2> QED
    BY <1>3, <2>1, <2>2, <2>3 DEF Commands
<1> QED
  BY <1>1, <1>2, <1>4 DEF C, R

\* The steps that are skipped with a single port are 15, 18 and 19.
LEMMA FollowsIs ==
    ASSUME NEW k \in 1 .. 20
    PROVE  Follows(k) = IF ~singleChnl' \/ k + 1 \notin {15, 18, 19} THEN k + 1
                        ELSE IF k = 14 THEN 16 ELSE 20
<1> DEFINE Next0 == IF ~singleChnl' \/ k + 1 \notin {15, 18, 19} THEN k + 1
                    ELSE IF k = 14 THEN 16 ELSE 20
           P(n) == ~Skipped(n) /\ \A m \in k + 1 .. n - 1 : Skipped(m)
<1>1. Next0 \in k + 1 .. 22 /\ P(Next0)
  <2>1. CASE ~singleChnl' \/ k + 1 \notin {15, 18, 19}
    BY <2>1 DEF Skipped
  <2>2. CASE singleChnl' /\ k = 14
    BY <2>2 DEF Skipped
  <2>3. CASE singleChnl' /\ k = 17
    BY <2>3 DEF Skipped
  <2>4. CASE singleChnl' /\ k = 18
    BY <2>4 DEF Skipped
  <2> QED
    BY <2>1, <2>2, <2>3, <2>4
<1>2. ASSUME NEW n \in k + 1 .. 22, P(n) PROVE n = Next0
  <2>1. n < Next0 => Skipped(n)
    BY <1>1
  <2>2. n > Next0 => Skipped(Next0)
    BY <1>1, <1>2
  <2> QED
    BY <1>1, <1>2, <2>1, <2>2
<1>3. Follows(k) = CHOOSE n \in k + 1 .. 22 : P(n)
  BY StepsAre DEF Follows
<1> HIDE DEF P, Next0
<1>4. Follows(k) = Next0
  BY <1>1, <1>2, <1>3
<1> QED
  BY <1>4 DEF Next0

-----------------------------------------------------------------------------
\* The steps of the second start

\* When the program does a step, the controller has done what it was told.
LEMMA NothingLeft ==
    ASSUME CtrlInv, Calm, NEW kind, Doing(kind)
    PROVE  /\ installed = "none" /\ at \in 1 .. 21 /\ Steps[at].do = kind
           /\ in = <<>> /\ config8042 = ConfigAt /\ (awaits <=> at \in {7, 11})
           /\ at > 3 => out = OutAt
<1>1. at \in 1 .. 21 /\ Steps[at].do = kind
  BY StepsAre DEF Doing
<1>2. installed = "none" /\ Following
  BY <1>1 DEF CtrlInv, Started
<1>3. ASSUME in # <<>> PROVE FALSE
  <2>1. in[1] \in Range(in)
    BY <1>2, <1>3 DEF Following, Range
  <2>2. ~in[1].data /\ Reply(in[1].byte) # <<>> /\ out # <<>>
    BY <2>1 DEF Doing, Calm
  <2> QED
    BY <1>2, <1>3, <2>2 DEF Following
<1> QED
  BY <1>1, <1>2, <1>3 DEF Following, Told, Answered, Awaiting

\* What a command that is given next will make of the controller.
LEMMA CommandGiven ==
    ASSUME CtrlInv, Calm, SendCommand
    PROVE  /\ installed = "none" /\ at \in Commands
           /\ Told' = Configured(Steps[at].byte) /\ (Awaiting' <=> Steps[at].byte = "60")
           /\ at > 3 => Answered' = IF Reply(Steps[at].byte) # <<>> THEN Reply(Steps[at].byte) ELSE out
           /\ in' # <<>> /\ 1 \in DOMAIN in' /\ ~in'[1].data
           /\ Reply(in[1].byte)' = Reply(Steps[at].byte)
<1>1. /\ installed = "none" /\ at \in 1 .. 21 /\ Steps[at].do = "command"
      /\ UNCHANGED <<controller, config8042, out>>
      /\ in' = <<[data |-> FALSE, byte |-> Steps[at].byte]>>
  BY NothingLeft DEF SendCommand, Put
<1>2. in' # <<>> /\ 1 \in DOMAIN in' /\ in'[1].data = FALSE /\ in'[1].byte = Steps[at].byte
  BY <1>1
<1>3. at \in Commands
  BY <1>1, StepsAre
<1>4. Told' = Configured(Steps[at].byte) /\ Reply(in[1].byte)' = Reply(Steps[at].byte)
  BY <1>1, <1>2 DEF Told, Configured, Settled, Reply, Outcome
<1> QED
  BY <1>1, <1>2, <1>3, <1>4 DEF Answered, Awaiting

\* A command leads to the next step, and leaves the controller as that one wants it.
LEMMA CommandLeads ==
    ASSUME CtrlInv, Calm, SendCommand, at # 21
    PROVE  /\ at' = at + 1 /\ installed' = "none"
           /\ Configured(Steps[at].byte) = ConfigAt'
           /\ Steps[at].byte = "60" <=> at' \in {7, 11}
           /\ IF at \in {4, 8, 13, 16, 18} THEN Reply(Steps[at].byte) = OutAt' /\ OutAt' # <<>>
              ELSE Reply(Steps[at].byte) = <<>> /\ (at > 3 => OutAt' = <<>>)
           /\ at > 3 => out = <<>>
<1>1. /\ installed = "none" /\ at \in Commands /\ at \in 1 .. 21
      /\ config8042 = ConfigAt /\ (at > 3 => out = OutAt)
  BY CommandGiven, NothingLeft DEF SendCommand
<1>2. Following /\ UNCHANGED <<controller, program>>
  BY <1>1 DEF CtrlInv, SendCommand
<1>3. at' = at + 1 /\ installed' = "none"
  <2>1. at' = Follows(at) /\ installed' = "none"
    BY <1>1, StepsAre DEF SendCommand, GoOn
  <2>2. at \in 1 .. 20 /\ (at = 18 => ~singleChnl')
    <3>1. at = 18 => controller.dual
      BY <1>1, <1>2 DEF Following
    <3>2. singleChnl' = singleChnl /\ (singleChnl => ~controller.dual)
      BY <1>1, <1>2 DEF Following, program
    <3> QED
      BY <1>1, <3>1, <3>2
  <2> QED
    BY <1>1, <2>1, <2>2, FollowsIs DEF Commands
<1>4. controller.config \subseteq Bits /\ controller.resets \in BOOLEAN
  BY DEF CtrlInv, Controllers
<1>5. SYSTEM \notin {CLOCK1, CLOCK2} /\ CLOCK1 # CLOCK2
  BY DEF SYSTEM, CLOCK1, CLOCK2
<1>6. CASE at \in {1, 2}
  <2>1. Configured(Steps[at].byte) = config8042 \cup {IF at = 1 THEN CLOCK1 ELSE CLOCK2}
    BY <1>6, StepsAre DEF Configured
  <2>2. ConfigAt' = config8042 \cup {IF at = 1 THEN CLOCK1 ELSE CLOCK2}
    BY <1>1, <1>2, <1>3, <1>6 DEF ConfigAt, Settled
  <2>3. Reply(Steps[at].byte) = <<>> /\ Steps[at].byte # "60"
    BY <1>6, StepsAre DEF Reply
  <2> QED
    BY <1>3, <1>6, <2>1, <2>2, <2>3
<1>7. CASE at = 4
  BY <1>1, <1>2, <1>3, <1>7, StepsAre DEF Configured, Reply, ConfigAt, OutAt, Settled
<1>8. CASE at \in {6, 10, 12}
  <2>1. Configured(Steps[at].byte) = IF at = 12 THEN Settled(config8042 \ {CLOCK2}) ELSE config8042
    BY <1>8, StepsAre DEF Configured
  <2>2. at = 12 => Settled(config8042 \ {CLOCK2}) = Settled(Others)
    BY <1>1, <1>5 DEF ConfigAt, Settled, Others
  <2>3. ConfigAt' = IF at = 12 THEN Settled(Others) ELSE config8042
    BY <1>1, <1>2, <1>3, <1>8 DEF ConfigAt, Settled, Others
  <2>4. Reply(Steps[at].byte) = <<>> /\ (Steps[at].byte = "60" <=> at # 12)
    BY <1>8, StepsAre DEF Reply
  <2>5. out = <<>> /\ OutAt' = <<>>
    BY <1>1, <1>3, <1>8 DEF OutAt
  <2> QED
    BY <1>3, <1>8, <2>1, <2>2, <2>3, <2>4, <2>5
<1>9. CASE at = 8
  BY <1>1, <1>2, <1>3, <1>9, StepsAre DEF Configured, Reply, ConfigAt, OutAt, Settled, Others, Outcome
<1>10. CASE at = 13
  <2>1. /\ Configured(Steps[at].byte) = config8042 /\ Reply(Steps[at].byte) = <<config8042>>
        /\ Steps[at].byte # "60"
    BY <1>10, StepsAre DEF Configured, Reply
  <2>2. config8042 = Settled(Others) /\ out = <<>>
    BY <1>1, <1>10 DEF ConfigAt, OutAt
  <2>3. ConfigAt' = Settled(Others) /\ OutAt' = <<Settled(Others)>>
    BY <1>2, <1>3, <1>10 DEF ConfigAt, OutAt, Settled, Others
  <2> QED
    BY <1>3, <1>10, <2>1, <2>2, <2>3
<1>11. CASE at = 15
  <2>1. controller.dual
    BY <1>1, <1>2, <1>11 DEF Following
  <2>2. /\ Configured(Steps[at].byte) = config8042 \cup {CLOCK2} /\ Reply(Steps[at].byte) = <<>>
        /\ Steps[at].byte # "60"
    BY <1>11, StepsAre DEF Configured, Reply
  <2>3. config8042 = Others /\ out = <<>>
    BY <1>1, <1>11, <2>1 DEF ConfigAt, OutAt, Settled
  <2>4. ConfigAt' = Others \cup {CLOCK2} /\ OutAt' = <<>>
    BY <1>2, <1>3, <1>11 DEF ConfigAt, OutAt, Others
  <2> QED
    BY <1>3, <1>11, <2>2, <2>3, <2>4
<1>12. CASE at = 16
  BY <1>1, <1>2, <1>3, <1>12, StepsAre DEF Configured, Reply, ConfigAt, OutAt, Others, Outcome
<1>13. CASE at = 18
  <2>1. controller.dual
    BY <1>1, <1>2, <1>13 DEF Following
  <2> QED
    BY <1>1, <1>2, <1>3, <1>13, <2>1, StepsAre DEF Configured, Reply, ConfigAt, OutAt, Others, Outcome
<1>14. CASE at = 20
  BY <1>1, <1>2, <1>3, <1>5, <1>14, StepsAre DEF Configured, Reply, ConfigAt, OutAt, Others
<1> QED
  BY <1>1, <1>6, <1>7, <1>8, <1>9, <1>10, <1>11, <1>12, <1>13, <1>14 DEF Commands

\* The second start has begun where ACPI does not deny the controller, and changes nothing of that.
LEMMA DeniedStays ==
    ASSUME CtrlInv, UNCHANGED acpi, at' # 0 \/ touched' => at # 0 \/ touched
    PROVE  DeniedAlone'
BY DEF CtrlInv, DeniedAlone, Absent, acpi, driver

LEMMA FailedIsNotPassed == FAILED # PASSED
<1>1. "passed" \in PASSED /\ "passed" \notin FAILED
  BY DEF PASSED, FAILED
<1> QED
  BY <1>1

LEMMA CommandKeeps ==
    ASSUME CtrlInv, Calm, SendCommand, at = 12 => ctrlTestRes = PASSED
    PROVE  Following' /\ Started'
<1>1. /\ installed = "none" /\ at \in Commands /\ at \in 1 .. 21
      /\ Following /\ UNCHANGED <<controller, out, keys, config8042>> /\ UNCHANGED program
      /\ Len(Steps) = 21
  BY CommandGiven, NothingLeft, StepsAre DEF SendCommand, CtrlInv
<1>2. UNCHANGED <<config, ctrlTestRes, singleChnl, FirstPortAvailable, SecondPortAvailable>>
  BY <1>1 DEF program
<1>3. Others' = Others /\ Outcome(controller.test)' = Outcome(controller.test)
  BY <1>1 DEF Others, Outcome
<1>4. CASE at # 21
  <2>1. /\ at' = at + 1 /\ installed' = "none" /\ Configured(Steps[at].byte) = ConfigAt'
        /\ Steps[at].byte = "60" <=> at' \in {7, 11}
        /\ IF at \in {4, 8, 13, 16, 18} THEN Reply(Steps[at].byte) = OutAt' /\ OutAt' # <<>>
           ELSE Reply(Steps[at].byte) = <<>> /\ (at > 3 => OutAt' = <<>>)
        /\ at > 3 => out = <<>>
    BY <1>4, CommandLeads
  <2>2. Told' = ConfigAt' /\ (Awaiting' <=> at' \in {7, 11}) /\ in' # <<>> /\ 1 \in DOMAIN in'
    BY <2>1, CommandGiven
  <2>3. at' > 3 => Answered' = OutAt'
    BY <1>1, <2>1, CommandGiven DEF Commands
  <2>4. in' # <<>> /\ ~in'[1].data /\ Reply(in[1].byte)' # <<>> => out' = <<>>
    BY <1>1, <2>1, CommandGiven
  <2>5. /\ at' \in 6 .. 11 => config' = Others'
        /\ at' \in 10 .. 21 => ctrlTestRes' = Outcome(controller.test)'
        /\ at' > 12 => controller'.test
    <3>1. at = 12 => controller.test
      BY <1>1, FailedIsNotPassed DEF Following, Outcome
    <3> QED
      BY <1>1, <1>2, <1>3, <1>4, <2>1, <3>1 DEF Following, Commands
  <2>6. /\ singleChnl' <=> at' > 14 /\ ~controller'.dual
        /\ at' \in {15, 18, 19} => controller'.dual
        /\ at' > 17 => FirstPortAvailable' = controller'.test1
        /\ SecondPortAvailable' = (at' > 19 /\ controller'.dual /\ controller'.test2)
    BY <1>1, <1>2, <1>4, <2>1 DEF Following, Commands
  <2>7. at' \in 2 .. Len(Steps)
    BY <1>1, <1>4, <2>1
  <2>8. Following'
    BY <2>7, <2>2, <2>3, <2>4, <2>5, <2>6 DEF Following
  <2> QED
    BY <2>1, <2>8 DEF Started
<1>5. CASE at = 21
  <2>1. at' = 0 /\ installed' = "TRUE"
    BY <1>1, <1>5 DEF SendCommand, GoOn
  <2>2. config8042 = Others \cup {CLOCK2}
    BY <1>1, <1>5, NothingLeft DEF ConfigAt, SendCommand
  <2>3. Told' = Settled(config8042 \ {CLOCK2})
    BY <1>5, CommandGiven, StepsAre DEF Configured
  <2>4. CLOCK2 \notin Others
    BY DEF Others, CLOCK2, SYSTEM
  <2>5. Told' = Settled(Others)'
    BY <1>1, <1>3, <2>2, <2>3, <2>4 DEF Settled
  <2>6. /\ FirstPortAvailable = controller.test1
        /\ SecondPortAvailable = (controller.dual /\ controller.test2)
    BY <1>1, <1>5 DEF Following
  <2> QED
    BY <1>1, <1>2, <2>1, <2>5, <2>6 DEF Following, Started
<1> QED
  BY <1>4, <1>5

LEMMA DataKeeps ==
    ASSUME CtrlInv, Calm, SendData
    PROVE  Following' /\ Started'
<1>1. /\ installed = "none" /\ at \in {7, 11} /\ awaits /\ out = <<>> /\ Len(Steps) = 21
      /\ Following /\ UNCHANGED <<controller, config8042, awaits, out, keys>> /\ UNCHANGED program
      /\ in' = <<[data |-> TRUE, byte |-> config]>>
  <2>1. installed = "none" /\ at \in 1 .. 21 /\ Steps[at].do = "data"
    BY NothingLeft DEF SendData
  <2>2. at \in {7, 11}
    BY <2>1, StepsAre DEF Commands
  <2> QED
    BY <2>1, <2>2, NothingLeft, StepsAre DEF SendData, Put, CtrlInv, OutAt
<1>2. UNCHANGED <<config, ctrlTestRes, singleChnl, FirstPortAvailable, SecondPortAvailable>>
  BY <1>1 DEF program
<1>3. at' = at + 1 /\ installed' = "none"
  <2>1. at' = Follows(at) /\ installed' = "none"
    BY <1>1 DEF SendData, GoOn
  <2> QED
    BY <1>1, <2>1, FollowsIs
<1>4. in' # <<>> /\ 1 \in DOMAIN in' /\ in'[1].data /\ in'[1].byte = config
  BY <1>1
<1>5. config = Others
  BY <1>1 DEF Following
<1>6. Told' = Settled(Others)' /\ ~Awaiting' /\ Answered' = <<>>
  BY <1>1, <1>4, <1>5 DEF Told, Awaiting, Answered, Settled, Others
<1>7. ConfigAt' = Settled(Others)' /\ OutAt' = <<>>
  BY <1>1, <1>3 DEF ConfigAt, OutAt
<1>8. Others' = Others /\ Outcome(controller.test)' = Outcome(controller.test)
  BY <1>1 DEF Others, Outcome
<1>9. Following'
  BY <1>1, <1>2, <1>3, <1>4, <1>6, <1>7, <1>8 DEF Following
<1> QED
  BY <1>3, <1>9 DEF Started

LEMMA FlushKeeps ==
    ASSUME CtrlInv, Calm, Flush
    PROVE  Following' /\ Started'
<1>1. /\ installed = "none" /\ at = 3 /\ in = <<>> /\ Len(Steps) = 21 /\ Following
      /\ UNCHANGED <<controller, config8042, awaits, in, keys>> /\ UNCHANGED program
  <2>1. installed = "none" /\ at \in 1 .. 21 /\ Steps[at].do = "flush"
    BY NothingLeft DEF Flush
  <2>2. at = 3
    BY <2>1, StepsAre DEF Commands
  <2> QED
    BY <2>1, <2>2, NothingLeft, StepsAre DEF Flush, CtrlInv
<1>2. UNCHANGED <<config, ctrlTestRes, singleChnl, FirstPortAvailable, SecondPortAvailable>>
  BY <1>1 DEF program
<1>3. at' \in {3, 4} /\ installed' = "none" /\ (at' = 4 => out' = <<>>)
  <2>1. \/ at' = Follows(at) /\ installed' = "none" /\ out' = <<>>
        \/ at' = at /\ installed' = "none"
    BY <1>1 DEF Flush, FlushAll, GoOn
  <2> QED
    BY <1>1, <2>1, FollowsIs
<1>4. Told' = ConfigAt' /\ Awaiting' = Awaiting /\ Answered' = out'
  BY <1>1, <1>3 DEF Following, Told, ConfigAt, Awaiting, Answered, Settled
<1>5. at' = 4 => OutAt' = <<>>
  BY DEF OutAt
<1>6. Following'
  BY <1>1, <1>2, <1>3, <1>4, <1>5 DEF Following
<1> QED
  BY <1>3, <1>6 DEF Started

LEMMA ReadKeeps ==
    ASSUME CtrlInv, Calm, Read
    PROVE  Following' /\ Started'
<1> DEFINE var == Steps[at].byte
           byte == out[1]
<1>1. /\ installed = "none" /\ at \in {5, 9, 14, 17, 19} /\ Len(Steps) = 21 /\ Following
      /\ in = <<>> /\ config8042 = ConfigAt /\ ~awaits /\ out = OutAt
      /\ UNCHANGED <<controller, config8042, awaits, in, keys>> /\ out' = <<>>
      /\ Assign(var, byte) /\ controller \in Controllers
  <2>1. installed = "none" /\ at \in 1 .. 21 /\ Steps[at].do = "read"
    BY NothingLeft DEF Read
  <2>2. at \in {5, 9, 14, 17, 19}
    BY <2>1, StepsAre DEF Commands
  <2> QED
    BY <2>1, <2>2, NothingLeft, StepsAre DEF Read, CtrlInv
<1>2. installed' = "none" /\ at' = Follows(at)
  BY <1>1 DEF Read, GoOn
<1>3. Others' = Others /\ Outcome(controller.test)' = Outcome(controller.test)
  BY <1>1 DEF Others, Outcome
<1>4. /\ Told' = config8042 /\ ~Awaiting' /\ Answered' = <<>> /\ in' = <<>>
      /\ Settled(Others)' = Settled(Others) /\ Settled(controller.config)' = Settled(controller.config)
  BY <1>1 DEF Told, Awaiting, Answered, Settled, Others
<1>5. CASE at = 5
  <2>1. at' = 6 /\ UNCHANGED <<ctrlTestRes, singleChnl, FirstPortAvailable, SecondPortAvailable>>
    <3>1. var = "config"
      BY <1>5, StepsAre
    <3> QED
      BY <1>1, <1>2, <1>5, <3>1, FollowsIs DEF Assign
  <2>2. byte = Settled(controller.config) \cup {CLOCK1, CLOCK2}
    BY <1>1, <1>5 DEF OutAt, ConfigAt
  <2>3. AsBits(byte) = byte
    <3>1. CLOCK1 \in byte /\ CLOCK1 \notin KEY /\ CLOCK1 \notin PASSED /\ CLOCK1 \notin FAILED
      BY <2>2 DEF KEY, PASSED, FAILED, CLOCK1
    <3> QED
      BY <3>1 DEF AsBits
  <2>4. byte \ Cleared = Others
    BY <1>1, <2>2
    DEF Settled, Cleared, Others, Controllers, Bits, INT1, INT2, SYSTEM, CLOCK1, CLOCK2, TRANSLATION
  <2>5. config' = Others'
    BY <1>1, <1>3, <1>5, <2>3, <2>4, StepsAre DEF Assign
  <2>6. ConfigAt' = config8042 /\ OutAt' = <<>>
    BY <1>1, <1>4, <1>5, <2>1 DEF ConfigAt, OutAt
  <2>7. Following'
    BY <1>1, <1>2, <1>3, <1>4, <1>5, <2>1, <2>5, <2>6 DEF Following
  <2> QED
    BY <1>2, <2>7 DEF Started
<1>6. CASE at = 9
  <2>1. /\ at' = 10 /\ ctrlTestRes' = byte
        /\ UNCHANGED <<config, singleChnl, FirstPortAvailable, SecondPortAvailable>>
    <3>1. var = "test"
      BY <1>6, StepsAre
    <3> QED
      BY <1>1, <1>2, <1>6, <3>1, FollowsIs DEF Assign
  <2>2. byte = Outcome(controller.test)
    BY <1>1, <1>6 DEF OutAt
  <2>3. ConfigAt' = config8042 /\ OutAt' = <<>>
    BY <1>1, <1>4, <1>6, <2>1 DEF ConfigAt, OutAt
  <2>4. Following'
    BY <1>1, <1>2, <1>3, <1>4, <1>6, <2>1, <2>2, <2>3 DEF Following
  <2> QED
    BY <1>2, <2>4 DEF Started
<1>7. CASE at = 14
  <2>1. /\ config' = AsBits(byte) /\ (singleChnl' <=> CLOCK2 \in AsBits(byte))
        /\ UNCHANGED <<ctrlTestRes, FirstPortAvailable, SecondPortAvailable>>
    <3>1. var = "single"
      BY <1>7, StepsAre
    <3> QED
      BY <1>1, <1>7, <3>1 DEF Assign
  <2>2. byte = Settled(Others)
    BY <1>1, <1>7 DEF OutAt
  <2>3. AsBits(byte) = byte
    <3>1. "key" \notin byte /\ "passed" \notin byte /\ "failed" \notin byte
      BY <2>2 DEF Settled, Others, SYSTEM, CLOCK2
    <3> QED
      BY <3>1 DEF AsBits, KEY, PASSED, FAILED
  <2>4. CLOCK2 \in Settled(Others) <=> ~controller.dual
    BY DEF Settled, Others, CLOCK2, SYSTEM
  <2>5. singleChnl' <=> ~controller.dual
    BY <2>1, <2>2, <2>3, <2>4
  <2>6. at' = IF controller.dual THEN 15 ELSE 16
    BY <1>2, <1>7, <2>5, FollowsIs
  <2>7. config8042 = Settled(Others)
    BY <1>1, <1>7 DEF ConfigAt
  <2>8. ConfigAt' = config8042 /\ OutAt' = <<>>
    <3>1. CASE controller.dual
      BY <1>4, <2>6, <2>7, <3>1 DEF ConfigAt, OutAt
    <3>2. CASE ~controller.dual
      BY <1>3, <2>6, <2>7, <3>2 DEF ConfigAt, OutAt, Settled
    <3> QED
      BY <3>1, <3>2
  <2>9. Following'
    BY <1>1, <1>2, <1>3, <1>4, <1>7, <2>1, <2>5, <2>6, <2>8 DEF Following
  <2> QED
    BY <1>2, <2>9 DEF Started
<1>8. CASE at = 17
  <2>1. /\ FirstPortAvailable' = (byte = PASSED)
        /\ UNCHANGED <<config, ctrlTestRes, singleChnl, SecondPortAvailable>>
    <3>1. var = "first"
      BY <1>8, StepsAre
    <3> QED
      BY <1>1, <1>8, <3>1 DEF Assign
  <2>2. byte = Outcome(controller.test1) /\ controller.test1 \in BOOLEAN
    BY <1>1, <1>8 DEF OutAt, Controllers
  <2>3. FirstPortAvailable' = controller'.test1
    BY <1>1, <2>1, <2>2, FailedIsNotPassed DEF Outcome
  <2>4. singleChnl' <=> ~controller.dual
    BY <1>1, <1>8, <2>1 DEF Following
  <2>5. at' = IF controller.dual THEN 18 ELSE 20
    BY <1>2, <1>8, <2>4, FollowsIs
  <2>6. ConfigAt' = config8042 /\ OutAt' = <<>>
    BY <1>1, <1>3, <1>8, <2>5 DEF ConfigAt, OutAt
  <2>7. Following'
    BY <1>1, <1>2, <1>3, <1>4, <1>8, <2>1, <2>3, <2>4, <2>5, <2>6 DEF Following
  <2> QED
    BY <1>2, <2>7 DEF Started
<1>9. CASE at = 19
  <2>1. /\ SecondPortAvailable' = (byte = PASSED)
        /\ UNCHANGED <<config, ctrlTestRes, singleChnl, FirstPortAvailable>>
    <3>1. var = "second"
      BY <1>9, StepsAre
    <3> QED
      BY <1>1, <1>9, <3>1 DEF Assign
  <2>2. byte = Outcome(controller.test2) /\ controller.test2 \in BOOLEAN /\ controller.dual
    BY <1>1, <1>9 DEF OutAt, Controllers, Following
  <2>3. at' = 20
    BY <1>2, <1>9, FollowsIs
  <2>4. SecondPortAvailable' = (at' > 19 /\ controller'.dual /\ controller'.test2)
    BY <1>1, <2>1, <2>2, <2>3, FailedIsNotPassed DEF Outcome
  <2>5. ConfigAt' = config8042 /\ OutAt' = <<>>
    BY <1>1, <1>3, <1>9, <2>3 DEF ConfigAt, OutAt
  <2>6. Following'
    BY <1>1, <1>2, <1>3, <1>4, <1>9, <2>1, <2>2, <2>3, <2>4, <2>5 DEF Following
  <2> QED
    BY <1>2, <2>6 DEF Started
<1> QED
  BY <1>1, <1>5, <1>6, <1>7, <1>8, <1>9

LEMMA FailTestKeeps ==
    ASSUME CtrlInv, Calm, FailTest
    PROVE  Following' /\ Started'
<1>1. installed = "none" /\ Following /\ at = 12
  BY DEF CtrlInv, Started, FailTest
<1>2. ~controller.test
  BY <1>1 DEF Following, FailTest, Outcome
<1> QED
  BY <1>2 DEF FailTest, Following, Started, hardware

LEMMA CallKeeps ==
    ASSUME CtrlInv, Calm, CallInstall
    PROVE  Following' /\ Started'
<1>1. /\ installed = "none" /\ at = 0 /\ Following
      /\ UNCHANGED <<hardware, program>> /\ touched' = touched
  BY DEF CtrlInv, CallInstall
<1>2. CASE Absent
  <2>1. installed' = "FALSE" /\ at' = 0 /\ ~touched
    BY <1>1, <1>2 DEF CallInstall, CtrlInv, DeniedAlone
  <2> QED
    BY <1>1, <2>1 DEF Following, Started
<1>3. CASE ~Absent
  <2>1. installed' = "none" /\ at' = 1
    BY <1>3 DEF CallInstall
  <2>2. Told' = Told /\ Awaiting' = Awaiting /\ ConfigAt' = ConfigAt /\ Len(Steps) = 21
    BY <1>1, <2>1, StepsAre DEF Told, Awaiting, ConfigAt, Settled, Configured, hardware
  <2>3. Following'
    BY <1>1, <2>1, <2>2 DEF Following, hardware, program
  <2> QED
    BY <2>1, <2>3 DEF Started
<1> QED
  BY <1>2, <1>3

\* What the controller has been told, it does; nothing else of the two changes.
LEMMA ProcessKeeps ==
    ASSUME CtrlInv, Calm, Process
    PROVE  Following' /\ Started'
<1>1. /\ in # <<>> /\ in' = <<>>
      /\ UNCHANGED <<controller, keys, touched, at, installed>> /\ UNCHANGED program
  BY DEF Process
<1>2. UNCHANGED <<config, ctrlTestRes, singleChnl, FirstPortAvailable, SecondPortAvailable>>
  BY <1>1 DEF program
<1>3. Told' = Told
  <2>1. Told' = config8042'
    BY <1>1 DEF Told
  <2> QED
    BY <1>1, <2>1 DEF Told, Process
<1>4. Answered' = Answered
  <2>1. Answered' = out'
    BY <1>1 DEF Answered
  <2> QED
    BY <1>1, <2>1 DEF Answered, Process
<1>5. Awaiting' <=> Awaiting
  BY <1>1 DEF Awaiting, Process
<1>6. ConfigAt' = ConfigAt /\ OutAt' = OutAt /\ Others' = Others /\ Settled(Others)' = Settled(Others)
  <2>1. Others' = Others /\ Settled(Others)' = Settled(Others)
    BY <1>1 DEF Others, Settled
  <2>2. ConfigAt' = ConfigAt
    BY <1>1, <2>1 DEF ConfigAt, Settled
  <2> QED
    BY <1>1, <2>1, <2>2 DEF OutAt, Outcome
<1>7. Outcome(controller.test)' = Outcome(controller.test)
  BY <1>1 DEF Outcome
<1>8. Following'
  BY <1>1, <1>2, <1>3, <1>4, <1>5, <1>6, <1>7 DEF CtrlInv, Following
<1>9. Started'
  BY <1>1, <1>2, <1>3, <1>6 DEF CtrlInv, Started
<1> QED
  BY <1>8, <1>9

\* What the controller and its start have to do with each other, ACPI leaves alone.
LEMMA RestKeeps ==
    ASSUME CtrlInv, Calm, UNCHANGED <<hardware, touched, at, program, installed>>
    PROVE  Following' /\ Started'
<1>1. /\ UNCHANGED <<controller, config8042, in, awaits, out, keys, touched, at, installed>>
      /\ UNCHANGED <<config, ctrlTestRes, singleChnl, FirstPortAvailable, SecondPortAvailable>>
  BY DEF hardware, program
<1>2. Told' = Told /\ Answered' = Answered /\ Awaiting' = Awaiting /\ Reply(in[1].byte)' = Reply(in[1].byte)
  BY <1>1 DEF Told, Answered, Awaiting, Settled, Configured, Reply, Outcome
<1>3. Others' = Others /\ Settled(Others)' = Settled(Others) /\ Outcome(controller.test)' = Outcome(controller.test)
  BY <1>1 DEF Others, Settled, Outcome
<1>4. ConfigAt' = ConfigAt /\ OutAt' = OutAt
  BY <1>1 DEF ConfigAt, OutAt, Others, Settled, Outcome
<1> QED
  BY <1>1, <1>2, <1>3, <1>4 DEF CtrlInv, Following, Started

LEMMA CtrlInitially == Init => CtrlInv
<1> SUFFICES ASSUME Init PROVE CtrlInv
  OBVIOUS
<1>1. PICK c \in Computers : ACPIInit(c[1]) /\ controller = c[2]
  BY DEF Init
<1>2. /\ controller \in Controllers /\ at = 0 /\ ~touched /\ installed = "none" /\ in = <<>>
      /\ config8042 = Settled(controller.config) /\ awaits = FALSE /\ keys = 0
      /\ ~singleChnl /\ SecondPortAvailable = FALSE
  BY <1>1, ComputersAssumption DEF Init
<1>3. Told = ConfigAt /\ (Awaiting <=> at \in {7, 11})
  BY <1>2 DEF Told, ConfigAt, Awaiting
<1>4. Following
  <2>1. at \in 0 .. Len(Steps) /\ ~(at > 3) /\ at \notin {15, 18, 19}
    BY <1>2, StepsAre
  <2>2. SecondPortAvailable = (at > 19 /\ controller.dual /\ controller.test2)
    <3>1. ~(at > 19)
      BY <2>1
    <3>2. (at > 19 /\ controller.dual /\ controller.test2) = FALSE
      BY <3>1, Zenon
    <3> QED
      BY <1>2, <3>2, Zenon
  <2> QED
    BY <1>2, <1>3, <2>1, <2>2 DEF Following
<1> QED
  BY <1>2, <1>4 DEF CtrlInv, Started, DeniedAlone

\* The second start begins after the first has returned, and its reasons stay.
LEMMA DeniedAloneStays ==
    ASSUME CtrlInv, [Next]_vars
    PROVE  DeniedAlone'
<1>1. CASE ACPINext /\ UNCHANGED <<hardware, touched, at, program, installed>>
  <2>1. pc = "returned" => pc' = "returned" /\ UNCHANGED <<SCIEnabled, fadt>>
    BY <1>1 DEF ACPINext, InstallACPI, FindRoot, SkipEntry, ReadFADT, EndEntries, Enable, PollA,
                PollB, Enabled, SwitchA, SwitchB, ACPIPowerOff, driver
  <2> QED
    BY <1>1, <2>1 DEF CtrlInv, DeniedAlone, Absent
<1>2. CASE CallInstall
  BY <1>2 DEF CallInstall, CtrlInv, DeniedAlone, Absent, acpi, driver
<1>3. CASE FailTest \/ Process \/ Key \/ UNCHANGED vars
  <2>1. UNCHANGED <<acpi, touched>> /\ (at' # 0 => at # 0)
    BY <1>3 DEF FailTest, Process, Key, vars
  <2> QED
    BY <2>1, DeniedStays
<1>4. CASE SendCommand \/ SendData \/ Flush \/ Read
  <2>1. UNCHANGED acpi /\ at # 0
    <3>1. \E kind : Doing(kind)
      BY <1>4 DEF SendCommand, SendData, Flush, Read
    <3>2. at # 0
      BY <3>1, StepsAre DEF Doing
    <3> QED
      BY <1>4, <3>2 DEF SendCommand, SendData, Flush, Read
  <2> QED
    BY <2>1, DeniedStays
<1> QED
  BY <1>1, <1>2, <1>3, <1>4 DEF Next, InstallPS2Ctrl

LEMMA CtrlStep ==
    ASSUME CtrlInv, [Next]_vars
    PROVE  CtrlInv'
<1>1. controller' = controller
  BY DEF Next, InstallPS2Ctrl, CallInstall, FailTest, SendCommand, SendData, Flush, Read, Process,
         Key, vars, hardware
<1>2. installed' \in {"none", "TRUE", "FALSE"}
  BY DEF CtrlInv, Next, InstallPS2Ctrl, CallInstall, FailTest, SendCommand, SendData, Flush, Read,
         Process, Key, vars, GoOn
<1>3. ASSUME Calm PROVE ~Key /\ keys' \in Nat
  <2>1. ~Key
    BY <1>3 DEF CtrlInv, Calm, Key
  <2> QED
    BY <1>3, <2>1 DEF CtrlInv, Next, InstallPS2Ctrl, CallInstall, FailTest, SendCommand, SendData,
                      Flush, Read, Process, vars, hardware
<1>4. ASSUME Calm PROVE Following' /\ Started'
  <2>1. CASE (ACPINext /\ UNCHANGED <<hardware, touched, at, program, installed>>) \/ UNCHANGED vars
    BY <1>4, <2>1, RestKeeps DEF vars
  <2>2. CASE InstallPS2Ctrl
    BY <1>4, <2>2, CallKeeps, FailTestKeeps, CommandKeeps, DataKeeps, FlushKeeps, ReadKeeps
    DEF InstallPS2Ctrl
  <2>3. CASE Process
    BY <1>4, <2>3, ProcessKeeps
  <2> QED
    BY <1>3, <1>4, <2>1, <2>2, <2>3 DEF Next
<1>5. Calm' <=> Calm
  BY <1>1 DEF Calm
<1> QED
  BY <1>1, <1>2, <1>3, <1>4, <1>5, DeniedAloneStays DEF CtrlInv

\* A controller that ACPI denies is not touched; another is started as it is, whatever its
\* configuration was, and although its own test may set that back: its ports are those that
\* are there and pass their tests, and the start fails on its own test alone
\* (ps2-ctrl.c:7-51).
THEOREM RightStart == Spec => []StartedAsItIs
<1>1. CtrlInv => StartedAsItIs
  <2> SUFFICES ASSUME CtrlInv PROVE StartedAsItIs
    OBVIOUS
  <2>1. SCIEnabled /\ fadt.major >= 2 /\ ~fadt.has8042 => ~touched
    BY DEF CtrlInv, DeniedAlone, Absent
  <2>2. Calm => Started
    BY DEF CtrlInv
  <2>3. in = <<>> => Told = config8042
    BY DEF Told
  <2> QED
    BY <2>1, <2>2, <2>3 DEF StartedAsItIs, Started, Others
<1>2. CtrlInv /\ [Next]_vars => CtrlInv'
  BY CtrlStep
<1> QED
  BY <1>1, <1>2, CtrlInitially, PTL DEF Spec

==============================================================================
