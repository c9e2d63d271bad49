-------------------------------- MODULE ACPI --------------------------------
(***************************************************************************)
(* The ACPI driver, src/kernel/source/acpi.c: the search for the tables,   *)
(* the switch of the machine to ACPI mode, and the power off that uses     *)
(* what the search has found.                                              *)
(*                                                                         *)
(* A firmware is a record of                                               *)
(*   area: the pointers in the EBDA and in the BIOS area in the order of   *)
(*     the search, the places on the bounds included,                      *)
(*     [signature, sum, revision, rsdt, xsdt],                             *)
(*   tables: [signature, sum, entries, fadt, s5] by address,               *)
(*   on: the machine is in ACPI mode already,                              *)
(*   sleep: the sleep type that the machine's \_S5_ gives,                 *)
(*   conforming: the description is complete and right,                    *)
(* where sum says whether the bytes add up to zero.  The machine changes   *)
(* its mode some time after it is told to, or never.  A step is one entry  *)
(* of the root table, or one poll with the Sleep before the next.          *)
(***************************************************************************)
EXTENDS Integers, SequencesExt

CONSTANTS
    High,           \* the addresses above 4 GB
    Polls,          \* how often a control register is polled, 300
    MaxEntries      \* bound: the greatest value an uninitialized sdtCount has here

ASSUME ACPIAssumption == Polls \in Nat \ {0} /\ MaxEntries \in Nat

NULL == "null"
NotRead == -1       \* the sleep type before, or of bytes that are no \_S5_

VARIABLES
    \* the machine
    firmware,
    commanded,      \* the SMI command port has been written
    A, B,           \* the control registers' SCI bits
    written,        \* what power off has written: <<>> or <<PM1A's type, PM1B's type>>
    \* acpi.c
    SCIEnabled,
    fadt,           \* the fields that the driver has copied from the FADT
    SleepTypeA,
    entry,          \* i, sdtCount and ptrShift of InstallACPI: [i, count, table, step]
    j,              \* the polls
    pc,             \* where InstallACPI is; "off" and "on": it has returned
    result          \* what it has returned

machine == <<firmware, commanded, A, B, written>>
driver == <<SCIEnabled, fadt, SleepTypeA, entry, j>>
acpi == <<machine, driver, pc, result>>

NoFADT ==
    [major |-> 0, dsdt |-> NULL, xdsdt |-> NULL, smi |-> FALSE, pm1b |-> FALSE, has8042 |-> FALSE]

-----------------------------------------------------------------------------
\* Tables

CheckRSDP_SignatureOnly(rsdp) == rsdp.signature

CheckRSDP(rsdp) == rsdp.signature /\ rsdp.sum

Whole(tables, address, signature) ==
    tables[address].signature = signature /\ tables[address].sum

CheckSDT(address, signature) == Whole(firmware.tables, address, signature)

Return(value) == pc' = "returned" /\ result' = value

\* sdtCount is the length of the table's entries in bytes, or is not set at all.
Counts(revision, table) ==
    IF revision = 0 THEN {4 * Len(firmware.tables[table].entries)} ELSE 0 .. MaxEntries

\* The root table that a pointer gives.
Short(rsdp) == rsdp.revision = 0 \/ rsdp.xsdt \in High

RootOf(rsdp) == IF Short(rsdp) THEN rsdp.rsdt ELSE rsdp.xsdt

\* InstallACPI up to the loop.
FindRoot ==
    /\ pc = "start"
    /\ LET k == SelectInSeq(firmware.area, CheckRSDP)
           rsdp == firmware.area[k]
           table == RootOf(rsdp)
       IN IF k = 0 \/ ~CheckSDT(table, IF Short(rsdp) THEN "RSDT" ELSE "XSDT")
          THEN Return(FALSE) /\ UNCHANGED entry
          ELSE /\ \E count \in Counts(rsdp.revision, table) :
                     entry' = [i |-> 0, count |-> count, table |-> table,
                               step |-> IF Short(rsdp) THEN 4 ELSE 8]
               /\ pc' = "entry" /\ UNCHANGED result
    /\ UNCHANGED <<machine, SCIEnabled, fadt, SleepTypeA, j>>

NextEntry == entry' = [entry EXCEPT !.i = @ + 1] /\ pc' = "entry" /\ UNCHANGED result

\* The table that an entry designates; what is read past the end designates none.
Entries == firmware.tables[entry.table].entries

Designated == IF entry.i < Len(Entries) THEN Entries[entry.i + 1] ELSE NULL

IsFADT ==
    /\ entry.step = 8 => Designated \notin High
    /\ CheckSDT(Designated, "FACP")

SkipEntry ==
    /\ pc = "entry" /\ entry.i < entry.count /\ ~IsFADT
    /\ NextEntry
    /\ UNCHANGED <<machine, SCIEnabled, fadt, SleepTypeA, j>>

EndEntries ==
    /\ pc = "entry" /\ entry.i = entry.count
    /\ Return(TRUE)
    /\ UNCHANGED <<machine, driver>>

DSDT(table) == IF table.xdsdt \notin High \cup {NULL} THEN table.xdsdt ELSE table.dsdt

\* The remaining length is zero when the signature is at the last place, and the
\* greatest number when it is nowhere: s5Obj is then behind the table, where the bytes
\* may look like an \_S5_ (acpi.c:84-91).
ProperS5(s5) == IF s5 = "nowhere" THEN BOOLEAN ELSE {s5 = "proper"}

\* SCIEnabled is set and the fields are copied before the machine is asked.
ReadFADT ==
    /\ pc = "entry" /\ entry.i < entry.count /\ IsFADT
    /\ LET table == firmware.tables[Designated].fadt
           dsdt == DSDT(table)
           s5 == firmware.tables[dsdt].s5
       IN IF ~CheckSDT(dsdt, "DSDT") \/ s5.at = "last"
          THEN /\ fadt' = [fadt EXCEPT !.major = table.major]
               /\ Return(FALSE)
               /\ UNCHANGED <<SCIEnabled, SleepTypeA, entry>>
          ELSE \E proper \in ProperS5(s5.at) :
               IF proper
               THEN /\ fadt' = table /\ SCIEnabled' = TRUE
                    /\ SleepTypeA' = IF s5.at = "nowhere" THEN NotRead ELSE s5.type
                    /\ pc' = "test" /\ UNCHANGED <<entry, result>>
               ELSE /\ fadt' = [fadt EXCEPT !.major = table.major]
                    /\ NextEntry /\ UNCHANGED <<SCIEnabled, SleepTypeA>>
    /\ UNCHANGED <<machine, j>>

-----------------------------------------------------------------------------
\* The switch to ACPI mode

Enable ==
    /\ pc = "test"
    /\ CASE A -> NextEntry /\ UNCHANGED <<commanded, j>>
         [] ~A /\ fadt.smi  ->
              commanded' = TRUE /\ j' = 0 /\ pc' = "pollA" /\ UNCHANGED <<entry, result>>
         [] ~A /\ ~fadt.smi -> Return(FALSE) /\ UNCHANGED <<commanded, j, entry>>
    /\ UNCHANGED <<firmware, A, B, written, SCIEnabled, fadt, SleepTypeA>>

\* The polls are counted on from one register to the other.
PollA ==
    /\ pc = "pollA"
    /\ IF j < Polls /\ ~A THEN j' = j + 1 /\ pc' = pc
       ELSE pc' = (IF fadt.pm1b THEN "pollB" ELSE "enabled") /\ UNCHANGED j
    /\ UNCHANGED <<machine, SCIEnabled, fadt, SleepTypeA, entry, result>>

PollB ==
    /\ pc = "pollB"
    /\ IF j < Polls /\ ~B THEN j' = j + 1 /\ pc' = pc
       ELSE pc' = "enabled" /\ UNCHANGED j
    /\ UNCHANGED <<machine, SCIEnabled, fadt, SleepTypeA, entry, result>>

TimedOut_Later == j > Polls

TimedOut == j >= Polls

Enabled ==
    /\ pc = "enabled"
    /\ IF TimedOut THEN Return(FALSE) /\ UNCHANGED entry ELSE NextEntry
    /\ UNCHANGED <<machine, SCIEnabled, fadt, SleepTypeA, j>>

InstallACPI ==
    FindRoot \/ SkipEntry \/ ReadFADT \/ EndEntries \/ Enable \/ PollA \/ PollB \/ Enabled

\* The machine follows the command, register by register, when it likes.
SwitchA ==
    /\ commanded /\ ~A /\ A' = TRUE
    /\ UNCHANGED <<firmware, commanded, B, written, driver, pc, result>>

SwitchB ==
    /\ commanded /\ fadt.pm1b /\ ~B /\ B' = TRUE
    /\ UNCHANGED <<firmware, commanded, A, written, driver, pc, result>>

-----------------------------------------------------------------------------

\* ACPIPowerOff; SleepTypeB is never set.
ACPIPowerOff ==
    /\ pc = "returned" /\ written = <<>>
    /\ SCIEnabled /\ A
    /\ written' = <<SleepTypeA>> \o (IF fadt.pm1b THEN <<0>> ELSE <<>>)
    /\ UNCHANGED <<firmware, commanded, A, B, driver, pc, result>>

ACPIInit(machineFirmware) ==
    /\ firmware = machineFirmware
    /\ commanded = FALSE /\ A = firmware.on /\ B = firmware.on /\ written = <<>>
    /\ SCIEnabled = FALSE /\ fadt = NoFADT /\ SleepTypeA = NotRead
    /\ entry = [i |-> 0, count |-> 0, table |-> NULL, step |-> 0] /\ j = 0
    /\ pc = "start" /\ result = FALSE

ACPINext == InstallACPI \/ SwitchA \/ SwitchB \/ ACPIPowerOff

-----------------------------------------------------------------------------
\* What the fields of a firmware mean

\* A pointer that firmware has put there, and that is whole.
Genuine(rsdp) == rsdp.signature /\ rsdp.sum

\* The DSDT that an entry of a table leads to.
DSDTBehind(f, address) == DSDT(f.tables[address].fadt)

S5Behind(f, address) == f.tables[DSDTBehind(f, address)].s5

\* No address is that of an FADT, and a root table has one FADT at most.
Typical(f) ==
    /\ f.on \in BOOLEAN /\ f.area \in Seq(Range(f.area))
    /\ ~Whole(f.tables, NULL, "FACP")
    /\ \A a \in DOMAIN f.tables : f.tables[a].entries \in Seq(DOMAIN f.tables)
    /\ \A a \in DOMAIN f.tables : LET e == f.tables[a].entries IN
          \A m, n \in DOMAIN e :
             Whole(f.tables, e[m], "FACP") /\ Whole(f.tables, e[n], "FACP") => m = n
    /\ \A n \in DOMAIN f.area : Genuine(f.area[n]) => RootOf(f.area[n]) \in DOMAIN f.tables

\* The \_S5_ of every chain of whole tables is the machine's own.
Sleeps(f) ==
    \A n \in DOMAIN f.area : Genuine(f.area[n]) =>
        LET e == f.tables[RootOf(f.area[n])].entries IN
        \A m \in DOMAIN e :
            Whole(f.tables, e[m], "FACP") /\ Whole(f.tables, DSDTBehind(f, e[m]), "DSDT") =>
                /\ S5Behind(f, e[m]).at # "nowhere"
                /\ S5Behind(f, e[m]).at = "proper" => S5Behind(f, e[m]).type = f.sleep

\* Every whole pointer without a revision leads to one, on a machine that can be switched.
Conforming(f) ==
    /\ \E n \in DOMAIN f.area : Genuine(f.area[n])
    /\ \A n \in DOMAIN f.area : Genuine(f.area[n]) /\ f.area[n].revision = 0 =>
          LET e == f.tables[f.area[n].rsdt].entries IN
          /\ Whole(f.tables, f.area[n].rsdt, "RSDT")
          /\ \E m \in DOMAIN e :
                /\ Whole(f.tables, e[m], "FACP") /\ Whole(f.tables, DSDTBehind(f, e[m]), "DSDT")
                /\ S5Behind(f, e[m]).at = "proper"
                /\ f.on \/ f.tables[e[m]].fadt.smi

IsFirmware(f) ==
    /\ Typical(f)
    /\ f.sleep # NotRead => Sleeps(f)
    /\ f.conforming => Conforming(f)

-----------------------------------------------------------------------------
\* Properties

Returned == pc = "returned"

\* However many pointers and tables lie damaged or outdated in the areas that are
\* searched, power off writes the sleep type of the machine's own \_S5_: each table on the
\* way to it is the right one (acpi.c:17-54, 70-98, 176-184).  A machine without one is
\* excepted, for which bytes behind the table may be taken.  One that describes itself as
\* it should is switched, unless it takes too long or the number of entries has not been
\* set (acpi.c:22-40, 113-135).
PowerOffIsRight ==
    /\ written # <<>> /\ firmware.sleep # NotRead => written[1] = firmware.sleep
    /\ Returned /\ firmware.conforming =>
          \/ SCIEnabled /\ (result \/ TimedOut)
          \/ \E rsdp \in Range(firmware.area) : rsdp.sum /\ rsdp.revision # 0

\* When installation succeeds with ACPI enabled, the machine is in ACPI mode as far as it
\* had to be told to change, although all polls share one counter and SCIEnabled is set
\* before the first of them (acpi.c:111-133).
EnabledMeansOn ==
    Returned /\ result /\ SCIEnabled => A /\ (commanded /\ fadt.pm1b => B)

=============================================================================
