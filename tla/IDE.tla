--------------------------------- MODULE IDE ---------------------------------
(***************************************************************************)
(* The two drives of one IDE channel, src/kernel/source/ide.c: IDEInitDevs *)
(* finds them, then clients call IDEReadSectors and IDEWriteSectors.  ATA  *)
(* transfers poll the status for each word; packet transfers wait for the  *)
(* flag that the interrupt handler sets.                                   *)
(*                                                                         *)
(* The drives are the environment: they are busy for as long as they like  *)
(* after a command and between two blocks of data, and interrupt.  Between *)
(* two steps of a drive nothing it shows changes by itself, so that a step *)
(* of the main flow is what it does between two waits for a drive.         *)
(*                                                                         *)
(* The channel is in compatibility mode: the control register the code     *)
(* writes is CtrlBase + 2, 0x3F8, where there is none (ide.c:484, 586), so *)
(* that the drives' interrupts stay on.                                    *)
(***************************************************************************)
EXTENDS Integers, Sequences, FiniteSetsExt

CONSTANTS
    WordsPerSector, \* IDE_ATA_WORDS_PER_SECTOR, IDE_ATAPI_WORDS_PER_SECTOR
    MaxPart,        \* IDE_ATA_MAX_SECTORS_PER_OPERATION
    Wide,           \* 2^24, from where on an address takes LBA48
    Heads,          \* 16
    Sectors,        \* 63
    Layouts,        \* the drives there may be: functions from a subset of Index to
                    \* [type, lba]: what it is, and whether it takes linear addresses
    Lbas, Counts,   \* the arguments of the clients
    MaxCalls,       \* bound: how many calls they make
    MaxFailures     \* bound: how many sectors drives fail to read or write

Index == {0, 1}             \* IDE_DEV_MASTER, IDE_DEV_SLAVE
ATA == 0                    \* IDE_DEV_ATA
ATAPI == 1                  \* IDE_DEV_ATAPI

ASSUME DrivesAssumption ==
    /\ WordsPerSector \in Nat \ {0} /\ MaxPart \in Nat \ {0} /\ MaxCalls \in Nat /\ MaxFailures \in Nat
    /\ Wide \in Nat \ {0} /\ Heads \in Nat \ {0} /\ Sectors \in Nat \ {0}
    /\ Lbas \subseteq Nat /\ Counts \subseteq Nat \ {0}
    /\ \A layout \in Layouts :
          DOMAIN layout \subseteq Index /\ \A i \in DOMAIN layout : layout[i] \in [type : {ATA, ATAPI}, lba : BOOLEAN]

VARIABLES
    \* the drives and the interrupt controller
    attached,       \* the layout
    drive,          \* what each drive does: [phase, cmd, sector, blocks, word]
    selected,       \* the drive the registers speak to
    line,           \* the drives that ask for an interrupt
    latched,        \* the interrupt controller has seen the channel's line rise
    failures,
    \* ide.c
    IRQInvoked,     \* PrimaryIRQInvoked, or SecondaryIRQInvoked
    Devices,        \* the drives found: [Index, Type, lba]
    pc,             \* the statement the main flow is at
    initIndex,      \* devIndex of IDEInitDev
    call,           \* the client's call: [op, dev, lba, count]
    done,           \* the sectors of its finished parts
    word,           \* the words of the part that runs
    \* history
    status,         \* what the last call returned
    moved,          \* the words of the call: <<drive, sector, word, place in the buffer>>
    refused,        \* a drive has failed in this call
    calls

hardware == <<attached, drive, selected, line, latched, failures>>
program == <<IRQInvoked, Devices, pc, initIndex, call, done, word>>
vars == <<hardware, program, status, moved, refused, calls>>

-----------------------------------------------------------------------------
\* The drives

Idle == [phase |-> "idle", cmd |-> "none", sector |-> 0, blocks |-> 0, word |-> 0]

Failed == [Idle EXCEPT !.phase = "failed"]

Phase == IF selected \in DOMAIN attached THEN drive[selected].phase ELSE "idle"

\* ATA_STATUS_BUSY, ATA_STATUS_DATA_REQ_READY, ATA_STATUS_ERROR
Busy == Phase = "busy"
DataReq == Phase = "data"
Error == Phase = "failed"

\* Drive i is given a command for a number of blocks from a sector on; a busy drive, or
\* none, does not take it.
Commanded(i, cmd, sector, blocks) ==
    IF i \in DOMAIN attached /\ drive[i].phase # "busy"
    THEN [drive EXCEPT ![i] =
             [phase |-> "busy", cmd |-> cmd, sector |-> sector, blocks |-> blocks, word |-> 0]]
    ELSE drive

Understood(i) ==
    drive[i].cmd \in IF attached[i].type = ATA THEN {"identify", "read", "write", "writing"}
                     ELSE {"identifyPacket", "packet", "packetRead"}

\* The next block of data; packets and first blocks are asked for without an interrupt.
AskForData(i) ==
    /\ Understood(i) /\ drive[i].blocks > 0
    /\ drive' = [drive EXCEPT ![i].phase = "data"]
    /\ line' = IF drive[i].cmd \in {"packet", "write"} THEN line ELSE line \cup {i}
    /\ UNCHANGED <<failures, refused>>

Finish(i) ==
    /\ Understood(i) /\ drive[i].blocks = 0
    /\ drive' = [drive EXCEPT ![i] = Idle]
    /\ line' = line \cup {i}
    /\ UNCHANGED <<failures, refused>>

\* A sector cannot be read or written, or the command is not one for this drive.
Fail(i) ==
    /\ \/ ~Understood(i) /\ UNCHANGED failures
       \/ /\ drive[i].cmd \in {"read", "write", "writing", "packetRead"}
          /\ failures < MaxFailures /\ failures' = failures + 1
    /\ drive' = [drive EXCEPT ![i] = Failed]
    /\ line' = line \cup {i} /\ refused' = TRUE

\* The interrupt controller sees the line of the selected drive rise.
Latch == latched' = (latched \/ (selected' \in line' /\ selected \notin line))

Ready(i) ==
    /\ drive[i].phase = "busy"
    /\ AskForData(i) \/ Finish(i) \/ Fail(i)
    /\ UNCHANGED <<attached, selected, program, status, moved, calls>>
    /\ Latch

\* A drive after the last word of a block.
NextBlock(d) ==
    CASE d.cmd = "read" /\ d.blocks = 1       -> Idle
      [] d.cmd \in {"identify", "identifyPacket"} -> Idle
      [] d.cmd = "write" -> [d EXCEPT !.phase = "busy", !.cmd = "writing", !.word = 0,
                                      !.sector = @ + 1, !.blocks = @ - 1]
      [] OTHER           -> [d EXCEPT !.phase = "busy", !.word = 0, !.sector = @ + 1, !.blocks = @ - 1]

NextWord(d) == IF d.word + 1 < WordsPerSector THEN [d EXCEPT !.word = @ + 1] ELSE NextBlock(d)

\* A read of the status takes the interrupt request back.
ReadStatus == line' = line \ {selected} /\ UNCHANGED latched

PrimaryATAHandler ==
    /\ latched
    /\ IRQInvoked' = TRUE /\ latched' = FALSE
    /\ UNCHANGED <<attached, drive, selected, line, failures, Devices, pc, initIndex, call, done, word,
                   status, moved, refused, calls>>

-----------------------------------------------------------------------------
\* IDEInitDevs

transfer == <<call, done, word, status, moved, refused, calls>>

Identify ==
    /\ pc = "identify"
    /\ selected' = initIndex
    /\ drive' = Commanded(initIndex, "identify", 0, 1)
    /\ pc' = "identified"
    /\ UNCHANGED <<attached, line, failures, IRQInvoked, Devices, initIndex, transfer>>
    /\ Latch

NextDev ==
    IF initIndex = 0 THEN initIndex' = 1 /\ pc' = "identify"
    ELSE pc' = "idle" /\ UNCHANGED initIndex

NoDrive ==
    /\ pc = "identified" /\ selected \notin DOMAIN attached
    /\ NextDev /\ ReadStatus
    /\ UNCHANGED <<attached, drive, selected, failures, IRQInvoked, Devices, transfer>>

\* The data of the identification is read; the drive is one of type.
Found(type) ==
    /\ drive' = [drive EXCEPT ![selected] = NextBlock(@)]
    /\ Devices' = Append(Devices, [Index |-> initIndex, Type |-> type, lba |-> attached[selected].lba])
    /\ NextDev /\ ReadStatus
    /\ UNCHANGED <<attached, selected, failures, IRQInvoked, transfer>>

FoundATA == pc = "identified" /\ DataReq /\ Found(ATA)

\* The command is refused and the registers hold the signature of a packet drive.
Signature ==
    /\ pc = "identified" /\ Error
    /\ drive' = Commanded(selected, "identifyPacket", 0, 1)
    /\ pc' = "identifiedPacket"
    /\ ReadStatus
    /\ UNCHANGED <<attached, selected, failures, IRQInvoked, Devices, initIndex, transfer>>

\* Nothing is waited for but one tick, in which the drive is taken to be ready.
FoundATAPI_AsATA == pc = "identifiedPacket" /\ DataReq /\ Found(ATA)

FoundATAPI == pc = "identifiedPacket" /\ DataReq /\ Found(ATAPI)

-----------------------------------------------------------------------------
\* IDEReadSectors and IDEWriteSectors

Dev == Devices[call.dev]

Return(s) == pc' = "idle" /\ status' = s

\* The sectors of the part that runs, and the first of them.
Part == IF Dev.Type = ATA THEN Min({MaxPart, call.count - done}) ELSE 1
PartLba == call.lba + done

CallSectors(op, dev, lba, count) ==
    /\ pc = "idle" /\ calls < MaxCalls /\ dev \in 1 .. Len(Devices)
    /\ call' = [op |-> op, dev |-> dev, lba |-> lba, count |-> count]
    /\ done' = 0 /\ word' = 0 /\ moved' = <<>> /\ refused' = FALSE /\ calls' = calls + 1
    /\ CASE Devices[dev].Type = ATA                    -> pc' = "command" /\ UNCHANGED status
         [] Devices[dev].Type = ATAPI /\ op = "read"  -> pc' = "wait1" /\ UNCHANGED status
         [] Devices[dev].Type = ATAPI /\ op = "write" -> Return("UNKNOWN_MODE")
    /\ UNCHANGED <<hardware, IRQInvoked, Devices, initIndex>>

\* The part is complete; the buffer is advanced by as much as was asked for.
EndPart ==
    /\ word' = 0 /\ done' = done + Part
    /\ IF done + Part = call.count THEN Return("SUCCESS")
       ELSE pc' = (IF Dev.Type = ATA THEN "command" ELSE "wait1") /\ UNCHANGED status

FailPart(s) == Return(s) /\ UNCHANGED <<done, word>>

\* Words n of the block, read or written at a place of the buffer.
Moved(d, n) == <<selected, d.sector, d.word + n, done * WordsPerSector + word + n>>

-----------------------------------------------------------------------------
\* IDEATAReadSector, IDEATAWriteSector

NoLBA == PartLba >= Wide /\ ~Dev.lba

RefuseAddress ==
    /\ pc = "command" /\ Dev.Type = ATA /\ NoLBA
    /\ FailPart("NO_LBA")
    /\ UNCHANGED <<hardware, IRQInvoked, Devices, initIndex, call, moved, refused, calls>>

CHSRegisters_SectorFromZero(lba) ==
    LET sector == lba % Sectors
    IN [mode |-> "CHS", sector |-> sector,
        cylinder |-> (lba + 1 - sector) \div (Heads * Sectors),
        head |-> ((lba + 1 - sector) % (Heads * Sectors)) \div Sectors]

CHSRegisters(lba) ==
    LET sector == (lba % Sectors) + 1
    IN [mode |-> "CHS", sector |-> sector,
        cylinder |-> (lba + 1 - sector) \div (Heads * Sectors),
        head |-> ((lba + 1 - sector) % (Heads * Sectors)) \div Sectors]

\* What is written to the registers.
Registers(lba) ==
    CASE lba >= Wide -> [mode |-> "LBA48", low |-> lba % Wide, high |-> lba \div Wide]
      [] lba < Wide /\ Dev.lba -> [mode |-> "LBA28", low |-> lba, head |-> 0]
      [] lba < Wide /\ ~Dev.lba -> CHSRegisters(lba)

\* The sector that a drive takes them for.
Addressed(r) ==
    CASE r.mode = "CHS"   -> (r.cylinder * Heads + r.head) * Sectors + r.sector - 1
      [] r.mode = "LBA28" -> r.low + r.head * Wide
      [] r.mode = "LBA48" -> r.low + r.high * Wide

\* The drive is selected by its Type where its Index is meant.
Drive == Dev.Type

Command ==
    /\ pc = "command" /\ Dev.Type = ATA /\ ~NoLBA /\ ~Busy
    /\ selected' = Drive
    /\ drive' = Commanded(Drive, call.op, Addressed(Registers(PartLba)), Part)
    /\ line' = line \ {selected}
    /\ latched' = (latched \/ selected' \in line')
    /\ pc' = "words"
    /\ UNCHANGED <<attached, failures, IRQInvoked, Devices, initIndex, transfer>>

MoveWord ==
    /\ IF DataReq
       THEN /\ moved' = Append(moved, Moved(drive[selected], 0))
            /\ drive' = [drive EXCEPT ![selected] = NextWord(@)]
       ELSE UNCHANGED <<moved, drive>>
    /\ IF word + 1 = Part * WordsPerSector THEN EndPart
       ELSE word' = word + 1 /\ UNCHANGED <<pc, status, done>>

\* IDEPoll has returned.
Polled == ~Busy

ReadWord ==
    /\ pc = "words" /\ call.op = "read" /\ Polled
    /\ CASE Error                -> FailPart("ERROR") /\ UNCHANGED <<moved, drive>>
         [] ~Error /\ ~DataReq  -> FailPart("DATA_REQ_NOT_READY") /\ UNCHANGED <<moved, drive>>
         [] ~Error /\ DataReq   -> MoveWord
    /\ ReadStatus
    /\ UNCHANGED <<attached, selected, failures, IRQInvoked, Devices, initIndex, call, refused, calls>>

\* The poll before a write does not look at what the status says.
WriteWord ==
    /\ pc = "words" /\ call.op = "write" /\ Polled
    /\ MoveWord
    /\ ReadStatus
    /\ UNCHANGED <<attached, selected, failures, IRQInvoked, Devices, initIndex, call, refused, calls>>

-----------------------------------------------------------------------------
\* IDEATAPIReadSector

\* IDEWaitIRQ sees the flag, and clears it in a step of its own.
WaitIRQ ==
    /\ IRQInvoked
    /\ \/ pc = "wait1" /\ pc' = "packet"
       \/ pc = "wait2" /\ pc' = "clear2"
       \/ pc = "wait3" /\ pc' = "clear3"
    /\ UNCHANGED <<hardware, IRQInvoked, Devices, initIndex, transfer>>

ClearIRQ_WaitAgain ==
    /\ \/ pc = "clear2" /\ pc' = "wait2"
       \/ pc = "clear3" /\ pc' = "end"
    /\ IRQInvoked' = FALSE
    /\ UNCHANGED <<hardware, Devices, initIndex, transfer>>

ClearIRQ ==
    /\ \/ pc = "clear2" /\ pc' = "data"
       \/ pc = "clear3" /\ pc' = "end"
    /\ IRQInvoked' = FALSE
    /\ UNCHANGED <<hardware, Devices, initIndex, transfer>>

\* The flag is cleared and the command given, whatever the other drive is doing.
PacketCommand ==
    /\ pc = "packet"
    /\ IRQInvoked' = FALSE
    /\ selected' = Drive
    /\ drive' = Commanded(Drive, "packet", 0, 1)
    /\ pc' = "send"
    /\ UNCHANGED <<attached, line, failures, Devices, initIndex, transfer>>
    /\ Latch

\* The first and the last of four bytes changed, for numbers of one byte: the packet has
\* its numbers in the processor's order, and a drive takes the first byte for the highest.
Swapped(n) == n * 256 * 256 * 256

SendPacket ==
    /\ pc = "send" /\ Polled
    /\ CASE Error                -> FailPart("ERROR") /\ UNCHANGED drive
         [] ~Error /\ ~DataReq  -> FailPart("DATA_REQ_NOT_READY") /\ UNCHANGED drive
         [] ~Error /\ DataReq   ->
              /\ drive' = [drive EXCEPT ![selected] =
                             [phase |-> "busy", cmd |-> "packetRead", word |-> 0,
                              sector |-> Swapped(PartLba), blocks |-> Swapped(1)]]
              /\ pc' = "wait2" /\ UNCHANGED <<status, done, word>>
    /\ ReadStatus
    /\ UNCHANGED <<attached, selected, failures, IRQInvoked, Devices, initIndex, call, moved, refused, calls>>

ReadSector ==
    /\ pc = "data" /\ Polled
    /\ CASE Error                -> FailPart("ERROR") /\ UNCHANGED <<moved, drive>>
         [] ~Error /\ ~DataReq  -> FailPart("DATA_REQ_NOT_READY") /\ UNCHANGED <<moved, drive>>
         [] ~Error /\ DataReq   ->
              /\ moved' = moved \o [n \in 1 .. WordsPerSector |-> Moved(drive[selected], n - 1)]
              /\ drive' = [drive EXCEPT ![selected] = NextBlock(@)]
              /\ pc' = "wait3" /\ UNCHANGED <<status, done, word>>
    /\ ReadStatus
    /\ UNCHANGED <<attached, selected, failures, IRQInvoked, Devices, initIndex, call, refused, calls>>

EndSector ==
    /\ pc = "end" /\ ~Busy /\ ~DataReq
    /\ EndPart
    /\ ReadStatus
    /\ UNCHANGED <<attached, drive, selected, failures, IRQInvoked, Devices, initIndex, call, moved, refused, calls>>

-----------------------------------------------------------------------------

Init ==
    /\ attached \in Layouts
    /\ drive = [i \in Index |-> Idle]
    /\ selected = 0 /\ line = {} /\ latched = FALSE /\ failures = 0
    /\ IRQInvoked = FALSE /\ Devices = <<>>
    /\ pc = "identify" /\ initIndex = 0
    /\ call = [op |-> "read", dev |-> 0, lba |-> 0, count |-> 0]
    /\ done = 0 /\ word = 0
    /\ status = "SUCCESS" /\ moved = <<>> /\ refused = FALSE /\ calls = 0

Main ==
    \/ Identify \/ NoDrive \/ FoundATA \/ Signature \/ FoundATAPI
    \/ RefuseAddress \/ Command \/ ReadWord \/ WriteWord
    \/ WaitIRQ \/ ClearIRQ \/ PacketCommand \/ SendPacket \/ ReadSector \/ EndSector

Next ==
    \/ Main
    \/ \E op \in {"read", "write"}, dev \in {1, 2}, lba \in Lbas, count \in Counts :
          CallSectors(op, dev, lba, count)
    \/ \E i \in Index : Ready(i)
    \/ PrimaryATAHandler

\* The processor executes the main flow and takes interrupts; a busy drive gets ready.
Fairness ==
    /\ WF_vars(Main) /\ WF_vars(PrimaryATAHandler)
    /\ \A i \in Index : WF_vars(Ready(i))

Spec == Init /\ [][Next]_vars /\ Fairness

-----------------------------------------------------------------------------
\* Properties

Phases == {"idle", "busy", "data", "failed"}

Commands == {"none", "identify", "identifyPacket", "read", "write", "writing", "packet", "packetRead"}

\* Types of the variables; the drives that are there are found, with their types, and
\* each once (ide.c:509-569).
TypeOK ==
    /\ attached \in Layouts
    /\ drive \in [Index -> [phase : Phases, cmd : Commands, sector : Nat, blocks : Nat,
                            word : 0 .. WordsPerSector - 1]]
    /\ selected \in Index /\ line \subseteq Index /\ latched \in BOOLEAN /\ failures \in 0 .. MaxFailures
    /\ IRQInvoked \in BOOLEAN /\ refused \in BOOLEAN
    /\ Devices \in Seq([Index : Index, Type : {ATA, ATAPI}, lba : BOOLEAN])
    /\ \A j, k \in 1 .. Len(Devices) : j # k => Devices[j].Index # Devices[k].Index
    /\ \A k \in 1 .. Len(Devices) : Devices[k].Type = attached[Devices[k].Index].type
    /\ pc = "idle" => {Devices[k].Index : k \in 1 .. Len(Devices)} = DOMAIN attached
    /\ pc \in {"identify", "identified", "identifiedPacket", "idle", "command", "words", "wait1",
               "packet", "send", "wait2", "clear2", "data", "wait3", "clear3", "end"}
    /\ initIndex \in Index /\ done \in Nat /\ word \in Nat /\ calls \in 0 .. MaxCalls

\* Code that selects a drive by its type reaches the right one for an ATA master and a
\* packet slave.
InPlace == Dev.Index = Dev.Type

\* The words of sectors lba .. lba + count - 1 of the drive, each once and in its place.
Wanted ==
    [k \in 1 .. call.count * WordsPerSector |->
        <<Dev.Index, call.lba + (k - 1) \div WordsPerSector, (k - 1) % WordsPerSector, k - 1>>]

Returns == pc # "idle" /\ pc' = "idle" /\ calls > 0

\* No packet drive shares the channel with the one that is written to: a packet command
\* does not wait for the other drive, and the next write waits for the drive selected last
\* (ide.c:248, 324, 370).
Alone == \A i \in DOMAIN attached : attached[i].type = ATA

\* A transfer from or to a disk that reports success has moved the sectors it was asked
\* for, whatever their address, number and the drive's pace (ide.c:136-358).  A write may
\* report success all the same when the drive has failed a sector (ide.c:349) or a packet
\* command was given while the disk still wrote.
TransfersRight ==
    [][Returns /\ status' = "SUCCESS" /\ Dev.Type = ATA /\ InPlace
       /\ (call.op = "write" => Alone /\ ~refused)
        => moved' = Wanted]_vars

\* Whatever drive is asked for is the one that words come from and go to: Index is
\* "IDE_DEV_MASTER/IDE_DEV_SLAVE", Type is "IDE_DEV_ATA/IDE_DEV_ATAPI" (ide.h:133-134).
ReachesItsDrive ==
    [][moved' # moved /\ moved' # <<>> => moved'[Len(moved')][1] = Dev.Index]_vars

\* Every transfer from or to an ATA drive returns, although no wait in it has an end
\* (ide.c:248, 612), and no interrupt of a packet is lost between its waits, in which the
\* flag is tested and cleared in steps of their own (ide.c:100-105).  Two waits of a packet
\* may last for ever: for the interrupt before the command, since no drive may have
\* interrupted, and for the drive to take its data request back (ide.c:397).
WaitsEnd ==
    /\ (pc \in {"command", "words"}) ~> (pc = "idle")
    /\ (pc = "wait2") ~> (pc # "wait2")
    /\ (pc = "wait3") ~> (pc # "wait3")

==============================================================================
