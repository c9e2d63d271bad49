------------------------------ MODULE IDEProofs ------------------------------
(***************************************************************************)
(* What TLAPS proves of the two drives of an IDE channel, for drives of    *)
(* any layout and pace, sectors and parts of any size, addresses of every  *)
(* mode and any number of calls and failures.                              *)
(***************************************************************************)
EXTENDS IDE, TLAPS

-----------------------------------------------------------------------------
\* The invariant

Identifying == pc \in {"identify", "identified", "identifiedPacket"}

\* The drives that IDEInitDevs has looked for.
LookedFor == {i \in Index : Identifying => i < initIndex}

DriveState ==
    [phase : Phases, cmd : Commands, sector : Nat, blocks : Nat, word : 0 .. WordsPerSector - 1]

Typed ==
    /\ attached \in Layouts
    /\ drive \in [Index -> DriveState]
    /\ selected \in Index /\ line \subseteq Index /\ latched \in BOOLEAN
    /\ failures \in 0 .. MaxFailures
    /\ IRQInvoked \in BOOLEAN /\ refused \in BOOLEAN
    /\ pc \in {"identify", "identified", "identifiedPacket", "idle", "command", "words", "wait1",
               "packet", "send", "wait2", "clear2", "data", "wait3", "clear3", "end"}
    /\ initIndex \in Index /\ done \in Nat /\ word \in Nat /\ calls \in 0 .. MaxCalls
    /\ call \in [op : {"read", "write"}, dev : Nat, lba : Nat, count : Nat]

\* The drives looked for and there are in the list, each once and with its type.
Listed ==
    /\ Devices \in Seq([Index : Index, Type : {ATA, ATAPI}, lba : BOOLEAN])
    /\ \A j, k \in 1 .. Len(Devices) : j # k => Devices[j].Index # Devices[k].Index
    /\ \A k \in 1 .. Len(Devices) : Devices[k].Type = attached[Devices[k].Index].type
    /\ {Devices[k].Index : k \in 1 .. Len(Devices)} = DOMAIN attached \cap LookedFor

\* A drive that is not there does nothing; one that has data was given a command it knows.
Behaved ==
    \A i \in Index :
        /\ i \notin DOMAIN attached => drive[i] = Idle
        /\ i \in DOMAIN attached /\ drive[i].phase = "data" => Understood(i) /\ drive[i].blocks > 0

\* While the drives are looked for only the one in question does anything, and a packet
\* drive alone refuses its identification.
Identification ==
    Identifying =>
        /\ calls = 0
        /\ \A i \in Index : pc = "identify" \/ i # initIndex => drive[i] = Idle
        /\ pc # "identify" => selected = initIndex
        /\ pc = "identified" /\ initIndex \in DOMAIN attached =>
              \/ /\ drive[initIndex].phase \in {"busy", "data"} /\ drive[initIndex].blocks > 0
                 /\ drive[initIndex].cmd = "identify"
              \/ drive[initIndex].phase = "failed" /\ attached[initIndex].type = ATAPI
        /\ pc = "identifiedPacket" =>
              /\ initIndex \in DOMAIN attached /\ attached[initIndex].type = ATAPI
              /\ drive[initIndex].phase \in {"busy", "data"} /\ drive[initIndex].blocks > 0
              /\ drive[initIndex].cmd = "identifyPacket"

\* A call is for a drive of the list and has a part to go.
Calling ==
    ~Identifying /\ pc # "idle" =>
        /\ call.dev \in 1 .. Len(Devices) /\ done < call.count
        /\ Dev.Type = IF pc \in {"command", "words"} THEN ATA ELSE ATAPI
        /\ IF pc = "words" THEN word < Part * WordsPerSector ELSE word = 0
        /\ pc \in {"words", "send", "wait2", "clear2", "data", "wait3", "clear3", "end"} =>
              selected = Drive

FirstIsDisk == 0 \in DOMAIN attached /\ attached[0].type = ATA

\* Nothing is left of a command but the end of a write.
Resting(d) ==
    \/ d.phase \in {"idle", "failed"}
    \/ d.phase = "busy" /\ d.cmd = "writing" /\ d.blocks = 0

\* A disk with w words of a part moved that starts at sector first.
AtWord(d, op, first, part, w) ==
    /\ d.phase \in {"busy", "data"}
    /\ d.cmd \in IF op = "read" THEN {"read"} ELSE {"write", "writing"}
    /\ d.sector = first + w \div WordsPerSector
    /\ d.word = w % WordsPerSector
    /\ d.blocks + w \div WordsPerSector = part

\* The disk is where the loop over the words is.
InStep == AtWord(drive[0], call.op, PartLba, Part, word)

DiskInStep ==
    FirstIsDisk /\ ~Identifying => Resting(drive[0]) \/ (pc = "words" /\ InStep)

\* The write is one whose success means something.
Trusted == call.op = "write" => Alone /\ ~refused

\* The word in place k of the buffer (from 1), of sectors from lba on.
WordAt(lba, k) == <<0, lba + (k - 1) \div WordsPerSector, (k - 1) % WordsPerSector, k - 1>>

MovedSoFar ==
    FirstIsDisk /\ pc \in {"command", "words"} /\ Trusted =>
        /\ moved = [k \in 1 .. done * WordsPerSector + word |-> WordAt(call.lba, k)]
        /\ pc = "words" /\ call.op = "write" => InStep

\* A disk that has no packet drive beside it is waited for before the next command.
WaitedFor == FirstIsDisk /\ Alone /\ drive[0].phase = "busy" => selected = 0

DrivesInv ==
    /\ Typed /\ Listed /\ Behaved /\ Identification /\ Calling
    /\ DiskInStep /\ MovedSoFar /\ WaitedFor

-----------------------------------------------------------------------------
\* Words, sectors and addresses

LEMMA Quotients ==
    ASSUME NEW x \in Nat, NEW w \in Nat \ {0}
    PROVE  /\ x \div w \in Nat /\ x % w \in 0 .. w - 1
           /\ x = (x \div w) * w + (x % w)
BY SMT

\* The quotient and the rest are the only numbers like them.
LEMMA QuotientUnique ==
    ASSUME NEW x \in Nat, NEW w \in Nat \ {0}, NEW q \in Nat, NEW r \in 0 .. w - 1,
           x = q * w + r
    PROVE  x \div w = q /\ x % w = r
BY SMT

\* The next word is the next of its sector, or the first of the next.
LEMMA NextQuotient ==
    ASSUME NEW x \in Nat, NEW w \in Nat \ {0}
    PROVE  IF (x % w) + 1 < w
           THEN (x + 1) \div w = x \div w /\ (x + 1) % w = (x % w) + 1
           ELSE (x + 1) \div w = (x \div w) + 1 /\ (x + 1) % w = 0
<1> DEFINE q == x \div w
           r == x % w
<1>1. q \in Nat /\ r \in 0 .. w - 1 /\ x = q * w + r
  BY Quotients
<1> HIDE DEF q, r
<1>2. CASE r + 1 < w
  <2>1. x + 1 = q * w + (r + 1) /\ r + 1 \in 0 .. w - 1 /\ x + 1 \in Nat
    BY <1>1, <1>2
  <2> QED
    BY <1>1, <1>2, <2>1, QuotientUnique DEF q, r
<1>3. CASE ~(r + 1 < w)
  <2>1. r + 1 = w
    BY <1>1, <1>3
  <2>2. (q + 1) * w = q * w + w /\ q * w \in Nat
    BY <1>1
  <2>3. x + 1 = (q + 1) * w + 0 /\ 0 \in 0 .. w - 1 /\ x + 1 \in Nat /\ q + 1 \in Nat
    BY <1>1, <2>1, <2>2
  <2> QED
    BY <1>1, <1>3, <2>3, QuotientUnique DEF q, r
<1> QED
  BY <1>2, <1>3

LEMMA QuotientBelow ==
    ASSUME NEW x \in Nat, NEW w \in Nat \ {0}, NEW p \in Nat, x < p * w
    PROVE  x \div w < p
<1> DEFINE q == x \div w
<1>1. q \in Nat /\ q * w <= x
  BY Quotients
<1> HIDE DEF q
<1>2. p <= q => p * w <= q * w
  BY <1>1
<1> QED
  BY <1>1, <1>2 DEF q

\* Words after some whole sectors.
LEMMA QuotientShifted ==
    ASSUME NEW x \in Nat, NEW w \in Nat \ {0}, NEW d \in Nat
    PROVE  (d * w + x) \div w = d + (x \div w) /\ (d * w + x) % w = x % w
<1> DEFINE q == x \div w
           r == x % w
<1>1. q \in Nat /\ r \in 0 .. w - 1 /\ x = q * w + r
  BY Quotients
<1> HIDE DEF q, r
<1>2. (d + q) * w = d * w + q * w /\ d * w \in Nat /\ q * w \in Nat
  BY <1>1
<1>3. d * w + x = (d + q) * w + r /\ d * w + x \in Nat /\ d + q \in Nat
  BY <1>1, <1>2
<1> QED
  BY <1>1, <1>3, QuotientUnique DEF q, r

\* What is written to the registers is the address of the sector, in each of the modes
\* (ide.c:136-180).
LEMMA SectorAddressed ==
    ASSUME NEW lba \in Nat, Dev.lba \in BOOLEAN
    PROVE  Addressed(Registers(lba)) = lba
<1> USE DrivesAssumption
<1>1. CASE lba >= Wide
  <2>1. lba = (lba \div Wide) * Wide + (lba % Wide)
    BY Quotients
  <2>2. Registers(lba) = [mode |-> "LBA48", low |-> lba % Wide, high |-> lba \div Wide]
    BY <1>1 DEF Registers
  <2> QED
    BY <2>1, <2>2, Quotients DEF Addressed
<1>2. CASE lba < Wide /\ Dev.lba
  <2>1. Registers(lba) = [mode |-> "LBA28", low |-> lba, head |-> 0]
    BY <1>2 DEF Registers
  <2> QED
    BY <2>1 DEF Addressed
<1>3. CASE lba < Wide /\ ~Dev.lba
  <2> DEFINE track == lba \div Sectors
             s == lba % Sectors
             n == lba + 1 - (s + 1)
  <2>1. track \in Nat /\ s \in 0 .. Sectors - 1 /\ lba = track * Sectors + s
    BY Quotients
  <2>2. n = track * Sectors /\ n \in Nat
    BY <2>1
  <2> HIDE DEF track, s
  <2> DEFINE cylinder == n \div (Heads * Sectors)
             rest == n % (Heads * Sectors)
  <2>3. Heads * Sectors \in Nat \ {0}
    OBVIOUS
  <2>4. /\ cylinder \in Nat /\ rest \in 0 .. (Heads * Sectors) - 1
        /\ n = cylinder * (Heads * Sectors) + rest
    BY <2>2, <2>3, Quotients
  <2> HIDE DEF n, cylinder, rest
  <2>5. (rest \div Sectors) * Sectors = rest
    <3>1. cylinder * (Heads * Sectors) = (cylinder * Heads) * Sectors
      BY <2>4
    <3> DEFINE a == cylinder * Heads
    <3>2. a \in Nat
      BY <2>4
    <3> HIDE DEF a
    <3>3. rest = (track - a) * Sectors
      BY <2>1, <2>2, <2>4, <3>1, <3>2 DEF a
    <3> DEFINE b == track - a
    <3>4. b \in Int /\ rest = b * Sectors /\ rest \in Nat
      BY <2>1, <2>4, <3>2, <3>3
    <3> HIDE DEF b
    <3>5. b \in Nat
      BY <3>4
    <3>6. rest \div Sectors = b
      BY <3>4, <3>5, QuotientUnique
    <3> QED
      BY <3>4, <3>6
  <2>6. Registers(lba) = [mode |-> "CHS", sector |-> s + 1, cylinder |-> cylinder,
                          head |-> rest \div Sectors]
    BY <1>3 DEF Registers, CHSRegisters, s, n, cylinder, rest
  <2>7. Addressed(Registers(lba)) = (cylinder * Heads + rest \div Sectors) * Sectors + (s + 1) - 1
    BY <2>6 DEF Addressed
  <2> DEFINE h == rest \div Sectors
  <2>8. h \in Nat
    BY <2>4, Quotients
  <2>9. (cylinder * Heads + h) * Sectors = cylinder * (Heads * Sectors) + h * Sectors
    <3> HIDE DEF h
    <3> QED
      BY <2>4, <2>8
  <2> QED
    BY <2>1, <2>2, <2>4, <2>5, <2>7, <2>8, <2>9
<1> QED
  BY <1>1, <1>2, <1>3

-----------------------------------------------------------------------------
\* The parts of a call

\* A part is not empty and does not pass the end of the call.
LEMMA PartBounds ==
    ASSUME Typed, done < call.count
    PROVE  /\ Part \in Nat /\ Part > 0 /\ done + Part <= call.count
           /\ Part * WordsPerSector \in Nat
<1>1. Part \in Nat /\ Part > 0 /\ done + Part <= call.count
  <2> DEFINE n == call.count - done
  <2>1. n \in Nat \ {0} /\ MaxPart \in Nat \ {0} /\ done \in Nat /\ call.count \in Nat
    BY DrivesAssumption DEF Typed
  <2>2. Min({MaxPart, n}) \in {MaxPart, n} /\ Min({MaxPart, n}) <= n
    <3> HIDE DEF n
    <3>1. PICK m \in {MaxPart, n} : \A y \in {MaxPart, n} : m <= y
      <4>1. CASE MaxPart <= n
        BY <2>1, <4>1
      <4>2. CASE ~(MaxPart <= n)
        BY <2>1, <4>2
      <4> QED
        BY <4>1, <4>2
    <3>2. /\ Min({MaxPart, n}) \in {MaxPart, n}
          /\ \A y \in {MaxPart, n} : Min({MaxPart, n}) <= y
      BY <3>1 DEF Min
    <3> QED
      BY <3>2
  <2> QED
    BY <2>1, <2>2 DEF Part
<1> QED
  BY <1>1, DrivesAssumption

\* A block of a part that has a word to go has not been counted.
LEMMA BlocksLeft ==
    ASSUME Typed, done < call.count, word < Part * WordsPerSector, NEW d \in DriveState,
           NEW op, NEW first, AtWord(d, op, first, Part, word)
    PROVE  d.blocks > 0
<1> DEFINE p == Part
           q == word \div WordsPerSector
<1>1. p \in Nat /\ word \in Nat /\ WordsPerSector \in Nat \ {0} /\ word < p * WordsPerSector
  BY PartBounds, DrivesAssumption DEF Typed
<1>2. q \in Nat /\ q < p
  BY <1>1, QuotientBelow, Quotients
<1>3. d.blocks + q = p /\ d.blocks \in Nat
  BY DEF AtWord, DriveState
<1> HIDE DEF p, q
<1> QED
  BY <1>2, <1>3

-----------------------------------------------------------------------------
\* The steps

LEMMA DrivesInitially == Init => DrivesInv
<1> SUFFICES ASSUME Init PROVE DrivesInv
  OBVIOUS
<1>1. Identifying /\ LookedFor = {} /\ Devices = <<>> /\ Len(Devices) = 0
  BY DEF Init, Identifying, LookedFor, Index
<1>2. Typed
  BY DrivesAssumption DEF Init, Typed, Idle, DriveState, Phases, Commands, Index
<1>3. Listed
  <2>1. Devices \in Seq([Index : Index, Type : {ATA, ATAPI}, lba : BOOLEAN]) /\ 1 .. Len(Devices) = {}
    BY <1>1
  <2> QED
    BY <1>1, <2>1 DEF Listed
<1>4. Behaved /\ Identification /\ WaitedFor
  BY DEF Init, Behaved, Identification, WaitedFor, Idle
<1> QED
  BY <1>1, <1>2, <1>3, <1>4 DEF DrivesInv, Calling, DiskInStep, MovedSoFar, Init

\* An interrupt handler, and a wait of a packet, touch nothing that the invariant is about.
LEMMA FlagsKeep ==
    ASSUME DrivesInv,
           UNCHANGED <<attached, drive, selected, failures, Devices, initIndex, call, done, word,
                       moved, refused, calls>>,
           line' \subseteq Index, latched' \in BOOLEAN, IRQInvoked' \in BOOLEAN,
           \/ pc' = pc
           \/ /\ pc \in {"wait1", "packet", "wait2", "clear2", "wait3", "clear3"}
              /\ pc' \in {"wait1", "packet", "wait2", "clear2", "data", "wait3", "clear3", "end"}
              /\ pc \in {"wait2", "clear2", "wait3", "clear3"} \/ pc' \in {"wait1", "packet"}
    PROVE  DrivesInv'
<1>1. Typed /\ Typed'
  BY DEF DrivesInv, Typed
<1>2. (Identifying' <=> Identifying) /\ LookedFor' = LookedFor
  BY <1>1 DEF Identifying, LookedFor
<1>3. Listed'
  BY <1>2 DEF DrivesInv, Listed
<1>4. Behaved'
  BY DEF DrivesInv, Behaved, Understood
<1>5. Identification'
  BY <1>2 DEF DrivesInv, Identification, Identifying
<1>6. Calling'
  BY <1>2 DEF DrivesInv, Calling, Dev, Part, Drive, Identifying
<1>7. DiskInStep' /\ MovedSoFar' /\ WaitedFor'
  BY <1>2
  DEF DrivesInv, DiskInStep, MovedSoFar, WaitedFor, FirstIsDisk, InStep, PartLba, Part, Dev,
      Trusted, Alone
<1> QED
  BY <1>1, <1>3, <1>4, <1>5, <1>6, <1>7 DEF DrivesInv

\* A drive that gets ready goes on where it was, or fails and says so.
LEMMA ReadyKeeps == ASSUME DrivesInv, NEW i \in Index, Ready(i) PROVE DrivesInv'
<1> DEFINE d == drive[i]
           e == drive'[i]
<1>1. /\ Typed /\ Listed /\ Behaved /\ Identification /\ Calling
      /\ DiskInStep /\ MovedSoFar /\ WaitedFor
  BY DEF DrivesInv
<1>2. /\ UNCHANGED <<attached, selected, IRQInvoked, Devices, pc, initIndex, call, done, word, moved, calls>>
      /\ d.phase = "busy" /\ d \in DriveState
  BY <1>1 DEF Ready, program, Typed
<1>3. i \in DOMAIN attached
  BY <1>1, <1>2 DEF Behaved, Idle
<1>4. /\ e \in DriveState /\ drive' = [drive EXCEPT ![i] = e]
      /\ line' \subseteq Index /\ refused' \in BOOLEAN /\ failures' \in 0 .. MaxFailures
      /\ \/ /\ e = [d EXCEPT !.phase = "data"] /\ d.blocks > 0 /\ Understood(i)
            /\ refused' = refused
         \/ e = Idle /\ d.blocks = 0 /\ refused' = refused
         \/ e = Failed /\ refused' /\ (~Understood(i) \/ d.cmd \in {"read", "write", "writing", "packetRead"})
  <2>1. drive \in [Index -> DriveState]
    BY <1>1 DEF Typed
  <2>2. CASE AskForData(i)
    BY <1>1, <1>2, <2>1, <2>2 DEF AskForData, DriveState, Phases, Typed
  <2>3. CASE Finish(i)
    BY <1>1, <1>2, <2>1, <2>3, DrivesAssumption
    DEF Finish, Idle, DriveState, Phases, Commands, Typed
  <2>4. CASE Fail(i)
    <3>1. failures' \in 0 .. MaxFailures
      BY <1>1, <2>4, DrivesAssumption DEF Fail, Typed
    <3>2. Failed \in DriveState
      BY DrivesAssumption DEF Failed, Idle, DriveState, Phases, Commands
    <3>3. line' \subseteq Index /\ drive' = [drive EXCEPT ![i] = Failed] /\ refused' = TRUE
      BY <1>1, <2>4 DEF Fail, Typed
    <3> QED
      BY <1>2, <2>1, <2>4, <3>1, <3>2, <3>3 DEF Fail
  <2> QED
    BY <2>2, <2>3, <2>4 DEF Ready
<1>5. /\ drive' \in [Index -> DriveState]
      /\ \A j \in Index : j # i => drive'[j] = drive[j]
  BY <1>1, <1>4 DEF Typed
<1> HIDE DEF d, e
<1>6. (Identifying' <=> Identifying) /\ LookedFor' = LookedFor
  BY <1>2 DEF Identifying, LookedFor
<1>7. Typed'
  BY <1>1, <1>2, <1>4, <1>5 DEF Typed, Ready, Latch
<1>8. Listed'
  BY <1>1, <1>2, <1>6 DEF Listed
<1>9. Behaved'
  <2>1. (drive'[i].phase = "data" => Understood(i)' /\ drive'[i].blocks > 0)
    BY <1>2, <1>4 DEF Understood, Idle, Failed, d, e, DriveState
  <2>2. ASSUME NEW j \in Index, j # i PROVE Understood(j)' = Understood(j)
    BY <1>2, <1>5, <2>2 DEF Understood
  <2> QED
    BY <1>1, <1>2, <1>3, <1>5, <2>1, <2>2 DEF Behaved
<1>10. Identification'
  <2> SUFFICES ASSUME Identifying PROVE Identification'
    BY <1>6 DEF Identification
  <2>1. i = initIndex /\ pc # "identify"
    BY <1>1, <1>2 DEF Identification, Idle, d
  <2>2. CASE pc = "identified"
    <3>1. d.cmd = "identify" /\ d.blocks > 0
      BY <1>1, <1>2, <1>3, <2>1, <2>2 DEF Identification, d
    <3>2. ~Understood(i) => attached[i].type = ATAPI
      <4>1. attached[i].type \in {ATA, ATAPI}
        BY <1>1, <1>3, DrivesAssumption DEF Typed
      <4> QED
        BY <3>1, <4>1 DEF Understood, d
    <3>3. \/ /\ e.phase = "data" /\ e.blocks > 0 /\ e.cmd = "identify"
          \/ e.phase = "failed" /\ attached[i].type = ATAPI
      BY <1>2, <1>4, <3>1, <3>2 DEF Failed, Idle, DriveState
    <3> QED
      BY <1>1, <1>2, <1>5, <2>1, <2>2, <3>3 DEF Identification, e
  <2>3. CASE pc = "identifiedPacket"
    <3>1. d.cmd = "identifyPacket" /\ d.blocks > 0 /\ attached[i].type = ATAPI
      BY <1>1, <1>2, <1>3, <2>1, <2>3 DEF Identification, d
    <3>2. Understood(i)
      BY <3>1 DEF Understood, d, ATA, ATAPI
    <3>3. e.phase = "data" /\ e.blocks > 0 /\ e.cmd = "identifyPacket"
      BY <1>2, <1>4, <3>1, <3>2 DEF DriveState
    <3> QED
      BY <1>1, <1>2, <1>5, <2>1, <2>3, <3>1, <3>3 DEF Identification, e
  <2> QED
    BY <2>1, <2>2, <2>3 DEF Identifying
<1>11. Calling'
  BY <1>1, <1>2, <1>6 DEF Calling, Dev, Part, Drive
<1>12. ASSUME pc = "words", ~Identifying,
              NEW op, NEW first, AtWord(d, op, first, Part, word)
       PROVE  AtWord(e, op, first, Part, word) \/ (Resting(e) /\ refused')
  <2>1. d.blocks > 0
    BY <1>1, <1>2, <1>12, BlocksLeft DEF Calling
  <2>2. CASE e = [d EXCEPT !.phase = "data"]
    BY <1>2, <1>12, <2>2 DEF AtWord, DriveState
  <2>3. CASE e = Failed /\ refused'
    BY <2>3 DEF Resting, Failed, Idle
  <2> QED
    BY <1>4, <2>1, <2>2, <2>3
<1>13. Resting(d) => Resting(e)
  BY <1>2, <1>4 DEF Resting, Idle, Failed
<1>14. /\ PartLba' = PartLba /\ Part' = Part
       /\ i = 0 => drive[0] = d /\ drive'[0] = e
       /\ i # 0 => drive'[0] = drive[0]
  BY <1>2, <1>5 DEF PartLba, Part, Dev, Index, d, e
<1>15. DiskInStep'
  <2> SUFFICES ASSUME FirstIsDisk, ~Identifying
               PROVE  Resting(drive'[0]) \/ (pc' = "words" /\ InStep')
    BY <1>2, <1>6 DEF DiskInStep, FirstIsDisk
  <2>1. Resting(drive[0]) \/ (pc = "words" /\ InStep)
    BY <1>1 DEF DiskInStep
  <2>2. CASE i = 0
    BY <1>2, <1>12, <1>13, <1>14, <2>1, <2>2 DEF InStep
  <2>3. CASE i # 0
    BY <1>2, <1>14, <2>1, <2>3 DEF InStep
  <2> QED
    BY <2>2, <2>3
<1>16. MovedSoFar'
  <2> SUFFICES ASSUME FirstIsDisk, pc \in {"command", "words"}, Trusted' PROVE MovedSoFar'
    BY <1>2 DEF MovedSoFar, FirstIsDisk
  <2>1. Trusted
    BY <1>2, <1>4 DEF Trusted, Alone
  <2>2. ASSUME pc = "words", call.op = "write" PROVE InStep'
    <3>1. InStep /\ ~refused' /\ ~Identifying
      BY <1>1, <1>2, <2>1, <2>2 DEF MovedSoFar, Trusted, Identifying
    <3>2. CASE i = 0
      BY <1>2, <1>12, <1>14, <2>2, <3>1, <3>2 DEF InStep
    <3>3. CASE i # 0
      BY <1>2, <1>14, <3>1, <3>3 DEF InStep
    <3> QED
      BY <3>2, <3>3
  <2> QED
    BY <1>1, <1>2, <2>1, <2>2 DEF MovedSoFar
<1>17. WaitedFor'
  <2>1. e.phase # "busy"
    BY <1>2, <1>4 DEF Idle, Failed, DriveState
  <2> QED
    BY <1>1, <1>2, <1>14, <2>1 DEF WaitedFor, FirstIsDisk, Alone
<1> QED
  BY <1>7, <1>8, <1>9, <1>10, <1>11, <1>15, <1>16, <1>17 DEF DrivesInv

\* What a drive that is given a command becomes.
LEMMA CommandTaken ==
    ASSUME Typed, Behaved, NEW i \in Index, NEW cmd \in Commands \ {"none"}, NEW sector \in Nat,
           NEW blocks \in Nat, drive' = Commanded(i, cmd, sector, blocks), attached' = attached
    PROVE  /\ drive' \in [Index -> DriveState]
           /\ \A j \in Index : j # i => drive'[j] = drive[j]
           /\ IF i \in DOMAIN attached /\ drive[i].phase # "busy"
              THEN drive'[i] = [phase |-> "busy", cmd |-> cmd, sector |-> sector,
                                blocks |-> blocks, word |-> 0]
              ELSE drive'[i] = drive[i]
           /\ Behaved'
<1>1. /\ drive' \in [Index -> DriveState]
      /\ \A j \in Index : j # i => drive'[j] = drive[j]
      /\ IF i \in DOMAIN attached /\ drive[i].phase # "busy"
         THEN drive'[i] = [phase |-> "busy", cmd |-> cmd, sector |-> sector,
                           blocks |-> blocks, word |-> 0]
         ELSE drive'[i] = drive[i]
  <2>1. drive \in [Index -> DriveState] /\ 0 \in 0 .. WordsPerSector - 1
    BY DrivesAssumption DEF Typed
  <2>2. [phase |-> "busy", cmd |-> cmd, sector |-> sector, blocks |-> blocks, word |-> 0] \in DriveState
    BY <2>1 DEF DriveState, Phases
  <2> QED
    BY <2>1, <2>2 DEF Commanded
<1>2. \A j \in Index : drive'[j] = drive[j] \/ (j \in DOMAIN attached /\ drive'[j].phase = "busy")
  BY <1>1
<1>3. Behaved'
  BY <1>2 DEF Behaved, Understood
<1> QED
  BY <1>1, <1>3

LEMMA IdentifyKeeps == ASSUME DrivesInv, Identify PROVE DrivesInv'
<1>1. /\ Typed /\ Listed /\ Behaved /\ Identification /\ initIndex \in Index
      /\ attached' = attached
  BY DEF DrivesInv, Typed, Identify
<1>2. /\ pc = "identify" /\ pc' = "identified" /\ selected' = initIndex
      /\ drive' = Commanded(initIndex, "identify", 0, 1)
      /\ UNCHANGED <<attached, line, failures, IRQInvoked, Devices, initIndex, call, done, word,
                     status, moved, refused, calls>>
      /\ latched' \in BOOLEAN
  BY <1>1 DEF Identify, transfer, Latch, Typed
<1>3. /\ Identifying /\ Identifying' /\ LookedFor' = LookedFor
  BY <1>2 DEF Identifying, LookedFor
<1>4. /\ drive' \in [Index -> DriveState]
      /\ \A j \in Index : j # initIndex => drive'[j] = drive[j]
      /\ IF initIndex \in DOMAIN attached /\ drive[initIndex].phase # "busy"
         THEN drive'[initIndex] = [phase |-> "busy", cmd |-> "identify", sector |-> 0,
                                   blocks |-> 1, word |-> 0]
         ELSE drive'[initIndex] = drive[initIndex]
      /\ Behaved'
  <2>1. "identify" \in Commands \ {"none"} /\ 0 \in Nat /\ 1 \in Nat
    BY DEF Commands
  <2> QED
    BY <1>1, <1>2, <2>1, CommandTaken
<1>5. \A j \in Index : drive[j] = Idle
  BY <1>1, <1>2, <1>3 DEF Identification
<1>6. Typed'
  BY <1>1, <1>2, <1>4 DEF Typed
<1>7. Listed'
  BY <1>1, <1>2, <1>3 DEF Listed
<1>8. Identification'
  <2>1. initIndex \in DOMAIN attached =>
           drive'[initIndex].phase = "busy" /\ drive'[initIndex].cmd = "identify"
           /\ drive'[initIndex].blocks = 1
    BY <1>1, <1>4, <1>5 DEF Idle
  <2>2. calls' = 0
    BY <1>1, <1>2, <1>3 DEF Identification
  <2>3. \A j \in Index : j # initIndex => drive'[j] = Idle
    BY <1>4, <1>5
  <2> QED
    BY <1>2, <2>1, <2>2, <2>3 DEF Identification
<1>9. Calling' /\ DiskInStep' /\ MovedSoFar'
  BY <1>2, <1>3 DEF Calling, DiskInStep, MovedSoFar
<1>10. WaitedFor'
  <2>1. initIndex = 0 \/ drive'[0].phase # "busy"
    BY <1>1, <1>4, <1>5 DEF Index, Idle
  <2> QED
    BY <1>2, <2>1 DEF WaitedFor
<1> QED
  BY <1>4, <1>6, <1>7, <1>8, <1>9, <1>10 DEF DrivesInv

\* The next drive is looked for, or clients may call; all drives are idle.
LEMMA NextDevKeeps ==
    ASSUME DrivesInv, Identifying, NextDev, attached' = attached, Typed',
           \A j \in Index : drive'[j] = Idle,
           Devices' \in Seq([Index : Index, Type : {ATA, ATAPI}, lba : BOOLEAN]),
           \A j, k \in 1 .. Len(Devices') : j # k => Devices'[j].Index # Devices'[k].Index,
           \A k \in 1 .. Len(Devices') : Devices'[k].Type = attached[Devices'[k].Index].type,
           {Devices'[k].Index : k \in 1 .. Len(Devices')} =
               {Devices[k].Index : k \in 1 .. Len(Devices)} \cup (DOMAIN attached \cap {initIndex}),
           UNCHANGED calls
    PROVE  DrivesInv'
<1>1. initIndex \in {0, 1} /\ Index = {0, 1}
  BY DEF DrivesInv, Typed, Index
<1>2. \/ initIndex = 0 /\ initIndex' = 1 /\ pc' = "identify"
      \/ initIndex = 1 /\ initIndex' = 1 /\ pc' = "idle"
  BY <1>1 DEF NextDev
<1>3. LookedFor' = LookedFor \cup {initIndex}
  <2>1. CASE initIndex = 0
    BY <1>1, <1>2, <2>1 DEF LookedFor, Identifying
  <2>2. CASE initIndex = 1
    BY <1>1, <1>2, <2>2 DEF LookedFor, Identifying
  <2> QED
    BY <1>1, <2>1, <2>2
<1>4. Listed'
  BY <1>3 DEF DrivesInv, Listed
<1>5. Behaved' /\ Identification'
  BY <1>2 DEF DrivesInv, Behaved, Identification, Identifying, Idle
<1>6. Calling' /\ MovedSoFar'
  BY <1>2 DEF Calling, MovedSoFar, Identifying
<1>7. drive'[0] = Idle
  BY <1>1
<1>8. DiskInStep' /\ WaitedFor'
  BY <1>7 DEF DiskInStep, WaitedFor, Resting, Idle
<1> QED
  BY <1>4, <1>5, <1>6, <1>8 DEF DrivesInv

LEMMA NoDriveKeeps == ASSUME DrivesInv, NoDrive PROVE DrivesInv'
<1>1. /\ Typed /\ Listed /\ Behaved /\ Identification /\ Identifying
      /\ selected = initIndex /\ initIndex \in Index /\ initIndex \notin DOMAIN attached
  BY DEF DrivesInv, Typed, Identification, Identifying, NoDrive
<1>2. /\ NextDev /\ line' \subseteq Index /\ latched' = latched
      /\ UNCHANGED <<attached, drive, selected, failures, IRQInvoked, Devices, call, done, word,
                     status, moved, refused, calls>>
  BY <1>1 DEF NoDrive, ReadStatus, transfer, Typed
<1>3. \A j \in Index : drive'[j] = Idle
  BY <1>1, <1>2 DEF Identification, Behaved
<1>4. Typed'
  BY <1>1, <1>2 DEF Typed, NextDev, Index
<1>5. /\ Devices' = Devices
      /\ {Devices'[k].Index : k \in 1 .. Len(Devices')} =
            {Devices[k].Index : k \in 1 .. Len(Devices)} \cup (DOMAIN attached \cap {initIndex})
  BY <1>1, <1>2
<1> QED
  BY <1>1, <1>2, <1>3, <1>4, <1>5, NextDevKeeps DEF Listed

\* The drive in question is added to the list with its type.
LEMMA FoundKeeps ==
    ASSUME DrivesInv, Identifying, pc # "identify", NEW type \in {ATA, ATAPI}, Found(type), DataReq,
           initIndex \in DOMAIN attached => attached[initIndex].type = type,
           drive[initIndex].cmd \in {"identify", "identifyPacket"}
    PROVE  DrivesInv'
<1>1. /\ Typed /\ Listed /\ Behaved /\ Identification
      /\ selected = initIndex /\ initIndex \in Index /\ initIndex \in DOMAIN attached
  BY DEF DrivesInv, Typed, Identification, DataReq, Phase
<1>2. /\ NextDev /\ line' \subseteq Index /\ latched' = latched
      /\ drive' = [drive EXCEPT ![initIndex] = NextBlock(@)]
      /\ Devices' = Append(Devices, [Index |-> initIndex, Type |-> type, lba |-> attached[initIndex].lba])
      /\ UNCHANGED <<attached, selected, failures, IRQInvoked, call, done, word,
                     status, moved, refused, calls>>
  BY <1>1 DEF Found, ReadStatus, transfer, Typed
<1>3. NextBlock(drive[initIndex]) = Idle
  BY DEF NextBlock
<1>4. drive' = [drive EXCEPT ![initIndex] = Idle] /\ drive \in [Index -> DriveState]
  BY <1>1, <1>2, <1>3 DEF Typed
<1>5. \A j \in Index : drive'[j] = Idle
  BY <1>1, <1>4 DEF Identification
<1>6. Typed'
  <2>1. Idle \in DriveState
    BY DrivesAssumption DEF Idle, DriveState, Phases, Commands
  <2>2. drive' \in [Index -> DriveState]
    BY <1>4, <2>1
  <2> QED
    BY <1>1, <1>2, <2>2 DEF Typed, NextDev, Index
<1> DEFINE dev == [Index |-> initIndex, Type |-> type, lba |-> attached[initIndex].lba]
           Device == [Index : Index, Type : {ATA, ATAPI}, lba : BOOLEAN]
           n == Len(Devices)
<1>7. dev \in Device
  <2>1. attached[initIndex].lba \in BOOLEAN
    BY <1>1, DrivesAssumption DEF Typed
  <2> QED
    BY <1>1, <2>1
<1>8. /\ Devices \in Seq(Device) /\ n \in Nat /\ Devices' = Append(Devices, dev)
      /\ dev.Index = initIndex /\ dev.Type = attached[initIndex].type
  BY <1>1, <1>2 DEF Listed
<1>9. \A k \in 1 .. n : Devices[k].Index # initIndex
  <2>1. initIndex \notin LookedFor
    BY <1>1 DEF LookedFor, Index
  <2> QED
    BY <1>1, <2>1 DEF Listed
<1> HIDE DEF dev, Device
<1>10. /\ Devices' \in Seq(Device) /\ Len(Devices') = n + 1
       /\ \A k \in 1 .. n : Devices'[k] = Devices[k]
       /\ Devices'[n + 1] = dev
  BY <1>7, <1>8
<1>11. \A k \in 1 .. n + 1 : k \in 1 .. n \/ k = n + 1
  BY <1>8
<1>12. \A j, k \in 1 .. Len(Devices') : j # k => Devices'[j].Index # Devices'[k].Index
  BY <1>1, <1>8, <1>9, <1>10, <1>11 DEF Listed
<1>13. \A k \in 1 .. Len(Devices') : Devices'[k].Type = attached[Devices'[k].Index].type
  BY <1>1, <1>8, <1>10, <1>11 DEF Listed
<1>14. {Devices'[k].Index : k \in 1 .. Len(Devices')} =
          {Devices[k].Index : k \in 1 .. n} \cup {initIndex}
  <2>1. \A k \in 1 .. n : k \in 1 .. n + 1
    BY <1>8
  <2>2. n + 1 \in 1 .. n + 1
    BY <1>8
  <2> QED
    BY <1>8, <1>10, <1>11, <2>1, <2>2
<1> QED
  BY <1>1, <1>2, <1>5, <1>6, <1>10, <1>12, <1>13, <1>14, NextDevKeeps DEF Device

LEMMA FoundATAKeeps == ASSUME DrivesInv, FoundATA PROVE DrivesInv'
<1>1. Typed /\ Behaved /\ Identification /\ Identifying /\ pc = "identified" /\ DataReq /\ Found(ATA)
  BY DEF DrivesInv, Identifying, FoundATA
<1>2. initIndex \in DOMAIN attached /\ initIndex \in Index /\ drive[initIndex].phase = "data"
  BY <1>1 DEF Identification, DataReq, Phase, Typed
<1>3. drive[initIndex].cmd = "identify" /\ Understood(initIndex)
  BY <1>1, <1>2 DEF Identification, Behaved
<1>4. attached[initIndex].type = ATA
  BY <1>3 DEF Understood
<1> QED
  BY <1>1, <1>3, <1>4, FoundKeeps

LEMMA FoundATAPIKeeps == ASSUME DrivesInv, FoundATAPI PROVE DrivesInv'
<1>1. /\ Typed /\ Identification /\ Identifying /\ pc = "identifiedPacket" /\ DataReq /\ Found(ATAPI)
  BY DEF DrivesInv, Identifying, FoundATAPI
<1>2. attached[initIndex].type = ATAPI /\ drive[initIndex].cmd = "identifyPacket"
  BY <1>1 DEF Identification
<1> QED
  BY <1>1, <1>2, FoundKeeps

\* A drive with the signature of a packet drive is one.
LEMMA SignatureKeeps == ASSUME DrivesInv, Signature PROVE DrivesInv'
<1>1. /\ Typed /\ Listed /\ Behaved /\ Identification /\ initIndex \in Index
      /\ pc = "identified" /\ Identifying /\ Error
  BY DEF DrivesInv, Typed, Signature, Identifying
<1>2. /\ selected = initIndex /\ initIndex \in DOMAIN attached
      /\ drive[initIndex].phase = "failed" /\ attached[initIndex].type = ATAPI
  BY <1>1 DEF Identification, Error, Phase
<1>3. /\ pc' = "identifiedPacket"
      /\ drive' = Commanded(initIndex, "identifyPacket", 0, 1)
      /\ line' \subseteq Index /\ latched' = latched
      /\ UNCHANGED <<attached, selected, failures, IRQInvoked, Devices, initIndex, call, done, word,
                     status, moved, refused, calls>>
  BY <1>1, <1>2 DEF Signature, transfer, ReadStatus, Typed
<1>4. Identifying' /\ LookedFor' = LookedFor
  BY <1>1, <1>3 DEF Identifying, LookedFor
<1>5. /\ drive' \in [Index -> DriveState]
      /\ \A j \in Index : j # initIndex => drive'[j] = drive[j]
      /\ drive'[initIndex] = [phase |-> "busy", cmd |-> "identifyPacket", sector |-> 0,
                              blocks |-> 1, word |-> 0]
      /\ Behaved'
  <2>1. "identifyPacket" \in Commands \ {"none"} /\ 0 \in Nat /\ 1 \in Nat
    BY DEF Commands
  <2> QED
    BY <1>1, <1>2, <1>3, <2>1, CommandTaken
<1>6. Typed'
  BY <1>1, <1>3, <1>5 DEF Typed
<1>7. Listed'
  BY <1>1, <1>3, <1>4 DEF Listed
<1>8. Identification'
  BY <1>1, <1>2, <1>3, <1>5 DEF Identification
<1>9. Calling' /\ DiskInStep' /\ MovedSoFar'
  BY <1>3, <1>4 DEF Calling, DiskInStep, MovedSoFar
<1>10. WaitedFor'
  BY <1>1, <1>2, <1>3 DEF WaitedFor, FirstIsDisk, Alone, ATA, ATAPI
<1> QED
  BY <1>5, <1>6, <1>7, <1>8, <1>9, <1>10 DEF DrivesInv

-----------------------------------------------------------------------------
\* The steps of a call

\* A step of the main flow that leaves the drives and the list as they are keeps what is
\* known of them.
LEMMA ListKept ==
    ASSUME DrivesInv, ~Identifying, ~Identifying', UNCHANGED <<attached, Devices>>
    PROVE  Listed' /\ Identification'
<1>1. LookedFor' = LookedFor
  BY DEF LookedFor
<1> QED
  BY <1>1 DEF DrivesInv, Listed, Identification

LEMMA CallKeeps ==
    ASSUME DrivesInv, NEW op \in {"read", "write"}, NEW dev \in {1, 2}, NEW lba \in Lbas,
           NEW count \in Counts, CallSectors(op, dev, lba, count)
    PROVE  DrivesInv'
<1>1. /\ Typed /\ Listed /\ Behaved /\ DiskInStep /\ WaitedFor /\ ~Identifying
  BY DEF DrivesInv, CallSectors, Identifying
<1>2. /\ dev \in 1 .. Len(Devices) /\ calls < MaxCalls /\ calls' = calls + 1
      /\ call' = [op |-> op, dev |-> dev, lba |-> lba, count |-> count]
      /\ done' = 0 /\ word' = 0 /\ moved' = <<>> /\ refused' = FALSE
      /\ UNCHANGED <<attached, drive, selected, line, latched, failures, IRQInvoked, Devices, initIndex>>
  BY DEF CallSectors, hardware
<1>3. Devices[dev].Type \in {ATA, ATAPI}
  <2> DEFINE Device == [Index : Index, Type : {ATA, ATAPI}, lba : BOOLEAN]
  <2>1. Devices \in Seq(Device) /\ dev \in 1 .. Len(Devices)
    BY <1>1, <1>2 DEF Listed
  <2>2. Devices[dev] \in Device
    <3> HIDE DEF Device
    <3> QED
      BY <2>1
  <2> QED
    BY <2>2
<1>4. \/ pc' = "command" /\ Devices[dev].Type = ATA
      \/ pc' = "wait1" /\ Devices[dev].Type = ATAPI
      \/ pc' = "idle"
  BY <1>3 DEF CallSectors, Return, ATA, ATAPI
<1>5. lba \in Nat /\ count \in Nat \ {0} /\ dev \in Nat
  BY DrivesAssumption
<1>6. Typed'
  <2>1. call' \in [op : {"read", "write"}, dev : Nat, lba : Nat, count : Nat]
    BY <1>2, <1>5
  <2>2. calls' \in 0 .. MaxCalls
    BY <1>1, <1>2, DrivesAssumption DEF Typed
  <2>3. done' \in Nat /\ word' \in Nat /\ refused' \in BOOLEAN
    BY <1>2
  <2> QED
    BY <1>1, <1>2, <1>4, <2>1, <2>2, <2>3 DEF Typed
<1>7. ~Identifying' /\ Listed' /\ Identification'
  BY <1>1, <1>2, <1>4, ListKept DEF Identifying
<1>8. Behaved'
  BY <1>1, <1>2 DEF Behaved, Understood
<1>9. Calling'
  <2>1. Dev' = Devices[dev] /\ done' < call'.count
    BY <1>2, <1>5 DEF Dev
  <2> QED
    BY <1>2, <1>4, <2>1 DEF Calling, ATA, ATAPI
<1>10. DiskInStep'
  BY <1>1, <1>2 DEF DiskInStep, FirstIsDisk, CallSectors
<1>11. MovedSoFar'
  <2>1. 1 .. 0 * WordsPerSector + 0 = {}
    BY DrivesAssumption
  <2>2. moved' = [k \in 1 .. done' * WordsPerSector + word' |-> WordAt(call'.lba, k)]
    BY <1>2, <2>1
  <2> QED
    BY <1>4, <2>2 DEF MovedSoFar
<1>12. WaitedFor'
  BY <1>1, <1>2 DEF WaitedFor, FirstIsDisk, Alone
<1> QED
  BY <1>6, <1>7, <1>8, <1>9, <1>10, <1>11, <1>12 DEF DrivesInv

\* A call returns when nothing is left of it but the end of a write.
LEMMA ReturnKeeps ==
    ASSUME DrivesInv, ~Identifying, pc' = "idle", Typed', Behaved', UNCHANGED <<attached, Devices>>,
           FirstIsDisk => Resting(drive'[0]),
           FirstIsDisk /\ Alone /\ drive'[0].phase = "busy" => selected' = 0
    PROVE  DrivesInv'
<1>1. ~Identifying' /\ Listed' /\ Identification'
  BY ListKept DEF Identifying
<1>2. Calling' /\ MovedSoFar'
  BY DEF Calling, MovedSoFar
<1>3. DiskInStep'
  BY DEF DrivesInv, DiskInStep, FirstIsDisk
<1>4. WaitedFor'
  BY DEF WaitedFor, FirstIsDisk, Alone
<1> QED
  BY <1>1, <1>2, <1>3, <1>4 DEF DrivesInv

LEMMA RefuseAddressKeeps == ASSUME DrivesInv, RefuseAddress PROVE DrivesInv'
<1>1. /\ pc = "command" /\ pc' = "idle" /\ ~Identifying
      /\ UNCHANGED <<attached, drive, selected, line, latched, failures, IRQInvoked, Devices, initIndex,
                     call, moved, refused, calls, done, word>>
  BY DEF RefuseAddress, FailPart, Return, Identifying, hardware
<1>2. Typed' /\ Behaved'
  BY <1>1 DEF DrivesInv, Typed, Behaved, Understood
<1>3. FirstIsDisk /\ Alone /\ drive'[0].phase = "busy" => selected' = 0
  BY <1>1 DEF DrivesInv, WaitedFor
<1>4. FirstIsDisk => Resting(drive'[0])
  BY <1>1 DEF DrivesInv, DiskInStep
<1> QED
  BY <1>1, <1>2, <1>3, <1>4, ReturnKeeps

\* A command for the next part reaches the disk, unless it still writes.
LEMMA CommandKeeps == ASSUME DrivesInv, Command PROVE DrivesInv'
<1>1. /\ Typed /\ Listed /\ Behaved /\ Calling /\ DiskInStep /\ MovedSoFar /\ WaitedFor
      /\ ~Identifying /\ pc = "command"
  BY DEF DrivesInv, Command, Identifying
<1>2. /\ Dev.Type = ATA /\ Drive = 0 /\ done < call.count /\ call.dev \in 1 .. Len(Devices) /\ word = 0
  BY <1>1 DEF Calling, Drive, ATA
<1>3. /\ pc' = "words" /\ selected' = 0 /\ line' \subseteq Index /\ latched' \in BOOLEAN
      /\ drive' = Commanded(0, call.op, Addressed(Registers(PartLba)), Part)
      /\ UNCHANGED <<attached, failures, IRQInvoked, Devices, initIndex, call, done, word,
                     status, moved, refused, calls>>
  BY <1>1, <1>2 DEF Command, transfer, Typed
<1>4. Addressed(Registers(PartLba)) = PartLba /\ PartLba \in Nat
  <2>1. PartLba \in Nat
    BY <1>1 DEF PartLba, Typed
  <2>2. Dev.lba \in BOOLEAN
    <3> DEFINE Device == [Index : Index, Type : {ATA, ATAPI}, lba : BOOLEAN]
    <3>1. Devices \in Seq(Device)
      BY <1>1 DEF Listed
    <3>2. Dev \in Device
      <4> HIDE DEF Device
      <4> QED
        BY <1>2, <3>1 DEF Dev
    <3> QED
      BY <3>2
  <2> QED
    BY <2>1, <2>2, SectorAddressed
<1>5. Part \in Nat /\ Part > 0 /\ 0 < Part * WordsPerSector
  <2>1. Part \in Nat \ {0} /\ WordsPerSector \in Nat \ {0}
    BY <1>1, <1>2, PartBounds, DrivesAssumption
  <2>2. \A p, w \in Nat \ {0} : 0 < p * w
    BY SMT
  <2> QED
    BY <2>1, <2>2
<1>6. /\ drive' \in [Index -> DriveState]
      /\ IF 0 \in DOMAIN attached /\ drive[0].phase # "busy"
         THEN drive'[0] = [phase |-> "busy", cmd |-> call.op, sector |-> PartLba,
                           blocks |-> Part, word |-> 0]
         ELSE drive'[0] = drive[0]
      /\ Behaved'
  <2>1. call.op \in Commands \ {"none"} /\ 0 \in Index /\ call.op \in {"read", "write"}
    BY <1>1 DEF Commands, Typed, Index
  <2> QED
    BY <1>1, <1>3, <1>4, <1>5, <2>1, CommandTaken
<1>7. Typed'
  BY <1>1, <1>3, <1>6 DEF Typed, Index
<1>8. ~Identifying' /\ Listed' /\ Identification'
  BY <1>1, <1>3, ListKept DEF Identifying
<1>9. Dev' = Dev /\ Part' = Part /\ PartLba' = PartLba /\ Drive' = Drive
  BY <1>3 DEF Dev, Part, PartLba, Drive
<1>10. Calling'
  BY <1>2, <1>3, <1>5, <1>9 DEF Calling
<1>11. FirstIsDisk /\ drive[0].phase # "busy" => InStep'
  <2>1. 0 \div WordsPerSector = 0 /\ 0 % WordsPerSector = 0
    BY DrivesAssumption
  <2>2. call.op \in {"read", "write"}
    BY <1>1 DEF Typed
  <2>3. ASSUME NEW d, d = [phase |-> "busy", cmd |-> call.op, sector |-> PartLba, blocks |-> Part, word |-> 0]
        PROVE  AtWord(d, call.op, PartLba, Part, 0)
    BY <1>4, <1>5, <2>1, <2>2, <2>3 DEF AtWord
  <2> QED
    BY <1>2, <1>3, <1>6, <1>9, <2>3 DEF InStep, FirstIsDisk
<1>12. DiskInStep'
  <2>1. FirstIsDisk => Resting(drive[0])
    BY <1>1 DEF DiskInStep
  <2> QED
    BY <1>3, <1>6, <1>11, <2>1 DEF DiskInStep, FirstIsDisk
<1>13. MovedSoFar'
  <2> SUFFICES ASSUME FirstIsDisk, Trusted PROVE MovedSoFar'
    BY <1>3 DEF MovedSoFar, FirstIsDisk, Trusted, Alone
  <2>1. moved = [k \in 1 .. done * WordsPerSector + word |-> WordAt(call.lba, k)]
    BY <1>1 DEF MovedSoFar
  <2>2. ASSUME call.op = "write" PROVE InStep'
    <3>1. drive[0].phase = "busy" => selected = 0
      BY <1>1, <2>2 DEF Trusted, WaitedFor
    <3>2. drive[0].phase # "busy"
      BY <3>1 DEF Command, Busy, Phase, FirstIsDisk
    <3> QED
      BY <1>11, <3>2
  <2> QED
    BY <1>3, <2>1, <2>2 DEF MovedSoFar
<1>14. WaitedFor'
  BY <1>3 DEF WaitedFor
<1> QED
  BY <1>6, <1>7, <1>8, <1>10, <1>12, <1>13, <1>14 DEF DrivesInv

\* After a word a drive has the next one of the block, or goes on to the next block.
LEMMA NextBlockIs ==
    ASSUME NEW d \in DriveState, d.blocks > 0
    PROVE  /\ NextBlock(d) \in DriveState
           /\ \/ NextBlock(d) = Idle /\ d.cmd \in {"read", "identify", "identifyPacket"}
              \/ /\ NextBlock(d) = [phase |-> "busy", word |-> 0, sector |-> d.sector + 1,
                                    blocks |-> d.blocks - 1,
                                    cmd |-> IF d.cmd = "write" THEN "writing" ELSE d.cmd]
                 /\ d.cmd = "read" => d.blocks # 1
<1> DEFINE busy(c) == [phase |-> "busy", word |-> 0, sector |-> d.sector + 1,
                       blocks |-> d.blocks - 1, cmd |-> c]
<1>1. Idle \in DriveState
  BY DrivesAssumption DEF Idle, DriveState, Phases, Commands
<1>2. \A c \in Commands : busy(c) \in DriveState
  BY DrivesAssumption DEF DriveState, Phases
<1>3. d.cmd \in Commands /\ "writing" \in Commands
  BY DEF DriveState, Commands
<1>4. CASE d.cmd \in {"identify", "identifyPacket"} \/ (d.cmd = "read" /\ d.blocks = 1)
  <2>1. NextBlock(d) = Idle
    BY <1>4 DEF NextBlock
  <2> QED
    BY <1>1, <1>4, <2>1
<1>5. CASE d.cmd = "write"
  <2>1. NextBlock(d) = busy("writing")
    BY <1>5 DEF NextBlock, DriveState
  <2> QED
    BY <1>2, <1>3, <1>5, <2>1
<1>6. CASE d.cmd \notin {"identify", "identifyPacket", "write"} /\ ~(d.cmd = "read" /\ d.blocks = 1)
  <2>1. NextBlock(d) = busy(d.cmd)
    BY <1>6 DEF NextBlock, DriveState
  <2> QED
    BY <1>2, <1>3, <1>6, <2>1
<1> QED
  BY <1>4, <1>5, <1>6

LEMMA NextWordTyped ==
    ASSUME NEW d \in DriveState, d.blocks > 0
    PROVE  /\ NextWord(d) \in DriveState
           /\ NextWord(d).phase = "data" => NextWord(d).cmd = d.cmd /\ NextWord(d).blocks = d.blocks
<1>1. CASE d.word + 1 < WordsPerSector
  <2>1. d.word + 1 \in 0 .. WordsPerSector - 1
    BY <1>1, DrivesAssumption DEF DriveState
  <2>2. NextWord(d) = [d EXCEPT !.word = @ + 1]
    BY <1>1 DEF NextWord
  <2> QED
    BY <2>1, <2>2 DEF DriveState
<1>2. CASE ~(d.word + 1 < WordsPerSector)
  BY <1>2, NextBlockIs DEF NextWord, Idle
<1> QED
  BY <1>1, <1>2

\* The disk counts words and blocks as the loops over a part do.
LEMMA NextWordInStep ==
    ASSUME NEW d \in DriveState, d.phase = "data", d.blocks > 0, NEW op \in {"read", "write"},
           NEW first \in Nat, NEW p \in Nat, NEW w \in Nat, w < p * WordsPerSector,
           AtWord(d, op, first, p, w)
    PROVE  IF w + 1 < p * WordsPerSector THEN AtWord(NextWord(d), op, first, p, w + 1)
           ELSE Resting(NextWord(d))
<1> DEFINE W == WordsPerSector
           q == w \div W
           r == w % W
           q1 == (w + 1) \div W
           r1 == (w + 1) % W
<1>1. /\ W \in Nat \ {0} /\ q \in Nat /\ r \in 0 .. W - 1 /\ w = q * W + r
      /\ q1 \in Nat /\ r1 \in 0 .. W - 1 /\ w + 1 = q1 * W + r1
  <2>1. W \in Nat \ {0} /\ w + 1 \in Nat
    BY DrivesAssumption
  <2> QED
    BY <2>1, Quotients
<1>2. IF r + 1 < W THEN q1 = q /\ r1 = r + 1 ELSE q1 = q + 1 /\ r1 = 0
  BY <1>1, NextQuotient
<1>3. /\ d.cmd \in IF op = "read" THEN {"read"} ELSE {"write", "writing"}
      /\ d.sector = first + q /\ d.word = r /\ d.blocks + q = p
      /\ d.blocks \in Nat /\ d.sector \in Nat
  BY DEF AtWord, DriveState
<1>4. \A e : AtWord(e, op, first, p, w + 1) <=>
             /\ e.phase \in {"busy", "data"}
             /\ e.cmd \in IF op = "read" THEN {"read"} ELSE {"write", "writing"}
             /\ e.sector = first + q1 /\ e.word = r1 /\ e.blocks + q1 = p
  BY DEF AtWord
<1>5. w + 1 < p * W <=> q1 < p
  <2>1. q1 < p => (q1 + 1) * W <= p * W /\ (q1 + 1) * W = q1 * W + W
    <3> HIDE DEF q1, W
    <3> QED
      BY <1>1
  <2>2. p <= q1 => p * W <= q1 * W
    <3> HIDE DEF q1, W
    <3> QED
      BY <1>1
  <2>3. q1 * W \in Nat /\ p * W \in Nat
    BY <1>1
  <2> HIDE DEF q1, r1, W
  <2> QED
    BY <1>1, <2>1, <2>2, <2>3
<1> HIDE DEF q, r, q1, r1
<1>6. CASE r + 1 < W
  <2>1. NextWord(d) = [d EXCEPT !.word = r + 1]
    BY <1>3, <1>6 DEF NextWord
  <2>2. q1 < p
    BY <1>1, <1>2, <1>3, <1>6
  <2>3. /\ NextWord(d).phase = "data" /\ NextWord(d).cmd = d.cmd /\ NextWord(d).sector = d.sector
        /\ NextWord(d).word = r + 1 /\ NextWord(d).blocks = d.blocks
    BY <2>1 DEF DriveState
  <2> QED
    BY <1>2, <1>3, <1>4, <1>5, <1>6, <2>2, <2>3
<1>7. CASE ~(r + 1 < W)
  <2>1. NextWord(d) = NextBlock(d)
    BY <1>3, <1>7 DEF NextWord
  <2>2. q1 = q + 1 /\ r1 = 0
    BY <1>2, <1>7
  <2>3. CASE q1 < p
    <3>1. d.blocks # 1
      BY <1>1, <1>3, <2>2, <2>3
    <3>2. d.cmd \in {"read", "write", "writing"}
      BY <1>3
    <3>3. NextBlock(d) = [phase |-> "busy", word |-> 0, sector |-> d.sector + 1,
                          blocks |-> d.blocks - 1,
                          cmd |-> IF d.cmd = "write" THEN "writing" ELSE d.cmd]
      BY <3>1, <3>2 DEF NextBlock, DriveState
    <3> DEFINE e == NextBlock(d)
    <3>4. /\ e.phase = "busy" /\ e.word = 0 /\ e.sector = d.sector + 1
          /\ e.blocks = d.blocks - 1 /\ e.cmd = IF d.cmd = "write" THEN "writing" ELSE d.cmd
      BY <3>3
    <3>5. e.cmd \in IF op = "read" THEN {"read"} ELSE {"write", "writing"}
      BY <1>3, <3>4
    <3> HIDE DEF e
    <3>6. e.sector = first + q1 /\ e.blocks + q1 = p
      BY <1>1, <1>3, <2>2, <3>4
    <3> QED
      BY <1>4, <1>5, <2>1, <2>2, <2>3, <3>4, <3>5, <3>6 DEF e
  <2>4. CASE ~(q1 < p)
    <3>1. d.blocks = 1
      BY <1>1, <1>3, <2>2, <2>4
    <3>2. NextBlock(d) = Idle \/ (NextBlock(d).phase = "busy" /\ NextBlock(d).cmd = "writing" /\ NextBlock(d).blocks = 0)
      BY <1>3, <3>1, NextBlockIs
    <3> QED
      BY <1>5, <2>1, <2>4, <3>2 DEF Resting, Idle
  <2> QED
    BY <2>3, <2>4
<1> QED
  BY <1>6, <1>7

\* What the main flow does in the loop over the words of a part.
WordLoop ==
    /\ pc = "words" /\ Polled /\ ReadStatus
    /\ call.op = "read" => DataReq
    /\ MoveWord
    /\ UNCHANGED <<attached, selected, failures, IRQInvoked, Devices, initIndex, call, refused, calls>>

\* In a call whose success means something the disk has the next word of the buffer, or
\* the space for it.
LEMMA WordOfBuffer ==
    ASSUME DrivesInv, WordLoop, FirstIsDisk, Trusted
    PROVE  /\ InStep /\ DataReq
           /\ moved' = [k \in 1 .. done * WordsPerSector + word + 1 |-> WordAt(call.lba, k)]
<1>1. /\ Typed /\ Calling /\ DiskInStep /\ MovedSoFar /\ ~Identifying /\ pc = "words"
  BY DEF DrivesInv, WordLoop, Identifying
<1>2. /\ selected = 0 /\ done \in Nat /\ word \in Nat /\ call.lba \in Nat
      /\ call.op \in {"read", "write"} /\ 0 \in DOMAIN attached
  BY <1>1 DEF Calling, Drive, ATA, Typed, FirstIsDisk
<1>3. InStep
  <2>1. CASE call.op = "read"
    <3>1. drive[0].phase = "data"
      BY <1>2, <2>1 DEF WordLoop, DataReq, Phase
    <3> QED
      BY <1>1, <3>1 DEF DiskInStep, Resting
  <2>2. CASE call.op = "write"
    BY <1>1, <2>2 DEF MovedSoFar
  <2> QED
    BY <1>2, <2>1, <2>2
<1>4. DataReq
  BY <1>2, <1>3 DEF InStep, AtWord, WordLoop, Polled, Busy, DataReq, Phase
<1> DEFINE W == WordsPerSector
           q == word \div W
           n == done * W + word
<1>5. /\ n \in Nat /\ q \in Nat /\ n \div W = done + q /\ n % W = word % W
  <2>1. W \in Nat \ {0} /\ done * W \in Nat
    BY <1>2, DrivesAssumption
  <2>2. n \in Nat /\ q \in Nat
    BY <1>2, <2>1, Quotients
  <2> QED
    BY <1>2, <2>1, <2>2, QuotientShifted
<1>6. moved = [k \in 1 .. n |-> WordAt(call.lba, k)]
  BY <1>1 DEF MovedSoFar
<1>7. Moved(drive[0], 0) = WordAt(call.lba, n + 1)
  <2>1. drive[0].sector = call.lba + done + q /\ drive[0].word = word % W
    BY <1>2, <1>3, <1>5 DEF InStep, AtWord, PartLba
  <2>2. drive[0].word \in Nat
    BY <1>1, DrivesAssumption DEF Typed, DriveState, Index
  <2>3. Moved(drive[0], 0) = <<0, drive[0].sector, drive[0].word, n>>
    <3>1. drive[0].word + 0 = drive[0].word /\ n + 0 = n
      BY <1>5, <2>2
    <3>2. Moved(drive[0], 0) = <<selected, drive[0].sector, drive[0].word + 0, n + 0>>
      BY DEF Moved
    <3> HIDE DEF n
    <3> QED
      BY <1>2, <3>1, <3>2
  <2> HIDE DEF n, q, W
  <2>4. (n + 1) - 1 = n /\ call.lba + (done + q) = call.lba + done + q
    BY <1>2, <1>5
  <2> QED
    BY <1>5, <2>1, <2>3, <2>4 DEF WordAt, W
<1>8. moved' = Append(moved, WordAt(call.lba, n + 1))
  BY <1>2, <1>4, <1>7 DEF WordLoop, MoveWord
<1>9. Append(moved, WordAt(call.lba, n + 1)) = [k \in 1 .. n + 1 |-> WordAt(call.lba, k)]
  <2> HIDE DEF n
  <2>1. Len(moved) = n /\ \A k \in 1 .. n : moved[k] = WordAt(call.lba, k)
    BY <1>5, <1>6
  <2>2. Append(moved, WordAt(call.lba, n + 1)) =
          [k \in 1 .. Len(moved) + 1 |-> IF k <= Len(moved) THEN moved[k] ELSE WordAt(call.lba, n + 1)]
    BY <1>5, <1>6
  <2> QED
    BY <1>5, <2>1, <2>2
<1> QED
  BY <1>3, <1>4, <1>8, <1>9

LEMMA WordLoopKeeps == ASSUME DrivesInv, WordLoop PROVE DrivesInv'
<1>1. /\ Typed /\ Listed /\ Behaved /\ Calling /\ DiskInStep /\ MovedSoFar /\ ~Identifying
      /\ pc = "words"
  BY DEF DrivesInv, WordLoop, Identifying
<1>2. /\ Dev.Type = ATA /\ Drive = 0 /\ selected = 0 /\ done < call.count
      /\ call.dev \in 1 .. Len(Devices) /\ word < Part * WordsPerSector
      /\ call.op \in {"read", "write"} /\ done \in Nat /\ word \in Nat
  BY <1>1 DEF Calling, Drive, ATA, Typed
<1>3. Part \in Nat /\ Part > 0 /\ done + Part <= call.count /\ Part * WordsPerSector \in Nat
  BY <1>1, <1>2, PartBounds
<1>4. /\ UNCHANGED <<attached, selected, failures, IRQInvoked, Devices, initIndex, call, refused, calls>>
      /\ line' \subseteq Index /\ latched' = latched
  BY <1>1 DEF WordLoop, ReadStatus, Typed
<1>5. /\ \/ pc' = "words" /\ word + 1 # Part * WordsPerSector /\ word' = word + 1 /\ done' = done
         \/ /\ word + 1 = Part * WordsPerSector /\ word' = 0 /\ done' = done + Part
            /\ IF done' = call.count THEN pc' = "idle" ELSE pc' = "command"
  BY <1>2 DEF WordLoop, MoveWord, EndPart, Return
<1>6. \/ DataReq /\ drive' = [drive EXCEPT ![0] = NextWord(@)]
      \/ ~DataReq /\ drive' = drive
  BY <1>2 DEF WordLoop, MoveWord
<1>7. DataReq => 0 \in DOMAIN attached /\ drive[0].phase = "data" /\ drive[0].blocks > 0 /\ Understood(0)
  BY <1>1, <1>2 DEF DataReq, Phase, Behaved, Index
<1>8. /\ drive' \in [Index -> DriveState] /\ drive'[1] = drive[1]
      /\ IF DataReq THEN drive'[0] = NextWord(drive[0]) ELSE drive'[0] = drive[0]
  <2>1. drive \in [Index -> DriveState] /\ drive[0] \in DriveState /\ 0 \in Index /\ 1 \in Index
    BY <1>1 DEF Typed, Index
  <2>2. DataReq => NextWord(drive[0]) \in DriveState
    BY <1>7, <2>1, NextWordTyped
  <2> QED
    BY <1>6, <2>1, <2>2
<1>9. Typed'
  <2>1. pc' \in {"words", "idle", "command"} /\ word' \in Nat /\ done' \in Nat
    BY <1>2, <1>3, <1>5
  <2> QED
    BY <1>1, <1>4, <1>8, <2>1 DEF Typed
<1>10. ~Identifying' /\ Listed' /\ Identification'
  BY <1>1, <1>4, <1>5, ListKept DEF Identifying
<1>11. Behaved'
  <2>1. CASE DataReq
    <3>1. drive[0] \in DriveState
      BY <1>1 DEF Typed, Index
    <3>2. drive'[0].phase = "data" => drive'[0].cmd = drive[0].cmd /\ drive'[0].blocks = drive[0].blocks
      BY <1>7, <1>8, <2>1, <3>1, NextWordTyped
    <3> QED
      BY <1>1, <1>4, <1>7, <1>8, <2>1, <3>2 DEF Behaved, Understood, Index
  <2>2. CASE ~DataReq
    BY <1>1, <1>4, <1>6, <2>2 DEF Behaved, Understood
  <2> QED
    BY <2>1, <2>2
<1>12. Dev' = Dev /\ Drive' = Drive /\ (done' = done => Part' = Part /\ PartLba' = PartLba)
  BY <1>4 DEF Dev, Drive, Part, PartLba
<1>13. Calling'
  <2>1. CASE pc' = "words"
    <3>1. word' < Part' * WordsPerSector
      <4> DEFINE m == Part * WordsPerSector
      <4>1. word + 1 # m /\ word < m /\ m \in Nat /\ word \in Nat /\ word' = word + 1
        BY <1>2, <1>3, <1>5, <2>1
      <4>2. Part' = Part
        BY <1>5, <1>12, <2>1
      <4> HIDE DEF m
      <4>3. word + 1 < m
        BY <4>1
      <4> QED
        BY <4>1, <4>2, <4>3 DEF m
    <3>2. done' = done
      BY <1>5, <2>1
    <3> QED
      BY <1>2, <1>4, <1>12, <2>1, <3>1, <3>2 DEF Calling
  <2>2. CASE pc' = "command"
    <3>1. done' < call.count /\ word' = 0
      <4>1. done' = done + Part /\ done' # call.count /\ word' = 0
        BY <1>5, <2>2
      <4>2. call.count \in Nat
        BY <1>1 DEF Typed
      <4>3. done + Part # call.count /\ done + Part <= call.count
        BY <1>3, <4>1
      <4> QED
        BY <1>2, <1>3, <4>1, <4>2, <4>3
    <3> QED
      BY <1>2, <1>4, <1>12, <2>2, <3>1 DEF Calling
  <2>3. CASE pc' = "idle"
    BY <2>3 DEF Calling
  <2> QED
    BY <1>5, <2>1, <2>2, <2>3
<1>14. ASSUME InStep, DataReq
       PROVE  IF pc' = "words" THEN InStep' ELSE Resting(drive'[0])
  <2> DEFINE d == drive[0]
             p == Part
             first == PartLba
             op == call.op
  <2>1. /\ d \in DriveState /\ d.phase = "data" /\ d.blocks > 0 /\ op \in {"read", "write"}
        /\ first \in Nat /\ p \in Nat /\ word \in Nat /\ word < p * WordsPerSector
        /\ AtWord(d, op, first, p, word)
    BY <1>1, <1>2, <1>3, <1>7, <1>14 DEF Typed, Index, PartLba, InStep
  <2>2. IF word + 1 < p * WordsPerSector THEN AtWord(NextWord(d), op, first, p, word + 1)
        ELSE Resting(NextWord(d))
    <3> HIDE DEF d, p, first, op
    <3> QED
      BY <2>1, NextWordInStep
  <2>3. drive'[0] = NextWord(d)
    BY <1>8, <1>14
  <2>4. CASE pc' = "words"
    <3>1. word' = word + 1 /\ done' = done /\ word + 1 # Part * WordsPerSector
      BY <1>5, <2>4
    <3>2. word + 1 < p * WordsPerSector
      BY <1>2, <1>3, <3>1
    <3>3. AtWord(NextWord(d), op, first, p, word + 1)
      BY <2>2, <3>2
    <3>4. Part' = Part /\ PartLba' = PartLba /\ call' = call
      BY <1>4, <1>12, <3>1
    <3> QED
      BY <2>3, <2>4, <3>1, <3>3, <3>4 DEF InStep
  <2>5. CASE pc' # "words"
    <3>1. ~(word + 1 < p * WordsPerSector)
      BY <1>2, <1>3, <1>5, <2>5
    <3> QED
      BY <2>2, <2>3, <2>5, <3>1
  <2> QED
    BY <2>4, <2>5
<1>15. DiskInStep'
  <2> SUFFICES ASSUME FirstIsDisk PROVE Resting(drive'[0]) \/ (pc' = "words" /\ InStep')
    BY <1>4 DEF DiskInStep, FirstIsDisk
  <2>1. CASE DataReq
    <3>1. InStep
      BY <1>1, <1>7, <2>1 DEF DiskInStep, Resting
    <3> QED
      BY <1>14, <2>1, <3>1
  <2>2. CASE ~DataReq
    <3>1. drive[0].phase \notin {"busy", "data"}
      <4>1. Phase = drive[0].phase /\ Phase # "busy"
        BY <1>2, <2>2 DEF FirstIsDisk, Phase, WordLoop, Polled, Busy
      <4> QED
        BY <2>2, <4>1 DEF DataReq
    <3>2. drive[0].phase \in Phases
      BY <1>1 DEF Typed, DriveState, Index
    <3> QED
      BY <1>8, <2>2, <3>1, <3>2 DEF Resting, Phases
  <2> QED
    BY <2>1, <2>2
<1>16. MovedSoFar'
  <2> SUFFICES ASSUME FirstIsDisk, Trusted, pc' \in {"command", "words"} PROVE MovedSoFar'
    BY <1>4 DEF MovedSoFar, FirstIsDisk, Trusted, Alone
  <2>1. InStep /\ DataReq /\ moved' = [k \in 1 .. done * WordsPerSector + word + 1 |-> WordAt(call.lba, k)]
    BY WordOfBuffer
  <2>2. done' * WordsPerSector + word' = done * WordsPerSector + word + 1
    <3>1. CASE pc' = "words"
      <4>1. word' = word + 1 /\ done' = done
        BY <1>5, <3>1
      <4> DEFINE m == done * WordsPerSector
      <4>2. m \in Nat /\ m + (word + 1) = m + word + 1
        BY <1>2, DrivesAssumption
      <4> HIDE DEF m
      <4>3. m + word' = m + word + 1
        BY <4>1, <4>2
      <4> QED
        BY <4>1, <4>3 DEF m
    <3>2. CASE pc' = "command"
      <4>1. word' = 0 /\ done' = done + Part /\ word + 1 = Part * WordsPerSector
        BY <1>5, <3>2
      <4>2. \A a, b, w \in Nat : (a + b) * w = a * w + b * w /\ a * w \in Nat /\ b * w \in Nat
        BY SMT
      <4>3. /\ (done + Part) * WordsPerSector = done * WordsPerSector + Part * WordsPerSector
            /\ done * WordsPerSector \in Nat
        BY <1>2, <1>3, <4>2, DrivesAssumption
      <4>4. (done + Part) * WordsPerSector + 0 = done * WordsPerSector + word + 1
        BY <1>2, <1>3, <4>1, <4>3
      <4> QED
        BY <4>1, <4>4
    <3> QED
      BY <3>1, <3>2
  <2>3. pc' = "words" => InStep'
    BY <1>14, <2>1
  <2> QED
    BY <1>4, <2>1, <2>2, <2>3 DEF MovedSoFar
<1>17. WaitedFor'
  BY <1>2, <1>4 DEF WaitedFor
<1> QED
  BY <1>9, <1>10, <1>11, <1>13, <1>15, <1>16, <1>17 DEF DrivesInv

LEMMA ReadWordKeeps == ASSUME DrivesInv, ReadWord PROVE DrivesInv'
<1>1. /\ Typed /\ Behaved /\ Calling /\ DiskInStep /\ WaitedFor /\ ~Identifying
      /\ pc = "words" /\ call.op = "read" /\ Polled /\ ReadStatus
      /\ UNCHANGED <<attached, selected, failures, IRQInvoked, Devices, initIndex, call, refused, calls>>
  BY DEF DrivesInv, ReadWord, Identifying
<1>2. CASE ~Error /\ DataReq
  <2>1. MoveWord
    BY <1>2 DEF ReadWord
  <2>2. WordLoop
    BY <1>1, <1>2, <2>1 DEF WordLoop
  <2> QED
    BY <2>2, WordLoopKeeps
<1>3. CASE Error \/ ~DataReq
  <2>1. pc' = "idle" /\ UNCHANGED <<done, word, moved, drive>>
    BY <1>3 DEF ReadWord, FailPart, Return
  <2>2. Typed' /\ Behaved'
    BY <1>1, <2>1 DEF Typed, Behaved, Understood, ReadStatus
  <2>3. selected = 0
    BY <1>1 DEF Calling, Drive, ATA
  <2>4. FirstIsDisk => Resting(drive[0])
    <3> SUFFICES ASSUME FirstIsDisk PROVE Resting(drive[0])
      OBVIOUS
    <3>1. Phase = drive[0].phase /\ Phase # "busy" /\ Phase # "data"
      BY <1>1, <1>3, <2>3 DEF FirstIsDisk, Phase, Polled, Busy, Error, DataReq
    <3>2. drive[0].phase \in Phases
      BY <1>1 DEF Typed, DriveState, Index
    <3> QED
      BY <3>1, <3>2 DEF Resting, Phases
  <2> QED
    BY <1>1, <2>1, <2>2, <2>3, <2>4, ReturnKeeps
<1> QED
  BY <1>2, <1>3

LEMMA WriteWordKeeps == ASSUME DrivesInv, WriteWord PROVE DrivesInv'
<1>1. WordLoop
  BY DEF WriteWord, WordLoop
<1> QED
  BY <1>1, WordLoopKeeps

-----------------------------------------------------------------------------
\* The steps of a packet read

Packets == {"wait1", "packet", "send", "wait2", "clear2", "data", "wait3", "clear3", "end"}

\* Only a packet drive is sent packets, with the second drive selected.
LEMMA PacketDrive ==
    ASSUME DrivesInv, pc \in Packets
    PROVE  /\ ~Identifying /\ Dev.Type = ATAPI /\ Drive = 1 /\ ~Alone
           /\ call.dev \in 1 .. Len(Devices) /\ done < call.count /\ word = 0
           /\ pc \notin {"wait1", "packet"} => selected = 1
<1>1. /\ ~Identifying /\ Dev.Type = ATAPI /\ Drive = 1
      /\ call.dev \in 1 .. Len(Devices) /\ done < call.count /\ word = 0
      /\ pc \notin {"wait1", "packet"} => selected = 1
  BY DEF DrivesInv, Calling, Packets, Identifying, Drive, ATAPI
<1>2. ~Alone
  <2>1. attached[Dev.Index].type = ATAPI
    BY <1>1 DEF DrivesInv, Listed, Dev
  <2>2. Dev.Index \in DOMAIN attached
    BY <1>1 DEF DrivesInv, Listed, Dev
  <2> QED
    BY <2>1, <2>2 DEF Alone, ATA, ATAPI
<1> QED
  BY <1>1, <1>2

\* What a packet read does leaves the first drive alone.
LEMMA PacketKeeps ==
    ASSUME DrivesInv, pc \in Packets, pc' \in Packets \cup {"idle"}, Typed', Behaved', Calling',
           drive'[0] = drive[0], UNCHANGED <<attached, Devices>>
    PROVE  DrivesInv'
<1>1. ~Identifying' /\ Listed' /\ Identification'
  BY PacketDrive, ListKept DEF Identifying, Packets
<1>2. DiskInStep'
  BY PacketDrive DEF DrivesInv, DiskInStep, FirstIsDisk, Packets
<1>3. MovedSoFar' /\ WaitedFor'
  BY PacketDrive DEF MovedSoFar, WaitedFor, Alone, Packets
<1> QED
  BY <1>1, <1>2, <1>3 DEF DrivesInv

LEMMA PacketCommandKeeps == ASSUME DrivesInv, PacketCommand PROVE DrivesInv'
<1>1. Typed /\ Behaved /\ Calling /\ pc \in Packets /\ pc = "packet"
  BY DEF DrivesInv, PacketCommand, Packets
<1>2. /\ pc' = "send" /\ selected' = 1 /\ IRQInvoked' = FALSE /\ latched' \in BOOLEAN
      /\ drive' = Commanded(1, "packet", 0, 1)
      /\ UNCHANGED <<attached, line, failures, Devices, initIndex, call, done, word,
                     status, moved, refused, calls>>
  BY <1>1, PacketDrive DEF PacketCommand, transfer, Latch, Typed
<1>3. drive' \in [Index -> DriveState] /\ drive'[0] = drive[0] /\ Behaved'
  <2>1. "packet" \in Commands \ {"none"} /\ 0 \in Nat /\ 1 \in Nat /\ 0 \in Index /\ 1 \in Index
    BY DEF Commands, Index
  <2>2. /\ drive' \in [Index -> DriveState] /\ Behaved'
        /\ \A j \in Index : j # 1 => drive'[j] = drive[j]
    BY <1>1, <1>2, <2>1, CommandTaken
  <2> QED
    BY <2>1, <2>2
<1>4. Typed'
  BY <1>1, <1>2, <1>3 DEF Typed, Index
<1>5. Calling'
  <2>1. Dev' = Dev /\ Drive' = 1
    BY <1>1, <1>2, PacketDrive DEF Dev, Drive
  <2> QED
    BY <1>1, <1>2, <2>1, PacketDrive DEF Calling
<1>6. pc' \in Packets
  BY <1>2 DEF Packets
<1> QED
  BY <1>1, <1>2, <1>3, <1>4, <1>5, <1>6, PacketKeeps

\* A packet or a sector is moved by the second drive, or the read fails.
LEMMA PacketDataKeeps ==
    ASSUME DrivesInv, pc \in {"send", "data"}, pc' \in {"idle", "wait2", "wait3"}, ReadStatus,
           UNCHANGED <<attached, selected, failures, IRQInvoked, Devices, initIndex, call, done, word,
                       refused, calls>>,
           \/ drive' = drive
           \/ \E e \in DriveState : /\ DataReq /\ e.phase # "data"
                                    /\ drive' = [drive EXCEPT ![selected] = e]
    PROVE  DrivesInv'
<1>1. Typed /\ Behaved /\ pc \in Packets /\ selected = 1
  BY PacketDrive DEF DrivesInv, Packets
<1>2. drive' \in [Index -> DriveState] /\ drive'[0] = drive[0] /\ Typed'
  <2>1. drive' \in [Index -> DriveState] /\ drive'[0] = drive[0]
    BY <1>1 DEF Typed, Index
  <2> QED
    BY <1>1, <2>1 DEF Typed, ReadStatus
<1>3. Behaved'
  <2>1. CASE drive' = drive
    BY <1>1, <2>1 DEF Behaved, Understood
  <2>2. ASSUME NEW e \in DriveState, DataReq, e.phase # "data", drive' = [drive EXCEPT ![1] = e]
        PROVE  Behaved'
    <3>1. 1 \in DOMAIN attached
      BY <1>1, <2>2 DEF DataReq, Phase
    <3>2. drive'[0] = drive[0] /\ drive'[1].phase # "data"
      BY <1>1, <2>2 DEF Typed, Index
    <3> QED
      BY <1>1, <3>1, <3>2 DEF Behaved, Understood, Index
  <2> QED
    BY <1>1, <2>1, <2>2
<1>4. Calling'
  <2>1. Dev' = Dev /\ Drive' = 1
    BY <1>1, PacketDrive DEF Dev, Drive
  <2> QED
    BY <1>1, <2>1, PacketDrive DEF Calling
<1>5. pc' \in Packets \cup {"idle"}
  BY DEF Packets
<1> QED
  BY <1>1, <1>2, <1>3, <1>4, <1>5, PacketKeeps

LEMMA SendPacketKeeps == ASSUME DrivesInv, SendPacket PROVE DrivesInv'
<1>1. Typed /\ pc = "send" /\ ReadStatus
  BY DEF DrivesInv, SendPacket
<1>2. UNCHANGED <<attached, selected, failures, IRQInvoked, Devices, initIndex, call, moved, refused, calls>>
  BY DEF SendPacket
<1>3. CASE ~Error /\ DataReq
  <2> DEFINE e == [phase |-> "busy", cmd |-> "packetRead", word |-> 0,
                   sector |-> Swapped(PartLba), blocks |-> Swapped(1)]
  <2>1. /\ drive' = [drive EXCEPT ![selected] = e]
        /\ pc' = "wait2" /\ UNCHANGED <<status, done, word>>
    BY <1>3 DEF SendPacket
  <2>2. e \in DriveState /\ e.phase # "data"
    <3>1. PartLba \in Nat
      BY <1>1 DEF PartLba, Typed
    <3>2. Swapped(PartLba) \in Nat /\ Swapped(1) \in Nat
      BY <3>1 DEF Swapped
    <3> QED
      BY <3>2, DrivesAssumption DEF DriveState, Phases, Commands
  <2> HIDE DEF e
  <2> QED
    BY <1>1, <1>2, <1>3, <2>1, <2>2, PacketDataKeeps
<1>4. CASE Error \/ ~DataReq
  <2>1. pc' = "idle" /\ UNCHANGED <<done, word, drive>>
    BY <1>4 DEF SendPacket, FailPart, Return
  <2> QED
    BY <1>1, <1>2, <2>1, PacketDataKeeps
<1> QED
  BY <1>3, <1>4

LEMMA ReadSectorKeeps == ASSUME DrivesInv, ReadSector PROVE DrivesInv'
<1>1. Typed /\ Behaved /\ pc = "data" /\ ReadStatus
  BY DEF DrivesInv, ReadSector
<1>2. UNCHANGED <<attached, selected, failures, IRQInvoked, Devices, initIndex, call, refused, calls>>
  BY DEF ReadSector
<1>3. CASE ~Error /\ DataReq
  <2> DEFINE e == NextBlock(drive[selected])
  <2>1. /\ drive' = [drive EXCEPT ![selected] = e]
        /\ pc' = "wait3" /\ UNCHANGED <<status, done, word>>
    BY <1>3 DEF ReadSector
  <2>2. drive[selected] \in DriveState /\ drive[selected].blocks > 0
    BY <1>1, <1>3 DEF Typed, Behaved, DataReq, Phase
  <2>3. e \in DriveState /\ e.phase # "data"
    BY <2>2, NextBlockIs DEF Idle
  <2> HIDE DEF e
  <2> QED
    BY <1>1, <1>2, <1>3, <2>1, <2>3, PacketDataKeeps
<1>4. CASE Error \/ ~DataReq
  <2>1. pc' = "idle" /\ UNCHANGED <<done, word, drive>>
    BY <1>4 DEF ReadSector, FailPart, Return
  <2> QED
    BY <1>1, <1>2, <2>1, PacketDataKeeps
<1> QED
  BY <1>3, <1>4

LEMMA EndSectorKeeps == ASSUME DrivesInv, EndSector PROVE DrivesInv'
<1>1. Typed /\ Behaved /\ pc \in Packets /\ pc = "end"
  BY DEF DrivesInv, EndSector, Packets
<1>2. /\ Part = 1 /\ Dev.Type # ATA
  BY <1>1, PacketDrive DEF Part, ATA, ATAPI
<1>3. /\ word' = 0 /\ done' = done + 1
      /\ IF done + 1 = call.count THEN pc' = "idle" ELSE pc' = "wait1"
      /\ line' \subseteq Index
      /\ UNCHANGED <<attached, drive, selected, latched, failures, IRQInvoked, Devices, initIndex, call,
                     moved, refused, calls>>
  BY <1>1, <1>2 DEF EndSector, EndPart, Return, ReadStatus, Typed
<1>4. done \in Nat /\ call.count \in Nat /\ done < call.count
  BY <1>1, PacketDrive DEF Typed
<1>5. Typed'
  <2>1. done' \in Nat /\ word' \in Nat /\ pc' \in {"idle", "wait1"}
    BY <1>3, <1>4
  <2> QED
    BY <1>1, <1>3, <2>1 DEF Typed
<1>6. Behaved'
  BY <1>1, <1>3 DEF Behaved, Understood
<1>7. Calling'
  <2>1. Dev' = Dev
    BY <1>3 DEF Dev
  <2>2. pc' = "wait1" => done' < call.count
    BY <1>3, <1>4
  <2> QED
    BY <1>1, <1>3, <2>1, <2>2, PacketDrive DEF Calling, ATA, ATAPI
<1>8. pc' \in Packets \cup {"idle"}
  BY <1>3 DEF Packets
<1> QED
  BY <1>1, <1>3, <1>5, <1>6, <1>7, <1>8, PacketKeeps

-----------------------------------------------------------------------------
\* Every step

LEMMA DrivesStep == DrivesInv /\ [Next]_vars => DrivesInv'
<1> SUFFICES ASSUME DrivesInv, [Next]_vars PROVE DrivesInv'
  OBVIOUS
<1>1. Typed
  BY DEF DrivesInv
<1>2. ASSUME NEW op \in {"read", "write"}, NEW dev \in {1, 2}, NEW lba \in Lbas, NEW count \in Counts,
             CallSectors(op, dev, lba, count)
      PROVE  DrivesInv'
  BY <1>2, CallKeeps
<1>3. ASSUME NEW i \in Index, Ready(i) PROVE DrivesInv'
  BY <1>3, ReadyKeeps
<1>4. CASE PrimaryATAHandler
  BY <1>1, <1>4, FlagsKeep DEF PrimaryATAHandler, Typed
<1>5. CASE WaitIRQ
  BY <1>1, <1>5, FlagsKeep DEF WaitIRQ, hardware, transfer, Typed
<1>6. CASE ClearIRQ
  BY <1>1, <1>6, FlagsKeep DEF ClearIRQ, hardware, transfer, Typed
<1>7. CASE UNCHANGED vars
  BY <1>1, <1>7, FlagsKeep DEF vars, hardware, program, Typed
<1>8. CASE Identify \/ NoDrive \/ FoundATA \/ Signature \/ FoundATAPI
  BY <1>8, IdentifyKeeps, NoDriveKeeps, FoundATAKeeps, SignatureKeeps, FoundATAPIKeeps
<1>9. CASE RefuseAddress \/ Command \/ ReadWord \/ WriteWord
  BY <1>9, RefuseAddressKeeps, CommandKeeps, ReadWordKeeps, WriteWordKeeps
<1>10. CASE PacketCommand \/ SendPacket \/ ReadSector \/ EndSector
  BY <1>10, PacketCommandKeeps, SendPacketKeeps, ReadSectorKeeps, EndSectorKeeps
<1>11. CASE Next
  <2>1. Main => DrivesInv'
    BY <1>5, <1>6, <1>8, <1>9, <1>10 DEF Main
  <2> QED
    BY <1>2, <1>3, <1>4, <1>11, <2>1 DEF Next
<1> QED
  BY <1>7, <1>11

LEMMA DrivesInvAlways == Spec => []DrivesInv
BY DrivesInitially, DrivesStep, PTL DEF Spec

\* The drives that are there are found, with their types and each once, and what the code
\* keeps of a call stays in its bounds (ide.c:509-569).
THEOREM DrivesFound == Spec => []TypeOK
<1>1. DrivesInv => TypeOK
  <2> SUFFICES ASSUME DrivesInv PROVE TypeOK
    OBVIOUS
  <2>1. Typed /\ Listed
    BY DEF DrivesInv
  <2>2. pc = "idle" => {Devices[k].Index : k \in 1 .. Len(Devices)} = DOMAIN attached
    <3>1. DOMAIN attached \subseteq Index
      BY <2>1, DrivesAssumption DEF Typed
    <3> QED
      BY <2>1, <3>1 DEF Listed, LookedFor, Identifying
  <2> QED
    BY <2>1, <2>2 DEF TypeOK, Typed, Listed, DriveState
<1> QED
  BY <1>1, DrivesInvAlways, PTL

\* A transfer from or to a disk that reports success has moved the sectors it was asked
\* for, each word once and in its place, whatever the address, its mode, the number of
\* sectors and the pace of the drives (ide.c:136-358).
THEOREM SectorsMoved == Spec => TransfersRight
<1>1. ASSUME DrivesInv, Next, Returns, status' = "SUCCESS", Dev.Type = ATA, InPlace,
             call.op = "write" => Alone /\ ~refused
      PROVE  moved' = Wanted
  <2>1. Typed /\ Listed /\ Calling /\ ~Identifying /\ pc # "idle" /\ pc' = "idle"
    BY <1>1 DEF DrivesInv, Returns, Identification
  <2>2. pc \in {"command", "words"} /\ call.dev \in 1 .. Len(Devices) /\ Trusted
    BY <1>1, <2>1 DEF Calling, ATA, ATAPI, Trusted
  <2>3. FirstIsDisk /\ Dev.Index = 0
    <3>1. Dev.Index = 0
      BY <1>1 DEF InPlace, ATA
    <3>2. attached[0].type = ATA /\ 0 \in DOMAIN attached
      BY <1>1, <2>1, <2>2, <3>1 DEF Listed, Dev
    <3> QED
      BY <3>1, <3>2 DEF FirstIsDisk
  <2>4. WordLoop /\ word + 1 = Part * WordsPerSector /\ done + Part = call.count
    <3>1. ~(\E i \in Index : Ready(i))
      BY <2>1 DEF Ready, program
    <3>2. ReadWord \/ WriteWord
      BY <1>1, <2>1, <2>2, <3>1
      DEF Next, Main, Identify, NoDrive, FoundATA, Signature, FoundATAPI, RefuseAddress, Command,
          WaitIRQ, ClearIRQ, PacketCommand, SendPacket, ReadSector, EndSector, CallSectors,
          PrimaryATAHandler, FailPart, Return
    <3>3. WordLoop
      BY <1>1, <3>2 DEF ReadWord, WriteWord, WordLoop, FailPart, Return
    <3> QED
      BY <2>1, <3>3 DEF WordLoop, MoveWord, EndPart
  <2>5. moved' = [k \in 1 .. done * WordsPerSector + word + 1 |-> WordAt(call.lba, k)]
    BY <1>1, <2>2, <2>3, <2>4, WordOfBuffer
  <2>6. done * WordsPerSector + word + 1 = call.count * WordsPerSector
    <3>1. /\ done \in Nat /\ word \in Nat /\ Part \in Nat /\ WordsPerSector \in Nat
      BY <2>1, <2>2, PartBounds, DrivesAssumption DEF Typed, Calling
    <3>2. \A a, b, w \in Nat : (a + b) * w = a * w + b * w /\ a * w \in Nat /\ b * w \in Nat
      BY SMT
    <3>3. /\ call.count * WordsPerSector = done * WordsPerSector + Part * WordsPerSector
          /\ done * WordsPerSector \in Nat
      BY <2>4, <3>1, <3>2
    <3> QED
      BY <2>4, <3>1, <3>3
  <2> QED
    BY <2>3, <2>5, <2>6 DEF Wanted, WordAt
<1>2. DrivesInv /\ [Next]_vars =>
        [Returns /\ status' = "SUCCESS" /\ Dev.Type = ATA /\ InPlace
         /\ (call.op = "write" => Alone /\ ~refused) => moved' = Wanted]_vars
  BY <1>1
<1> QED
  BY <1>2, DrivesInvAlways, PTL DEF Spec, TransfersRight

==============================================================================
