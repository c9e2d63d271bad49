----------------------------- MODULE Interrupts -----------------------------
(***************************************************************************)
(* How hardware interrupts reach the kernel: the two interrupt controllers *)
(* as src/kernel/source/pic.c programs them, the start of the drivers that *)
(* have handlers (kernel.c:50-76), and HardwareInterruptHandler with the   *)
(* stub that calls it (cpu-int-handlers.c, cpu-int-handlers.asm).  The     *)
(* handler of line 0 counts the ticks of PITClock; those of other lines    *)
(* change nothing here.                                                    *)
(*                                                                         *)
(* The main flow starts the drivers one after the other and may sleep      *)
(* between two, once the timer runs.  The gates are interrupt gates: from  *)
(* the acknowledgement to the return no interrupt is taken.                *)
(***************************************************************************)
EXTENDS PITClock, Sequences, FiniteSetsExt

CONSTANTS
    Lines,      \* the requests that devices make, the timer's 0 among them
    Order,      \* the lines of the drivers in the order of their start, the timer's first
    FirstMasks  \* the masks that the BIOS may leave

ASSUME LinesAssumption ==
    /\ Lines \subseteq 0 .. 15 \ {2} /\ 0 \in Lines
    /\ Order \in Seq(Lines) /\ Order # <<>> /\ Head(Order) = 0

Cascade == 2        \* the master's line to which the slave is wired

Master == 0 .. 7
Slave == 8 .. 15

VARIABLES
    requested,  \* the lines whose request is latched
    inService,  \* the lines whose interrupt has been acknowledged and not ended
    masked,     \* the masks of both controllers
    IF_,        \* EFLAGS.IF: interrupts are enabled
    cpu,        \* what the processor executes: "flow", or the parts of an interrupt
    intIndex,   \* registers->InterruptIndex - 32
    spurious,   \* history: the acknowledgement found no request
    HardwareIntHandlers,    \* the lines that have a handler
    step,       \* where the start is
    value       \* the mask that UnmaskPICIRQ has read

chips == <<requested, inService, masked>>
processor == <<IF_, cpu, intIndex, spurious>>
start == <<HardwareIntHandlers, step, value>>

-----------------------------------------------------------------------------
\* The controllers

\* Where the request of a line arrives at the master.
MasterLine(i) == IF i \in Slave THEN Cascade ELSE i

\* No line of a higher or the same priority is in service, at neither controller.
Signalled ==
    {i \in requested \ masked :
        /\ MasterLine(i) \notin masked
        /\ \A k \in inService \cap Master : MasterLine(i) < k
        /\ \A k \in inService \cap Slave : i \in Slave => i < k}

\* Nothing that is signalled has a higher priority.
Highest(i) ==
    \A k \in Signalled :
        MasterLine(i) < MasterLine(k) \/ (MasterLine(i) = MasterLine(k) /\ i <= k)

\* An edge on the line.  The timer is bounded by its ticks.
Request(i) ==
    /\ i = 0 => Now + Cardinality({0} \cap requested)
                    + (IF cpu = "handle" /\ intIndex = 0 THEN 1 ELSE 0) < MaxTicks
    /\ i \notin requested
    /\ requested' = requested \cup {i}
    /\ UNCHANGED <<vars, inService, masked, processor, start>>

Tick == Request(0)

\* A device lowers its line again, as when its byte or its status is read by polling.
Withdraw ==
    /\ \E i \in requested \ {0} : requested' = requested \ {i}
    /\ UNCHANGED <<vars, inService, masked, processor, start>>

-----------------------------------------------------------------------------
\* An interrupt

Interrupt ==
    /\ cpu = "flow" /\ IF_ /\ Signalled # {}
    /\ cpu' = "acknowledge" /\ IF_' = FALSE
    /\ UNCHANGED <<vars, chips, intIndex, spurious, start>>

\* A controller that finds no request any more answers with its line 7.
Acknowledge ==
    /\ cpu = "acknowledge" /\ cpu' = "handle"
    /\ spurious' = (Signalled = {})
    /\ \/ \E i \in Signalled :
             /\ Highest(i) /\ intIndex' = i
             /\ requested' = requested \ {i}
             /\ inService' = inService \cup {i, MasterLine(i)}
       \/ /\ Signalled = {} /\ intIndex' = 7
          /\ UNCHANGED <<requested, inService>>
       \/ /\ Signalled = {} /\ intIndex' = 15
          /\ inService' = inService \cup {Cascade}
          /\ UNCHANGED requested
    /\ UNCHANGED <<vars, masked, IF_, start>>

\* HardwareInterruptHandler up to the end; without a handler it prints.
Handle ==
    /\ cpu = "handle" /\ cpu' = "end"
    /\ IF intIndex = 0 /\ 0 \in HardwareIntHandlers THEN PITHandler ELSE UNCHANGED vars
    /\ UNCHANGED <<chips, IF_, intIndex, spurious, start>>

\* A controller ends the highest of the lines that it serves.
Ended(lines) == IF lines = {} THEN {} ELSE lines \ {Min(lines)}

PICSendCommand_OneController(vectorIndex) ==
    IF vectorIndex >= 8
    THEN (inService \cap Master) \cup Ended(inService \cap Slave)
    ELSE Ended(inService \cap Master) \cup (inService \cap Slave)

\* PICSendCommand with PIC_COMMAND_EOI.
PICSendCommand(vectorIndex) ==
    Ended(inService \cap Master)
        \cup (IF vectorIndex >= 8 THEN Ended(inService \cap Slave) ELSE inService \cap Slave)

EndOfInterrupt ==
    /\ cpu = "end" /\ cpu' = "flow" /\ IF_' = TRUE
    /\ inService' = PICSendCommand(intIndex)
    /\ UNCHANGED <<vars, requested, masked, intIndex, spurious, start>>

-----------------------------------------------------------------------------
\* The start of the drivers.  The k-th takes three steps after the first two.

Starting(k) == cpu = "flow" /\ pc = "idle" /\ step = k /\ step' = k + 1

\* RemapPIC, which resets the controllers and puts the masks back, and MaskPIC.
RemapAndMask ==
    /\ Starting(0)
    /\ requested' = {} /\ inService' = {}
    /\ masked' = (0 .. 15) \ {Cascade}
    /\ UNCHANGED <<vars, processor, HardwareIntHandlers, value>>

EnableInterrupts ==
    /\ Starting(1) /\ IF_' = TRUE
    /\ UNCHANGED <<vars, chips, cpu, intIndex, spurious, HardwareIntHandlers, value>>

InstallHardwareIntHandler ==
    \E k \in 1 .. Len(Order) :
        /\ Starting(3 * k - 1)
        /\ HardwareIntHandlers' = HardwareIntHandlers \cup {Order[k]}
        /\ UNCHANGED <<vars, chips, processor, value>>

ControllerOf(i) == IF i < 8 THEN Master ELSE Slave

\* UnmaskPICIRQ reads the mask of the line's controller and then writes it.
ReadMask ==
    \E k \in 1 .. Len(Order) :
        /\ Starting(3 * k)
        /\ value' = masked \cap ControllerOf(Order[k])
        /\ UNCHANGED <<vars, chips, processor, HardwareIntHandlers>>

Unmasked(i) == value \ {i}

WriteMask ==
    \E k \in 1 .. Len(Order) :
        /\ Starting(3 * k + 1)
        /\ masked' = (masked \ ControllerOf(Order[k])) \cup Unmasked(Order[k])
        /\ UNCHANGED <<vars, requested, inService, processor, HardwareIntHandlers, value>>

\* The main flow of PITClock, once the timer has been started.
Flow ==
    /\ cpu = "flow" /\ step > 4
    /\ CallSleep \/ Sleeping \/ CallGet \/ GetHigh
    /\ UNCHANGED <<chips, processor, start>>

-----------------------------------------------------------------------------

InterruptsInit ==
    /\ Init
    /\ requested \in SUBSET Lines /\ inService = {} /\ masked \in FirstMasks
    /\ IF_ = FALSE /\ cpu = "flow" /\ intIndex = 0 /\ spurious = FALSE
    /\ HardwareIntHandlers = {} /\ step = 0 /\ value = {}

Serving == Interrupt \/ Acknowledge \/ Handle \/ EndOfInterrupt

InterruptsNext ==
    \/ \E i \in Lines : Request(i)
    \/ Withdraw
    \/ Serving
    \/ RemapAndMask \/ EnableInterrupts \/ InstallHardwareIntHandler \/ ReadMask \/ WriteMask
    \/ Flow

all == <<vars, chips, processor, start>>

\* The timer keeps ticking, the processor keeps executing, and handlers are so short that
\* the main flow goes on between interrupts.
InterruptsSpec ==
    /\ InterruptsInit /\ [][InterruptsNext]_all
    /\ WF_all(Tick) /\ WF_all(Serving) /\ SF_all(Flow /\ (Sleeping \/ GetHigh))

-----------------------------------------------------------------------------
\* Properties

\* An interrupt that a device has asked for finds its handler, and when the main flow goes
\* on nothing is in service that would keep later requests out, also after a request that
\* was withdrawn before it was acknowledged, for which one controller has nothing to end
\* (pic.c:3-6, 50-67; cpu-int-handlers.c:172-204; pit.c:9-10, ps2-dev.c:25-34, ide.c:492-500).
InterruptsAreServed ==
    /\ cpu = "handle" /\ ~spurious => intIndex \in HardwareIntHandlers
    /\ cpu = "flow" => inService = {}

=============================================================================
