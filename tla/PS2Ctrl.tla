------------------------------- MODULE PS2Ctrl -------------------------------
(***************************************************************************)
(* The start of the PS/2 controller, InstallPS2Ctrl in                     *)
(* src/kernel/source/ps2-ctrl.c, which KernelMain calls after InstallACPI  *)
(* and which asks ACPI whether there is a controller at all.  It is a list *)
(* of commands, data and answers, with two branches.                       *)
(*                                                                         *)
(* The controller has an input buffer, which a command written too early   *)
(* overwrites, an output buffer, which answers and keys share, and a       *)
(* configuration byte, a set of bits.  A step is a write or a read.        *)
(***************************************************************************)
EXTENDS ACPI

CONSTANT
    Computers       \* the pairs of a firmware and a controller, which is a record of
                    \*   dual: it has a second port,
                    \*   config: its configuration, pending: a byte waits in it,
                    \*   resets: its test sets the configuration back,
                    \*   test, test1, test2: whether the tests pass,
                    \*   quick: it does a command before the next step,
                    \*   maxKeys: bound, the bytes from a keyboard

INT1 == "int1"
INT2 == "int2"
SYSTEM == "system"
CLOCK1 == "clock1"  \* clock disabled
CLOCK2 == "clock2"
TRANSLATION == "translation"

PASSED == {"passed"}      \* a byte is a set of bits
FAILED == {"failed"}
KEY == {"key"}

Bits == {INT1, INT2, SYSTEM, CLOCK1, CLOCK2, TRANSLATION}

Controllers ==
    [dual : BOOLEAN, config : SUBSET Bits, pending : BOOLEAN, resets : BOOLEAN, test : BOOLEAN,
     test1 : BOOLEAN, test2 : BOOLEAN, quick : BOOLEAN, maxKeys : Nat]

ASSUME ComputersAssumption == \A c \in Computers : IsFirmware(c[1]) /\ c[2] \in Controllers

VARIABLES
    \* the controller
    controller,
    config8042,     \* its configuration byte
    in,             \* the command or data byte in its input buffer: <<>> or <<byte>>
    awaits,         \* it takes the next data byte as its configuration
    out,            \* the bytes in its output buffer: <<>> or <<byte>>
    keys,           \* how many bytes have come from the keyboard
    touched,        \* history: it has been written to, or read
    \* ps2-ctrl.c
    at,             \* the step of InstallPS2Ctrl, 0 before and after it
    config, ctrlTestRes, singleChnl,
    FirstPortAvailable, SecondPortAvailable,
    installed       \* what it has returned, or "none"

hardware == <<controller, config8042, in, awaits, out, keys>>
program == <<config, ctrlTestRes, singleChnl, FirstPortAvailable, SecondPortAvailable>>
vars == <<acpi, hardware, touched, at, program, installed>>

-----------------------------------------------------------------------------
\* The controller

\* The clock of a second port that is not there stays disabled.
Settled(bits) == IF controller.dual THEN bits ELSE bits \cup {CLOCK2}

Outcome(passes) == IF passes THEN PASSED ELSE FAILED

\* The answer to a command, or none.
Reply(command) ==
    CASE command = "20" -> <<config8042>>
      [] command = "AA" -> <<Outcome(controller.test)>>
      [] command = "AB" -> <<Outcome(controller.test1)>>
      [] command = "A9" -> IF controller.dual THEN <<Outcome(controller.test2)>> ELSE <<>>
      [] OTHER -> <<>>

Configured(command) ==
    CASE command = "AD" -> config8042 \cup {CLOCK1}
      [] command = "AE" -> config8042 \ {CLOCK1}
      [] command = "A7" -> config8042 \cup {CLOCK2}
      [] command = "A8" -> Settled(config8042 \ {CLOCK2})
      [] command = "AA" /\ controller.resets -> Settled(controller.config)
      [] OTHER -> config8042

\* The controller takes what is in its input buffer; an answer needs room.
Process ==
    /\ in # <<>>
    /\ IF in[1].data
       THEN /\ config8042' = IF awaits THEN Settled(in[1].byte) ELSE config8042
            /\ awaits' = FALSE /\ UNCHANGED out
       ELSE /\ Reply(in[1].byte) # <<>> => out = <<>>
            /\ out' = IF Reply(in[1].byte) # <<>> THEN Reply(in[1].byte) ELSE out
            /\ config8042' = Configured(in[1].byte)
            /\ awaits' = (in[1].byte = "60")
    /\ in' = <<>>
    /\ UNCHANGED <<controller, keys, touched, acpi, at, program, installed>>

\* A key is pressed while the first port's clock runs and the output buffer is free.
Key ==
    /\ keys < controller.maxKeys /\ CLOCK1 \notin config8042 /\ out = <<>> /\ at > 0
    /\ out' = <<KEY>> /\ keys' = keys + 1
    /\ UNCHANGED <<controller, config8042, in, awaits, touched, acpi, at, program, installed>>

-----------------------------------------------------------------------------
\* InstallPS2Ctrl

\* Commands are written, data is written when there is room, answers are waited for.
C(command) == [do |-> "command", byte |-> command]
D == [do |-> "data", byte |-> "config"]
R(variable) == [do |-> "read", byte |-> variable]
F == [do |-> "flush", byte |-> "all"]

Steps ==
    << C("AD"), C("A7"), F, C("20"), R("config"), C("60"), D,
       C("AA"), R("test"), C("60"), D,
       C("A8"), C("20"), R("single"), C("A7"), C("AB"), R("first"), C("A9"), R("second"),
       C("AE"), C("A8") >>

\* A quick controller has done what it was told, or has no room for the answer.
Doing(kind) ==
    /\ at \in 1 .. Len(Steps) /\ Steps[at].do = kind
    /\ controller.quick =>
          \A request \in Range(in) : ~request.data /\ Reply(request.byte) # <<>> /\ out # <<>>

\* A second port that is not there is neither disabled nor tested.
Skipped_Never(k) == FALSE

Skipped(k) == singleChnl' /\ k \in {15, 18, 19}

\* The step after k, the last of which returns.
Follows(k) == CHOOSE n \in k + 1 .. Len(Steps) + 1 : /\ ~Skipped(n)
                                                     /\ \A m \in k + 1 .. n - 1 : Skipped(m)

GoOn ==
    IF at = Len(Steps) THEN at' = 0 /\ installed' = "TRUE"
    ELSE at' = Follows(at) /\ UNCHANGED installed

\* The version and the flag count when ACPI is there.
Absent == SCIEnabled /\ fadt.major >= 2 /\ ~fadt.has8042

CallInstall ==
    /\ pc = "returned" /\ at = 0 /\ installed = "none" /\ written = <<>>
    /\ IF Absent THEN installed' = "FALSE" /\ UNCHANGED at
       ELSE at' = 1 /\ UNCHANGED installed
    /\ UNCHANGED <<acpi, hardware, touched, program>>

Put(byte, data) == in' = <<[data |-> data, byte |-> byte]>> /\ touched' = TRUE

\* PS2CtrlSendCommand does not look whether the controller has taken the last byte.
SendCommand ==
    /\ Doing("command")
    /\ Put(Steps[at].byte, FALSE)
    /\ UNCHANGED program /\ GoOn
    /\ UNCHANGED <<acpi, controller, config8042, awaits, out, keys>>

SendData ==
    /\ Doing("data") /\ in = <<>>
    /\ Put(config, TRUE)
    /\ UNCHANGED program /\ GoOn
    /\ UNCHANGED <<acpi, controller, config8042, awaits, out, keys>>

FlushAll_Omitted == TRUE

FlushAll == out = <<>>

\* PS2CtrlFlushBuffer reads while there is something.
Flush ==
    /\ Doing("flush")
    /\ UNCHANGED program
    /\ IF FlushAll THEN GoOn /\ UNCHANGED out ELSE out' = <<>> /\ UNCHANGED <<at, installed>>
    /\ touched' = TRUE
    /\ UNCHANGED <<acpi, controller, config8042, in, awaits, keys>>

\* The bits that the start clears: the clocks are enabled by it, though the ports have
\* just been disabled.
Cleared == {INT1, INT2, CLOCK1, CLOCK2, TRANSLATION}

\* A byte taken for a configuration is some set of bits.
AsBits(byte) == IF byte \in {KEY, PASSED, FAILED} THEN {TRANSLATION} ELSE byte

Assign(variable, byte) ==
    /\ config' = CASE variable = "config" -> AsBits(byte) \ Cleared
                   [] variable = "single" -> AsBits(byte)
                   [] OTHER -> config
    /\ singleChnl' = IF variable = "single" THEN CLOCK2 \in AsBits(byte) ELSE singleChnl
    /\ ctrlTestRes' = IF variable = "test" THEN byte ELSE ctrlTestRes
    /\ FirstPortAvailable' = IF variable = "first" THEN byte = PASSED ELSE FirstPortAvailable
    /\ SecondPortAvailable' = IF variable = "second" THEN byte = PASSED ELSE SecondPortAvailable

Read ==
    /\ Doing("read") /\ out # <<>>
    /\ Assign(Steps[at].byte, out[1])
    /\ out' = <<>> /\ touched' = TRUE
    /\ GoOn
    /\ UNCHANGED <<acpi, controller, config8042, in, awaits, keys>>

\* The controller's own test is judged after the configuration was written again.
FailTest ==
    /\ at = 12 /\ ctrlTestRes # PASSED
    /\ at' = 0 /\ installed' = "FALSE"
    /\ UNCHANGED <<acpi, hardware, touched, program>>

InstallPS2Ctrl ==
    \/ CallInstall \/ FailTest
    \/ (at = 12 => ctrlTestRes = PASSED) /\ (SendCommand \/ SendData \/ Flush \/ Read)

-----------------------------------------------------------------------------

Init ==
    /\ \E c \in Computers : ACPIInit(c[1]) /\ controller = c[2]
    /\ config8042 = Settled(controller.config)
    /\ in = <<>> /\ awaits = FALSE /\ keys = 0 /\ touched = FALSE
    /\ out = IF controller.pending THEN <<KEY>> ELSE <<>>
    /\ at = 0 /\ config = {} /\ ctrlTestRes = FAILED /\ singleChnl = FALSE
    /\ FirstPortAvailable = FALSE /\ SecondPortAvailable = FALSE
    /\ installed = "none"

Next ==
    \/ (ACPINext /\ UNCHANGED <<hardware, touched, at, program, installed>>)
    \/ InstallPS2Ctrl \/ Process \/ Key

\* The program runs, and the controller does its commands.
Main == (InstallACPI /\ UNCHANGED <<hardware, touched, at, program, installed>>) \/ InstallPS2Ctrl

Spec == Init /\ [][Next]_vars /\ WF_vars(Main) /\ WF_vars(Process)

-----------------------------------------------------------------------------
\* Properties

\* The controller is quick and nobody presses a key.
Calm == controller.quick /\ controller.maxKeys = 0

\* A controller that ACPI denies is left alone; another is started as it is: its ports
\* are those that are there and pass their tests, interrupts and translation stay off
\* although the test may set the configuration back, the bits that are not the start's
\* business keep their values, and only its own test makes it fail (ps2-ctrl.c:7-51).
StartedAsItIs ==
    /\ SCIEnabled /\ fadt.major >= 2 /\ ~fadt.has8042 => ~touched
    /\ Calm /\ installed = "FALSE" /\ touched => ~controller.test
    /\ Calm /\ installed = "TRUE" /\ in = <<>> =>
          /\ FirstPortAvailable = controller.test1
          /\ SecondPortAvailable = (controller.dual /\ controller.test2)
          /\ config8042 = Settled(controller.config \cap {SYSTEM})

\* The two starts end unless the machine is switched off between them, although the second
\* waits for each answer without a timeout (acpi.c:113-132, ps2-ctrl.c:13-51).
StartEnds == <>(Returned /\ (Calm => installed # "none" \/ written # <<>>))

=============================================================================
