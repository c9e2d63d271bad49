----------------------------- MODULE PS2Devices -----------------------------
(***************************************************************************)
(* The start of the PS/2 devices: PS2DevsInit and what it calls in         *)
(* src/kernel/source/ps2-dev.c, with the parts of ps2-ctrl.c that move     *)
(* bytes, and the command that InstallPS2Kbd (ps2-kbd.c) sends after it.   *)
(* The controller, whose output buffer holds one byte of either port, and  *)
(* the devices are the environment.                                        *)
(*                                                                         *)
(* First the controller's interrupts are off and answers are polled from   *)
(* its output buffer; then they are on, and the handler of a port moves    *)
(* each byte to the buffer of its port, from which answers are popped.     *)
(* A port's buffer is a queue here: its races and its overflow are those   *)
(* of PS2DevBuffer.  A step of the main flow is a port access or a pop.    *)
(***************************************************************************)
EXTENDS Integers, Sequences

CONSTANTS
    FIRST, SECOND,  \* PS2_DEV_FIRST, PS2_DEV_SECOND
    NPOS,
    Values,         \* the values of a byte, as far as they are told apart
    Attempts,       \* PS2_DEV_NUMBER_OF_ATTEMPTS
    Layouts,        \* what may be attached: functions from the available ports to
                    \* devices [id, boot]: the bytes of the identification, two of
                    \* a keyboard and one of a mouse, and those that follow RESET_DONE
    Circumstances   \* how the devices behave and what users do: a set of records of
                    \*   quick: a device's bytes arrive before the main flow's next step,
                    \*   resenders: the ports whose device may ask for a byte again,
                    \*   maxResends: bound, how often they do in all,
                    \*   maxKeys: bound, the bytes users cause by keys or by a mouse

ACK == "FA"
RESEND == "FE"
RESET_DONE == "AA"
KEY == "key"        \* a byte that is no answer
UNDEFINED == <<"EE", "EE">>
NO_ANSWER == "CC"   \* PS2_CTRL_STATUS_WAIT_FAILED
ANCIENT == <<"CC", "CC">>

Port == {FIRST, SECOND}

IsDevice(device) ==
    /\ device.boot \in Seq(Values) /\ device.id \in Seq(Values)
    /\ \/ Len(device.id) = 1 /\ device.id[1] \notin {"AB", "AC", "CC"}
       \/ Len(device.id) = 2 /\ device.id[1] = "AB"
       \/ device.id = <<"AC", "A1">>

ASSUME DevicesAssumption ==
    /\ FIRST # SECOND /\ NPOS \notin Port
    /\ Attempts \in Nat
    /\ {ACK, RESEND, RESET_DONE, KEY} \subseteq Values
    /\ Circumstances \subseteq [quick : BOOLEAN, resenders : SUBSET Port,
                               maxResends : Nat, maxKeys : Nat]
    /\ \A layout \in Layouts :
          /\ DOMAIN layout # {} /\ DOMAIN layout \subseteq Port
          /\ \A p \in DOMAIN layout : IsDevice(layout[p])

VARIABLES
    \* the controller and the devices
    circumstance,       \* one of Circumstances
    attached,           \* the layout
    out,                \* the output buffer: [full, byte]; a read leaves the byte
    irq,                \* the ports whose interrupt is raised
    enabled,            \* the ports whose interrupt the configuration enables
    route,              \* the port the next data byte is sent to
    pending,            \* the bytes each device has still to send
    reporting,          \* the devices that report keys and movements
    \* ps2-dev.c
    installed,          \* the ports with a handler, unmasked
    buffer,             \* the bytes of each port, the oldest first
    Kbd, Mouse,         \* [index, type]: KbdDevIndex and KbdDevType, and the mouse's
    pc,                 \* the statement the main flow is at
    port,               \* devIndex
    at,                 \* where in PS2DevSendByte it is: "select", "write", "answer"
    attempts,           \* curNumOfAttempts
    id,                 \* the first byte of an identification that has two
    \* history
    sent,               \* how many bytes the main flow has written to devices
    resends,            \* how often a device has asked again, in all,
    refusals,           \* and in the PS2DevSendByte that runs
    keys                \* how many bytes users caused

environment == <<circumstance, attached, irq, enabled, reporting>>
found == <<installed, Kbd, Mouse>>
history == <<sent, resends, refusals, keys>>
vars == <<environment, out, route, pending, buffer, found, pc, port, at, attempts, id, history>>

Available == DOMAIN attached

\* A byte: its value, the device it is from and the write it answers, 0 for none.
Byte(value, from, re) == [value |-> value, from |-> from, re |-> re]

-----------------------------------------------------------------------------
\* The devices and the controller

Answers(device, command) ==
    CASE command = "FF" -> <<ACK, RESET_DONE>> \o device.boot
      [] command = "F2" -> <<ACK>> \o device.id
      [] OTHER          -> <<ACK>>

\* What a keyboard and a mouse report after a command: a mouse stops at a reset.
Reports(p, command) ==
    CASE command = "F4" -> TRUE
      [] command = "FF" -> attached[p].boot = <<>>
      [] OTHER          -> p \in reporting

\* The device on port p gets a command and answers it, or asks for it again; a byte
\* for a port without a device is lost.
Receive(p, command) ==
    \/ /\ p \in Available
       /\ LET answers == Answers(attached[p], command)
          IN pending' = [pending EXCEPT ![p] =
                            @ \o [k \in 1 .. Len(answers) |-> Byte(answers[k], p, sent + 1)]]
       /\ reporting' = IF Reports(p, command) THEN reporting \cup {p} ELSE reporting \ {p}
       /\ UNCHANGED <<resends, refusals>>
    \/ /\ p \in Available \cap circumstance.resenders /\ resends < circumstance.maxResends
       /\ pending' = [pending EXCEPT ![p] = Append(@, Byte(RESEND, p, sent + 1))]
       /\ resends' = resends + 1 /\ refusals' = refusals + 1
       /\ UNCHANGED reporting
    \/ /\ p \notin Available
       /\ UNCHANGED <<pending, reporting, resends, refusals>>

\* A device's next byte reaches the free output buffer.
Deliver(p) ==
    /\ pending[p] # <<>> /\ ~out.full
    /\ out' = [full |-> TRUE, byte |-> Head(pending[p])]
    /\ pending' = [pending EXCEPT ![p] = Tail(@)]
    /\ irq' = IF p \in enabled THEN irq \cup {p} ELSE irq
    /\ UNCHANGED <<circumstance, attached, enabled, reporting, route, buffer, found, pc, port, at, attempts, id, history>>

\* A key is pressed, or the mouse moved.
Report(p) ==
    /\ keys < circumstance.maxKeys /\ p \in reporting
    /\ pending' = [pending EXCEPT ![p] = Append(@, Byte(KEY, p, 0))]
    /\ keys' = keys + 1
    /\ UNCHANGED <<environment, out, route, buffer, found, pc, port, at, attempts, id, sent, resends, refusals>>

\* PS2FirstHandler and PS2SecondHandler read whatever the output buffer holds, which is
\* the last byte again when somebody was faster.
Handler(p) ==
    /\ p \in irq \cap installed
    /\ buffer' = [buffer EXCEPT ![p] = Append(@, out.byte)]
    /\ out' = [out EXCEPT !.full = FALSE]
    /\ irq' = irq \ {p}
    /\ UNCHANGED <<circumstance, attached, enabled, reporting, route, pending, found, pc, port, at, attempts, id, history>>

\* Interrupts come between any two steps of the main flow; with quick devices all that
\* are due have come.
MainFlow ==
    circumstance.quick => irq = {} /\ \A p \in Port : pending[p] = <<>> \/ out.full

-----------------------------------------------------------------------------
\* PS2DevSendByte

Command ==
    [enable |-> "F4", reset |-> "FF", reenable |-> "F4", identify |-> "F2",
     scanCodeSet |-> "F0", scanCodeNumber |-> "01"]

Sending == pc \in DOMAIN Command

\* ctrlData
Polled == pc = "enable"

Select ==
    /\ MainFlow /\ Sending /\ at = "select"
    /\ route' = port
    /\ attempts' = Attempts /\ refusals' = 0 /\ at' = "write"
    /\ UNCHANGED <<environment, out, pending, buffer, found, pc, port, id, sent, resends, keys>>

\* PS2CtrlSendData: the selection of the second port holds for one byte.
Write ==
    /\ MainFlow /\ Sending /\ at = "write"
    /\ Receive(route, Command[pc])
    /\ route' = FIRST /\ sent' = sent + 1 /\ at' = "answer"
    /\ UNCHANGED <<circumstance, attached, irq, enabled, out, buffer, found, pc, port, attempts, id, keys>>

\* The answer, from the output buffer or from the oldest byte of the port's buffer.
Answered == IF Polled THEN out.full ELSE buffer[port] # <<>>
Answer == IF Polled THEN out.byte ELSE Head(buffer[port])

Retries_Once == Answer.value = RESEND /\ attempts > 1

Retries == Answer.value = RESEND /\ attempts > 0

\* The byte is taken.
Take ==
    IF Polled
    THEN out' = [out EXCEPT !.full = FALSE] /\ UNCHANGED buffer
    ELSE buffer' = [buffer EXCEPT ![port] = Tail(@)] /\ UNCHANGED out

Retry ==
    /\ MainFlow /\ Sending /\ at = "answer" /\ Answered /\ Retries
    /\ Take /\ attempts' = attempts - 1 /\ at' = "write"
    /\ UNCHANGED <<environment, route, pending, found, pc, port, id, history>>

-----------------------------------------------------------------------------
\* Its callers

\* Where the main flow goes: to statement s, for port p, which may be a call of
\* PS2DevSendByte.
GoTo(s, p) == pc' = s /\ port' = p /\ at' = "select"

\* From the first to the second port, for statement s, or on to statement after.
NextPort(s, after) ==
    IF port = FIRST /\ SECOND \in Available THEN GoTo(s, SECOND) ELSE GoTo(after, FIRST)

FirstPort == IF FIRST \in Available THEN FIRST ELSE SECOND

\* PS2DevsInit, before the enabling of each port.
Install ==
    /\ MainFlow /\ pc = "install"
    /\ installed' = installed \cup {port}
    /\ GoTo("enable", port)
    /\ UNCHANGED <<environment, out, route, pending, buffer, Kbd, Mouse, attempts, id, history>>

IsKeyboard_NotSun(type) == type[1] = "AB"

IsKeyboard(type) == type = ANCIENT \/ type[1] \in {"AB", "AC"}

\* The assignments to KbdDevIndex and the other three variables.
Record(type) ==
    /\ Kbd' = IF IsKeyboard(type) THEN [index |-> port, type |-> type] ELSE Kbd
    /\ Mouse' = IF IsKeyboard(type) THEN Mouse ELSE [index |-> port, type |-> type]

\* PS2DevsInit returns TRUE after the last port; InstallPS2Kbd, called next, sets the
\* scan code set if there is a keyboard.
Identified(type) ==
    /\ Record(type)
    /\ IF port = FIRST /\ SECOND \in Available THEN GoTo("reset", SECOND)
       ELSE IF Kbd'.index # NPOS THEN GoTo("scanCodeSet", Kbd'.index)
       ELSE GoTo("done", FIRST)

\* PS2DevSendByte returns to its caller with an answer that is not retried.
Return ==
    /\ MainFlow /\ Sending /\ at = "answer" /\ Answered /\ ~Retries
    /\ Take
    /\ CASE Answer.value # ACK /\ pc = "identify"             -> Identified(UNDEFINED)
         [] Answer.value # ACK /\ pc \in {"scanCodeSet", "scanCodeNumber"} ->
                                     GoTo("done", FIRST) /\ UNCHANGED <<Kbd, Mouse>>
         [] Answer.value # ACK /\ pc \in {"enable", "reset", "reenable"} ->
                                     GoTo("failed", FIRST) /\ UNCHANGED <<Kbd, Mouse>>
         [] Answer.value = ACK ->
              /\ UNCHANGED <<Kbd, Mouse>>
              /\ CASE pc = "enable"         -> NextPort("install", "writeConfig")
                   [] pc = "reset"          -> GoTo("resetDone", port)
                   [] pc = "reenable"       -> GoTo("identify", port)
                   [] pc = "identify"       -> GoTo("id", port)
                   [] pc = "scanCodeSet"    -> GoTo("scanCodeNumber", port)
                   [] pc = "scanCodeNumber" -> GoTo("done", FIRST)
    /\ UNCHANGED <<environment, route, pending, installed, attempts, id, history>>

Enabled_First == {FirstPort}

Enabled == installed

\* The interrupts of the available ports are switched on; a byte that has come before
\* raises none.
WriteConfig ==
    /\ MainFlow /\ pc = "writeConfig"
    /\ enabled' = Enabled
    /\ GoTo("flush", FIRST)
    /\ UNCHANGED <<circumstance, attached, irq, reporting, out, route, pending, buffer, found, attempts, id, history>>

Leftover_Ignored == FALSE

Leftover == out.full

\* PS2CtrlFlushBuffer: while there is a byte, wait for a byte and read it.
Flush ==
    /\ MainFlow /\ pc = "flush"
    /\ IF Leftover THEN GoTo("flushRead", FIRST) ELSE GoTo("reset", FirstPort)
    /\ UNCHANGED <<environment, out, route, pending, buffer, found, attempts, id, history>>

FlushRead ==
    /\ MainFlow /\ pc = "flushRead" /\ out.full
    /\ out' = [out EXCEPT !.full = FALSE]
    /\ GoTo("flush", FIRST)
    /\ UNCHANGED <<environment, route, pending, buffer, found, attempts, id, history>>

\* PS2DevReset pops RESET_DONE.
PopResetDone ==
    /\ MainFlow /\ pc = "resetDone" /\ buffer[port] # <<>>
    /\ buffer' = [buffer EXCEPT ![port] = Tail(@)]
    /\ IF Head(buffer[port]).value = RESET_DONE THEN GoTo("empty", port) ELSE GoTo("failed", FIRST)
    /\ UNCHANGED <<environment, out, route, pending, found, attempts, id, history>>

EmptyBuffer_Not ==
    /\ MainFlow /\ pc = "empty"
    /\ GoTo("reenable", port)
    /\ UNCHANGED <<buffer, environment, out, route, pending, found, attempts, id, history>>

EmptyBuffer ==
    /\ MainFlow /\ pc = "empty"
    /\ buffer' = [buffer EXCEPT ![port] = <<>>]
    /\ GoTo("reenable", port)
    /\ UNCHANGED <<environment, out, route, pending, found, attempts, id, history>>

TwoBytes(value) == value \in {"AB", "AC"}

\* A byte that means that there was no answer is a keyboard's.
OneByteType(value) == IF value = NO_ANSWER THEN ANCIENT ELSE <<value>>

\* PS2DevGetType pops one byte, or two.
PopId ==
    /\ MainFlow /\ pc = "id" /\ buffer[port] # <<>>
    /\ buffer' = [buffer EXCEPT ![port] = Tail(@)]
    /\ LET value == Head(buffer[port]).value
       IN IF TwoBytes(value)
          THEN GoTo("secondId", port) /\ id' = value /\ UNCHANGED <<Kbd, Mouse>>
          ELSE Identified(OneByteType(value)) /\ UNCHANGED id
    /\ UNCHANGED <<environment, out, route, pending, installed, attempts, history>>

\* A Sun keyboard is one whatever its second byte; 0xABC1 is taken for an MF2 keyboard.
TwoByteType(second) ==
    IF id = "AC" THEN <<"AC", "A1">>
    ELSE IF second = "C1" THEN <<"AB", "83">> ELSE <<id, second>>

PopSecondId ==
    /\ MainFlow /\ pc = "secondId" /\ buffer[port] # <<>>
    /\ buffer' = [buffer EXCEPT ![port] = Tail(@)]
    /\ Identified(TwoByteType(Head(buffer[port]).value))
    /\ UNCHANGED <<environment, out, route, pending, installed, attempts, id, history>>

-----------------------------------------------------------------------------

\* The controller's configuration has been read and the output buffer is empty; a
\* keyboard reports its keys before it is asked to.
Init ==
    /\ attached \in Layouts /\ circumstance \in Circumstances
    /\ out = [full |-> FALSE, byte |-> Byte(KEY, FIRST, 0)]
    /\ irq = {} /\ enabled = {} /\ route = FIRST
    /\ reporting = {p \in Available : attached[p].boot = <<>>}
    /\ pending = [p \in Port |-> <<>>] /\ buffer = [p \in Port |-> <<>>]
    /\ installed = {}
    /\ Kbd = [index |-> NPOS, type |-> UNDEFINED] /\ Mouse = [index |-> NPOS, type |-> UNDEFINED]
    /\ pc = "install" /\ port = FirstPort /\ at = "select"
    /\ attempts = 0 /\ id = "EE"
    /\ sent = 0 /\ resends = 0 /\ refusals = 0 /\ keys = 0

Main ==
    \/ Install \/ Select \/ Write \/ Retry \/ Return \/ WriteConfig \/ Flush \/ FlushRead
    \/ PopResetDone \/ EmptyBuffer \/ PopId \/ PopSecondId

Next ==
    \/ Main
    \/ \E p \in Port : Deliver(p) \/ Report(p) \/ Handler(p)

\* The processor executes the main flow and takes interrupts, and a device that has a
\* byte to send sends it.
Fairness ==
    /\ WF_vars(Main)
    /\ \A p \in Port : SF_vars(Deliver(p)) /\ WF_vars(Handler(p))

Spec == Init /\ [][Next]_vars /\ Fairness

-----------------------------------------------------------------------------
\* Properties

\* Devices answer in time and nobody touches them, and the second one refuses nothing: a
\* byte that is sent to it again goes to the first.
Calm == circumstance.quick /\ circumstance.maxKeys = 0 /\ circumstance.resenders \subseteq {FIRST}

\* No two devices are keyboards, or mice: the second would take the place of the first.
OneOfEach ==
    \A p, q \in Available : (Len(attached[p].id) = 2 <=> Len(attached[q].id) = 2) => p = q

TakesAnswer == Sending /\ at = "answer" /\ <<pc', port', at'>> # <<pc, port, at>>

\* When devices answer in time, what PS2DevSendByte takes for the answer is the device's
\* answer to the byte it has just written: no byte of the other port, of an earlier
\* command or of a reset is left in its way (ps2-dev.c:97-120, 170).
AnswersMatch == [][Calm /\ TakesAnswer => Answer.from = port /\ Answer.re = sent]_vars

\* When devices answer in time, PS2DevsInit gives up only when one has refused a byte at
\* every attempt (ps2-dev.c:107-120).
FailsOnlyWhenRefused == Calm /\ pc = "failed" => refusals > Attempts

\* That a "PS/2 mouse can send ID byte (0x00)" (ps2-dev.c:170) after a reset does not make
\* the start fail when no device has refused a byte.
LateBytesAreNoFailure == pc = "failed" => refusals > 0

\* Once everything is started the device that is a keyboard is the keyboard, and the
\* other one the mouse, with the types they gave (ps2-dev.c:44-79, 180-201), and nothing
\* of the start's conversation is left for the readers of keys and movements
\* (ps2-dev.c:163-201).
StartedRight ==
    Calm /\ pc = "done" /\ resends <= Attempts =>
        /\ OneOfEach => \A p \in Available :
              IF Len(attached[p].id) = 2
              THEN Kbd = [index |-> p,
                          type |-> [attached[p].id EXCEPT ![2] = IF @ = "C1" THEN "83" ELSE @]]
              ELSE Mouse = [index |-> p, type |-> attached[p].id]
        /\ ~out.full /\ \A p \in Port : pending[p] = <<>> /\ buffer[p] = <<>>

\* The start ends when devices answer in time, although every wait in it is without a
\* timeout (ps2-dev.c:18-83).
StartEnds == Calm => <>(pc \in {"done", "failed"})

\* No byte stays in the controller for ever, where it would keep every later one out:
\* one that came before the interrupts were on is flushed (ps2-dev.c:40-42).
NoByteIsStuck == out.full ~> (~out.full \/ pc = "failed")

=============================================================================
