--------------------------- MODULE PS2DevicesProofs ---------------------------
(***************************************************************************)
(* What TLAPS proves of the start of the PS/2 devices: in a calm machine,  *)
(* whose devices answer in time, the start keeps in step with them, for    *)
(* every layout of devices, every identification, any bytes after a reset, *)
(* any number of attempts and of refusals.                                 *)
(***************************************************************************)
EXTENDS PS2Devices, SequenceTheorems, TLAPS

-----------------------------------------------------------------------------
\* The conversation

From(p) == [value : Values, from : {p}, re : Nat]

Bytes == [value : Values, from : Port, re : Nat]

InController(p) == IF out.full /\ out.byte.from = p THEN <<out.byte>> ELSE <<>>

\* The bytes of a port that the main flow has not taken, the oldest first.
Stream(p) == buffer[p] \o InController(p) \o pending[p]

\* The values that the device has still to say, or has said, to the main flow.
Remaining ==
    CASE Sending /\ at = "answer" -> Answers(attached[port], Command[pc])
      [] pc = "resetDone"         -> <<RESET_DONE>> \o attached[port].boot
      [] pc = "empty"             -> attached[port].boot
      [] pc = "id"                -> attached[port].id
      [] pc = "secondId"          -> Tail(attached[port].id)
      [] OTHER                    -> <<>>

Said(values, p, n) == [k \in 1 .. Len(values) |-> Byte(values[k], p, n)]

Refused ==
    /\ Sending /\ at = "answer" /\ port = FIRST
    /\ Stream(port) = <<Byte(RESEND, port, sent)>>

-----------------------------------------------------------------------------
\* The invariant of a calm start

Starting == pc \in {"install", "enable", "writeConfig"}

ForPort == {"install", "resetDone", "empty", "id", "secondId"} \cup DOMAIN Command

Typed ==
    /\ attached \in Layouts /\ circumstance \in Circumstances
    /\ out \in [full : BOOLEAN, byte : Bytes]
    /\ pending \in [Port -> Seq(Bytes)] /\ buffer \in [Port -> Seq(Bytes)]
    /\ \A p \in Port : pending[p] \in Seq(From(p))
    /\ irq \subseteq Port /\ sent \in Nat /\ resends \in Nat /\ refusals \in Nat /\ keys \in Nat
    /\ attempts \in Nat
    /\ port \in Port /\ at \in {"select", "write", "answer"}
    /\ pc \in ForPort \cup {"writeConfig", "flush", "flushRead", "done", "failed"}
    /\ Kbd.index \in Available \cup {NPOS}

\* The main flow goes from port to port, and the interrupts are on after it has been to each.
Placed ==
    /\ pc \in ForPort => port \in Available
    /\ pc = "install" => installed = {q \in Available : q = FIRST /\ port = SECOND}
    /\ pc = "enable" => installed = {q \in Available : q = FIRST \/ port = SECOND}
    /\ pc \notin {"install", "enable", "failed"} => installed = Available
    /\ Starting => enabled = {} /\ irq = {} /\ \A p \in Port : buffer[p] = <<>>
    /\ ~Starting /\ pc # "failed" => enabled = Available
    /\ irq # {} => out.full /\ irq = {out.byte.from}
    /\ ~Starting /\ out.full => irq = {out.byte.from}
    /\ pc # "flushRead"

\* What is on its way is what the device has been asked for, and nothing else.
InStep ==
    /\ \A p \in Port \ {port} : Stream(p) = <<>>
    /\ Stream(port) = Said(Remaining, port, sent) \/ Refused
    /\ Sending /\ at # "select" => route = port \/ (at = "answer" /\ route = FIRST)
    /\ pc = "secondId" => Len(attached[port].id) = 2 /\ id = attached[port].id[1]

Counted ==
    /\ refusals <= resends
    /\ Sending /\ at # "select" /\ ~Refused => attempts + refusals = Attempts
    /\ Refused => attempts + refusals = Attempts + 1
    /\ pc = "failed" => refusals > Attempts

\* The device on port p is known for what it is.
Known(p) ==
    IF Len(attached[p].id) = 2
    THEN Kbd = [index |-> p,
                type |-> [attached[p].id EXCEPT ![2] = IF @ = "C1" THEN "83" ELSE @]]
    ELSE Mouse = [index |-> p, type |-> attached[p].id]

Asked == {"reset", "resetDone", "empty", "reenable", "identify", "id", "secondId"}

\* The devices that have been asked for their type are known.
KnownSoFar ==
    OneOfEach /\ resends <= Attempts =>
        /\ pc \in Asked /\ port = SECOND => \A p \in Available \cap {FIRST} : Known(p)
        /\ pc \in {"scanCodeSet", "scanCodeNumber", "done"} => \A p \in Available : Known(p)

CalmInv == Typed /\ Placed /\ InStep /\ Counted /\ KnownSoFar

DevicesInv == Calm => CalmInv

-----------------------------------------------------------------------------
\* Sequences of three parts

LEMMA EmptyParts ==
    ASSUME NEW S, NEW a \in Seq(S), NEW b \in Seq(S), NEW c \in Seq(S), a \o b \o c = <<>>
    PROVE  a = <<>> /\ b = <<>> /\ c = <<>>
<1>1. Len(a \o b \o c) = Len(a) + Len(b) + Len(c)
  OBVIOUS
<1>2. Len(a) = 0 /\ Len(b) = 0 /\ Len(c) = 0
  BY <1>1
<1> QED
  BY <1>2

LEMMA HeadMovesOn ==
    ASSUME NEW S, NEW a \in Seq(S), NEW c \in Seq(S), c # <<>>
    PROVE  a \o <<>> \o c = a \o <<Head(c)>> \o Tail(c)
<1>1. a \o <<>> = a
  OBVIOUS
<1>2. <<Head(c)>> \o Tail(c) = c /\ Head(c) \in S /\ Tail(c) \in Seq(S)
  OBVIOUS
<1>3. a \o <<Head(c)>> \o Tail(c) = a \o (<<Head(c)>> \o Tail(c))
  BY <1>2
<1> QED
  BY <1>1, <1>2, <1>3

LEMMA MiddleMovesOn ==
    ASSUME NEW S, NEW a \in Seq(S), NEW x \in S, NEW c \in Seq(S)
    PROVE  a \o <<x>> \o c = Append(a, x) \o <<>> \o c
<1>1. a \o <<x>> = Append(a, x) /\ Append(a, x) \o <<>> = Append(a, x)
  OBVIOUS
<1> QED
  BY <1>1

LEMMA OneOfThree ==
    ASSUME NEW S, NEW a \in Seq(S)
    PROVE  a \o <<>> \o <<>> = a /\ <<>> \o <<>> \o a = a
<1>1. a \o <<>> = a /\ <<>> \o <<>> = <<>> /\ <<>> \o a = a
  OBVIOUS
<1> QED
  BY <1>1

LEMMA SaidIs ==
    ASSUME NEW v \in Seq(Values), NEW p \in Port, NEW n \in Nat
    PROVE  /\ Said(v, p, n) \in Seq(From(p)) /\ Len(Said(v, p, n)) = Len(v)
           /\ v = <<>> <=> Said(v, p, n) = <<>>
           /\ v # <<>> => /\ Head(Said(v, p, n)) = Byte(Head(v), p, n)
                          /\ Tail(Said(v, p, n)) = Said(Tail(v), p, n)
<1>1. \A k \in 1 .. Len(v) : Byte(v[k], p, n) \in From(p)
  BY DEF Byte, From
<1>2. Said(v, p, n) \in Seq(From(p)) /\ Len(Said(v, p, n)) = Len(v)
  BY <1>1 DEF Said
<1>3. v = <<>> <=> Said(v, p, n) = <<>>
  BY <1>2
<1>4. ASSUME v # <<>>
      PROVE  /\ Head(Said(v, p, n)) = Byte(Head(v), p, n)
             /\ Tail(Said(v, p, n)) = Said(Tail(v), p, n)
  <2>1. Len(v) \in Nat /\ Len(v) > 0
    BY <1>4
  <2>2. Head(Said(v, p, n)) = Byte(Head(v), p, n)
    BY <2>1 DEF Said
  <2>3. Tail(v) \in Seq(Values) /\ Len(Tail(v)) = Len(v) - 1 /\ \A k \in 1 .. Len(v) - 1 : Tail(v)[k] = v[k + 1]
    BY <1>4
  <2> DEFINE t == Tail(Said(v, p, n))
             u == Said(Tail(v), p, n)
  <2>4. t \in Seq(From(p)) /\ Len(t) = Len(v) - 1 /\ \A k \in 1 .. Len(v) - 1 : t[k] = Said(v, p, n)[k + 1]
    <3>1. \A s \in Seq(From(p)) : Len(s) > 0 =>
             /\ Tail(s) \in Seq(From(p)) /\ Len(Tail(s)) = Len(s) - 1
             /\ \A k \in 1 .. Len(s) - 1 : Tail(s)[k] = s[k + 1]
      OBVIOUS
    <3> QED
      BY <1>2, <2>1, <3>1
  <2>5. u \in Seq(From(p)) /\ Len(u) = Len(v) - 1 /\ \A k \in 1 .. Len(v) - 1 : u[k] = Byte(v[k + 1], p, n)
    <3>1. \A k \in 1 .. Len(v) - 1 : Byte(Tail(v)[k], p, n) \in From(p)
      BY <2>3 DEF Byte, From
    <3> QED
      BY <2>1, <2>3, <3>1 DEF Said
  <2>6. \A k \in 1 .. Len(v) - 1 : Said(v, p, n)[k + 1] = Byte(v[k + 1], p, n)
    BY <2>1 DEF Said
  <2>7. \A k \in 1 .. Len(t) : t[k] = u[k]
    BY <2>4, <2>5, <2>6
  <2>8. t = u
    <3> HIDE DEF t, u
    <3> QED
      BY <2>4, <2>5, <2>7, SeqEqual
  <2> QED
    BY <2>2, <2>8
<1> QED
  BY <1>2, <1>3, <1>4

LEMMA NothingSaid == ASSUME NEW p \in Port, NEW n \in Nat PROVE Said(<<>>, p, n) = <<>>
<1>1. <<>> \in Seq(Values)
  OBVIOUS
<1>2. \A v \in Seq(Values) : v = <<>> <=> Said(v, p, n) = <<>>
  BY SaidIs
<1> QED
  BY <1>1, <1>2

-----------------------------------------------------------------------------
\* Devices and their answers

Statements == {"enable", "reset", "reenable", "identify", "scanCodeSet", "scanCodeNumber"}

LEMMA CommandIs ==
    /\ DOMAIN Command = Statements
    /\ Command["enable"] = "F4" /\ Command["reset"] = "FF" /\ Command["reenable"] = "F4"
    /\ Command["identify"] = "F2" /\ Command["scanCodeSet"] = "F0" /\ Command["scanCodeNumber"] = "01"
BY DEF Command, Statements

LEMMA AvailableIs ==
    ASSUME Typed
    PROVE  /\ Available \subseteq Port /\ Available # {} /\ FirstPort \in Available
           /\ FIRST # SECOND /\ NPOS \notin Port /\ Attempts \in Nat
           /\ \A p \in Available : IsDevice(attached[p])
<1>1. attached \in Layouts
  BY DEF Typed
<1>2. /\ DOMAIN attached # {} /\ DOMAIN attached \subseteq Port
      /\ \A p \in DOMAIN attached : IsDevice(attached[p])
  BY <1>1, DevicesAssumption
<1>3. FIRST # SECOND /\ NPOS \notin Port /\ Attempts \in Nat
  BY DevicesAssumption
<1> QED
  BY <1>2, <1>3 DEF Available, Port, FirstPort

LEMMA ValuesAre == ACK \in Values /\ RESET_DONE \in Values /\ RESEND \in Values /\ KEY \in Values
BY DevicesAssumption

LEMMA InFront ==
    ASSUME NEW S, NEW x \in S, NEW v \in Seq(S)
    PROVE  <<x>> \o v \in Seq(S) /\ <<x>> \o v # <<>> /\ Head(<<x>> \o v) = x /\ Tail(<<x>> \o v) = v
OBVIOUS

\* Every answer begins with ACK, and what follows is what the command is for.
LEMMA AnswersAre ==
    ASSUME NEW device, IsDevice(device), NEW s \in Statements
    PROVE  /\ Answers(device, Command[s]) \in Seq(Values) /\ Answers(device, Command[s]) # <<>>
           /\ Head(Answers(device, Command[s])) = ACK
           /\ Tail(Answers(device, Command[s])) =
                IF s = "reset" THEN <<RESET_DONE>> \o device.boot
                ELSE IF s = "identify" THEN device.id ELSE <<>>
<1>1. device.boot \in Seq(Values) /\ device.id \in Seq(Values)
  BY DEF IsDevice
<1>2. /\ <<ACK>> \o device.id \in Seq(Values) /\ <<ACK>> \o device.id # <<>>
      /\ Head(<<ACK>> \o device.id) = ACK /\ Tail(<<ACK>> \o device.id) = device.id
  BY <1>1, ValuesAre, InFront
<1>3. <<ACK>> \in Seq(Values) /\ <<ACK>> # <<>> /\ Head(<<ACK>>) = ACK /\ Tail(<<ACK>>) = <<>>
  BY ValuesAre
<1>4. LET v == <<RESET_DONE>> \o device.boot IN
      /\ v \in Seq(Values) /\ <<ACK>> \o v # <<>> /\ <<ACK>> \o v \in Seq(Values)
      /\ Head(<<ACK>> \o v) = ACK /\ Tail(<<ACK>> \o v) = v
  <2>1. <<RESET_DONE>> \o device.boot \in Seq(Values)
    BY <1>1, ValuesAre, InFront
  <2>2. \A v \in Seq(Values) : /\ <<ACK>> \o v # <<>> /\ <<ACK>> \o v \in Seq(Values)
                               /\ Head(<<ACK>> \o v) = ACK /\ Tail(<<ACK>> \o v) = v
    BY ValuesAre, InFront
  <2> QED
    BY <2>1, <2>2
<1>5. <<ACK, RESET_DONE>> \o device.boot = <<ACK>> \o (<<RESET_DONE>> \o device.boot)
  BY <1>1
<1>6. CASE s = "reset"
  BY <1>4, <1>5, <1>6, CommandIs DEF Answers
<1>7. CASE s = "identify"
  BY <1>2, <1>7, CommandIs DEF Answers
<1>8. CASE s \notin {"reset", "identify"}
  BY <1>3, <1>8, CommandIs DEF Answers, Statements
<1> QED
  BY <1>6, <1>7, <1>8

-----------------------------------------------------------------------------
\* The streams

LEMMA StreamParts ==
    ASSUME Typed, NEW p \in Port
    PROVE  /\ buffer[p] \in Seq(Bytes) /\ InController(p) \in Seq(Bytes) /\ pending[p] \in Seq(Bytes)
           /\ Stream(p) = <<>> <=> buffer[p] = <<>> /\ pending[p] = <<>> /\ ~(out.full /\ out.byte.from = p)
<1>1. buffer[p] \in Seq(Bytes) /\ pending[p] \in Seq(Bytes) /\ InController(p) \in Seq(Bytes)
  BY DEF Typed, InController
<1>2. InController(p) = <<>> <=> ~(out.full /\ out.byte.from = p)
  BY DEF InController
<1>3. Stream(p) = <<>> <=> buffer[p] = <<>> /\ InController(p) = <<>> /\ pending[p] = <<>>
  BY <1>1, EmptyParts DEF Stream
<1> QED
  BY <1>1, <1>2, <1>3

\* A byte that moves on within a stream changes no stream.
LEMMA DeliverMovesOn ==
    ASSUME Typed, NEW p \in Port, Deliver(p)
    PROVE  /\ Typed' /\ out'.full /\ out'.byte.from = p
           /\ \A q \in Port : Stream(q)' = Stream(q)
<1>1. /\ pending[p] # <<>> /\ ~out.full /\ out' = [full |-> TRUE, byte |-> Head(pending[p])]
      /\ pending' = [pending EXCEPT ![p] = Tail(@)] /\ irq' \subseteq Port
      /\ UNCHANGED <<circumstance, attached, reporting, route, buffer, found, pc, port, at,
                     attempts, id, history>>
  BY DEF Deliver, Typed
<1>2. pending[p] \in Seq(From(p))
  BY DEF Typed
<1>3. Head(pending[p]) \in From(p) /\ Tail(pending[p]) \in Seq(From(p))
  BY <1>1, <1>2
<1>4. Head(pending[p]).from = p /\ Head(pending[p]) \in Bytes /\ Tail(pending[p]) \in Seq(Bytes)
  <2>1. pending[p] \in Seq(Bytes)
    BY DEF Typed
  <2> QED
    BY <1>1, <1>3, <2>1 DEF From
<1>5. Typed'
  BY <1>1, <1>3, <1>4 DEF Typed, found, history, Available
<1>6. \A q \in Port \ {p} : Stream(q)' = Stream(q)
  <2> TAKE q \in Port \ {p}
  <2>1. buffer'[q] = buffer[q] /\ pending'[q] = pending[q]
    BY <1>1 DEF Typed
  <2>2. InController(q)' = InController(q)
    BY <1>1, <1>4 DEF InController
  <2> QED
    BY <2>1, <2>2 DEF Stream
<1>7. Stream(p)' = Stream(p)
  <2>1. buffer'[p] = buffer[p] /\ pending'[p] = Tail(pending[p])
    BY <1>1 DEF Typed
  <2>2. InController(p)' = <<Head(pending[p])>> /\ InController(p) = <<>>
    BY <1>1, <1>4 DEF InController
  <2>3. buffer[p] \in Seq(Bytes) /\ pending[p] \in Seq(Bytes)
    BY DEF Typed
  <2>4. Stream(p) = buffer[p] \o <<>> \o pending[p]
    BY <2>2 DEF Stream
  <2>5. Stream(p)' = buffer[p] \o <<Head(pending[p])>> \o Tail(pending[p])
    BY <2>1, <2>2 DEF Stream
  <2>6. buffer[p] \o <<>> \o pending[p] = buffer[p] \o <<Head(pending[p])>> \o Tail(pending[p])
    BY <1>1, <2>3, HeadMovesOn
  <2> QED
    BY <2>4, <2>5, <2>6
<1> QED
  BY <1>1, <1>4, <1>5, <1>6, <1>7

LEMMA HandlerMovesOn ==
    ASSUME Typed, NEW p \in Port, Handler(p), out.full, out.byte.from = p
    PROVE  /\ Typed' /\ ~out'.full
           /\ \A q \in Port : Stream(q)' = Stream(q)
<1>1. /\ out' = [out EXCEPT !.full = FALSE] /\ buffer' = [buffer EXCEPT ![p] = Append(@, out.byte)]
      /\ irq' \subseteq Port
      /\ UNCHANGED <<circumstance, attached, reporting, route, pending, found, pc, port, at,
                     attempts, id, history>>
  BY DEF Handler, Typed
<1>2. /\ out.byte \in Bytes /\ Append(buffer[p], out.byte) \in Seq(Bytes)
      /\ ~out'.full /\ out' \in [full : BOOLEAN, byte : Bytes]
  <2>1. out \in [full : BOOLEAN, byte : Bytes] /\ buffer[p] \in Seq(Bytes)
    BY DEF Typed
  <2>2. out.byte \in Bytes
    BY <2>1
  <2>3. ~out'.full /\ out' \in [full : BOOLEAN, byte : Bytes]
    BY <1>1, <2>1
  <2> QED
    BY <2>1, <2>2, <2>3
<1>3. Typed'
  BY <1>1, <1>2 DEF Typed, found, history, Available
<1>4. \A q \in Port \ {p} : Stream(q)' = Stream(q)
  <2> TAKE q \in Port \ {p}
  <2>1. buffer'[q] = buffer[q] /\ pending'[q] = pending[q]
    BY <1>1 DEF Typed
  <2>2. InController(q)' = InController(q)
    BY <1>2 DEF InController
  <2> QED
    BY <2>1, <2>2 DEF Stream
<1>5. Stream(p)' = Stream(p)
  <2>1. buffer'[p] = Append(buffer[p], out.byte) /\ pending'[p] = pending[p]
    BY <1>1 DEF Typed
  <2>2. InController(p)' = <<>> /\ InController(p) = <<out.byte>>
    BY <1>2 DEF InController
  <2>3. buffer[p] \in Seq(Bytes) /\ pending[p] \in Seq(Bytes)
    BY DEF Typed
  <2>4. Stream(p) = buffer[p] \o <<out.byte>> \o pending[p]
    BY <2>2 DEF Stream
  <2>5. Stream(p)' = Append(buffer[p], out.byte) \o <<>> \o pending[p]
    BY <2>1, <2>2 DEF Stream
  <2>6. buffer[p] \o <<out.byte>> \o pending[p] = Append(buffer[p], out.byte) \o <<>> \o pending[p]
    <3> DEFINE a == buffer[p]
               c == pending[p]
               x == out.byte
    <3>1. a \in Seq(Bytes) /\ c \in Seq(Bytes) /\ x \in Bytes
      BY <1>2, <2>3
    <3> HIDE DEF a, c, x
    <3>2. a \o <<x>> \o c = Append(a, x) \o <<>> \o c
      BY <3>1, MiddleMovesOn
    <3> QED
      BY <3>2 DEF a, c, x
  <2> QED
    BY <2>4, <2>5, <2>6
<1> QED
  BY <1>2, <1>3, <1>4, <1>5

-----------------------------------------------------------------------------
\* The steps of the devices and of the handlers

\* What moves bytes on within the streams keeps everything else.
LEMMA MovingKeeps ==
    ASSUME CalmInv, Typed', \A q \in Port : Stream(q)' = Stream(q),
           UNCHANGED <<circumstance, attached, enabled, route, found, pc, port, at, attempts, id, history>>,
           irq' # {} => out'.full /\ irq' = {out'.byte.from},
           ~Starting /\ out'.full => irq' = {out'.byte.from},
           Starting => irq' = {} /\ buffer' = buffer
    PROVE  CalmInv'
<1>1. /\ Typed /\ Placed /\ InStep /\ Counted /\ KnownSoFar /\ port \in Port
      /\ UNCHANGED <<installed, Kbd, Mouse, sent, resends, refusals>>
      /\ Available' = Available /\ (Starting' <=> Starting)
  BY DEF CalmInv, Typed, found, history, Available, Starting
<1>2. Placed'
  BY <1>1 DEF Placed
<1>3. Stream(port)' = Stream(port) /\ Remaining' = Remaining /\ (Refused' <=> Refused)
  <2>1. Stream(port)' = Stream(port)
    BY <1>1
  <2>2. Refused' <=> Refused
    BY <1>1, <2>1 DEF Refused, Sending
  <2> QED
    BY <1>1, <2>1, <2>2 DEF Remaining, Sending
<1>4. InStep'
  BY <1>1, <1>3 DEF InStep, Sending
<1>5. Counted'
  BY <1>1, <1>3 DEF Counted, Sending
<1>6. KnownSoFar'
  BY <1>1 DEF KnownSoFar, Known, OneOfEach, Available
<1> QED
  BY <1>2, <1>4, <1>5, <1>6 DEF CalmInv

\* Only the device that the main flow talks to has bytes on their way.
LEMMA SpeakerIsThere ==
    ASSUME CalmInv, NEW p \in Port, Stream(p) # <<>>
    PROVE  /\ p = port /\ port \in Available /\ pc \in Statements \cup {"resetDone", "empty", "id", "secondId"}
           /\ pc \in Statements => at = "answer"
<1>1. Typed /\ Placed /\ InStep
  BY DEF CalmInv
<1>2. p = port
  BY <1>1 DEF InStep
<1>3. CASE Refused
  BY <1>1, <1>2, <1>3, CommandIs DEF Refused, Placed, ForPort, Sending
<1>4. CASE Stream(port) = Said(Remaining, port, sent)
  <2>1. Remaining # <<>>
    <3> SUFFICES ASSUME Remaining = <<>> PROVE FALSE
      OBVIOUS
    <3>1. Said(Remaining, port, sent) = <<>>
      BY <1>1, NothingSaid DEF Typed
    <3> QED
      BY <1>2, <1>4, <3>1
  <2>2. (Sending /\ at = "answer") \/ pc \in {"resetDone", "empty", "id", "secondId"}
    BY <2>1 DEF Remaining
  <2> QED
    BY <1>1, <1>2, <2>2, CommandIs DEF Placed, ForPort, Sending, Statements
<1> QED
  BY <1>1, <1>2, <1>3, <1>4 DEF InStep

LEMMA DeliverKeeps ==
    ASSUME CalmInv, NEW p \in Port, Deliver(p)
    PROVE  CalmInv'
<1>1. /\ Typed /\ Placed /\ ~out.full /\ pending[p] # <<>>
      /\ irq' = IF p \in enabled THEN irq \cup {p} ELSE irq
      /\ UNCHANGED <<circumstance, attached, enabled, route, buffer, found, pc, port, at, attempts, id, history>>
  BY DEF CalmInv, Deliver
<1>2. Typed' /\ out'.full /\ out'.byte.from = p /\ \A q \in Port : Stream(q)' = Stream(q)
  BY <1>1, DeliverMovesOn
<1>3. Stream(p) # <<>>
  BY <1>1, StreamParts
<1>4. p \in Available /\ pc # "failed" /\ irq = {}
  <2>1. pc \in Statements \cup {"resetDone", "empty", "id", "secondId"} /\ p \in Available
    BY <1>3, SpeakerIsThere
  <2> QED
    BY <1>1, <2>1 DEF Placed, Statements
<1>5. IF Starting THEN irq' = {} ELSE irq' = {p}
  BY <1>1, <1>4 DEF Placed
<1> QED
  BY <1>1, <1>2, <1>5, MovingKeeps

LEMMA HandlerKeeps ==
    ASSUME CalmInv, NEW p \in Port, Handler(p)
    PROVE  CalmInv'
<1>1. /\ Typed /\ Placed /\ p \in irq /\ irq' = irq \ {p}
      /\ UNCHANGED <<circumstance, attached, enabled, route, found, pc, port, at, attempts, id, history>>
  BY DEF CalmInv, Handler
<1>2. out.full /\ out.byte.from = p /\ irq = {p} /\ ~Starting
  BY <1>1 DEF Placed
<1>3. Typed' /\ ~out'.full /\ \A q \in Port : Stream(q)' = Stream(q)
  BY <1>1, <1>2, HandlerMovesOn
<1>4. irq' = {}
  BY <1>1, <1>2
<1> QED
  BY <1>1, <1>2, <1>3, <1>4, MovingKeeps

-----------------------------------------------------------------------------
\* The streams between the steps of the main flow

Listening == {"resetDone", "empty", "id", "secondId"}

LEMMA NobodySpeaks ==
    ASSUME CalmInv, ~(Sending /\ at = "answer"), pc \notin Listening
    PROVE  /\ \A p \in Port : Stream(p) = <<>> /\ buffer[p] = <<>> /\ pending[p] = <<>>
           /\ ~out.full /\ irq = {}
<1>1. Typed /\ Placed
  BY DEF CalmInv
<1>2. \A p \in Port : Stream(p) = <<>>
  <2> SUFFICES ASSUME NEW p \in Port, Stream(p) # <<>> PROVE FALSE
    OBVIOUS
  <2>1. pc \in Statements \cup Listening /\ (pc \in Statements => at = "answer")
    BY SpeakerIsThere DEF Listening
  <2> QED
    BY <2>1, CommandIs DEF Sending
<1>3. \A p \in Port : buffer[p] = <<>> /\ pending[p] = <<>> /\ ~(out.full /\ out.byte.from = p)
  BY <1>1, <1>2, StreamParts
<1>4. out.byte.from \in Port
  BY <1>1 DEF Typed, Bytes
<1> QED
  BY <1>1, <1>2, <1>3, <1>4 DEF Placed

\* With devices that answer in time all that is on its way has come to the buffers.
LEMMA AllHasCome ==
    ASSUME CalmInv, Calm, MainFlow, ~Starting
    PROVE  /\ irq = {} /\ ~out.full
           /\ \A p \in Port : pending[p] = <<>> /\ Stream(p) = buffer[p]
<1>1. Typed /\ Placed /\ irq = {} /\ \A p \in Port : pending[p] = <<>> \/ out.full
  BY DEF CalmInv, Calm, MainFlow
<1>2. ~out.full
  BY <1>1 DEF Placed
<1>3. \A p \in Port : pending[p] = <<>>
  BY <1>1, <1>2
<1>4. ASSUME NEW p \in Port PROVE Stream(p) = buffer[p]
  <2>1. Stream(p) = buffer[p] \o <<>> \o <<>>
    BY <1>2, <1>3 DEF Stream, InController
  <2>2. buffer[p] \in Seq(Bytes)
    BY <1>1 DEF Typed
  <2> QED
    BY <2>1, <2>2, OneOfThree
<1> QED
  BY <1>1, <1>2, <1>3, <1>4

\* A byte that is popped is the first of its port's stream.
LEMMA Popped ==
    ASSUME CalmInv, Calm, MainFlow, ~Starting, buffer[port] # <<>>,
           buffer' = [buffer EXCEPT ![port] = Tail(@)], UNCHANGED <<out, pending, irq>>
    PROVE  /\ Stream(port) # <<>> /\ Head(buffer[port]) = Head(Stream(port))
           /\ \A p \in Port : Stream(p)' = IF p = port THEN Tail(Stream(port)) ELSE <<>>
           /\ buffer' \in [Port -> Seq(Bytes)] /\ ~out'.full
<1>1. Typed /\ InStep /\ ~out.full /\ \A p \in Port : pending[p] = <<>> /\ Stream(p) = buffer[p]
  BY AllHasCome DEF CalmInv
<1>2. port \in Port /\ buffer \in [Port -> Seq(Bytes)]
  BY <1>1 DEF Typed
<1>3. buffer[port] \in Seq(Bytes) /\ Tail(buffer[port]) \in Seq(Bytes)
  BY <1>2
<1>4. /\ buffer' \in [Port -> Seq(Bytes)]
      /\ \A p \in Port : buffer'[p] = IF p = port THEN Tail(buffer[port]) ELSE buffer[p]
  BY <1>2, <1>3
<1>5. ASSUME NEW p \in Port PROVE Stream(p)' = buffer'[p]
  <2>1. Stream(p)' = buffer'[p] \o <<>> \o <<>>
    BY <1>1 DEF Stream, InController
  <2>2. buffer'[p] \in Seq(Bytes)
    BY <1>4
  <2> QED
    BY <2>1, <2>2, OneOfThree
<1>6. \A p \in Port \ {port} : buffer[p] = <<>>
  BY <1>1 DEF InStep
<1> QED
  BY <1>1, <1>2, <1>4, <1>5, <1>6

\* What PS2DevSendByte takes is the first byte of its port's stream.
LEMMA Taken ==
    ASSUME CalmInv, Calm, MainFlow, Sending, at = "answer", Answered, Take, UNCHANGED <<pending, irq>>
    PROVE  /\ Stream(port) # <<>> /\ Answer = Head(Stream(port))
           /\ \A p \in Port : Stream(p)' = IF p = port THEN Tail(Stream(port)) ELSE <<>>
           /\ buffer' \in [Port -> Seq(Bytes)] /\ out' \in [full : BOOLEAN, byte : Bytes] /\ ~out'.full
           /\ Starting => buffer' = buffer
<1>1. Typed /\ Placed /\ InStep
  BY DEF CalmInv
<1>2. CASE ~Polled
  <2>1. ~Starting
    BY <1>2, CommandIs DEF Polled, Starting, Sending, Statements
  <2>2. buffer[port] # <<>> /\ buffer' = [buffer EXCEPT ![port] = Tail(@)] /\ UNCHANGED <<out, pending, irq>>
    BY <1>2 DEF Take, Answered
  <2>3. Answer = Head(buffer[port])
    BY <1>2 DEF Answer
  <2> QED
    BY <1>1, <2>1, <2>2, <2>3, Popped DEF Typed
<1>3. CASE Polled
  <2>1. Starting /\ out.full /\ Answer = out.byte /\ out' = [out EXCEPT !.full = FALSE] /\ buffer' = buffer
    BY <1>3 DEF Polled, Starting, Answered, Answer, Take
  <2>2. out.byte.from = port /\ port \in Port
    <3>1. out.byte.from \in Port /\ port \in Port
      BY <1>1 DEF Typed, Bytes
    <3>2. Stream(out.byte.from) # <<>>
      BY <1>1, <2>1, <3>1, StreamParts
    <3> QED
      BY <3>1, <3>2, SpeakerIsThere
  <2>3. \A p \in Port : buffer[p] = <<>> /\ pending[p] \in Seq(Bytes)
    BY <1>1, <2>1 DEF Placed, Typed
  <2>4. out \in [full : BOOLEAN, byte : Bytes]
    BY <1>1 DEF Typed
  <2>5. out' \in [full : BOOLEAN, byte : Bytes] /\ ~out'.full /\ out.byte \in Bytes
    BY <2>1, <2>4
  <2>6. Stream(port) = <<out.byte>> \o pending[port]
    <3>1. Stream(port) = <<>> \o <<out.byte>> \o pending[port]
      BY <2>1, <2>2, <2>3 DEF Stream, InController
    <3>2. <<>> \o <<out.byte>> = <<out.byte>>
      BY <2>5
    <3> QED
      BY <3>1, <3>2
  <2>7. ASSUME NEW p \in Port PROVE Stream(p)' = pending[p]
    <3>1. Stream(p)' = <<>> \o <<>> \o pending[p]
      BY <2>1, <2>3, <2>5 DEF Stream, InController
    <3> QED
      BY <2>3, <3>1, OneOfThree
  <2>8. Stream(port) # <<>> /\ Head(Stream(port)) = out.byte /\ Tail(Stream(port)) = pending[port]
    BY <2>2, <2>3, <2>5, <2>6, InFront
  <2>9. \A p \in Port \ {port} : pending[p] = <<>>
    BY <1>1, StreamParts DEF InStep
  <2> QED
    BY <1>1, <2>1, <2>2, <2>5, <2>7, <2>8, <2>9 DEF Typed
<1> QED
  BY <1>2, <1>3

-----------------------------------------------------------------------------
\* The steps of the main flow

\* A state in which nobody speaks.
LEMMA QuietKeeps ==
    ASSUME Typed', Placed', KnownSoFar', \A p \in Port : Stream(p)' = <<>>,
           ~(Sending' /\ at' = "answer"), pc' \notin Listening, refusals' <= resends',
           Sending' /\ at' = "write" => route' = port' /\ attempts' + refusals' = Attempts,
           pc' = "failed" => refusals' > Attempts
    PROVE  CalmInv'
<1>1. Remaining' = <<>> /\ ~Refused' /\ (Sending' /\ at' # "select" => at' = "write")
  BY DEF Remaining, Refused, Listening, Typed
<1>2. port' \in Port /\ sent' \in Nat /\ attempts' \in Nat /\ refusals' \in Nat /\ Attempts \in Nat
  BY DevicesAssumption DEF Typed
<1>3. Said(Remaining, port, sent)' = <<>>
  BY <1>1, <1>2, NothingSaid
<1>4. InStep'
  BY <1>1, <1>2, <1>3 DEF InStep, Listening
<1>5. Counted'
  BY <1>1, <1>2 DEF Counted
<1> QED
  BY <1>4, <1>5 DEF CalmInv

\* The streams change with the buffers and with nothing else.
LEMMA StreamsStay ==
    ASSUME UNCHANGED <<out, pending, buffer>>
    PROVE  \A p \in Port : Stream(p)' = Stream(p)
BY DEF Stream, InController

LEMMA InstallKeeps == ASSUME CalmInv, Calm, Install PROVE CalmInv'
<1>1. /\ Typed /\ Placed /\ Counted /\ pc = "install" /\ pc' = "enable" /\ port' = port /\ at' = "select"
      /\ installed' = installed \cup {port}
      /\ UNCHANGED <<environment, out, route, pending, buffer, Kbd, Mouse, attempts, id, history>>
  BY DEF CalmInv, Install, GoTo
<1>2. ~Sending /\ pc \notin Listening
  BY <1>1, CommandIs DEF Sending, Statements, Listening
<1>3. (\A p \in Port : Stream(p)' = <<>>) /\ irq = {} /\ ~out.full
  BY <1>1, <1>2, NobodySpeaks, StreamsStay
<1>4. Available' = Available /\ port \in Available /\ Available \subseteq Port /\ FIRST # SECOND
  BY <1>1, AvailableIs DEF Placed, Available, environment, ForPort
<1>5. Typed'
  BY <1>1, <1>4, CommandIs DEF Typed, environment, history, ForPort, Statements
<1>6. installed' = {q \in Available' : q = FIRST \/ port' = SECOND}
  BY <1>1, <1>4 DEF Placed, Port
<1>7. Placed'
  BY <1>1, <1>3, <1>4, <1>6 DEF Placed, Starting, environment
<1>8. KnownSoFar'
  BY <1>1 DEF KnownSoFar, Asked
<1> QED
  BY <1>1, <1>3, <1>5, <1>7, <1>8, QuietKeeps DEF Counted, history, Listening

LEMMA SelectKeeps == ASSUME CalmInv, Calm, Select PROVE CalmInv'
<1>1. /\ Typed /\ Placed /\ KnownSoFar /\ Sending /\ at = "select"
      /\ route' = port /\ attempts' = Attempts /\ refusals' = 0 /\ at' = "write"
      /\ UNCHANGED <<environment, out, pending, buffer, found, pc, port, id, sent, resends, keys>>
  BY DEF CalmInv, Select
<1>2. pc \in Statements /\ pc \notin Listening /\ pc # "failed" /\ Attempts \in Nat
  BY <1>1, CommandIs, DevicesAssumption DEF Sending, Listening, Statements
<1>3. \A p \in Port : Stream(p)' = <<>>
  BY <1>1, <1>2, NobodySpeaks, StreamsStay
<1>4. Typed'
  BY <1>1, <1>2 DEF Typed, environment, found, Available
<1>5. Placed'
  BY <1>1 DEF Placed, environment, found, Available, Starting
<1>6. KnownSoFar'
  BY <1>1 DEF KnownSoFar, Known, OneOfEach, Available, environment, found
<1>7. 0 <= resends /\ Attempts + 0 = Attempts
  BY <1>1, <1>2 DEF Typed
<1> QED
  BY <1>1, <1>2, <1>3, <1>4, <1>5, <1>6, <1>7, QuietKeeps

\* The byte goes to the port that the answer is awaited from, and nothing else is under way.
LEMMA WriteKeeps == ASSUME CalmInv, Calm, Write PROVE CalmInv'
<1>1. /\ Typed /\ Placed /\ InStep /\ Counted /\ KnownSoFar /\ Sending /\ at = "write"
      /\ Receive(route, Command[pc]) /\ route' = FIRST /\ sent' = sent + 1 /\ at' = "answer"
      /\ UNCHANGED <<circumstance, attached, irq, enabled, out, buffer, found, pc, port, attempts, id, keys>>
  BY DEF CalmInv, Write
<1>2. pc \in Statements /\ pc \notin Listening /\ route = port /\ port \in Available /\ port \in Port
  BY <1>1, CommandIs DEF Sending, Listening, Statements, InStep, Placed, ForPort, Typed
<1>3. /\ \A p \in Port : Stream(p) = <<>> /\ buffer[p] = <<>> /\ pending[p] = <<>>
      /\ ~out.full /\ irq = {}
  BY <1>1, <1>2, NobodySpeaks
<1>4. IsDevice(attached[port]) /\ Attempts \in Nat /\ sent + 1 \in Nat /\ sent' \in Nat
  BY <1>1, <1>2, AvailableIs DEF Typed
<1> DEFINE answers == Answers(attached[port], Command[pc])
<1>5. answers \in Seq(Values) /\ answers # <<>> /\ Head(answers) = ACK /\ Remaining' = answers
  <2>1. answers \in Seq(Values) /\ answers # <<>> /\ Head(answers) = ACK
    BY <1>2, <1>4, AnswersAre
  <2>2. Remaining' = answers
    BY <1>1, <1>2 DEF Remaining, Sending, Listening
  <2> QED
    BY <2>1, <2>2
<1>6. \/ /\ pending' = [pending EXCEPT ![port] = Said(answers, port, sent')]
         /\ UNCHANGED <<resends, refusals>>
      \/ /\ port = FIRST /\ pending' = [pending EXCEPT ![port] = <<Byte(RESEND, port, sent')>>]
         /\ resends' = resends + 1 /\ refusals' = refusals + 1
  <2>1. \/ /\ pending' = [pending EXCEPT ![port] = @ \o Said(answers, port, sent + 1)]
           /\ UNCHANGED <<resends, refusals>>
        \/ /\ port \in circumstance.resenders
           /\ pending' = [pending EXCEPT ![port] = Append(@, Byte(RESEND, port, sent + 1))]
           /\ resends' = resends + 1 /\ refusals' = refusals + 1
    BY <1>1, <1>2 DEF Receive, Said
  <2>2. Said(answers, port, sent + 1) \in Seq(From(port))
    BY <1>2, <1>4, <1>5, SaidIs
  <2>3. pending[port] = <<>> /\ pending[port] \o Said(answers, port, sent + 1) = Said(answers, port, sent + 1)
    <3>1. \A s \in Seq(From(port)) : <<>> \o s = s
      OBVIOUS
    <3> QED
      BY <1>2, <1>3, <2>2, <3>1
  <2>4. Append(pending[port], Byte(RESEND, port, sent + 1)) = <<Byte(RESEND, port, sent + 1)>>
    BY <2>3
  <2> QED
    BY <1>1, <2>1, <2>3, <2>4 DEF Calm
<1> HIDE DEF answers
<1>7. PICK reply \in Seq(From(port)) :
        /\ pending' = [pending EXCEPT ![port] = reply]
        /\ \/ reply = Said(answers, port, sent') /\ UNCHANGED <<resends, refusals>>
           \/ /\ port = FIRST /\ reply = <<Byte(RESEND, port, sent')>>
              /\ resends' = resends + 1 /\ refusals' = refusals + 1
  <2>1. Said(answers, port, sent') \in Seq(From(port))
    BY <1>2, <1>4, <1>5, SaidIs
  <2>2. <<Byte(RESEND, port, sent')>> \in Seq(From(port))
    <3>1. Byte(RESEND, port, sent') \in From(port)
      BY <1>4, ValuesAre DEF Byte, From
    <3> QED
      BY <3>1
  <2> QED
    BY <1>6, <2>1, <2>2
<1>8. reply \in Seq(Bytes)
  <2>1. From(port) \subseteq Bytes
    BY <1>2 DEF From, Bytes
  <2> QED
    BY <2>1
<1>9. /\ pending' \in [Port -> Seq(Bytes)] /\ pending'[port] = reply
      /\ \A p \in Port \ {port} : pending'[p] = <<>>
  BY <1>1, <1>2, <1>3, <1>7, <1>8 DEF Typed
<1>10. ASSUME NEW p \in Port PROVE Stream(p)' = pending'[p]
  <2>1. Stream(p)' = <<>> \o <<>> \o pending'[p]
    BY <1>1, <1>3 DEF Stream, InController
  <2>2. pending'[p] \in Seq(Bytes)
    BY <1>9
  <2> QED
    BY <2>1, <2>2, OneOfThree
<1>11. Typed'
  <2>1. \A p \in Port : pending'[p] \in Seq(From(p))
    BY <1>7, <1>9
  <2>2. resends' \in Nat /\ refusals' \in Nat
    BY <1>1, <1>7 DEF Typed
  <2> QED
    BY <1>1, <1>4, <1>9, <2>1, <2>2 DEF Typed, found, Available
<1>12. Placed'
  BY <1>1 DEF Placed, found, Available, Starting
<1>13. Stream(port)' = reply
  <2>1. port' = port /\ Stream(port)' = pending'[port]
    BY <1>1, <1>2, <1>9, <1>10 DEF Stream, InController
  <2> QED
    BY <1>9, <2>1
<1>14. \/ Stream(port)' = Said(Remaining, port, sent)' /\ ~Refused' /\ UNCHANGED <<resends, refusals>>
       \/ Refused' /\ resends' = resends + 1 /\ refusals' = refusals + 1
  <2>2. CASE reply = Said(answers, port, sent') /\ UNCHANGED <<resends, refusals>>
    <3>1. Stream(port)' = Said(Remaining, port, sent)'
      BY <1>1, <1>5, <1>13, <2>2
    <3>2. Head(reply) = Byte(ACK, port, sent')
      BY <1>2, <1>4, <1>5, <2>2, SaidIs
    <3>3. reply # <<Byte(RESEND, port, sent')>>
      BY <3>2 DEF Byte, ACK, RESEND
    <3>4. ~Refused'
      BY <1>1, <1>13, <3>3 DEF Refused
    <3> QED
      BY <2>2, <3>1, <3>4
  <2>3. CASE /\ port = FIRST /\ reply = <<Byte(RESEND, port, sent')>>
             /\ resends' = resends + 1 /\ refusals' = refusals + 1
    BY <1>1, <1>13, <2>3 DEF Refused, Sending
  <2> QED
    BY <1>7, <2>2, <2>3
<1>15. InStep'
  BY <1>1, <1>2, <1>9, <1>10, <1>14 DEF InStep, Listening
<1>16. Counted'
  <2>1. attempts + refusals = Attempts /\ refusals <= resends
    <3>1. ~Refused
      BY <1>1 DEF Refused
    <3> QED
      BY <1>1, <3>1 DEF Counted
  <2>2. pc # "failed"
    BY <1>2 DEF Statements
  <2>3. attempts \in Nat /\ refusals \in Nat /\ resends \in Nat
    BY <1>1 DEF Typed
  <2> QED
    BY <1>1, <1>4, <1>14, <2>1, <2>2, <2>3 DEF Counted
<1>17. KnownSoFar'
  <2>1. resends' <= Attempts => resends <= Attempts
    BY <1>1, <1>4, <1>7 DEF Typed
  <2> QED
    BY <1>1, <2>1 DEF KnownSoFar, Known, OneOfEach, Available, found
<1> QED
  BY <1>11, <1>12, <1>15, <1>16, <1>17 DEF CalmInv

\* It is the answer to the byte that was written: the device has refused it, or has said ACK
\* and goes on with what the command is for.
LEMMA Heard ==
    ASSUME CalmInv, Calm, MainFlow, Sending, at = "answer", Answered, Take, UNCHANGED <<pending, irq>>
    PROVE  /\ Answer.from = port /\ Answer.re = sent
           /\ \/ /\ Refused /\ port = FIRST /\ Answer.value = RESEND
                 /\ \A p \in Port : Stream(p)' = <<>>
              \/ /\ ~Refused /\ Answer.value = ACK
                 /\ \A p \in Port : Stream(p)' =
                       IF p = port THEN Said(Tail(Answers(attached[port], Command[pc])), port, sent)
                       ELSE <<>>
<1>1. /\ Answer = Head(Stream(port))
      /\ \A p \in Port : Stream(p)' = IF p = port THEN Tail(Stream(port)) ELSE <<>>
  BY Taken
<1>2. Typed /\ Placed /\ InStep /\ pc \in Statements /\ pc \notin Listening
  BY CommandIs DEF CalmInv, Sending, Statements, Listening
<1>3. port \in Available /\ port \in Port /\ sent \in Nat
  BY <1>2, CommandIs DEF Placed, Typed, ForPort
<1> DEFINE answers == Answers(attached[port], Command[pc])
<1>4. answers \in Seq(Values) /\ answers # <<>> /\ Head(answers) = ACK
  BY <1>2, <1>3, AvailableIs, AnswersAre
<1>5. Remaining = answers
  BY <1>2 DEF Remaining, Listening
<1> HIDE DEF answers
<1>6. CASE Refused
  <2>1. Stream(port) = <<Byte(RESEND, port, sent)>> /\ port = FIRST
    BY <1>6 DEF Refused
  <2>2. Head(Stream(port)) = Byte(RESEND, port, sent) /\ Tail(Stream(port)) = <<>>
    BY <2>1
  <2> QED
    BY <1>1, <1>6, <2>1, <2>2 DEF Byte
<1>7. CASE ~Refused
  <2>1. Stream(port) = Said(answers, port, sent)
    BY <1>2, <1>5, <1>7 DEF InStep
  <2>2. Head(Stream(port)) = Byte(ACK, port, sent) /\ Tail(Stream(port)) = Said(Tail(answers), port, sent)
    BY <1>3, <1>4, <2>1, SaidIs
  <2>3. Answer.from = port /\ Answer.re = sent /\ Answer.value = ACK
    BY <1>1, <2>2 DEF Byte
  <2>4. \A p \in Port : Stream(p)' = IF p = port THEN Said(Tail(answers), port, sent) ELSE <<>>
    BY <1>1, <2>2
  <2> QED
    BY <1>7, <2>3, <2>4 DEF answers
<1> QED
  BY <1>6, <1>7

LEMMA RetryKeeps == ASSUME CalmInv, Calm, Retry PROVE CalmInv'
<1>1. /\ Typed /\ Placed /\ InStep /\ Counted /\ KnownSoFar
      /\ MainFlow /\ Sending /\ at = "answer" /\ Answered /\ Answer.value = RESEND /\ attempts > 0
      /\ Take /\ attempts' = attempts - 1 /\ at' = "write"
      /\ UNCHANGED <<circumstance, attached, irq, enabled, reporting, route, pending, found, pc, port,
                     id, sent, resends, refusals, keys>>
  BY DEF CalmInv, Retry, Retries, environment, history
<1>2. Refused /\ port = FIRST /\ \A p \in Port : Stream(p)' = <<>>
  BY <1>1, Heard DEF ACK, RESEND
<1>3. /\ buffer' \in [Port -> Seq(Bytes)] /\ out' \in [full : BOOLEAN, byte : Bytes] /\ ~out'.full
      /\ Starting => buffer' = buffer
  BY <1>1, Taken
<1>4. /\ attempts \in Nat /\ refusals \in Nat /\ Attempts \in Nat /\ refusals <= resends
      /\ attempts + refusals = Attempts + 1
  BY <1>1, <1>2, DevicesAssumption DEF Typed, Counted
<1>5. attempts' \in Nat /\ attempts' + refusals' = Attempts /\ refusals' <= resends'
  BY <1>1, <1>4
<1>6. route' = port' /\ pc' # "failed" /\ pc' \notin Listening
  BY <1>1, <1>2, CommandIs DEF InStep, Sending, Statements, Listening
<1>7. irq = {}
  BY <1>1, AllHasCome DEF Placed
<1>8. Typed'
  BY <1>1, <1>3, <1>5 DEF Typed, found, Available
<1>9. Placed'
  BY <1>1, <1>3, <1>7 DEF Placed, found, Available, Starting
<1>10. KnownSoFar'
  BY <1>1 DEF KnownSoFar, Known, OneOfEach, Available, found
<1> QED
  BY <1>1, <1>2, <1>5, <1>6, <1>8, <1>9, <1>10, QuietKeeps

-----------------------------------------------------------------------------
\* The types

\* What is recorded of a device with this identification.
TypeOf(device) ==
    IF Len(device.id) = 2 THEN [device.id EXCEPT ![2] = IF @ = "C1" THEN "83" ELSE @] ELSE device.id

IsRight(type, device) == type = TypeOf(device) /\ (IsKeyboard(type) <=> Len(device.id) = 2)

LEMMA OneByteIsRight ==
    ASSUME NEW device, IsDevice(device), ~TwoBytes(Head(device.id))
    PROVE  Tail(device.id) = <<>> /\ IsRight(OneByteType(Head(device.id)), device)
<1>1. device.id \in Seq(Values) /\ Len(device.id) = 1 /\ device.id[1] \notin {"AB", "AC", "CC"}
  <2>1. device.id = <<"AC", "A1">> => device.id[1] = "AC"
    OBVIOUS
  <2>2. device.id # <<>> => Head(device.id) = device.id[1]
    BY DEF IsDevice
  <2> QED
    BY <2>1, <2>2 DEF IsDevice, TwoBytes
<1>2. device.id = <<device.id[1]>> /\ Head(device.id) = device.id[1] /\ Tail(device.id) = <<>>
  <2>1. \A s \in Seq(Values) : Len(s) = 1 => s = <<s[1]>> /\ Head(s) = s[1]
    OBVIOUS
  <2>2. \A x \in Values : Tail(<<x>>) = <<>>
    OBVIOUS
  <2>3. device.id[1] \in Values
    BY <1>1
  <2> QED
    BY <1>1, <2>1, <2>2, <2>3
<1>3. OneByteType(Head(device.id)) = device.id
  BY <1>1, <1>2 DEF OneByteType, NO_ANSWER
<1>4. ~IsKeyboard(device.id)
  <2>1. ANCIENT[1] = "CC"
    BY DEF ANCIENT
  <2> QED
    BY <1>1, <2>1 DEF IsKeyboard
<1> QED
  BY <1>1, <1>2, <1>3, <1>4 DEF IsRight, TypeOf

LEMMA TwoBytesAreRight ==
    ASSUME NEW device, IsDevice(device), Len(device.id) = 2
    PROVE  /\ Tail(device.id) \in Seq(Values) /\ Tail(device.id) # <<>> /\ Tail(Tail(device.id)) = <<>>
           /\ Head(Tail(device.id)) = device.id[2]
           /\ id = device.id[1] => IsRight(TwoByteType(device.id[2]), device)
<1>1. device.id \in Seq(Values) /\ device.id = <<device.id[1], device.id[2]>>
  BY DEF IsDevice
<1>2. device.id[1] = "AB" \/ device.id = <<"AC", "A1">>
  BY DEF IsDevice
<1> DEFINE first == device.id[1]
           second == device.id[2]
<1>3. TypeOf(device) = <<first, IF second = "C1" THEN "83" ELSE second>>
  <2>1. \A a, b, c : [<<a, b>> EXCEPT ![2] = c] = <<a, c>>
    OBVIOUS
  <2>2. TypeOf(device) = [device.id EXCEPT ![2] = IF device.id[2] = "C1" THEN "83" ELSE device.id[2]]
    BY <1>1 DEF TypeOf
  <2> QED
    BY <1>1, <2>1, <2>2
<1>4. first = "AC" => second = "A1"
  BY <1>2
<1>5. ASSUME id = first PROVE TwoByteType(second) = TypeOf(device)
  BY <1>2, <1>3, <1>4, <1>5 DEF TwoByteType
<1>6. IsKeyboard(TypeOf(device))
  BY <1>2, <1>3 DEF IsKeyboard
<1>7. /\ Tail(device.id) \in Seq(Values) /\ Tail(device.id) # <<>> /\ Tail(Tail(device.id)) = <<>>
      /\ Head(Tail(device.id)) = device.id[2]
  <2>1. first \in Values /\ second \in Values
    BY <1>1
  <2>2. \A a, b \in Values :
           /\ Tail(<<a, b>>) \in Seq(Values) /\ Tail(<<a, b>>) # <<>> /\ Tail(Tail(<<a, b>>)) = <<>>
           /\ Head(Tail(<<a, b>>)) = b
    OBVIOUS
  <2> QED
    BY <1>1, <2>1, <2>2
<1> QED
  BY <1>5, <1>6, <1>7 DEF IsRight

\* A device's type is recorded, and those of the devices before it stay: the main flow goes on
\* with the second port, with the keyboard or to the end.
LEMMA IdentifiedKeeps ==
    ASSUME CalmInv, pc \in {"identify", "id", "secondId"}, NEW type, Identified(type),
           OneOfEach /\ resends <= Attempts => IsRight(type, attached[port]),
           \A p \in Port : Stream(p)' = <<>>,
           buffer' \in [Port -> Seq(Bytes)], out' \in [full : BOOLEAN, byte : Bytes], ~out'.full, irq = {},
           UNCHANGED <<environment, route, pending, installed, attempts, history>>
    PROVE  CalmInv'
<1>1. /\ Typed /\ Placed /\ Counted /\ KnownSoFar
      /\ UNCHANGED <<circumstance, attached, irq, enabled, reporting, route, pending, installed,
                     attempts, sent, resends, refusals, keys>>
      /\ Available' = Available
  BY DEF CalmInv, environment, history, Available
<1>2. /\ port \in Available /\ Available \subseteq Port /\ FIRST # SECOND /\ NPOS \notin Port
      /\ Kbd.index \in Available \cup {NPOS}
  BY <1>1, AvailableIs, CommandIs DEF Typed, Placed, ForPort, Statements
<1>3. Record(type) /\ at' = "select"
  BY DEF Identified, GoTo
<1>4. \/ pc' = "reset" /\ port' = SECOND /\ port = FIRST /\ SECOND \in Available
      \/ /\ ~(port = FIRST /\ SECOND \in Available)
         /\ pc' = "scanCodeSet" /\ port' = Kbd'.index /\ Kbd'.index # NPOS
      \/ /\ ~(port = FIRST /\ SECOND \in Available)
         /\ pc' = "done" /\ port' = FIRST
  BY DEF Identified, GoTo
<1>5. Kbd'.index \in Available \cup {NPOS}
  BY <1>2, <1>3 DEF Record
<1>6. pc' \in {"reset", "scanCodeSet", "done"} /\ port' \in Port /\ (pc' # "done" => port' \in Available)
  BY <1>2, <1>4, <1>5 DEF Port
<1>7. pc' \in Statements \/ pc' = "done"
  BY <1>6 DEF Statements
<1>8. Typed'
  BY <1>1, <1>3, <1>5, <1>6, <1>7, CommandIs DEF Typed, ForPort, Statements
<1>9. Placed'
  <2>1. installed = Available /\ enabled = Available
    BY <1>1 DEF Placed, Starting
  <2> QED
    BY <1>1, <1>6, <2>1, CommandIs DEF Placed, Starting, ForPort, Statements
<1>10. KnownSoFar'
  <2> SUFFICES ASSUME OneOfEach', resends' <= Attempts
               PROVE  /\ pc' = "reset" /\ port' = SECOND => \A p \in Available \cap {FIRST} : Known(p)'
                      /\ pc' \in {"scanCodeSet", "done"} => \A p \in Available : Known(p)'
    BY <1>1, <1>6 DEF KnownSoFar, Asked
  <2>1. OneOfEach /\ IsRight(type, attached[port])
    BY <1>1 DEF OneOfEach
  <2>2. ASSUME NEW p \in Available, p = port PROVE Known(p)'
    <3>1. CASE Len(attached[p].id) = 2
      <4>1. Kbd' = [index |-> p, type |-> TypeOf(attached[p])]
        BY <1>3, <2>1, <2>2, <3>1 DEF IsRight, Record
      <4> QED
        BY <1>1, <3>1, <4>1 DEF TypeOf, Known
    <3>2. CASE Len(attached[p].id) # 2
      <4>1. Mouse' = [index |-> p, type |-> TypeOf(attached[p])]
        BY <1>3, <2>1, <2>2, <3>2 DEF IsRight, Record
      <4> QED
        BY <1>1, <3>2, <4>1 DEF TypeOf, Known
    <3> QED
      BY <3>1, <3>2
  <2>3. ASSUME NEW p \in Available, p # port PROVE Known(p) => Known(p)'
    <3>1. ~(Len(attached[p].id) = 2 <=> Len(attached[port].id) = 2)
      BY <1>2, <2>1, <2>3 DEF OneOfEach
    <3> QED
      BY <1>1, <1>3, <2>1, <3>1 DEF IsRight, Record, Known
  <2>4. port = SECOND => \A p \in Available \cap {FIRST} : Known(p)
    BY <1>1, <2>1 DEF KnownSoFar, Asked
  <2> QED
    BY <1>2, <1>4, <2>2, <2>3, <2>4 DEF Port
<1>11. pc' # "failed" /\ pc' \notin Listening /\ refusals' <= resends' /\ at' # "answer" /\ at' # "write"
  BY <1>1, <1>3, <1>6 DEF Listening, Counted
<1> QED
  BY <1>8, <1>9, <1>10, <1>11, QuietKeeps

\* A step of the main flow within the conversation with a device, to a statement that listens.
LEMMA ListeningKeeps ==
    ASSUME CalmInv, pc \in Statements \cup Listening, pc # "enable", pc' \in Listening,
           port' = port, at' = "select",
           Typed', ~out'.full, irq = {},
           \A p \in Port : Stream(p)' = IF p = port THEN Said(Remaining', port, sent) ELSE <<>>,
           pc \in Asked, pc' \in Asked,
           pc' = "secondId" => Len(attached[port].id) = 2 /\ id' = attached[port].id[1],
           UNCHANGED <<environment, route, installed, Kbd, Mouse, history>>
    PROVE  CalmInv'
<1>1. /\ Typed /\ Placed /\ Counted /\ KnownSoFar /\ port \in Port /\ sent' = sent
      /\ UNCHANGED <<circumstance, attached, irq, enabled, resends, refusals>> /\ Available' = Available
  BY DEF CalmInv, Typed, environment, history, Available
<1>2. ~Sending' /\ pc' # "failed" /\ ~Refused'
  BY CommandIs DEF Sending, Refused, Statements, Listening
<1>3. pc \in ForPort /\ pc \notin {"install", "enable", "failed"} /\ ~Starting /\ ~Starting'
  BY <1>1, CommandIs DEF Starting, ForPort, Statements, Listening
<1>4. Placed'
  BY <1>1, <1>3, CommandIs DEF Placed, Starting, ForPort, Statements, Listening
<1>5. Stream(port)' = Said(Remaining, port, sent)'
  <2>1. Stream(port)' = Said(Remaining', port, sent)
    BY <1>1 DEF Stream, InController
  <2> QED
    BY <1>1, <2>1
<1>6. InStep'
  BY <1>1, <1>2, <1>5 DEF InStep
<1>7. Counted'
  BY <1>1, <1>2 DEF Counted
<1>8. KnownSoFar'
  <2>1. pc' \notin {"scanCodeSet", "scanCodeNumber", "done"}
    BY DEF Listening
  <2> QED
    BY <1>1, <2>1 DEF KnownSoFar, Known, OneOfEach
<1> QED
  BY <1>4, <1>6, <1>7, <1>8 DEF CalmInv

\* PS2DevSendByte returns with a byte that a device has refused at every attempt.
LEMMA RefusedKeeps == ASSUME CalmInv, Calm, Return, Refused PROVE CalmInv'
<1>1. /\ Typed /\ Placed /\ InStep /\ Counted /\ KnownSoFar
      /\ MainFlow /\ Sending /\ at = "answer" /\ Answered /\ ~Retries /\ Take
      /\ UNCHANGED <<circumstance, attached, irq, enabled, reporting, route, pending, installed,
                     attempts, id, sent, resends, refusals, keys>>
      /\ UNCHANGED <<environment, route, pending, installed, attempts, history>>
      /\ Available' = Available
  BY DEF CalmInv, Return, environment, history, Available
<1>2. Answer.value = RESEND /\ Answer.value # ACK /\ port = FIRST /\ \A p \in Port : Stream(p)' = <<>>
  BY <1>1, Heard DEF ACK, RESEND
<1>3. /\ buffer' \in [Port -> Seq(Bytes)] /\ out' \in [full : BOOLEAN, byte : Bytes] /\ ~out'.full
      /\ (Starting => buffer' = buffer) /\ irq = {}
  BY <1>1, Taken, AllHasCome DEF Placed
<1>4. refusals > Attempts /\ resends > Attempts /\ refusals' > Attempts /\ ~(resends <= Attempts)
  <2>1. attempts \in Nat /\ refusals \in Nat /\ resends \in Nat /\ Attempts \in Nat
    BY <1>1, DevicesAssumption DEF Typed
  <2>2. attempts = 0 /\ attempts + refusals = Attempts + 1 /\ refusals <= resends
    BY <1>1, <1>2, <2>1 DEF Retries, Counted
  <2> QED
    BY <1>1, <2>1, <2>2
<1>5. pc \in Statements
  BY <1>1, CommandIs DEF Sending
<1>6. CASE pc = "identify"
  <2>1. Identified(UNDEFINED)
    BY <1>1, <1>2, <1>6 DEF Return
  <2> QED
    BY <1>1, <1>2, <1>3, <1>4, <1>6, <2>1, IdentifiedKeeps
<1>7. CASE pc # "identify"
  <2>1. /\ pc' \in {"done", "failed"} /\ port' = FIRST /\ at' = "select" /\ UNCHANGED <<Kbd, Mouse>>
        /\ pc' = "done" => pc \in {"scanCodeSet", "scanCodeNumber"}
    <3>1. CASE pc \in {"scanCodeSet", "scanCodeNumber"}
      BY <1>1, <1>2, <3>1 DEF Return, GoTo
    <3>2. CASE pc \in {"enable", "reset", "reenable"}
      BY <1>1, <1>2, <3>2 DEF Return, GoTo
    <3> QED
      BY <1>5, <1>7, <3>1, <3>2 DEF Statements
  <2>2. Typed'
    BY <1>1, <1>3, <2>1 DEF Typed, Port
  <2>3. Placed'
    BY <1>1, <1>3, <2>1, CommandIs DEF Placed, Starting, ForPort, Statements
  <2>4. KnownSoFar'
    BY <1>1, <1>4 DEF KnownSoFar
  <2>5. ~Sending' /\ pc' \notin Listening
    BY <2>1, CommandIs DEF Sending, Statements, Listening
  <2> QED
    BY <1>1, <1>2, <1>4, <2>2, <2>3, <2>4, <2>5, QuietKeeps DEF Counted
<1> QED
  BY <1>6, <1>7

\* PS2DevSendByte returns with ACK.
LEMMA AckKeeps == ASSUME CalmInv, Calm, Return, ~Refused PROVE CalmInv'
<1>1. /\ Typed /\ Placed /\ InStep /\ Counted /\ KnownSoFar
      /\ MainFlow /\ Sending /\ at = "answer" /\ Answered /\ ~Retries /\ Take
      /\ UNCHANGED <<circumstance, attached, irq, enabled, reporting, route, pending, installed,
                     attempts, id, sent, resends, refusals, keys>>
      /\ UNCHANGED <<environment, route, pending, installed, attempts, history>>
      /\ Available' = Available
  BY DEF CalmInv, Return, environment, history, Available
<1>2. /\ Answer.value = ACK
      /\ \A p \in Port : Stream(p)' =
            IF p = port THEN Said(Tail(Answers(attached[port], Command[pc])), port, sent) ELSE <<>>
  BY <1>1, Heard
<1>3. /\ buffer' \in [Port -> Seq(Bytes)] /\ out' \in [full : BOOLEAN, byte : Bytes] /\ ~out'.full
      /\ (Starting => buffer' = buffer) /\ irq = {}
  BY <1>1, Taken, AllHasCome DEF Placed
<1>4. /\ pc \in Statements /\ port \in Available /\ port \in Port /\ sent \in Nat
      /\ Available \subseteq Port /\ FIRST # SECOND
  BY <1>1, CommandIs, AvailableIs DEF Sending, Placed, Typed, ForPort
<1>5. /\ UNCHANGED <<Kbd, Mouse>> /\ at' = "select"
      /\ pc = "enable" => \/ port = FIRST /\ SECOND \in Available /\ pc' = "install" /\ port' = SECOND
                          \/ /\ ~(port = FIRST /\ SECOND \in Available)
                             /\ pc' = "writeConfig" /\ port' = FIRST
      /\ pc = "reset" => pc' = "resetDone" /\ port' = port
      /\ pc = "reenable" => pc' = "identify" /\ port' = port
      /\ pc = "identify" => pc' = "id" /\ port' = port
      /\ pc = "scanCodeSet" => pc' = "scanCodeNumber" /\ port' = port
      /\ pc = "scanCodeNumber" => pc' = "done" /\ port' = FIRST
  BY <1>2, <1>4 DEF Return, GoTo, NextPort, Statements
<1>6. Typed'
  <2>1. port' \in Port /\ pc' \in Statements \cup Listening \cup {"install", "writeConfig", "done"}
    BY <1>4, <1>5 DEF Statements, Listening, Port
  <2> QED
    BY <1>1, <1>3, <1>5, <2>1, CommandIs DEF Typed, ForPort, Listening
<1>7. Tail(Answers(attached[port], Command[pc])) =
         IF pc = "reset" THEN <<RESET_DONE>> \o attached[port].boot
         ELSE IF pc = "identify" THEN attached[port].id ELSE <<>>
  BY <1>1, <1>4, AnswersAre, AvailableIs
<1>8. CASE pc \in {"reset", "identify"}
  <2>1. pc' \in {"resetDone", "id"} /\ port' = port
    BY <1>5, <1>8
  <2>2. Remaining' = Tail(Answers(attached[port], Command[pc]))
    BY <1>1, <1>5, <1>7, <1>8, <2>1, CommandIs DEF Remaining, Sending, Statements
  <2> QED
    BY <1>1, <1>2, <1>3, <1>4, <1>5, <1>6, <1>8, <2>1, <2>2, ListeningKeeps DEF Listening, Asked
<1>9. CASE pc \notin {"reset", "identify"}
  <2>1. \A p \in Port : Stream(p)' = <<>>
    BY <1>2, <1>4, <1>7, <1>9, NothingSaid
  <2>2. pc' \in {"install", "writeConfig", "identify", "scanCodeNumber", "done"}
    BY <1>4, <1>5, <1>9 DEF Statements
  <2>3. Placed'
    <3>1. CASE pc = "enable"
      <4>1. installed = {q \in Available : q = FIRST \/ port = SECOND} /\ enabled = {} /\ Starting'
        BY <1>1, <1>5, <3>1 DEF Placed, Starting
      <4>2. \A p \in Port : buffer'[p] = <<>>
        BY <1>1, <1>3, <3>1 DEF Placed, Starting
      <4>3. port' \in Port /\ (pc' = "install" => port' \in Available)
        BY <1>4, <1>5, <3>1 DEF Port
      <4>4. pc' = "install" => installed' = {q \in Available' : q = FIRST /\ port' = SECOND}
        BY <1>1, <1>4, <1>5, <3>1, <4>1 DEF Port
      <4>5. pc' = "writeConfig" => installed' = Available'
        BY <1>1, <1>4, <1>5, <3>1, <4>1 DEF Port
      <4>6. pc' \in {"install", "writeConfig"}
        BY <1>5, <3>1
      <4> QED
        BY <1>1, <1>3, <4>1, <4>2, <4>3, <4>4, <4>5, <4>6, CommandIs DEF Placed, ForPort, Statements
    <3>2. CASE pc # "enable"
      <4>1. ~Starting /\ ~Starting' /\ installed = Available /\ enabled = Available
        BY <1>1, <1>4, <1>5, <1>9, <3>2 DEF Placed, Starting, Statements
      <4>2. pc' \in {"identify", "scanCodeNumber", "done"} /\ (pc' # "done" => port' \in Available)
        BY <1>4, <1>5, <1>9, <3>2 DEF Statements
      <4> QED
        BY <1>1, <1>3, <4>1, <4>2, CommandIs DEF Placed, ForPort, Statements
    <3> QED
      BY <3>1, <3>2
  <2>4. KnownSoFar'
    BY <1>1, <1>4, <1>5, <1>9, <2>2 DEF KnownSoFar, Known, OneOfEach, Asked, Statements
  <2>5. pc' # "failed" /\ pc' \notin Listening
    BY <2>2 DEF Listening
  <2> QED
    BY <1>1, <1>5, <1>6, <2>1, <2>3, <2>4, <2>5, QuietKeeps DEF Counted
<1> QED
  BY <1>8, <1>9

\* The interrupts are switched on when nothing is left in the controller: there is nothing to
\* flush.
LEMMA WriteConfigKeeps == ASSUME CalmInv, Calm, WriteConfig PROVE CalmInv'
<1>1. /\ Typed /\ Placed /\ Counted /\ KnownSoFar /\ pc = "writeConfig"
      /\ enabled' = installed /\ pc' = "flush" /\ port' = FIRST /\ at' = "select"
      /\ UNCHANGED <<circumstance, attached, irq, reporting, out, route, pending, buffer, found, attempts,
                     id, sent, resends, refusals, keys>>
      /\ Available' = Available /\ installed' = installed
  BY DEF CalmInv, WriteConfig, Enabled, GoTo, found, history, Available
<1>2. ~Sending /\ pc \notin Listening
  BY <1>1, CommandIs DEF Sending, Statements, Listening
<1>3. (\A p \in Port : Stream(p)' = <<>>) /\ irq = {} /\ ~out.full
  BY <1>1, <1>2, NobodySpeaks, StreamsStay
<1>4. Typed'
  BY <1>1 DEF Typed, found, Port
<1>5. Placed'
  BY <1>1, <1>3, CommandIs DEF Placed, Starting, ForPort, Statements
<1>6. KnownSoFar'
  BY <1>1 DEF KnownSoFar, Asked
<1>7. ~Sending' /\ pc' \notin Listening
  BY <1>1, CommandIs DEF Sending, Statements, Listening
<1> QED
  BY <1>1, <1>3, <1>4, <1>5, <1>6, <1>7, QuietKeeps DEF Counted

LEMMA FlushKeeps == ASSUME CalmInv, Calm, Flush PROVE CalmInv'
<1>1. /\ Typed /\ Placed /\ Counted /\ KnownSoFar /\ pc = "flush"
      /\ UNCHANGED <<circumstance, attached, irq, enabled, reporting, out, route, pending, buffer, found,
                     attempts, id, sent, resends, refusals, keys>>
      /\ Available' = Available /\ installed' = installed
      /\ IF out.full THEN GoTo("flushRead", FIRST) ELSE GoTo("reset", FirstPort)
  BY DEF CalmInv, Flush, Leftover, found, history, environment, Available
<1>2. ~Sending /\ pc \notin Listening
  BY <1>1, CommandIs DEF Sending, Statements, Listening
<1>3. (\A p \in Port : Stream(p)' = <<>>) /\ irq = {} /\ ~out.full
  BY <1>1, <1>2, NobodySpeaks, StreamsStay
<1>4. pc' = "reset" /\ port' = FirstPort /\ at' = "select"
  BY <1>1, <1>3 DEF GoTo
<1>5. FirstPort \in Available /\ Available \subseteq Port /\ FIRST # SECOND
  BY <1>1, AvailableIs
<1>6. Typed'
  BY <1>1, <1>4, <1>5, CommandIs DEF Typed, found, ForPort, Statements
<1>7. Placed'
  BY <1>1, <1>3, <1>4, <1>5 DEF Placed, Starting
<1>8. KnownSoFar'
  BY <1>1, <1>4, <1>5 DEF KnownSoFar, Asked, FirstPort
<1> QED
  BY <1>1, <1>3, <1>4, <1>6, <1>7, <1>8, QuietKeeps DEF Counted, Listening

\* A byte is popped from the port's buffer, where its device has put nothing but what it has
\* been asked for.
LEMMA PoppedIs ==
    ASSUME CalmInv, Calm, MainFlow, pc \in Listening, buffer[port] # <<>>,
           buffer' = [buffer EXCEPT ![port] = Tail(@)], UNCHANGED <<out, pending, irq>>,
           Remaining \in Seq(Values)
    PROVE  /\ Remaining # <<>> /\ Head(buffer[port]) = Byte(Head(Remaining), port, sent)
           /\ \A p \in Port : Stream(p)' = IF p = port THEN Said(Tail(Remaining), port, sent) ELSE <<>>
           /\ buffer' \in [Port -> Seq(Bytes)] /\ ~out'.full /\ irq = {}
<1>1. Typed /\ InStep /\ ~Starting /\ irq = {}
  BY AllHasCome DEF CalmInv, Listening, Starting
<1>2. /\ Stream(port) # <<>> /\ Head(buffer[port]) = Head(Stream(port))
      /\ \A p \in Port : Stream(p)' = IF p = port THEN Tail(Stream(port)) ELSE <<>>
      /\ buffer' \in [Port -> Seq(Bytes)] /\ ~out'.full
  BY <1>1, Popped
<1>3. Stream(port) = Said(Remaining, port, sent) /\ port \in Port /\ sent \in Nat
  BY <1>1, CommandIs DEF InStep, Refused, Sending, Listening, Statements, Typed
<1>4. Remaining # <<>>
  BY <1>2, <1>3, NothingSaid
<1>5. /\ Head(Stream(port)) = Byte(Head(Remaining), port, sent)
      /\ Tail(Stream(port)) = Said(Tail(Remaining), port, sent)
  BY <1>3, <1>4, SaidIs
<1> QED
  BY <1>1, <1>2, <1>4, <1>5

LEMMA PopResetDoneKeeps == ASSUME CalmInv, Calm, PopResetDone PROVE CalmInv'
<1>1. /\ Typed /\ Placed /\ Counted /\ KnownSoFar /\ MainFlow /\ pc = "resetDone" /\ buffer[port] # <<>>
      /\ buffer' = [buffer EXCEPT ![port] = Tail(@)]
      /\ IF Head(buffer[port]).value = RESET_DONE THEN GoTo("empty", port) ELSE GoTo("failed", FIRST)
      /\ UNCHANGED <<environment, out, route, pending, found, attempts, id, history>>
      /\ UNCHANGED <<circumstance, attached, irq, installed, Kbd, Mouse>> /\ Available' = Available
  BY DEF CalmInv, PopResetDone, environment, found, Available
<1>2. port \in Available /\ IsDevice(attached[port])
  BY <1>1, AvailableIs DEF Placed, ForPort
<1>3. Remaining = <<RESET_DONE>> \o attached[port].boot
  BY <1>1, CommandIs DEF Remaining, Sending, Statements
<1>4. Remaining \in Seq(Values) /\ Head(Remaining) = RESET_DONE /\ Tail(Remaining) = attached[port].boot
  BY <1>2, <1>3, ValuesAre, InFront DEF IsDevice
<1>5. /\ Head(buffer[port]) = Byte(RESET_DONE, port, sent)
      /\ \A p \in Port : Stream(p)' = IF p = port THEN Said(attached[port].boot, port, sent) ELSE <<>>
      /\ buffer' \in [Port -> Seq(Bytes)] /\ ~out'.full /\ irq = {}
  BY <1>1, <1>4, PoppedIs DEF Listening, environment
<1>6. pc' = "empty" /\ port' = port /\ at' = "select"
  BY <1>1, <1>5 DEF Byte, GoTo
<1>7. Remaining' = attached[port].boot
  BY <1>1, <1>6, CommandIs DEF Remaining, Sending, Statements
<1>8. Typed'
  BY <1>1, <1>5, <1>6 DEF Typed, history, ForPort
<1> QED
  BY <1>1, <1>5, <1>6, <1>7, <1>8, ListeningKeeps DEF Listening, Asked, found

LEMMA EmptyBufferKeeps == ASSUME CalmInv, Calm, EmptyBuffer PROVE CalmInv'
<1>1. /\ Typed /\ Placed /\ InStep /\ Counted /\ KnownSoFar /\ MainFlow /\ pc = "empty"
      /\ buffer' = [buffer EXCEPT ![port] = <<>>] /\ pc' = "reenable" /\ port' = port /\ at' = "select"
      /\ UNCHANGED <<circumstance, attached, irq, enabled, out, route, pending, installed, Kbd, Mouse,
                     attempts, id, sent, resends, refusals, keys>>
      /\ Available' = Available
  BY DEF CalmInv, EmptyBuffer, GoTo, environment, found, history, Available
<1>2. irq = {} /\ ~out.full /\ \A p \in Port : pending[p] = <<>> /\ Stream(p) = buffer[p]
  BY <1>1, AllHasCome DEF Starting
<1>3. port \in Port /\ port \in Available /\ buffer \in [Port -> Seq(Bytes)]
  BY <1>1 DEF Typed, Placed, ForPort
<1>4. buffer' \in [Port -> Seq(Bytes)] /\ \A p \in Port : buffer'[p] = <<>>
  BY <1>1, <1>2, <1>3 DEF InStep
<1>5. \A p \in Port : Stream(p)' = <<>>
  BY <1>1, <1>2, <1>4 DEF Stream, InController
<1>6. Typed'
  BY <1>1, <1>4, CommandIs DEF Typed, ForPort, Statements
<1>7. Placed'
  BY <1>1, <1>2, <1>3 DEF Placed, Starting, ForPort
<1>8. KnownSoFar'
  BY <1>1 DEF KnownSoFar, Known, OneOfEach, Asked
<1> QED
  BY <1>1, <1>5, <1>6, <1>7, <1>8, QuietKeeps DEF Counted, Listening

LEMMA PopIdKeeps == ASSUME CalmInv, Calm, PopId PROVE CalmInv'
<1> DEFINE value == Head(buffer[port]).value
<1>1. /\ Typed /\ Placed /\ Counted /\ KnownSoFar /\ MainFlow /\ pc = "id" /\ buffer[port] # <<>>
      /\ buffer' = [buffer EXCEPT ![port] = Tail(@)]
      /\ IF TwoBytes(value)
         THEN GoTo("secondId", port) /\ id' = value /\ UNCHANGED <<Kbd, Mouse>>
         ELSE Identified(OneByteType(value)) /\ UNCHANGED id
      /\ UNCHANGED <<environment, out, route, pending, installed, attempts, history>>
      /\ UNCHANGED <<circumstance, attached, irq>> /\ Available' = Available
  BY DEF CalmInv, PopId, environment, Available
<1>2. port \in Available /\ IsDevice(attached[port])
  BY <1>1, AvailableIs DEF Placed, ForPort
<1>3. Remaining = attached[port].id /\ Remaining \in Seq(Values)
  BY <1>1, <1>2, CommandIs DEF Remaining, Sending, Statements, IsDevice
<1>4. /\ attached[port].id # <<>> /\ Head(buffer[port]) = Byte(Head(attached[port].id), port, sent)
      /\ \A p \in Port : Stream(p)' = IF p = port THEN Said(Tail(attached[port].id), port, sent) ELSE <<>>
      /\ buffer' \in [Port -> Seq(Bytes)] /\ ~out'.full /\ irq = {}
  BY <1>1, <1>3, PoppedIs DEF Listening, environment
<1>5. value = Head(attached[port].id) /\ value = attached[port].id[1]
  BY <1>2, <1>4 DEF Byte, IsDevice
<1> HIDE DEF value
<1>6. CASE TwoBytes(value)
  <2>1. Len(attached[port].id) = 2
    <3>1. Len(<<"AC", "A1">>) = 2
      OBVIOUS
    <3> QED
      BY <1>2, <1>5, <1>6, <3>1 DEF IsDevice, TwoBytes
  <2>2. pc' = "secondId" /\ port' = port /\ at' = "select" /\ id' = value /\ UNCHANGED <<Kbd, Mouse>>
    BY <1>1, <1>6 DEF GoTo
  <2>3. Remaining' = Tail(attached[port].id)
    BY <1>1, <2>2, CommandIs DEF Remaining, Sending, Statements
  <2>4. Typed'
    BY <1>1, <1>4, <2>2 DEF Typed, history, ForPort
  <2> QED
    BY <1>1, <1>4, <1>5, <2>1, <2>2, <2>3, <2>4, ListeningKeeps DEF Listening, Asked
<1>7. CASE ~TwoBytes(value)
  <2>1. Tail(attached[port].id) = <<>> /\ IsRight(OneByteType(value), attached[port])
    BY <1>2, <1>5, <1>7, OneByteIsRight
  <2>2. port \in Port /\ sent \in Nat
    BY <1>1 DEF Typed
  <2>3. \A p \in Port : Stream(p)' = <<>>
    BY <1>4, <2>1, <2>2, NothingSaid
  <2>4. out' \in [full : BOOLEAN, byte : Bytes]
    BY <1>1 DEF Typed
  <2>5. Identified(OneByteType(value))
    BY <1>1, <1>7
  <2> QED
    BY <1>1, <1>4, <2>1, <2>3, <2>4, <2>5, IdentifiedKeeps
<1> QED
  BY <1>6, <1>7

LEMMA PopSecondIdKeeps == ASSUME CalmInv, Calm, PopSecondId PROVE CalmInv'
<1>1. /\ Typed /\ Placed /\ InStep /\ MainFlow /\ pc = "secondId" /\ buffer[port] # <<>>
      /\ buffer' = [buffer EXCEPT ![port] = Tail(@)]
      /\ Identified(TwoByteType(Head(buffer[port]).value))
      /\ UNCHANGED <<environment, out, route, pending, installed, attempts, id, history>> /\ irq' = irq
  BY DEF CalmInv, PopSecondId, environment
<1>2. port \in Available /\ port \in Port /\ sent \in Nat /\ IsDevice(attached[port])
  BY <1>1, AvailableIs DEF Placed, ForPort, Typed
<1>3. Len(attached[port].id) = 2 /\ id = attached[port].id[1]
  BY <1>1 DEF InStep
<1> DEFINE rest == Tail(attached[port].id)
<1>4. /\ rest \in Seq(Values) /\ rest # <<>> /\ Tail(rest) = <<>> /\ Head(rest) = attached[port].id[2]
      /\ IsRight(TwoByteType(attached[port].id[2]), attached[port])
  BY <1>2, <1>3, TwoBytesAreRight
<1>5. Remaining = rest
  BY <1>1, CommandIs DEF Remaining, Sending, Statements
<1> HIDE DEF rest
<1>6. /\ Head(buffer[port]) = Byte(Head(rest), port, sent)
      /\ \A p \in Port : Stream(p)' = IF p = port THEN Said(Tail(rest), port, sent) ELSE <<>>
      /\ buffer' \in [Port -> Seq(Bytes)] /\ ~out'.full /\ irq = {}
  BY <1>1, <1>4, <1>5, PoppedIs DEF Listening
<1>7. Identified(TwoByteType(attached[port].id[2]))
  BY <1>1, <1>4, <1>6 DEF Byte
<1>8. \A p \in Port : Stream(p)' = <<>>
  BY <1>2, <1>4, <1>6, NothingSaid
<1>9. out' \in [full : BOOLEAN, byte : Bytes]
  BY <1>1 DEF Typed
<1> QED
  BY <1>1, <1>4, <1>6, <1>7, <1>8, <1>9, IdentifiedKeeps

-----------------------------------------------------------------------------
\* The theorems

LEMMA StillKeeps == ASSUME CalmInv, UNCHANGED vars PROVE CalmInv'
<1>1. UNCHANGED <<circumstance, attached, out, irq, enabled, route, pending, buffer, installed, Kbd, Mouse,
                  pc, port, at, attempts, id, sent, resends, refusals, keys>>
  BY DEF vars, environment, found, history
<1>2. /\ Typed /\ Placed /\ InStep /\ Counted /\ KnownSoFar /\ Available' = Available
      /\ (Starting' <=> Starting) /\ port \in Port
  BY <1>1 DEF CalmInv, Available, Starting, Typed
<1>3. Typed'
  BY <1>1, <1>2 DEF Typed
<1>4. \A q \in Port : Stream(q)' = Stream(q)
  BY <1>1, StreamsStay
<1>5. (irq' # {} => out'.full /\ irq' = {out'.byte.from}) /\ (~Starting /\ out'.full => irq' = {out'.byte.from})
  <2>1. pc = "failed" /\ out.full => irq = {out.byte.from}
    BY <1>2 DEF Placed, Starting
  <2> QED
    BY <1>1, <1>2, <2>1 DEF Placed
<1>6. Starting => irq' = {} /\ buffer' = buffer
  BY <1>1, <1>2 DEF Placed
<1> QED
  BY <1>1, <1>3, <1>4, <1>5, <1>6, MovingKeeps DEF found, history

LEMMA CalmStart == Init /\ Calm => CalmInv
<1> SUFFICES ASSUME Init, Calm PROVE CalmInv
  OBVIOUS
<1>1. /\ attached \in Layouts /\ circumstance \in Circumstances /\ pc = "install" /\ port = FirstPort
      /\ out = [full |-> FALSE, byte |-> Byte(KEY, FIRST, 0)] /\ irq = {} /\ enabled = {} /\ at = "select"
      /\ pending = [p \in Port |-> <<>>] /\ buffer = [p \in Port |-> <<>>] /\ installed = {}
      /\ Kbd = [index |-> NPOS, type |-> UNDEFINED] /\ attempts = 0
      /\ sent = 0 /\ resends = 0 /\ refusals = 0 /\ keys = 0
  BY DEF Init
<1>2. Available \subseteq Port /\ FirstPort \in Available /\ FIRST # SECOND
  BY <1>1, DevicesAssumption DEF Available, FirstPort, Port
<1>3. Typed
  <2>1. Byte(KEY, FIRST, 0) \in Bytes
    BY ValuesAre DEF Byte, Bytes, Port
  <2> QED
    BY <1>1, <1>2, <2>1 DEF Typed, ForPort
<1>4. Placed
  <2>1. installed = {q \in Available : q = FIRST /\ port = SECOND}
    BY <1>1, <1>2 DEF FirstPort
  <2> QED
    BY <1>1, <1>2, <2>1 DEF Placed, Starting
<1>5. \A p \in Port : Stream(p) = <<>>
  BY <1>1 DEF Stream, InController
<1>6. ~Sending /\ ~Refused
  BY <1>1, CommandIs DEF Sending, Refused, Statements
<1>7. Said(Remaining, port, sent) = <<>>
  <2>1. Remaining = <<>>
    BY <1>1, <1>6 DEF Remaining
  <2> QED
    BY <1>3, <2>1, NothingSaid DEF Typed
<1>8. InStep
  BY <1>1, <1>3, <1>5, <1>6, <1>7 DEF InStep, Typed
<1>9. Counted /\ KnownSoFar
  BY <1>1, <1>6 DEF Counted, KnownSoFar, Asked
<1> QED
  BY <1>3, <1>4, <1>8, <1>9 DEF CalmInv

LEMMA CalmSteps == CalmInv /\ Calm /\ [Next]_vars => CalmInv'
<1> SUFFICES ASSUME CalmInv, Calm, [Next]_vars PROVE CalmInv'
  OBVIOUS
<1>1. CASE Install
  BY <1>1, InstallKeeps
<1>2. CASE Select
  BY <1>2, SelectKeeps
<1>3. CASE Write
  BY <1>3, WriteKeeps
<1>4. CASE Retry
  BY <1>4, RetryKeeps
<1>5. CASE Return
  BY <1>5, RefusedKeeps, AckKeeps
<1>6. CASE WriteConfig
  BY <1>6, WriteConfigKeeps
<1>7. CASE Flush
  BY <1>7, FlushKeeps
<1>8. CASE FlushRead
  BY <1>8 DEF FlushRead, CalmInv, Placed
<1>9. CASE PopResetDone
  BY <1>9, PopResetDoneKeeps
<1>10. CASE EmptyBuffer
  BY <1>10, EmptyBufferKeeps
<1>11. CASE PopId
  BY <1>11, PopIdKeeps
<1>12. CASE PopSecondId
  BY <1>12, PopSecondIdKeeps
<1>13. CASE \E p \in Port : Deliver(p)
  BY <1>13, DeliverKeeps
<1>14. CASE \E p \in Port : Report(p)
  <2>1. keys \in Nat /\ keys < 0
    BY <1>14 DEF Report, Calm, CalmInv, Typed
  <2> QED
    BY <2>1
<1>15. CASE \E p \in Port : Handler(p)
  BY <1>15, HandlerKeeps
<1>16. CASE UNCHANGED vars
  BY <1>16, StillKeeps
<1> QED
  BY <1>1, <1>2, <1>3, <1>4, <1>5, <1>6, <1>7, <1>8, <1>9, <1>10, <1>11, <1>12, <1>13, <1>14, <1>15,
     <1>16 DEF Next, Main

\* How the devices behave is settled once.
LEMMA CalmStays == [Next]_vars => (Calm' <=> Calm)
<1> SUFFICES ASSUME [Next]_vars PROVE circumstance' = circumstance
  BY DEF Calm
<1> QED
  BY DEF Next, Main, Install, Select, Write, Retry, Return, WriteConfig, Flush, FlushRead, PopResetDone,
     EmptyBuffer, PopId, PopSecondId, Deliver, Report, Handler, vars, environment

LEMMA InvariantHolds == Spec => []DevicesInv
<1>1. Init => DevicesInv
  BY CalmStart DEF DevicesInv
<1>2. DevicesInv /\ [Next]_vars => DevicesInv'
  BY CalmSteps, CalmStays DEF DevicesInv
<1> QED
  BY <1>1, <1>2, PTL DEF Spec

\* When devices answer in time, PS2DevsInit gives up only when one has refused a byte at
\* every attempt of PS2DevSendByte (ps2-dev.c:18-83, 97-120).
THEOREM FailsWhenRefused == Spec => []FailsOnlyWhenRefused
<1>1. DevicesInv => FailsOnlyWhenRefused
  BY DEF DevicesInv, CalmInv, Counted, FailsOnlyWhenRefused
<1> QED
  BY <1>1, InvariantHolds, PTL

\* When devices answer in time, every device is recorded as what it is, with the type that it
\* gave, and the conversation of the start leaves nothing behind (ps2-dev.c:44-79, 163-201).
THEOREM StartsRight == Spec => []StartedRight
<1>1. DevicesInv => StartedRight
  <2> SUFFICES ASSUME CalmInv, Calm, pc = "done", resends <= Attempts
               PROVE  /\ OneOfEach => \A p \in Available : Known(p)
                      /\ ~out.full /\ \A p \in Port : pending[p] = <<>> /\ buffer[p] = <<>>
    BY DEF DevicesInv, StartedRight, Known
  <2>1. OneOfEach => \A p \in Available : Known(p)
    BY DEF CalmInv, KnownSoFar
  <2>2. ~Sending /\ pc \notin Listening
    BY CommandIs DEF Sending, Statements, Listening
  <2> QED
    BY <2>1, <2>2, NobodySpeaks
<1> QED
  BY <1>1, InvariantHolds, PTL

\* When devices answer in time, what PS2DevSendByte takes for the answer is the device's
\* answer to the byte that it has just written (ps2-dev.c:97-120, 170).
THEOREM AnswersAreTheirs == Spec => AnswersMatch
<1>1. DevicesInv /\ [Next]_vars => [Calm /\ TakesAnswer => Answer.from = port /\ Answer.re = sent]_vars
  <2> SUFFICES ASSUME CalmInv, Calm, Next, TakesAnswer PROVE Answer.from = port /\ Answer.re = sent
    BY DEF DevicesInv
  <2>1. Sending /\ at = "answer" /\ <<pc', port', at'>> # <<pc, port, at>>
    BY DEF TakesAnswer
  <2>2. Retry \/ Return
    <3>1. pc \in Statements
      BY <2>1, CommandIs DEF Sending
    <3> QED
      BY <2>1, <3>1 DEF Next, Main, Install, Select, Write, WriteConfig, Flush, FlushRead, PopResetDone,
         EmptyBuffer, PopId, PopSecondId, Deliver, Report, Handler, Statements
  <2>3. MainFlow /\ Answered /\ Take /\ UNCHANGED <<pending, irq>>
    BY <2>2 DEF Retry, Return, environment
  <2> QED
    BY <2>1, <2>3, Heard
<1> QED
  BY <1>1, InvariantHolds, PTL DEF Spec, AnswersMatch

==============================================================================
