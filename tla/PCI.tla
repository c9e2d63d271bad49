--------------------------------- MODULE PCI ---------------------------------
(***************************************************************************)
(* The enumeration of the PCI functions, src/kernel/source/pci.c:20-138,   *)
(* over the memory manager: KernelMain calls InstallPCI, which descends    *)
(* from the host's bus through slots, functions and bridges, and collects  *)
(* lists of devices that it joins on the way back.                         *)
(*                                                                         *)
(* Nothing else runs meanwhile that calls the manager, so a step is what a *)
(* procedure does between two calls or returns of the four procedures.     *)
(* Their activations are a stack; list number 1 is PCIDevices, and list    *)
(* k + 1 is the variable tmp of the k-th activation.                       *)
(***************************************************************************)
EXTENDS PhysicalMemory

CONSTANTS           \* beside those of the memory manager; a PCI_DEVICE takes one byte
    Buses,          \* bound: how many buses there are
    Slots,          \* slots of a bus, 32
    Functions,      \* functions of a slot, 8
    HostBuses,      \* the buses the loop of PCICheckAllBuses tries, 8
    Machines        \* what configuration space may hold: [functions, bridges,
                    \* multifunction], see MachinesAssumption

Bus == 0 .. Buses - 1

Function == Bus \X (0 .. Slots - 1) \X (0 .. Functions - 1)

\* A function is named by bus, slot and number; the bridges among them lead to the
\* buses that the firmware gave them, above their own and each to a different one.
ASSUME MachinesAssumption ==
    \A m \in Machines :
        /\ m.functions \subseteq Function
        /\ DOMAIN m.bridges \subseteq m.functions
        /\ \A f \in DOMAIN m.bridges : m.bridges[f] \in Bus /\ m.bridges[f] > f[1]
        /\ \A f, g \in DOMAIN m.bridges : f # g => m.bridges[f] # m.bridges[g]
        /\ m.multifunction \subseteq Bus \X (0 .. Slots - 1)

VARIABLES
    machine,
    stack,          \* the activations, the innermost last
    lists,          \* PCIDevices and the activations' lists
    replaced,       \* history: the blocks whose list was replaced by a longer one,
    failed          \* and whether the manager has refused a request

manager == <<descriptors, Allocations, AllocData, memory>>
enumeration == <<machine, stack, lists, replaced, failed>>

Empty == [Devices |-> NULL, Count |-> 0]

PCIDevices == lists[1]

-----------------------------------------------------------------------------
\* Configuration space; what is absent reads as ones.

Present(bus, slot, function) == <<bus, slot, function>> \in machine.functions

\* PCI_HEADER_TYPE_MF in the header type of function 0.
MultiFunction(bus, slot) ==
    ~Present(bus, slot, 0) \/ <<bus, slot>> \in machine.multifunction

-----------------------------------------------------------------------------
\* Activations

Running(proc, at) ==
    /\ stack # <<>>
    /\ stack[Len(stack)].proc = proc /\ stack[Len(stack)].at = at

Top == stack[Len(stack)]

\* The number of the list tmp of the innermost activation.
Own == Len(lists)

Activation(proc, bus, slot, function, res) ==
    [proc |-> proc, bus |-> bus, slot |-> slot, function |-> function, res |-> res, at |-> "next"]

\* The innermost activation goes on as "top" when the one it calls returns.
Call(top, activation) ==
    /\ stack' = Append([stack EXCEPT ![Len(stack)] = top], activation)
    /\ lists' = Append(lists, Empty)
    /\ UNCHANGED <<machine, manager, replaced, failed>>

Without(seq) == SubSeq(seq, 1, Len(seq) - 1)

Return ==
    /\ stack' = Without(stack) /\ lists' = Without(lists)
    /\ UNCHANGED <<machine, manager, replaced, failed>>

Joining == [Top EXCEPT !.at = "join"]

-----------------------------------------------------------------------------
\* The four procedures up to the joining of lists

\* A host bridge with one function: PCICheckBus(0, res) is all there is to do.
CheckAllBuses ==
    /\ Running("all", "start")
    /\ stack' = <<IF MultiFunction(0, 0) THEN [Top EXCEPT !.at = "next"]
                  ELSE Activation("bus", 0, 0, 0, Top.res)>>
    /\ UNCHANGED <<machine, manager, lists, replaced, failed>>

\* The loop ends at the first function that is there.
CheckHostBus ==
    /\ Running("all", "next")
    /\ IF Top.bus = HostBuses \/ Present(0, 0, Top.bus)
       THEN Return
       ELSE Call(Joining, Activation("bus", Top.bus, 0, 0, Own))

CheckBus ==
    /\ Running("bus", "next")
    /\ IF Top.slot = Slots THEN Return
       ELSE Call(Joining, Activation("slot", Top.bus, Top.slot, 0, Own))

\* Function 0 goes to the caller's list.
CheckSlot ==
    /\ Running("slot", "next") /\ Top.function = 0
    /\ IF Present(Top.bus, Top.slot, 0)
       THEN Call([Top EXCEPT !.function = 1],
                 Activation("function", Top.bus, Top.slot, 0, Top.res))
       ELSE Return

CheckOtherFunction ==
    /\ Running("slot", "next") /\ Top.function > 0
    /\ IF ~MultiFunction(Top.bus, Top.slot) \/ Top.function = Functions
       THEN Return
       ELSE IF Present(Top.bus, Top.slot, Top.function)
       THEN Call(Joining, Activation("function", Top.bus, Top.slot, Top.function, Own))
       ELSE /\ stack' = [stack EXCEPT ![Len(stack)].function = @ + 1]
            /\ UNCHANGED <<machine, manager, lists, replaced, failed>>

This == <<Top.bus, Top.slot, Top.function>>

SecondaryBus_Primary(f) == f[1]

SecondaryBus(f) == machine.bridges[f]

CheckBridge ==
    /\ Running("function", "next") /\ This \in DOMAIN machine.bridges
    /\ Call(Joining, Activation("bus", SecondaryBus(This), 0, 0, Own))

WriteDevice(s, address) == [s EXCEPT !.memory[address] = This]

\* ReallocatePhysicalMemory and the assignments to the new entry; a refusal leaves the
\* list as it is.
AppendDevice(res, new) ==
    IF new.memory = NULL
    THEN /\ Become(new.s) /\ failed' = TRUE /\ UNCHANGED replaced
         /\ lists' = Without(lists)
    ELSE /\ Become(WriteDevice(MoveTo(new, res.Devices, res.Count + 1), new.memory + res.Count))
         /\ lists' = Without([lists EXCEPT ![Top.res] =
                                 [Devices |-> new.memory, Count |-> res.Count + 1]])
         /\ UNCHANGED <<replaced, failed>>

CheckFunction ==
    /\ Running("function", "next") /\ This \in machine.functions \ DOMAIN machine.bridges
    /\ AppendDevice(lists[Top.res], AllocatePhysicalMemory(Current, lists[Top.res].Count + 1))
    /\ stack' = Without(stack)
    /\ UNCHANGED machine

-----------------------------------------------------------------------------
\* The joining of lists, which is the same in all four

\* The activation goes on with the next bus, slot or function.
Advanced ==
    CASE Top.proc = "all"  -> [Top EXCEPT !.at = "next", !.bus = @ + 1]
      [] Top.proc = "bus"  -> [Top EXCEPT !.at = "next", !.slot = @ + 1]
      [] Top.proc = "slot" -> [Top EXCEPT !.at = "next", !.function = @ + 1]

\* What is released once the lists are joined: the old list is not.
Released(s, res, tmp) == FreePhysicalMemory(s, tmp.Devices)

Longer_NotAdded(res, tmp, address) == [Devices |-> address, Count |-> tmp.Count]

Longer(res, tmp, address) == [Devices |-> address, Count |-> res.Count + tmp.Count]

AfterJoin_Kept(tmp) == tmp

\* tmp = (PCI_ENUM_RESULT){ 0, 0 }
AfterJoin(tmp) == Empty

Joined(res, tmp, new) ==
    /\ Become(Released(new.s, res, tmp))
    /\ LET after == [lists EXCEPT ![Top.res] = Longer(res, tmp, new.memory), ![Own] = AfterJoin(tmp)]
       IN IF Top.proc = "function"
          THEN stack' = Without(stack) /\ lists' = Without(after)
          ELSE stack' = [stack EXCEPT ![Len(stack)] = Advanced] /\ lists' = after
    /\ replaced' = replaced \cup {res.Devices}
    /\ UNCHANGED failed

\* Both lists are released; res->Devices still points to what was its list.
Refused(res, tmp, new) ==
    /\ Become(FreePhysicalMemory(FreePhysicalMemory(new.s, tmp.Devices), res.Devices))
    /\ lists' = Without([lists EXCEPT ![Top.res].Count = 0])
    /\ stack' = Without(stack)
    /\ failed' = TRUE
    /\ UNCHANGED replaced

JoinLists(res, tmp, new) ==
    IF new.memory = NULL THEN Refused(res, tmp, new) ELSE Joined(res, tmp, new)

Join ==
    /\ stack # <<>> /\ Top.at = "join"
    /\ JoinLists(lists[Top.res], lists[Own],
                 ConcatMemory(Current, lists[Top.res].Devices, lists[Own].Devices,
                                lists[Top.res].Count, lists[Own].Count))
    /\ UNCHANGED machine

-----------------------------------------------------------------------------

\* InstallPCI; the manager has not been called before.
EnumerationInit ==
    /\ Init
    /\ machine \in Machines
    /\ lists = <<Empty, Empty>>
    /\ stack = <<[Activation("all", 0, 0, 0, 1) EXCEPT !.at = "start"]>>
    /\ replaced = {} /\ failed = FALSE

EnumerationNext ==
    \/ CheckAllBuses \/ CheckHostBus \/ CheckBus
    \/ CheckSlot \/ CheckOtherFunction
    \/ CheckBridge \/ CheckFunction \/ Join

EnumerationSpec == EnumerationInit /\ [][EnumerationNext]_<<manager, enumeration>>

-----------------------------------------------------------------------------
\* Properties

Done == stack = <<>>

\* The functions on a bus that a driver can use.
OnBus(bus) ==
    {f \in machine.functions :
        f[1] = bus /\ Present(bus, f[2], 0) /\ (f[3] = 0 \/ MultiFunction(bus, f[2]))}

\* The functions to be found on a bus and behind its bridges.
ToBeFound[bus \in Bus] ==
    UNION {IF f \in DOMAIN machine.bridges THEN ToBeFound[machine.bridges[f]] ELSE {f} :
             f \in OnBus(bus)}

Entries(list) == {memory[list.Devices + k] : k \in 0 .. list.Count - 1}

\* Types of the variables; the loops stay within the slots and functions of a bus, and the
\* procedures call each other no deeper than there are buses, three at a time, in a
\* machine whose bridges are configured (pci.c:107-108).
EnumerationTypeOK ==
    /\ machine \in Machines
    /\ stack \in Seq([proc : {"all", "bus", "slot", "function"}, at : {"start", "next", "join"},
                      bus : 0 .. Buses + HostBuses, slot : 0 .. Slots, function : 0 .. Functions, res : Nat])
    /\ lists \in Seq([Devices : {NULL} \cup {FrameAddress(f) : f \in Frame},
                      Count : 0 .. Cardinality(machine.functions)])
    /\ replaced \subseteq {NULL} \cup {FrameAddress(f) : f \in Frame}
    /\ failed \in BOOLEAN
    /\ Len(stack) <= 3 * Buses

\* Every function of the machine that is not a bridge is in the list, once: no list
\* that is built while others wait on the stack falls on one of them, and none is lost
\* in the joining.  When memory runs out functions may be missing, but nothing is listed
\* that is not there, and the drivers that come later leave the list as it is
\* (pci.c:47-138).
ListIsRight ==
    Done =>
        /\ Entries(PCIDevices) \subseteq machine.functions
        /\ ~failed => PCIDevices.Count = Cardinality(ToBeFound[0]) /\ Entries(PCIDevices) = ToBeFound[0]

\* Until memory runs out, a list with entries is a block of the manager whose frames are
\* taken, and of no two lists the same: neither the caller's list nor a temporary one is
\* released while it is still to be joined (pci.c:53-64, 82-92, 109-119).
ListsAreHeld ==
    \A k \in 1 .. Len(lists) : lists[k].Count > 0 /\ ~failed =>
        /\ lists[k].Devices \in Live
        /\ \A f \in FramesOf(BlockAt(lists[k].Devices)) : descriptors[f].Flags = 1
        /\ \A l \in 1 .. Len(lists) :
              l # k /\ lists[l].Count > 0 => lists[l].Devices # lists[k].Devices

=============================================================================
