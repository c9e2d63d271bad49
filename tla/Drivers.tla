------------------------------- MODULE Drivers -------------------------------
(***************************************************************************)
(* The IDE driver's start and its first use over the memory manager, after *)
(* the enumeration that PCI models: InstallIDE and IDEGetCtrl in           *)
(* src/kernel/source/ide.c, and the loop over the controllers in           *)
(* KernelMain (src/kernel/source/kernel.c:76-99).                          *)
(*                                                                         *)
(* An IDE_CHANNEL, an IDE_DEVICE and an IDE_CONTROLLER take a byte each;   *)
(* what a byte holds names the controller's function.  How drives are      *)
(* found and read is in module IDE.  A step is one controller.             *)
(***************************************************************************)
EXTENDS PCI

CONSTANT
    Drives          \* [f |-> the places of the drives] for the functions that are IDE
                    \* controllers; a place is twice the channel plus the drive's index

\* A controller without drives asks for zero bytes and then releases a block of
\* somebody else (ide.c:29, 453); such controllers are left out.
ASSUME DrivesAssumption ==
    \A f \in DOMAIN Drives : f \in Function /\ Drives[f] \in SUBSET (0 .. 3) \ {{}}

VARIABLES
    next,           \* i of InstallIDE, then of KernelMain's loop
    phase,          \* "install", "list" or "end"
    Ctrls, NumberOfCtrls,
    ctrl,           \* the copy that KernelMain has, or NoCtrl
    known           \* history: the functions in Ctrls

driver == <<next, phase, Ctrls, NumberOfCtrls, ctrl, known>>

NoCtrl == [Channels |-> NULL, Devices |-> NULL, NumberOfDevices |-> 0]

-----------------------------------------------------------------------------

WriteBytes(s, address, bytes) ==
    [s EXCEPT !.memory = [a \in DOMAIN s.memory |->
        IF a \in address .. address + Len(bytes) - 1 THEN bytes[a - address + 1] ELSE s.memory[a]]]

\* IDEInitChnls; a controller has two channels.
ChannelBytes(f) == <<f \o <<0>>, f \o <<1>>>>

\* The drives, in the order of their places, each with a pointer to its channel.
DeviceBytes(f, channels) ==
    [k \in 1 .. Cardinality(Drives[f]) |->
        LET place == SetToSortSeq(Drives[f], <)[k] IN f \o <<place, channels + place \div 2>>]

\* IDEInitCtrl; when the devices are refused the channels are released but stay in the result.
WithDevices(f, address, devices) ==
    IF devices.memory = NULL
    THEN [s |-> FreePhysicalMemory(devices.s, address),
          ctrl |-> [NoCtrl EXCEPT !.Channels = address]]
    ELSE [s |-> WriteBytes(devices.s, devices.memory, DeviceBytes(f, address)),
          ctrl |-> [Channels |-> address, Devices |-> devices.memory,
                    NumberOfDevices |-> Cardinality(Drives[f])]]

WithChannels(f, channels) ==
    IF channels.memory = NULL THEN [s |-> channels.s, ctrl |-> NoCtrl]
    ELSE WithDevices(f, channels.memory,
             AllocatePhysicalMemory(WriteBytes(channels.s, channels.memory, ChannelBytes(f)),
                                    Cardinality(Drives[f])))

InitCtrl(s, f) == WithChannels(f, AllocatePhysicalMemory(s, 2))

Release_OnlyChannels(s, data) == FreePhysicalMemory(s, data.Channels)

Release(s, data) == FreePhysicalMemory(FreePhysicalMemory(s, data.Channels), data.Devices)

Listed == memory[PCIDevices.Devices + next]

Refuse(s, data) == Become(Release(s, data)) /\ UNCHANGED <<Ctrls, NumberOfCtrls, known>>

Install(data, new) ==
    IF new.memory = NULL THEN Refuse(new.s, data)
    ELSE /\ Become(WriteBytes(MoveTo(new, Ctrls, NumberOfCtrls + 1), new.memory + NumberOfCtrls,
                              << <<data.Channels, data.Devices, data.NumberOfDevices>> >>))
         /\ Ctrls' = new.memory /\ NumberOfCtrls' = NumberOfCtrls + 1
         /\ known' = Append(known, Listed)

InstallIfAny(init) ==
    IF init.ctrl.NumberOfDevices = 0 THEN Refuse(init.s, init.ctrl)
    ELSE Install(init.ctrl, AllocatePhysicalMemory(init.s, NumberOfCtrls + 1))

InstallController ==
    /\ phase = "install" /\ Done /\ next < PCIDevices.Count /\ Listed \in DOMAIN Drives
    /\ InstallIfAny(InitCtrl(Current, Listed))
    /\ next' = next + 1
    /\ UNCHANGED <<enumeration, phase, ctrl>>

SkipDevice ==
    /\ phase = "install" /\ Done /\ next < PCIDevices.Count /\ Listed \notin DOMAIN Drives
    /\ next' = next + 1
    /\ UNCHANGED <<manager, enumeration, phase, Ctrls, NumberOfCtrls, ctrl, known>>

EndInstall ==
    /\ phase = "install" /\ Done /\ next = PCIDevices.Count
    /\ phase' = "list" /\ next' = 0
    /\ UNCHANGED <<manager, enumeration, Ctrls, NumberOfCtrls, ctrl, known>>

\* An entry of Ctrls.
Entry(k) == memory[Ctrls + k]

Copy(s, address, source, count) == [s EXCEPT !.memory = CopyMemory(@, address, source, count)]

\* IDEGetCtrl; when it fails KernelMain goes on with the next.
GoOn(s) == Become(s) /\ next' = next + 1 /\ UNCHANGED ctrl

DevicesOf_Shared(original, devices) == original[2]

DevicesOf(original, devices) == devices.memory

CopyDevices(original, address, devices) ==
    IF devices.memory = NULL THEN GoOn(FreePhysicalMemory(devices.s, address))
    ELSE /\ Become(Copy(Copy(devices.s, address, original[1], 2),
                        devices.memory, original[2], original[3]))
         /\ ctrl' = [Channels |-> address, Devices |-> DevicesOf(original, devices),
                     NumberOfDevices |-> original[3]]
         /\ UNCHANGED next

CopyCtrl(original, channels) ==
    IF channels.memory = NULL THEN GoOn(channels.s)
    ELSE CopyDevices(original, channels.memory, AllocatePhysicalMemory(channels.s, original[3]))

GetCtrl ==
    /\ phase = "list" /\ next < NumberOfCtrls /\ ctrl = NoCtrl
    /\ CopyCtrl(Entry(next), AllocatePhysicalMemory(Current, 2))
    /\ UNCHANGED <<enumeration, phase, Ctrls, NumberOfCtrls, known>>

\* KernelMain has read from the drives and is done with the copy.
ReleaseCtrl ==
    /\ ctrl # NoCtrl
    /\ Become(FreePhysicalMemory(FreePhysicalMemory(Current, ctrl.Devices), ctrl.Channels))
    /\ ctrl' = NoCtrl /\ next' = next + 1
    /\ UNCHANGED <<enumeration, phase, Ctrls, NumberOfCtrls, known>>

EndList ==
    /\ phase = "list" /\ next = NumberOfCtrls
    /\ phase' = "end"
    /\ UNCHANGED <<manager, enumeration, next, Ctrls, NumberOfCtrls, ctrl, known>>

DriversInit ==
    /\ EnumerationInit
    /\ next = 0 /\ phase = "install"
    /\ Ctrls = NULL /\ NumberOfCtrls = 0 /\ ctrl = NoCtrl /\ known = <<>>

DriversNext ==
    \/ EnumerationNext /\ UNCHANGED driver
    \/ SkipDevice \/ InstallController \/ EndInstall
    \/ GetCtrl \/ ReleaseCtrl \/ EndList

DriversSpec == DriversInit /\ [][DriversNext]_<<manager, enumeration, driver>>

-----------------------------------------------------------------------------
\* Properties

Known == 0 .. NumberOfCtrls - 1

Bytes(address, count) == [k \in 1 .. count |-> memory[address + k - 1]]

\* The blocks that are in use, one for each purpose.
InUse ==
    (IF NumberOfCtrls > 0 THEN <<Ctrls>> ELSE <<>>)
    \o [k \in 1 .. NumberOfCtrls |-> Entry(k - 1)[1]]
    \o [k \in 1 .. NumberOfCtrls |-> Entry(k - 1)[2]]
    \o (IF ctrl # NoCtrl THEN <<ctrl.Channels, ctrl.Devices>> ELSE <<>>)

\* The table of controllers keeps every controller as it grows, whatever was refused in
\* between, and every block it names stays the driver's own: the channels and drives that
\* are there, each drive with a pointer to its own channel (ide.c:26-43, 435-464).  What
\* KernelMain gets is a copy of the controller at that index (ide.c:49-70).
ControllersKept ==
    /\ \A k \in 1 .. Len(InUse) : InUse[k] \in Live
    /\ \A k, l \in 1 .. Len(InUse) : k # l => InUse[k] # InUse[l]
    /\ \A k \in Known :
          /\ Bytes(Entry(k)[1], 2) = ChannelBytes(known[k + 1])
          /\ Bytes(Entry(k)[2], Entry(k)[3]) = DeviceBytes(known[k + 1], Entry(k)[1])
    /\ ctrl # NoCtrl =>
          /\ Bytes(ctrl.Channels, 2) = ChannelBytes(known[next + 1])
          /\ Bytes(ctrl.Devices, ctrl.NumberOfDevices) = DeviceBytes(known[next + 1], Entry(next)[1])

\* The blocks that stay taken beside those in use are lists that a longer one replaced
\* (pci.c:61, 89, 116): temporary lists, copies, and what was taken for a controller that
\* is not kept are all released, also when memory runs out (ide.c:27-38, 58-63, 455-459).
OnlyReplacedListsLeak ==
    Done => Live \subseteq {PCIDevices.Devices} \cup replaced \cup Range(InUse)

=============================================================================
