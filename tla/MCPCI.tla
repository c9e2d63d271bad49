-------------------------------- MODULE MCPCI --------------------------------
(* Machines of three buses with three slots of three functions, some of them IDE controllers. *)
EXTENDS Drivers, TLC

Machine(functions, bridges, multifunction) ==
    [functions |-> functions \cup DOMAIN bridges \cup {<<0, 0, 0>>}, bridges |-> bridges,
     multifunction |-> multifunction]

\* A computer without PCI.
NoPCI == [functions |-> {}, bridges |-> <<>>, multifunction |-> {}]

OnZero == {<<0, 1, 0>>, <<0, 1, 1>>, <<0, 2, 0>>}
OnOne == {<<1, 0, 0>>, <<1, 1, 0>>, <<1, 1, 2>>, <<1, 2, 0>>}
OnTwo == {<<2, 0, 0>>, <<2, 2, 0>>}

\* No bridge, one in each place, one behind another, and two side by side.
Bridges ==
    {<<>>, <<0, 1, 0>> :> 1, <<0, 2, 0>> :> 1, <<0, 1, 1>> :> 1,
     <<0, 1, 0>> :> 1 @@ <<1, 1, 0>> :> 2, <<0, 1, 0>> :> 1 @@ <<0, 2, 0>> :> 2}

Reaches(b, bus) == \E f \in DOMAIN b : b[f] = bus

\* Nothing is on a bus that no bridge leads to.
AllMachines ==
    {Machine(z \cup o \cup t, b, {<<0, 1>>, <<1, 1>>}) :
        z \in SUBSET OnZero, o \in SUBSET OnOne, t \in SUBSET OnTwo, b \in Bridges}

MCAll ==
    {m \in AllMachines :
        \A f \in m.functions : f[1] = 0 \/ Reaches(m.bridges, f[1])}

\* Something is on the first slot of every bus.
MCOccupied ==
    {NoPCI} \cup
    {m \in MCAll : \A f \in DOMAIN m.bridges : <<m.bridges[f], 0, 0>> \in m.functions}

\* Controllers on three buses, with drives in several places.
MCDrives == <<0, 2, 0>> :> {0, 3} @@ <<1, 1, 2>> :> {1} @@ <<2, 2, 0>> :> {0, 1, 2}

\* Memory that every fourth machine exhausts at some point.
MCRegions == << [Type |-> USABLE, Data |-> 1, Length |-> 14] >>
=============================================================================
