-------------------------- MODULE MCPhysicalMemory --------------------------
(* Regions for the runs: two allocatable ones around a reserved one, and   *)
(* one whose last frames are the ones an overrun can reach.                *)
EXTENDS PhysicalMemory

MCRegions ==
    << [Type |-> USABLE,      Data |-> 1, Length |-> 3],
       [Type |-> RESERVED,    Data |-> 7, Length |-> 1],
       [Type |-> RECLAIMABLE, Data |-> 9, Length |-> 1] >>

MCRegionsOne == << [Type |-> USABLE, Data |-> 1, Length |-> 8] >>
=============================================================================
