-------------------------------- MODULE MCIDE --------------------------------
(* Drives of one channel. *)
EXTENDS IDE, TLC

Disk == [type |-> ATA, lba |-> TRUE]

OldDisk == [type |-> ATA, lba |-> FALSE]

CD == [type |-> ATAPI, lba |-> FALSE]

MCLayouts ==
    {0 :> Disk, 0 :> OldDisk, 1 :> CD, 0 :> Disk @@ 1 :> CD, 0 :> CD, 1 :> Disk, 0 :> CD @@ 1 :> Disk}

MCTwoDisks == {0 :> Disk @@ 1 :> Disk}
==============================================================================
