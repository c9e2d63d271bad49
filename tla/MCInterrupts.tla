---------------------------- MODULE MCInterrupts ----------------------------
(* A line of each controller beside the timer, and masks as a BIOS leaves them. *)
EXTENDS Interrupts

MCOrder == <<0, 12>>

MCFirstMasks == {{}, 0 .. 15}
=============================================================================
