----------------------------- MODULE MCPS2Mouse -----------------------------
(* A mouse that moves to and fro, over the screen's edges and by more than eight bits. *)
EXTENDS PS2Mouse

MCDeltasX == {-200, -2, 127}

MCDeltasY == {1}
========================================
