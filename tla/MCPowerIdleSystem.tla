------------------------- MODULE MCPowerIdleSystem --------------------------
(* Two configurations of the power manager: dimming before blanking before  *)
(* sleeping, and dimming only.                                              *)
EXTENDS PowerIdleSystem
MCSettings == {[dim |-> 2, blank |-> 2, sleep |-> 4],
               [dim |-> 3, blank |-> 0, sleep |-> 0]}
=============================================================================
