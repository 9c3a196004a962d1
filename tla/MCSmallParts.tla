---------------------------- MODULE MCSmallParts -----------------------------
(***************************************************************************)
(* SmallParts with three time zones, of which two have the same data and   *)
(* one a name that is refused, and two configuration files.                *)
(***************************************************************************)
EXTENDS SmallParts

CONSTANTS berlin, oslo, gmt1, timezone, clock

MCTwin == [z \in Zone |-> IF z = oslo THEN berlin ELSE z]
MCFiles == <<timezone, clock>>
=============================================================================
