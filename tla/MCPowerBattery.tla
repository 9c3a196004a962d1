--------------------------- MODULE MCPowerBattery ----------------------------
(* A laptop with a UPS and a mouse; one and two batteries on an old UPower, *)
(* with everything that can be late, absent or low.                         *)
EXTENDS PowerBattery
MCKind == [d \in Device |-> CASE d \in {"b1", "b2"} -> "battery"
                              [] d = "ups" -> "ups" [] d = "mouse" -> "mouse"]
MCPercentage == [low |-> 70, critical |-> 50, action |-> 25]
MCTime == [low |-> 3, critical |-> 2, action |-> 1]
Built(devices, legacy, upsets) == [devices |-> devices, legacy |-> legacy, upsets |-> upsets]
MCMachines ==
  {Built({"b1", "ups", "mouse"}, FALSE, {}),
   Built({"b1", "b2"}, TRUE, {}),
   Built({"b1"}, TRUE, AllUpsets),
   Built({"b1"}, FALSE, AllUpsets),
   Built({"b1", "mouse"}, TRUE, {"late", "low"})}
MCLaptop == {Built({"b1"}, FALSE, {})}
=============================================================================
