--------------------------- MODULE MCServiceParts ----------------------------
(***************************************************************************)
(* ServiceParts on small instances: two mounts, three thumbnails with      *)
(* limits around zero, and the print servers that keep a subscription, or  *)
(* suspend and restart.                                                    *)
(***************************************************************************)
EXTENDS ServiceParts, Integers

CONSTANTS root, home

MCFstab == <<root, home>>
MCLimit == -1 .. 1
MCScenarios == {{}, {"remote"}, {"remote", "late"}, {"no printers"}, {"suspend", "restart"}}
=============================================================================
