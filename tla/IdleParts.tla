------------------------------ MODULE IdleParts ------------------------------
(***************************************************************************)
(* What tells the daemon that nobody is there, and what keeps the session  *)
(* from believing it: the alarms on the idle time (IdleTime) and the       *)
(* screensaver proxy, through which applications inhibit it                *)
(* (ScreensaverProxy).  They share no state: a behaviour is one of either, *)
(* the other stays where it starts.                                        *)
(***************************************************************************)
EXTENDS IdleTime

CONSTANTS Client, Cookie, Nobody, MaxCalls  \* ScreensaverProxy

VARIABLES
  part,                                                                       \* the part that moves
  running, cookie_ht, watch_ht, told, alive, calls, held, used, scene  \* ScreensaverProxy

proxyVars == <<running, cookie_ht, watch_ht, told, alive, calls, held, used, scene>>
allVars == <<part, vars, proxyVars>>

Proxy == INSTANCE ScreensaverProxy

-----------------------------------------------------------------------------
AllInit ==
  /\ part \in {"time", "proxy"} /\ Init /\ Proxy!Init
  /\ part = "time" => scene = [clients |-> {}, restarts |-> FALSE]
  /\ part = "proxy" => idle = 0

AllNext ==
  /\ UNCHANGED part
  /\ \/ part = "time" /\ Next /\ UNCHANGED proxyVars
     \/ part = "proxy" /\ Proxy!Next /\ UNCHANGED vars

\* The main loop keeps dispatching: X events, the proxy's calls, and the bus's
\* news of names.
Served(A) == A /\ part = "proxy" /\ UNCHANGED <<part, scene, vars>>
Dispatched(A) == A /\ part = "time" /\ UNCHANGED <<part, proxyVars>>

AllSpec ==
  /\ AllInit
  /\ [][AllNext]_allVars
  /\ WF_allVars(Dispatched(DispatchStale \/ DispatchReset \/ DispatchAlarm))
  /\ WF_allVars(Dispatched(QueryCounter))
  /\ WF_allVars(Served(Proxy!HandleInhibit))
  /\ WF_allVars(Served(Proxy!HandleUnInhibit))
  /\ WF_allVars(Served(Proxy!HandleStopped))
  /\ \A c \in Client : WF_allVars(Served(Proxy!NameVanished(c)))

-----------------------------------------------------------------------------
(* Properties.  IdleHasReset, NextInputResets and InputEndsIdle are those  *)
(* of IdleTime.                                                            *)

\* An inhibitor ends only when somebody gives its cookie back or when its client
\* has left: one client's end never lets the screen of another's film go dark
\* (csd-screensaver-proxy-manager.c:199-213).  And "look for all the cookies
\* under that name, and call uninhibit for them" (:197): who is watched and has
\* not vanished has an entry there, and a client that leaves comes to hold
\* nothing, if it is the only one and the plugin keeps running.
InhibitorsKept == []Proxy!TypeOK /\ Proxy!ReleasedOnRequest /\ Proxy!GoneIsReleased
=============================================================================
