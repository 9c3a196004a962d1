----------------------------- MODULE DaemonNames -----------------------------
(***************************************************************************)
(* cinnamon-settings-daemon/main.c: daemons of one session, the two names  *)
(* each of them wants on the session bus, its registration with the        *)
(* session manager, and its ends.  All of this is left to the main loop,   *)
(* which runs after the plugins were started.  The bus and the session     *)
(* manager are external; a name whose owner leaves goes to the next that   *)
(* waits for it.                                                           *)
(***************************************************************************)
EXTENDS Naturals, Sequences, SequencesExt

CONSTANTS
  Daemon,     \* processes of this program
  Foreign     \* another program, which may own GSD_DBUS_NAME

Name == {"CSD", "GSD"}
Stage == {"off", "start", "main", "quit", "done", "killed"}

VARIABLES
  stage,              \* where each daemon's main() is
  asked,              \* the names it has asked for
  queue,              \* of each name: its owner and who waits for it
  inbox,              \* of each daemon: what it has not dispatched
  ignore_name_lost,
  handler,            \* SIGTERM has a handler
  registered          \* "no", "asked", "connected" to the client's signals

vars == <<stage, asked, queue, inbox, ignore_name_lost, handler, registered>>

Init ==
  /\ stage = [d \in Daemon |-> "off"] /\ asked = [d \in Daemon |-> {}]
  /\ \E q \in {<<>>, <<Foreign>>} : queue = [n \in Name |-> IF n = "GSD" THEN q ELSE <<>>]
  /\ inbox = [d \in Daemon |-> <<>>]
  /\ ignore_name_lost = [d \in Daemon |-> FALSE] /\ handler = [d \in Daemon |-> FALSE]
  /\ registered = [d \in Daemon |-> "no"]

-----------------------------------------------------------------------------
(* The bus: x = [queue |-> ..., inbox |-> ...].                            *)
Bus == [queue |-> queue, inbox |-> inbox]
BusIs(x) == queue' = x.queue /\ inbox' = x.inbox
Owns(d, n) == queue[n] # <<>> /\ Head(queue[n]) = d

\* d does not want the name any more: who is next owns it and is told.
Unown(d, n, x) ==
  LET rest == RemoveFirst(x.queue[n], d)
      next == IF x.queue[n] # <<>> /\ Head(x.queue[n]) = d /\ rest # <<>> THEN Head(rest) ELSE Foreign
  IN [queue |-> [x.queue EXCEPT ![n] = rest],
      inbox |-> [e \in Daemon |-> IF e = next THEN Append(x.inbox[e], "acquired") ELSE x.inbox[e]]]

ForeignLeaves ==
  /\ Owns(Foreign, "GSD") /\ BusIs(Unown(Foreign, "GSD", Bus))
  /\ UNCHANGED <<stage, asked, ignore_name_lost, handler, registered>>

-----------------------------------------------------------------------------
(* main().                                                                 *)
Goes(d, to) == stage' = [stage EXCEPT ![d] = to]
Dispatch(d, message) ==
  stage[d] = "main" /\ inbox[d] # <<>> /\ Head(inbox[d]) = message /\ inbox' = [inbox EXCEPT ![d] = Tail(@)]

\* The plugins are started.
Start(d) ==
  /\ stage[d] = "off" /\ Goes(d, "start")
  /\ UNCHANGED <<asked, queue, inbox, ignore_name_lost, handler, registered>>
EnterMain(d) ==
  /\ stage[d] = "start" /\ Goes(d, "main")
  /\ UNCHANGED <<asked, queue, inbox, ignore_name_lost, handler, registered>>

\* bus_register: g_bus_own_name for CSD_DBUS_NAME, then for GSD_DBUS_NAME.
RequestName(d) ==
  /\ stage[d] = "main" /\ asked[d] # Name
  /\ LET n == IF "CSD" \in asked[d] THEN "GSD" ELSE "CSD"
     IN /\ asked' = [asked EXCEPT ![d] = @ \cup {n}]
        /\ queue' = [queue EXCEPT ![n] = Append(@, d)]
        /\ inbox' = [inbox EXCEPT ![d] = Append(@, IF queue[n] = <<>> THEN "acquired" ELSE "lost")]
  /\ UNCHANGED <<stage, ignore_name_lost, handler, registered>>

\* name_acquired_handler, which is not called for a name that was given up.
NameAcquired(d) ==
  /\ Dispatch(d, "acquired") /\ handler' = [handler EXCEPT ![d] = @ \/ ~ignore_name_lost[d]]
  /\ UNCHANGED <<stage, asked, queue, ignore_name_lost, registered>>

\* Mutation: only the daemon's own name matters.
NameLostOwn(d) ==
  /\ Dispatch(d, "lost")
  /\ IF ignore_name_lost[d] \/ Owns(d, "CSD") THEN UNCHANGED stage ELSE Goes(d, "quit")
  /\ UNCHANGED <<asked, queue, ignore_name_lost, handler, registered>>

\* name_lost_handler
NameLost(d) ==
  /\ Dispatch(d, "lost")
  /\ IF ignore_name_lost[d] THEN UNCHANGED stage ELSE Goes(d, "quit")
  /\ UNCHANGED <<asked, queue, ignore_name_lost, handler, registered>>

\* do_register_client; by the time of the answer both names were asked for.
RegisterClient(d) ==
  /\ stage[d] = "main" /\ registered[d] = "no"
  /\ registered' = [registered EXCEPT ![d] = "asked"]
  /\ UNCHANGED <<stage, asked, queue, inbox, ignore_name_lost, handler>>

\* on_client_registered, got_client_proxy
GotClientProxy(d) ==
  /\ stage[d] = "main" /\ registered[d] = "asked" /\ asked[d] = Name
  /\ registered' = [registered EXCEPT ![d] = "connected"]
  /\ UNCHANGED <<stage, asked, queue, inbox, ignore_name_lost, handler>>

\* The session manager ends the session; nobody hears it before the proxy is
\* there.
SessionStops(d) ==
  /\ registered[d] = "connected" /\ stage[d] = "main" /\ "stop" \notin ToSet(inbox[d]) /\ ~ignore_name_lost[d]
  /\ inbox' = [inbox EXCEPT ![d] = Append(@, "stop")]
  /\ UNCHANGED <<stage, asked, queue, ignore_name_lost, handler, registered>>

\* do_stop: the names go, the daemon stays.
DoStop(d) ==
  /\ stage[d] = "main" /\ inbox[d] # <<>> /\ Head(inbox[d]) = "stop"
  /\ BusIs(Unown(d, "GSD", Unown(d, "CSD", [Bus EXCEPT !.inbox[d] = Tail(@)])))
  /\ ignore_name_lost' = [ignore_name_lost EXCEPT ![d] = TRUE]
  /\ UNCHANGED <<stage, asked, handler, registered>>

\* on_term_signal, or the end of a process that has no handler yet.
Terminate(d) ==
  /\ stage[d] \in {"start", "main"}
  /\ IF handler[d] THEN Goes(d, "quit") /\ UNCHANGED <<queue, inbox>>
     ELSE Goes(d, "killed") /\ BusIs(Unown(d, "GSD", Unown(d, "CSD", Bus)))
  /\ UNCHANGED <<asked, ignore_name_lost, handler, registered>>

\* The rest of main(): the names, then the plugins.
Finish(d) ==
  /\ stage[d] = "quit" /\ Goes(d, "done")
  /\ BusIs(Unown(d, "GSD", Unown(d, "CSD", Bus)))
  /\ UNCHANGED <<asked, ignore_name_lost, handler, registered>>

Next ==
  \/ ForeignLeaves
  \/ \E d \in Daemon :
       \/ Start(d) \/ EnterMain(d) \/ RequestName(d) \/ NameAcquired(d) \/ NameLost(d)
       \/ RegisterClient(d) \/ GotClientProxy(d) \/ SessionStops(d) \/ DoStop(d)
       \/ Terminate(d) \/ Finish(d)

Spec == Init /\ [][Next]_vars

-----------------------------------------------------------------------------
(* Properties.                                                             *)
TypeOK ==
  /\ stage \in [Daemon -> Stage] /\ registered \in [Daemon -> {"no", "asked", "connected"}]
  /\ \A n \in Name : ToSet(queue[n]) \subseteq Daemon \cup {Foreign}
  /\ \A d \in Daemon : asked[d] \subseteq Name /\ ToSet(inbox[d]) \subseteq {"acquired", "lost", "stop"}

Settled(d) == stage[d] = "main" /\ asked[d] = Name /\ inbox[d] = <<>>

\* A daemon that stays owns both names, so that there is one; one that was told
\* to stop owns none, so that "cinnamon-session will [not] hang waiting for us"
\* (main.c:86), and one that ended waits for none.
OneDaemon ==
  /\ \A d \in Daemon : Settled(d) =>
       \A n \in Name : IF ignore_name_lost[d] THEN d \notin ToSet(queue[n]) ELSE Owns(d, n)
  /\ \A d \in Daemon, n \in Name : stage[d] \in {"done", "killed"} => d \notin ToSet(queue[n])

\* Somebody stays if all who came have settled (two that start at a time may
\* each lose a name to the other).
SomebodyStays ==
  (\A d \in Daemon : stage[d] = "done" \/ Settled(d)) => \E d \in Daemon : stage[d] = "main"
=============================================================================
