-------------------------------- MODULE Mouse --------------------------------
(***************************************************************************)
(* plugins/mouse: which touchpads are switched off by the setting          *)
(* touchpad-enabled, and syndaemon, the helper that switches them off      *)
(* while somebody types.  A device that is switched off leaves the list of *)
(* GDK as if it was unplugged.  The X server, a custom command and the     *)
(* processes are external; the properties of devices are not modelled.     *)
(***************************************************************************)
EXTENDS Integers, Sequences, FiniteSets, SequencesExt

CONSTANTS
  Pad,          \* touchpads
  Custom,       \* those that a custom command takes care of
  Lingers,      \* whether a killed helper may be noticed late
  MaxEvents,    \* events of the server that wait
  MaxHelpers    \* helpers of a behaviour

VARIABLES
  started,      \* csd_mouse_manager_idle_cb has run
  plugged, on,  \* of the server: the touchpads, and those that are enabled
  known,        \* the touchpads in GDK's list
  events,       \* the server's, not dispatched
  enabled,      \* the key touchpad-enabled
  typing,       \* the key disable-while-typing
  blacklist,    \* those a custom command has taken care of
  helpers,      \* processes that run, numbered
  last,         \* how many were started
  syndaemon,    \* syndaemon_spawned, syndaemon_pid
  dead          \* processes that ended, in the order in which it will be noticed

vars == <<started, plugged, on, known, events, enabled, typing, blacklist, helpers, last, syndaemon, dead>>
server == <<plugged, on, events>>
processes == <<helpers, last, syndaemon, dead>>

Event(kind, id) == [kind |-> kind, id |-> id]
Room(n) == Len(events) + n <= MaxEvents

Init ==
  /\ started = FALSE /\ plugged \in SUBSET Pad /\ on \in SUBSET plugged /\ known = on /\ events = <<>>
  /\ enabled \in BOOLEAN /\ typing \in BOOLEAN /\ blacklist = {}
  /\ helpers = {} /\ last = 0 /\ syndaemon = [spawned |-> FALSE, pid |-> 0] /\ dead = <<>>

-----------------------------------------------------------------------------

\* set_disable_w_typing; a helper that cannot be started takes the setting back,
\* one that is not in the PATH leaves it.
SetDisableWTyping(state) ==
  CASE state /\ plugged # {} /\ ~syndaemon.spawned ->
         \/ /\ last < MaxHelpers /\ last' = last + 1 /\ helpers' = helpers \cup {last'}
            /\ syndaemon' = [spawned |-> TRUE, pid |-> last'] /\ typing' = state /\ UNCHANGED dead
         \/ typing' \in {state, FALSE} /\ UNCHANGED processes
    [] ~(state /\ plugged # {}) /\ syndaemon.spawned ->
         /\ helpers' = helpers \ {syndaemon.pid} /\ dead' = Append(dead, syndaemon.pid)
         /\ syndaemon' = [syndaemon EXCEPT !.spawned = FALSE] /\ typing' = state /\ UNCHANGED last
    [] OTHER -> typing' = state /\ UNCHANGED processes

\* set_device_enabled on a set of touchpads, with the news of it.
Enable(ids) ==
  LET new == (ids \cap plugged) \ on
  IN /\ Room(Cardinality(new)) /\ on' = on \cup new
     /\ events' = events \o [i \in 1 .. Cardinality(new) |-> Event("added", SetToSeq(new)[i])]
     /\ UNCHANGED plugged
Disable(ids) ==
  LET gone == ids \cap on
  IN /\ Room(Cardinality(gone)) /\ on' = on \ gone
     /\ events' = events \o [i \in 1 .. Cardinality(gone) |-> Event("removed", SetToSeq(gone)[i])]
     /\ UNCHANGED plugged

\* Processes that ended are noticed before anything else, unless they linger.
Attended == dead = <<>> \/ Lingers

-----------------------------------------------------------------------------
\* csd_mouse_manager_idle_cb: touchpads that GDK does not know are enabled if
\* the setting says so.
Start ==
  /\ ~started /\ started' = TRUE
  /\ SetDisableWTyping(typing)
  /\ blacklist' = known \cap Custom
  /\ IF enabled THEN Enable(plugged \ known) ELSE Disable(known \ Custom)
  /\ UNCHANGED <<known, enabled>>

\* The key touchpad-enabled changes: touchpad_callback.
TouchpadEnabled ==
  /\ Attended /\ enabled' = ~enabled
  /\ IF ~started THEN UNCHANGED server
     ELSE IF enabled' THEN Enable((known \ blacklist) \cup (plugged \ known))
     ELSE Disable(known \ blacklist)
  /\ UNCHANGED <<started, known, typing, blacklist, processes>>

\* The key disable-while-typing changes.
DisableWTyping ==
  /\ Attended
  /\ IF started THEN SetDisableWTyping(~typing) ELSE typing' = ~typing /\ UNCHANGED processes
  /\ UNCHANGED <<started, server, known, enabled, blacklist>>

\* device_added_cb: a touchpad comes into GDK's list.
DeviceAdded ==
  /\ Attended /\ events # <<>> /\ Head(events).kind = "added"
  /\ LET id == Head(events).id
     IN /\ known' = known \cup {id}
        /\ IF ~started \/ id \in blacklist
           THEN events' = Tail(events) /\ UNCHANGED <<plugged, on, typing, blacklist, processes>>
           ELSE /\ blacklist' = blacklist \cup ({id} \cap Custom)
                /\ LET off == IF enabled THEN {} ELSE ({id} \ Custom) \cap on
                   IN /\ on' = on \ off
                      /\ events' = Tail(events) \o [i \in 1 .. Cardinality(off) |-> Event("removed", id)]
                /\ SetDisableWTyping(typing)
                /\ UNCHANGED plugged
  /\ UNCHANGED <<started, enabled>>

\* device_removed_cb: it leaves the list, and the blacklist.
DeviceRemoved ==
  /\ Attended /\ events # <<>> /\ Head(events).kind = "removed" /\ events' = Tail(events)
  /\ LET id == Head(events).id
     IN /\ known' = known \ {id}
        /\ IF started /\ id \in known
           THEN blacklist' = blacklist \ {id} /\ SetDisableWTyping(typing)
           ELSE UNCHANGED <<blacklist, typing, processes>>
  /\ UNCHANGED <<started, plugged, on, enabled>>

\* syndaemon_died, whichever it was.
SyndaemonDied ==
  /\ dead # <<>> /\ dead' = Tail(dead)
  /\ syndaemon' = [syndaemon EXCEPT !.spawned = FALSE]
  /\ UNCHANGED <<started, server, known, enabled, typing, blacklist, helpers, last>>

-----------------------------------------------------------------------------
\* The X server, and helpers that end by themselves.
Plug(id) ==
  /\ id \notin plugged /\ Room(1)
  /\ plugged' = plugged \cup {id} /\ on' = on \cup {id} /\ events' = Append(events, Event("added", id))
  /\ UNCHANGED <<started, known, enabled, typing, blacklist, processes>>

Unplug(id) ==
  /\ id \in plugged /\ Room(1)
  /\ plugged' = plugged \ {id} /\ on' = on \ {id}
  /\ events' = IF id \in on THEN Append(events, Event("removed", id)) ELSE events
  /\ UNCHANGED <<started, known, enabled, typing, blacklist, processes>>

End(h) ==
  /\ h \in helpers /\ helpers' = helpers \ {h} /\ dead' = Append(dead, h)
  /\ UNCHANGED <<started, server, known, enabled, typing, blacklist, last, syndaemon>>

Next ==
  \/ Start \/ TouchpadEnabled \/ DisableWTyping \/ DeviceAdded \/ DeviceRemoved \/ SyndaemonDied
  \/ \E id \in Pad : Plug(id) \/ Unplug(id)
  \/ \E h \in 1 .. MaxHelpers : End(h)

Spec == Init /\ [][Next]_vars

-----------------------------------------------------------------------------
TypeOK ==
  /\ on \subseteq plugged /\ plugged \subseteq Pad /\ known \subseteq Pad /\ blacklist \subseteq Pad
  /\ helpers \subseteq 1 .. last /\ last \in 0 .. MaxHelpers /\ Len(events) <= MaxEvents + 1
  /\ syndaemon.pid \in 0 .. last

\* Once all news is dispatched GDK knows the touchpads that are enabled, and
\* those are what the setting says, but for the ones of a custom command; at
\* most one helper runs, and none against the setting (one without a touchpad
\* may: when a touchpad that is off is unplugged, nobody hears of it).  If the
\* end of a killed helper is noticed late it counts for the next one, and there
\* may be two (a known deviation).
Agrees ==
  started /\ events = <<>> =>
    /\ known = on
    /\ on \ blacklist = IF enabled THEN plugged \ blacklist ELSE {}
    /\ ~Lingers /\ dead = <<>> =>
         /\ Cardinality(helpers) <= 1 /\ (syndaemon.spawned <=> helpers # {})
         /\ helpers # {} => typing
=============================================================================
