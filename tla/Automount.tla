------------------------------ MODULE Automount ------------------------------
(***************************************************************************)
(* csd-automount-manager.c: volumes that appear are mounted at once, or    *)
(* queued while the screensaver is active and mounted when it ends.  What  *)
(* the manager knows of the screensaver comes from its bus name, a proxy   *)
(* made when it appears, GetActive and ActiveChanged.  The volume monitor, *)
(* the screensaver and the bus, which delivers in order, are external.     *)
(***************************************************************************)
EXTENDS Naturals, Sequences, SequencesExt

CONSTANTS
  Volume,       \* those that may be mounted automatically
  MaxMessages,  \* bound on what is under way from the screensaver
  MaxProxies    \* bound on the proxies that are made

VARIABLES
  plugged,             \* volumes that are there
  asked_to_mount,      \* those g_volume_mount was called for since they came
  volume_queue,        \* priv->volume_queue
  session_is_active,   \* priv->session_is_active
  screensaver_active,  \* priv->screensaver_active
  idle,                \* priv->automount_idle_id # 0
  owner,               \* the screensaver is on the bus
  locked,              \* it is active
  inbox,               \* its messages to the manager
  making,              \* proxies under construction
  ss_proxy,            \* priv->ss_proxy # NULL
  connected,           \* proxies whose g-signal is connected
  asking               \* calls of GetActive that have not been answered

volumes == <<plugged, asked_to_mount, volume_queue, idle>>
saver == <<owner, locked>>
proxies == <<making, ss_proxy, connected>>
vars == <<volumes, session_is_active, screensaver_active, saver, inbox, proxies, asking>>

ActiveChanged(b) == [kind |-> "ActiveChanged", active |-> b]
Reply(b) == [kind |-> "GetActive", active |-> b]
Named(kind) == [kind |-> kind]

-----------------------------------------------------------------------------
\* csd_automount_manager_start; the session state is SettingsSession's.
Init ==
  /\ plugged \in SUBSET Volume
  /\ asked_to_mount = {} /\ volume_queue = <<>> /\ idle = TRUE
  /\ session_is_active \in BOOLEAN /\ screensaver_active = FALSE
  /\ owner \in BOOLEAN /\ locked \in {FALSE, owner}
  /\ inbox = IF owner THEN <<Named("appeared")>> ELSE <<>>
  /\ making = 0 /\ ss_proxy = FALSE /\ connected = 0 /\ asking = 0

\* automount_all_volumes_idle_cb, automount_all_volumes, with the setting on
\* or off.
AutomountAll ==
  /\ idle
  /\ idle' = FALSE
  /\ asked_to_mount' \in {asked_to_mount \cup plugged, asked_to_mount}
  /\ UNCHANGED <<plugged, volume_queue, session_is_active, screensaver_active,
                 saver, inbox, proxies, asking>>

\* check_screen_lock_and_mount.
MountOrQueue(v) ==
  CASE ~session_is_active -> UNCHANGED <<asked_to_mount, volume_queue>>
    [] session_is_active /\ screensaver_active ->
         volume_queue' = <<v>> \o volume_queue /\ UNCHANGED asked_to_mount
    [] OTHER ->
         asked_to_mount' = asked_to_mount \cup {v} /\ UNCHANGED volume_queue

\* volume_added_callback, with the setting on or off.
VolumeAdded(v) ==
  /\ v \notin plugged
  /\ plugged' = plugged \cup {v}
  /\ MountOrQueue(v) \/ UNCHANGED <<asked_to_mount, volume_queue>>
  /\ UNCHANGED <<idle, session_is_active, screensaver_active, saver, inbox, proxies, asking>>

\* Mutation: the queue keeps the volume.
VolumeRemovedQueued(v) ==
  /\ v \in plugged
  /\ plugged' = plugged \ {v}
  /\ asked_to_mount' = asked_to_mount \ {v}
  /\ UNCHANGED <<volume_queue, idle, session_is_active, screensaver_active, saver, inbox, proxies, asking>>

\* volume_removed_callback.
VolumeRemoved(v) ==
  /\ v \in plugged
  /\ plugged' = plugged \ {v}
  /\ asked_to_mount' = asked_to_mount \ {v}
  /\ volume_queue' = RemoveFirst(volume_queue, v)
  /\ UNCHANGED <<idle, session_is_active, screensaver_active, saver, inbox, proxies, asking>>

\* session_state_changed.
SessionStateChanged ==
  /\ session_is_active' = ~session_is_active
  /\ volume_queue' = IF session_is_active' THEN volume_queue ELSE <<>>
  /\ UNCHANGED <<plugged, asked_to_mount, idle, screensaver_active, saver, inbox,
                 proxies, asking>>

-----------------------------------------------------------------------------
\* The screensaver starts, ends, locks and unlocks, and answers.
Sends(m) == Len(inbox) < MaxMessages /\ inbox' = Append(inbox, m)

Appearing == SelectSeq(inbox, LAMBDA m : m.kind = "appeared")

SaverAppears ==
  /\ ~owner
  /\ Len(Appearing) + making + connected + asking < MaxProxies
  /\ owner' = TRUE /\ Sends(Named("appeared"))
  /\ UNCHANGED <<locked, volumes, session_is_active, screensaver_active, proxies, asking>>

SaverVanishes ==
  /\ owner
  /\ owner' = FALSE /\ locked' = FALSE /\ Sends(Named("vanished"))
  /\ UNCHANGED <<volumes, session_is_active, screensaver_active, proxies, asking>>

SaverSwitches ==
  /\ owner
  /\ locked' = ~locked /\ Sends(ActiveChanged(locked'))
  /\ UNCHANGED <<owner, volumes, session_is_active, screensaver_active, proxies, asking>>

AnswerGetActive ==
  /\ asking > 0
  /\ asking' = asking - 1
  /\ Sends(IF owner THEN Reply(locked) ELSE Named("error"))
  /\ UNCHANGED <<saver, volumes, session_is_active, screensaver_active, proxies>>

-----------------------------------------------------------------------------
Dispatch(kind) == inbox # <<>> /\ Head(inbox).kind = kind /\ inbox' = Tail(inbox)

\* screensaver_appeared_callback.
ScreensaverAppeared ==
  /\ Dispatch("appeared")
  /\ screensaver_active' = FALSE
  /\ making' = making + 1
  /\ UNCHANGED <<volumes, session_is_active, saver, ss_proxy, connected, asking>>

\* screensaver_proxy_ready_cb; a proxy that was there is not given up.
ScreensaverProxyReady ==
  /\ making > 0
  /\ making' = making - 1
  /\ ss_proxy' = TRUE
  /\ connected' = connected + 1
  /\ asking' = asking + 1
  /\ UNCHANGED <<volumes, session_is_active, screensaver_active, saver, inbox>>

\* screensaver_get_active_ready_cb; without ss_proxy the call is finished on
\* NULL, which gives nothing.  The queue is not looked at.
GetActiveReady ==
  /\ \/ /\ Dispatch("GetActive")
        /\ screensaver_active' = IF ss_proxy THEN Head(inbox).active ELSE screensaver_active
     \/ Dispatch("error") /\ UNCHANGED screensaver_active
  /\ UNCHANGED <<volumes, session_is_active, saver, proxies, asking>>

\* check_volume_queue takes the link out of the list and frees it before it
\* reads the link's next, which g_list_remove has cleared: the loop ends after
\* the first volume, and the list is dropped.  (That the memory is reused in
\* between, which ends the program, is left out.)
CheckVolumeQueue ==
  /\ asked_to_mount' =
       asked_to_mount \cup (IF volume_queue = <<>> THEN {} ELSE {Head(volume_queue)})
  /\ volume_queue' = <<>>

\* screensaver_signal_callback.
ScreensaverSignal ==
  /\ Dispatch("ActiveChanged")
  /\ IF connected > 0
     THEN /\ screensaver_active' = Head(inbox).active
          /\ IF screensaver_active'
             THEN UNCHANGED <<asked_to_mount, volume_queue>>
             ELSE CheckVolumeQueue
     ELSE UNCHANGED <<screensaver_active, asked_to_mount, volume_queue>>
  /\ UNCHANGED <<plugged, idle, session_is_active, saver, proxies, asking>>

\* Mutation: the state is kept.
ScreensaverVanishedStale ==
  /\ Dispatch("vanished")
  /\ ss_proxy' = FALSE
  /\ connected' = IF ss_proxy THEN connected - 1 ELSE connected
  /\ volume_queue' = <<>>
  /\ UNCHANGED <<plugged, asked_to_mount, idle, session_is_active, screensaver_active,
                 saver, making, asking>>

\* screensaver_vanished_callback: the queue is cleared without mounting.
ScreensaverVanished ==
  /\ Dispatch("vanished")
  /\ screensaver_active' = FALSE
  /\ ss_proxy' = FALSE
  /\ connected' = IF ss_proxy THEN connected - 1 ELSE connected
  /\ volume_queue' = <<>>
  /\ UNCHANGED <<plugged, asked_to_mount, idle, session_is_active, saver, making, asking>>

Next ==
  \/ AutomountAll \/ SessionStateChanged
  \/ \E v \in Volume : VolumeAdded(v) \/ VolumeRemoved(v)
  \/ SaverAppears \/ SaverVanishes \/ SaverSwitches \/ AnswerGetActive
  \/ ScreensaverAppeared \/ ScreensaverProxyReady \/ GetActiveReady
  \/ ScreensaverSignal \/ ScreensaverVanished

Spec == Init /\ [][Next]_vars

-----------------------------------------------------------------------------
Queued == Range(volume_queue)

\* The variables have their types, and no volume is queued twice.
TypeOK ==
  /\ plugged \subseteq Volume /\ asked_to_mount \subseteq plugged
  /\ volume_queue \in Seq(Volume) /\ IsInjective(volume_queue)
  /\ session_is_active \in BOOLEAN /\ screensaver_active \in BOOLEAN
  /\ idle \in BOOLEAN /\ owner \in BOOLEAN /\ locked \in {FALSE, owner}
  /\ making \in Nat /\ ss_proxy \in BOOLEAN /\ connected \in Nat /\ asking \in Nat

\* What waits in the queue is a volume that is still there, of a session that
\* is active behind an active screensaver: none is left waiting for an unlock
\* that has been, or mounted after it was pulled out
\* (csd-automount-manager.c:176-227, 305-323, 461-466).
QueueWaits ==
  /\ Queued \subseteq plugged
  /\ volume_queue # <<>> => session_is_active /\ screensaver_active

\* Once everything is dispatched the manager knows whether the screen is
\* locked, however often the screensaver came and went
\* (csd-automount-manager.c:339-467).
KnowsLock ==
  inbox = <<>> /\ making = 0 /\ asking = 0 => screensaver_active = locked

\* "queue the volume, to mount it after the screensaver state changed"
\* (csd-automount-manager.c:208): an unlock mounts every volume that waits.
UnlockMounts ==
  [][(inbox # <<>> /\ Head(inbox) = ActiveChanged(FALSE) /\ inbox' = Tail(inbox))
       => Queued \subseteq asked_to_mount']_vars
=============================================================================
