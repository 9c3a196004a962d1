------------------------------ MODULE PowerLid -------------------------------
(***************************************************************************)
(* csd-power-manager.c and logind: the lid.  The manager holds the         *)
(* handle-lid-switch lock while an external monitor is in use, and some    *)
(* seconds longer; and it decides by itself what closing the lid does.  A  *)
(* lid that is closed while an external monitor keeps the session going is *)
(* looked at again, until the machine can be suspended.                    *)
(***************************************************************************)
EXTENDS LogindLock, Sequences

CONSTANT Scenarios  \* what may happen together: sets of upsets

\* fault: Inhibit may fail; setting: the settings change; slow: a timer may
\* expire while a request to logind is under way; closed: the daemon may be
\* started with the lid closed.
AllUpsets == {"fault", "setting", "slow", "closed"}

VARIABLES
  lock,          \* the handle-lid-switch lock
  inbox,         \* replies of logind that are not delivered yet
  external,      \* an external monitor is in use
  seen,          \* the same, as far as priv->x11_screen knows
  doNothing,     \* "default-monitors-setup" is do-nothing
  always,        \* "lid-close-suspend-with-external-monitor"
  inhibitTimer,  \* priv->inhibit_lid_switch_timer_id
  lidClosed,     \* priv->lid_is_closed
  safetyTimer,   \* priv->lid_close_safety_timer_id
  acted,         \* history: the policy for a closed lid has been performed
  upsets         \* what may happen in this behaviour, chosen at its start

monitors == <<external, seen, doNothing, always>>
lid == <<lidClosed, safetyTimer, acted>>
vars == <<lock, inbox, monitors, inhibitTimer, lid, upsets>>

-----------------------------------------------------------------------------
(* The handle-lid-switch lock.                                             *)

SuspendOnLidClose(monitor) == ~monitor \/ doNothing

\* monitor: what the screen now says.  Restarting the timer only delays it.
OnRandrEvent(monitor) ==
  IF SuspendOnLidClose(monitor)
    THEN UNCHANGED <<lock, inhibitTimer>>
    ELSE lock' = Inhibit(lock) /\ inhibitTimer' = TRUE

MonitorChanges ==
  /\ external' = ~external
  /\ UNCHANGED <<lock, inbox, seen, doNothing, always, inhibitTimer, lid>>

RandrEvent ==
  /\ seen # external
  /\ seen' = external
  /\ OnRandrEvent(external)
  /\ UNCHANGED <<inbox, external, doNothing, always, lid>>

InTime == "slow" \in upsets \/ (lock.asked = 0 /\ inbox = <<>>)

\* "External monitor still there; trying again later" changes nothing.
InhibitLidSwitchTimer ==
  /\ inhibitTimer /\ InTime
  /\ SuspendOnLidClose(seen)
  /\ lock' = Uninhibit(lock)
  /\ inhibitTimer' = FALSE
  /\ UNCHANGED <<inbox, monitors, lid>>

AnswerInhibit ==
  /\ lock.asked > 0
  /\ \E ok \in IF "fault" \in upsets THEN BOOLEAN ELSE {TRUE} :
       /\ lock' = Answer(lock, ok)
       /\ inbox' = Append(inbox, IF ok THEN "granted" ELSE "refused")
  /\ UNCHANGED <<monitors, inhibitTimer, lid>>

InhibitLidSwitchDone ==
  /\ inbox # <<>>
  /\ lock' = InhibitDone(lock, Head(inbox) = "granted")
  /\ inbox' = Tail(inbox)
  /\ UNCHANGED <<monitors, inhibitTimer, lid>>

SettingChanges ==
  /\ "setting" \in upsets
  /\ \/ doNothing' = ~doNothing /\ UNCHANGED always
     \/ always' = ~always /\ UNCHANGED doNothing
  /\ UNCHANGED <<lock, inbox, external, seen, inhibitTimer, lid>>

-----------------------------------------------------------------------------
(* The lid.                                                                *)

\* Mutation: the screen is not refreshed.
DoLidClosedActionStale ==
  /\ IF always \/ ~seen
       THEN acted' = TRUE /\ safetyTimer' = FALSE
       ELSE safetyTimer' = TRUE /\ UNCHANGED acted
  /\ UNCHANGED <<lock, inbox, monitors, inhibitTimer>>

Policy ==
  IF always \/ ~external
    THEN acted' = TRUE /\ safetyTimer' = FALSE
    ELSE safetyTimer' = TRUE /\ UNCHANGED acted

\* "Refresh RANDR so we get an accurate view of what monitors are plugged in":
\* the refresh itself emits the signal if something has changed.
DoLidClosedAction ==
  /\ seen' = external
  /\ IF seen # external THEN OnRandrEvent(external) ELSE UNCHANGED <<lock, inhibitTimer>>
  /\ Policy
  /\ UNCHANGED <<inbox, external, doNothing, always>>

LidCloses ==
  /\ ~lidClosed
  /\ lidClosed' = TRUE
  /\ DoLidClosedAction

LidCloseSafetyTimer ==
  /\ safetyTimer
  /\ DoLidClosedAction
  /\ UNCHANGED lidClosed

LidOpens ==
  /\ lidClosed
  /\ lidClosed' = FALSE
  /\ safetyTimer' = FALSE
  /\ acted' = FALSE
  /\ UNCHANGED <<lock, inbox, monitors, inhibitTimer>>

-----------------------------------------------------------------------------
\* csd_power_manager_start takes the lock in any case.
Init ==
  /\ external \in BOOLEAN /\ seen = external
  /\ doNothing \in BOOLEAN /\ always \in BOOLEAN
  /\ upsets \in Scenarios
  /\ lock = Inhibit(NoLock)
  /\ inbox = <<>>
  /\ inhibitTimer = ~SuspendOnLidClose(seen)
  /\ lidClosed \in (IF "closed" \in upsets THEN BOOLEAN ELSE {FALSE})
  /\ safetyTimer = FALSE
  /\ acted = FALSE

Step ==
  \/ MonitorChanges
  \/ RandrEvent
  \/ InhibitLidSwitchTimer
  \/ AnswerInhibit
  \/ InhibitLidSwitchDone
  \/ SettingChanges
  \/ LidCloses
  \/ LidCloseSafetyTimer
  \/ LidOpens

Next == Step /\ UNCHANGED upsets

Spec == Init /\ [][Next]_vars

-----------------------------------------------------------------------------
(* Properties.                                                             *)

GrantedReplies == {i \in DOMAIN inbox : inbox[i] = "granted"}

\* No lid lock is leaked and there is never a second one, however monitors,
\* timers, refusals and replies follow each other.
LidLockAccounted ==
  /\ lock.held \in {0, 1}
  /\ lock.held = 1 <=> lock.fd \/ GrantedReplies # {}

\* "When a second monitor is plugged in, we take the handle-lid-switch
\* inhibitor lock": it is held, or asked for, as long as the monitor is there
\* and nothing is refused, changed or slow.
DockedKeepsLock ==
  upsets = {} /\ seen /\ ~doNothing => lock.held + lock.asked = 1

\* "So that the laptop won't overheat if placed in a backpack": once the lid is
\* closed and no external monitor in use, the policy is performed.
BackpackSuspends ==
  "closed" \notin upsets /\ lidClosed /\ ~external ~> acted \/ ~lidClosed \/ external
=============================================================================
