----------------------------- MODULE PowerNotice -----------------------------
(***************************************************************************)
(* csd-power-manager.c: the notification that is shown for a low, critical *)
(* or empty battery, and the pointer by which the manager finds it again.  *)
(* Closing a notification is a request; the object goes when the server's  *)
(* NotificationClosed has been dispatched, and takes the pointer with it   *)
(* that was registered as weak.  The server and libnotify are external.    *)
(***************************************************************************)
EXTENDS Naturals, FiniteSets

CONSTANT MaxNotices  \* bound on the notifications of a run

None == 0
Notice == 1 .. MaxNotices  \* numbered as they are made

VARIABLES
  made,     \* how many notifications have been created
  current,  \* priv->notification_low
  alive,    \* NotifyNotification objects
  shown,    \* what the server shows
  closing   \* closed at the server, the signal not dispatched yet

vars == <<made, current, alive, shown, closing>>

-----------------------------------------------------------------------------
\* notify_close_if_showing: the server takes it off the screen at once.
Closes == IF current \in shown THEN {current} ELSE {}

\* create_notification, notify_notification_show; what could not be shown is
\* unreferenced, which clears the weak pointer.
Create(n, ok) ==
  /\ alive' = IF ok THEN alive \cup {n} ELSE alive
  /\ current' = IF ok THEN n ELSE None
  /\ shown' = (shown \ Closes) \cup (IF ok THEN {n} ELSE {})

\* A warning: engine_charge_low, _critical, _action.
Warn ==
  /\ made < MaxNotices
  /\ made' = made + 1
  /\ closing' = closing \cup Closes
  /\ \E ok \in BOOLEAN : Create(made', ok)

\* Charging, resumed or back on AC: "hiding notifications if any".
Hide ==
  /\ Closes # {}
  /\ shown' = shown \ Closes
  /\ closing' = closing \cup Closes
  /\ UNCHANGED <<made, current, alive>>

\* The user closes it, or it expires.
Dismiss(n) ==
  /\ n \in shown
  /\ shown' = shown \ {n}
  /\ closing' = closing \cup {n}
  /\ UNCHANGED <<made, current, alive>>

\* Mutation: not a weak pointer.
ClosedStrong(n) ==
  /\ n \in closing
  /\ closing' = closing \ {n}
  /\ alive' = alive \ {n}
  /\ UNCHANGED <<made, current, shown>>

\* on_notification_closed: the last reference goes, and whatever the location
\* of the weak pointer holds by now is cleared.
Closed(n) ==
  /\ n \in closing
  /\ closing' = closing \ {n}
  /\ alive' = alive \ {n}
  /\ current' = None
  /\ UNCHANGED <<made, shown>>

Init ==
  /\ made = 0
  /\ current = None
  /\ alive = {} /\ shown = {} /\ closing = {}

\* A daemon that has warned often enough rests.
Rest == made = MaxNotices /\ shown \cup closing = {} /\ UNCHANGED vars

Next ==
  \/ Warn
  \/ Hide
  \/ \E n \in Notice : Dismiss(n) \/ Closed(n)
  \/ Rest

Spec == Init /\ [][Next]_vars

-----------------------------------------------------------------------------
(* Properties.                                                             *)

\* The pointer never outlives the object it was set to, however requests to
\* close, signals of earlier ones and failures to show cross each other.
NoDangling == current # None => current \in alive

\* An object lives until its notification is closed, and no longer: nothing is
\* leaked on any path, and nothing is used after it is gone.
AliveAccounted == alive = shown \cup closing /\ shown \cap closing = {}
=============================================================================
