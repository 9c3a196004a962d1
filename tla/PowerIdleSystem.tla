-------------------------- MODULE PowerIdleSystem ---------------------------
(***************************************************************************)
(* The power manager as the client of its idle-time alarms: idle_configure *)
(* sets the dim, blank and sleep alarms from the settings, the alarms move *)
(* the idle mode, "reset" and an inactive session move it back.            *)
(*                                                                         *)
(* Composes IdleTime (the X server, the alarms, the reset alarm) with the  *)
(* mode machine of PowerIdle, of which only the mode is kept.  Between     *)
(* reading the idle time and setting an alarm from it the manager makes    *)
(* blocking D-Bus calls; the server's counter goes on meanwhile.           *)
(***************************************************************************)
EXTENDS Integers, Sequences, FiniteSets

CONSTANTS
  Settings,   \* [Alarm -> seconds]: the timeouts that can be configured
  Fade,       \* SCREENSAVER_FADE_TIME
  GiveUp,     \* 86400 s: timeouts from here on are not doubled any more
  MaxIdle,    \* bound on the idle counter
  MaxQueue,   \* bound on undelivered AlarmNotify events
  Prompt,     \* TRUE: the main loop keeps up with the counter
  Delay       \* seconds that may pass between reading and using the idle time

Alarm == {"dim", "blank", "sleep"}

ASSUME SettingsAssumption == Settings \subseteq [Alarm -> Nat]
ASSUME TimeAssumption == Fade \in Nat /\ GiveUp \in Nat \ {0, 1} /\ Delay \in Nat
ASSUME BoundAssumption == MaxIdle \in Nat /\ MaxQueue \in Nat /\ Prompt \in BOOLEAN

\* Mutation: the timeout is used as it is configured.
IdleAdjustTimeoutNot(t, now) == t

\* "Double timeout until it's larger than current idle time", with a margin
\* of 2 s; give up for ultra slow machines.
IdleAdjustTimeout(t, now) ==
  LET f[u \in Nat] == IF u < now + 2 /\ u < GiveUp /\ u > 0 THEN f[2 * u] ELSE u
  IN f[t]

\* The timeouts that idle_configure can ask for: the blank alarm waits for the
\* fade of the screensaver as well.
Configured == {s[a] : s \in Settings, a \in Alarm} \ {0}

Timeouts == {IdleAdjustTimeout(t, now) :
               t \in Configured \cup {c + Fade : c \in Configured}, now \in 0 .. MaxIdle}

VARIABLES
  idle, timeout, resetAt, resetSet, queue, checking, expired,  \* see IdleTime
  mode,       \* priv->current_idle_mode
  active,     \* the session is the active one of the seat
  inhibited,  \* the session manager holds an inhibitor against idle
  notify,     \* its InhibitorAdded/Removed signal is not delivered yet
  plan,       \* alarms that idle_configure is about to set, with timeouts
  dimDue,     \* refresh_idle_dim_settings is about to run
  seen        \* the idle time that was read for plan

IT == INSTANCE IdleTime

alarms == <<idle, timeout, resetAt, resetSet, queue, checking, expired>>
manager == <<mode, active, inhibited, notify, plan, dimDue, seen>>
vars == <<alarms, manager>>

NORMAL == 0
DIM    == 1
BLANK  == 2
SLEEP  == 3

\* The variables have their types (csd-power-manager.c:180-240).
TypeOK ==
  /\ IT!TypeOK
  /\ mode \in NORMAL .. SLEEP
  /\ active \in BOOLEAN /\ inhibited \in BOOLEAN /\ notify \in BOOLEAN
  /\ dimDue \in BOOLEAN
  /\ plan \in Seq([alarm : Alarm, timeout : {0} \cup Timeouts])
  /\ seen \in 0 .. MaxIdle

-----------------------------------------------------------------------------
(* The mode machine (see PowerIdle).                                       *)

IdleSetMode(m, act) ==
  mode' = IF act /\ (m > mode \/ m = NORMAL) THEN m ELSE mode

ModeOf(a) == CASE a = "dim" -> DIM [] a = "blank" -> BLANK [] a = "sleep" -> SLEEP

Busy == plan # <<>> \/ dimDue

\* The counter advances; a main loop that keeps up is not more than Delay
\* behind the idle time it has read.
Tick ==
  /\ Prompt /\ plan # <<>> => idle - seen < Delay
  /\ IT!Tick
  /\ UNCHANGED manager

Activity == IT!Activity /\ UNCHANGED manager

DispatchStale == ~Busy /\ IT!DispatchStale /\ UNCHANGED manager

\* idle_idletime_alarm_expired_cb
DispatchAlarm ==
  /\ ~Busy
  /\ IT!DispatchAlarm
  /\ IdleSetMode(ModeOf(Head(queue).alarm), active)
  /\ UNCHANGED <<active, inhibited, notify, plan, dimDue, seen>>

\* Mutation: "reset" only leaves the dim mode.
ResetCbDimOnly == IF resetSet /\ ~resetSet' /\ mode = DIM THEN mode' = NORMAL
                  ELSE UNCHANGED mode

\* idle_idletime_reset_cb, if gpm_idletime_alarm_reset_all emits "reset".
ResetCb == IF resetSet /\ ~resetSet' THEN IdleSetMode(NORMAL, active)
           ELSE UNCHANGED mode

DispatchReset ==
  /\ ~Busy
  /\ IT!DispatchReset
  /\ ResetCb
  /\ UNCHANGED <<active, inhibited, notify, plan, dimDue, seen>>

QueryCounter ==
  /\ IT!QueryCounter
  /\ ResetCb
  /\ UNCHANGED <<active, inhibited, notify, plan, dimDue, seen>>

-----------------------------------------------------------------------------
(* idle_configure.                                                         *)

Free == ~Busy /\ ~checking

Entry(a, t) == [alarm |-> a, timeout |-> t]

\* No timeout: the alarm is removed.
Planned(s, a, extra) ==
  Entry(a, IF s[a] = 0 THEN 0 ELSE IdleAdjustTimeout(s[a] + extra, idle))

IdleConfigure ==
  /\ Free
  /\ IF inhibited
       THEN /\ IdleSetMode(NORMAL, active)
            /\ plan' = <<Entry("blank", 0), Entry("sleep", 0)>>
       ELSE /\ UNCHANGED mode
            /\ \E s \in Settings, sleepInhibited \in BOOLEAN :
                 plan' = << Planned(s, "blank", Fade),
                            IF sleepInhibited THEN Entry("sleep", 0)
                            ELSE Planned(s, "sleep", 0) >>
  /\ seen' = idle
  /\ dimDue' = TRUE
  /\ notify' = FALSE
  /\ UNCHANGED <<alarms, active, inhibited>>

\* The "idle-dim-time" key changed.
RefreshIdleDimSettings ==
  /\ Free
  /\ dimDue' = TRUE
  /\ UNCHANGED <<alarms, mode, active, inhibited, notify, plan, seen>>

IdleSetTimeoutDim ==
  /\ dimDue /\ plan = <<>>
  /\ dimDue' = FALSE
  /\ seen' = idle
  /\ IF inhibited
       THEN IdleSetMode(NORMAL, active) /\ plan' = <<Entry("dim", 0)>>
       ELSE UNCHANGED mode /\ \E s \in Settings : plan' = <<Planned(s, "dim", 0)>>
  /\ UNCHANGED <<alarms, active, inhibited, notify>>

\* Mutation: the item is freed, its XSyncAlarm is not destroyed.
ApplyPlanLeaky ==
  /\ plan # <<>>
  /\ timeout' = [timeout EXCEPT ![Head(plan).alarm] = Head(plan).timeout]
  /\ plan' = Tail(plan)
  /\ UNCHANGED <<idle, resetAt, resetSet, queue, checking, expired>>
  /\ UNCHANGED <<mode, active, inhibited, notify, dimDue, seen>>

ApplyPlan ==
  /\ plan # <<>>
  /\ LET e == Head(plan) IN
       IF e.timeout = 0 THEN IT!AlarmRemove(e.alarm) ELSE IT!AlarmSet(e.alarm, e.timeout)
  /\ plan' = Tail(plan)
  /\ UNCHANGED <<mode, active, inhibited, notify, dimDue, seen>>

-----------------------------------------------------------------------------
(* The session manager and the seat.                                       *)

InhibitorChanged ==
  /\ inhibited' = ~inhibited
  /\ notify' = TRUE
  /\ UNCHANGED <<alarms, mode, active, plan, dimDue, seen>>

\* Mutation: the mode is left as it is.
SessionActiveChangedQuiet ==
  /\ Free
  /\ active' = ~active
  /\ UNCHANGED mode
  /\ UNCHANGED <<alarms, inhibited, notify, plan, dimDue, seen>>

SessionActiveChanged ==
  /\ Free
  /\ active' = ~active
  /\ IdleSetMode(NORMAL, active')
  /\ UNCHANGED <<alarms, inhibited, notify, plan, dimDue, seen>>

-----------------------------------------------------------------------------
Init ==
  /\ IT!Init
  /\ mode = NORMAL
  /\ active \in BOOLEAN
  /\ inhibited = FALSE
  /\ notify = FALSE
  /\ plan = <<>>
  /\ dimDue = FALSE
  /\ seen = 0

Client == DispatchStale \/ DispatchAlarm \/ DispatchReset
Configuring == IdleSetTimeoutDim \/ ApplyPlan

Next ==
  \/ Tick
  \/ Activity
  \/ DispatchStale
  \/ DispatchAlarm
  \/ DispatchReset
  \/ QueryCounter
  \/ IdleConfigure
  \/ RefreshIdleDimSettings
  \/ IdleSetTimeoutDim
  \/ ApplyPlan
  \/ InhibitorChanged
  \/ SessionActiveChanged

Spec == Init /\ [][Next]_vars

\* The daemon's single main loop: a handler that has started finishes, and X
\* events do not starve.
FairSpec ==
  /\ Spec
  /\ WF_vars(Configuring)
  /\ WF_vars(QueryCounter)
  /\ SF_vars(Client)

-----------------------------------------------------------------------------
(* Properties.                                                             *)

\* The composition only does to the alarms what IdleTime allows.
IdleTimeSpec == IT!Spec

\* An active session that is in an idle mode has a way out of it: "reset" is
\* still to be emitted.  Modes, alarms, inhibitors and user switching are all
\* changed by different callbacks.
NotStuck == active /\ mode # NORMAL => resetSet

\* "So the idle timeout will fire as designed": an alarm that is set lies
\* ahead of the idle counter, or has gone off in this idle period.
AlarmsAhead ==
  \A a \in Alarm :
    \/ timeout[a] = 0
    \/ timeout[a] > idle
    \/ timeout[a] >= GiveUp
    \/ a \in expired
    \/ \E i \in DOMAIN queue : queue[i].alarm = a

\* Once the manager has heard of an inhibitor, no alarm is left that could dim,
\* blank or suspend the session.
InhibitorHonoured ==
  inhibited /\ ~notify /\ ~Busy =>
    /\ \A a \in Alarm : timeout[a] = 0
    /\ active => mode = NORMAL

\* The alarms are as planned: without an inhibitor they lie ahead
\* (csd-power-manager.c:3323-3341), with one none is left.
AlarmsAccounted == AlarmsAhead /\ InhibitorHonoured

\* When the user comes back the session leaves the idle modes.
UserIsBack == idle = 0 ~> mode = NORMAL \/ ~active
=============================================================================
