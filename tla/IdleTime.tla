------------------------------- MODULE IdleTime -------------------------------
(***************************************************************************)
(* gpm-idletime.c: alarms on the X server's IDLETIME counter, and the one  *)
(* "reset" alarm (id 0) that tells the daemon that the user came back.     *)
(*                                                                         *)
(* Two processes share the state.  The X server advances the counter, sets *)
(* it back to 0 on input, and queues AlarmNotify events.  The client (the  *)
(* daemon's main loop) dispatches the events in order, and when the first  *)
(* alarm of an idle period goes off it arms the reset alarm and then asks  *)
(* the server for the counter once more: that round trip is where input    *)
(* can slip in.                                                            *)
(***************************************************************************)
EXTENDS Integers, Sequences, FiniteSets

CONSTANTS
  Alarm,      \* ids of the user's alarms (dim, blank, sleep), all nonzero
  Timeouts,   \* the timeouts an alarm may be given, in counter units
  MaxIdle,    \* bound: the counter stops growing here
  MaxQueue,   \* bound on undelivered AlarmNotify events
  Prompt      \* TRUE: the client drains its queue between counter units

Reset == "reset"   \* alarm id 0
Stale == "stale"   \* an event whose XSyncAlarm has been destroyed since
Off   == -1        \* no XSyncAlarm (None)

ASSUME AlarmAssumption ==
  IsFiniteSet(Alarm) /\ Reset \notin Alarm /\ Stale \notin Alarm
ASSUME BoundAssumption == MaxIdle \in Nat /\ MaxQueue \in Nat
ASSUME TimeoutAssumption ==
  Timeouts \subseteq Nat /\ \A t \in Timeouts : t > 1
ASSUME PromptAssumption == Prompt \in BOOLEAN

VARIABLES
  idle,       \* the IDLETIME counter of the X server
  timeout,    \* [Alarm -> wait value]; 0 when the alarm is not in the array
  resetAt,    \* wait value of the reset alarm on the server, or Off
  resetSet,   \* priv->reset_set
  queue,      \* AlarmNotify events sent by the server, not dispatched yet
  checking,   \* reset alarm just armed, counter not yet queried
  expired     \* alarms signalled by "alarm-expired" since the last "reset"

vars == <<idle, timeout, resetAt, resetSet, queue, checking, expired>>
client == <<timeout, resetAt, resetSet, checking, expired>>

Event == [alarm : Alarm \cup {Reset, Stale}, value : 0 .. MaxIdle]

\* The variables have their types: in particular the reset alarm is armed at a
\* value the counter can have, or not at all (gpm-idletime.c:42-63).
TypeOK ==
  /\ idle \in 0 .. MaxIdle
  /\ timeout \in [Alarm -> {0} \cup Timeouts]
  /\ resetAt \in {Off} \cup 0 .. MaxIdle
  /\ resetSet \in BOOLEAN
  /\ queue \in Seq(Event)
  /\ checking \in BOOLEAN
  /\ expired \subseteq Alarm

-----------------------------------------------------------------------------
(* The X server.  A positive transition alarm fires when the counter       *)
(* reaches its wait value from below, a negative one when it falls from    *)
(* above the wait value to the wait value or below.                        *)

Due(c) == {a \in Alarm : timeout[a] = c}

Orders(S) ==
  {s \in [1 .. Cardinality(S) -> S] : \A a \in S : \E i \in DOMAIN s : s[i] = a}

ClientKeepsUp == Prompt => queue = <<>> /\ ~checking

Tick ==
  /\ ClientKeepsUp
  /\ idle < MaxIdle
  /\ idle' = idle + 1
  /\ \E s \in Orders(Due(idle')) :
       queue' = queue \o [i \in DOMAIN s |-> [alarm |-> s[i], value |-> idle']]
  /\ Len(queue') <= MaxQueue
  /\ UNCHANGED client

ResetTriggered == resetAt # Off /\ idle > resetAt

Activity ==
  /\ idle # 0
  /\ idle' = 0
  /\ queue' = IF ResetTriggered
                THEN Append(queue, [alarm |-> Reset, value |-> 0])
                ELSE queue
  /\ Len(queue') <= MaxQueue
  /\ UNCHANGED client

-----------------------------------------------------------------------------
(* The client.                                                             *)

\* Events of a destroyed XSyncAlarm no longer match any alarm item.
Orphan(q, a) ==
  [i \in DOMAIN q |-> IF q[i].alarm = a THEN [q[i] EXCEPT !.alarm = Stale] ELSE q[i]]

AlarmSet(a, t) ==
  /\ ~checking
  /\ timeout' = [timeout EXCEPT ![a] = t]
  /\ UNCHANGED <<idle, resetAt, resetSet, queue, checking, expired>>

AlarmRemove(a) ==
  /\ ~checking
  /\ timeout' = [timeout EXCEPT ![a] = 0]
  /\ queue' = Orphan(queue, a)
  /\ UNCHANGED <<idle, resetAt, resetSet, checking, expired>>

\* Mutation: the reset alarm is destroyed but reset_set stays up.
StickyResetAll(q) ==
  \/ ~resetSet /\ queue' = q /\ UNCHANGED <<resetAt, resetSet, expired>>
  \/ /\ resetSet
     /\ resetAt' = Off
     /\ queue' = Orphan(q, Reset)
     /\ expired' = {}
     /\ UNCHANGED resetSet

\* Positive alarms are given the wait values they already have; the reset
\* alarm is destroyed and "reset" is emitted.  q: the events still queued.
ResetAll(q) ==
  \/ /\ ~resetSet
     /\ queue' = q
     /\ UNCHANGED <<resetAt, resetSet, expired>>
  \/ /\ resetSet
     /\ resetAt' = Off
     /\ queue' = Orphan(q, Reset)
     /\ expired' = {}
     /\ resetSet' = FALSE

DispatchStale ==
  /\ queue # <<>> /\ ~checking
  /\ Head(queue).alarm = Stale
  /\ queue' = Tail(queue)
  /\ UNCHANGED <<idle, client>>

DispatchReset ==
  /\ queue # <<>> /\ ~checking
  /\ Head(queue).alarm = Reset
  /\ ResetAll(Tail(queue))
  /\ UNCHANGED <<idle, timeout, checking>>

\* Mutation: armed at the current value instead of just below it.
LateSetResetAlarm(value) ==
  \/ resetSet /\ UNCHANGED <<resetAt, resetSet, checking>>
  \/ ~resetSet /\ resetAt' = value /\ resetSet' = TRUE /\ checking' = TRUE

SetResetAlarm(value) ==
  \/ resetSet /\ UNCHANGED <<resetAt, resetSet, checking>>
  \/ ~resetSet /\ resetAt' = value - 1 /\ resetSet' = TRUE /\ checking' = TRUE

DispatchAlarm ==
  /\ queue # <<>> /\ ~checking
  /\ Head(queue).alarm \in Alarm
  /\ expired' = expired \cup {Head(queue).alarm}
  /\ SetResetAlarm(Head(queue).value)
  /\ queue' = Tail(queue)
  /\ UNCHANGED <<idle, timeout>>

\* Mutation: no second look at the counter.
BlindQueryCounter ==
  /\ checking
  /\ checking' = FALSE
  /\ UNCHANGED <<idle, timeout, resetAt, resetSet, queue, expired>>

\* "We've missed the alarm already": the second half of set_reset_alarm.
QueryCounter ==
  /\ checking
  /\ checking' = FALSE
  /\ \/ idle < resetAt /\ ResetAll(queue)
     \/ idle >= resetAt /\ UNCHANGED <<resetAt, resetSet, queue, expired>>
  /\ UNCHANGED <<idle, timeout>>

-----------------------------------------------------------------------------
Init ==
  /\ idle \in 0 .. MaxIdle
  /\ timeout = [a \in Alarm |-> 0]
  /\ resetAt = Off
  /\ resetSet = FALSE
  /\ queue = <<>>
  /\ checking = FALSE
  /\ expired = {}

Next ==
  \/ Tick
  \/ Activity
  \/ \E a \in Alarm, t \in Timeouts : AlarmSet(a, t)
  \/ \E a \in Alarm : AlarmRemove(a)
  \/ DispatchStale
  \/ DispatchReset
  \/ DispatchAlarm
  \/ QueryCounter

Spec == Init /\ [][Next]_vars

\* The main loop keeps dispatching X events; nothing is owed by the user.
FairSpec ==
  /\ Spec
  /\ WF_vars(DispatchStale \/ DispatchReset \/ DispatchAlarm)
  /\ WF_vars(QueryCounter)

-----------------------------------------------------------------------------
(* Properties.                                                             *)

ResetPending == \E i \in DOMAIN queue : queue[i].alarm = Reset

\* Once an alarm has been signalled the owner of the alarms is in a power
\* saving mode that only "reset" ends: so as long as one is outstanding,
\* reset_set is up and the reset alarm exists on the server.
IdleHasReset ==
  /\ expired # {} => resetSet
  /\ resetSet <=> resetAt # Off

\* gpm_idletime_set_reset_alarm: "set the reset alarm to fire the next time
\* idle_counter < the current counter value".  When the client is done with
\* arming, either the reset event is on its way or the counter stands above
\* the wait value, so that the user's next input fires the alarm.
NextInputResets ==
  resetSet /\ ~checking => ResetPending \/ idle > resetAt

\* Input during an idle period ends it: after the counter went back to 0 the
\* "reset" signal is emitted, whatever alarms were in flight meanwhile.
InputEndsIdle == (idle = 0) ~> (expired = {})
=============================================================================
