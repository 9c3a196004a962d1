--------------------------- MODULE IdleTimeProofs ---------------------------
(***************************************************************************)
(* Proofs about IdleTime, for any set of alarms, any timeouts and any      *)
(* bounds.  IInv strengthens the two safety invariants with what they need *)
(* of the events in flight: an alarm event carries the timeout it fired at *)
(* and, when the client keeps up, no more than one input happened since.   *)
(***************************************************************************)
EXTENDS IdleTime, FiniteSetTheorems, TLAPS

AlarmEvent(i) == i \in DOMAIN queue /\ queue[i].alarm \in Alarm

EventsInv == \A i : AlarmEvent(i) => queue[i].value > 1

ResetInv ==
  /\ resetSet <=> resetAt # Off
  /\ expired # {} => resetSet
  /\ checking => resetSet

PromptInv ==
  Prompt =>
    /\ \A i : AlarmEvent(i) => idle = queue[i].value \/ idle = 0
    /\ checking => resetAt > 0 /\ (idle = resetAt + 1 \/ idle = 0)
    /\ resetSet /\ ~checking => ResetPending \/ idle > resetAt

IInv == TypeOK /\ EventsInv /\ ResetInv /\ PromptInv

\* What Orphan does to a queue: same length, same values, and the events of
\* every other alarm untouched.
LEMMA OrphanProps ==
  ASSUME NEW q \in Seq(Event), NEW a \in Alarm \cup {Reset}
  PROVE  /\ Orphan(q, a) \in Seq(Event)
         /\ DOMAIN Orphan(q, a) = DOMAIN q
         /\ \A i \in DOMAIN q : Orphan(q, a)[i].value = q[i].value
         /\ \A i \in DOMAIN q :
              Orphan(q, a)[i].alarm = IF q[i].alarm = a THEN Stale ELSE q[i].alarm
  <1>1. DOMAIN q = 1 .. Len(q) /\ Len(q) \in Nat
    OBVIOUS
  <1>2. \A i \in DOMAIN q : q[i] \in Event
    OBVIOUS
  <1>3. \A i \in DOMAIN q : [q[i] EXCEPT !.alarm = Stale] \in Event
    BY <1>2 DEF Event
  <1>4. Orphan(q, a) \in [1 .. Len(q) -> Event]
    BY <1>1, <1>2, <1>3 DEF Orphan
  <1>5. Orphan(q, a) \in Seq(Event)
    BY <1>1, <1>4
  <1>6. \A i \in DOMAIN q :
          /\ Orphan(q, a)[i].value = q[i].value
          /\ Orphan(q, a)[i].alarm = IF q[i].alarm = a THEN Stale ELSE q[i].alarm
    BY <1>2 DEF Orphan, Event
  <1>7. QED
    BY <1>4, <1>5, <1>6, <1>1

\* The events of one counter unit form a finite sequence of alarm events that
\* all carry the value the counter has just reached.
LEMMA TickEvents ==
  ASSUME TypeOK, NEW c \in 0 .. MaxIdle, NEW s \in Orders(Due(c)), c > 0
  PROVE  LET e == [i \in DOMAIN s |-> [alarm |-> s[i], value |-> c]] IN
         /\ e \in Seq(Event)
         /\ \A i \in DOMAIN e : e[i].alarm \in Alarm /\ e[i].value = c
         /\ DOMAIN e # {} => c > 1
  <1>1. IsFiniteSet(Due(c)) /\ Due(c) \subseteq Alarm
    BY AlarmAssumption, FS_Subset DEF Due
  <1>2. Cardinality(Due(c)) \in Nat
    BY <1>1, FS_CardinalityType
  <1>3. s \in [1 .. Cardinality(Due(c)) -> Due(c)]
    BY DEF Orders
  <1> DEFINE e == [i \in DOMAIN s |-> [alarm |-> s[i], value |-> c]]
  <1>4. e \in [1 .. Cardinality(Due(c)) -> Event]
    BY <1>1, <1>3 DEF Event
  <1>5. e \in Seq(Event)
    BY <1>2, <1>4
  <1>6. \A i \in DOMAIN e : e[i].alarm \in Alarm /\ e[i].value = c
    BY <1>1, <1>3
  <1>7. ASSUME DOMAIN e # {} PROVE c > 1
    <2>1. PICK i \in DOMAIN s : s[i] \in Due(c)
      BY <1>3, <1>7
    <2>2. timeout[s[i]] = c /\ s[i] \in Alarm
      BY <2>1 DEF Due
    <2>3. QED
      BY <2>2, TimeoutAssumption DEF TypeOK
  <1>8. QED
    BY <1>5, <1>6, <1>7

\* No alarm is set and nothing is queued when the daemon starts.
LEMMA InitIInv == Init => IInv
  <1> SUFFICES ASSUME Init PROVE IInv
    OBVIOUS
  <1>1. TypeOK
    <2>1. timeout \in [Alarm -> {0} \cup Timeouts]
      BY DEF Init
    <2>2. queue \in Seq(Event)
      BY DEF Init
    <2>3. QED
      BY <2>1, <2>2, BoundAssumption DEF Init, TypeOK, Off
  <1>2. EventsInv /\ ResetInv /\ PromptInv
    BY DEF Init, EventsInv, ResetInv, PromptInv, AlarmEvent, Off
  <1>3. QED
    BY <1>1, <1>2 DEF IInv

\* The counter advances, and alarms may go off.
LEMMA TickIInv == IInv /\ Tick => IInv'
  <1> SUFFICES ASSUME IInv, Tick PROVE IInv'
    OBVIOUS
  <1> USE DEF IInv
  <1>1. idle' \in 0 .. MaxIdle /\ idle' > 0 /\ idle' = idle + 1
    BY BoundAssumption DEF Tick, TypeOK
  <1>2. PICK s \in Orders(Due(idle')) :
          queue' = queue \o [i \in DOMAIN s |-> [alarm |-> s[i], value |-> idle']]
    BY DEF Tick
  <1> DEFINE e == [i \in DOMAIN s |-> [alarm |-> s[i], value |-> idle']]
  <1>3. /\ e \in Seq(Event)
        /\ \A i \in DOMAIN e : e[i].alarm \in Alarm /\ e[i].value = idle'
        /\ DOMAIN e # {} => idle' > 1
    BY <1>1, TickEvents
  <1>4. queue' = queue \o e /\ queue \in Seq(Event)
    BY <1>2 DEF TypeOK
  <1> HIDE DEF e
  <1>5. queue' \in Seq(Event)
    BY <1>3, <1>4
  <1>6. TypeOK'
    BY <1>1, <1>5 DEF Tick, client, TypeOK
  <1>7. \A i \in DOMAIN queue' :
          \/ i \in DOMAIN queue /\ queue'[i] = queue[i]
          \/ i - Len(queue) \in DOMAIN e /\ queue'[i] = e[i - Len(queue)]
    BY <1>3, <1>4
  <1>8. EventsInv'
    BY <1>3, <1>7 DEF EventsInv, AlarmEvent
  <1>9. ResetInv'
    BY DEF ResetInv, Tick, client
  <1>10. PromptInv'
    <2> SUFFICES ASSUME Prompt PROVE PromptInv'
      BY DEF PromptInv, Tick
    <2>1. queue = <<>> /\ ~checking
      BY DEF Tick, ClientKeepsUp
    <2>2. \A i : AlarmEvent(i)' => idle' = queue'[i].value
      BY <1>3, <1>7, <2>1 DEF AlarmEvent
    <2>3. ~ResetPending
      BY <2>1 DEF ResetPending
    <2>4. resetSet => idle > resetAt
      BY <2>1, <2>3 DEF PromptInv
    <2>5. resetSet' => idle' > resetAt'
      BY <2>4, <1>1 DEF Tick, client, TypeOK, Off
    <2>6. ~checking'
      BY <2>1 DEF Tick, client
    <2>7. QED
      BY <2>2, <2>5, <2>6 DEF PromptInv
  <1>11. QED
    BY <1>6, <1>8, <1>9, <1>10

\* Input sets the counter back, and may fire the reset alarm.
LEMMA ActivityIInv == IInv /\ Activity => IInv'
  <1> SUFFICES ASSUME IInv, Activity PROVE IInv'
    OBVIOUS
  <1> USE DEF IInv
  <1> DEFINE r == [alarm |-> Reset, value |-> 0]
  <1>1. r \in Event
    BY BoundAssumption DEF Event
  <1>2. queue \in Seq(Event) /\ UNCHANGED client /\ idle' = 0
    BY DEF TypeOK, Activity
  <1>3. queue' = IF ResetTriggered THEN Append(queue, r) ELSE queue
    BY DEF Activity
  <1> HIDE DEF r
  <1>4. TypeOK'
    BY <1>1, <1>2, <1>3, BoundAssumption DEF client, TypeOK
  <1>5. \A i \in DOMAIN queue' :
          \/ i \in DOMAIN queue /\ queue'[i] = queue[i]
          \/ queue'[i] = r
    BY <1>1, <1>2, <1>3
  <1>6. \A i \in DOMAIN queue : i \in DOMAIN queue' /\ queue'[i] = queue[i]
    BY <1>1, <1>2, <1>3
  <1>7. r.alarm = Reset /\ r.alarm \notin Alarm
    BY AlarmAssumption DEF r
  <1>8. EventsInv'
    BY <1>5, <1>7 DEF EventsInv, AlarmEvent
  <1>9. ResetInv'
    BY <1>2 DEF ResetInv, client
  <1>10. PromptInv'
    <2> SUFFICES ASSUME Prompt PROVE PromptInv'
      BY DEF PromptInv
    <2>1. checking' => resetAt' > 0
      BY <1>2 DEF PromptInv, client
    <2>2. ASSUME resetSet', ~checking' PROVE ResetPending'
      <3>1. CASE ResetPending
        BY <3>1, <1>6 DEF ResetPending
      <3>2. CASE idle > resetAt
        <4>1. queue' = Append(queue, r)
          BY <3>2, <2>2, <1>2, <1>3 DEF ResetInv, ResetTriggered, client
        <4>2. Len(queue) + 1 \in DOMAIN queue' /\ queue'[Len(queue) + 1] = r
          BY <4>1, <1>1, <1>2
        <4>3. QED
          BY <4>2, <1>7 DEF ResetPending
      <3>3. QED
        BY <3>1, <3>2, <2>2, <1>2 DEF PromptInv, client
    <2>3. QED
      BY <2>1, <2>2, <1>2 DEF PromptInv
  <1>11. QED
    BY <1>4, <1>8, <1>9, <1>10

\* An alarm is set: the events that are queued stay.
LEMMA AlarmSetIInv ==
  ASSUME IInv, NEW a \in Alarm, NEW t \in Timeouts, AlarmSet(a, t)
  PROVE  IInv'
  <1> USE DEF IInv
  <1>1. TypeOK'
    BY DEF AlarmSet, TypeOK
  <1>2. EventsInv' /\ ResetInv'
    BY DEF AlarmSet, EventsInv, ResetInv, AlarmEvent
  <1>3. PromptInv'
    BY DEF AlarmSet, PromptInv, AlarmEvent, ResetPending
  <1>4. QED
    BY <1>1, <1>2, <1>3

\* An alarm is removed: its events become stale.
LEMMA AlarmRemoveIInv ==
  ASSUME IInv, NEW a \in Alarm, AlarmRemove(a)
  PROVE  IInv'
  <1> USE DEF IInv
  <1>1. queue \in Seq(Event) /\ queue' = Orphan(queue, a)
    BY DEF TypeOK, AlarmRemove
  <1>2. /\ queue' \in Seq(Event)
        /\ DOMAIN queue' = DOMAIN queue
        /\ \A i \in DOMAIN queue : queue'[i].value = queue[i].value
        /\ \A i \in DOMAIN queue :
             queue'[i].alarm = IF queue[i].alarm = a THEN Stale ELSE queue[i].alarm
    BY <1>1, OrphanProps
  <1>3. \A i : AlarmEvent(i)' => AlarmEvent(i) /\ queue'[i].value = queue[i].value
    BY <1>2, AlarmAssumption DEF AlarmEvent
  <1>4. ResetPending => ResetPending'
    BY <1>2, AlarmAssumption DEF ResetPending
  <1>5. TypeOK'
    BY <1>2 DEF AlarmRemove, TypeOK
  <1>6. EventsInv'
    BY <1>3 DEF EventsInv
  <1>7. ResetInv'
    BY DEF AlarmRemove, ResetInv
  <1>8. PromptInv'
    BY <1>3, <1>4 DEF AlarmRemove, PromptInv
  <1>9. QED
    BY <1>5, <1>6, <1>7, <1>8

\* Emitting "reset" from any point where no arming is under way afterwards.
\* q is the queue left: the events of the current one without, at most, its
\* head, and a reset event at that head only if reset_set goes down.
LEMMA ResetAllIInv ==
  ASSUME IInv, NEW q \in Seq(Event), ResetAll(q),
         UNCHANGED <<idle, timeout>>, checking' = FALSE,
         \A i \in DOMAIN q : q[i].alarm \in Alarm =>
           \E j : AlarmEvent(j) /\ queue[j].value = q[i].value
  PROVE  IInv'
  <1> USE DEF IInv
  <1>1. CASE ~resetSet
    <2>1. queue' = q /\ UNCHANGED <<resetAt, resetSet, expired>>
      BY <1>1 DEF ResetAll
    <2>2. \A i : AlarmEvent(i)' =>
            \E j : AlarmEvent(j) /\ queue[j].value = queue'[i].value
      BY <2>1 DEF AlarmEvent
    <2>3. TypeOK'
      BY <2>1 DEF TypeOK
    <2>4. EventsInv'
      BY <2>2 DEF EventsInv
    <2>5. ResetInv'
      BY <1>1, <2>1 DEF ResetInv
    <2>6. PromptInv'
      BY <1>1, <2>1, <2>2 DEF PromptInv
    <2>7. QED
      BY <2>3, <2>4, <2>5, <2>6
  <1>2. CASE resetSet
    <2>1. queue' = Orphan(q, Reset) /\ resetAt' = Off /\ ~resetSet' /\ expired' = {}
          /\ resetSet' = FALSE
      BY <1>2 DEF ResetAll
    <2>2. /\ queue' \in Seq(Event)
          /\ DOMAIN queue' = DOMAIN q
          /\ \A i \in DOMAIN q : queue'[i].value = q[i].value
          /\ \A i \in DOMAIN q :
               queue'[i].alarm = IF q[i].alarm = Reset THEN Stale ELSE q[i].alarm
      BY <2>1, OrphanProps
    <2>3. \A i : AlarmEvent(i)' =>
            \E j : AlarmEvent(j) /\ queue[j].value = queue'[i].value
      BY <2>2, AlarmAssumption DEF AlarmEvent
    <2>4. TypeOK'
      BY <2>1, <2>2 DEF TypeOK
    <2>5. EventsInv'
      BY <2>3 DEF EventsInv
    <2>6. ResetInv'
      BY <2>1 DEF ResetInv
    <2>7. PromptInv'
      BY <2>1, <2>3 DEF PromptInv
    <2>8. QED
      BY <2>4, <2>5, <2>6, <2>7
  <1>3. QED
    BY <1>1, <1>2 DEF TypeOK

\* Taking the head off the queue.
LEMMA TailProps ==
  ASSUME queue \in Seq(Event), queue # <<>>
  PROVE  /\ Tail(queue) \in Seq(Event)
         /\ \A i \in DOMAIN Tail(queue) :
              i + 1 \in DOMAIN queue /\ Tail(queue)[i] = queue[i + 1]
         /\ \A i \in DOMAIN queue :
              i = 1 \/ (i - 1 \in DOMAIN Tail(queue) /\ Tail(queue)[i - 1] = queue[i])
         /\ 1 \in DOMAIN queue /\ Head(queue) = queue[1] /\ Head(queue) \in Event
  OBVIOUS

\* A stale event is passed over.
LEMMA DispatchStaleIInv == IInv /\ DispatchStale => IInv'
  <1> SUFFICES ASSUME IInv, DispatchStale PROVE IInv'
    OBVIOUS
  <1> USE DEF IInv
  <1>1. queue \in Seq(Event) /\ queue # <<>> /\ queue' = Tail(queue)
    BY DEF TypeOK, DispatchStale
  <1>2. /\ queue' \in Seq(Event)
        /\ \A i \in DOMAIN queue' : i + 1 \in DOMAIN queue /\ queue'[i] = queue[i + 1]
        /\ \A i \in DOMAIN queue :
             i = 1 \/ (i - 1 \in DOMAIN queue' /\ queue'[i - 1] = queue[i])
        /\ queue[1].alarm = Stale
    BY <1>1, TailProps DEF DispatchStale
  <1>3. \A i : AlarmEvent(i)' => AlarmEvent(i + 1) /\ queue'[i] = queue[i + 1]
    BY <1>2 DEF AlarmEvent
  <1>4. ResetPending => ResetPending'
    BY <1>2 DEF ResetPending, Reset, Stale
  <1>5. TypeOK'
    BY <1>2 DEF TypeOK, DispatchStale, client
  <1>6. EventsInv'
    BY <1>3 DEF EventsInv
  <1>7. ResetInv'
    BY DEF ResetInv, DispatchStale, client
  <1>8. PromptInv'
    BY <1>3, <1>4 DEF PromptInv, DispatchStale, client
  <1>9. QED
    BY <1>5, <1>6, <1>7, <1>8

\* The reset event is dispatched.
LEMMA DispatchResetIInv == IInv /\ DispatchReset => IInv'
  <1> SUFFICES ASSUME IInv, DispatchReset PROVE IInv'
    OBVIOUS
  <1>1. queue \in Seq(Event) /\ queue # <<>>
    BY DEF TypeOK, DispatchReset, IInv
  <1>2. /\ Tail(queue) \in Seq(Event)
        /\ \A i \in DOMAIN Tail(queue) :
             i + 1 \in DOMAIN queue /\ Tail(queue)[i] = queue[i + 1]
    BY <1>1, TailProps
  <1>3. \A i \in DOMAIN Tail(queue) : Tail(queue)[i].alarm \in Alarm =>
          \E j : AlarmEvent(j) /\ queue[j].value = Tail(queue)[i].value
    BY <1>2 DEF AlarmEvent
  <1>4. checking' = FALSE /\ UNCHANGED <<idle, timeout>> /\ ResetAll(Tail(queue))
    BY DEF DispatchReset, IInv, TypeOK
  <1>5. QED
    BY <1>2, <1>3, <1>4, ResetAllIInv

\* An alarm event is dispatched, and the reset alarm armed just below it.
LEMMA DispatchAlarmIInv == IInv /\ DispatchAlarm => IInv'
  <1> SUFFICES ASSUME IInv, DispatchAlarm PROVE IInv'
    OBVIOUS
  <1> USE DEF IInv
  <1>1. queue \in Seq(Event) /\ queue # <<>> /\ queue' = Tail(queue)
    BY DEF TypeOK, DispatchAlarm
  <1>2. /\ queue' \in Seq(Event)
        /\ \A i \in DOMAIN queue' : i + 1 \in DOMAIN queue /\ queue'[i] = queue[i + 1]
        /\ \A i \in DOMAIN queue :
             i = 1 \/ (i - 1 \in DOMAIN queue' /\ queue'[i - 1] = queue[i])
        /\ Head(queue) = queue[1] /\ queue[1] \in Event /\ 1 \in DOMAIN queue
    BY <1>1, TailProps
  <1> DEFINE v == Head(queue).value
  <1>3. AlarmEvent(1) /\ v = queue[1].value
    BY <1>2 DEF DispatchAlarm, AlarmEvent
  <1>4. v \in 0 .. MaxIdle /\ v > 1
    BY <1>2, <1>3 DEF EventsInv, Event
  <1>5. SetResetAlarm(v) /\ UNCHANGED <<idle, timeout>> /\ checking = FALSE
        /\ expired' = expired \cup {Head(queue).alarm} /\ Head(queue).alarm \in Alarm
    BY DEF DispatchAlarm, TypeOK
  <1>6. Prompt => idle = v \/ idle = 0
    BY <1>3 DEF PromptInv
  <1>7. \A i : AlarmEvent(i)' => AlarmEvent(i + 1) /\ queue'[i] = queue[i + 1]
    BY <1>2 DEF AlarmEvent
  <1>8. EventsInv'
    BY <1>7 DEF EventsInv
  <1> HIDE DEF v
  <1>9. CASE resetSet
    <2>1. UNCHANGED <<resetAt, resetSet, checking>>
      BY <1>5, <1>9 DEF SetResetAlarm
    <2>2. TypeOK'
      BY <1>2, <1>5, <2>1 DEF TypeOK
    <2>3. ResetInv'
      BY <1>5, <1>9, <2>1 DEF ResetInv
    <2>4. ResetPending => ResetPending'
      BY <1>2, <1>3, AlarmAssumption DEF ResetPending, AlarmEvent
    <2>5. PromptInv'
      BY <1>5, <1>7, <2>1, <2>4 DEF PromptInv
    <2>6. QED
      BY <1>8, <2>2, <2>3, <2>5
  <1>10. CASE ~resetSet
    <2>1. resetAt' = v - 1 /\ resetSet' = TRUE /\ checking' = TRUE
      BY <1>5, <1>10 DEF SetResetAlarm
    <2>2. resetAt' \in 0 .. MaxIdle /\ resetAt' # Off /\ resetAt' > 0
          /\ v = resetAt' + 1
      BY <1>4, <2>1, BoundAssumption DEF Off
    <2>3. TypeOK'
      BY <1>2, <1>5, <2>1, <2>2 DEF TypeOK
    <2>4. ResetInv'
      BY <2>1, <2>2 DEF ResetInv
    <2>5. PromptInv'
      BY <1>5, <1>6, <1>7, <2>1, <2>2 DEF PromptInv
    <2>6. QED
      BY <1>8, <2>3, <2>4, <2>5
  <1>11. QED
    BY <1>9, <1>10

\* The second look at the counter: reset at once, or the alarm will fire.
LEMMA QueryCounterIInv == IInv /\ QueryCounter => IInv'
  <1> SUFFICES ASSUME IInv, QueryCounter PROVE IInv'
    OBVIOUS
  <1>1. UNCHANGED <<idle, timeout>> /\ checking = TRUE /\ checking' = FALSE
    BY DEF QueryCounter, IInv, TypeOK
  <1>2. CASE idle < resetAt /\ ResetAll(queue)
    <2>1. queue \in Seq(Event)
      BY DEF IInv, TypeOK
    <2>2. \A i \in DOMAIN queue : queue[i].alarm \in Alarm =>
            \E j : AlarmEvent(j) /\ queue[j].value = queue[i].value
      BY DEF AlarmEvent
    <2>3. QED
      BY <1>1, <1>2, <2>1, <2>2, ResetAllIInv
  <1>3. CASE idle >= resetAt /\ UNCHANGED <<resetAt, resetSet, queue, expired>>
    <2>1. TypeOK' /\ EventsInv' /\ ResetInv'
      BY <1>1, <1>3 DEF IInv, TypeOK, EventsInv, AlarmEvent, ResetInv
    <2>2. Prompt => idle > resetAt
      BY <1>1, <1>3 DEF IInv, PromptInv, TypeOK, Off
    <2>3. PromptInv'
      BY <1>1, <1>3, <2>2 DEF IInv, PromptInv, AlarmEvent, ResetPending
    <2>4. QED
      BY <2>1, <2>3 DEF IInv
  <1>4. QED
    BY <1>2, <1>3 DEF QueryCounter

\* IInv is inductive: every step of the server or of the client keeps it.
THEOREM Inductive == Spec => []IInv
  <1>1. Init => IInv
    BY InitIInv
  <1>2. IInv /\ [Next]_vars => IInv'
    <2> SUFFICES ASSUME IInv, [Next]_vars PROVE IInv'
      OBVIOUS
    <2>1. CASE Tick
      BY <2>1, TickIInv
    <2>2. CASE Activity
      BY <2>2, ActivityIInv
    <2>3. CASE \E a \in Alarm, t \in Timeouts : AlarmSet(a, t)
      BY <2>3, AlarmSetIInv
    <2>4. CASE \E a \in Alarm : AlarmRemove(a)
      BY <2>4, AlarmRemoveIInv
    <2>5. CASE DispatchStale
      BY <2>5, DispatchStaleIInv
    <2>6. CASE DispatchReset
      BY <2>6, DispatchResetIInv
    <2>7. CASE DispatchAlarm
      BY <2>7, DispatchAlarmIInv
    <2>8. CASE QueryCounter
      BY <2>8, QueryCounterIInv
    <2>9. CASE UNCHANGED vars
      BY <2>9 DEF vars, IInv, TypeOK, EventsInv, AlarmEvent, ResetInv, PromptInv,
                  ResetPending
    <2>10. QED
      BY <2>1, <2>2, <2>3, <2>4, <2>5, <2>6, <2>7, <2>8, <2>9 DEF Next
  <1>3. QED
    BY <1>1, <1>2, PTL DEF Spec

\* Type correctness, whatever the alarms, the timeouts and the bounds: in
\* particular the wait value of the reset alarm (value - 1) never is negative.
THEOREM TypeCorrect == Spec => []TypeOK
  <1>1. IInv => TypeOK
    BY DEF IInv
  <1>2. QED
    BY <1>1, Inductive, PTL

\* As long as an alarm has been signalled and "reset" has not, the reset alarm
\* exists on the server (gpm_idletime_set_reset_alarm runs before the signal
\* is emitted, gpm_idletime_alarm_reset_all undoes both).
THEOREM OutstandingAlarmHasReset == Spec => []IdleHasReset
  <1>1. IInv => IdleHasReset
    BY DEF IInv, ResetInv, IdleHasReset
  <1>2. QED
    BY <1>1, Inductive, PTL

\* When the main loop keeps up with the counter no input can fall between the
\* alarm and the arming of the reset alarm unnoticed: after the query either
\* the reset event is queued or the next input queues it.
THEOREM NoInputMissed == ASSUME Prompt PROVE Spec => []NextInputResets
  <1>1. IInv => NextInputResets
    BY DEF IInv, PromptInv, NextInputResets
  <1>2. QED
    BY <1>1, Inductive, PTL
=============================================================================
