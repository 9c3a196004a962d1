------------------------ MODULE PowerIdleSystemProofs ------------------------
(***************************************************************************)
(* The power manager and its alarms, for any settings, margins and bounds: *)
(*   - the manager only does to the alarms what IdleTime allows, so that   *)
(*     what IdleTimeProofs shows of the alarms holds in the composition;   *)
(*   - NotStuck: every callback that leaves the manager in an idle mode    *)
(*     either has just armed the reset alarm or found it armed, and every  *)
(*     callback that gives it up emits "reset", which an active session    *)
(*     answers with NORMAL;                                                *)
(*   - AlarmsAccounted, with a main loop that keeps up and handlers that   *)
(*     take no more than a second: the margin of 2 s that                  *)
(*     idle_adjust_timeout leaves is as large as it has to be.             *)
(***************************************************************************)
EXTENDS PowerIdleSystem, WellFoundedInduction, FiniteSetTheorems, TLAPS

ITP == INSTANCE IdleTimeProofs

-----------------------------------------------------------------------------
(* idle_adjust_timeout.                                                    *)

\* Every set of naturals that is not empty has a least element.
LEMMA Least ==
  ASSUME NEW T \in SUBSET Nat, T # {}
  PROVE  \E x \in T : \A y \in T : x <= y
  <1> DEFINE R == OpToRel(<, Nat)
  <1>1. IsWellFoundedOn(R, Nat)
    BY NatLessThanWellFounded
  <1>2. \A x, y \in Nat : x < y => <<x, y>> \in R
    BY DEF OpToRel
  <1> HIDE DEF R
  <1>3. PICK x \in T : \A y \in T : ~ (<<y, x>> \in R)
    BY <1>1, WFMin
  <1>4. \A y \in T : ~(y < x)
    BY <1>2, <1>3
  <1>5. QED
    BY <1>4

\* The doubling of the timeout terminates: its recursive definition has a
\* solution.  It is solved for the timeouts from now + 2 - n on, for every n.
LEMMA AdjustEquation ==
  ASSUME NEW now \in Nat
  PROVE  \A u \in Nat :
           IdleAdjustTimeout(u, now) =
             IF u < now + 2 /\ u < GiveUp /\ u > 0
               THEN IdleAdjustTimeout(2 * u, now) ELSE u
  <1> DEFINE Again(u) == u < now + 2 /\ u < GiveUp /\ u > 0
             From(n) == {u \in Nat : u >= now + 2 - n}
             Solves(g, n) == g = [u \in From(n) |-> IF Again(u) THEN g[2 * u] ELSE u]
             Unsolved == {n \in Nat : ~ \E g : Solves(g, n)}
  <1>1. Unsolved = {}
    <2> SUFFICES ASSUME Unsolved # {} PROVE FALSE
      OBVIOUS
    <2>1. PICK n \in Unsolved : \A m \in Unsolved : n <= m
      BY Least
    <2>0. n \in Nat
      OBVIOUS
    <2>2. CASE n = 0
      <3> DEFINE g == [u \in From(0) |-> u]
      <3>1. \A u \in From(0) : ~Again(u)
        BY TimeAssumption
      <3>2. Solves(g, 0)
        BY <3>1
      <3>3. QED
        BY <2>2, <3>2
    <2>3. CASE n # 0
      <3> HIDE DEF Unsolved
      <3>1. n - 1 \in Nat /\ n - 1 \notin Unsolved
        BY <2>0, <2>1, <2>3
      <3>2. PICK h : Solves(h, n - 1)
        BY <3>1 DEF Unsolved
      <3> DEFINE v == now + 2 - n
                 g == [u \in From(n) |-> IF u \in From(n - 1) THEN h[u]
                                         ELSE IF Again(u) THEN h[2 * u] ELSE u]
      <3>3. \A u \in From(n) : Again(u) => 2 * u \in From(n - 1)
        BY <2>0
      <3>4. \A u \in From(n - 1) : u \in From(n)
        BY <2>0
      <3>5. \A u \in From(n - 1) : h[u] = IF Again(u) THEN h[2 * u] ELSE u
        BY <3>2
      <3>6. \A u \in From(n) : g[u] = IF Again(u) THEN g[2 * u] ELSE u
        BY <3>3, <3>4, <3>5
      <3>7. g = [u \in From(n) |-> IF Again(u) THEN g[2 * u] ELSE u]
        BY <3>6
      <3>8. QED
        BY <3>7 DEF Unsolved
    <2>4. QED
      BY <2>2, <2>3
  <1>2. \E g : g = [u \in Nat |-> IF Again(u) THEN g[2 * u] ELSE u]
    <2>1. now + 2 \in Nat /\ now + 2 \notin Unsolved
      BY <1>1
    <2>2. PICK g : Solves(g, now + 2)
      BY <2>1
    <2>3. From(now + 2) = Nat
      OBVIOUS
    <2>4. QED
      BY <2>2, <2>3
  <1> DEFINE f == CHOOSE g : g = [u \in Nat |-> IF Again(u) THEN g[2 * u] ELSE u]
  <1>3. f = [u \in Nat |-> IF Again(u) THEN f[2 * u] ELSE u]
    BY <1>2
  <1>4. \A u : IdleAdjustTimeout(u, now) = f[u]
    BY DEF IdleAdjustTimeout
  <1> HIDE DEF f
  <1>5. ASSUME NEW u \in Nat PROVE f[u] = IF Again(u) THEN f[2 * u] ELSE u
    BY <1>3
  <1>6. QED
    BY <1>4, <1>5

\* What comes out lies ahead of the idle time with a margin of 2 s, or is so
\* long that idle_adjust_timeout gives up.
LEMMA AdjustLands ==
  ASSUME NEW now \in Nat, NEW t \in Nat \ {0}
  PROVE  /\ IdleAdjustTimeout(t, now) \in Nat \ {0, 1}
         /\ \/ IdleAdjustTimeout(t, now) >= now + 2
            \/ IdleAdjustTimeout(t, now) >= GiveUp
  <1> DEFINE Lands(u) == /\ IdleAdjustTimeout(u, now) \in Nat \ {0, 1}
                         /\ \/ IdleAdjustTimeout(u, now) >= now + 2
                            \/ IdleAdjustTimeout(u, now) >= GiveUp
             Short == {n \in 0 .. now + 1 : ~Lands(now + 2 - n)}
  <1>1. ASSUME NEW u \in Nat, u > 0, u >= now + 2 \/ u >= GiveUp
        PROVE  Lands(u)
    <2>1. IdleAdjustTimeout(u, now) = u
      BY <1>1, AdjustEquation, TimeAssumption
    <2>2. QED
      BY <1>1, <2>1, TimeAssumption
  <1>2. ASSUME NEW u \in Nat, u > 0, u < now + 2, u < GiveUp, Lands(2 * u)
        PROVE  Lands(u)
    BY <1>2, AdjustEquation
  <1> HIDE DEF Lands
  <1>3. Short = {}
    <2> SUFFICES ASSUME Short # {} PROVE FALSE
      OBVIOUS
    <2>0. Short \in SUBSET Nat
      OBVIOUS
    <2> HIDE DEF Short
    <2>1. PICK n \in Short : \A m \in Short : n <= m
      BY <2>0, Least
    <2> DEFINE u == now + 2 - n
    <2>2. n \in 0 .. now + 1 /\ ~Lands(u) /\ u \in Nat /\ u > 0
      BY DEF Short
    <2>3. u < now + 2 /\ u < GiveUp
      BY <1>1, <2>2, TimeAssumption
    <2>4. Lands(2 * u)
      <3>1. CASE 2 * u >= now + 2
        BY <1>1, <2>2, <3>1
      <3>2. CASE 2 * u < now + 2
        <4> DEFINE m == now + 2 - 2 * u
        <4>1. m \in 0 .. now + 1 /\ m < n /\ now + 2 - m = 2 * u
          BY <2>2, <3>2
        <4>2. m \notin Short
          BY <2>1, <2>2, <4>1
        <4>3. QED
          BY <4>1, <4>2 DEF Short
      <3>3. QED
        BY <2>2, <3>1, <3>2
    <2>5. QED
      BY <1>2, <2>2, <2>3, <2>4
  <1>4. Lands(t)
    <2>1. CASE t >= now + 2
      BY <1>1, <2>1
    <2>2. CASE t < now + 2
      <3>1. now + 2 - t \in 0 .. now + 1 /\ now + 2 - (now + 2 - t) = t
        BY <2>2
      <3>2. now + 2 - t \notin Short
        BY <1>3
      <3>3. QED
        BY <3>1, <3>2
    <2>3. QED
      BY <2>1, <2>2
  <1>5. QED
    BY <1>4 DEF Lands

-----------------------------------------------------------------------------
(* What is planned.                                                        *)

\* A planned alarm is to be removed, or lies ahead of the idle time that was
\* read, or is one that was given up on.
PlanInv ==
  /\ idle \in 0 .. MaxIdle /\ seen \in 0 .. MaxIdle
  /\ plan \in Seq([alarm : Alarm, timeout : {0} \cup Timeouts])
  /\ \A i \in DOMAIN plan :
       \/ plan[i].timeout = 0
       \/ plan[i].timeout >= seen + 2
       \/ plan[i].timeout >= GiveUp

Ahead(t, now) == t = 0 \/ t >= now + 2 \/ t >= GiveUp

\* The timeouts satisfy what IdleTime assumes of them.
LEMMA TimeoutsValid == Timeouts \subseteq Nat /\ \A t \in Timeouts : t > 1
  <1>1. Configured \subseteq Nat \ {0}
    BY SettingsAssumption DEF Configured
  <1>2. \A c \in Configured : c + Fade \in Nat \ {0}
    BY <1>1, TimeAssumption
  <1>3. \A now \in 0 .. MaxIdle : now \in Nat
    BY BoundAssumption
  <1>4. \A t \in Configured \cup {c + Fade : c \in Configured} : t \in Nat \ {0}
    BY <1>1, <1>2
  <1>5. ASSUME NEW u \in Timeouts PROVE u \in Nat \ {0, 1}
    <2>1. PICK t \in Configured \cup {c + Fade : c \in Configured}, now \in 0 .. MaxIdle :
            u = IdleAdjustTimeout(t, now)
      BY DEF Timeouts
    <2>2. QED
      BY <1>3, <1>4, <2>1, AdjustLands
  <1>6. QED
    BY <1>5

LEMMA PlannedAhead ==
  ASSUME NEW s \in Settings, NEW a \in Alarm, NEW extra \in {0, Fade}, idle \in 0 .. MaxIdle
  PROVE  /\ Planned(s, a, extra) \in [alarm : Alarm, timeout : {0} \cup Timeouts]
         /\ Ahead(Planned(s, a, extra).timeout, idle)
  <1>1. CASE s[a] = 0
    BY <1>1 DEF Planned, Entry, Ahead
  <1>2. CASE s[a] # 0
    <2>1. s[a] \in Configured /\ s[a] \in Nat \ {0}
      BY <1>2, SettingsAssumption DEF Configured
    <2> DEFINE t == s[a] + extra
    <2>2. t \in Configured \cup {c + Fade : c \in Configured} /\ t \in Nat \ {0}
      BY <2>1, TimeAssumption
    <2>3. IdleAdjustTimeout(t, idle) \in Timeouts
      BY <2>2 DEF Timeouts
    <2>4. Ahead(IdleAdjustTimeout(t, idle), idle)
      BY <2>2, AdjustLands, BoundAssumption DEF Ahead
    <2>5. QED
      BY <1>2, <2>3, <2>4 DEF Planned, Entry
  <1>3. QED
    BY <1>1, <1>2

LEMMA TailPlan ==
  ASSUME NEW S, NEW q \in Seq(S), q # <<>>
  PROVE  /\ Tail(q) \in Seq(S) /\ Head(q) \in S /\ Head(q) = q[1] /\ 1 \in DOMAIN q
         /\ \A i \in DOMAIN Tail(q) : i + 1 \in DOMAIN q /\ Tail(q)[i] = q[i + 1]
         /\ \A i \in DOMAIN q : i = 1 \/ (i - 1 \in DOMAIN Tail(q) /\ Tail(q)[i - 1] = q[i])
  OBVIOUS

LEMMA PlanInvStep == PlanInv /\ [Next]_vars => PlanInv'
  <1> SUFFICES ASSUME PlanInv, [Next]_vars PROVE PlanInv'
    OBVIOUS
  <1> DEFINE Item == [alarm : Alarm, timeout : {0} \cup Timeouts]
  <1>1. idle' \in 0 .. MaxIdle
    <2>1. CASE Tick
      BY <2>1, BoundAssumption DEF Tick, IT!Tick, PlanInv
    <2>2. CASE Activity
      BY <2>2, BoundAssumption DEF Activity, IT!Activity, PlanInv
    <2>3. CASE ApplyPlan
      BY <2>3 DEF ApplyPlan, IT!AlarmSet, IT!AlarmRemove, PlanInv
    <2>4. QED
      BY <2>1, <2>2, <2>3 DEF Next, vars, alarms, DispatchStale, IT!DispatchStale,
         DispatchAlarm, IT!DispatchAlarm, DispatchReset, IT!DispatchReset, QueryCounter,
         IT!QueryCounter, IdleConfigure, RefreshIdleDimSettings, IdleSetTimeoutDim,
         InhibitorChanged, SessionActiveChanged, PlanInv
  <1>2. ASSUME NEW e1 \in Item, NEW e2 \in Item, Ahead(e1.timeout, idle), Ahead(e2.timeout, idle),
               plan' = <<e1, e2>>, seen' = idle
        PROVE  PlanInv'
    BY <1>1, <1>2 DEF PlanInv, Ahead
  <1>3. ASSUME NEW e \in Item, Ahead(e.timeout, idle), plan' = <<e>>, seen' = idle
        PROVE  PlanInv'
    BY <1>1, <1>3 DEF PlanInv, Ahead
  <1>4. \A a \in Alarm : Entry(a, 0) \in Item /\ Ahead(Entry(a, 0).timeout, idle)
    BY DEF Entry, Ahead
  <1>5. idle \in 0 .. MaxIdle /\ "dim" \in Alarm /\ "blank" \in Alarm /\ "sleep" \in Alarm
    BY DEF PlanInv, Alarm
  <1>6. CASE IdleConfigure
    <2>1. CASE inhibited
      BY <1>2, <1>4, <1>5, <1>6, <2>1 DEF IdleConfigure
    <2>2. CASE ~inhibited
      <3>1. PICK s \in Settings, sleepInhibited \in BOOLEAN :
              plan' = << Planned(s, "blank", Fade),
                         IF sleepInhibited THEN Entry("sleep", 0) ELSE Planned(s, "sleep", 0) >>
        BY <1>6, <2>2 DEF IdleConfigure
      <3>2. seen' = idle
        BY <1>6 DEF IdleConfigure
      <3>3. /\ Planned(s, "blank", Fade) \in Item
            /\ Ahead(Planned(s, "blank", Fade).timeout, idle)
            /\ Planned(s, "sleep", 0) \in Item
            /\ Ahead(Planned(s, "sleep", 0).timeout, idle)
        BY <1>5, PlannedAhead
      <3>4. QED
        BY <1>2, <1>4, <1>5, <3>1, <3>2, <3>3
    <2>3. QED
      BY <2>1, <2>2
  <1>7. CASE IdleSetTimeoutDim
    <2>1. CASE inhibited
      BY <1>3, <1>4, <1>5, <1>7, <2>1 DEF IdleSetTimeoutDim
    <2>2. CASE ~inhibited
      <3>1. PICK s \in Settings : plan' = <<Planned(s, "dim", 0)>>
        BY <1>7, <2>2 DEF IdleSetTimeoutDim
      <3>2. QED
        BY <1>3, <1>5, <1>7, <3>1, PlannedAhead DEF IdleSetTimeoutDim
    <2>3. QED
      BY <2>1, <2>2
  <1>8. CASE ApplyPlan
    BY <1>1, <1>8, TailPlan DEF ApplyPlan, PlanInv
  <1>9. CASE UNCHANGED <<plan, seen>>
    BY <1>1, <1>9 DEF PlanInv
  <1>10. QED
    BY <1>6, <1>7, <1>8, <1>9 DEF Next, vars, manager, Tick, Activity, DispatchStale,
       DispatchAlarm, DispatchReset, QueryCounter, RefreshIdleDimSettings,
       InhibitorChanged, SessionActiveChanged

LEMMA PlanKept == Spec => []PlanInv
  <1>1. Init => PlanInv
    BY BoundAssumption DEF Init, IT!Init, PlanInv
  <1>2. QED
    BY <1>1, PlanInvStep, PTL DEF Spec

-----------------------------------------------------------------------------
(* The composition implements IdleTime.                                    *)

LEMMA Simulates == PlanInv /\ [Next]_vars => [IT!Next]_IT!vars
  <1> SUFFICES ASSUME PlanInv, [Next]_vars PROVE IT!Next \/ UNCHANGED IT!vars
    OBVIOUS
  <1>1. CASE Tick
    BY <1>1 DEF Tick, IT!Next
  <1>2. CASE Activity
    BY <1>2 DEF Activity, IT!Next
  <1>3. CASE DispatchStale
    BY <1>3 DEF DispatchStale, IT!Next
  <1>4. CASE DispatchAlarm
    BY <1>4 DEF DispatchAlarm, IT!Next
  <1>5. CASE DispatchReset
    BY <1>5 DEF DispatchReset, IT!Next
  <1>6. CASE QueryCounter
    BY <1>6 DEF QueryCounter, IT!Next
  <1>7. CASE ApplyPlan
    <2>1. Head(plan).alarm \in Alarm /\ Head(plan).timeout \in {0} \cup Timeouts
      <3>1. Head(plan) \in [alarm : Alarm, timeout : {0} \cup Timeouts]
        BY <1>7, TailPlan DEF ApplyPlan, PlanInv
      <3>2. QED
        BY <3>1
    <2>2. CASE Head(plan).timeout = 0
      BY <1>7, <2>1, <2>2 DEF ApplyPlan, IT!Next
    <2>3. CASE Head(plan).timeout # 0
      BY <1>7, <2>1, <2>3 DEF ApplyPlan, IT!Next
    <2>4. QED
      BY <2>2, <2>3
  <1>8. CASE UNCHANGED alarms
    BY <1>8 DEF alarms, IT!vars
  <1>9. QED
    BY <1>1, <1>2, <1>3, <1>4, <1>5, <1>6, <1>7, <1>8 DEF Next, vars, IdleConfigure,
       RefreshIdleDimSettings, IdleSetTimeoutDim, InhibitorChanged, SessionActiveChanged

\* The manager drives its alarms only as IdleTime allows: every handler of the
\* composition is a step of the alarms or leaves them alone, whatever timeouts
\* are configured.
THEOREM ImplementsIdleTime == Spec => IdleTimeSpec
  <1>1. Init => IT!Init
    BY DEF Init
  <1>2. QED
    BY <1>1, Simulates, PlanKept, PTL DEF Spec, IdleTimeSpec, IT!Spec

\* So the alarms have their types in the composition as they have in IdleTime.
LEMMA AlarmTypes == Spec => []IT!TypeOK
  <1>1. ITP!IsFiniteSet(Alarm)
    <2> DEFINE q == <<"dim", "blank", "sleep">>
    <2>1. q \in Seq(Alarm) /\ Len(q) = 3 /\ q[1] = "dim" /\ q[2] = "blank" /\ q[3] = "sleep"
      BY DEF Alarm
    <2>2. \A a \in Alarm : \E n \in 1 .. Len(q) : q[n] = a
      BY <2>1 DEF Alarm
    <2> HIDE DEF q
    <2>3. QED
      BY <2>1, <2>2 DEF ITP!IsFiniteSet
  <1>2. "reset" \notin Alarm /\ "stale" \notin Alarm
    BY DEF Alarm
  <1>3. /\ ITP!IsFiniteSet(Alarm) /\ ITP!Reset \notin Alarm /\ ITP!Stale \notin Alarm
        /\ MaxIdle \in Nat /\ MaxQueue \in Nat /\ Prompt \in BOOLEAN
        /\ Timeouts \subseteq Nat /\ \A t \in Timeouts : t > 1
    BY <1>1, <1>2, BoundAssumption, TimeoutsValid DEF ITP!Reset, ITP!Stale
  <1>4. ITP!Spec => []ITP!TypeOK
    BY <1>3, ITP!TypeCorrect
  <1>5. (ITP!Init <=> IT!Init) /\ ITP!vars = IT!vars
    BY DEF ITP!Init, IT!Init, ITP!vars, IT!vars, ITP!Off, IT!Off
  <1>6. ITP!Next <=> IT!Next
    <2>1. ITP!Tick <=> IT!Tick
      BY DEF IT!Tick, ITP!Tick, IT!ClientKeepsUp, ITP!ClientKeepsUp, IT!Orders, ITP!Orders, IT!Due, ITP!Due, IT!Cardinality, ITP!Cardinality, IT!client, ITP!client
    <2>2. ITP!Activity <=> IT!Activity
      BY DEF IT!Activity, ITP!Activity, IT!ResetTriggered, ITP!ResetTriggered, IT!Off, ITP!Off, IT!client, ITP!client, IT!Reset, ITP!Reset
    <2>3. ITP!DispatchStale <=> IT!DispatchStale
      BY DEF IT!DispatchStale, ITP!DispatchStale, IT!Stale, ITP!Stale, IT!client, ITP!client
    <2>4. ITP!DispatchReset <=> IT!DispatchReset
      BY DEF IT!DispatchReset, ITP!DispatchReset, IT!Reset, ITP!Reset, IT!ResetAll, ITP!ResetAll, IT!Orphan, ITP!Orphan, IT!Off, ITP!Off, IT!Stale, ITP!Stale
    <2>5. ITP!DispatchAlarm <=> IT!DispatchAlarm
      BY DEF IT!DispatchAlarm, ITP!DispatchAlarm, IT!SetResetAlarm, ITP!SetResetAlarm
    <2>6. ITP!QueryCounter <=> IT!QueryCounter
      BY DEF IT!QueryCounter, ITP!QueryCounter, IT!ResetAll, ITP!ResetAll, IT!Orphan, ITP!Orphan, IT!Off, ITP!Off, IT!Stale, ITP!Stale, IT!Reset, ITP!Reset
    <2>7. \A a \in Alarm, t \in Timeouts : ITP!AlarmSet(a, t) <=> IT!AlarmSet(a, t)
      BY DEF ITP!AlarmSet, IT!AlarmSet
    <2>8. \A a \in Alarm : ITP!AlarmRemove(a) <=> IT!AlarmRemove(a)
      BY DEF ITP!AlarmRemove, IT!AlarmRemove, ITP!Orphan, IT!Orphan, ITP!Stale, IT!Stale
    <2>9. QED
      BY <2>1, <2>2, <2>3, <2>4, <2>5, <2>6, <2>7, <2>8 DEF ITP!Next, IT!Next
  <1>7. IT!TypeOK <=> ITP!TypeOK
    BY DEF IT!TypeOK, ITP!TypeOK, IT!Event, ITP!Event, IT!Off, ITP!Off, IT!Reset, ITP!Reset,
       IT!Stale, ITP!Stale
  <1>8. [IT!Next]_IT!vars <=> [ITP!Next]_ITP!vars
    BY <1>6 DEF IT!vars, ITP!vars
  <1>9. IdleTimeSpec => ITP!Spec
    BY <1>5, <1>8, PTL DEF IdleTimeSpec, IT!Spec, ITP!Spec
  <1>10. QED
    BY <1>4, <1>7, <1>9, ImplementsIdleTime, PTL

-----------------------------------------------------------------------------
(* What the queue and the plan hold.                                       *)

In(q) == {q[i] : i \in DOMAIN q}

LEMMA InTail ==
  ASSUME NEW S, NEW q \in Seq(S), q # <<>>
  PROVE  In(q) = {Head(q)} \cup In(Tail(q)) /\ In(q) \subseteq S
  <1>1. \A i \in DOMAIN q : i = 1 \/ (i - 1 \in DOMAIN Tail(q) /\ Tail(q)[i - 1] = q[i])
    BY TailPlan
  <1>2. \A i \in DOMAIN Tail(q) : i + 1 \in DOMAIN q /\ Tail(q)[i] = q[i + 1]
    BY TailPlan
  <1>3. Head(q) = q[1] /\ 1 \in DOMAIN q
    BY TailPlan
  <1>4. In(Tail(q)) \subseteq In(q) /\ Head(q) \in In(q)
    BY <1>2, <1>3 DEF In
  <1>5. \A e \in In(q) : e = Head(q) \/ e \in In(Tail(q))
    BY <1>1, <1>3 DEF In
  <1>6. In(q) \subseteq S
    BY DEF In
  <1>7. QED
    BY <1>4, <1>5, <1>6

LEMMA InAppend ==
  ASSUME NEW S, NEW q \in Seq(S), NEW e \in S
  PROVE  In(Append(q, e)) = In(q) \cup {e}
  <1>1. DOMAIN Append(q, e) = DOMAIN q \cup {Len(q) + 1} /\ Append(q, e)[Len(q) + 1] = e
    OBVIOUS
  <1>2. \A i \in DOMAIN q : Append(q, e)[i] = q[i]
    OBVIOUS
  <1>3. QED
    BY <1>1, <1>2 DEF In

LEMMA InOrphan ==
  ASSUME NEW q \in Seq(IT!Event), NEW b \in Alarm \cup {IT!Reset}, NEW e \in In(IT!Orphan(q, b))
  PROVE  e.alarm # b /\ (e.alarm = IT!Stale \/ e \in In(q))
  <1>1. PICK i \in DOMAIN q : e = IF q[i].alarm = b THEN [q[i] EXCEPT !.alarm = IT!Stale] ELSE q[i]
    BY DEF In, IT!Orphan
  <1>2. q[i] \in IT!Event /\ b # IT!Stale
    BY DEF IT!Stale, IT!Reset, Alarm
  <1>3. QED
    BY <1>1, <1>2 DEF In, IT!Event

LEMMA OrphanKeeps ==
  ASSUME NEW q \in Seq(IT!Event), NEW b, NEW e \in In(q), e.alarm # b
  PROVE  e \in In(IT!Orphan(q, b))
  BY DEF In, IT!Orphan

LEMMA InConcat ==
  ASSUME NEW S, NEW q \in Seq(S), NEW r \in Seq(S)
  PROVE  In(q \o r) = In(q) \cup In(r)
  <1>1. \A i \in DOMAIN q : i \in DOMAIN (q \o r) /\ (q \o r)[i] = q[i]
    OBVIOUS
  <1>2. \A i \in DOMAIN r : Len(q) + i \in DOMAIN (q \o r) /\ (q \o r)[Len(q) + i] = r[i]
    OBVIOUS
  <1>3. \A i \in DOMAIN (q \o r) :
          \/ i \in DOMAIN q
          \/ i - Len(q) \in DOMAIN r /\ i = Len(q) + (i - Len(q))
    OBVIOUS
  <1>4. \A e \in In(q \o r) : e \in In(q) \/ e \in In(r)
    BY <1>1, <1>2, <1>3 DEF In
  <1>5. In(q) \subseteq In(q \o r) /\ In(r) \subseteq In(q \o r)
    BY <1>1, <1>2 DEF In
  <1>6. QED
    BY <1>4, <1>5

\* The events of a Tick: one for every alarm due.
LEMMA InTick ==
  ASSUME IT!TypeOK, NEW c \in 0 .. MaxIdle, NEW s \in IT!Orders(IT!Due(c))
  PROVE  In(queue \o [i \in DOMAIN s |-> [alarm |-> s[i], value |-> c]]) =
           In(queue) \cup {[alarm |-> a, value |-> c] : a \in IT!Due(c)}
  <1> DEFINE D == IT!Due(c)
             n == Cardinality(D)
             r == [i \in DOMAIN s |-> [alarm |-> s[i], value |-> c]]
  <1>1. n \in Nat
    <2>1. IsFiniteSet(Alarm)
      <3>1. IsFiniteSet({}) /\ Alarm = (({} \cup {"dim"}) \cup {"blank"}) \cup {"sleep"}
        BY FS_EmptySet DEF Alarm
      <3>2. QED
        BY <3>1, FS_AddElement
    <2>2. QED
      BY <2>1, FS_Subset, FS_CardinalityType DEF IT!Due
  <1>2. s \in [1 .. n -> D] /\ \A a \in D : \E i \in DOMAIN s : s[i] = a
    <2>1. IT!Cardinality(D) = n
      BY DEF IT!Cardinality, Cardinality
    <2>2. s \in IT!Orders(D)
      OBVIOUS
    <2> HIDE DEF D, n
    <2>3. QED
      BY <2>1, <2>2 DEF IT!Orders
  <1>3. In(r) = {[alarm |-> a, value |-> c] : a \in D}
    BY <1>2 DEF In
  <1>4. r \in Seq(IT!Event)
    <2>1. \A a \in D : [alarm |-> a, value |-> c] \in IT!Event
      BY DEF IT!Due, IT!Event
    <2> HIDE DEF D
    <2>2. QED
      BY <1>1, <1>2, <2>1
  <1>5. queue \in Seq(IT!Event)
    BY DEF IT!TypeOK
  <1> HIDE DEF r
  <1>6. In(queue \o r) = In(queue) \cup In(r)
    BY <1>4, <1>5, InConcat
  <1>7. QED
    BY <1>3, <1>6 DEF r

-----------------------------------------------------------------------------
(* The invariants behind AlarmsAccounted.                                  *)

\* An alarm that was removed has no event left: its events are stale.
QueueInv == \A e \in In(queue) : e.alarm \in Alarm => timeout[e.alarm] # 0

\* From the time the manager heard of the inhibitor, every alarm still set is
\* about to be removed.
HonourInv ==
  inhibited /\ ~notify =>
    /\ \A e \in In(plan) : e.timeout = 0
    /\ \A a \in Alarm : \/ timeout[a] = 0
                        \/ \E e \in In(plan) : e.alarm = a
                        \/ a = "dim" /\ dimDue
    /\ active => mode = NORMAL

\* A main loop that keeps up sees an event before the counter moves on, unless
\* it falls back to 0.
PromptInv ==
  Prompt =>
    /\ \A e \in In(queue) : /\ e.alarm = IT!Reset => idle = 0
                            /\ e.alarm \in Alarm => idle = 0 \/ e.value = idle
    /\ checking => idle = 0 \/ idle = resetAt + 1
    /\ plan # <<>> => idle - seen <= Delay

AheadInv == Prompt /\ Delay <= 1 => AlarmsAhead

Types == IT!TypeOK /\ PlanInv

LEMMA ResetAllQueue ==
  ASSUME IT!TypeOK, NEW q \in Seq(IT!Event), IT!ResetAll(q), NEW e \in In(queue')
  PROVE  e.alarm = IT!Stale \/ e \in In(q)
  <1>1. queue' = q \/ queue' = IT!Orphan(q, IT!Reset)
    BY DEF IT!ResetAll
  <1>2. QED
    BY <1>1, InOrphan

LEMMA QueueTypes ==
  ASSUME IT!TypeOK
  PROVE  /\ queue \in Seq(IT!Event) /\ timeout \in [Alarm -> {0} \cup Timeouts]
         /\ IT!Stale \notin Alarm /\ IT!Reset \notin Alarm /\ IT!Stale # IT!Reset
         /\ \A a \in Alarm : timeout[a] \in Nat
         /\ idle \in Nat
  <1>1. IT!Stale \notin Alarm /\ IT!Reset \notin Alarm /\ IT!Stale # IT!Reset
    BY DEF IT!Stale, IT!Reset, Alarm
  <1>2. idle \in Nat
    BY BoundAssumption DEF IT!TypeOK
  <1>3. queue \in Seq(IT!Event) /\ timeout \in [Alarm -> {0} \cup Timeouts]
    BY DEF IT!TypeOK
  <1>4. \A a \in Alarm : timeout[a] \in {0} \cup Timeouts
    BY <1>3
  <1>5. ASSUME NEW a \in Alarm PROVE timeout[a] \in Nat
    <2>1. {0} \cup Timeouts \subseteq Nat
      BY TimeoutsValid
    <2>2. QED
      BY <1>4, <2>1, Zenon
  <1>6. QED
    BY <1>1, <1>2, <1>3, <1>5

LEMMA QueueStep == Types /\ QueueInv /\ [Next]_vars => QueueInv'
  <1> SUFFICES ASSUME Types, QueueInv, [Next]_vars PROVE QueueInv'
    OBVIOUS
  <1> USE DEF Types
  <1>1. ASSUME NEW q \in Seq(IT!Event), IT!ResetAll(q), In(q) \subseteq In(queue), UNCHANGED timeout
        PROVE  QueueInv'
    BY <1>1, ResetAllQueue, QueueTypes DEF QueueInv
  <1>2. ASSUME queue # <<>>
        PROVE  Tail(queue) \in Seq(IT!Event) /\ In(Tail(queue)) \subseteq In(queue)
    BY <1>2, InTail, QueueTypes
  <1>3. CASE Tick
    <2>1. PICK s \in IT!Orders(IT!Due(idle')) :
            queue' = queue \o [i \in DOMAIN s |-> [alarm |-> s[i], value |-> idle']]
      BY <1>3 DEF Tick, IT!Tick
    <2>2. timeout' = timeout /\ idle' = idle + 1
      BY <1>3 DEF Tick, IT!Tick, IT!client
    <2>3. idle' \in 0 .. MaxIdle
      BY <1>3, QueueTypes, BoundAssumption DEF Tick, IT!Tick
    <2>4. In(queue') = In(queue) \cup {[alarm |-> a, value |-> idle'] : a \in IT!Due(idle')}
      BY <2>1, <2>3, InTick
    <2>5. \A a \in IT!Due(idle') : timeout'[a] # 0
      BY <2>2, QueueTypes DEF IT!Due
    <2>6. QED
      BY <2>2, <2>4, <2>5 DEF QueueInv
  <1>4. CASE Activity
    <2>1. timeout' = timeout
      BY <1>4 DEF Activity, IT!Activity, IT!client
    <2>2. queue' = queue \/ queue' = Append(queue, [alarm |-> IT!Reset, value |-> 0])
      BY <1>4 DEF Activity, IT!Activity
    <2>3. [alarm |-> IT!Reset, value |-> 0] \in IT!Event
      BY BoundAssumption DEF IT!Event
    <2>4. In(queue') \subseteq In(queue) \cup {[alarm |-> IT!Reset, value |-> 0]}
      BY <2>2, <2>3, InAppend, QueueTypes
    <2>5. QED
      BY <2>1, <2>4, QueueTypes DEF QueueInv
  <1>5. CASE DispatchStale \/ DispatchAlarm
    BY <1>2, <1>5 DEF DispatchStale, IT!DispatchStale, DispatchAlarm, IT!DispatchAlarm,
       IT!client, QueueInv
  <1>6. CASE DispatchReset
    <2>1. queue # <<>> /\ IT!ResetAll(Tail(queue)) /\ timeout' = timeout
      BY <1>6 DEF DispatchReset, IT!DispatchReset
    <2>2. QED
      BY <1>1, <1>2, <2>1
  <1>7. CASE QueryCounter
    <2>1. timeout' = timeout /\ (IT!ResetAll(queue) \/ queue' = queue)
      BY <1>7 DEF QueryCounter, IT!QueryCounter
    <2>2. QED
      BY <1>1, <2>1, QueueTypes DEF QueueInv
  <1>8. CASE ApplyPlan
    <2> DEFINE a == Head(plan).alarm
               t == Head(plan).timeout
    <2>1. a \in Alarm
      <3>1. Head(plan) \in [alarm : Alarm, timeout : {0} \cup Timeouts]
        BY <1>8, TailPlan DEF ApplyPlan, PlanInv
      <3>2. QED
        BY <3>1
    <2>2. CASE t = 0
      <3>1. timeout' = [timeout EXCEPT ![a] = 0] /\ queue' = IT!Orphan(queue, a)
        BY <1>8, <2>2 DEF ApplyPlan, IT!AlarmRemove
      <3>2. ASSUME NEW e \in In(queue'), e.alarm \in Alarm PROVE timeout'[e.alarm] # 0
        <4>1. e.alarm # a /\ e \in In(queue)
          BY <2>1, <3>1, <3>2, InOrphan, QueueTypes
        <4>2. QED
          BY <2>1, <3>1, <3>2, <4>1, QueueTypes DEF QueueInv
      <3>3. QED
        BY <3>2 DEF QueueInv
    <2>3. CASE t # 0
      <3>1. timeout' = [timeout EXCEPT ![a] = t] /\ queue' = queue
        BY <1>8, <2>3 DEF ApplyPlan, IT!AlarmSet
      <3>2. QED
        BY <2>1, <2>3, <3>1, QueueTypes DEF QueueInv
    <2>4. QED
      BY <2>2, <2>3
  <1>9. CASE UNCHANGED alarms
    BY <1>9 DEF alarms, QueueInv
  <1>10. QED
    BY <1>3, <1>4, <1>5, <1>6, <1>7, <1>8, <1>9 DEF Next, vars, IdleConfigure,
       RefreshIdleDimSettings, IdleSetTimeoutDim, InhibitorChanged, SessionActiveChanged

\* idle_set_mode(NORMAL) in an active session ends in NORMAL; in any session
\* it can only do that or nothing.
LEMMA SetNormal ==
  ASSUME NEW act, IdleSetMode(NORMAL, act)
  PROVE  /\ mode' = NORMAL \/ mode' = mode
         /\ act => mode' = NORMAL
  BY DEF IdleSetMode

LEMMA HonourStep == Types /\ QueueInv /\ HonourInv /\ [Next]_vars => HonourInv'
  <1> SUFFICES ASSUME Types, QueueInv, HonourInv, [Next]_vars, inhibited', ~notify' PROVE HonourInv'
    BY DEF HonourInv
  <1> USE DEF Types
  <1>1. CASE UNCHANGED <<timeout, plan, dimDue, inhibited, notify, mode, active>>
    BY <1>1 DEF HonourInv, In
  <1>2. CASE DispatchAlarm
    <2>1. UNCHANGED <<timeout, plan, dimDue, inhibited, notify, active>> /\ ~Busy
      BY <1>2 DEF DispatchAlarm, IT!DispatchAlarm
    <2>2. plan = <<>> /\ ~dimDue
      BY <2>1 DEF Busy
    <2>3. In(plan) = {}
      BY <2>2 DEF In
    <2>4. Head(queue) \in In(queue) /\ Head(queue).alarm \in Alarm
      BY <1>2, InTail, QueueTypes DEF DispatchAlarm, IT!DispatchAlarm
    <2>5. timeout[Head(queue).alarm] # 0
      BY <2>4 DEF QueueInv
    <2>6. timeout[Head(queue).alarm] = 0
      BY <2>1, <2>2, <2>3, <2>4 DEF HonourInv
    <2>7. QED
      BY <2>5, <2>6
  <1>3. CASE DispatchReset \/ QueryCounter
    <2>1. UNCHANGED <<timeout, plan, dimDue, inhibited, notify, active>> /\ ResetCb
      BY <1>3 DEF DispatchReset, IT!DispatchReset, QueryCounter, IT!QueryCounter
    <2>2. mode' = mode \/ mode' = NORMAL
      BY <2>1, SetNormal DEF ResetCb
    <2>3. QED
      BY <2>1, <2>2 DEF HonourInv, In
  <1>4. CASE IdleConfigure
    <2>1. /\ inhibited /\ dimDue' /\ active' = active /\ timeout' = timeout
          /\ plan' = <<Entry("blank", 0), Entry("sleep", 0)>> /\ IdleSetMode(NORMAL, active)
      BY <1>4 DEF IdleConfigure, alarms
    <2>2. In(plan') = {Entry("blank", 0), Entry("sleep", 0)}
      BY <2>1 DEF In
    <2>3. \A a \in Alarm : a = "dim" \/ \E e \in In(plan') : e.alarm = a
      BY <2>2 DEF Entry, Alarm
    <2>4. active' => mode' = NORMAL
      BY <2>1, SetNormal
    <2>5. \A e \in In(plan') : e.timeout = 0
      BY <2>2 DEF Entry
    <2>6. QED
      BY <2>1, <2>3, <2>4, <2>5 DEF HonourInv
  <1>5. CASE RefreshIdleDimSettings
    BY <1>5 DEF RefreshIdleDimSettings, alarms, HonourInv, In
  <1>6. CASE IdleSetTimeoutDim
    <2>1. /\ inhibited /\ ~notify /\ plan = <<>> /\ active' = active /\ timeout' = timeout
          /\ plan' = <<Entry("dim", 0)>> /\ IdleSetMode(NORMAL, active)
      BY <1>6 DEF IdleSetTimeoutDim, alarms
    <2>2. In(plan') = {Entry("dim", 0)} /\ In(plan) = {}
      BY <2>1 DEF In
    <2>3. active' => mode' = NORMAL
      BY <2>1, SetNormal
    <2>4. QED
      BY <2>1, <2>2, <2>3 DEF HonourInv, Entry
  <1>7. CASE ApplyPlan
    <2>1. /\ plan # <<>> /\ plan' = Tail(plan)
          /\ UNCHANGED <<inhibited, notify, mode, active, dimDue>>
      BY <1>7 DEF ApplyPlan
    <2>2. In(plan) = {Head(plan)} \cup In(plan')
      BY <2>1, InTail DEF PlanInv
    <2>3. Head(plan).timeout = 0
      BY <2>1, <2>2 DEF HonourInv
    <2>4. timeout' = [timeout EXCEPT ![Head(plan).alarm] = 0]
      BY <1>7, <2>3 DEF ApplyPlan, IT!AlarmRemove
    <2>5. \A a \in Alarm : timeout'[a] = 0 \/ (timeout'[a] = timeout[a] /\ a # Head(plan).alarm)
      BY <2>4, QueueTypes
    <2>6. QED
      BY <2>1, <2>2, <2>5 DEF HonourInv
  <1>8. CASE SessionActiveChanged
    <2>1. UNCHANGED <<timeout, plan, dimDue, inhibited, notify>> /\ IdleSetMode(NORMAL, active')
      BY <1>8 DEF SessionActiveChanged, alarms
    <2>2. active' => mode' = NORMAL
      BY <2>1, SetNormal
    <2>3. QED
      BY <2>1, <2>2 DEF HonourInv, In
  <1>9. CASE InhibitorChanged
    BY <1>9 DEF InhibitorChanged
  <1>10. QED
    BY <1>1, <1>2, <1>3, <1>4, <1>5, <1>6, <1>7, <1>8, <1>9
    DEF Next, vars, alarms, manager, Tick, IT!Tick, Activity, IT!Activity, IT!client,
        DispatchStale, IT!DispatchStale

LEMMA PromptStep == Types /\ PromptInv /\ [Next]_vars => PromptInv'
  <1> SUFFICES ASSUME Types, PromptInv, [Next]_vars, Prompt PROVE PromptInv'
    BY DEF PromptInv
  <1> USE DEF Types
  <1> DEFINE OK(e) == /\ e.alarm = IT!Reset => idle' = 0
                      /\ e.alarm \in Alarm => idle' = 0 \/ e.value = idle'
  <1>1. idle' = idle => \A e \in In(queue) : OK(e)
    BY DEF PromptInv
  <1>2. ASSUME queue # <<>>
        PROVE  /\ Tail(queue) \in Seq(IT!Event) /\ In(Tail(queue)) \subseteq In(queue)
               /\ Head(queue) \in In(queue)
    BY <1>2, InTail, QueueTypes
  <1>3. ASSUME \A e \in In(queue') : OK(e), idle' = idle, UNCHANGED <<checking, resetAt, plan, seen>>
        PROVE  PromptInv'
    BY <1>3 DEF PromptInv
  <1>4. CASE Tick
    <2>1. PICK s \in IT!Orders(IT!Due(idle')) :
            queue' = queue \o [i \in DOMAIN s |-> [alarm |-> s[i], value |-> idle']]
      BY <1>4 DEF Tick, IT!Tick
    <2>2. /\ idle' = idle + 1 /\ queue = <<>> /\ ~checking /\ ~checking'
          /\ UNCHANGED <<plan, seen>>
          /\ plan # <<>> => idle - seen < Delay
      BY <1>4 DEF Tick, IT!Tick, IT!client, IT!ClientKeepsUp, manager
    <2>3. idle' \in 0 .. MaxIdle
      BY <1>4, QueueTypes, BoundAssumption DEF Tick, IT!Tick
    <2>4. In(queue') = {[alarm |-> a, value |-> idle'] : a \in IT!Due(idle')}
      <3>1. In(queue) = {}
        BY <2>2 DEF In
      <3>2. QED
        BY <2>1, <2>3, <3>1, InTick
    <2>5. \A e \in In(queue') : e.alarm \in Alarm /\ e.value = idle'
      BY <2>4 DEF IT!Due
    <2>6. plan' # <<>> => idle' - seen' <= Delay
      BY <2>2, QueueTypes, TimeAssumption, BoundAssumption DEF PlanInv
    <2>7. QED
      BY <2>2, <2>5, <2>6, QueueTypes DEF PromptInv
  <1>5. CASE Activity
    <2>1. idle' = 0 /\ UNCHANGED <<plan, seen>>
      BY <1>5 DEF Activity, IT!Activity, manager
    <2>2. plan # <<>> => 0 - seen <= Delay
      BY TimeAssumption, BoundAssumption DEF PlanInv
    <2>3. QED
      BY <2>1, <2>2 DEF PromptInv
  <1>6. CASE DispatchStale
    BY <1>1, <1>2, <1>3, <1>6 DEF DispatchStale, IT!DispatchStale, IT!client, manager
  <1>7. CASE DispatchAlarm
    <2>1. /\ queue # <<>> /\ Head(queue).alarm \in Alarm /\ ~checking /\ queue' = Tail(queue)
          /\ UNCHANGED <<idle, plan, seen>> /\ IT!SetResetAlarm(Head(queue).value)
      BY <1>7 DEF DispatchAlarm, IT!DispatchAlarm
    <2>2. idle = 0 \/ Head(queue).value = idle
      BY <1>2, <2>1 DEF PromptInv
    <2>3. checking' => resetAt' = Head(queue).value - 1
      BY <2>1 DEF IT!SetResetAlarm
    <2>4. checking' => idle' = 0 \/ idle' = resetAt' + 1
      BY <2>1, <2>2, <2>3, QueueTypes
    <2>5. \A e \in In(queue') : OK(e)
      BY <1>1, <1>2, <2>1
    <2>6. QED
      BY <2>1, <2>4, <2>5 DEF PromptInv
  <1>8. CASE DispatchReset
    <2>1. /\ queue # <<>> /\ ~checking /\ UNCHANGED <<idle, checking, plan, seen>>
          /\ IT!ResetAll(Tail(queue))
      BY <1>8 DEF DispatchReset, IT!DispatchReset
    <2>2. \A e \in In(queue') : OK(e)
      BY <1>1, <1>2, <2>1, ResetAllQueue, QueueTypes
    <2>3. QED
      BY <2>1, <2>2 DEF PromptInv
  <1>9. CASE QueryCounter
    <2>1. /\ ~checking' /\ UNCHANGED <<idle, plan, seen>>
          /\ IT!ResetAll(queue) \/ queue' = queue
      BY <1>9 DEF QueryCounter, IT!QueryCounter
    <2>2. \A e \in In(queue') : OK(e)
      BY <1>1, <2>1, ResetAllQueue, QueueTypes
    <2>3. QED
      BY <2>1, <2>2 DEF PromptInv
  <1>10. CASE ApplyPlan
    <2>1. /\ plan # <<>> /\ UNCHANGED <<idle, checking, resetAt, seen>>
      BY <1>10 DEF ApplyPlan, IT!AlarmRemove, IT!AlarmSet
    <2>2. queue' = queue \/ \E a \in Alarm : queue' = IT!Orphan(queue, a)
      <3>1. Head(plan) \in [alarm : Alarm, timeout : {0} \cup Timeouts]
        BY <2>1, TailPlan DEF PlanInv
      <3>2. Head(plan).alarm \in Alarm
        BY <3>1
      <3>3. QED
        BY <1>10, <3>2 DEF ApplyPlan, IT!AlarmRemove, IT!AlarmSet
    <2>3. \A e \in In(queue') : OK(e)
      BY <1>1, <2>1, <2>2, InOrphan, QueueTypes
    <2>4. QED
      BY <2>1, <2>3 DEF PromptInv
  <1>11. CASE IdleConfigure \/ IdleSetTimeoutDim
    <2>1. UNCHANGED <<idle, queue, checking, resetAt>> /\ seen' = idle
      BY <1>11 DEF IdleConfigure, IdleSetTimeoutDim, alarms
    <2>2. idle - idle <= Delay
      BY QueueTypes, TimeAssumption
    <2>3. QED
      BY <2>1, <2>2 DEF PromptInv
  <1>12. CASE UNCHANGED <<alarms, plan, seen>>
    BY <1>1, <1>3, <1>12 DEF alarms
  <1>13. QED
    BY <1>4, <1>5, <1>6, <1>7, <1>8, <1>9, <1>10, <1>11, <1>12
    DEF Next, vars, manager, RefreshIdleDimSettings, InhibitorChanged, SessionActiveChanged

LEMMA AheadStep == Types /\ PromptInv /\ AheadInv /\ [Next]_vars => AheadInv'
  <1> SUFFICES ASSUME Types, PromptInv, AheadInv, [Next]_vars, Prompt, Delay <= 1,
                      NEW a \in Alarm
               PROVE  \/ timeout'[a] = 0
                      \/ timeout'[a] > idle'
                      \/ timeout'[a] >= GiveUp
                      \/ a \in expired'
                      \/ \E i \in DOMAIN queue' : queue'[i].alarm = a
    BY DEF AheadInv, AlarmsAhead
  <1> USE DEF Types
  <1> DEFINE Sent(q) == \E e \in In(q) : e.alarm = a
  <1>1. \/ timeout[a] = 0 \/ timeout[a] > idle \/ timeout[a] >= GiveUp
        \/ a \in expired \/ Sent(queue)
    BY DEF AheadInv, AlarmsAhead, In
  <1>2. \A e \in In(queue') : \E i \in DOMAIN queue' : queue'[i] = e
    BY DEF In
  <1>3. ASSUME queue # <<>>
        PROVE  /\ In(queue) = {Head(queue)} \cup In(Tail(queue))
               /\ Tail(queue) \in Seq(IT!Event) /\ Head(queue) \in In(queue)
    BY <1>3, InTail, QueueTypes
  <1> DEFINE Goal == \/ timeout'[a] = 0 \/ timeout'[a] > idle' \/ timeout'[a] >= GiveUp
                     \/ a \in expired' \/ Sent(queue')
  <1>4. SUFFICES Goal
    BY <1>2
  <1>5. ASSUME UNCHANGED <<idle, timeout, expired>>, Sent(queue) => Sent(queue')
        PROVE  Goal
    BY <1>1, <1>5
  <1>6. ASSUME idle' = 0, UNCHANGED timeout
        PROVE  Goal
    BY <1>6, QueueTypes
  <1>7. CASE Tick
    <2>1. PICK s \in IT!Orders(IT!Due(idle')) :
            queue' = queue \o [i \in DOMAIN s |-> [alarm |-> s[i], value |-> idle']]
      BY <1>7 DEF Tick, IT!Tick
    <2>2. idle' = idle + 1 /\ UNCHANGED <<timeout, expired>>
      BY <1>7 DEF Tick, IT!Tick, IT!client
    <2>3. idle' \in 0 .. MaxIdle
      BY <1>7, QueueTypes, BoundAssumption DEF Tick, IT!Tick
    <2>4. In(queue') = In(queue) \cup {[alarm |-> b, value |-> idle'] : b \in IT!Due(idle')}
      BY <2>1, <2>3, InTick
    <2>5. Sent(queue) => Sent(queue')
      BY <2>4
    <2>6. ASSUME timeout[a] = idle' PROVE Sent(queue')
      <3>1. a \in IT!Due(idle')
        BY <2>6 DEF IT!Due
      <3>2. [alarm |-> a, value |-> idle'] \in In(queue')
        BY <2>4, <3>1
      <3>3. QED
        BY <3>2
    <2>7. timeout[a] > idle => timeout[a] = idle' \/ timeout[a] > idle'
      BY <2>2, QueueTypes
    <2>8. QED
      BY <1>1, <2>2, <2>5, <2>6, <2>7
  <1>8. CASE Activity
    BY <1>6, <1>8 DEF Activity, IT!Activity, IT!client
  <1>9. CASE DispatchStale
    <2>1. /\ queue # <<>> /\ Head(queue).alarm = IT!Stale /\ queue' = Tail(queue)
          /\ UNCHANGED <<idle, timeout, expired>>
      BY <1>9 DEF DispatchStale, IT!DispatchStale, IT!client
    <2>2. Head(queue).alarm # a
      BY <2>1, QueueTypes
    <2>3. Sent(queue) => Sent(queue')
      BY <1>3, <2>1, <2>2
    <2>4. QED
      BY <1>5, <2>1, <2>3
  <1>10. CASE DispatchAlarm
    <2>1. /\ queue # <<>> /\ queue' = Tail(queue) /\ UNCHANGED <<idle, timeout>>
          /\ expired' = expired \cup {Head(queue).alarm}
      BY <1>10 DEF DispatchAlarm, IT!DispatchAlarm
    <2>2. Sent(queue) => Sent(queue') \/ a \in expired'
      BY <1>3, <2>1
    <2>3. QED
      BY <1>1, <2>1, <2>2
  <1>11. CASE DispatchReset
    <2>1. /\ queue # <<>> /\ Head(queue).alarm = IT!Reset /\ UNCHANGED <<idle, timeout>>
      BY <1>11 DEF DispatchReset, IT!DispatchReset
    <2>2. idle = 0
      BY <1>3, <2>1 DEF PromptInv
    <2>3. QED
      BY <1>6, <2>1, <2>2
  <1>12. CASE QueryCounter
    <2>1. checking /\ UNCHANGED <<idle, timeout>>
      BY <1>12 DEF QueryCounter, IT!QueryCounter
    <2>2. CASE idle < resetAt
      <3>1. idle = 0 \/ idle = resetAt + 1
        BY <2>1 DEF PromptInv
      <3>2. resetAt \in Int
        BY BoundAssumption DEF IT!TypeOK, IT!Off
      <3>3. idle = 0
        BY <2>2, <3>1, <3>2, QueueTypes
      <3>4. QED
        BY <1>6, <2>1, <3>3
    <2>3. CASE UNCHANGED <<queue, expired>>
      BY <1>5, <2>1, <2>3
    <2>4. QED
      BY <1>12, <2>2, <2>3 DEF QueryCounter, IT!QueryCounter
  <1>13. CASE ApplyPlan
    <2> DEFINE e == Head(plan)
    <2>1. plan # <<>>
      BY <1>13 DEF ApplyPlan
    <2>2. e \in [alarm : Alarm, timeout : {0} \cup Timeouts] /\ e = plan[1] /\ 1 \in DOMAIN plan
      BY <2>1, TailPlan DEF PlanInv
    <2>3. e.alarm \in Alarm
      BY <2>2
    <2>4. CASE e.timeout = 0
      <3>1. /\ timeout' = [timeout EXCEPT ![e.alarm] = 0] /\ queue' = IT!Orphan(queue, e.alarm)
            /\ UNCHANGED <<idle, expired>>
        BY <1>13, <2>4 DEF ApplyPlan, IT!AlarmRemove
      <3>2. CASE e.alarm = a
        BY <3>1, <3>2, QueueTypes
      <3>3. CASE e.alarm # a
        <4>1. Sent(queue) => Sent(queue')
          BY <3>1, <3>3, OrphanKeeps, QueueTypes
        <4>2. timeout'[a] = timeout[a]
          BY <3>1, <3>3, QueueTypes
        <4>3. QED
          BY <1>1, <3>1, <4>1, <4>2
      <3>4. QED
        BY <3>2, <3>3
    <2>5. CASE e.timeout # 0
      <3>1. /\ timeout' = [timeout EXCEPT ![e.alarm] = e.timeout] /\ queue' = queue
            /\ UNCHANGED <<idle, expired>>
        BY <1>13, <2>5 DEF ApplyPlan, IT!AlarmSet
      <3>2. CASE e.alarm = a
        <4>1. e.timeout >= seen + 2 \/ e.timeout >= GiveUp
          BY <2>2, <2>5 DEF PlanInv
        <4>2. idle - seen <= 1
          BY <2>1, QueueTypes, TimeAssumption, BoundAssumption DEF PromptInv, PlanInv
        <4>3. timeout'[a] = e.timeout
          BY <3>1, <3>2, QueueTypes
        <4>4. e.timeout \in Nat /\ seen \in Nat
          <5>1. e.timeout \in {0} \cup Timeouts
            BY <2>2
          <5>2. {0} \cup Timeouts \subseteq Nat
            BY TimeoutsValid
          <5>3. e.timeout \in Nat
            BY <5>1, <5>2, Zenon
          <5>4. QED
            BY <5>3, BoundAssumption DEF PlanInv
        <4>5. e.timeout > idle \/ e.timeout >= GiveUp
          BY <4>1, <4>2, <4>4, QueueTypes
        <4>6. QED
          BY <3>1, <4>3, <4>5
      <3>3. CASE e.alarm # a
        <4>1. timeout'[a] = timeout[a]
          BY <3>1, <3>3, QueueTypes
        <4>2. QED
          BY <1>1, <3>1, <4>1
      <3>4. QED
        BY <3>2, <3>3
    <2>6. QED
      BY <2>4, <2>5
  <1>14. CASE UNCHANGED alarms
    BY <1>5, <1>14 DEF alarms
  <1>15. QED
    BY <1>7, <1>8, <1>9, <1>10, <1>11, <1>12, <1>13, <1>14 DEF Next, vars, IdleConfigure,
       RefreshIdleDimSettings, IdleSetTimeoutDim, InhibitorChanged, SessionActiveChanged

LEMMA Accounting == Spec => [](QueueInv /\ HonourInv /\ PromptInv /\ AheadInv)
  <1> DEFINE I == QueueInv /\ HonourInv /\ PromptInv /\ AheadInv
  <1>1. Init => I
    <2> SUFFICES ASSUME Init PROVE I
      OBVIOUS
    <2>1. queue = <<>> /\ plan = <<>> /\ ~inhibited /\ ~checking /\ timeout = [a \in Alarm |-> 0]
      BY DEF Init, IT!Init
    <2>2. In(queue) = {}
      BY <2>1 DEF In
    <2>3. QED
      BY <2>1, <2>2 DEF QueueInv, HonourInv, PromptInv, AheadInv, AlarmsAhead
  <1>2. Types /\ I /\ [Next]_vars => I'
    BY QueueStep, HonourStep, PromptStep, AheadStep
  <1>3. Spec => []Types
    BY PlanKept, AlarmTypes, PTL DEF Types
  <1>4. QED
    BY <1>1, <1>2, <1>3, PTL DEF Spec

\* Once the manager has heard of an inhibitor and has finished configuring, no
\* alarm and no idle mode is left, however inhibitors come and go meanwhile.
THEOREM InhibitorsHonoured == Spec => []InhibitorHonoured
  <1>1. HonourInv => InhibitorHonoured
    BY DEF HonourInv, InhibitorHonoured, Busy, In
  <1>2. QED
    BY <1>1, Accounting, PTL

\* Alarms lie ahead of the idle time, provided that the main loop keeps up with
\* the counter and that at most a second passes between reading the idle time
\* and setting an alarm from it: that is what the margin of 2 s allows for.
THEOREM AlarmsStayAccounted ==
  ASSUME Prompt, Delay <= 1
  PROVE  Spec => []AlarmsAccounted
  <1>1. HonourInv /\ AheadInv => AlarmsAccounted
    BY DEF HonourInv, AheadInv, AlarmsAccounted, InhibitorHonoured, Busy, In
  <1>2. QED
    BY <1>1, Accounting, PTL

-----------------------------------------------------------------------------
(* NotStuck.                                                               *)

\* gpm_idletime_alarm_reset_all and the handler of the signal it emits.
LEMMA ResetKeeps ==
  ASSUME NEW q, IT!ResetAll(q), ResetCb, active' = active, NotStuck
  PROVE  NotStuck'
  <1>1. CASE ~resetSet
    <2>1. mode' = mode /\ resetSet' = resetSet
      BY <1>1 DEF IT!ResetAll, ResetCb
    <2>2. QED
      BY <2>1 DEF NotStuck
  <1>2. CASE resetSet
    <2>1. ~resetSet'
      BY <1>2 DEF IT!ResetAll
    <2>2. IdleSetMode(NORMAL, active)
      BY <1>2, <2>1 DEF ResetCb
    <2>3. QED
      BY <2>2, SetNormal DEF NotStuck
  <1>3. QED
    BY <1>1, <1>2

\* Every callback that leaves NORMAL finds the reset alarm armed, and whatever
\* ends it goes back to NORMAL or does so in an inactive session.
LEMMA NotStuckStep == NotStuck /\ [Next]_vars => NotStuck'
  <1> SUFFICES ASSUME NotStuck, [Next]_vars PROVE NotStuck'
    OBVIOUS
  <1>1. ASSUME UNCHANGED <<active, resetSet>>, mode' = mode \/ mode' = NORMAL
        PROVE  NotStuck'
    BY <1>1 DEF NotStuck
  <1>2. ASSUME IdleSetMode(NORMAL, active) \/ UNCHANGED mode
        PROVE  mode' = mode \/ mode' = NORMAL
    BY <1>2, SetNormal
  <1>3. CASE Tick \/ Activity
    BY <1>1, <1>3 DEF Tick, Activity, IT!Tick, IT!Activity, IT!client, manager
  <1>4. CASE DispatchStale
    BY <1>1, <1>4 DEF DispatchStale, IT!DispatchStale, IT!client, manager
  <1>5. CASE DispatchAlarm
    <2>1. resetSet' /\ active' = active
      BY <1>5 DEF DispatchAlarm, IT!DispatchAlarm, IT!SetResetAlarm
    <2>2. QED
      BY <2>1 DEF NotStuck
  <1>6. CASE DispatchReset
    <2>1. IT!ResetAll(Tail(queue)) /\ ResetCb /\ active' = active
      BY <1>6 DEF DispatchReset, IT!DispatchReset
    <2>2. QED
      BY <2>1, ResetKeeps
  <1>7. CASE QueryCounter
    <2>1. ResetCb /\ active' = active
      BY <1>7 DEF QueryCounter
    <2>2. CASE IT!ResetAll(queue)
      BY <2>1, <2>2, ResetKeeps
    <2>3. CASE resetSet' = resetSet
      <3>1. mode' = mode
        BY <2>1, <2>3 DEF ResetCb
      <3>2. QED
        BY <1>1, <2>1, <2>3, <3>1
    <2>4. QED
      BY <1>7, <2>2, <2>3 DEF QueryCounter, IT!QueryCounter
  <1>8. CASE IdleConfigure
    BY <1>1, <1>2, <1>8 DEF IdleConfigure, alarms
  <1>9. CASE RefreshIdleDimSettings
    BY <1>1, <1>9 DEF RefreshIdleDimSettings, alarms
  <1>10. CASE IdleSetTimeoutDim
    BY <1>1, <1>2, <1>10 DEF IdleSetTimeoutDim, alarms
  <1>11. CASE ApplyPlan
    BY <1>1, <1>11 DEF ApplyPlan, IT!AlarmSet, IT!AlarmRemove
  <1>12. CASE InhibitorChanged
    BY <1>1, <1>12 DEF InhibitorChanged, alarms
  <1>13. CASE SessionActiveChanged
    <2>1. active' => mode' = NORMAL
      BY <1>13, SetNormal DEF SessionActiveChanged
    <2>2. QED
      BY <2>1 DEF NotStuck
  <1>14. CASE UNCHANGED vars
    BY <1>1, <1>14 DEF vars, alarms, manager
  <1>15. QED
    BY <1>3, <1>4, <1>5, <1>6, <1>7, <1>8, <1>9, <1>10, <1>11, <1>12, <1>13, <1>14
    DEF Next

\* An active session is never left in an idle mode without a "reset" to come,
\* whatever alarms, inhibitors, settings and user switches are interleaved.
THEOREM NeverStuck == Spec => []NotStuck
  <1>1. Init => NotStuck
    BY DEF Init, NotStuck
  <1>2. QED
    BY <1>1, NotStuckStep, PTL DEF Spec
====
