-------------------------- MODULE PowerBatteryProofs ---------------------------
(***************************************************************************)
(* Proofs about PowerBattery, for any devices, thresholds and policies.    *)
(***************************************************************************)
EXTENDS PowerBattery, FiniteSetTheorems, WellFoundedInduction, TLAPS

-----------------------------------------------------------------------------
(* The loop of the alert.                                                  *)

\* No alert is repeated when the daemon starts.
LEMMA QuietInit == Init => LoopStopsOnAC
BY DEF Init, LoopStopsOnAC

\* A loop that a handler starts is started on battery power, if no device is a
\* UPS: its warnings do not ask.
LEMMA ChangeKeepsQuiet ==
  ASSUME NEW d \in machine.devices, NEW r, LoopStopsOnAC, DeviceChanges(d, r),
         machine' = machine
  PROVE  LoopStopsOnAC'
<1>1. onBattery' = onBattery BY DEF DeviceChanges
<1>2. CASE HandleChanged(d, dev')
  BY <1>1, <1>2 DEF HandleChanged, LoopStopsOnAC, Supplies
<1>3. CASE loop' = loop BY <1>1, <1>3 DEF LoopStopsOnAC
<1> QED BY <1>2, <1>3 DEF DeviceChanges

\* Built against UPower before 0.99, and without a UPS, the daemon never keeps
\* repeating the alert of a critical battery once the machine is plugged in:
\* every change of the client is seen by up_client_changed_cb.
THEOREM QuietOnAC == Spec => []LoopStopsOnAC
<1>1. LoopStopsOnAC /\ [Next]_vars => LoopStopsOnAC'
  <2> SUFFICES ASSUME LoopStopsOnAC, [Next]_vars PROVE LoopStopsOnAC' OBVIOUS
  <2>0. machine' = machine BY DEF Next, vars
  <2>1. ASSUME NEW d \in machine.devices, Drain(d) \/ Charge(d) \/ RateKnown(d)
        PROVE  LoopStopsOnAC'
    BY <2>0, <2>1, ChangeKeepsQuiet DEF Drain, Charge, RateKnown
  <2>2. ASSUME NEW d \in machine.devices, NEW s \in State, NewState(d, s)
        PROVE  LoopStopsOnAC'
    BY <2>0, <2>2, ChangeKeepsQuiet DEF NewState
  <2>3. CASE OnBatteryChanges
    BY <2>0, <2>3 DEF OnBatteryChanges, ClientHandler, LoopStopsOnAC
  <2>4. CASE LidMoves BY <2>0, <2>4 DEF LidMoves, ClientHandler, LoopStopsOnAC
  <2>5. CASE CriticalActionDo BY <2>5 DEF CriticalActionDo, LoopStopsOnAC
  <2>6. ASSUME NEW d \in machine.devices, DeviceAdded(d) \/ DeviceRemoved(d)
        PROVE  LoopStopsOnAC'
    BY <2>0, <2>6 DEF DeviceAdded, DeviceRemoved, LoopStopsOnAC
  <2>7. CASE UNCHANGED vars BY <2>7 DEF vars, LoopStopsOnAC
  <2> QED BY <2>1, <2>2, <2>3, <2>4, <2>5, <2>6, <2>7 DEF Next, Step
<1> QED BY <1>1, QuietInit, PTL DEF Spec

-----------------------------------------------------------------------------
(* Sums over batteries.  A sum is computed by taking one battery after the *)
(* other away; Partial says which function MapThenSumSet chooses.          *)

\* Every set of naturals that is not empty has a least element.
LEMMA Least ==
  ASSUME NEW T \in SUBSET Nat, T # {}
  PROVE  \E x \in T : \A y \in T : x <= y
<1> DEFINE R == OpToRel(<, Nat)
<1>1. IsWellFoundedOn(R, Nat) BY NatLessThanWellFounded
<1>2. \A x, y \in Nat : x < y => <<x, y>> \in R BY DEF OpToRel
<1> HIDE DEF R
<1>3. PICK x \in T : \A y \in T : ~ (<<y, x>> \in R) BY <1>1, WFMin
<1>4. \A y \in T : ~(y < x) BY <1>2, <1>3
<1> QED BY <1>4

Sum(g, S) == MapThenSumSet(LAMBDA d : g[d], S)

Chosen(s) == CHOOSE x \in s : TRUE
Plus(g, f, s) == IF s = {} THEN 0 ELSE g[Chosen(s)] + f[s \ {Chosen(s)}]
Partial(g, S, f) == f = [s \in SUBSET S |-> Plus(g, f, s)]

LEMMA SumIs == ASSUME NEW S, NEW g PROVE Sum(g, S) = (CHOOSE f : Partial(g, S, f))[S]
BY DEF Sum, MapThenSumSet, MapThenFoldSet, Partial, Plus, Chosen

\* What is summed is what the elements of the set are mapped to.
LEMMA EnergyIsSum ==
  ASSUME NEW S, NEW readings
  PROVE  /\ MapThenSumSet(LAMBDA d : readings[d].energy, S) = Sum([d \in S |-> readings[d].energy], S)
         /\ MapThenSumSet(LAMBDA d : readings[d].rate, S) = Sum([d \in S |-> readings[d].rate], S)
<1>1. \A s \in SUBSET S : s # {} => Chosen(s) \in S BY DEF Chosen
<1>2. MapThenSumSet(LAMBDA d : readings[d].energy, S) = Sum([d \in S |-> readings[d].energy], S)
  <2> DEFINE g == [d \in S |-> readings[d].energy]
             P(f) == f = [s \in SUBSET S |-> IF s = {} THEN 0
                                             ELSE readings[Chosen(s)].energy + f[s \ {Chosen(s)}]]
  <2>1. MapThenSumSet(LAMBDA d : readings[d].energy, S) = (CHOOSE f : P(f))[S]
    BY DEF MapThenSumSet, MapThenFoldSet, Chosen
  <2>2. \A s \in SUBSET S : s # {} => g[Chosen(s)] = readings[Chosen(s)].energy BY <1>1
  <2>3. \A f : P(f) <=> Partial(g, S, f) BY <2>2 DEF Partial, Plus
  <2> HIDE DEF P, g
  <2>4. (CHOOSE f : P(f)) = (CHOOSE f : Partial(g, S, f)) BY <2>3
  <2> QED BY <2>1, <2>4, SumIs DEF g
<1>3. MapThenSumSet(LAMBDA d : readings[d].rate, S) = Sum([d \in S |-> readings[d].rate], S)
  <2> DEFINE g == [d \in S |-> readings[d].rate]
             P(f) == f = [s \in SUBSET S |-> IF s = {} THEN 0
                                             ELSE readings[Chosen(s)].rate + f[s \ {Chosen(s)}]]
  <2>1. MapThenSumSet(LAMBDA d : readings[d].rate, S) = (CHOOSE f : P(f))[S]
    BY DEF MapThenSumSet, MapThenFoldSet, Chosen
  <2>2. \A s \in SUBSET S : s # {} => g[Chosen(s)] = readings[Chosen(s)].rate BY <1>1
  <2>3. \A f : P(f) <=> Partial(g, S, f) BY <2>2 DEF Partial, Plus
  <2> HIDE DEF P, g
  <2>4. (CHOOSE f : P(f)) = (CHOOSE f : Partial(g, S, f)) BY <2>3
  <2> QED BY <2>1, <2>4, SumIs DEF g
<1> QED BY <1>2, <1>3

\* The function exists: with one battery it is known, and what is known of n is
\* known of n + 1.
LEMMA SumExists ==
  ASSUME NEW S, IsFiniteSet(S), NEW g
  PROVE  \E f : Partial(g, S, f)
<1> DEFINE Upto(n) == {s \in SUBSET S : Cardinality(s) <= n}
           Good(n) == \E f : f = [s \in Upto(n) |-> Plus(g, f, s)]
           Bad == {n \in Nat : ~Good(n)}
<1>1. \A s \in SUBSET S : IsFiniteSet(s) /\ Cardinality(s) \in Nat
  BY FS_Subset, FS_CardinalityType
<1>2. Good(0)
  <2> DEFINE f == [s \in Upto(0) |-> 0]
  <2>1. \A s \in Upto(0) : s = {}
    BY <1>1, FS_EmptySet
  <2>2. \A s \in Upto(0) : Plus(g, f, s) = 0 BY <2>1 DEF Plus
  <2>3. f = [s \in Upto(0) |-> Plus(g, f, s)] BY <2>2
  <2> QED BY <2>3
<1>3. ASSUME NEW n \in Nat, Good(n) PROVE Good(n + 1)
  <2>1. PICK f : f = [s \in Upto(n) |-> Plus(g, f, s)] BY <1>3
  <2> DEFINE h == [s \in Upto(n + 1) |-> Plus(g, f, s)]
  <2>2. ASSUME NEW s \in Upto(n + 1), s # {} PROVE h[s \ {Chosen(s)}] = f[s \ {Chosen(s)}]
    <3> DEFINE r == s \ {Chosen(s)}
    <3>1. Chosen(s) \in s BY <2>2 DEF Chosen
    <3>2. Cardinality(r) = Cardinality(s) - 1 BY <1>1, <3>1, FS_RemoveElement
    <3>3. r \in Upto(n) /\ r \in Upto(n + 1) BY <1>1, <3>2
    <3> HIDE DEF Upto, r
    <3>4. f[r] = Plus(g, f, r) BY <2>1, <3>3
    <3>5. h[r] = Plus(g, f, r) BY <3>3
    <3> QED BY <3>4, <3>5 DEF r
  <2>3. \A s \in Upto(n + 1) : Plus(g, f, s) = Plus(g, h, s) BY <2>2 DEF Plus
  <2> HIDE DEF Upto
  <2>4. h = [s \in Upto(n + 1) |-> Plus(g, h, s)] BY <2>3
  <2> QED BY <2>4
<1>4. Bad = {}
  <2> SUFFICES ASSUME Bad # {} PROVE FALSE OBVIOUS
  <2> HIDE DEF Good
  <2>1. PICK n \in Bad : \A m \in Bad : n <= m BY Least
  <2>2. n \in Nat /\ n # 0 /\ ~Good(n) BY <1>2
  <2>3. n - 1 \in Nat /\ n - 1 \notin Bad BY <2>1, <2>2
  <2>4. Good(n - 1) BY <2>3
  <2>5. Good((n - 1) + 1) BY <1>3, <2>3, <2>4
  <2>6. (n - 1) + 1 = n BY <2>2
  <2> QED BY <2>2, <2>5, <2>6
<1>5. Cardinality(S) \in Nat BY FS_CardinalityType
<1>6. Upto(Cardinality(S)) = SUBSET S BY <1>1, <1>5, FS_Subset
<1>7. Good(Cardinality(S)) BY <1>4, <1>5
<1> HIDE DEF Upto
<1> QED BY <1>6, <1>7 DEF Partial

\* The energy of full batteries is as many times that of one.
LEMMA SumOfEqual ==
  ASSUME NEW S, IsFiniteSet(S), NEW g, NEW c \in Nat, \A d \in S : g[d] = c
  PROVE  Sum(g, S) = c * Cardinality(S)
<1> DEFINE f == CHOOSE f : Partial(g, S, f)
<1>1. Partial(g, S, f) BY SumExists
<1> HIDE DEF f
<1>2. \A s \in SUBSET S : f[s] = Plus(g, f, s) BY <1>1 DEF Partial
<1>3. \A s \in SUBSET S : IsFiniteSet(s) /\ Cardinality(s) \in Nat
  BY FS_Subset, FS_CardinalityType
<1> DEFINE Bad == {n \in Nat : \E s \in SUBSET S : Cardinality(s) = n /\ f[s] # c * n}
<1>4. Bad = {}
  <2> SUFFICES ASSUME Bad # {} PROVE FALSE OBVIOUS
  <2>1. PICK n \in Bad : \A m \in Bad : n <= m BY Least
  <2>2. PICK s \in SUBSET S : n \in Nat /\ Cardinality(s) = n /\ f[s] # c * n OBVIOUS
  <2>3. CASE s = {}
    <3>1. f[s] = 0 BY <1>2, <2>3 DEF Plus
    <3>2. n = 0 BY <2>2, <2>3, FS_EmptySet
    <3> QED BY <2>2, <3>1, <3>2
  <2>4. CASE s # {}
    <3> DEFINE r == s \ {Chosen(s)}
    <3>1. Chosen(s) \in s BY <2>4 DEF Chosen
    <3>a. r \in SUBSET S OBVIOUS
    <3>b. Cardinality(r) = Cardinality(s) - 1 BY <1>3, <3>1, FS_RemoveElement
    <3>c. Cardinality(r) \in Nat BY <1>3, <3>a
    <3>2. Cardinality(r) = n - 1 /\ n - 1 \in Nat BY <2>2, <3>b, <3>c
    <3>3. n - 1 \notin Bad BY <2>1, <2>2, <3>2
    <3>4. f[r] = c * (n - 1) BY <3>2, <3>3
    <3>5. f[s] = g[Chosen(s)] + f[r] BY <1>2, <2>4 DEF Plus
    <3>6. f[s] = c + c * (n - 1) BY <3>1, <3>4, <3>5
    <3>7. c + c * (n - 1) = c * n BY <2>2
    <3> QED BY <2>2, <3>6, <3>7
  <2> QED BY <2>3, <2>4
<1>5. Cardinality(S) \in Nat BY FS_CardinalityType
<1>6. f[S] = c * Cardinality(S) BY <1>4, <1>5
<1> QED BY <1>6, SumIs DEF f

-----------------------------------------------------------------------------
(* Baselines.                                                              *)

\* What every reading, list and baseline is.
BatteryTypes ==
  /\ machine \in Machines
  /\ dev \in [Device -> Reading]
  /\ old = [t \in Target |-> old[t]]

\* Without hotplug the devices that are listed and watched are the machine's.
Fixed == listed = machine.devices /\ watched = machine.devices

\* Every target is compared, next time, with the warning level it has.
Fresh == \A d \in listed : old[TargetOf(d, listed)].warning = WarningNow(d)

BaselineInv ==
  /\ BatteryTypes
  /\ Calm({"late", "low"}) => Fixed /\ (Composed => Fresh)

LEMMA MachineFacts ==
  ASSUME machine \in Machines
  PROVE  machine.devices \subseteq Device /\ machine.upsets \subseteq AllUpsets
BY MachinesAssumption

\* The composite of some batteries depends on their readings only.
LEMMA CompositeDepends ==
  ASSUME NEW S, NEW r1, NEW r2, \A d \in S : r1[d] = r2[d]
  PROVE  CompositeMeasure(r1, S) = CompositeMeasure(r2, S)
<1>1. [d \in S |-> r1[d].energy] = [d \in S |-> r2[d].energy] OBVIOUS
<1>2. [d \in S |-> r1[d].rate] = [d \in S |-> r2[d].rate] OBVIOUS
<1>3. {r1[d].state : d \in S} = {r2[d].state : d \in S} OBVIOUS
<1> DEFINE e1 == MapThenSumSet(LAMBDA d : r1[d].energy, S)
           e2 == MapThenSumSet(LAMBDA d : r2[d].energy, S)
           q1 == MapThenSumSet(LAMBDA d : r1[d].rate, S)
           q2 == MapThenSumSet(LAMBDA d : r2[d].rate, S)
<1>4. e1 = e2
  <2>1. e1 = Sum([d \in S |-> r1[d].energy], S) BY EnergyIsSum
  <2>2. e2 = Sum([d \in S |-> r2[d].energy], S) BY EnergyIsSum
  <2> QED BY <1>1, <2>1, <2>2
<1>5. q1 = q2
  <2>1. q1 = Sum([d \in S |-> r1[d].rate], S) BY EnergyIsSum
  <2>2. q2 = Sum([d \in S |-> r2[d].rate], S) BY EnergyIsSum
  <2> QED BY <1>2, <2>1, <2>2
<1>6. CompositeMeasure(r1, S) =
        [energy |-> e1, full |-> Full * Cardinality(S), rate |-> q1,
         state |-> CompositeState({r1[d].state : d \in S})]
  BY DEF CompositeMeasure
<1>7. CompositeMeasure(r2, S) =
        [energy |-> e2, full |-> Full * Cardinality(S), rate |-> q2,
         state |-> CompositeState({r2[d].state : d \in S})]
  BY DEF CompositeMeasure
<1> HIDE DEF e1, e2, q1, q2
<1> QED BY <1>3, <1>4, <1>5, <1>6, <1>7

\* Two devices have the same target only if they are judged by the same measure.
LEMMA SameTarget ==
  ASSUME NEW L \in SUBSET Device, NEW d \in L, NEW e \in L, NEW readings,
         TargetOf(d, L) = TargetOf(e, L)
  PROVE  /\ Kind[d] = Kind[e] /\ MeasureOf(readings, d, L) = MeasureOf(readings, e, L)
<1>1. d # Composite /\ e # Composite BY DeviceAssumption
<1>2. CASE UsesComposite(d, L)
  <2>1. UsesComposite(e, L) BY <1>1, <1>2 DEF TargetOf
  <2> QED BY <1>2, <2>1 DEF MeasureOf, UsesComposite
<1>3. CASE ~UsesComposite(d, L)
  <2>1. d = e BY <1>1, <1>3 DEF TargetOf
  <2> QED BY <2>1
<1> QED BY <1>2, <1>3

\* A device whose target is another one does not change what that is judged by.
LEMMA OtherTarget ==
  ASSUME NEW L \in SUBSET Device, NEW d \in L, NEW e \in L, NEW r1, NEW r2,
         TargetOf(d, L) # TargetOf(e, L), \A x \in L \ {d} : r1[x] = r2[x]
  PROVE  MeasureOf(r1, e, L) = MeasureOf(r2, e, L)
<1>1. CASE UsesComposite(e, L)
  <2>1. ~UsesComposite(d, L) BY <1>1 DEF TargetOf
  <2>2. d \notin Batteries(L) BY <1>1, <2>1 DEF UsesComposite, Batteries
  <2>3. \A x \in Batteries(L) : r1[x] = r2[x] BY <2>2 DEF Batteries
  <2>4. CompositeMeasure(r1, Batteries(L)) = CompositeMeasure(r2, Batteries(L))
    BY <2>3, CompositeDepends
  <2> QED BY <1>1, <2>4 DEF MeasureOf
<1>2. CASE ~UsesComposite(e, L)
  <2>1. e # d OBVIOUS
  <2>2. r1[e] = r2[e] BY <2>1
  <2> QED BY <1>2, <2>2 DEF MeasureOf
<1> QED BY <1>1, <1>2

\* The handler compares and saves the level of the device's target; the other
\* targets have the level they had.
LEMMA HandledFresh ==
  ASSUME NEW d \in listed, listed \in SUBSET Device, listed' = listed,
         old = [t \in Target |-> old[t]], \A x \in listed \ {d} : dev'[x] = dev[x],
         HandleChanged(d, dev'), Fresh
  PROVE  Fresh'
<1> DEFINE t == TargetOf(d, listed)
           b == BaselineOf(Kind[d], MeasureOf(dev', d, listed))
<1>1. old' = [old EXCEPT ![t] = b] BY DEF HandleChanged, Save
<1>2. b.warning = GetWarning(Kind[d], MeasureOf(dev', d, listed)) BY DEF BaselineOf
<1>3. \A x \in listed : TargetOf(x, listed) \in Target BY DEF TargetOf, Target
<1>4. t \in Target BY <1>3
<1> HIDE DEF b
<1>5. ASSUME NEW e \in listed
      PROVE  old'[TargetOf(e, listed)].warning = GetWarning(Kind[e], MeasureOf(dev', e, listed))
  <2>1. CASE TargetOf(e, listed) = t
    <3>1. Kind[d] = Kind[e] /\ MeasureOf(dev', d, listed) = MeasureOf(dev', e, listed)
      BY <2>1, SameTarget
    <3>2. old'[t] = b BY <1>1, <1>4
    <3> QED BY <1>2, <2>1, <3>1, <3>2
  <2>2. CASE TargetOf(e, listed) # t
    <3>1. MeasureOf(dev', e, listed) = MeasureOf(dev, e, listed) BY <2>2, OtherTarget
    <3>2. old'[TargetOf(e, listed)] = old[TargetOf(e, listed)] BY <1>1, <1>3, <2>2
    <3>3. old[TargetOf(e, listed)].warning = WarningNow(e) BY DEF Fresh
    <3> QED BY <3>1, <3>2, <3>3 DEF WarningNow
  <2> QED BY <2>1, <2>2
<1> QED BY <1>5 DEF Fresh, WarningNow

\* What the changes of a device have in common: its new reading is one, and a
\* battery that is full has all its energy.
Whole(r) == r.state # "unknown" /\ (r.state = "full" => r.energy = Full)

LEMMA ReadingChanges ==
  ASSUME BatteryTypes, NEW d \in machine.devices,
         \/ Drain(d) \/ Charge(d) \/ RateKnown(d)
         \/ \E s \in State : NewState(d, s)
  PROVE  \E r \in Reading : DeviceChanges(d, r) /\ (Whole(dev[d]) => Whole(r))
<1>1. d \in Device /\ dev[d] \in Reading BY MachineFacts DEF BatteryTypes
<1>2. Full \in Nat BY PolicyAssumption
<1> DEFINE r == dev[d]
<1>3. /\ r.energy \in 0 .. Full /\ r.state \in State /\ r.rate \in 0 .. 1
      /\ r = [energy |-> r.energy, state |-> r.state, rate |-> r.rate]
  BY <1>1 DEF Reading
<1>4. CASE Drain(d)
  <2> DEFINE n == [r EXCEPT !.energy = @ - 1]
  <2>1. DeviceChanges(d, n) /\ r.state = "discharging" /\ r.energy > 0 BY <1>4 DEF Drain
  <2>2. n \in Reading /\ Whole(n) BY <1>1, <1>2, <1>3, <2>1 DEF Reading, Whole
  <2> QED BY <2>1, <2>2
<1>5. CASE Charge(d)
  <2> DEFINE n == [r EXCEPT !.energy = @ + 1]
  <2>1. DeviceChanges(d, n) /\ r.state = "charging" /\ r.energy < Full BY <1>5 DEF Charge
  <2>2. n \in Reading /\ Whole(n) BY <1>1, <1>2, <1>3, <2>1 DEF Reading, Whole
  <2> QED BY <2>1, <2>2
<1>6. CASE RateKnown(d)
  <2> DEFINE n == [r EXCEPT !.rate = 1 - @]
  <2>1. DeviceChanges(d, n) /\ r.state = "discharging" BY <1>6 DEF RateKnown
  <2>2. n \in Reading /\ Whole(n) BY <1>1, <1>2, <1>3, <2>1 DEF Reading, Whole
  <2> QED BY <2>1, <2>2
<1>7. ASSUME NEW s \in State, NewState(d, s) PROVE \E x \in Reading : DeviceChanges(d, x) /\ (Whole(dev[d]) => Whole(x))
  <2> DEFINE n == [r EXCEPT !.state = s]
  <2>1. DeviceChanges(d, n) /\ s # "unknown" /\ (s = "full" => r.energy = Full)
    BY <1>7 DEF NewState
  <2>2. n \in Reading /\ Whole(n) BY <1>1, <1>2, <1>3, <1>7, <2>1 DEF Reading, Whole
  <2> QED BY <2>1, <2>2
<1> QED BY <1>4, <1>5, <1>6, <1>7

\* A change that is heard of is handled, one that is not leaves the memory.
LEMMA ChangeKeeps ==
  ASSUME BaselineInv, NEW d \in machine.devices, NEW r \in Reading, DeviceChanges(d, r),
         machine' = machine
  PROVE  BaselineInv'
<1>1. BatteryTypes BY DEF BaselineInv
<1>2. machine.devices \subseteq Device BY <1>1, MachineFacts DEF BatteryTypes
<1>3. /\ dev' = [dev EXCEPT ![d] = r] /\ UNCHANGED <<listed, watched>>
      /\ \/ d \in watched /\ HandleChanged(d, dev')
         \/ /\ d \notin watched \/ "missed" \in machine.upsets
            /\ UNCHANGED old
  BY DEF DeviceChanges
<1>4. dev' \in [Device -> Reading] BY <1>1, <1>3 DEF BatteryTypes
<1>5. old' = [t \in Target |-> old'[t]]
  <2>1. CASE UNCHANGED old BY <1>1, <2>1 DEF BatteryTypes
  <2>2. CASE HandleChanged(d, dev')
    <3> DEFINE b == BaselineOf(Kind[d], MeasureOf(dev', d, listed))
    <3>1. old' = [old EXCEPT ![TargetOf(d, listed)] = b] BY <2>2 DEF HandleChanged, Save
    <3> HIDE DEF b
    <3> QED BY <1>1, <3>1 DEF BatteryTypes
  <2> QED BY <1>3, <2>1, <2>2
<1>6. BatteryTypes' BY <1>1, <1>4, <1>5 DEF BatteryTypes
<1>7. ASSUME Calm({"late", "low"})' PROVE Fixed' /\ (Composed' => Fresh')
  <2>1. Calm({"late", "low"}) /\ "missed" \notin machine.upsets BY <1>7 DEF Calm
  <2>2. Fixed /\ (Composed => Fresh) BY <2>1 DEF BaselineInv
  <2>3. Fixed' BY <1>3, <2>2 DEF Fixed
  <2>4. d \in watched /\ d \in listed /\ listed \in SUBSET Device BY <1>2, <2>2 DEF Fixed
  <2>5. HandleChanged(d, dev') BY <1>3, <2>1, <2>4
  <2>6. \A x \in listed \ {d} : dev'[x] = dev[x] BY <1>1, <1>3, <2>4 DEF BatteryTypes
  <2>7. Composed' => Composed BY DEF Composed
  <2>8. Fresh => Fresh' BY <1>1, <1>3, <2>4, <2>5, <2>6, HandledFresh DEF BatteryTypes
  <2> QED BY <2>2, <2>3, <2>7, <2>8
<1> QED BY <1>6, <1>7 DEF BaselineInv

LEMMA BaselineStart == Init => BaselineInv
<1> SUFFICES ASSUME Init PROVE BaselineInv OBVIOUS
<1>1. machine \in Machines /\ dev \in [Device -> FirstReading] BY DEF Init
<1>2. dev \in [Device -> Reading]
  <2>1. FirstReading \subseteq Reading BY DEF FirstReading
  <2>2. Full \in Nat BY PolicyAssumption
  <2> QED BY <1>1, <2>1
<1>3. PICK c \in CompositeBaseline(dev) :
        old = [t \in Target |-> IF t = Composite THEN c ELSE BaselineOf(Kind[t], Measure(dev[t]))]
  BY DEF Init
<1>4. old = [t \in Target |-> old[t]] BY <1>3
<1>5. Fixed BY DEF Init, Fixed
<1>6. ASSUME Composed PROVE Fresh
  <2> SUFFICES ASSUME NEW d \in listed PROVE old[TargetOf(d, listed)].warning = WarningNow(d)
    BY DEF Fresh
  <2>1. listed = machine.devices /\ d \in Device /\ d # Composite
    BY <1>1, <1>5, MachineFacts, DeviceAssumption DEF Fixed
  <2> DEFINE B == Batteries(machine.devices)
  <2>2. CASE UsesComposite(d, listed)
    <3>1. d \in B /\ Cardinality(B) # 1 BY <2>1, <2>2 DEF UsesComposite, Batteries
    <3>2. IsFiniteSet(B)
      BY <1>1, MachineFacts, DeviceAssumption, FS_Subset DEF Batteries
    <3>3. Cardinality(B) \in Nat /\ Cardinality(B) # 0
      BY <3>1, <3>2, FS_CardinalityType, FS_EmptySet
    <3>4. machine.legacy BY <1>6, <3>1, <3>3 DEF Composed
    <3>5. c = BaselineOf("battery", CompositeMeasure(dev, B)) BY <1>3, <3>4 DEF CompositeBaseline
    <3>6. old[Composite] = c BY <1>3 DEF Target
    <3>7. TargetOf(d, listed) = Composite /\ Kind[d] = "battery" BY <2>2 DEF TargetOf, UsesComposite
    <3>8. WarningNow(d) = GetWarning("battery", CompositeMeasure(dev, B))
      BY <2>1, <2>2, <3>7 DEF WarningNow, MeasureOf
    <3> QED BY <3>5, <3>6, <3>7, <3>8 DEF BaselineOf
  <2>3. CASE ~UsesComposite(d, listed)
    <3>1. TargetOf(d, listed) = d BY <2>3 DEF TargetOf
    <3>2. old[d] = BaselineOf(Kind[d], Measure(dev[d])) BY <1>3, <2>1 DEF Target
    <3>3. WarningNow(d) = GetWarning(Kind[d], Measure(dev[d])) BY <2>3 DEF WarningNow, MeasureOf
    <3> QED BY <3>1, <3>2, <3>3 DEF BaselineOf
  <2> QED BY <2>2, <2>3
<1> QED BY <1>1, <1>2, <1>4, <1>5, <1>6 DEF BaselineInv, BatteryTypes

LEMMA BaselineStep == BaselineInv /\ [Next]_vars => BaselineInv'
<1> SUFFICES ASSUME BaselineInv, [Next]_vars PROVE BaselineInv' OBVIOUS
<1>0. machine' = machine BY DEF Next, vars
<1>1. ASSUME NEW d \in machine.devices,
             \/ Drain(d) \/ Charge(d) \/ RateKnown(d) \/ \E s \in State : NewState(d, s)
      PROVE  BaselineInv'
  <2>1. PICK r \in Reading : DeviceChanges(d, r) BY <1>1, ReadingChanges DEF BaselineInv
  <2> QED BY <1>0, <2>1, ChangeKeeps
<1>2. CASE OnBatteryChanges \/ LidMoves \/ CriticalActionDo \/ UNCHANGED vars
  <2>1. UNCHANGED <<dev, listed, watched, old, machine>>
    BY <1>0, <1>2 DEF OnBatteryChanges, LidMoves, CriticalActionDo, vars
  <2> QED BY <2>1 DEF BaselineInv, BatteryTypes, Fixed, Fresh, Composed, Calm, WarningNow
<1>3. ASSUME NEW d \in machine.devices, DeviceAdded(d) \/ DeviceRemoved(d) PROVE BaselineInv'
  <2>1. "hotplug" \in machine.upsets /\ dev' = dev BY <1>3 DEF DeviceAdded, DeviceRemoved
  <2>2. old' = [t \in Target |-> old'[t]]
    BY <1>3 DEF DeviceAdded, DeviceRemoved, BaselineInv, BatteryTypes
  <2>3. ~Calm({"late", "low"})' BY <1>0, <2>1 DEF Calm
  <2> QED BY <1>0, <2>1, <2>2, <2>3 DEF BaselineInv, BatteryTypes
<1> QED BY <1>0, <1>1, <1>2, <1>3 DEF Next, Step

\* No crossing is lost: each target is compared, next time, with the warning
\* level it has now, whatever was ignored on AC, charged or unplugged meanwhile
\* (csd-power-manager.c:1808), for any number of batteries that are composed.
THEOREM NoCrossingLost == Spec => []BaselineFresh
<1>1. BaselineInv => BaselineFresh BY DEF BaselineInv, Fresh, BaselineFresh
<1> QED BY <1>1, BaselineStart, BaselineStep, PTL DEF Spec

-----------------------------------------------------------------------------
(* The critical action.                                                    *)

\* A battery that has all its energy is at no level below 100 %.
LEMMA AllEnergy ==
  ASSUME NEW a \in Nat, a < 100, NEW e \in Nat \ {0}
  PROVE  ~(100 * e <= a * e)
<1>1. (100 - a) * e > 0 BY SMT
<1>2. (100 - a) * e = 100 * e - a * e BY SMT
<1>3. 100 * e \in Int /\ a * e \in Int BY SMT
<1> QED BY <1>1, <1>2, <1>3

LEMMA FullIsNoAction ==
  ASSUME Percentage.action < 100, NEW m, m.state = "full", NEW n \in Nat \ {0},
         m.energy = n, m.full = n
  PROVE  GetWarning("battery", m) # "action"
<1>1. TimeToEmpty(m) = 0 BY DEF TimeToEmpty
<1>2. Percentage.action \in Nat BY PolicyAssumption DEF Threshold
<1>3. ~(100 * m.energy <= Percentage.action * m.full) BY <1>2, AllEnergy
<1>4. GetWarningPercentage(m) # "action" BY <1>3 DEF GetWarningPercentage
<1>5. GetWarningTime(m) # "action" BY <1>1, <1>4 DEF GetWarningTime
<1> QED BY <1>4, <1>5 DEF GetWarning

\* While no battery is discharging, none asks for the action: those that charge
\* warn of nothing, and when all are full so is the composite.
LEMMA NoneEmptying ==
  ASSUME Percentage.action < 100, listed \in SUBSET Device,
         \A e \in Batteries(listed) : dev[e].state \in {"charging", "full"} /\ Whole(dev[e]),
         NEW d \in Batteries(listed)
  PROVE  WarningNow(d) # "action"
<1>1. d \in listed /\ Kind[d] = "battery" /\ Full \in Nat \ {0}
  BY PolicyAssumption DEF Batteries
<1>2. CASE ~UsesComposite(d, listed)
  <2> DEFINE m == Measure(dev[d])
  <2>1. WarningNow(d) = GetWarning("battery", m) BY <1>1, <1>2 DEF WarningNow, MeasureOf
  <2>2. m.state = dev[d].state /\ m.energy = dev[d].energy /\ m.full = Full BY DEF Measure
  <2> HIDE DEF m
  <2>3. CASE dev[d].state = "charging" BY <2>1, <2>2, <2>3 DEF GetWarning
  <2>4. CASE dev[d].state = "full"
    BY <1>1, <2>1, <2>2, <2>4, FullIsNoAction DEF Whole
  <2> QED BY <2>3, <2>4
<1>3. CASE UsesComposite(d, listed)
  <2> DEFINE S == Batteries(listed)
             m == CompositeMeasure(dev, S)
             states == {dev[e].state : e \in S}
             energy == MapThenSumSet(LAMBDA e : dev[e].energy, S)
  <2>1. WarningNow(d) = GetWarning("battery", m) BY <1>1, <1>3 DEF WarningNow, MeasureOf
  <2>2. m.state = CompositeState(states) /\ m.energy = energy /\ m.full = Full * Cardinality(S)
    BY DEF CompositeMeasure
  <2>3. IsFiniteSet(S) BY DeviceAssumption, FS_Subset DEF Batteries
  <2>4. Cardinality(S) \in Nat \ {0} BY <2>3, FS_CardinalityType, FS_EmptySet
  <2>5. energy = Sum([e \in S |-> dev[e].energy], S) BY EnergyIsSum
  <2> HIDE DEF energy, m
  <2>6. states \subseteq {"charging", "full"} OBVIOUS
  <2>7. CASE "charging" \in states
    <3>1. m.state = "charging" BY <2>2, <2>7 DEF CompositeState
    <3> QED BY <2>1, <3>1 DEF GetWarning
  <2>8. CASE "charging" \notin states
    <3>1. states \subseteq {"full"} BY <2>6, <2>8
    <3>2. m.state = "full" BY <2>2, <3>1 DEF CompositeState
    <3>3. \A e \in S : dev[e].state = "full" BY <3>1
    <3>4. \A e \in S : dev[e].energy = Full BY <3>3 DEF Whole
    <3> DEFINE g == [e \in S |-> dev[e].energy]
    <3>5. \A e \in S : g[e] = Full BY <3>4
    <3> HIDE DEF g, S
    <3>6. Sum(g, S) = Full * Cardinality(S) BY <1>1, <2>3, <3>5, SumOfEqual
    <3>7. energy = Full * Cardinality(S) BY <2>5, <3>6 DEF g
    <3>8. Full * Cardinality(S) \in Nat \ {0}
      <4> DEFINE n == Cardinality(S)
      <4>1. n \in Nat \ {0} BY <2>4
      <4> HIDE DEF n
      <4>2. Full * n \in Nat \ {0} BY <1>1, <4>1, SMT
      <4> QED BY <4>2 DEF n
    <3> QED BY <2>1, <2>2, <3>2, <3>7, <3>8, FullIsNoAction
  <2> QED BY <2>7, <2>8
<1> QED BY <1>2, <1>3

\* While UPower's news are in order the states are those of a reading, and a
\* machine on battery power whose battery asks for the action has started it.
Started ==
  \A d \in Batteries(listed) :
    onBattery /\ WarningNow(d) = "action" => TargetOf(d, listed) \in armed

ActionInv ==
  /\ BaselineInv
  /\ Calm({}) => /\ \A d \in machine.devices : Whole(dev[d])
                 /\ Composed => Started

\* The handler starts the action when the level is reached; a level it was at
\* already, as the baseline says, had started it.
LEMMA HandledStarts ==
  ASSUME NEW d \in listed, listed \in SUBSET Device, listed' = listed, onBattery' = onBattery,
         \A x \in listed \ {d} : dev'[x] = dev[x],
         HandleChanged(d, dev'), Fresh, Started
  PROVE  Started'
<1> DEFINE t == TargetOf(d, listed)
           b == BaselineOf(Kind[d], MeasureOf(dev', d, listed))
           act == Reaches(t, b, "action") /\ Supplies(Kind[d])
<1>1. armed' = IF b.warning # "action" THEN armed \ {t} ELSE IF act THEN armed \cup {t} ELSE armed
  BY DEF HandleChanged
<1>2. b.warning = GetWarning(Kind[d], MeasureOf(dev', d, listed)) BY DEF BaselineOf
<1>3. Reaches(t, b, "action") <=> b.warning = "action" /\ old[t].warning # "action" BY DEF Reaches
<1> HIDE DEF b
<1>4. ASSUME NEW e \in Batteries(listed), onBattery,
             GetWarning(Kind[e], MeasureOf(dev', e, listed)) = "action"
      PROVE  TargetOf(e, listed) \in armed'
  <2>0. e \in listed /\ Kind[e] = "battery" BY DEF Batteries
  <2>1. CASE TargetOf(e, listed) = t
    <3>1. Kind[d] = Kind[e] /\ MeasureOf(dev', d, listed) = MeasureOf(dev', e, listed)
          /\ MeasureOf(dev, d, listed) = MeasureOf(dev, e, listed)
      BY <2>0, <2>1, SameTarget
    <3>2. b.warning = "action" /\ Supplies(Kind[d]) BY <1>2, <1>4, <2>0, <3>1 DEF Supplies
    <3>3. CASE old[t].warning # "action" BY <1>1, <1>3, <2>1, <3>2, <3>3
    <3>4. CASE old[t].warning = "action"
      <4>1. WarningNow(e) = "action" BY <2>0, <2>1, <3>4 DEF Fresh
      <4>2. TargetOf(e, listed) \in armed BY <1>4, <4>1 DEF Started
      <4> QED BY <1>1, <2>1, <3>2, <4>2
    <3> QED BY <3>3, <3>4
  <2>2. CASE TargetOf(e, listed) # t
    <3>1. MeasureOf(dev', e, listed) = MeasureOf(dev, e, listed) BY <2>0, <2>2, OtherTarget
    <3>2. WarningNow(e) = "action" BY <1>4, <3>1 DEF WarningNow
    <3>3. TargetOf(e, listed) \in armed BY <1>4, <3>2 DEF Started
    <3> QED BY <1>1, <2>2, <3>3
  <2> QED BY <2>1, <2>2
<1> QED BY <1>4 DEF Started, WarningNow

LEMMA ActionStart == Percentage.action < 100 /\ Init => ActionInv
<1> SUFFICES ASSUME Percentage.action < 100, Init PROVE ActionInv OBVIOUS
<1>1. BaselineInv BY BaselineStart
<1>2. listed = machine.devices /\ listed \in SUBSET Device /\ dev \in [Device -> FirstReading]
  BY MachineFacts DEF Init
<1>3. ASSUME Calm({}) PROVE (\A d \in machine.devices : dev[d].state = "full" /\ Whole(dev[d])) /\ Started
  <2>1. "low" \notin machine.upsets BY <1>3 DEF Calm
  <2>2. \A d \in machine.devices : dev[d] \in FirstReading BY <1>2
  <2>3. \A d \in machine.devices : dev[d].state = "full" /\ dev[d].energy = Full
    BY <2>1, <2>2 DEF FirstReading
  <2>4. \A d \in machine.devices : dev[d].state = "full" /\ Whole(dev[d]) BY <2>3 DEF Whole
  <2>5. \A e \in Batteries(listed) : dev[e].state \in {"charging", "full"} /\ Whole(dev[e])
    BY <1>2, <2>4 DEF Batteries
  <2>6. \A d \in Batteries(listed) : WarningNow(d) # "action" BY <1>2, <2>5, NoneEmptying
  <2> QED BY <2>4, <2>6 DEF Started
<1> QED BY <1>1, <1>3 DEF ActionInv

LEMMA ActionStep == Percentage.action < 100 /\ ActionInv /\ [Next]_vars => ActionInv'
<1> SUFFICES ASSUME Percentage.action < 100, ActionInv, [Next]_vars PROVE ActionInv' OBVIOUS
<1>0. machine' = machine BY DEF Next, vars
<1>1. BaselineInv /\ BaselineInv' BY BaselineStep DEF ActionInv
<1>2. SUFFICES ASSUME Calm({}) PROVE (\A d \in machine.devices : Whole(dev'[d])) /\ (Composed => Started')
  BY <1>0, <1>1 DEF ActionInv, Calm, Composed
<1>3. /\ \A d \in machine.devices : Whole(dev[d])
      /\ Composed => Started
  BY <1>2 DEF ActionInv
<1>4. Fixed /\ (Composed => Fresh) BY <1>1, <1>2 DEF BaselineInv, Calm
<1>5. listed = machine.devices /\ listed \in SUBSET Device
  BY <1>1, <1>4, MachineFacts DEF BaselineInv, BatteryTypes, Fixed
<1>6. ASSUME NEW d \in machine.devices,
             \/ Drain(d) \/ Charge(d) \/ RateKnown(d) \/ \E s \in State : NewState(d, s)
      PROVE  (\A x \in machine.devices : Whole(dev'[x])) /\ (Composed => Started')
  <2>1. PICK r \in Reading : DeviceChanges(d, r) /\ (Whole(dev[d]) => Whole(r))
    BY <1>1, <1>6, ReadingChanges DEF BaselineInv
  <2>2. dev' = [dev EXCEPT ![d] = r] /\ listed' = listed /\ onBattery' = onBattery
    BY <2>1 DEF DeviceChanges
  <2>3. dev \in [Device -> Reading] BY <1>1 DEF BaselineInv, BatteryTypes
  <2>4. dev'[d] = r /\ \A x \in listed \ {d} : dev'[x] = dev[x] BY <1>5, <2>2, <2>3
  <2>5. \A x \in machine.devices : Whole(dev'[x]) BY <1>3, <1>5, <2>1, <2>4
  <2>6. HandleChanged(d, dev') BY <1>2, <1>4, <2>1 DEF DeviceChanges, Calm, Fixed
  <2>7. Composed => Started' BY <1>3, <1>4, <1>5, <2>2, <2>4, <2>6, HandledStarts
  <2> QED BY <2>5, <2>7
<1>7. CASE OnBatteryChanges
  <2>1. UNCHANGED <<dev, listed, armed>> /\ onBattery' = ~onBattery /\ Settled
    BY <1>7 DEF OnBatteryChanges
  <2>2. Started'
    <3> SUFFICES ASSUME NEW d \in Batteries(listed), onBattery' PROVE WarningNow(d) # "action"
      BY <2>1 DEF Started, WarningNow
    <3>1. ~onBattery /\ \A e \in machine.devices : Fits(e, dev[e].state)
      BY <1>2, <2>1 DEF Settled, Calm
    <3>2. ASSUME NEW e \in Batteries(listed)
          PROVE  dev[e].state \in {"charging", "full"} /\ Whole(dev[e])
      <4>1. e \in machine.devices /\ Kind[e] = "battery" BY <1>5 DEF Batteries
      <4>2. dev[e].state # "discharging" BY <1>2, <3>1, <4>1 DEF Fits, Calm
      <4>3. dev[e].state \in State
        BY <1>1, <1>5, <4>1 DEF BaselineInv, BatteryTypes, Reading
      <4> QED BY <1>3, <4>1, <4>2, <4>3 DEF State, Whole
    <3> QED BY <1>5, <3>2, NoneEmptying
  <2> QED BY <1>3, <2>1, <2>2
<1>8. CASE LidMoves \/ CriticalActionDo \/ UNCHANGED vars
  <2>1. UNCHANGED <<dev, listed, armed, onBattery>>
    BY <1>8 DEF LidMoves, CriticalActionDo, vars
  <2> QED BY <1>3, <2>1 DEF Started, WarningNow
<1>9. ASSUME NEW d \in machine.devices, DeviceAdded(d) \/ DeviceRemoved(d) PROVE FALSE
  BY <1>2, <1>9 DEF DeviceAdded, DeviceRemoved, Calm
<1> QED BY <1>6, <1>7, <1>8, <1>9 DEF Next, Step

\* A machine that runs on batteries at the action level has started the action,
\* for any batteries and any policy by which a full battery is not at that level
\* (with "percentage-action" at 100 every machine would be, before any level
\* changes).
THEOREM ActionStarted == Percentage.action < 100 => (Spec => []ActionFollows)
<1> SUFFICES ASSUME Percentage.action < 100 PROVE Spec => []ActionFollows OBVIOUS
<1>1. Init => ActionInv BY ActionStart
<1>2. ActionInv /\ [Next]_vars => ActionInv' BY ActionStep
<1>3. ActionInv => ActionFollows BY DEF ActionInv, Started, ActionFollows
<1> QED BY <1>1, <1>2, <1>3, PTL DEF Spec
=============================================================================
