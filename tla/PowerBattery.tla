---------------------------- MODULE PowerBattery -----------------------------
(***************************************************************************)
(* csd-power-manager.c: watching the batteries.  Each device (or, with two *)
(* or more batteries, a composite of them) has a warning level, and a      *)
(* baseline: the level it had when it was last looked at.  A level that    *)
(* differs from the baseline is acted on: CRITICAL starts an alert that is *)
(* repeated, ACTION a timer that suspends or shuts down the machine.       *)
(*                                                                         *)
(* A reading is what the daemon's proxies hold: it changes, and the        *)
(* handler runs, when UPower's signal is dispatched.  Notifications are in *)
(* PowerNotice, the suspend itself in PowerSleep.                          *)
(***************************************************************************)
EXTENDS Integers, FiniteSets, FiniteSetsExt

CONSTANTS
  Device,
  Kind,          \* [Device -> {"battery", "ups", "mouse"}]
  Full,          \* energy of a full device
  Percentage,    \* "percentage-low", "-critical", "-action": a record
  Time,          \* "time-low", ..., in units of energy per unit of rate
  UseTime,       \* "use-time-for-policy"
  MaxTimers,     \* bound on critical actions that are waiting
  Machines       \* the machines and builds that are looked at

\* late: on-battery and the readings change in any order; missed: a change of
\* the level alone does not run the handler; hotplug: devices come and go;
\* low: the daemon may be started with a low battery.
AllUpsets == {"late", "missed", "hotplug", "low"}

Composite == "composite"
Threshold == [low : Nat, critical : Nat, action : Nat]

ASSUME DeviceAssumption ==
  IsFiniteSet(Device) /\ Composite \notin Device /\ Kind \in [Device -> {"battery", "ups", "mouse"}]
ASSUME PolicyAssumption == Percentage \in Threshold /\ Time \in Threshold /\ Full \in Nat \ {0}
ASSUME FlagAssumption == UseTime \in BOOLEAN
\* legacy: built against UPower before 0.99
ASSUME MachinesAssumption ==
  Machines \subseteq [devices : SUBSET Device, legacy : BOOLEAN, upsets : SUBSET AllUpsets]

Warning == {"none", "discharging", "low", "critical", "action"}
State == {"unknown", "charging", "discharging", "full"}
Target == Device \cup {Composite}

VARIABLES
  dev,        \* [Device -> reading]: energy, state and rate
  listed,     \* priv->devices_array
  watched,    \* the devices whose changes run the handler
  old,        \* "engine-warning-old" and "engine-state-old" of each target
  onBattery,  \* up_client_get_on_battery
  lidClosed,  \* priv->lid_is_closed
  loop,       \* the alert is being repeated (critical_alert_timeout_id)
  timers,     \* critical actions that will be taken within 20 s
  armed,      \* history: targets at ACTION for which the action was started
  machine     \* the machine of this behaviour, chosen at its start

vars == <<dev, listed, watched, old, onBattery, lidClosed, loop, timers, armed, machine>>

Reading == [energy : 0 .. Full, state : State, rate : 0 .. 1]

Batteries(S) == {d \in S : Kind[d] = "battery"}

-----------------------------------------------------------------------------
(* Warning levels.  A measure has the energy, the capacity, the rate and   *)
(* the state of a device or of several batteries together.                 *)

Measure(r) == [energy |-> r.energy, full |-> Full, rate |-> r.rate, state |-> r.state]

CompositeState(states) ==
  IF "charging" \in states THEN "charging"
  ELSE IF "discharging" \in states THEN "discharging"
  ELSE IF states \subseteq {"full"} THEN "full" ELSE "unknown"

\* engine_update_composite_device; of no battery at all, 0 % and fully charged.
CompositeMeasure(readings, S) ==
  [energy |-> MapThenSumSet(LAMBDA d : readings[d].energy, S),
   full   |-> Full * Cardinality(S),
   rate   |-> MapThenSumSet(LAMBDA d : readings[d].rate, S),
   state  |-> CompositeState({readings[d].state : d \in S})]

GetWarningCsr(m) ==
  IF 100 * m.energy < 26 * m.full THEN "low"
  ELSE IF 100 * m.energy < 13 * m.full THEN "critical" ELSE "none"

GetWarningPercentage(m) ==
  IF 100 * m.energy <= Percentage.action * m.full THEN "action"
  ELSE IF 100 * m.energy <= Percentage.critical * m.full THEN "critical"
  ELSE IF 100 * m.energy <= Percentage.low * m.full THEN "low" ELSE "none"

TimeToEmpty(m) ==
  IF m.state = "discharging" /\ m.rate > 0 THEN m.energy \div m.rate ELSE 0

\* "Time zero, falling back to percentage."
GetWarningTime(m) ==
  LET t == TimeToEmpty(m) IN
  IF t = 0 THEN GetWarningPercentage(m)
  ELSE IF t <= Time.action THEN "action"
  ELSE IF t <= Time.critical THEN "critical"
  ELSE IF t <= Time.low THEN "low" ELSE "none"

GetWarning(kind, m) ==
  LET w == CASE kind = "mouse" -> GetWarningCsr(m)
             [] kind = "ups" -> GetWarningPercentage(m)
             [] kind = "battery" -> IF UseTime THEN GetWarningTime(m)
                                    ELSE GetWarningPercentage(m)
  IN IF m.state = "charging" THEN "none"
     ELSE IF w = "none" /\ m.state = "discharging" THEN "discharging" ELSE w

-----------------------------------------------------------------------------
(* Targets: what a change of device d is judged by.                        *)

UsesComposite(d, list) == Kind[d] = "battery" /\ Cardinality(Batteries(list)) # 1

TargetOf(d, list) == IF UsesComposite(d, list) THEN Composite ELSE d

MeasureOf(readings, d, list) ==
  IF UsesComposite(d, list) THEN CompositeMeasure(readings, Batteries(list))
  ELSE Measure(readings[d])

BaselineOf(kind, m) == [warning |-> GetWarning(kind, m), state |-> m.state]

Supplies(kind) == kind = "ups" \/ (kind = "battery" /\ onBattery)

\* Mutation: the baseline is saved by the functions that act on it.
SaveHeard(t, b, kind) == IF Supplies(kind) THEN [old EXCEPT ![t] = b] ELSE old

\* Saved even if the message was ignored because we are not on battery power.
Save(t, b, kind) == [old EXCEPT ![t] = b]

\* Mutation: ACTION is only expected to follow CRITICAL.
ReachesStepwise(t, b, w) ==
  b.warning = w /\ old[t].warning = CASE w = "critical" -> "low" [] w = "action" -> "critical"

Reaches(t, b, w) == b.warning = w /\ old[t].warning # w

\* device_properties_changed_cb, engine_charge_critical, engine_charge_action.
HandleChanged(d, readings) ==
  LET t == TargetOf(d, listed)
      b == BaselineOf(Kind[d], MeasureOf(readings, d, listed))
      act == Reaches(t, b, "action") /\ Supplies(Kind[d])
  IN /\ old' = Save(t, b, Kind[d])
     /\ loop' = (loop \/ (Reaches(t, b, "critical") /\ Supplies(Kind[d])))
     /\ timers' = IF act THEN timers + 1 ELSE timers
     /\ armed' = IF b.warning # "action" THEN armed \ {t}
                 ELSE IF act THEN armed \cup {t} ELSE armed

-----------------------------------------------------------------------------
(* UPower: readings change, and "state" or "warning-level" is notified.    *)

\* missed: of a level that changes, without its state, UPower notifies only
\* what crosses a threshold of its own.
DeviceChanges(d, r) ==
  /\ timers < MaxTimers
  /\ dev' = [dev EXCEPT ![d] = r]
  /\ \/ d \in watched /\ HandleChanged(d, dev')
     \/ /\ d \notin watched \/ ("missed" \in machine.upsets /\ ~machine.legacy /\ r.state = dev[d].state)
        /\ UNCHANGED <<old, loop, timers, armed>>
  /\ UNCHANGED <<listed, watched, onBattery, lidClosed>>

Drain(d) ==
  /\ dev[d].state = "discharging" /\ dev[d].energy > 0
  /\ DeviceChanges(d, [dev[d] EXCEPT !.energy = @ - 1])

Charge(d) ==
  /\ dev[d].state = "charging" /\ dev[d].energy < Full
  /\ DeviceChanges(d, [dev[d] EXCEPT !.energy = @ + 1])

RateKnown(d) ==
  /\ dev[d].state = "discharging"
  /\ DeviceChanges(d, [dev[d] EXCEPT !.rate = 1 - @])

\* Without "late", a battery discharges when the machine is on battery power.
Fits(d, state) ==
  "late" \in machine.upsets \/ Kind[d] = "mouse" \/ (state = "discharging") = onBattery

NewState(d, state) ==
  /\ state \in {"charging", "discharging", "full"} /\ state # dev[d].state
  /\ state = "full" => dev[d].energy = Full
  /\ Fits(d, state)
  /\ DeviceChanges(d, [dev[d] EXCEPT !.state = state])

-----------------------------------------------------------------------------
(* The machine is plugged in or unplugged, its lid moves.  The client's    *)
(* handler sees every change of the client (before 0.99) or the lid only.  *)

ClientHandler == loop' = (loop /\ onBattery')

Settled == "late" \in machine.upsets \/ \A d \in machine.devices : Fits(d, dev[d].state)

\* Mutation: nothing listens to the client.
OnBatteryChangesDeaf ==
  /\ Settled
  /\ onBattery' = ~onBattery
  /\ UNCHANGED <<dev, listed, watched, old, lidClosed, loop, timers, armed>>

OnBatteryChanges ==
  /\ Settled
  /\ onBattery' = ~onBattery
  /\ IF machine.legacy THEN ClientHandler ELSE UNCHANGED loop
  /\ UNCHANGED <<dev, listed, watched, old, lidClosed, timers, armed>>

LidMoves ==
  /\ lidClosed' = ~lidClosed
  /\ UNCHANGED onBattery
  /\ ClientHandler
  /\ UNCHANGED <<dev, listed, watched, old, timers, armed>>

\* manager_critical_action_do, 20 s later, whatever has happened meanwhile.
CriticalActionDo ==
  /\ timers > 0
  /\ timers' = timers - 1
  /\ loop' = FALSE
  /\ UNCHANGED <<dev, listed, watched, old, onBattery, lidClosed, armed>>

\* Since 0.99 the signals of a device that is added later are not connected.
DeviceAdded(d) ==
  /\ "hotplug" \in machine.upsets
  /\ d \notin listed
  /\ listed' = listed \cup {d}
  /\ watched' = IF machine.legacy THEN watched \cup {d} ELSE watched
  /\ old' = [old EXCEPT ![d] = [warning |-> "none", state |-> "unknown"]]
  /\ UNCHANGED <<dev, onBattery, lidClosed, loop, timers, armed>>

DeviceRemoved(d) ==
  /\ "hotplug" \in machine.upsets
  /\ d \in listed
  /\ listed' = listed \ {d}
  /\ watched' = watched \ {d}
  /\ armed' = armed \ {d}
  /\ UNCHANGED <<dev, old, onBattery, lidClosed, loop, timers>>

-----------------------------------------------------------------------------
(* engine_coldplug.  Since 0.99 a device enters the array after it has     *)
(* given the composite its baseline, so the last one is not yet counted;   *)
(* and if just one is counted the composite is not touched.                *)

CompositeBaseline(readings) ==
  LET B == Batteries(machine.devices) IN
  IF machine.legacy THEN {BaselineOf("battery", CompositeMeasure(readings, B))}
  ELSE {BaselineOf("battery",
          CompositeMeasure(readings, IF Cardinality(B) > 2 THEN B \ {last} ELSE {})) : last \in B}
       \cup (IF B = {} THEN {[warning |-> "none", state |-> "unknown"]} ELSE {})

FirstReading ==
  {r \in Reading : (r.state = "full") = (r.energy = Full) /\ r.state # "unknown"
                   /\ ("low" \notin machine.upsets => r.energy = Full)}

\* A device the machine does not have.
NoReading == [energy |-> Full, state |-> "full", rate |-> 0]

Init ==
  /\ machine \in Machines
  /\ onBattery \in BOOLEAN
  /\ dev \in [Device -> FirstReading]
  /\ \A d \in machine.devices : Fits(d, dev[d].state)
  /\ \A d \in Device \ machine.devices : dev[d] = NoReading
  /\ listed = machine.devices /\ watched = machine.devices
  /\ \E c \in CompositeBaseline(dev) :
       old = [t \in Target |-> IF t = Composite THEN c
                               ELSE BaselineOf(Kind[t], Measure(dev[t]))]
  /\ lidClosed = FALSE
  /\ loop = FALSE
  /\ timers = 0
  /\ armed = {}

Step ==
  \/ \E d \in machine.devices : Drain(d) \/ Charge(d) \/ RateKnown(d)
  \/ \E d \in machine.devices, s \in State : NewState(d, s)
  \/ OnBatteryChanges
  \/ LidMoves
  \/ CriticalActionDo
  \/ \E d \in machine.devices : DeviceAdded(d) \/ DeviceRemoved(d)

Next == Step /\ UNCHANGED machine

Spec == Init /\ [][Next]_vars

-----------------------------------------------------------------------------
(* Properties.                                                             *)

WarningNow(d) == GetWarning(Kind[d], MeasureOf(dev, d, listed))

Calm(upsets) == machine.upsets \subseteq upsets

\* Since 0.99 the composite starts without the last battery.
Composed == machine.legacy \/ Cardinality(Batteries(machine.devices)) < 2

\* No crossing is lost: every target is compared, next time, with the level it
\* has now, whatever was ignored, charged or unplugged meanwhile and however
\* late the client's own signals are.
BaselineFresh ==
  Composed /\ Calm({"late", "low"}) =>
    \A d \in listed : old[TargetOf(d, listed)].warning = WarningNow(d)

\* "The percentage of the battery when the critical action is performed": a
\* machine that runs on a battery at the action level has started the action.
ActionFollows ==
  Composed /\ Calm({}) =>
    \A d \in Batteries(listed) :
      onBattery /\ WarningNow(d) = "action" => TargetOf(d, listed) \in armed

\* "If we are playing a critical charge sound loop on AC, stop it", by a build
\* that is told of every change of the client, if no UPS (whose warnings do
\* not ask for the power source) starts it.
LoopStopsOnAC ==
  machine.legacy /\ (\A d \in machine.devices : Kind[d] # "ups") => (loop => onBattery)

\* "Computer will suspend very soon unless it is plugged in": the critical
\* action is not taken on AC.
NoActionOnAC == [][timers' < timers => onBattery]_vars

=============================================================================
