---------------------------- MODULE DisplayParts -----------------------------
(***************************************************************************)
(* Four parts that look after what the user sees and share no state: the   *)
(* keyboard's backlight (KbdBacklight), the configurations of the monitors *)
(* (Xrandr), the orientation of a tablet (Orientation) and the colour      *)
(* profiles of the outputs (ColorDevices).  A behaviour is one of any of   *)
(* them, the others stay where they start.                                 *)
(***************************************************************************)
EXTENDS KbdBacklight, FiniteSets

CONSTANTS
  External, MaxAsks, Scenes,                       \* Xrandr
  MaxTimers, MaxEvents, Settings,                  \* Orientation
  Connector, Profile, NoProfile, MaxChanges, Flaps    \* ColorDevices

\* How a tablet may be set up: a calm one can be turned any way, and nobody
\* presses the key that rotates.
ASSUME SettingsAssumption ==
  Settings \subseteq
    {s \in [polls : BOOLEAN, allowed : SUBSET (0 .. 3), fails : BOOLEAN, calm : BOOLEAN,
            keys : BOOLEAN, stops : BOOLEAN] :
       s.calm => s.allowed = 0 .. 3 /\ ~s.keys}

\* Every scene has one of the boot settings; where calls of the server fail
\* nothing else happens but that a program asks for configurations.
ASSUME ScenesAssumption ==
  \A s \in Scenes :
    /\ s.boot \in {"do-nothing", "follow-lid", "clone", "dock"} /\ s.fits \in Nat
    /\ "fail" \in s.may => s.may \subseteq {"fail", "asks"}
ASSUME AsksAssumption == MaxAsks \in Nat
ASSUME BoundsAssumption == MaxTimers \in Nat \ {0} /\ MaxEvents \in Nat /\ MaxChanges \in Nat

\* There are finitely many outputs, and what else a message may say of
\* an output is no profile.
ASSUME ConnectorAssumption == IsFiniteSet(Connector)
ASSUME ProfileAssumption == {"gone", "none", "remove", "delete"} \cap (Profile \cup {NoProfile}) = {}

VARIABLES
  part,                                                              \* the part that moves
  connected, lid_is_closed, current, hot, events, handled,           \* Xrandr
  fn_f7_configs, current_fn_f7_config, fn_f7_outputs, running,
  intended, backup, calling, queued, asking, accepted, before, expired, scene,
  device, uevents, started, lock, prev_orientation, timers, first,   \* Orientation
  call, key, rotation, touch, missed, how,
  crtcs, primary, changed, screen, devices, default, calls, news,    \* ColorDevices
  device_assign_hash, gamma, icc, changes

kbdVars == vars
xrandrVars == <<connected, lid_is_closed, current, hot, events, handled, fn_f7_configs,
                current_fn_f7_config, fn_f7_outputs, running, intended, backup, calling,
                queued, asking, accepted, before, expired, scene>>
orientationVars == <<device, uevents, started, lock, prev_orientation, timers, first,
                     call, key, rotation, touch, missed, how>>
colorVars == <<crtcs, primary, changed, screen, devices, default, calls, news,
               device_assign_hash, gamma, icc, changes>>
allVars == <<part, kbdVars, xrandrVars, orientationVars, colorVars>>

Monitors == INSTANCE Xrandr WITH Scenarios <- Scenes
Tablet == INSTANCE Orientation
Colour == INSTANCE ColorDevices WITH connected <- crtcs, Output <- Connector

-----------------------------------------------------------------------------
\* Every part has one initial state in which it waits for its turn.
Waits(name, Rest) == part # name => Rest

AllInit ==
  /\ part \in {"keyboard", "monitors", "tablet", "colour"}
  /\ Init /\ Monitors!Init /\ Tablet!Init /\ Colour!Init
  /\ Waits("keyboard", upsets = {} /\ user = 0 /\ ~lidClosed)
  /\ Waits("monitors", scene = (CHOOSE s \in Scenes : TRUE))
  /\ Waits("tablet", how = (CHOOSE s \in Settings : TRUE) /\ device = 0 /\ ~lock)
  /\ Waits("colour", crtcs = {} /\ primary = (CHOOSE o \in Connector : TRUE)
                     /\ default = [o \in Connector |-> NoProfile])

AllNext ==
  /\ UNCHANGED part
  /\ \/ part = "keyboard" /\ Next /\ UNCHANGED <<xrandrVars, orientationVars, colorVars>>
     \/ part = "monitors" /\ Monitors!Next /\ UNCHANGED <<kbdVars, orientationVars, colorVars>>
     \/ part = "tablet" /\ Tablet!Next /\ UNCHANGED <<kbdVars, xrandrVars, colorVars>>
     \/ part = "colour" /\ Colour!Next /\ UNCHANGED <<kbdVars, xrandrVars, orientationVars>>

AllSpec == AllInit /\ [][AllNext]_allVars

-----------------------------------------------------------------------------
(* Properties.  UserLevelRestored and CacheAgrees are those of KbdBacklight. *)

\* The variables of the four parts have their types: no level outside the
\* keyboard's range is written or reported, and the cycle of fn-F7 points at a
\* configuration.
PartsTypeOK == TypeOK /\ Monitors!TypeOK /\ Tablet!TypeOK /\ Colour!TypeOK

\* With the lid open there is something to see once every RandR event was dealt
\* with, whatever was plugged, closed, chosen and stored before
\* (csd-xrandr-manager.c:1701-1813); "dock" is a known deviation.
SomethingToSee == Monitors!SomethingToSee

\* Only a configuration the user agreed to stays stored, also if the daemon
\* dies with the question open (csd-xrandr-manager.c:1905), and a question that
\* nobody answers leaves the screen as it was.
OnlyConfirmedStays == Monitors!OnlyConfirmedStays

\* Once every event is dispatched and every call answered, the unlocked screen
\* and the touchscreens stand as the tablet is held
\* (csd-orientation-manager.c:227-333).
FollowsAccelerometer == Tablet!FollowsAccelerometer

\* Once all is answered every output has a device in colord, whose default
\* profile is the one that is loaded: nothing is lost to "assign already in
\* progress" (csd-color-manager.c:1303-1323).
ShowsDefaults == Colour!ShowsDefaults

-----------------------------------------------------------------------------
(* The instance that is checked: one external monitor, and two outputs for *)
(* colord.                                                                 *)

\* Every policy at start, with one or two monitors that fit into the screen;
\* configurations that fail and requests that cross, with one policy.
MCScenes ==
  [fits : {1, 2}, boot : {"do-nothing", "follow-lid", "clone", "dock"},
   may : {{"plug", "lid", "keys"}, {"plug", "asks"}, {"crash", "lid", "asks"}}]
  \cup [fits : {2}, boot : {"do-nothing"}, may : {{"fail", "asks"}, {"overlap", "asks"}}]

Orientations(allowed, fails, calm, keys, stops, polls) ==
  [polls : polls, allowed : allowed, fails : fails, calm : calm, keys : keys, stops : stops]

\* The key that rotates, with a driver that allows two or four; calls that fail
\* and a manager that stops; a tablet that rests while it is locked and polled.
MCSettings ==
  Orientations({0 .. 3, {0, 2}}, {FALSE}, {FALSE}, {TRUE}, {FALSE}, BOOLEAN)
  \cup Orientations({0 .. 3}, BOOLEAN, {FALSE}, {FALSE}, BOOLEAN, BOOLEAN)
  \cup Orientations({0 .. 3}, {FALSE}, {TRUE}, {FALSE}, {FALSE}, {TRUE})
=============================================================================
