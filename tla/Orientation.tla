----------------------------- MODULE Orientation -----------------------------
(***************************************************************************)
(* csd-orientation-manager.c and the rotation of csd-xrandr-manager.c: the *)
(* accelerometer of a tablet turns its screen, by events or, for an        *)
(* MPU-6050, by polling; a setting locks the screen as it is; a key turns  *)
(* it further.  The plugins talk over D-Bus, one call at a time each.      *)
(***************************************************************************)
EXTENDS Naturals, Sequences, SequencesExt

CONSTANTS
  MaxTimers,  \* bound on the polling timers
  MaxEvents,  \* bound on the uevents not dispatched
  Settings    \* what a behaviour starts with, see Init

Rotation == 0 .. 3            \* possible_rotations, in quarter turns
Undefined == 4                \* ORIENTATION_UNDEFINED
Orientation == Rotation \cup {Undefined}
None == [to |-> Undefined, at |-> "nowhere"]
Next90 == 4                   \* GNOME_RR_ROTATION_NEXT

VARIABLES
  device,        \* how the tablet is held
  uevents,       \* the accelerometer's events, not dispatched
  started,       \* "off", "idle", "bus", "proxy", "ready" or "no proxy"
  lock,          \* orientation_lock: the setting, and the manager's copy
  prev_orientation,
  timers, first, \* mpu_timer sources, and its static flag
  call, key,     \* calls to RotateTo and Rotate under way
  rotation,      \* of the laptop's output
  touch,         \* of the touchscreens
  missed,        \* history: the screen was turned by the key, or not asked to turn
  how            \* the settings of this behaviour

vars == <<device, uevents, started, lock, prev_orientation, timers, first, call, key, rotation, touch, missed, how>>
held == <<device, uevents>>
screen == <<rotation, touch>>

\* A behaviour polls or gets events, allows some rotations, may have failing
\* calls, or is calm: the tablet moves when all is quiet, and calls are answered
\* before the next poll.
Init ==
  /\ how \in Settings
  /\ device \in (IF how.calm THEN {0} ELSE {0, 1}) /\ uevents = <<>>
  /\ started = "idle" /\ lock \in BOOLEAN
  /\ prev_orientation = Undefined /\ timers = 0 /\ first = TRUE
  /\ call = None /\ key = None
  /\ rotation = 0 /\ touch = 0
  /\ missed = (device # 0)

-----------------------------------------------------------------------------
(* The tablet.                                                             *)
Still == uevents = <<>> /\ call = None /\ (how.polls => prev_orientation = device)

Turn(o) ==
  /\ o # device /\ Len(uevents) < MaxEvents
  /\ how.calm => started = "ready" /\ Still
  /\ device' = o
  /\ uevents' = IF how.polls \/ started \in {"off", "idle"} THEN uevents ELSE Append(uevents, o)
  /\ UNCHANGED <<started, lock, prev_orientation, timers, first, call, key, screen, missed, how>>

-----------------------------------------------------------------------------
(* Starting: each step is an answer that comes later.                      *)
StartIdle ==
  /\ started = "idle"
  /\ started' = "bus"
  /\ prev_orientation' = IF how.polls THEN 0 ELSE device
  /\ timers' = IF how.polls THEN timers + 1 ELSE timers
  /\ missed' = (device # rotation)
  /\ UNCHANGED <<held, lock, first, call, key, screen, how>>

BusGotten ==
  /\ started = "bus" /\ started' = "proxy"
  /\ UNCHANGED <<held, lock, prev_orientation, timers, first, call, key, screen, missed, how>>

XrandrReady ==
  /\ started = "proxy"
  /\ started' \in IF how.fails THEN {"ready", "no proxy"} ELSE {"ready"}
  /\ UNCHANGED <<held, lock, prev_orientation, timers, first, call, key, screen, missed, how>>

-----------------------------------------------------------------------------
\* The proxy stays when the manager is stopped.
HasProxy == started \in {"ready", "off"}

\* do_xrandr_action, do_rotation: not while locked, before there is a proxy or
\* while a call is in flight; what is skipped is not made up for.
DoRotation(o, locked) ==
  IF locked \/ o = Undefined \/ ~HasProxy \/ call # None
    THEN missed' = TRUE /\ UNCHANGED call
    ELSE call' = [to |-> o, at |-> "sent"] /\ missed' = FALSE

\* Mutation: the screen is turned to where the tablet was.
ClientUeventLate ==
  /\ started \in {"bus", "proxy", "ready", "no proxy"} /\ uevents # <<>>
  /\ uevents' = Tail(uevents)
  /\ IF lock \/ Head(uevents) = prev_orientation
       THEN UNCHANGED <<prev_orientation, call>> /\ missed' = (missed \/ lock)
       ELSE prev_orientation' = Head(uevents) /\ DoRotation(prev_orientation, lock)
  /\ UNCHANGED <<device, started, lock, timers, first, key, screen, how>>

\* client_uevent_cb: a locked manager does not look at the event.
ClientUevent ==
  /\ started \in {"bus", "proxy", "ready", "no proxy"} /\ uevents # <<>>
  /\ uevents' = Tail(uevents)
  /\ IF lock \/ Head(uevents) = prev_orientation
       THEN UNCHANGED <<prev_orientation, call>> /\ missed' = (missed \/ lock)
       ELSE prev_orientation' = Head(uevents) /\ DoRotation(Head(uevents), lock)
  /\ UNCHANGED <<device, started, lock, timers, first, key, screen, how>>

\* mpu_timer goes on until it finds the manager locked, also when it is stopped;
\* before there is a proxy it does nothing.
MpuTimer ==
  /\ timers > 0 /\ HasProxy
  /\ how.calm => call = None
  /\ IF device # prev_orientation \/ first
       THEN first' = FALSE /\ prev_orientation' = device /\ DoRotation(device, lock)
       ELSE UNCHANGED <<first, prev_orientation, call, missed>>
  /\ timers' = IF lock THEN timers - 1 ELSE timers
  /\ UNCHANGED <<held, started, lock, key, screen, how>>

\* orientation_lock_changed_cb: a timer is added even if one still goes, and
\* the screen is turned to what was known before the lock.
OrientationLockChanged ==
  /\ started # "off" /\ timers < MaxTimers
  /\ lock' = ~lock
  /\ IF lock /\ started # "idle"
       THEN /\ timers' = IF how.polls THEN timers + 1 ELSE timers
            /\ LET asks == prev_orientation # Undefined /\ started = "ready" /\ call = None
               IN /\ call' = IF asks THEN [to |-> prev_orientation, at |-> "sent"] ELSE call
                  /\ missed' = (missed \/ ~asks)
       ELSE UNCHANGED <<timers, call, missed>>
  /\ UNCHANGED <<held, started, prev_orientation, first, key, screen, how>>

\* on_xrandr_action_call_finished
ActionFinished ==
  /\ call.at = "answered" /\ call' = None
  /\ UNCHANGED <<held, started, lock, prev_orientation, timers, first, key, screen, missed, how>>

\* The media keys' do_video_rotate_action; its own call may be in flight.
DoVideoRotate ==
  /\ how.keys /\ key = None
  /\ key' = [to |-> Next90, at |-> "sent"]
  /\ UNCHANGED <<held, started, lock, prev_orientation, timers, first, call, screen, missed, how>>

RotateFinished ==
  /\ key.at = "answered" /\ key' = None
  /\ UNCHANGED <<held, started, lock, prev_orientation, timers, first, call, screen, missed, how>>

-----------------------------------------------------------------------------
(* The xrandr plugin.                                                      *)

\* get_next_rotation: the nearest further turn that is allowed, if any is.
NextRotation(r) ==
  LET turned == {k \in 1 .. 3 : (r + k) % 4 \in how.allowed}
  IN IF turned = {} THEN r ELSE (r + CHOOSE k \in turned : \A j \in turned : k <= j) % 4

\* handle_rotate_windows: the touchscreens turn if the screen did.
HandleRotateWindows(to) ==
  LET next == IF to = Next90 THEN NextRotation(rotation) ELSE to
      ok == next \in how.allowed
  IN /\ rotation' = IF ok THEN next ELSE rotation
     /\ touch' = IF ok /\ next # rotation THEN next ELSE touch

RotateTo ==
  /\ call.at = "sent"
  /\ call' = [call EXCEPT !.at = "answered"]
  /\ HandleRotateWindows(call.to)
  /\ UNCHANGED <<held, started, lock, prev_orientation, timers, first, key, missed, how>>

Rotate ==
  /\ key.at = "sent"
  /\ key' = [key EXCEPT !.at = "answered"]
  /\ HandleRotateWindows(Next90)
  /\ missed' = (missed \/ rotation' # rotation)
  /\ UNCHANGED <<held, started, lock, prev_orientation, timers, first, call, how>>

-----------------------------------------------------------------------------
\* csd_orientation_manager_stop takes back the settings and the events, not the
\* start idle, the timers, the proxy or a call.
Stop ==
  /\ how.stops /\ started = "ready"
  /\ started' = "off" /\ uevents' = <<>>
  /\ UNCHANGED <<device, lock, prev_orientation, timers, first, call, key, screen, missed, how>>

Next ==
  \/ \E o \in Rotation : Turn(o)
  \/ StartIdle \/ BusGotten \/ XrandrReady
  \/ ClientUevent \/ MpuTimer \/ OrientationLockChanged \/ ActionFinished
  \/ DoVideoRotate \/ RotateFinished \/ RotateTo \/ Rotate \/ Stop

Spec == Init /\ [][Next]_vars

-----------------------------------------------------------------------------
(* Properties.                                                             *)
TypeOK ==
  /\ device \in Rotation /\ prev_orientation \in Orientation
  /\ rotation \in Rotation /\ touch \in Rotation
  /\ timers \in 0 .. MaxTimers /\ Len(uevents) <= MaxEvents
  /\ call.at \in {"nowhere", "sent", "answered"} /\ key.at \in {"nowhere", "sent", "answered"}

Settled == started = "ready" /\ Still /\ key = None /\ (how.polls => ~first /\ timers > 0)

\* Once every event is dispatched and every call answered the unlocked screen
\* stands as the tablet is held, unless a turn fell into the lock, the start or
\* a call in flight (known deviations); polling makes up for the lock; and the
\* touchscreens stand as the screen does.
FollowsAccelerometer ==
  /\ Settled /\ ~lock /\ ~missed /\ device \in how.allowed => rotation = device
  /\ touch = rotation
  /\ Settled /\ ~lock /\ how.calm /\ how.polls => rotation = device

\* "Handle the rotations that could have occurred while we were locked"
\* (csd-orientation-manager.c:330), for a tablet that moves when all is quiet.
UnlockCatchesUp == Settled /\ ~lock /\ how.calm => rotation = device
=============================================================================
