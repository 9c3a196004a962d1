----------------------------- MODULE PowerLogind -----------------------------
(***************************************************************************)
(* csd-power-manager.c: the two inhibitor locks together.  Suspending and  *)
(* the lid are served by one main loop, which stands still while the       *)
(* machine sleeps: a lid that is moved, a monitor that is unplugged and    *)
(* the timers that expire meanwhile are dealt with after the resume.  Each *)
(* of the locks has its own flag, its own descriptor and its own replies.  *)
(***************************************************************************)
EXTENDS PowerSleep

CONSTANT LidScenarios  \* what may happen together to the lid's part

VARIABLES
  lidLock, lidInbox, external, seen, doNothing, always, inhibitTimer,
  lidClosed, safetyTimer, acted, lidUpsets

Lid == INSTANCE PowerLid
         WITH lock <- lidLock, inbox <- lidInbox, upsets <- lidUpsets, Scenarios <- LidScenarios

lidVars == <<lidLock, lidInbox, external, seen, doNothing, always, inhibitTimer,
             lidClosed, safetyTimer, acted, lidUpsets>>
both == <<vars, lidVars>>

-----------------------------------------------------------------------------
\* The lid's handlers run in the main loop; monitors, settings and logind's
\* answers to requests that are under way do not wait for it.
Awake == phase # "asleep"

LidRuns == Awake /\ (Lid!RandrEvent \/ Lid!InhibitLidSwitchDone \/ Lid!LidOpens)

LidCloses == Awake /\ Lid!LidCloses

LidCloseSafetyTimer == Awake /\ Lid!LidCloseSafetyTimer

InhibitLidSwitchTimer == Awake /\ Lid!InhibitLidSwitchTimer

LidWorld == Lid!MonitorChanges \/ Lid!SettingChanges \/ (Awake /\ Lid!AnswerInhibit)

\* A part to which something happens is looked at alone: the locks share
\* nothing, and calm parts are interleaved with each other.
LogindInit ==
  /\ Init /\ Lid!Init
  /\ upsets = {} \/ lidUpsets = {}

LogindNext ==
  \/ Next /\ lidUpsets = {} /\ UNCHANGED lidVars
  \/ /\ upsets = {}
     /\ LidRuns \/ LidCloses \/ LidCloseSafetyTimer \/ InhibitLidSwitchTimer \/ LidWorld
     /\ UNCHANGED <<lidUpsets, vars>>

\* Whenever the machine is awake the main loop runs, and its timers expire; it
\* is woken up again some day.  Nothing makes it sleep.
SleepFair(A) == A /\ lidUpsets = {} /\ UNCHANGED <<lidVars, upsets>>
LidFair(A) == A /\ upsets = {} /\ UNCHANGED <<lidUpsets, vars>>

LogindSpec ==
  /\ LogindInit
  /\ [][LogindNext]_both
  /\ WF_both(SleepFair(WakeUp))
  /\ SF_both(SleepFair(Deliver))
  /\ SF_both(SleepFair(ScreensaverProxyReady))
  /\ SF_both(SleepFair(ScreensaverLocks))
  /\ SF_both(LidFair(LidCloseSafetyTimer))

-----------------------------------------------------------------------------
(* Properties.  SleepIsLocked and LockAccounted are those of PowerSleep,   *)
(* whatever the lid does meanwhile.                                        *)

\* Each lock is held when it is needed: the delay lock once a resume is dealt
\* with (:3886-4009), the lid lock, neither leaked nor doubled, as long as an
\* external monitor is there, also if its timer runs out around a suspend
\* (:2119-2220).
LocksKept == ReadyToDelay /\ Lid!LidLockAccounted /\ Lid!DockedKeepsLock

\* "So that the laptop won't overheat if placed in a backpack": once the lid is
\* closed and no external monitor in use the policy is performed, even if the
\* monitor goes while the machine sleeps.
BackpackSuspends == Lid!BackpackSuspends
=============================================================================
