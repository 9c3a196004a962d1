----------------------------- MODULE PowerSleep ------------------------------
(***************************************************************************)
(* csd-power-manager.c and logind: suspending.  The manager holds a delay  *)
(* lock, so that logind announces a suspend and waits for it; it locks the *)
(* screen, lets go of the lock, and takes it again on resume.  logind is   *)
(* external: it refuses new locks while a suspend is under way, and waits  *)
(* for delay locks for a limited time only.                                *)
(***************************************************************************)
EXTENDS LogindLock, Sequences

CONSTANTS
  MaxInbox,  \* bound on messages of logind that are not delivered yet
  Scenarios  \* what may happen together: sets of upsets

\* again: a suspend starts before the manager has dealt with the last one, or
\* the plugin is restarted while one is under way;
\* fault: logind's Inhibit and the screensaver's Lock may fail.
ASSUME MaxInboxAssumption == MaxInbox \in Nat
ASSUME ScenariosAssumption == Scenarios \subseteq SUBSET {"again", "fault"}

VARIABLES
  lock,     \* the delay lock
  inbox,    \* messages of logind to the manager, in order
  phase,    \* of logind: "awake", "preparing" or "asleep"
  running,  \* the power plugin is active
  onSuspend,  \* the setting "lock-on-suspend"
  locker,   \* lock_screensaver under way: "idle", "connecting" or "calling"
  locked,   \* the screensaver has locked the session
  upsets    \* what may happen in this behaviour, chosen at its start

vars == <<lock, inbox, phase, running, onSuspend, locker, locked, upsets>>

Message == {"granted", "refused", "sleep", "resume"}

\* The variables have their types (csd-power-manager.c:180-240).
TypeOK ==
  /\ lock \in Lock
  /\ inbox \in Seq(Message)
  /\ phase \in {"awake", "preparing", "asleep"}
  /\ running \in BOOLEAN /\ onSuspend \in BOOLEAN /\ locked \in BOOLEAN
  /\ locker \in {"idle", "connecting", "calling"}
  /\ upsets \in Scenarios

Outcome == IF "fault" \in upsets THEN BOOLEAN ELSE {TRUE}

-----------------------------------------------------------------------------
(* logind.                                                                 *)

Settled == inbox = <<>> /\ lock.asked = 0

BeginSleep ==
  /\ phase = "awake"
  /\ "again" \in upsets \/ Settled
  /\ Len(inbox) < MaxInbox
  /\ phase' = "preparing"
  /\ inbox' = Append(inbox, "sleep")
  /\ UNCHANGED <<lock, running, onSuspend, locker, locked>>

\* All delay locks are gone, or their time (InhibitDelayMaxSec) is up.
Suspend ==
  /\ phase = "preparing"
  /\ phase' = "asleep"
  /\ UNCHANGED <<lock, inbox, running, onSuspend, locker, locked>>

WakeUp ==
  /\ phase = "asleep"
  /\ phase' = "awake"
  /\ inbox' = Append(inbox, "resume")
  /\ UNCHANGED <<lock, running, onSuspend, locker, locked>>

AnswerInhibit ==
  /\ lock.asked > 0 /\ Len(inbox) < MaxInbox /\ phase # "asleep"
  /\ \E ok \in Outcome :
       LET granted == ok /\ phase = "awake" IN
       /\ lock' = Answer(lock, granted)
       /\ inbox' = Append(inbox, IF granted THEN "granted" ELSE "refused")
  /\ UNCHANGED <<phase, running, onSuspend, locker, locked>>

-----------------------------------------------------------------------------
(* The manager's main loop, which stands still while the machine sleeps.   *)

Receive(m) ==
  /\ phase # "asleep"
  /\ inbox # <<>> /\ Head(inbox) = m
  /\ inbox' = Tail(inbox)
  /\ UNCHANGED <<phase, running, onSuspend, locked>>

InhibitSuspendDone ==
  \E m \in {"granted", "refused"} :
    Receive(m) /\ lock' = InhibitDone(lock, m = "granted") /\ UNCHANGED locker

\* Mutation: takes a lock that is in hand for a lock that is already done with.
HandleSuspendActionsIfHeld ==
  /\ Receive("sleep")
  /\ locker' = IF running /\ onSuspend /\ ~lock.taken THEN "connecting" ELSE locker
  /\ lock' = IF running THEN Uninhibit(lock) ELSE lock

\* The screensaver is asked asynchronously, the lock dropped at once.
HandleSuspendActions ==
  /\ Receive("sleep")
  /\ locker' = IF running /\ onSuspend /\ locker = "idle" THEN "connecting" ELSE locker
  /\ lock' = IF running THEN Uninhibit(lock) ELSE lock

\* Mutation: the delay is not set up again.
HandleResumeActionsOnce == Receive("resume") /\ UNCHANGED <<lock, locker>>

HandleResumeActions ==
  /\ Receive("resume")
  /\ lock' = IF running THEN Inhibit(lock) ELSE lock
  /\ UNCHANGED locker

\* sleep_cb_screensaver_proxy_ready_cb
ScreensaverProxyReady ==
  /\ phase # "asleep" /\ locker = "connecting"
  /\ \E ok \in Outcome : locker' = IF ok THEN "calling" ELSE "idle"
  /\ UNCHANGED <<lock, inbox, phase, running, onSuspend, locked>>

ScreensaverLocks ==
  /\ phase # "asleep" /\ locker = "calling"
  /\ locker' = "idle"
  /\ locked' = TRUE
  /\ UNCHANGED <<lock, inbox, phase, running, onSuspend>>

UserUnlocks ==
  /\ phase = "awake" /\ locked
  /\ locked' = FALSE
  /\ UNCHANGED <<lock, inbox, phase, running, onSuspend, locker>>

SettingChanges ==
  /\ phase = "awake" /\ Settled
  /\ onSuspend' = ~onSuspend
  /\ UNCHANGED <<lock, inbox, phase, running, locker, locked>>

\* A reply that is still to come finds the object; a signal finds no proxy, so
\* one sent before a restart is not for the new proxy.
Stop ==
  /\ phase # "asleep" /\ running
  /\ running' = FALSE
  /\ lock' = Uninhibit(lock)
  /\ UNCHANGED <<inbox, phase, onSuspend, locker, locked>>

Start ==
  /\ phase # "asleep" /\ ~running
  /\ "again" \in upsets \/ phase = "awake"
  /\ \A i \in DOMAIN inbox : inbox[i] \in {"granted", "refused"}
  /\ running' = TRUE
  /\ lock' = Inhibit(lock)
  /\ UNCHANGED <<inbox, phase, onSuspend, locker, locked>>

-----------------------------------------------------------------------------
Init ==
  /\ lock = Inhibit(NoLock)
  /\ inbox = <<>>
  /\ phase = "awake"
  /\ running = TRUE
  /\ onSuspend \in BOOLEAN
  /\ locker = "idle"
  /\ locked \in BOOLEAN
  /\ upsets \in Scenarios

Deliver == InhibitSuspendDone \/ HandleSuspendActions \/ HandleResumeActions

Step ==
  \/ BeginSleep
  \/ Suspend
  \/ WakeUp
  \/ AnswerInhibit
  \/ Deliver
  \/ ScreensaverProxyReady
  \/ ScreensaverLocks
  \/ UserUnlocks
  \/ SettingChanges
  \/ Stop
  \/ Start

Next == Step /\ UNCHANGED upsets

Spec == Init /\ [][Next]_vars

-----------------------------------------------------------------------------
(* Properties.                                                             *)

GrantedIn(q) == {i \in DOMAIN q : q[i] = "granted"}
Granted == GrantedIn(inbox)

\* No lock is leaked: whatever replies, suspends and restarts of the plugin
\* cross each other, every lock of logind has its file descriptor or a reply
\* that brings it, and there is never more than one.
LockAccounted ==
  /\ lock.held \in {0, 1}
  /\ lock.held = 1 <=> lock.fd \/ Granted # {}

\* "Set up the delay again": awake, and every message dealt with, the manager
\* holds the lock that makes the next suspend wait for it, if no suspend has
\* overtaken the last one and no call has failed.
ReadyToDelay == upsets = {} /\ running /\ phase = "awake" /\ Settled => lock.held = 1

\* A machine that goes to sleep with "lock-on-suspend" is locked, at the latest
\* when it has been woken up.
SleepIsLocked == upsets = {} /\ phase = "asleep" /\ onSuspend /\ running ~> locked \/ ~running

\* The delay lock "gives us a chance to lock the screen": as long as it is held
\* until then, the machine does not sleep unlocked.
AsleepIsLocked ==
  [][phase = "preparing" /\ phase' = "asleep" /\ lock.held = 0 /\ onSuspend /\ running => locked]_vars
=============================================================================
