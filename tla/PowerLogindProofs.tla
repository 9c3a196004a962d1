-------------------------- MODULE PowerLogindProofs --------------------------
(* Theorems about PowerSleep, the lid's lock of PowerLid and both in         *)
(* PowerLogind, for any bound and whatever the upsets.                       *)
EXTENDS PowerLogind, TLAPS

\* What makes the count inductive: a request is on its way, or answered with a
\* lock, or in hand, or none of these, and in the first three cases the flag
\* that keeps the manager from asking again is up.
OneReply == \A i, j \in Granted : i = j

Stages ==
  \/ lock.asked = 1 /\ lock.held = 0 /\ ~lock.fd /\ lock.taken /\ Granted = {}
  \/ lock.asked = 0 /\ lock.held = 1 /\ ~lock.fd /\ lock.taken /\ Granted # {}
  \/ lock.asked = 0 /\ lock.held = 1 /\ lock.fd /\ lock.taken /\ Granted = {}
  \/ lock.asked = 0 /\ lock.held = 0 /\ ~lock.fd /\ Granted = {}

IInv == TypeOK /\ OneReply /\ Stages

-----------------------------------------------------------------------------
(* What the operations on a lock do to its fields.                         *)

\* A lock that is not taken is asked for and marked.
LEMMA InhibitFields ==
  ASSUME NEW l \in Lock, ~l.taken
  PROVE  /\ Inhibit(l) \in Lock /\ Inhibit(l).asked = l.asked + 1
         /\ Inhibit(l).held = l.held /\ Inhibit(l).fd = l.fd /\ Inhibit(l).taken
<1>1. Inhibit(l) = [[l EXCEPT !.taken = TRUE] EXCEPT !.asked = @ + 1]
  BY DEF Inhibit, Lock
<1>2. [l EXCEPT !.taken = TRUE] \in Lock BY DEF Lock
<1>3. l.asked + 1 \in Nat /\ [l EXCEPT !.taken = TRUE].asked = l.asked BY DEF Lock
<1>4. Inhibit(l) \in Lock BY <1>1, <1>2, <1>3 DEF Lock
<1> QED BY <1>4 DEF Inhibit, Lock

\* logind answers one request.
LEMMA AnswerFields ==
  ASSUME NEW l \in Lock, NEW ok \in BOOLEAN, l.asked = 1, l.held = 0
  PROVE  /\ Answer(l, ok) \in Lock /\ Answer(l, ok).asked = 0
         /\ Answer(l, ok).held = (IF ok THEN 1 ELSE 0)
         /\ Answer(l, ok).fd = l.fd /\ Answer(l, ok).taken = l.taken
<1>1. Answer(l, ok) = [[l EXCEPT !.asked = 0] EXCEPT !.held = IF ok THEN 1 ELSE 0]
  BY DEF Answer, Lock
<1>2. [l EXCEPT !.asked = 0] \in Lock BY DEF Lock
<1>3. Answer(l, ok) \in Lock BY <1>1, <1>2 DEF Lock
<1> QED BY <1>3 DEF Answer, Lock

\* Only a lock whose descriptor is in hand is given back.
LEMMA UninhibitFields ==
  ASSUME NEW l \in Lock, l.fd, l.held = 1
  PROVE  /\ Uninhibit(l) \in Lock /\ Uninhibit(l).asked = l.asked
         /\ Uninhibit(l).held = 0 /\ ~Uninhibit(l).fd
<1>1. Uninhibit(l) = [[[l EXCEPT !.fd = FALSE] EXCEPT !.taken = FALSE] EXCEPT !.held = 0]
  BY DEF Uninhibit, Lock
<1>2. [l EXCEPT !.fd = FALSE] \in Lock BY DEF Lock
<1>3. [[l EXCEPT !.fd = FALSE] EXCEPT !.taken = FALSE] \in Lock BY <1>2 DEF Lock
<1>4. \A m \in Lock : [m EXCEPT !.held = 0] \in Lock BY DEF Lock
<1>5. Uninhibit(l) \in Lock BY <1>1, <1>3, <1>4
<1> QED BY <1>5 DEF Uninhibit, Lock

-----------------------------------------------------------------------------
(* The grants in a queue of messages.                                      *)

\* A reply that grants the lock joins the messages under way.
LEMMA AppendGrant ==
  ASSUME NEW q \in Seq(Message), GrantedIn(q) = {}
  PROVE  /\ GrantedIn(Append(q, "granted")) # {}
         /\ \A i, j \in GrantedIn(Append(q, "granted")) : i = j
BY DEF GrantedIn, Message

\* Any other message leaves the replies as they are.
LEMMA AppendOther ==
  ASSUME NEW q \in Seq(Message), NEW m \in Message, m # "granted"
  PROVE  GrantedIn(Append(q, m)) = GrantedIn(q)
BY DEF GrantedIn, Message

\* The one reply that grants the lock is taken from the messages.
LEMMA TailGrant ==
  ASSUME NEW q \in Seq(Message), q # <<>>, Head(q) = "granted",
         \A i, j \in GrantedIn(q) : i = j
  PROVE  GrantedIn(q) # {} /\ GrantedIn(Tail(q)) = {}
<1>1. 1 \in GrantedIn(q) BY DEF GrantedIn
<1>2. \A i \in DOMAIN Tail(q) : i + 1 \in DOMAIN q /\ Tail(q)[i] = q[i + 1] /\ i + 1 # 1
  OBVIOUS
<1> QED BY <1>1, <1>2 DEF GrantedIn

\* Taking any other message leaves the grants that are under way.
LEMMA TailOther ==
  ASSUME NEW q \in Seq(Message), q # <<>>, Head(q) # "granted",
         \A i, j \in GrantedIn(q) : i = j
  PROVE  /\ GrantedIn(Tail(q)) = {} <=> GrantedIn(q) = {}
         /\ \A i, j \in GrantedIn(Tail(q)) : i = j
<1>1. \A i \in DOMAIN Tail(q) : i + 1 \in DOMAIN q /\ Tail(q)[i] = q[i + 1]
  OBVIOUS
<1>2. \A i \in GrantedIn(Tail(q)) : i \in Int /\ i + 1 \in GrantedIn(q)
  BY <1>1 DEF GrantedIn
<1>3. \A k \in GrantedIn(q) : k \in Int /\ k > 1 /\ k - 1 \in GrantedIn(Tail(q))
  <2> SUFFICES ASSUME NEW k \in GrantedIn(q)
               PROVE k \in Int /\ k > 1 /\ k - 1 \in GrantedIn(Tail(q))
    OBVIOUS
  <2>1. k \in 1 .. Len(q) /\ q[k] = "granted" BY DEF GrantedIn
  <2>2. k # 1 BY <2>1
  <2>3. k - 1 \in DOMAIN Tail(q) /\ Tail(q)[k - 1] = q[k] BY <2>1, <2>2
  <2> QED BY <2>1, <2>2, <2>3 DEF GrantedIn
<1> QED BY <1>2, <1>3

-----------------------------------------------------------------------------
(* Steps.                                                                  *)

\* A message that is not a grant comes in, the lock stays as it is.
LEMMA OtherMessage ==
  ASSUME IInv, NEW m \in Message, m # "granted", inbox' = Append(inbox, m), UNCHANGED lock
  PROVE  inbox' \in Seq(Message) /\ OneReply' /\ Stages'
<1>1. inbox \in Seq(Message) BY DEF IInv, TypeOK
<1>2. Granted' = Granted BY <1>1, AppendOther DEF Granted
<1> QED BY <1>1, <1>2 DEF IInv, OneReply, Stages

\* logind's answer moves the lock to the next stage.
LEMMA AnswerStep ==
  ASSUME IInv, AnswerInhibit, upsets' = upsets
  PROVE  IInv'
<1>1. inbox \in Seq(Message) /\ lock \in Lock BY DEF IInv, TypeOK
<1>2. lock.asked = 1 /\ lock.held = 0 /\ ~lock.fd /\ lock.taken /\ Granted = {}
  BY DEF AnswerInhibit, IInv, Stages
<1>3. PICK ok \in BOOLEAN :
        /\ lock' = Answer(lock, ok)
        /\ inbox' = Append(inbox, IF ok THEN "granted" ELSE "refused")
  BY DEF AnswerInhibit, Outcome
<1>4. UNCHANGED <<phase, running, onSuspend, locker, locked>> BY DEF AnswerInhibit
<1>5. CASE ok
  <2>1. Granted' # {} /\ OneReply'
    BY <1>1, <1>2, <1>3, <1>5, AppendGrant DEF Granted, OneReply
  <2>2. /\ lock' \in Lock
        /\ lock'.asked = 0 /\ lock'.held = 1 /\ ~lock'.fd /\ lock'.taken
    BY <1>1, <1>2, <1>3, <1>5, AnswerFields
  <2>3. inbox' \in Seq(Message) BY <1>1, <1>3, <1>5 DEF Message
  <2> QED BY <2>1, <2>2, <2>3, <1>4 DEF IInv, TypeOK, Stages
<1>6. CASE ~ok
  <2>1. Granted' = {} BY <1>1, <1>2, <1>3, <1>6, AppendOther DEF Granted, Message
  <2>2. /\ lock' \in Lock
        /\ lock'.asked = 0 /\ lock'.held = 0 /\ ~lock'.fd
    BY <1>1, <1>2, <1>3, <1>6, AnswerFields
  <2>3. inbox' \in Seq(Message) BY <1>1, <1>3, <1>6 DEF Message
  <2> QED BY <2>1, <2>2, <2>3, <1>4 DEF IInv, TypeOK, Stages, OneReply
<1> QED BY <1>5, <1>6

\* The reply is dealt with.
LEMMA DoneStep ==
  ASSUME IInv, InhibitSuspendDone, upsets' = upsets
  PROVE  IInv'
<1>1. inbox \in Seq(Message) /\ lock \in Lock BY DEF IInv, TypeOK
<1>2. PICK m \in {"granted", "refused"} :
        Receive(m) /\ lock' = InhibitDone(lock, m = "granted") /\ UNCHANGED locker
  BY DEF InhibitSuspendDone
<1>3. /\ inbox # <<>> /\ Head(inbox) = m /\ inbox' = Tail(inbox)
      /\ UNCHANGED <<phase, running, onSuspend, locked, locker>>
  BY <1>2 DEF Receive
<1>4. inbox' \in Seq(Message) BY <1>1, <1>3
<1>5. CASE m = "granted"
  <2>1. Granted # {} /\ Granted' = {}
    BY <1>1, <1>3, <1>5, TailGrant DEF IInv, OneReply, Granted
  <2>2. lock.asked = 0 /\ lock.held = 1 /\ ~lock.fd /\ lock.taken
    BY <2>1 DEF IInv, Stages
  <2>3. /\ lock' \in Lock
        /\ lock'.asked = 0 /\ lock'.held = 1 /\ lock'.fd /\ lock'.taken
    BY <1>1, <1>2, <1>5, <2>2 DEF InhibitDone, Lock
  <2> QED BY <1>3, <1>4, <2>1, <2>3 DEF IInv, TypeOK, OneReply, Stages
<1>6. CASE m = "refused"
  <2>1. (Granted' = {} <=> Granted = {}) /\ OneReply'
    BY <1>1, <1>3, <1>6, TailOther DEF IInv, OneReply, Granted
  <2>2. lock' = lock BY <1>2, <1>6 DEF InhibitDone
  <2> QED BY <1>3, <1>4, <2>1, <2>2 DEF IInv, TypeOK, Stages
<1> QED BY <1>2, <1>5, <1>6

\* Taking or letting go of the lock keeps the stages, for any queue with the
\* same grants.
LEMMA LockStep ==
  ASSUME IInv, (Granted' = {}) <=> (Granted = {}),
         lock' \in {lock, Inhibit(lock), Uninhibit(lock)}
  PROVE  lock' \in Lock /\ Stages'
<1>1. lock \in Lock BY DEF IInv, TypeOK
<1>2. CASE lock' = lock BY <1>1, <1>2 DEF IInv, Stages
<1>3. CASE lock' = Inhibit(lock)
  <2>1. CASE lock.taken BY <1>2, <1>3, <2>1 DEF Inhibit
  <2>2. CASE ~lock.taken
    <3>1. lock.asked = 0 /\ lock.held = 0 /\ ~lock.fd /\ Granted = {}
      BY <2>2 DEF IInv, Stages
    <3>2. /\ lock' \in Lock
          /\ lock'.asked = 1 /\ lock'.held = 0 /\ ~lock'.fd /\ lock'.taken
      BY <1>1, <1>3, <2>2, <3>1, InhibitFields
    <3> QED BY <3>1, <3>2 DEF Stages
  <2> QED BY <2>1, <2>2
<1>4. CASE lock' = Uninhibit(lock)
  <2>1. CASE ~lock.fd BY <1>2, <1>4, <2>1 DEF Uninhibit
  <2>2. CASE lock.fd
    <3>1. lock.asked = 0 /\ lock.held = 1 /\ lock.taken /\ Granted = {}
      BY <2>2 DEF IInv, Stages
    <3>2. /\ lock' \in Lock
          /\ lock'.asked = 0 /\ lock'.held = 0 /\ ~lock'.fd
      BY <1>1, <1>4, <2>2, <3>1, UninhibitFields
    <3> QED BY <3>1, <3>2 DEF Stages
  <2> QED BY <2>1, <2>2
<1> QED BY <1>2, <1>3, <1>4

\* Messages that are no replies do not bring a lock.
LEMMA ReceiveOther ==
  ASSUME IInv, NEW m \in Message, m # "granted", Receive(m)
  PROVE  inbox' \in Seq(Message) /\ OneReply' /\ (Granted' = {} <=> Granted = {})
<1>1. inbox \in Seq(Message) BY DEF IInv, TypeOK
<1>2. inbox # <<>> /\ Head(inbox) = m /\ inbox' = Tail(inbox) BY DEF Receive
<1> QED BY <1>1, <1>2, TailOther DEF IInv, OneReply, Granted

LEMMA InitStages == Init => IInv
<1> SUFFICES ASSUME Init PROVE IInv OBVIOUS
<1>1. Granted = {} /\ inbox \in Seq(Message) BY DEF Init, Granted, GrantedIn
<1>2. /\ lock \in Lock
      /\ lock.asked = 1 /\ lock.held = 0 /\ ~lock.fd /\ lock.taken
  <2>1. NoLock \in Lock /\ ~NoLock.taken /\ NoLock.asked = 0 /\ NoLock.held = 0 /\ ~NoLock.fd
    BY DEF NoLock, Lock
  <2> QED BY <2>1, InhibitFields DEF Init
<1> QED BY <1>1, <1>2 DEF Init, IInv, TypeOK, OneReply, Stages

LEMMA NextStages == IInv /\ [Next]_vars => IInv'
<1> SUFFICES ASSUME IInv, [Next]_vars PROVE IInv' OBVIOUS
<1>0. upsets' = upsets BY DEF Next, vars
<1> USE <1>0 DEF Message
<1>1. CASE BeginSleep
  BY <1>1, OtherMessage DEF BeginSleep, IInv, TypeOK
<1>2. CASE WakeUp
  BY <1>2, OtherMessage DEF WakeUp, IInv, TypeOK
<1>3. CASE AnswerInhibit BY <1>3, AnswerStep
<1>4. CASE InhibitSuspendDone BY <1>4, DoneStep
<1>5. CASE HandleSuspendActions
  <2>1. inbox' \in Seq(Message) /\ OneReply' /\ (Granted' = {} <=> Granted = {})
    BY <1>5, ReceiveOther DEF HandleSuspendActions
  <2>2. lock' \in Lock /\ Stages' BY <1>5, <2>1, LockStep DEF HandleSuspendActions
  <2> QED BY <1>5, <2>1, <2>2 DEF HandleSuspendActions, Receive, IInv, TypeOK
<1>6. CASE HandleResumeActions
  <2>1. inbox' \in Seq(Message) /\ OneReply' /\ (Granted' = {} <=> Granted = {})
    BY <1>6, ReceiveOther DEF HandleResumeActions
  <2>2. lock' \in Lock /\ Stages' BY <1>6, <2>1, LockStep DEF HandleResumeActions
  <2> QED BY <1>6, <2>1, <2>2 DEF HandleResumeActions, Receive, IInv, TypeOK
<1>7. CASE Stop
  BY <1>7, LockStep DEF Stop, IInv, TypeOK, OneReply, Granted
<1>8. CASE Start
  BY <1>8, LockStep DEF Start, IInv, TypeOK, OneReply, Granted
<1>9. CASE UNCHANGED <<lock, inbox>> /\ (Suspend \/ ScreensaverProxyReady \/ ScreensaverLocks
                                          \/ UserUnlocks \/ SettingChanges \/ UNCHANGED vars)
  BY <1>9 DEF IInv, TypeOK, OneReply, Stages, Granted, Suspend, ScreensaverProxyReady,
              ScreensaverLocks, UserUnlocks, SettingChanges, vars
<1> QED
  BY <1>1, <1>2, <1>3, <1>4, <1>5, <1>6, <1>7, <1>8, <1>9
  DEF Next, Step, Deliver, Suspend, ScreensaverProxyReady, ScreensaverLocks, UserUnlocks,
      SettingChanges, vars

\* The lock of logind is accounted for in every state: there is at most one,
\* and a descriptor or a reply on its way goes with it.
THEOREM NoLockLeaks == Spec => []LockAccounted
<1>1. IInv => LockAccounted
  BY DEF IInv, TypeOK, Stages, LockAccounted
<1> QED BY <1>1, InitStages, NextStages, PTL DEF Spec

-----------------------------------------------------------------------------
(* The delay lock after a resume, if nothing upsets it.                    *)

\* Then a suspend begins when all is dealt with, so that the messages are those
\* of one suspend or one reply; nothing is asked for while the machine is not
\* awake, hence nothing refused, and a lock that is taken is there or coming.
Undone == {<<"resume">>, <<"sleep", "resume">>}

CalmInv ==
  upsets = {} =>
    /\ lock.taken => lock.asked + lock.held = 1
    /\ phase # "awake" => lock.asked = 0 /\ inbox \in {<<>>, <<"sleep">>}
    /\ phase = "awake" => inbox \in {<<>>, <<"granted">>} \cup Undone
    /\ inbox \in Undone => lock.asked = 0
    /\ running /\ phase = "awake" /\ inbox \notin Undone => lock.taken

SleepInv == IInv /\ CalmInv

LEMMA Messages ==
  /\ Append(<<>>, "sleep") = <<"sleep">> /\ Append(<<>>, "resume") = <<"resume">>
  /\ Append(<<"sleep">>, "resume") = <<"sleep", "resume">> /\ Append(<<>>, "granted") = <<"granted">>
  /\ Tail(<<"sleep">>) = <<>> /\ Tail(<<"resume">>) = <<>> /\ Tail(<<"granted">>) = <<>>
  /\ Tail(<<"sleep", "resume">>) = <<"resume">>
  /\ Head(<<"sleep">>) = "sleep" /\ Head(<<"resume">>) = "resume" /\ Head(<<"granted">>) = "granted"
  /\ Head(<<"sleep", "resume">>) = "sleep"
  /\ <<"sleep">> # <<"resume">> /\ <<"sleep">> # <<"granted">> /\ <<"resume">> # <<"granted">>
  /\ <<"sleep", "resume">> \notin {<<>>, <<"sleep">>, <<"resume">>, <<"granted">>}
  /\ <<"sleep">> # <<>> /\ <<"resume">> # <<>> /\ <<"granted">> # <<>>
<1>1. Append(<<>>, "sleep") = <<"sleep">> /\ Append(<<>>, "granted") = <<"granted">>
  OBVIOUS
<1>2. Append(<<>>, "resume") = <<"resume">>
  OBVIOUS
<1>3. Append(<<"sleep">>, "resume") = <<"sleep", "resume">>
  <2>1. \A s, t \in Seq(Message) : Len(s) = Len(t) /\ (\A i \in 1 .. Len(s) : s[i] = t[i]) => s = t
    OBVIOUS
  <2> DEFINE s == Append(<<"sleep">>, "resume")
             t == <<"sleep", "resume">>
  <2>2. <<"sleep">> \in Seq(Message) /\ "resume" \in Message /\ Len(<<"sleep">>) = 1
    BY DEF Message
  <2>3. s \in Seq(Message) /\ Len(s) = 2 /\ s[1] = "sleep" /\ s[2] = "resume"
    BY <2>2
  <2>4. t \in Seq(Message) /\ Len(t) = 2 /\ t[1] = "sleep" /\ t[2] = "resume"
    BY DEF Message
  <2> HIDE DEF s, t
  <2>5. \A i \in 1 .. 2 : s[i] = t[i]
    BY <2>3, <2>4
  <2> QED BY <2>1, <2>3, <2>4, <2>5 DEF s, t
<1>4. Tail(<<"sleep">>) = <<>> /\ Tail(<<"resume">>) = <<>> /\ Tail(<<"granted">>) = <<>>
  OBVIOUS
<1>5. Tail(<<"sleep", "resume">>) = <<"resume">>
  OBVIOUS
<1>6. /\ Head(<<"sleep">>) = "sleep" /\ Head(<<"resume">>) = "resume" /\ Head(<<"granted">>) = "granted"
      /\ Head(<<"sleep", "resume">>) = "sleep"
  OBVIOUS
<1>7. <<"sleep">> # <<"resume">> /\ <<"sleep">> # <<"granted">> /\ <<"resume">> # <<"granted">>
  BY <1>6
<1>8. /\ Len(<<>>) = 0 /\ Len(<<"sleep">>) = 1 /\ Len(<<"resume">>) = 1 /\ Len(<<"granted">>) = 1
      /\ Len(<<"sleep", "resume">>) = 2
  OBVIOUS
<1>9. <<"sleep", "resume">> \notin {<<>>, <<"sleep">>, <<"resume">>, <<"granted">>}
  BY <1>8
<1>10. <<"sleep">> # <<>> /\ <<"resume">> # <<>> /\ <<"granted">> # <<>>
  BY <1>8
<1> QED BY <1>1, <1>2, <1>3, <1>4, <1>5, <1>6, <1>7, <1>9, <1>10

LEMMA CalmStep == SleepInv /\ [Next]_vars => CalmInv'
<1> SUFFICES ASSUME SleepInv, [Next]_vars, upsets = {}, upsets' = {} PROVE CalmInv'
  BY DEF Next, vars, SleepInv, CalmInv
<1>1. /\ lock \in Lock /\ phase \in {"awake", "preparing", "asleep"} /\ Stages
      /\ lock.taken => lock.asked + lock.held = 1
      /\ phase # "awake" => lock.asked = 0 /\ inbox \in {<<>>, <<"sleep">>}
      /\ phase = "awake" => inbox \in {<<>>, <<"granted">>} \cup Undone
      /\ inbox \in Undone => lock.asked = 0
      /\ running /\ phase = "awake" /\ inbox \notin Undone => lock.taken
  BY DEF SleepInv, IInv, TypeOK, CalmInv
<1>2. /\ lock.asked > 0 => inbox = <<>> /\ lock.held = 0 /\ ~lock.fd /\ lock.taken
      /\ inbox = <<"granted">> => lock.asked = 0 /\ lock.held = 1 /\ ~lock.fd /\ lock.taken
      /\ lock.fd => lock.asked = 0 /\ lock.held = 1 /\ lock.taken
  <2>1. Granted # {} <=> inbox = <<"granted">>
    <3>1. inbox \in {<<>>, <<"sleep">>, <<"granted">>, <<"resume">>, <<"sleep", "resume">>}
      BY <1>1 DEF Undone
    <3>2. inbox = <<"granted">> => 1 \in Granted
      BY DEF Granted, GrantedIn
    <3>3. inbox \in {<<>>, <<"sleep">>, <<"resume">>, <<"sleep", "resume">>} => Granted = {}
      BY DEF Granted, GrantedIn
    <3> QED BY <3>1, <3>2, <3>3
  <2>2. lock.asked > 0 => inbox \notin {<<"sleep">>, <<"granted">>} \cup Undone
    BY <1>1, <2>1, Messages DEF Stages, Undone
  <2> QED BY <1>1, <2>1, <2>2 DEF Stages, Lock
<1>3. CASE BeginSleep
  <2>1. inbox = <<>> /\ lock.asked = 0 /\ inbox' = <<"sleep">> /\ phase' = "preparing" /\ lock' = lock
    BY <1>3, Messages DEF BeginSleep, Settled
  <2> QED BY <1>1, <2>1, Messages DEF CalmInv, Undone
<1>4. CASE Suspend
  BY <1>1, <1>4, Messages DEF Suspend, CalmInv, Undone
<1>5. CASE WakeUp
  <2>1. /\ phase = "asleep" /\ phase' = "awake" /\ lock' = lock /\ running' = running
        /\ inbox' = Append(inbox, "resume")
    BY <1>5 DEF WakeUp
  <2>2. inbox' \in Undone
    BY <1>1, <2>1, Messages DEF Undone
  <2> QED BY <1>1, <2>1, <2>2 DEF CalmInv
<1>6. CASE AnswerInhibit
  <2>1. PICK granted \in BOOLEAN :
          /\ granted = (phase = "awake") /\ lock' = Answer(lock, granted)
          /\ inbox' = Append(inbox, IF granted THEN "granted" ELSE "refused")
    BY <1>6 DEF AnswerInhibit, Outcome
  <2>2. lock.asked > 0 /\ UNCHANGED <<phase, running>>
    BY <1>6 DEF AnswerInhibit
  <2>3. phase = "awake" /\ inbox = <<>> /\ lock.asked = 1 /\ lock.held = 0
    BY <1>1, <1>2, <2>2 DEF Stages
  <2>4. inbox' = <<"granted">> /\ lock'.asked = 0 /\ lock'.held = 1 /\ lock'.taken = lock.taken
    BY <1>1, <2>1, <2>3, AnswerFields, Messages
  <2> QED BY <1>1, <1>2, <2>2, <2>3, <2>4, Messages DEF CalmInv, Undone
<1>7. CASE InhibitSuspendDone
  <2>1. PICK m \in {"granted", "refused"} :
          Receive(m) /\ lock' = InhibitDone(lock, m = "granted")
    BY <1>7 DEF InhibitSuspendDone
  <2>2. inbox # <<>> /\ Head(inbox) = m /\ inbox' = Tail(inbox) /\ UNCHANGED <<phase, running>>
    BY <2>1 DEF Receive
  <2>3. inbox = <<"granted">> /\ m = "granted"
    BY <1>1, <2>2, Messages DEF Undone
  <2>4. inbox' = <<>> /\ phase' = "awake"
    BY <1>1, <2>2, <2>3, Messages
  <2>5. lock'.asked = lock.asked /\ lock'.held = lock.held /\ lock'.taken = lock.taken
    BY <1>1, <2>1, <2>3 DEF InhibitDone, Lock
  <2> QED BY <1>1, <1>2, <2>2, <2>3, <2>4, <2>5, Messages DEF CalmInv, Undone
<1>8. /\ Uninhibit(lock).asked = lock.asked
      /\ Uninhibit(lock).taken => Uninhibit(lock).asked + Uninhibit(lock).held = 1
  <2>1. CASE lock.fd
    BY <1>1, <1>2, <2>1 DEF Uninhibit, Lock
  <2>2. CASE ~lock.fd
    BY <1>1, <2>2 DEF Uninhibit
  <2> QED BY <2>1, <2>2
<1>9. /\ Inhibit(lock).taken /\ Inhibit(lock).asked + Inhibit(lock).held = 1
  <2>1. CASE lock.taken
    BY <1>1, <2>1 DEF Inhibit
  <2>2. CASE ~lock.taken
    <3>1. lock.asked = 0 /\ lock.held = 0
      BY <1>1, <2>2 DEF Stages
    <3> QED BY <1>1, <2>2, <3>1, InhibitFields
  <2> QED BY <2>1, <2>2
<1>10. CASE HandleSuspendActions
  <2>1. /\ inbox # <<>> /\ Head(inbox) = "sleep" /\ inbox' = Tail(inbox) /\ UNCHANGED <<phase, running>>
        /\ lock' = IF running THEN Uninhibit(lock) ELSE lock
    BY <1>10 DEF HandleSuspendActions, Receive
  <2>2. \/ inbox = <<"sleep">> /\ inbox' = <<>>
        \/ inbox = <<"sleep", "resume">> /\ inbox' = <<"resume">>
    BY <1>1, <2>1, Messages DEF Undone
  <2>3. lock'.asked = lock.asked /\ (lock'.taken => lock'.asked + lock'.held = 1)
    BY <1>1, <1>8, <2>1
  <2>4. lock.asked = 0
    BY <1>1, <1>2, <2>2, Messages DEF Undone
  <2>5. phase = "awake" => inbox' = <<"resume">>
    BY <1>1, <2>2, Messages DEF Undone
  <2> QED BY <1>1, <2>1, <2>2, <2>3, <2>4, <2>5, Messages DEF CalmInv, Undone
<1>11. CASE HandleResumeActions
  <2>1. /\ inbox # <<>> /\ Head(inbox) = "resume" /\ inbox' = Tail(inbox) /\ UNCHANGED <<phase, running>>
        /\ lock' = IF running THEN Inhibit(lock) ELSE lock
    BY <1>11 DEF HandleResumeActions, Receive
  <2>2. inbox = <<"resume">> /\ inbox' = <<>> /\ phase = "awake"
    BY <1>1, <2>1, Messages DEF Undone
  <2> QED BY <1>1, <1>9, <2>1, <2>2, Messages DEF CalmInv, Undone
<1>12. CASE Stop
  <2>1. UNCHANGED <<inbox, phase>> /\ lock' = Uninhibit(lock) /\ running' = FALSE
    BY <1>12 DEF Stop
  <2> QED BY <1>1, <1>8, <2>1 DEF CalmInv
<1>13. CASE Start
  <2>1. UNCHANGED <<inbox, phase>> /\ lock' = Inhibit(lock) /\ running' = TRUE /\ phase = "awake"
    BY <1>13 DEF Start
  <2>2. \A i \in DOMAIN inbox : inbox[i] \in {"granted", "refused"}
    BY <1>13 DEF Start
  <2>3. inbox \notin Undone
    <3>1. inbox # <<"resume">>
      BY <2>2
    <3>2. inbox # <<"sleep", "resume">>
      BY <2>2
    <3> QED BY <3>1, <3>2 DEF Undone
  <2> QED BY <1>1, <1>9, <2>1, <2>3 DEF CalmInv
<1>14. CASE ScreensaverProxyReady \/ ScreensaverLocks \/ UserUnlocks \/ SettingChanges \/ UNCHANGED vars
  <2>1. UNCHANGED <<lock, inbox, phase, running>>
    BY <1>14 DEF ScreensaverProxyReady, ScreensaverLocks, UserUnlocks, SettingChanges, vars
  <2> QED BY <1>1, <2>1 DEF CalmInv
<1> QED
  BY <1>3, <1>4, <1>5, <1>6, <1>7, <1>10, <1>11, <1>12, <1>13, <1>14
  DEF Next, Step, Deliver

-----------------------------------------------------------------------------
(* The lid's lock.                                                         *)

\* One request, one reply, one descriptor: the lock goes round these stages.  It
\* stays marked after a refusal.
LidStages ==
  \/ lidLock.asked = 1 /\ lidLock.held = 0 /\ ~lidLock.fd /\ lidLock.taken /\ lidInbox = <<>>
  \/ lidLock.asked = 0 /\ lidLock.held = 1 /\ ~lidLock.fd /\ lidLock.taken /\ lidInbox = <<"granted">>
  \/ /\ lidLock.asked = 0 /\ lidLock.held = 0 /\ ~lidLock.fd /\ lidLock.taken
     /\ lidInbox \in {<<"refused">>, <<>>} /\ lidUpsets # {}
  \/ lidLock.asked = 0 /\ lidLock.held = 1 /\ lidLock.fd /\ lidLock.taken /\ lidInbox = <<>>
  \/ lidLock.asked = 0 /\ lidLock.held = 0 /\ ~lidLock.fd /\ ~lidLock.taken /\ lidInbox = <<>>

\* In calm a monitor that the screen knows of keeps the lock taken.
LidInv ==
  /\ lidLock \in Lock
  /\ LidStages
  /\ lidUpsets = {} /\ seen /\ ~doNothing => lidLock.taken

LEMMA SameLock ==
  /\ Lid!Lock = Lock
  /\ \A l : Lid!Inhibit(l) = Inhibit(l) /\ Lid!Uninhibit(l) = Uninhibit(l)
  /\ \A l, ok : Lid!Answer(l, ok) = Answer(l, ok) /\ Lid!InhibitDone(l, ok) = InhibitDone(l, ok)
  /\ Lid!NoLock = NoLock
BY DEF Lid!Lock, Lock, Lid!Inhibit, Inhibit, Lid!Uninhibit, Uninhibit, Lid!Answer, Answer,
   Lid!InhibitDone, InhibitDone, Lid!NoLock, NoLock

LEMMA LidMessages ==
  /\ Append(<<>>, "granted") = <<"granted">> /\ Append(<<>>, "refused") = <<"refused">>
  /\ Tail(<<"granted">>) = <<>> /\ Tail(<<"refused">>) = <<>>
  /\ Head(<<"granted">>) = "granted" /\ Head(<<"refused">>) = "refused"
  /\ <<"granted">> # <<"refused">> /\ <<"granted">> # <<>> /\ <<"refused">> # <<>>
<1>1. Append(<<>>, "granted") = <<"granted">> /\ Append(<<>>, "refused") = <<"refused">>
  OBVIOUS
<1>2. Tail(<<"granted">>) = <<>> /\ Tail(<<"refused">>) = <<>>
  OBVIOUS
<1>3. Head(<<"granted">>) = "granted" /\ Head(<<"refused">>) = "refused"
  OBVIOUS
<1>4. Len(<<>>) = 0 /\ Len(<<"granted">>) = 1 /\ Len(<<"refused">>) = 1
  OBVIOUS
<1> QED BY <1>1, <1>2, <1>3, <1>4

\* Asking for the lock, if it is not there.
LEMMA LidTakes ==
  ASSUME LidInv, lidLock' = Inhibit(lidLock), UNCHANGED <<lidInbox, lidUpsets>>
  PROVE  lidLock' \in Lock /\ LidStages' /\ lidLock'.taken
<1>1. CASE lidLock.taken
  BY <1>1 DEF Inhibit, LidInv, LidStages
<1>2. CASE ~lidLock.taken
  <2>1. lidLock \in Lock /\ lidLock.asked = 0 /\ lidLock.held = 0 /\ ~lidLock.fd /\ lidInbox = <<>>
    BY <1>2 DEF LidInv, LidStages
  <2>2. /\ lidLock' \in Lock
        /\ lidLock'.asked = 1 /\ lidLock'.held = 0 /\ ~lidLock'.fd /\ lidLock'.taken
    BY <1>2, <2>1, InhibitFields
  <2> QED BY <2>1, <2>2 DEF LidStages
<1> QED BY <1>1, <1>2

LEMMA LidStep == LidInv /\ [Lid!Next]_Lid!vars => LidInv'
<1> SUFFICES ASSUME LidInv, [Lid!Next]_Lid!vars PROVE LidInv'
  OBVIOUS
<1>1. lidLock \in Lock /\ LidStages /\ (lidUpsets = {} /\ seen /\ ~doNothing => lidLock.taken)
  BY DEF LidInv
<1>2. UNCHANGED lidUpsets
  BY DEF Lid!Next, Lid!vars
<1>3. ASSUME NEW monitor, seen' = monitor, UNCHANGED <<lidInbox, doNothing>>, Lid!OnRandrEvent(monitor)
      PROVE  LidInv'
  <2>1. CASE Lid!SuspendOnLidClose(monitor)
    <3>1. lidLock' = lidLock /\ ~(seen' /\ ~doNothing')
      BY <1>3, <2>1 DEF Lid!OnRandrEvent, Lid!SuspendOnLidClose
    <3> QED BY <1>1, <1>2, <1>3, <3>1 DEF LidInv, LidStages
  <2>2. CASE ~Lid!SuspendOnLidClose(monitor)
    <3>1. lidLock' = Inhibit(lidLock)
      BY <1>3, <2>2, SameLock DEF Lid!OnRandrEvent
    <3>2. lidLock' \in Lock /\ LidStages' /\ lidLock'.taken
      BY <1>2, <1>3, <3>1, LidTakes
    <3> QED BY <3>2 DEF LidInv
  <2> QED BY <2>1, <2>2
<1>4. CASE Lid!RandrEvent
  BY <1>3, <1>4 DEF Lid!RandrEvent
<1>5. CASE Lid!LidCloses \/ Lid!LidCloseSafetyTimer
  <2>1. /\ seen' = external /\ UNCHANGED <<lidInbox, doNothing>>
        /\ IF seen # external THEN Lid!OnRandrEvent(external) ELSE lidLock' = lidLock
    BY <1>5 DEF Lid!LidCloses, Lid!LidCloseSafetyTimer, Lid!DoLidClosedAction
  <2>2. CASE seen # external
    BY <1>3, <2>1, <2>2
  <2>3. CASE seen = external
    BY <1>1, <1>2, <2>1, <2>3 DEF LidInv, LidStages
  <2> QED BY <2>2, <2>3
<1>6. CASE Lid!InhibitLidSwitchTimer
  <2>1. /\ Lid!SuspendOnLidClose(seen) /\ lidLock' = Uninhibit(lidLock)
        /\ UNCHANGED <<lidInbox, seen, doNothing>>
    BY <1>6, SameLock DEF Lid!InhibitLidSwitchTimer, Lid!monitors
  <2>2. ~(seen' /\ ~doNothing')
    BY <2>1 DEF Lid!SuspendOnLidClose
  <2>3. CASE lidLock.fd
    <3>1. lidLock.held = 1 /\ lidLock.asked = 0 /\ lidInbox = <<>>
      BY <1>1, <2>3 DEF LidStages
    <3>2. /\ lidLock' \in Lock /\ lidLock'.asked = 0 /\ lidLock'.held = 0 /\ ~lidLock'.fd
          /\ ~lidLock'.taken
      BY <1>1, <2>1, <2>3, <3>1, UninhibitFields DEF Uninhibit, Lock
    <3> QED BY <2>1, <2>2, <3>1, <3>2 DEF LidInv, LidStages
  <2>4. CASE ~lidLock.fd
    <3>1. lidLock' = lidLock
      BY <2>1, <2>4 DEF Uninhibit
    <3> QED BY <1>1, <1>2, <2>1, <2>2, <3>1 DEF LidInv, LidStages
  <2> QED BY <2>3, <2>4
<1>7. CASE Lid!AnswerInhibit
  <2>1. PICK ok \in BOOLEAN :
          /\ lidLock' = Answer(lidLock, ok) /\ (~ok => lidUpsets # {})
          /\ lidInbox' = Append(lidInbox, IF ok THEN "granted" ELSE "refused")
    BY <1>7, SameLock DEF Lid!AnswerInhibit
  <2>2. lidLock.asked > 0 /\ UNCHANGED <<seen, doNothing>>
    BY <1>7 DEF Lid!AnswerInhibit, Lid!monitors
  <2>3. lidLock.asked = 1 /\ lidLock.held = 0 /\ ~lidLock.fd /\ lidLock.taken /\ lidInbox = <<>>
    BY <1>1, <2>2 DEF LidStages
  <2>4. /\ lidLock' \in Lock /\ lidLock'.asked = 0 /\ lidLock'.held = (IF ok THEN 1 ELSE 0)
        /\ ~lidLock'.fd /\ lidLock'.taken
    BY <1>1, <2>1, <2>3, AnswerFields
  <2>5. lidInbox' = IF ok THEN <<"granted">> ELSE <<"refused">>
    BY <2>1, <2>3, LidMessages
  <2> QED BY <1>2, <2>1, <2>2, <2>4, <2>5 DEF LidInv, LidStages
<1>8. CASE Lid!InhibitLidSwitchDone
  <2>1. /\ lidInbox # <<>> /\ lidLock' = InhibitDone(lidLock, Head(lidInbox) = "granted")
        /\ lidInbox' = Tail(lidInbox) /\ UNCHANGED <<seen, doNothing>>
    BY <1>8, SameLock DEF Lid!InhibitLidSwitchDone, Lid!monitors
  <2>2. CASE lidInbox = <<"granted">>
    <3>1. lidLock.asked = 0 /\ lidLock.held = 1 /\ lidLock.taken
      BY <1>1, <2>2, LidMessages DEF LidStages
    <3>2. lidLock' = [lidLock EXCEPT !.fd = TRUE] /\ lidInbox' = <<>>
      BY <2>1, <2>2, LidMessages DEF InhibitDone
    <3>3. /\ lidLock' \in Lock /\ lidLock'.asked = 0 /\ lidLock'.held = 1 /\ lidLock'.fd /\ lidLock'.taken
      BY <1>1, <3>1, <3>2 DEF Lock
    <3> QED BY <3>2, <3>3 DEF LidInv, LidStages
  <2>3. CASE lidInbox = <<"refused">>
    <3>1. /\ lidLock.asked = 0 /\ lidLock.held = 0 /\ ~lidLock.fd /\ lidLock.taken /\ lidUpsets # {}
      BY <1>1, <2>3, LidMessages DEF LidStages
    <3>2. lidLock' = lidLock /\ lidInbox' = <<>>
      BY <2>1, <2>3, LidMessages DEF InhibitDone
    <3> QED BY <1>1, <1>2, <3>1, <3>2 DEF LidInv, LidStages
  <2> QED BY <1>1, <2>1, <2>2, <2>3 DEF LidStages
<1>9. CASE Lid!SettingChanges
  <2>1. UNCHANGED <<lidLock, lidInbox, seen>> /\ lidUpsets # {}
    BY <1>9 DEF Lid!SettingChanges
  <2> QED BY <1>1, <1>2, <2>1 DEF LidInv, LidStages
<1>10. CASE Lid!MonitorChanges \/ Lid!LidOpens \/ UNCHANGED Lid!vars
  <2>1. UNCHANGED <<lidLock, lidInbox, seen, doNothing>>
    BY <1>10 DEF Lid!MonitorChanges, Lid!LidOpens, Lid!vars, Lid!monitors
  <2> QED BY <1>1, <1>2, <2>1 DEF LidInv, LidStages
<1> QED
  BY <1>4, <1>5, <1>6, <1>7, <1>8, <1>9, <1>10 DEF Lid!Next, Lid!Step

LEMMA LidStart == Lid!Init => LidInv
<1> SUFFICES ASSUME Lid!Init PROVE LidInv OBVIOUS
<1>1. lidLock = Inhibit(NoLock) /\ lidInbox = <<>>
  BY SameLock DEF Lid!Init
<1>2. NoLock \in Lock /\ ~NoLock.taken /\ NoLock.asked = 0 /\ NoLock.held = 0 /\ ~NoLock.fd
  BY DEF NoLock, Lock
<1>3. lidLock \in Lock /\ lidLock.asked = 1 /\ lidLock.held = 0 /\ ~lidLock.fd /\ lidLock.taken
  BY <1>1, <1>2, InhibitFields
<1> QED BY <1>1, <1>3 DEF LidInv, LidStages

-----------------------------------------------------------------------------
(* Both locks.                                                             *)

\* Each part takes its own steps or stutters.
LEMMA PartsStep ==
  [LogindNext]_both => [Next]_vars /\ [Lid!Next]_Lid!vars
BY DEF LogindNext, both, lidVars, LidRuns, LidCloses, LidCloseSafetyTimer, InhibitLidSwitchTimer,
   LidWorld, Lid!Next, Lid!Step, Lid!vars, Lid!monitors, Lid!lid

\* Whatever suspends, monitors, lids, timers and replies come together, neither
\* lock leaks or is held twice; and in calm each of them is there when it is
\* needed: the delay lock once a resume is dealt with, the lid's lock while a
\* monitor is in use.
THEOREM LocksAreKept == LogindSpec => []LocksKept
<1>1. Init => SleepInv
  <2> SUFFICES ASSUME Init PROVE SleepInv OBVIOUS
  <2>1. NoLock \in Lock /\ ~NoLock.taken /\ NoLock.asked = 0 /\ NoLock.held = 0 /\ ~NoLock.fd
    BY DEF NoLock, Lock
  <2>2. lock.taken /\ lock.asked = 1 /\ lock.held = 0 /\ inbox = <<>> /\ phase = "awake"
    BY <2>1, InhibitFields DEF Init
  <2>3. <<>> \notin Undone
    BY Messages DEF Undone
  <2> QED BY <2>2, <2>3, InitStages DEF SleepInv, CalmInv
<1>2. SleepInv /\ [Next]_vars => SleepInv'
  BY CalmStep, NextStages DEF SleepInv
<1>3. SleepInv => ReadyToDelay
  <2> SUFFICES ASSUME SleepInv, upsets = {}, running, phase = "awake", inbox = <<>>, lock.asked = 0
               PROVE  lock.held = 1
    BY DEF ReadyToDelay, Settled
  <2>1. <<>> \notin Undone
    BY Messages DEF Undone
  <2>2. lock.taken /\ lock.held \in Nat
    BY <2>1 DEF SleepInv, CalmInv, IInv, TypeOK, Lock
  <2> QED BY <2>2 DEF SleepInv, CalmInv
<1>4. LidInv => Lid!LidLockAccounted
  <2> SUFFICES ASSUME LidInv PROVE Lid!LidLockAccounted OBVIOUS
  <2>1. lidInbox \in {<<>>, <<"refused">>} => Lid!GrantedReplies = {}
    BY DEF Lid!GrantedReplies
  <2>2. lidInbox = <<"granted">> => 1 \in Lid!GrantedReplies
    BY DEF Lid!GrantedReplies
  <2> QED BY <2>1, <2>2 DEF LidInv, LidStages, Lid!LidLockAccounted
<1>5. LidInv => Lid!DockedKeepsLock
  BY DEF LidInv, LidStages, Lid!DockedKeepsLock
<1>6. LogindSpec => LogindInit /\ [][LogindNext]_both
  BY PTL DEF LogindSpec
<1>7. LogindInit => Init /\ Lid!Init
  BY DEF LogindInit
<1>8. SleepInv /\ LidInv => LocksKept
  BY <1>3, <1>4, <1>5 DEF LocksKept
<1>9. SleepInv /\ LidInv /\ [LogindNext]_both => (SleepInv /\ LidInv)'
  BY <1>2, LidStep, PartsStep
<1>10. LogindInit => SleepInv /\ LidInv
  BY <1>1, <1>7, LidStart
<1> QED BY <1>6, <1>8, <1>9, <1>10, PTL
=============================================================================
