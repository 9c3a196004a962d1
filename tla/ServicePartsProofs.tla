--------------------------- MODULE ServicePartsProofs ---------------------------
(***************************************************************************)
(* Theorems about the parts ServiceParts puts side by side, for any number *)
(* of cards and calls.  Smart cards: the worker reports up to three events *)
(* in a row, and Owed relates those it has still to write to the last one  *)
(* written and to the card in its table.  Print events: PrintInv relates   *)
(* the lease the service keeps to the one the plugin holds.  Media keys:   *)
(* MediaInv relates the applications that registered to the watches and to *)
(* the connections that left; MprisInv says of each MPRIS player that the  *)
(* last report on its way is right, or that the watcher knows it or will   *)
(* ask for it.  Clipboard: ClipInv accounts for every use of memory.       *)
(* Housekeeping: DiskInv and ThumbInv, and what holds of the sums of sizes *)
(* as a purge goes from file to file.  At the end, the types of all parts. *)
(***************************************************************************)
EXTENDS ServiceParts, FiniteSetTheorems, WellFoundedInduction, TLAPS

Event == {"none", "I", "R"}

\* What is left to write continues what was written, and ends with an insertion
\* exactly if the worker has a card in its table, unless it is about to crash.
OwedKept ==
  \/ writes = <<>> /\ (tracked # 0 <=> reported[2] = "I")
  \/ writes = <<"I">> /\ tracked # 0
  \/ writes = <<"R">> /\ tracked = 0 /\ reported[2] = "I"
  \/ writes = <<"R", "I">> /\ tracked # 0 /\ reported[2] = "I"
OwedLost ==
  \/ writes = <<>>
  \/ writes = <<"R">> /\ reported[2] = "I"
  \/ writes = <<"I", "R">>
  \/ writes = <<"R", "I", "R">> /\ reported[2] = "I"
Owed == IF pc = "fall" THEN OwedLost ELSE OwedKept

\* A card that is in, or of which NSS has told, has been counted.
Counted == (present \/ flagged => series > 0) /\ (pc = "look" => read > 0)

IInv ==
  /\ TypeOK
  /\ present \in BOOLEAN /\ flagged \in BOOLEAN /\ read \in 0 .. MaxSeries
  /\ reported \in Event \X Event
  /\ (pc \notin {"write", "fall"} => writes = <<>>)
  /\ Owed /\ Counted /\ RemovalsPaired

-----------------------------------------------------------------------------
LEMMA IInvInit == Init => IInv
<1> SUFFICES ASSUME Init PROVE IInv OBVIOUS
<1>1. TypeOK /\ read \in 0 .. MaxSeries
  <2>1. CASE present BY <2>1, SeriesAssumption DEF Init, TypeOK
  <2>2. CASE ~present BY <2>2, SeriesAssumption DEF Init, TypeOK
  <2> QED BY <2>1, <2>2
<1>2. Owed /\ RemovalsPaired /\ reported \in Event \X Event
  BY DEF Init, Owed, OwedKept, RemovalsPaired, Event
<1>3. Counted BY DEF Init, Counted
<1> QED BY <1>1, <1>2, <1>3 DEF IInv, Init

\* The look at the slot finds nothing left to write, so what it decides on
\* continues the last report.
LEMMA LookKeeps == IInv /\ Look => IInv'
<1> SUFFICES ASSUME IInv, Look PROVE IInv' OBVIOUS
<1>1. writes = <<>> /\ (tracked # 0 <=> reported[2] = "I") /\ read > 0 /\ read \in 0 .. MaxSeries
  BY DEF IInv, Look, Owed, OwedKept, Counted
<1>2. reported' = reported /\ pc' \in {"write", "fall"} /\ UNCHANGED <<slot, read, state>>
  BY DEF Look, main, slot
<1>3. tracked' \in 0 .. MaxSeries
  <2>1. tracked' = read \/ tracked' = 0 BY DEF Look
  <2> QED BY <1>1, <2>1, SeriesAssumption
<1>4. Owed'
  <2>1. CASE pc' = "write"
    <3>1. CASE present
      <4>1. tracked' = read /\ (writes' = <<"I">> \/ (writes' = <<"R", "I">> /\ tracked # 0))
        BY <2>1, <3>1 DEF Look
      <4> QED BY <1>1, <1>2, <2>1, <4>1 DEF Owed, OwedKept
    <3>2. CASE ~present
      <4>1. tracked' = 0 /\ writes' = IF tracked = 0 THEN <<>> ELSE <<"R">> BY <2>1, <3>2 DEF Look
      <4> QED BY <1>1, <1>2, <2>1, <4>1 DEF Owed, OwedKept
    <3> QED BY <3>1, <3>2
  <2>2. CASE pc' = "fall"
    <3>1. writes' = <<"R", "I", "R">> /\ tracked # 0 BY <2>2 DEF Look
    <3> QED BY <1>1, <1>2, <2>2, <3>1 DEF Owed, OwedLost
  <2> QED BY <1>2, <2>1, <2>2
<1> QED BY <1>2, <1>3, <1>4 DEF IInv, TypeOK, Counted, RemovalsPaired, slot

\* Each event that is written was owed.
LEMMA WriteKeeps == IInv /\ Write => IInv' /\ Head(writes) \in {"I", "R"}
<1> SUFFICES ASSUME IInv, Write PROVE IInv' /\ Head(writes) \in {"I", "R"} OBVIOUS
<1>1. UNCHANGED <<present, series, flagged, read, tracked, state, pc>> /\ pc \in {"write", "fall"}
  BY DEF Write, slot, main
<1>2. writes # <<>> /\ writes' = Tail(writes) /\ reported' = <<reported[2], Head(writes)>>
  BY DEF Write
<1>3. Owed' /\ RemovalsPaired' /\ Head(writes) \in {"I", "R"}
  <2> USE DEF Owed, OwedKept, OwedLost, RemovalsPaired
  <2>1. CASE writes = <<"I">> BY <1>1, <1>2, <2>1 DEF IInv
  <2>2. CASE writes = <<"R">> BY <1>1, <1>2, <2>2 DEF IInv
  <2>3. CASE writes = <<"R", "I">> BY <1>1, <1>2, <2>3 DEF IInv
  <2>4. CASE writes = <<"I", "R">> BY <1>1, <1>2, <2>4 DEF IInv
  <2>5. CASE writes = <<"R", "I", "R">> BY <1>1, <1>2, <2>5 DEF IInv
  <2> QED BY <1>2, <2>1, <2>2, <2>3, <2>4, <2>5 DEF IInv
<1>4. reported' \in Event \X Event BY <1>2, <1>3 DEF IInv, Event
<1> QED BY <1>1, <1>2, <1>3, <1>4 DEF IInv, TypeOK, Counted

\* A daemon that starts anew has nothing to write, and its last report is gone.
LEMMA CrashKeeps == IInv /\ Crash => IInv'
BY SeriesAssumption DEF Crash, IInv, TypeOK, Owed, OwedKept, Counted, RemovalsPaired, Event, slot

\* The others write nothing.
LEMMA IInvStep == IInv /\ [Next]_vars => IInv'
<1> SUFFICES ASSUME IInv, [Next]_vars PROVE IInv' OBVIOUS
<1>4. CASE Look BY <1>4, LookKeeps
<1>5. CASE Write BY <1>5, WriteKeeps
<1>6. CASE Fall \/ GetAllCardsNull BY <1>6, CrashKeeps DEF Fall, GetAllCardsNull
<1> USE SeriesAssumption DEF IInv, TypeOK, Owed, OwedKept, OwedLost, Counted, RemovalsPaired
<1>1. CASE Insert BY <1>1 DEF Insert, worker, main
<1>2. CASE TakeOut BY <1>2 DEF TakeOut, worker, main
<1>3. CASE Wait BY <1>3 DEF Wait, main
<1>7. CASE Written BY <1>7 DEF Written, slot, main
<1>8. CASE Fail BY <1>8 DEF Fail, slot, main
<1>9. CASE StartWorkers BY <1>9 DEF StartWorkers
<1>10. CASE GetAllCards BY <1>10 DEF GetAllCards, slot, worker
<1>11. CASE ProcessEvent BY <1>11 DEF ProcessEvent, slot, worker
<1>12. CASE Deactivate BY <1>12 DEF Deactivate, slot
<1>13. CASE UNCHANGED vars BY <1>13 DEF vars
<1> QED
  BY <1>1, <1>2, <1>3, <1>4, <1>5, <1>6, <1>7, <1>8, <1>9, <1>10, <1>11, <1>12, <1>13 DEF Next

LEMMA Inductive == Spec => []IInv
BY IInvInit, IInvStep, PTL DEF Spec

\* For any number of insertions the variables have their types.
THEOREM TypeCorrect == Spec => []TypeOK
<1>1. IInv => TypeOK BY DEF IInv
<1> QED BY <1>1, Inductive, PTL

\* However fast cards are exchanged, whenever the worker looks, fails, is stopped
\* or crashes, no removal is reported without its insertion right before it ("we
\* don't want unpaired remove events", csd-smartcard-manager.c:1327).
THEOREM NoUnpairedRemoval == Spec => []RemovalsPaired
<1>1. IInv => RemovalsPaired BY DEF IInv
<1> QED BY <1>1, Inductive, PTL

-----------------------------------------------------------------------------
(* What the main loop knows.                                               *)

\* Once it has looked, and while NSS has nothing to tell, the worker's table
\* holds a card exactly if one is in.
Tracking == pc \in {"none", "wait", "write"} /\ ~flagged /\ state # "stopped" => (tracked # 0 <=> present)

\* A worker that has not begun has reported nothing, and the manager is stopped.
Began == pc = "none" => state = "stopped" /\ reported[2] = "none" /\ tracked = 0

\* What was written is at the end of the pipe until the main loop reads it; the
\* last one that was read says whether the card is in the manager's table, and
\* that a removal was acted on.
Read ==
  /\ pipe \in Seq({"I", "R"}) /\ card \in BOOLEAN
  /\ state = "stopped" => pipe = <<>>
  /\ pipe # <<>> => pipe[Len(pipe)] = reported[2]
  /\ state = "starting" /\ pipe = <<>> => reported[2] = "none"
  /\ state = "started" =>
       connected /\ (pipe = <<>> => /\ reported[2] = "I" => card
                                    /\ reported[2] = "R" => ~card /\ locked)

KInv == IInv /\ Began /\ Tracking /\ Read

\* The pipe of a worker: appending and taking from the front.
LEMMA PipeFacts ==
  ASSUME NEW p \in Seq({"I", "R"})
  PROVE  /\ \A e \in {"I", "R"} : /\ Append(p, e) \in Seq({"I", "R"}) /\ Append(p, e) # <<>>
                                  /\ Append(p, e)[Len(Append(p, e))] = e
         /\ p # <<>> => /\ Tail(p) \in Seq({"I", "R"}) /\ Head(p) \in {"I", "R"}
                        /\ Tail(p) = <<>> => Head(p) = p[Len(p)]
                        /\ Tail(p) # <<>> => Tail(p)[Len(Tail(p))] = p[Len(p)]
<1>1. ASSUME NEW e \in {"I", "R"}
      PROVE  /\ Append(p, e) \in Seq({"I", "R"}) /\ Append(p, e) # <<>>
             /\ Append(p, e)[Len(Append(p, e))] = e
  OBVIOUS
<1>2. ASSUME p # <<>>
      PROVE  /\ Tail(p) \in Seq({"I", "R"}) /\ Head(p) \in {"I", "R"}
             /\ Tail(p) = <<>> => Head(p) = p[Len(p)]
             /\ Tail(p) # <<>> => Tail(p)[Len(Tail(p))] = p[Len(p)]
  <2>1. Len(p) \in Nat /\ Len(p) > 0 /\ DOMAIN p = 1 .. Len(p) BY <1>2
  <2>2. Tail(p) \in Seq({"I", "R"}) /\ Len(Tail(p)) = Len(p) - 1 BY <1>2, <2>1
  <2>3. \A i \in 1 .. Len(p) - 1 : Tail(p)[i] = p[i + 1] BY <1>2, <2>1
  <2>4. Head(p) = p[1] /\ Head(p) \in {"I", "R"} BY <1>2, <2>1
  <2>5. Tail(p) = <<>> => Len(p) = 1
    <3>1. Len(<<>>) = 0 OBVIOUS
    <3>2. Tail(p) = <<>> => Len(Tail(p)) = 0 BY <3>1, Zenon
    <3> QED BY <2>1, <2>2, <3>2
  <2>6. Tail(p) # <<>> => Len(p) - 1 \in 1 .. Len(p) - 1 BY <2>1, <2>2
  <2> QED BY <2>1, <2>2, <2>3, <2>4, <2>5, <2>6
<1> QED BY <1>1, <1>2

\* Where the worker looks: its table says what it saw.
LEMMA TrackingStep == KInv /\ [Next]_vars => Began' /\ Tracking'
<1> SUFFICES ASSUME KInv, [Next]_vars PROVE Began' /\ Tracking' OBVIOUS
<1> USE DEF KInv, IInv, Began, Tracking
<1>1. CASE Insert BY <1>1 DEF Insert, worker, main
<1>2. CASE TakeOut BY <1>2 DEF TakeOut, worker, main
<1>3. CASE Wait BY <1>3 DEF Wait, main
<1>4. CASE Look
  <2>1. read # 0 BY <1>4 DEF Look, Counted
  <2> QED BY <1>4, <2>1 DEF Look, main, slot
<1>5. CASE Write BY <1>5 DEF Write, main, slot
<1>6. CASE Fall \/ GetAllCardsNull BY <1>6 DEF Fall, GetAllCardsNull, Crash
<1>7. CASE Written BY <1>7 DEF Written, main, slot
<1>8. CASE Fail BY <1>8 DEF Fail, main, slot
<1>9. CASE StartWorkers BY <1>9 DEF StartWorkers
<1>10. CASE GetAllCards BY <1>10 DEF GetAllCards, slot, worker
<1>11. CASE ProcessEvent BY <1>11 DEF ProcessEvent, slot, worker
<1>12. CASE Deactivate BY <1>12 DEF Deactivate, slot
<1>13. CASE UNCHANGED vars BY <1>13 DEF vars
<1> QED
  BY <1>1, <1>2, <1>3, <1>4, <1>5, <1>6, <1>7, <1>8, <1>9, <1>10, <1>11, <1>12, <1>13 DEF Next

\* What the main loop has read: it lags behind the worker by the pipe.
LEMMA ReadStep == KInv /\ [Next]_vars => Read'
<1> SUFFICES ASSUME KInv, [Next]_vars PROVE Read' OBVIOUS
<1>0. pipe \in Seq({"I", "R"}) BY DEF KInv, Read
<1> USE DEF KInv, Read
<1>1. CASE Insert \/ TakeOut \/ Wait \/ Look \/ Written \/ Fail
  <2>1. UNCHANGED <<pipe, main, reported>> BY <1>1 DEF Insert, TakeOut, Wait, Look, Written, Fail, main
  <2> QED BY <2>1 DEF main
<1>2. CASE Write
  <2>1. UNCHANGED <<state, connected, card, locked>> BY <1>2 DEF Write, main
  <2>2. /\ reported' = <<reported[2], Head(writes)>>
        /\ pipe' = IF state = "stopped" THEN pipe ELSE Append(pipe, Head(writes))
    BY <1>2 DEF Write
  <2>3. Head(writes) \in {"I", "R"} BY <1>2, WriteKeeps
  <2>4. CASE state = "stopped" BY <2>1, <2>2, <2>4
  <2>5. CASE state # "stopped"
    <3>1. /\ pipe' \in Seq({"I", "R"}) /\ pipe' # <<>> /\ pipe'[Len(pipe')] = Head(writes)
      BY <1>0, <2>2, <2>3, <2>5, PipeFacts
    <3> QED BY <2>1, <2>2, <2>5, <3>1
  <2> QED BY <2>4, <2>5
<1>3. CASE StartWorkers BY <1>3 DEF StartWorkers, Began
<1>4. CASE GetAllCards
  <2>1. card' \in BOOLEAN BY <1>4 DEF GetAllCards
  <2>2. /\ state = "starting" /\ state' = "started" /\ connected' = TRUE
        /\ UNCHANGED <<pipe, reported>>
    BY <1>4 DEF GetAllCards
  <2> QED BY <2>1, <2>2
<1>5. CASE ProcessEvent
  <2>1. /\ pipe # <<>> /\ pipe' = Tail(pipe) /\ state = "started" /\ UNCHANGED <<state, connected, reported>>
        /\ Head(pipe) = "I" => card' = TRUE
        /\ Head(pipe) # "I" => card' = FALSE /\ locked' = connected
    BY <1>5 DEF ProcessEvent
  <2>2. /\ pipe' \in Seq({"I", "R"})
        /\ pipe' = <<>> => Head(pipe) = pipe[Len(pipe)]
        /\ pipe' # <<>> => pipe'[Len(pipe')] = pipe[Len(pipe)]
    BY <1>0, <2>1, PipeFacts
  <2>3. card' \in BOOLEAN BY <2>1
  <2>4. pipe' # <<>> => pipe'[Len(pipe')] = reported'[2] BY <2>1, <2>2
  <2>5. ASSUME pipe' = <<>>
        PROVE  /\ reported'[2] = "I" => card'
               /\ reported'[2] = "R" => ~card' /\ locked'
    <3>1. Head(pipe) = reported[2] /\ reported' = reported /\ connected BY <2>1, <2>2, <2>5
    <3> QED BY <2>1, <3>1
  <2> QED BY <2>1, <2>2, <2>3, <2>4, <2>5
<1>6. CASE Deactivate
  <2>1. pipe' = <<>> /\ state' = "stopped" /\ card' = card BY <1>6 DEF Deactivate
  <2>2. <<>> \in Seq({"I", "R"}) OBVIOUS
  <2> QED BY <2>1, <2>2
<1>7. CASE Fall \/ GetAllCardsNull
  <2>1. pipe' = <<>> /\ state' = "stopped" /\ card' = FALSE
    BY <1>7 DEF Fall, GetAllCardsNull, Crash
  <2>2. <<>> \in Seq({"I", "R"}) OBVIOUS
  <2> QED BY <2>1, <2>2
<1>8. CASE UNCHANGED vars BY <1>8 DEF vars
<1> QED BY <1>1, <1>2, <1>3, <1>4, <1>5, <1>6, <1>7, <1>8 DEF Next

\* Wherever the exchanges of cards fall between the worker's waits and looks, and
\* however far the main loop is behind the thread: once everything is dispatched,
\* a daemon that lives and has reported something knows whether the card is in,
\* and a removal it was told of has locked the screen
\* (csd-smartcard-plugin.c:237-255).  Where a whole card was missed the daemon
\* crashes (Fall), and the theorem speaks of the next one.
THEOREM CardKnown == Spec => []KnowsCard
<1>1. Init => KInv
  <2>1. Init => Began /\ Tracking BY DEF Init, Began, Tracking
  <2>2. <<>> \in Seq({"I", "R"}) OBVIOUS
  <2>3. Init => Read BY <2>2 DEF Init, Read
  <2> QED BY <2>1, <2>3, IInvInit DEF KInv
<1>2. KInv /\ [Next]_vars => KInv' BY IInvStep, TrackingStep, ReadStep DEF KInv
<1>3. KInv => KnowsCard
  <2> SUFFICES ASSUME KInv, Quiet, reported[2] # "none" PROVE card = present /\ (~present => locked)
    BY DEF KnowsCard
  <2>1. writes = <<>> /\ present \in BOOLEAN /\ card \in BOOLEAN /\ reported[2] \in Event
    BY DEF KInv, IInv, Quiet, Read
  <2>2. tracked # 0 <=> reported[2] = "I" BY <2>1 DEF KInv, IInv, Owed, OwedKept, Quiet
  <2>3. tracked # 0 <=> present BY DEF KInv, Tracking, Quiet
  <2>4. (reported[2] = "I" => card) /\ (reported[2] = "R" => ~card /\ locked) BY DEF KInv, Read, Quiet
  <2>5. reported[2] = "I" \/ reported[2] = "R" BY <2>1 DEF Event
  <2>6. CASE reported[2] = "I"
    <3>1. present = TRUE /\ card = TRUE BY <2>1, <2>2, <2>3, <2>4, <2>6
    <3> QED BY <3>1
  <2>7. CASE reported[2] = "R"
    <3>1. present = FALSE /\ card = FALSE /\ locked BY <2>1, <2>2, <2>3, <2>4, <2>7
    <3> QED BY <3>1
  <2> QED BY <2>5, <2>6, <2>7
<1> QED BY <1>1, <1>2, <1>3, PTL DEF Spec

-----------------------------------------------------------------------------
(* The subscription to the print server, for any lease that is longer than *)
(* the interval of its renewals.  A manager that is not restarted goes     *)
(* from trying the server to one timer that renews (Trying, Renewing); one *)
(* that is restarted leaves timers behind, each of which renews the        *)
(* subscription there is (Restarted).                                      *)

PrintTypes ==
  /\ may \in Scenarios /\ up \in BOOLEAN /\ running \in BOOLEAN /\ idles \in 0 .. 1 /\ dests \in BOOLEAN
  /\ cups_connection_timeout_id \in BOOLEAN /\ printers \in BOOLEAN
  /\ leases \in [1 .. MaxIds -> Nat]
  /\ next_id \in 1 .. MaxIds + 1 /\ subscription_id \in 0 .. MaxIds
  /\ connecting \subseteq {"test", "renew"}

\* The server has the manager's subscription and no other.
Leased ==
  /\ \A i \in 1 .. MaxIds : leases[i] > 0 => i = subscription_id /\ running
  /\ subscription_id > 0 => up
  /\ ~up => "late" \in may

Trying ==
  /\ next_id = 1 /\ subscription_id = 0
  /\ dests = FALSE /\ "renew" \notin connecting
  /\ "remote" \in may \/ ~running \/ idles > 0

Untried == tests = {} /\ connecting = {}

Renewing ==
  /\ running = TRUE /\ idles = 0 /\ subscription_id > 0 /\ "test" \notin connecting
  /\ "remote" \in may => dests = TRUE
  /\ \E n : \E l \in 0 .. Renew :
       /\ renewals = {[n |-> n, left |-> l]}
       /\ "suspend" \in may \/ leases[subscription_id] > (IF "renew" \in connecting THEN 0 ELSE l)

Restarted ==
  /\ Untried
  /\ idles > 0 => running = TRUE /\ dests = FALSE
  /\ subscription_id > 0 \/ next_id > MaxIds \/ idles > 0 \/ (~running /\ renewals = {})

PrintInv ==
  /\ PrintTypes
  /\ Leased
  /\ IF "remote" \in may THEN printers = TRUE ELSE Untried
  /\ IF "restart" \in may THEN Restarted
     ELSE \/ renewals = {} /\ Trying /\ (~running \/ idles > 0 => Untried) /\ (idles > 0 => running)
          \/ Renewing

LEMMA SameCardinality == ASSUME NEW S PROVE Cups!Cardinality(S) = Cardinality(S)
BY DEF Cups!Cardinality, Cardinality

LEMMA PrintKept == PrintInv => Cups!StaysSubscribed
<1> SUFFICES ASSUME PrintInv PROVE Cups!StaysSubscribed OBVIOUS
<1> USE LeaseAssumption
<1>1. Cups!Live \subseteq {subscription_id}
  BY DEF PrintInv, Leased, Cups!Live
<1>2. ~running => Cups!Live = {}
  BY DEF PrintInv, Leased, Cups!Live
<1>3. ASSUME may \cap {"suspend", "restart"} = {}, renewals # {}
      PROVE Cups!Cardinality(renewals) = 1 /\ Cups!Live = {subscription_id}
  <2>1. Renewing /\ "suspend" \notin may
    BY <1>3 DEF PrintInv
  <2>2. PICK n : \E l \in 0 .. Renew :
            /\ renewals = {[n |-> n, left |-> l]}
            /\ leases[subscription_id] > (IF "renew" \in connecting THEN 0 ELSE l)
    BY <2>1 DEF Renewing
  <2>3. PICK l \in 0 .. Renew :
            /\ renewals = {[n |-> n, left |-> l]}
            /\ leases[subscription_id] > (IF "renew" \in connecting THEN 0 ELSE l)
    BY <2>2
  <2>4. Cups!Cardinality(renewals) = 1
    <3> DEFINE r == [n |-> n, left |-> l]
    <3>1. Cardinality({r}) = 1 BY FS_Singleton
    <3> QED BY <3>1, <2>3, SameCardinality
  <2>5. subscription_id \in 1 .. MaxIds /\ leases[subscription_id] \in Nat
    BY <2>1 DEF PrintInv, PrintTypes, Renewing
  <2>6. leases[subscription_id] > 0
    BY <2>3, <2>5
  <2> QED BY <2>4, <2>5, <2>6, <1>1 DEF Cups!Live
<1> QED BY <1>1, <1>2, <1>3 DEF Cups!StaysSubscribed

LEMMA PrintInit == Cups!Init => PrintInv
<1> SUFFICES ASSUME Cups!Init PROVE PrintInv OBVIOUS
<1>1. PrintTypes
  <2>1. up \in BOOLEAN /\ printers \in BOOLEAN BY Zenon DEF Cups!Init
  <2>2. running = FALSE /\ idles = 0 /\ dests = FALSE /\ cups_connection_timeout_id = FALSE
    BY DEF Cups!Init
  <2>3. may \in Scenarios BY DEF Cups!Init
  <2>4. /\ leases \in [1 .. MaxIds -> Nat]
        /\ next_id \in 1 .. MaxIds + 1 /\ subscription_id \in 0 .. MaxIds
        /\ connecting \subseteq {"test", "renew"}
    <3>1. leases = [i \in 1 .. MaxIds |-> 0] /\ next_id = 1 /\ subscription_id = 0 /\ connecting = {}
      BY DEF Cups!Init
    <3> QED BY <3>1, LeaseAssumption
  <2>5. idles \in 0 .. 1 BY <2>2
  <2> HIDE DEF Cups!Init
  <2> QED BY <2>1, <2>2, <2>3, <2>4, <2>5 DEF PrintTypes
<1>2. Leased
  <2>1. ~up => "late" \in may BY Zenon DEF Cups!Init
  <2>2. leases = [i \in 1 .. MaxIds |-> 0] /\ subscription_id = 0 BY DEF Cups!Init
  <2> QED BY <2>1, <2>2 DEF Leased
<1>3. renewals = {} /\ Trying /\ Untried /\ ~running /\ idles = 0
  BY DEF Cups!Init, Trying, Untried
<1>4. Restarted BY <1>3 DEF Restarted
<1>5. "remote" \in may => printers = TRUE
  <2>1. "remote" \in may => "no printers" \notin may
    BY <1>1, ScenariosAssumption DEF PrintTypes
  <2>2. "no printers" \notin may => printers BY Zenon DEF Cups!Init
  <2> QED BY <1>1, <2>1, <2>2 DEF PrintTypes
<1> QED BY <1>1, <1>2, <1>3, <1>4, <1>5 DEF PrintInv

\* Renewing, or making, the subscription.
LEMMA Renewed ==
  ASSUME PrintTypes, Leased, Cups!RenewSubscription,
         running' = running, up' = up, may' = may,
         running \/ subscription_id > 0 \/ next_id > MaxIds
  PROVE  /\ leases' \in [1 .. MaxIds -> Nat]
         /\ next_id' \in 1 .. MaxIds + 1 /\ subscription_id' \in 0 .. MaxIds
         /\ Leased'
         /\ subscription_id > 0 => subscription_id' = subscription_id /\ next_id' = next_id
         /\ subscription_id > 0 /\ leases[subscription_id] > 0 => leases'[subscription_id] = Lease
         /\ next_id > MaxIds => next_id' > MaxIds
         /\ up => subscription_id' > 0 \/ next_id' > MaxIds
         /\ up /\ next_id = 1 /\ subscription_id = 0 => subscription_id' = 1 /\ leases'[1] = Lease
<1> USE LeaseAssumption
<1>0. /\ leases \in [1 .. MaxIds -> Nat] /\ next_id \in 1 .. MaxIds + 1
      /\ subscription_id \in 0 .. MaxIds
  BY DEF PrintTypes
<1>1. CASE ~up
  <2>1. leases' = leases /\ next_id' = next_id /\ subscription_id' = subscription_id
    BY <1>1 DEF Cups!RenewSubscription
  <2> QED BY <1>0, <1>1, <2>1 DEF Leased
<1>2. CASE up /\ subscription_id > 0
  <2>1. /\ leases' = [leases EXCEPT ![subscription_id] = IF @ > 0 THEN Lease ELSE 0]
        /\ next_id' = next_id /\ subscription_id' = subscription_id
    BY <1>2 DEF Cups!RenewSubscription
  <2>2. leases' \in [1 .. MaxIds -> Nat]
    BY <1>0, <2>1
  <2>3. \A i \in 1 .. MaxIds : leases'[i] > 0 => leases[i] > 0
    BY <1>0, <2>1
  <2>4. leases[subscription_id] > 0 => leases'[subscription_id] = Lease
    BY <1>0, <1>2, <2>1
  <2> QED BY <1>0, <1>2, <2>1, <2>2, <2>3, <2>4 DEF Leased
<1>3. CASE up /\ ~(subscription_id > 0) /\ next_id > MaxIds
  <2>1. leases' = leases /\ next_id' = next_id /\ subscription_id' = subscription_id
    BY <1>3 DEF Cups!RenewSubscription
  <2> QED BY <1>0, <1>3, <2>1 DEF Leased
<1>4. CASE up /\ ~(subscription_id > 0) /\ ~(next_id > MaxIds)
  <2>0. subscription_id = 0 /\ next_id \in 1 .. MaxIds
    BY <1>0, <1>4
  <2>1. /\ leases' = [leases EXCEPT ![next_id] = Lease]
        /\ next_id' = next_id + 1 /\ subscription_id' = next_id
    BY <1>4 DEF Cups!RenewSubscription
  <2>2. leases' \in [1 .. MaxIds -> Nat] /\ leases'[next_id] = Lease
    BY <1>0, <2>0, <2>1
  <2>3. \A i \in 1 .. MaxIds : leases[i] = 0
    BY <1>0, <2>0 DEF Leased
  <2>4. \A i \in 1 .. MaxIds : leases'[i] > 0 => i = next_id
    BY <1>0, <2>0, <2>1, <2>3
  <2>5. running
    BY <2>0, <1>4
  <2>6. Leased'
    BY <2>1, <2>4, <2>5, <1>4 DEF Leased
  <2> QED BY <1>0, <1>4, <2>0, <2>1, <2>2, <2>6
<1> QED BY <1>1, <1>2, <1>3, <1>4

LEMMA FirstTimer ==
  Cups!WithTimer({}, Renew) = {[n |-> CHOOSE n \in 1 .. MaxTimers : \A r \in {} : r.n # n, left |-> Renew]}
<1>1. Cups!Cardinality({}) # MaxTimers
  BY SameCardinality, FS_EmptySet, LeaseAssumption
<1> QED BY <1>1 DEF Cups!WithTimer

\* The first subscription, with its timer.
LEMMA FirstSubscription ==
  ASSUME PrintTypes, Leased, renewals = {}, Trying, up, running = TRUE, Cups!Subscribe,
         running' = TRUE, up' = up, may' = may, idles' = 0,
         "test" \notin connecting', "renew" \notin connecting', "remote" \in may => printers = TRUE
  PROVE  Renewing'
<1> USE LeaseAssumption
<1>1. Cups!RenewSubscription /\ renewals' = Cups!WithTimer(renewals, Renew) /\ dests' = (up /\ printers)
  BY DEF Cups!Subscribe
<1>2. subscription_id' = 1 /\ leases'[1] = Lease
  BY <1>1, Renewed DEF Trying
<1>3. PICK n : renewals' = {[n |-> n, left |-> Renew]}
  BY <1>1, FirstTimer
<1>4. "remote" \in may' => dests' = TRUE
  BY <1>1
<1>5. "suspend" \in may' \/ leases'[subscription_id'] > (IF "renew" \in connecting' THEN 0 ELSE Renew)
  BY <1>2
<1>6. Renew \in 0 .. Renew
  OBVIOUS
<1> QED BY <1>2, <1>3, <1>4, <1>5, <1>6 DEF Renewing

LEMMA PrintTick == PrintInv /\ Cups!Tick => PrintInv'
<1> SUFFICES ASSUME PrintInv, Cups!Tick PROVE PrintInv' OBVIOUS
<1> USE LeaseAssumption
<1>0. /\ idles = 0 /\ connecting = {} /\ \A r \in tests \cup renewals : r.left > 0
      /\ leases' = [i \in DOMAIN leases |-> IF leases[i] > 0 THEN leases[i] - 1 ELSE 0]
      /\ tests' = {[r EXCEPT !.left = @ - 1] : r \in tests}
      /\ renewals' = {[r EXCEPT !.left = @ - 1] : r \in renewals}
      /\ may' = may /\ up' = up /\ printers' = printers /\ next_id' = next_id /\ running' = running
      /\ idles' = idles /\ dests' = dests /\ subscription_id' = subscription_id
      /\ cups_connection_timeout_id' = cups_connection_timeout_id /\ connecting' = connecting
  BY DEF Cups!Tick, Cups!server
<1>1. /\ leases \in [1 .. MaxIds -> Nat] /\ PrintTypes /\ Leased
  BY DEF PrintInv, PrintTypes
<1>2. /\ leases' \in [1 .. MaxIds -> Nat]
      /\ \A i \in 1 .. MaxIds : leases'[i] > 0 => leases[i] > 0
      /\ \A i \in 1 .. MaxIds : leases[i] > 0 => leases'[i] = leases[i] - 1
  BY <1>0, <1>1
<1>3. PrintTypes' BY <1>0, <1>1, <1>2 DEF PrintTypes
<1>4. Leased' BY <1>0, <1>1, <1>2 DEF Leased
<1>5. Untried => Untried' BY <1>0 DEF Untried
<1>6. renewals = {} => renewals' = {} BY <1>0
<1>7. Restarted => Restarted' BY <1>0, <1>5, <1>6 DEF Restarted
<1>8. Trying => Trying' BY <1>0 DEF Trying
<1>9. ASSUME Renewing PROVE Renewing'
  <2>1. PICK n : \E l \in 0 .. Renew :
         /\ renewals = {[n |-> n, left |-> l]}
         /\ "suspend" \in may \/ leases[subscription_id] > (IF "renew" \in connecting THEN 0 ELSE l)
    BY <1>9 DEF Renewing
  <2>2. PICK l \in 0 .. Renew :
         /\ renewals = {[n |-> n, left |-> l]}
         /\ "suspend" \in may \/ leases[subscription_id] > (IF "renew" \in connecting THEN 0 ELSE l)
    BY <2>1
  <2>3. l > 0
    <3> DEFINE r == [n |-> n, left |-> l]
    <3>1. r \in renewals BY <2>2
    <3>2. r.left = l OBVIOUS
    <3> QED BY <3>1, <3>2, <1>0
  <2>4. renewals' = {[n |-> n, left |-> l - 1]}
    <3>1. renewals' = {[r EXCEPT !.left = @ - 1] : r \in {[n |-> n, left |-> l]}}
      BY <1>0, <2>2
    <3>2. [[n |-> n, left |-> l] EXCEPT !.left = @ - 1] = [n |-> n, left |-> l - 1]
      OBVIOUS
    <3> QED BY <3>1, <3>2
  <2>5. l - 1 \in 0 .. Renew BY <2>3
  <2>6. subscription_id \in 1 .. MaxIds BY <1>1, <1>9 DEF PrintTypes, Renewing
  <2>7. "suspend" \in may' \/ leases'[subscription_id'] > (IF "renew" \in connecting' THEN 0 ELSE l - 1)
    BY <2>2, <2>3, <2>6, <1>0, <1>1, <1>2
  <2>8. /\ running' = TRUE /\ idles' = 0 /\ subscription_id' > 0 /\ "test" \notin connecting'
        /\ "remote" \in may' => dests' = TRUE
    BY <1>0, <1>9 DEF Renewing
  <2> QED BY <2>4, <2>5, <2>7, <2>8 DEF Renewing
<1> QED BY <1>0, <1>3, <1>4, <1>5, <1>6, <1>7, <1>8, <1>9 DEF PrintInv

LEMMA PrintSuspend == PrintInv /\ Cups!Suspend => PrintInv'
<1> SUFFICES ASSUME PrintInv, Cups!Suspend PROVE PrintInv' OBVIOUS
<1> USE LeaseAssumption
<1>0. /\ "suspend" \in may /\ leases' = [i \in DOMAIN leases |-> 0]
      /\ may' = may /\ up' = up /\ printers' = printers /\ next_id' = next_id /\ running' = running
      /\ idles' = idles /\ dests' = dests /\ subscription_id' = subscription_id /\ tests' = tests
      /\ cups_connection_timeout_id' = cups_connection_timeout_id /\ connecting' = connecting
      /\ renewals' = renewals
  BY DEF Cups!Suspend, Cups!server, Cups!timers
<1>1. leases \in [1 .. MaxIds -> Nat] /\ PrintTypes /\ Leased
  BY DEF PrintInv, PrintTypes
<1>2. leases' \in [1 .. MaxIds -> Nat] /\ \A i \in 1 .. MaxIds : leases'[i] = 0
  BY <1>0, <1>1
<1>3. PrintTypes' BY <1>0, <1>1, <1>2 DEF PrintTypes
<1>4. Leased' BY <1>0, <1>1, <1>2 DEF Leased
<1>5. Untried => Untried' BY <1>0 DEF Untried
<1>6. Restarted => Restarted' BY <1>0, <1>5 DEF Restarted
<1>7. Trying => Trying' BY <1>0 DEF Trying
<1>8. Renewing => Renewing' BY <1>0 DEF Renewing
<1> QED BY <1>0, <1>3, <1>4, <1>5, <1>6, <1>7, <1>8 DEF PrintInv

LEMMA PrintServer == PrintInv /\ (Cups!ServerStarts \/ Cups!PrinterAdded) => PrintInv'
<1> SUFFICES ASSUME PrintInv, Cups!ServerStarts \/ Cups!PrinterAdded PROVE PrintInv' OBVIOUS
<1> USE LeaseAssumption
<1>0. /\ may' = may /\ leases' = leases /\ next_id' = next_id /\ running' = running
      /\ idles' = idles /\ dests' = dests /\ subscription_id' = subscription_id /\ tests' = tests
      /\ cups_connection_timeout_id' = cups_connection_timeout_id /\ connecting' = connecting
      /\ renewals' = renewals
      /\ up' = up \/ up' = TRUE
      /\ printers' = printers \/ printers' = TRUE
  BY DEF Cups!ServerStarts, Cups!PrinterAdded, Cups!server, Cups!timers
<1>1. PrintTypes' BY <1>0 DEF PrintInv, PrintTypes
<1>2. Leased'
  <2>1. Leased BY DEF PrintInv
  <2>2. CASE up' = up BY <2>1, <2>2, <1>0 DEF Leased
  <2>3. CASE up' = TRUE BY <2>1, <2>3, <1>0 DEF Leased
  <2> QED BY <2>2, <2>3, <1>0
<1>3. Untried => Untried' BY <1>0 DEF Untried
<1>4. Restarted => Restarted' BY <1>0, <1>3 DEF Restarted
<1>5. Trying => Trying' BY <1>0 DEF Trying
<1>6. Renewing => Renewing' BY <1>0 DEF Renewing
<1> QED BY <1>0, <1>1, <1>2, <1>3, <1>4, <1>5, <1>6 DEF PrintInv

\* A server that is tried first has its printers, and the manager stays.
LEMMA TriedFirst ==
  ASSUME PrintInv, "remote" \in may
  PROVE  /\ "restart" \notin may
         /\ \/ renewals = {} /\ Trying /\ (~running \/ idles > 0 => Untried) /\ (idles > 0 => running)
            \/ Renewing
BY ScenariosAssumption DEF PrintInv, PrintTypes

\* The attempt has been answered.
LEMMA PrintTestAnswered ==
  ASSUME PrintInv, Cups!TestAnswered, printers = TRUE PROVE PrintInv'
<1> USE LeaseAssumption
<1>0. /\ "test" \in connecting /\ connecting' = connecting \ {"test"}
      /\ may' = may /\ up' = up /\ printers' = printers /\ running' = running /\ idles' = idles
  BY DEF Cups!TestAnswered, Cups!server
<1>1. "remote" \in may
  BY <1>0 DEF PrintInv, Untried
<1>2. "restart" \notin may /\ renewals = {} /\ Trying /\ running = TRUE /\ idles = 0
  <2>1. running \in BOOLEAN /\ idles \in 0 .. 1 BY DEF PrintInv, PrintTypes
  <2>2. ~Untried /\ ~Renewing BY <1>0 DEF Untried, Renewing
  <2>3. /\ "restart" \notin may
        /\ renewals = {} /\ Trying /\ ~(~running \/ idles > 0)
    BY <1>1, <2>2, TriedFirst
  <2> QED BY <2>1, <2>3
<1>3. PrintTypes /\ Leased /\ connecting' = {}
  BY <1>0, <1>2 DEF PrintInv, Trying, PrintTypes
<1>4. CASE up
  <2>1. Cups!Subscribe /\ tests' = tests /\ cups_connection_timeout_id' = cups_connection_timeout_id
    BY <1>4 DEF Cups!TestAnswered, Cups!timers
  <2>2. Renewing'
    BY <2>1, <1>0, <1>2, <1>3, <1>4, FirstSubscription
  <2>3. Cups!RenewSubscription /\ dests' = (up /\ printers)
    BY <2>1 DEF Cups!Subscribe
  <2>4. /\ leases' \in [1 .. MaxIds -> Nat]
        /\ next_id' \in 1 .. MaxIds + 1 /\ subscription_id' \in 0 .. MaxIds
        /\ Leased'
    BY <2>3, <1>0, <1>2, <1>3, Renewed
  <2>5. dests' = TRUE
    BY <2>3, <1>4
  <2>6. PrintTypes'
    BY <2>1, <2>4, <2>5, <1>0, <1>3 DEF PrintTypes
  <2> QED BY <2>2, <2>4, <2>6, <1>0, <1>1, <1>2 DEF PrintInv
<1>5. CASE ~up
  <2>1. /\ cups_connection_timeout_id' = TRUE
        /\ dests' = dests /\ leases' = leases /\ next_id' = next_id
        /\ subscription_id' = subscription_id /\ renewals' = renewals
    BY <1>5 DEF Cups!TestAnswered
  <2>2. PrintTypes' BY <2>1, <1>0, <1>3 DEF PrintTypes
  <2>3. Leased' BY <2>1, <1>0, <1>3 DEF Leased
  <2>4. renewals' = {} /\ Trying' /\ running' = TRUE /\ idles' = 0
    BY <2>1, <1>0, <1>2, <1>3 DEF Trying
  <2> QED BY <2>2, <2>3, <2>4, <1>0, <1>1, <1>2 DEF PrintInv
<1> QED BY <1>4, <1>5

LEMMA PrintTestAgain == PrintInv /\ Cups!TestAgain => PrintInv'
<1> SUFFICES ASSUME PrintInv, Cups!TestAgain PROVE PrintInv' OBVIOUS
<1>0. /\ tests # {} /\ Cups!ConnectionTest
      /\ cups_connection_timeout_id' = (cups_connection_timeout_id /\ ~dests')
      /\ may' = may /\ up' = up /\ printers' = printers /\ running' = running /\ idles' = idles
  BY DEF Cups!TestAgain, Cups!server
<1>1. "remote" \in may
  BY <1>0 DEF PrintInv, Untried
<1>2. PrintTypes /\ Leased /\ printers = TRUE /\ "restart" \notin may
  BY <1>1, TriedFirst DEF PrintInv
<1>3. /\ dests' = dests /\ leases' = leases /\ next_id' = next_id
      /\ subscription_id' = subscription_id /\ renewals' = renewals
      /\ connecting' = IF dests THEN connecting ELSE connecting \cup {"test"}
  BY <1>0, <1>1 DEF Cups!ConnectionTest
<1>4. PrintTypes'
  <2>1. cups_connection_timeout_id' \in BOOLEAN
    BY <1>0, Zenon
  <2>2. connecting' \subseteq {"test", "renew"}
    BY <1>2, <1>3 DEF PrintTypes
  <2> QED BY <2>1, <2>2, <1>0, <1>2, <1>3 DEF PrintTypes
<1>5. Leased' BY <1>0, <1>2, <1>3 DEF Leased
<1>6. CASE renewals = {} /\ Trying /\ (~running \/ idles > 0 => Untried) /\ (idles > 0 => running)
  <2>1. running = TRUE /\ idles = 0
    BY <1>0, <1>2, <1>6 DEF Untried, PrintTypes
  <2>2. Trying' BY <1>0, <1>1, <1>3, <1>6 DEF Trying
  <2> QED BY <2>1, <2>2, <1>0, <1>1, <1>2, <1>3, <1>4, <1>5, <1>6 DEF PrintInv
<1>7. CASE Renewing
  <2>1. connecting' = connecting BY <1>1, <1>3, <1>7 DEF Renewing
  <2>2. Renewing' BY <2>1, <1>0, <1>3, <1>7 DEF Renewing
  <2> QED BY <2>2, <1>0, <1>1, <1>2, <1>4, <1>5 DEF PrintInv
<1> QED BY <1>1, <1>6, <1>7, TriedFirst

\* A renewal that is due is tried, or done at once.
LEMMA PrintRenewalDue == PrintInv /\ Cups!RenewalDue => PrintInv'
<1> SUFFICES ASSUME PrintInv, Cups!RenewalDue PROVE PrintInv' OBVIOUS
<1> USE LeaseAssumption
<1>0. /\ may' = may /\ up' = up /\ printers' = printers /\ running' = running /\ idles' = idles
      /\ dests' = dests /\ tests' = tests /\ cups_connection_timeout_id' = cups_connection_timeout_id
      /\ IF "remote" \in may
           THEN /\ connecting' = connecting \cup {"renew"}
                /\ leases' = leases /\ next_id' = next_id /\ subscription_id' = subscription_id
           ELSE Cups!RenewSubscription /\ connecting' = connecting
  BY DEF Cups!RenewalDue, Cups!server, Cups!timers
<1>1. PICK r \in renewals : renewals' = (renewals \ {r}) \cup {[r EXCEPT !.left = Renew]}
  BY DEF Cups!RenewalDue
<1>2. PrintTypes /\ Leased
  BY DEF PrintInv
<1>3. "late" \notin may \/ "remote" \in may
  BY <1>2, ScenariosAssumption DEF PrintTypes
<1>4. running \/ subscription_id > 0 \/ next_id > MaxIds
  BY <1>1 DEF PrintInv, Renewing, Restarted
<1>5. /\ leases' \in [1 .. MaxIds -> Nat]
      /\ next_id' \in 1 .. MaxIds + 1 /\ subscription_id' \in 0 .. MaxIds
      /\ Leased'
  <2>1. CASE "remote" \in may BY <2>1, <1>0, <1>2 DEF PrintTypes, Leased
  <2>2. CASE "remote" \notin may BY <2>2, <1>0, <1>2, <1>4, Renewed
  <2> QED BY <2>1, <2>2
<1>6. PrintTypes'
  <2>1. connecting' \subseteq {"test", "renew"} BY <1>0, <1>2 DEF PrintTypes
  <2> QED BY <2>1, <1>0, <1>2, <1>5 DEF PrintTypes
<1>7. "remote" \notin may => Untried'
  BY <1>0 DEF PrintInv, Untried
<1>8. CASE "restart" \in may
  <2>1. Restarted /\ "remote" \notin may /\ up
    BY <1>2, <1>3, <1>8, TriedFirst DEF PrintInv, Leased
  <2>2. subscription_id' > 0 \/ next_id' > MaxIds
    BY <2>1, <1>0, <1>2, <1>4, Renewed
  <2>3. Restarted' BY <2>1, <2>2, <1>0, <1>7 DEF Restarted
  <2> QED BY <2>1, <2>3, <1>0, <1>5, <1>6, <1>7, <1>8 DEF PrintInv
<1>9. CASE "restart" \notin may
  <2>1. Renewing BY <1>1, <1>9 DEF PrintInv
  <2>2. PICK n : \E l \in 0 .. Renew :
         /\ renewals = {[n |-> n, left |-> l]}
         /\ "suspend" \in may \/ leases[subscription_id] > (IF "renew" \in connecting THEN 0 ELSE l)
    BY <2>1 DEF Renewing
  <2>3. PICK l \in 0 .. Renew :
         /\ renewals = {[n |-> n, left |-> l]}
         /\ "suspend" \in may \/ leases[subscription_id] > (IF "renew" \in connecting THEN 0 ELSE l)
    BY <2>2
  <2>4. renewals' = {[n |-> n, left |-> Renew]}
    <3>1. r = [n |-> n, left |-> l] BY <1>1, <2>3
    <3>2. [r EXCEPT !.left = Renew] = [n |-> n, left |-> Renew] BY <3>1
    <3> QED BY <3>1, <3>2, <1>1, <2>3
  <2>5. subscription_id \in 1 .. MaxIds /\ leases[subscription_id] \in Nat
    BY <1>2, <2>1 DEF PrintTypes, Renewing
  <2>6. subscription_id' = subscription_id
    BY <1>0, <1>2, <1>4, <2>5, Renewed
  <2>7. "suspend" \in may' \/ leases'[subscription_id'] > (IF "renew" \in connecting' THEN 0 ELSE Renew)
    <3>1. CASE "suspend" \in may BY <3>1, <1>0
    <3>2. CASE "suspend" \notin may /\ "remote" \in may
      BY <3>2, <1>0, <2>3, <2>5, <2>6
    <3>3. CASE "suspend" \notin may /\ "remote" \notin may
      <4>1. leases[subscription_id] > 0 BY <3>3, <2>3, <2>5
      <4>2. leases'[subscription_id] = Lease BY <4>1, <3>3, <1>0, <1>2, <1>4, <2>5, Renewed
      <4>3. connecting' = {} BY <3>3, <1>7 DEF Untried
      <4> QED BY <4>2, <4>3, <2>6
    <3> QED BY <3>1, <3>2, <3>3
  <2>8. Renew \in 0 .. Renew OBVIOUS
  <2>9. /\ running' = TRUE /\ idles' = 0 /\ subscription_id' > 0 /\ "test" \notin connecting'
        /\ "remote" \in may' => dests' = TRUE
    BY <1>0, <2>1, <2>6 DEF Renewing
  <2>10. Renewing' BY <2>4, <2>7, <2>8, <2>9 DEF Renewing
  <2> QED BY <2>10, <1>0, <1>5, <1>6, <1>7, <1>9 DEF PrintInv
<1> QED BY <1>8, <1>9

LEMMA PrintRenewalAnswered == PrintInv /\ Cups!RenewalAnswered => PrintInv'
<1> SUFFICES ASSUME PrintInv, Cups!RenewalAnswered PROVE PrintInv' OBVIOUS
<1> USE LeaseAssumption
<1>0. /\ "renew" \in connecting /\ connecting' = connecting \ {"renew"}
      /\ IF up THEN Cups!RenewSubscription
         ELSE leases' = leases /\ next_id' = next_id /\ subscription_id' = subscription_id
      /\ may' = may /\ up' = up /\ printers' = printers /\ running' = running /\ idles' = idles
      /\ dests' = dests /\ tests' = tests /\ cups_connection_timeout_id' = cups_connection_timeout_id
      /\ renewals' = renewals
  BY DEF Cups!RenewalAnswered, Cups!server, Cups!timers
<1>1. "remote" \in may BY <1>0 DEF PrintInv, Untried
<1>2. Renewing /\ "restart" \notin may /\ PrintTypes /\ Leased
  BY <1>0, <1>1, TriedFirst DEF Trying, PrintInv
<1>3. subscription_id \in 1 .. MaxIds /\ leases[subscription_id] \in Nat /\ up
  BY <1>2 DEF PrintTypes, Renewing, Leased
<1>4. Cups!RenewSubscription BY <1>0, <1>3
<1>5. /\ leases' \in [1 .. MaxIds -> Nat]
      /\ next_id' \in 1 .. MaxIds + 1 /\ subscription_id' = subscription_id
      /\ Leased'
      /\ leases[subscription_id] > 0 => leases'[subscription_id] = Lease
  BY <1>0, <1>2, <1>3, <1>4, Renewed
<1>6. PrintTypes'
  <2>1. connecting' \subseteq {"test", "renew"} BY <1>0, <1>2 DEF PrintTypes
  <2> QED BY <2>1, <1>0, <1>2, <1>5 DEF PrintTypes
<1>7. Renewing'
  <2>1. PICK n : \E l \in 0 .. Renew :
         /\ renewals = {[n |-> n, left |-> l]}
         /\ "suspend" \in may \/ leases[subscription_id] > (IF "renew" \in connecting THEN 0 ELSE l)
    BY <1>2 DEF Renewing
  <2>2. PICK l \in 0 .. Renew :
         /\ renewals = {[n |-> n, left |-> l]}
         /\ "suspend" \in may \/ leases[subscription_id] > 0
    BY <2>1, <1>0
  <2>3. "suspend" \in may' \/ leases'[subscription_id'] > l
    BY <2>2, <1>0, <1>3, <1>5
  <2>4. "suspend" \in may' \/ leases'[subscription_id'] > (IF "renew" \in connecting' THEN 0 ELSE l)
    BY <2>3, <1>0
  <2>5. /\ running' = TRUE /\ idles' = 0 /\ subscription_id' > 0 /\ "test" \notin connecting'
        /\ "remote" \in may' => dests' = TRUE
    BY <1>0, <1>2, <1>5 DEF Renewing
  <2> QED BY <2>2, <2>4, <2>5, <1>0 DEF Renewing
<1> QED BY <1>0, <1>1, <1>2, <1>5, <1>6, <1>7 DEF PrintInv

LEMMA PrintStart == PrintInv /\ Cups!Start => PrintInv'
<1> SUFFICES ASSUME PrintInv, Cups!Start PROVE PrintInv' OBVIOUS
<1> USE LeaseAssumption
<1>a. idles = 0
  BY DEF Cups!Start, PrintInv, PrintTypes, Restarted, Renewing
<1>0. /\ ~running /\ running' = TRUE /\ idles = 0 /\ idles' = 1 /\ dests' = FALSE /\ subscription_id' = 0
      /\ cups_connection_timeout_id' = FALSE
      /\ may' = may /\ up' = up /\ printers' = printers /\ leases' = leases /\ next_id' = next_id
      /\ tests' = tests /\ renewals' = renewals /\ connecting' = connecting
  BY <1>a DEF Cups!Start, Cups!server
<1>1. PrintTypes /\ Leased BY DEF PrintInv
<1>2. PrintTypes'
  <2>1. subscription_id' \in 0 .. MaxIds BY <1>0
  <2>2. running' = TRUE /\ idles' \in 0 .. 1 /\ dests' = FALSE /\ cups_connection_timeout_id' = FALSE
    BY <1>0
  <2> QED BY <2>1, <2>2, <1>0, <1>1 DEF PrintTypes
<1>3. Leased' BY <1>0, <1>1 DEF Leased
<1>4. Untried => Untried' BY <1>0 DEF Untried
<1>5. Restarted => Restarted' BY <1>0, <1>4 DEF Restarted
<1>6. Trying => Trying' BY <1>0 DEF Trying
<1>7. ~Renewing BY <1>0 DEF Renewing
<1> QED BY <1>0, <1>2, <1>3, <1>4, <1>5, <1>6, <1>7 DEF PrintInv

LEMMA PrintStartIdle == PrintInv /\ Cups!StartIdle => PrintInv'
<1> SUFFICES ASSUME PrintInv, Cups!StartIdle PROVE PrintInv' OBVIOUS
<1> USE LeaseAssumption
<1>a. idles > 0 => idles = 1
  BY DEF PrintInv, PrintTypes
<1>0. /\ idles > 0 /\ idles' = 0 /\ Cups!ConnectionTest
      /\ may' = may /\ up' = up /\ printers' = printers /\ running' = running
      /\ tests' = tests /\ cups_connection_timeout_id' = cups_connection_timeout_id
  BY <1>a DEF Cups!StartIdle, Cups!server, Cups!timers
<1>1. PrintTypes /\ Leased BY DEF PrintInv
<1>2. dests = FALSE /\ Untried /\ running = TRUE /\ ~Renewing
  BY <1>0, <1>1 DEF PrintInv, Restarted, Trying, Renewing, PrintTypes
<1>3. CASE "remote" \in may
  <2>1. renewals = {} /\ Trying /\ "restart" \notin may /\ printers = TRUE
    BY <1>2, <1>3, TriedFirst DEF PrintInv
  <2>2. /\ connecting' = connecting \cup {"test"}
        /\ dests' = dests /\ leases' = leases /\ next_id' = next_id
        /\ subscription_id' = subscription_id /\ renewals' = renewals
    BY <1>0, <1>2, <1>3 DEF Cups!ConnectionTest
  <2>3. connecting' \subseteq {"test", "renew"} BY <2>2, <1>1 DEF PrintTypes
  <2>4. PrintTypes' BY <2>2, <2>3, <1>0, <1>1 DEF PrintTypes
  <2>5. Leased' BY <2>2, <1>0, <1>1 DEF Leased
  <2>6. Trying' BY <2>1, <2>2, <1>0, <1>3 DEF Trying
  <2> QED BY <2>1, <2>2, <2>4, <2>5, <2>6, <1>0, <1>2, <1>3 DEF PrintInv
<1>4. CASE "remote" \notin may
  <2>1. Cups!Subscribe /\ connecting' = connecting
    BY <1>0, <1>2, <1>4 DEF Cups!ConnectionTest
  <2>2. up BY <1>1, <1>4, ScenariosAssumption DEF PrintTypes, Leased
  <2>3. Cups!RenewSubscription /\ dests' = (up /\ printers)
    BY <2>1 DEF Cups!Subscribe
  <2>4. /\ leases' \in [1 .. MaxIds -> Nat]
        /\ next_id' \in 1 .. MaxIds + 1 /\ subscription_id' \in 0 .. MaxIds
        /\ Leased'
        /\ subscription_id' > 0 \/ next_id' > MaxIds
    BY <2>2, <2>3, <1>0, <1>1, <1>2, Renewed
  <2>5. dests' \in BOOLEAN BY <2>3, Zenon
  <2>6. PrintTypes' BY <2>1, <2>4, <2>5, <1>0, <1>1 DEF PrintTypes
  <2>7. Untried' BY <2>1, <1>0, <1>2 DEF Untried
  <2>8. CASE "restart" \in may
    <3>1. Restarted' BY <2>4, <2>7, <1>0 DEF Restarted
    <3> QED BY <3>1, <2>4, <2>6, <2>7, <2>8, <1>0, <1>4 DEF PrintInv
  <2>9. CASE "restart" \notin may
    <3>1. renewals = {} /\ Trying BY <2>9, <1>2 DEF PrintInv
    <3>2. "test" \notin connecting' /\ "renew" \notin connecting' BY <2>7 DEF Untried
    <3>3. Renewing'
      BY <3>1, <3>2, <2>1, <2>2, <1>0, <1>1, <1>2, <1>4, FirstSubscription
    <3> QED BY <3>3, <2>4, <2>6, <2>7, <2>9, <1>0, <1>4 DEF PrintInv
  <2> QED BY <2>8, <2>9
<1> QED BY <1>3, <1>4

LEMMA PrintStop == PrintInv /\ Cups!Stop => PrintInv'
<1> SUFFICES ASSUME PrintInv, Cups!Stop PROVE PrintInv' OBVIOUS
<1> USE LeaseAssumption
<1>a. "hasty" \notin may /\ idles \in 0 .. 1
  BY ScenariosAssumption DEF PrintInv, PrintTypes
<1>0. /\ "restart" \in may /\ running /\ idles = 0 /\ running' = FALSE /\ dests' = FALSE
      /\ leases' = IF subscription_id > 0 /\ up THEN [leases EXCEPT ![subscription_id] = 0] ELSE leases
      /\ may' = may /\ up' = up /\ printers' = printers /\ next_id' = next_id
      /\ idles' = idles /\ subscription_id' = subscription_id /\ tests' = tests
      /\ cups_connection_timeout_id' = cups_connection_timeout_id
      /\ renewals' = renewals /\ connecting' = connecting
  BY <1>a DEF Cups!Stop, Cups!server, Cups!timers
<1>1. PrintTypes /\ Leased /\ Restarted /\ "remote" \notin may
  BY <1>0, TriedFirst DEF PrintInv
<1>2. leases' \in [1 .. MaxIds -> Nat] /\ \A i \in 1 .. MaxIds : leases'[i] = 0
  BY <1>0, <1>1 DEF PrintTypes, Leased
<1>3. PrintTypes' BY <1>0, <1>1, <1>2 DEF PrintTypes
<1>4. Leased' BY <1>0, <1>1, <1>2 DEF Leased
<1>5. Restarted' BY <1>0, <1>1 DEF Restarted, Untried
<1> QED BY <1>0, <1>1, <1>3, <1>4, <1>5 DEF PrintInv, Restarted

LEMMA PrintStep == PrintInv /\ [Cups!Next]_(Cups!vars) => PrintInv'
<1> SUFFICES ASSUME PrintInv, [Cups!Next]_(Cups!vars) PROVE PrintInv' OBVIOUS
<1>1. CASE Cups!TestAnswered
  <2>1. "remote" \in may BY <1>1 DEF Cups!TestAnswered, PrintInv, Untried
  <2>2. printers = TRUE BY <2>1 DEF PrintInv
  <2> QED BY <1>1, <2>2, PrintTestAnswered
<1>2. CASE UNCHANGED Cups!vars
  <2>1. /\ may' = may /\ up' = up /\ printers' = printers /\ leases' = leases /\ next_id' = next_id
        /\ running' = running /\ idles' = idles /\ dests' = dests /\ subscription_id' = subscription_id
        /\ tests' = tests /\ cups_connection_timeout_id' = cups_connection_timeout_id
        /\ renewals' = renewals /\ connecting' = connecting
    BY <1>2 DEF Cups!vars, Cups!server, Cups!timers
  <2> QED BY <2>1 DEF PrintInv, PrintTypes, Leased, Untried, Restarted, Trying, Renewing
<1> QED
  BY <1>1, <1>2, PrintTick, PrintSuspend, PrintServer, PrintTestAgain, PrintRenewalDue,
     PrintRenewalAnswered, PrintStart, PrintStartIdle, PrintStop DEF Cups!Next

\* Every behaviour of the parts is one of the subscription.
LEMMA PartIsCups == AllSpec => Cups!Spec
<1>1. AllInit => Cups!Init BY DEF AllInit
<1>2. [AllNext]_allVars => [Cups!Next]_(Cups!vars)
  BY DEF AllNext, allVars, printVars, Cups!vars, Cups!server, Cups!timers
<1> QED BY <1>1, <1>2, PTL DEF AllSpec, Cups!Spec

\* The server sends its events once and to a running manager only, and as long
\* as neither a suspend nor a restart comes the lease is renewed by one timer
\* before it is over (csd-print-notifications-manager.c:881-1036).
THEOREM PrintEventsArrive == AllSpec => []StaysSubscribed
<1>1. Cups!Spec => []PrintInv
  BY PrintInit, PrintStep, PTL DEF Cups!Spec
<1>2. PrintInv => StaysSubscribed BY PrintKept DEF StaysSubscribed
<1> QED BY <1>1, <1>2, PartIsCups, PTL

-----------------------------------------------------------------------------
(* Sequences: what is found, taken out and put in.                         *)

\* Every set of naturals that is not empty has a least element.
LEMMA Least ==
  ASSUME NEW T \in SUBSET Nat, T # {}
  PROVE  \E x \in T : \A y \in T : x <= y
<1> DEFINE R == OpToRel(<, Nat)
<1>1. IsWellFoundedOn(R, Nat) BY NatLessThanWellFounded
<1>2. \A x, y \in Nat : x < y => <<x, y>> \in R BY DEF OpToRel
<1> HIDE DEF R
<1>3. PICK x \in T : \A y \in T : ~(<<y, x>> \in R) BY <1>1, WFMin
<1>4. \A y \in T : ~(y < x) BY <1>2, <1>3
<1> QED BY <1>4

\* An index that SelectInSeq chooses.
FirstOf(n, I) == IF I = {} THEN n = 0 ELSE n \in I /\ \A y \in I : n <= y

LEMMA Chosen ==
  ASSUME NEW I, I \subseteq Nat
  PROVE  FirstOf(IF I # {} THEN Media!Min(I) ELSE 0, I)
<1>1. CASE I = {} BY <1>1 DEF FirstOf
<1>2. CASE I # {}
  <2>1. \E x \in I : \A y \in I : x <= y BY <1>2, Least
  <2>2. Media!Min(I) = CHOOSE x \in I : \A y \in I : x <= y BY DEF Media!Min
  <2>3. Media!Min(I) \in I /\ \A y \in I : Media!Min(I) <= y BY <2>1, <2>2
  <2> QED BY <1>2, <2>3 DEF FirstOf
<1> QED BY <1>1, <1>2

\* r is q without its n-th element, and with p as its k-th.
Without(r, q, n) ==
  /\ Len(r) = Len(q) - 1
  /\ \A i \in 1 .. Len(q) - 1 : r[i] = IF i < n THEN q[i] ELSE q[i + 1]
With(r, q, k, p) ==
  /\ Len(r) = Len(q) + 1
  /\ \A i \in 1 .. Len(q) + 1 : r[i] = IF i < k THEN q[i] ELSE IF i = k THEN p ELSE q[i - 1]

LEMMA TakenOut ==
  ASSUME NEW S, NEW q \in Seq(S), NEW n \in 1 .. Len(q)
  PROVE  Media!RemoveAt(q, n) \in Seq(S) /\ Without(Media!RemoveAt(q, n), q, n)
<1> DEFINE a == SubSeq(q, 1, n - 1)
           b == SubSeq(q, n + 1, Len(q))
<1>1. a \in Seq(S) /\ Len(a) = n - 1 OBVIOUS
<1>2. b \in Seq(S) /\ Len(b) = Len(q) - n OBVIOUS
<1>3. \A i \in 1 .. n - 1 : a[i] = q[i] OBVIOUS
<1>4. \A i \in 1 .. Len(q) - n : b[i] = q[n + i] OBVIOUS
<1>0. Media!RemoveAt(q, n) = a \o b BY DEF Media!RemoveAt
<1> HIDE DEF a, b
<1>5. a \o b \in Seq(S) /\ Len(a \o b) = Len(q) - 1 BY <1>1, <1>2
<1>6. ASSUME NEW i \in 1 .. Len(q) - 1
      PROVE  (a \o b)[i] = IF i < n THEN q[i] ELSE q[i + 1]
  <2>1. CASE i < n BY <1>1, <1>2, <1>3, <2>1
  <2>2. CASE ~(i < n)
    <3>1. i - n + 1 \in 1 .. Len(q) - n /\ n + (i - n + 1) = i + 1 BY <2>2
    <3>2. i \in 1 .. Len(a) + Len(b) /\ ~(i <= Len(a)) BY <1>1, <1>2, <2>2
    <3>3. (a \o b)[i] = b[i - Len(a)] BY <1>1, <1>2, <3>2, SMTT(30)
    <3>4. i - Len(a) = i - n + 1 BY <1>1
    <3> QED BY <1>4, <2>2, <3>1, <3>3, <3>4
  <2> QED BY <2>1, <2>2
<1> QED BY <1>0, <1>5, <1>6 DEF Without

LEMMA PutIn ==
  ASSUME NEW S, NEW q \in Seq(S), NEW p \in S, NEW k \in 1 .. Len(q)
  PROVE  Media!InsertAt(q, k, p) \in Seq(S) /\ With(Media!InsertAt(q, k, p), q, k, p)
<1> DEFINE a == SubSeq(q, 1, k - 1)
           b == SubSeq(q, k, Len(q))
           c == a \o <<p>>
<1>1. a \in Seq(S) /\ Len(a) = k - 1 OBVIOUS
<1>2. b \in Seq(S) /\ Len(b) = Len(q) - k + 1 OBVIOUS
<1>3. \A i \in 1 .. k - 1 : a[i] = q[i] OBVIOUS
<1>4. \A i \in 1 .. Len(q) - k + 1 : b[i] = q[k + i - 1] OBVIOUS
<1>0. Media!InsertAt(q, k, p) = c \o b BY DEF Media!InsertAt
<1> HIDE DEF a, b
<1>5. c \in Seq(S) /\ Len(c) = k /\ c[k] = p /\ \A i \in 1 .. k - 1 : c[i] = q[i]
  BY <1>1, <1>3
<1> HIDE DEF c
<1>6. c \o b \in Seq(S) /\ Len(c \o b) = Len(q) + 1 BY <1>2, <1>5
<1>7. ASSUME NEW i \in 1 .. Len(q) + 1
      PROVE  (c \o b)[i] = IF i < k THEN q[i] ELSE IF i = k THEN p ELSE q[i - 1]
  <2>1. CASE i <= k BY <1>2, <1>5, <2>1
  <2>2. CASE ~(i <= k)
    <3>1. i - k \in 1 .. Len(q) - k + 1 /\ k + (i - k) - 1 = i - 1 BY <2>2
    <3>2. i \in 1 .. Len(c) + Len(b) /\ ~(i <= Len(c)) BY <1>2, <1>5, <2>2
    <3>3. (c \o b)[i] = b[i - Len(c)] BY <1>2, <1>5, <3>2, SMTT(30)
    <3>4. (c \o b)[i] = b[i - k] BY <1>5, <3>3
    <3>5. b[i - k] = q[i - 1] BY <1>4, <3>1
    <3> QED BY <2>2, <3>4, <3>5
  <2> QED BY <2>1, <2>2
<1> QED BY <1>0, <1>6, <1>7 DEF With

NoRepeats(q) == \A i, j \in 1 .. Len(q) : q[i] = q[j] => i = j
In(q) == {q[i] : i \in 1 .. Len(q)}

\* RemoveFirst takes an element out of a sequence without repetitions.
LEMMA Dropped ==
  ASSUME NEW S, NEW q \in Seq(S), NoRepeats(q), NEW d
  PROVE  /\ Media!RemoveFirst(q, d) \in Seq(S) /\ NoRepeats(Media!RemoveFirst(q, d))
         /\ In(Media!RemoveFirst(q, d)) = In(q) \ {d}
<1> DEFINE I == {i \in 1 .. Len(q) : q[i] = d}
           n == IF I # {} THEN Media!Min(I) ELSE 0
           r == Media!RemoveFirst(q, d)
<1>0. I \subseteq Nat OBVIOUS
<1>1. FirstOf(n, I) BY <1>0, Chosen
<1>2. CASE I = {}
  <2>1. r = q BY <1>2 DEF Media!RemoveFirst
  <2>2. d \notin In(q) BY <1>2 DEF In
  <2> QED BY <2>1, <2>2
<1>3. CASE I # {}
  <2>1. Media!SelectInSeq(q, LAMBDA e : e = d) = n BY DEF Media!SelectInSeq
  <2>2. r = Media!RemoveAt(q, n) BY <1>3, <2>1 DEF Media!RemoveFirst
  <2>3. n \in 1 .. Len(q) /\ q[n] = d BY <1>1, <1>3 DEF FirstOf
  <2> HIDE DEF I, n, r
  <2>4. r \in Seq(S) /\ Without(r, q, n) BY <2>2, <2>3, TakenOut
  <2>5. Len(q) \in Nat OBVIOUS
  <2> DEFINE At(i) == IF i < n THEN i ELSE i + 1
  <2>6. ASSUME NEW i \in 1 .. Len(r) PROVE At(i) \in 1 .. Len(q) /\ At(i) # n /\ r[i] = q[At(i)]
    BY <2>3, <2>4, <2>5 DEF Without
  <2>7. ASSUME NEW i \in 1 .. Len(r), NEW j \in 1 .. Len(r), r[i] = r[j] PROVE i = j
    <3>1. At(i) = At(j) BY <2>6, <2>7 DEF NoRepeats
    <3> QED BY <2>3, <2>4, <2>5, <3>1 DEF Without
  <2>8. ASSUME NEW i \in 1 .. Len(r) PROVE r[i] # d /\ r[i] \in In(q)
    BY <2>3, <2>6, <2>8 DEF NoRepeats, In
  <2>9. ASSUME NEW j \in 1 .. Len(q), q[j] # d PROVE q[j] \in In(r)
    <3>1. CASE j < n BY <2>3, <2>4, <2>5, <3>1 DEF Without, In
    <3>2. CASE j > n
      <4>1. j - 1 \in 1 .. Len(r) /\ r[j - 1] = q[j] BY <2>3, <2>4, <2>5, <3>2 DEF Without
      <4> QED BY <4>1 DEF In
    <3> QED BY <2>3, <2>9, <3>1, <3>2
  <2>10. NoRepeats(r) BY <2>7 DEF NoRepeats
  <2>11. In(r) = In(q) \ {d}
    <3>1. \A x \in In(r) : x \in In(q) \ {d} BY <2>8 DEF In
    <3>2. \A x \in In(q) \ {d} : x \in In(r) BY <2>9 DEF In
    <3> QED BY <3>1, <3>2
  <2> QED BY <2>4, <2>10, <2>11 DEF r
<1> QED BY <1>2, <1>3

-----------------------------------------------------------------------------
(* The applications that grab the media keys.                              *)

Entry == [application : Application, name : Client, time : Nat, watch : Nat]
Watch == [id : Nat, name : Client]
Request == [name : Client, application : Application, what : {"grab", "grab low", "release"}]

WatchOf(p) == [id |-> p.watch, name |-> p.name]
Alike(x, y) == x.name = y.name => x.application = y.application

\* Each entry has its watch, and one whose client has left is about to be told.
Attended(ps, ws, vs, on) ==
  /\ ps \in Seq(Entry) /\ ws \subseteq Watch /\ vs \in Seq(Watch) /\ NoRepeats(vs)
  /\ \A i, j \in 1 .. Len(ps) : ps[i].application = ps[j].application \/ ps[i].watch = ps[j].watch => i = j
  /\ \A i \in 1 .. Len(ps) : WatchOf(ps[i]) \in ws
  /\ \A w \in ws : \E i \in 1 .. Len(ps) : w = WatchOf(ps[i])
  /\ \A v \in In(vs) : v \in ws /\ v.name \notin on
  /\ ~Shares => \A i \in 1 .. Len(ps) : ps[i].name \notin on => WatchOf(ps[i]) \in In(vs)

LEMMA Freed ==
  ASSUME NEW ps, NEW ws, NEW vs, NEW on, Attended(ps, ws, vs, on), NEW n \in 1 .. Len(ps)
  PROVE  /\ Attended(Media!RemoveAt(ps, n), ws \ {WatchOf(ps[n])}, Media!RemoveFirst(vs, WatchOf(ps[n])), on)
         /\ Without(Media!RemoveAt(ps, n), ps, n)
<1> DEFINE r == Media!RemoveAt(ps, n)
           s == Media!RemoveFirst(vs, WatchOf(ps[n]))
           At(i) == IF i < n THEN i ELSE i + 1
<1>1. r \in Seq(Entry) /\ Without(r, ps, n) BY TakenOut DEF Attended
<1>2. s \in Seq(Watch) /\ NoRepeats(s) /\ In(s) = In(vs) \ {WatchOf(ps[n])} BY Dropped DEF Attended
<1> HIDE DEF r, s
<1>3. Len(ps) \in Nat BY DEF Attended
<1>4. ASSUME NEW i \in 1 .. Len(r) PROVE At(i) \in 1 .. Len(ps) /\ At(i) # n /\ r[i] = ps[At(i)]
  BY <1>1, <1>3 DEF Without
<1>5. ASSUME NEW i \in 1 .. Len(r), NEW j \in 1 .. Len(r),
             r[i].application = r[j].application \/ r[i].watch = r[j].watch
      PROVE  i = j
  <2>0. /\ At(i) \in 1 .. Len(ps) /\ r[i] = ps[At(i)]
        /\ At(j) \in 1 .. Len(ps) /\ r[j] = ps[At(j)]
    BY <1>4
  <2> HIDE DEF At
  <2>1. At(i) = At(j) BY <1>5, <2>0 DEF Attended
  <2> QED BY <1>1, <1>3, <2>1 DEF Without, At
<1>6. ASSUME NEW i \in 1 .. Len(r) PROVE WatchOf(r[i]) \in ws \ {WatchOf(ps[n])}
  <2>1. At(i) \in 1 .. Len(ps) /\ At(i) # n /\ r[i] = ps[At(i)] BY <1>4
  <2>2. r[i].watch # ps[n].watch BY <2>1 DEF Attended
  <2>3. WatchOf(r[i]) # WatchOf(ps[n]) BY <2>2 DEF WatchOf
  <2> QED BY <2>1, <2>3 DEF Attended
<1>7. ASSUME NEW w \in ws \ {WatchOf(ps[n])} PROVE \E i \in 1 .. Len(r) : w = WatchOf(r[i])
  <2>1. PICK j \in 1 .. Len(ps) : w = WatchOf(ps[j]) BY DEF Attended
  <2>2. j # n BY <2>1
  <2>3. CASE j < n
    <3>1. j \in 1 .. Len(r) /\ r[j] = ps[j] BY <1>1, <1>3, <2>3 DEF Without
    <3> QED BY <2>1, <3>1
  <2>4. CASE j > n
    <3>1. j - 1 \in 1 .. Len(r) /\ r[j - 1] = ps[j] BY <1>1, <1>3, <2>4 DEF Without
    <3> QED BY <2>1, <3>1
  <2> QED BY <2>2, <2>3, <2>4
<1>8. \A v \in In(s) : v \in ws \ {WatchOf(ps[n])} /\ v.name \notin on BY <1>2 DEF Attended
<1>9. ASSUME ~Shares, NEW i \in 1 .. Len(r), r[i].name \notin on PROVE WatchOf(r[i]) \in In(s)
  <2>1. At(i) \in 1 .. Len(ps) /\ r[i] = ps[At(i)] BY <1>4
  <2>2. WatchOf(r[i]) \in In(vs) BY <1>9, <2>1 DEF Attended
  <2> QED BY <1>2, <1>6, <2>2
<1> QED BY <1>1, <1>2, <1>5, <1>6, <1>7, <1>8, <1>9 DEF Attended, r, s

LEMMA Inserted ==
  ASSUME NEW ps \in Seq(Entry), NEW p \in Entry
  PROVE  /\ Media!InsertSorted(ps, p) \in Seq(Entry)
         /\ \E k \in 1 .. Len(ps) + 1 :
              /\ With(Media!InsertSorted(ps, p), ps, k, p)
              /\ \A j \in 1 .. k - 1 : p.time < ps[j].time
              /\ k <= Len(ps) => ~(p.time < ps[k].time)
<1> DEFINE I == {i \in 1 .. Len(ps) : ~(p.time < ps[i].time)}
           n == IF I # {} THEN Media!Min(I) ELSE 0
<1>0. I \subseteq Nat OBVIOUS
<1>1. FirstOf(n, I) BY <1>0, Chosen
<1>2. Media!SelectInSeq(ps, LAMBDA q : ~(p.time < q.time)) = n BY DEF Media!SelectInSeq
<1>3. Media!InsertSorted(ps, p) = IF n = 0 THEN Append(ps, p) ELSE Media!InsertAt(ps, n, p)
  BY <1>2 DEF Media!InsertSorted
<1> HIDE DEF n
<1>4. CASE I = {}
  <2>1. Media!InsertSorted(ps, p) = Append(ps, p) BY <1>1, <1>3, <1>4 DEF FirstOf
  <2>2. Append(ps, p) \in Seq(Entry) /\ With(Append(ps, p), ps, Len(ps) + 1, p) BY DEF With
  <2>3. Len(ps) + 1 \in 1 .. Len(ps) + 1 /\ \A j \in 1 .. (Len(ps) + 1) - 1 : p.time < ps[j].time BY <1>4
  <2> QED BY <2>1, <2>2, <2>3
<1>5. CASE I # {}
  <2>1. n \in I /\ \A y \in I : n <= y BY <1>1, <1>5 DEF FirstOf
  <2>2. n \in 1 .. Len(ps) /\ n # 0 BY <2>1
  <2>3. Media!InsertSorted(ps, p) = Media!InsertAt(ps, n, p) BY <1>3, <2>2
  <2>4. Media!InsertSorted(ps, p) \in Seq(Entry) /\ With(Media!InsertSorted(ps, p), ps, n, p)
    BY <2>2, <2>3, PutIn
  <2>5. ASSUME NEW j \in 1 .. n - 1 PROVE p.time < ps[j].time
    <3>1. j \in 1 .. Len(ps) /\ ~(n <= j) BY <2>2
    <3>2. j \notin I BY <2>1, <3>1
    <3> QED BY <3>1, <3>2
  <2>6. PICK k : k = n OBVIOUS
  <2>7. k \in 1 .. Len(ps) + 1 /\ ~(p.time < ps[k].time) BY <2>1, <2>6
  <2>8. \A j \in 1 .. k - 1 : p.time < ps[j].time BY <2>5, <2>6
  <2>9. With(Media!InsertSorted(ps, p), ps, k, p) BY <2>4, <2>6
  <2> QED BY <2>4, <2>7, <2>8, <2>9
<1> QED BY <1>4, <1>5

\* A new entry with its watch; the watch on a client that has left tells.
LEMMA Added ==
  ASSUME NEW ps, NEW ws, NEW vs, NEW on, Attended(ps, ws, vs, on), NEW p \in Entry, NEW r \in Seq(Entry),
         NEW k \in 1 .. Len(ps) + 1, With(r, ps, k, p),
         \A i \in 1 .. Len(ps) : ps[i].application # p.application /\ ps[i].watch # p.watch
  PROVE  Attended(r, ws \cup {WatchOf(p)}, IF p.name \in on THEN vs ELSE Append(vs, WatchOf(p)), on)
<1> DEFINE w == WatchOf(p)
           s == IF p.name \in on THEN vs ELSE Append(vs, w)
<1>1. w \in Watch /\ w.id = p.watch /\ w.name = p.name BY DEF WatchOf, Watch, Entry
<1>2. Len(ps) \in Nat /\ Len(vs) \in Nat BY DEF Attended
<1>3. w \notin ws
  <2>1. ASSUME NEW i \in 1 .. Len(ps), w = WatchOf(ps[i]) PROVE FALSE BY <2>1 DEF WatchOf
  <2> QED BY <2>1 DEF Attended
<1>4. w \notin In(vs) BY <1>3 DEF Attended
<1>5. s \in Seq(Watch) /\ NoRepeats(s) /\ In(s) = IF p.name \in on THEN In(vs) ELSE In(vs) \cup {w}
  <2>1. CASE p.name \in on BY <2>1 DEF Attended
  <2>2. CASE p.name \notin on
    <3> HIDE DEF w
    <3>1. /\ s = Append(vs, w) /\ s \in Seq(Watch) /\ Len(s) = Len(vs) + 1 /\ s[Len(vs) + 1] = w
          /\ \A i \in 1 .. Len(vs) : s[i] = vs[i]
      BY <1>1, <2>2 DEF Attended
    <3> HIDE DEF s
    <3>2. NoRepeats(s) BY <1>2, <1>4, <3>1 DEF NoRepeats, Attended, In
    <3>3. In(s) = In(vs) \cup {w} BY <1>2, <3>1 DEF In
    <3> QED BY <2>2, <3>1, <3>2, <3>3
  <2> QED BY <2>1, <2>2
<1> HIDE DEF w, s
<1> DEFINE At(i) == IF i < k THEN i ELSE i - 1
<1>6. r[k] = p /\ k \in 1 .. Len(r) BY <1>2 DEF With
<1>7. ASSUME NEW i \in 1 .. Len(r), i # k PROVE At(i) \in 1 .. Len(ps) /\ r[i] = ps[At(i)]
  BY <1>2, <1>7 DEF With
<1>8. ASSUME NEW i \in 1 .. Len(r), NEW j \in 1 .. Len(r),
             r[i].application = r[j].application \/ r[i].watch = r[j].watch
      PROVE  i = j
  <2>1. CASE i = k /\ j # k BY <1>6, <1>7, <1>8, <2>1
  <2>2. CASE i # k /\ j = k BY <1>6, <1>7, <1>8, <2>2
  <2>3. CASE i # k /\ j # k
    <3>1. PICK a \in 1 .. Len(ps), b \in 1 .. Len(ps) :
            a = At(i) /\ b = At(j) /\ r[i] = ps[a] /\ r[j] = ps[b]
      BY <1>7, <2>3
    <3>2. ps[a].application = ps[b].application \/ ps[a].watch = ps[b].watch BY <1>8, <3>1
    <3>3. a = b
      <4> HIDE DEF At
      <4> QED BY <3>2 DEF Attended
    <3> QED BY <1>2, <2>3, <3>1, <3>3 DEF With
  <2> QED BY <2>1, <2>2, <2>3
<1>9. ASSUME NEW i \in 1 .. Len(r) PROVE WatchOf(r[i]) \in ws \cup {w}
  <2>1. CASE i = k BY <1>6, <2>1 DEF w
  <2>2. CASE i # k BY <1>7, <2>2 DEF Attended
  <2> QED BY <2>1, <2>2
<1>10. ASSUME NEW x \in ws \cup {w} PROVE \E i \in 1 .. Len(r) : x = WatchOf(r[i])
  <2>1. CASE x = w BY <1>6, <2>1 DEF w
  <2>2. CASE x \in ws
    <3>1. PICK j \in 1 .. Len(ps) : x = WatchOf(ps[j]) BY <2>2 DEF Attended
    <3>2. CASE j < k
      <4>1. j \in 1 .. Len(r) /\ r[j] = ps[j] BY <1>2, <3>2 DEF With
      <4> QED BY <3>1, <4>1
    <3>3. CASE ~(j < k)
      <4>1. j + 1 \in 1 .. Len(r) /\ r[j + 1] = ps[j] BY <1>2, <3>3 DEF With
      <4> QED BY <3>1, <4>1
    <3> QED BY <3>2, <3>3
  <2> QED BY <2>1, <2>2
<1>11. \A v \in In(s) : v \in ws \cup {w} /\ v.name \notin on BY <1>1, <1>5 DEF Attended
<1>12. ASSUME ~Shares, NEW i \in 1 .. Len(r), r[i].name \notin on PROVE WatchOf(r[i]) \in In(s)
  <2>1. CASE i = k BY <1>5, <1>6, <1>12, <2>1 DEF w
  <2>2. CASE i # k
    <3>1. At(i) \in 1 .. Len(ps) /\ r[i] = ps[At(i)] BY <1>7, <2>2
    <3>2. WatchOf(r[i]) \in In(vs) BY <1>12, <3>1 DEF Attended
    <3> QED BY <1>5, <3>2
  <2> QED BY <2>1, <2>2
<1>13. ws \cup {w} \subseteq Watch BY <1>1 DEF Attended
<1> QED BY <1>5, <1>8, <1>9, <1>10, <1>11, <1>12, <1>13 DEF Attended, w, s

Paired(ps, gs) == \A x, y \in In(ps) \cup In(gs) : Alike(x, y)
Dated(ps, n) == \A i \in 1 .. Len(ps) : ps[i].time <= n + 1 /\ ps[i].watch <= n
Latest(ps, a) == a # NoOne => Len(ps) >= 1 /\ ps[1].application = a /\ ps[1].time >= 2

MediaInv ==
  /\ clients \subseteq Client /\ grabs \in Seq(Request) /\ made \in 0 .. MaxWatches
  /\ Attended(media_players, watched, vanishing, clients)
  /\ Dated(media_players, made) /\ Latest(media_players, latest)
  /\ ~Shares => Paired(media_players, grabs)

LEMMA Entries ==
  ASSUME NEW ps \in Seq(Entry)
  PROVE  /\ Len(ps) \in Nat
         /\ \A i \in 1 .. Len(ps) : /\ ps[i].time \in Nat /\ ps[i].watch \in Nat
                                    /\ ps[i].name \in Client /\ ps[i].application \in Application
<1>1. \A i \in 1 .. Len(ps) : ps[i] \in Entry OBVIOUS
<1>2. \A p \in Entry : p.time \in Nat /\ p.watch \in Nat /\ p.name \in Client /\ p.application \in Application
  BY DEF Entry
<1> QED BY <1>1, <1>2

LEMMA Found ==
  ASSUME NEW x
  PROVE  /\ FirstOf(Media!FindByApplication(x), {i \in 1 .. Len(media_players) : media_players[i].application = x})
         /\ FirstOf(Media!FindByName(x), {i \in 1 .. Len(media_players) : media_players[i].name = x})
<1> DEFINE A == {i \in 1 .. Len(media_players) : media_players[i].application = x}
           N == {i \in 1 .. Len(media_players) : media_players[i].name = x}
<1>1. A \subseteq Nat /\ N \subseteq Nat OBVIOUS
<1>2. /\ Media!FindByApplication(x) = IF A # {} THEN Media!Min(A) ELSE 0
      /\ Media!FindByName(x) = IF N # {} THEN Media!Min(N) ELSE 0
  BY DEF Media!FindByApplication, Media!FindByName, Media!SelectInSeq
<1> HIDE DEF A, N
<1>3. FirstOf(Media!FindByApplication(x), A) /\ FirstOf(Media!FindByName(x), N) BY <1>1, <1>2, Chosen
<1> QED BY <1>3 DEF A, N

\* What is left of list, watches and handlers after an entry is let go, or none.
Left(ps, ws, vs, n) ==
  /\ Attended(ps, ws, vs, clients) /\ Len(ps) \in Nat
  /\ IF n = 0 THEN ps = media_players /\ ws = watched /\ vs = vanishing
     ELSE /\ Without(ps, media_players, n)
          /\ ws = watched \ {WatchOf(media_players[n])}
          /\ vs = Media!RemoveFirst(vanishing, WatchOf(media_players[n]))

LEMMA LetGo ==
  ASSUME MediaInv, NEW n \in 0 .. Len(media_players),
         NEW remaining, remaining = IF n = 0 THEN Media!Kept ELSE Media!Free(n)
  PROVE  Left(remaining.players, remaining.watched, remaining.vanishing, n)
<1>1. CASE n = 0
  <2>1. Len(media_players) \in Nat BY DEF MediaInv, Attended
  <2> QED BY <1>1, <2>1 DEF Left, Media!Kept, MediaInv
<1>2. CASE n # 0
  <2>1. n \in 1 .. Len(media_players) BY <1>2
  <2>2. /\ remaining.players = Media!RemoveAt(media_players, n)
        /\ remaining.watched = watched \ {WatchOf(media_players[n])}
        /\ remaining.vanishing = Media!RemoveFirst(vanishing, WatchOf(media_players[n]))
    BY <1>2 DEF Media!Free, WatchOf
  <2>3. Attended(media_players, watched, vanishing, clients) BY DEF MediaInv
  <2>4. /\ Attended(remaining.players, remaining.watched, remaining.vanishing, clients)
        /\ Without(remaining.players, media_players, n)
    <3>1. /\ Attended(Media!RemoveAt(media_players, n), watched \ {WatchOf(media_players[n])},
                      Media!RemoveFirst(vanishing, WatchOf(media_players[n])), clients)
          /\ Without(Media!RemoveAt(media_players, n), media_players, n)
      BY <2>1, <2>3, Freed
    <3> QED BY <2>2, <3>1, Zenon
  <2>5. Len(remaining.players) \in Nat BY <2>4 DEF Attended
  <2> QED BY <1>2, <2>2, <2>4, <2>5 DEF Left
<1> QED BY <1>1, <1>2

\* Of what is left each entry was there, and the first one stays unless it went.
LEMMA LeftOf ==
  ASSUME MediaInv, NEW n \in 0 .. Len(media_players), NEW ps, NEW ws, NEW vs, Left(ps, ws, vs, n)
  PROVE  /\ \A i \in 1 .. Len(ps) : \E j \in 1 .. Len(media_players) : j # n /\ ps[i] = media_players[j]
         /\ Len(media_players) >= 1 /\ n # 1 => Len(ps) >= 1 /\ ps[1] = media_players[1]
         /\ In(ps) \subseteq In(media_players) /\ Dated(ps, made) /\ Dated(ps, made + 1)
<1>1. Len(media_players) \in Nat /\ made \in Nat BY DEF MediaInv, Attended
<1>0. \A i \in 1 .. Len(media_players) : media_players[i].time \in Nat /\ media_players[i].watch \in Nat
  <2>1. media_players \in Seq(Entry) BY DEF MediaInv, Attended
  <2> QED BY <2>1, Entries
<1>2. \A i \in 1 .. Len(ps) : \E j \in 1 .. Len(media_players) : j # n /\ ps[i] = media_players[j]
  <2>1. CASE n = 0 BY <2>1 DEF Left
  <2>2. CASE n # 0
    <3> SUFFICES ASSUME NEW i \in 1 .. Len(ps)
                 PROVE  \E j \in 1 .. Len(media_players) : j # n /\ ps[i] = media_players[j]
      OBVIOUS
    <3>1. CASE i < n BY <1>1, <2>2, <3>1 DEF Left, Without
    <3>2. CASE ~(i < n)
      <4>1. i + 1 \in 1 .. Len(media_players) /\ i + 1 # n /\ ps[i] = media_players[i + 1]
        BY <1>1, <2>2, <3>2 DEF Left, Without
      <4> QED BY <4>1
    <3> QED BY <3>1, <3>2
  <2> QED BY <2>1, <2>2
<1>3. ASSUME Len(media_players) >= 1, n # 1 PROVE Len(ps) >= 1 /\ ps[1] = media_players[1]
  BY <1>1, <1>3 DEF Left, Without
<1>4. In(ps) \subseteq In(media_players) BY <1>2 DEF In
<1>5. Dated(ps, made) BY <1>2 DEF Dated, MediaInv
<1>6. ASSUME NEW i \in 1 .. Len(ps) PROVE ps[i].time <= (made + 1) + 1 /\ ps[i].watch <= made + 1
  BY <1>0, <1>1, <1>2, <1>5 DEF Dated
<1> QED BY <1>2, <1>3, <1>4, <1>5, <1>6 DEF Dated

LEMMA GrabStep ==
  ASSUME MediaInv, made < MaxWatches, NEW c \in Client, NEW a \in Application, NEW t \in Nat, t <= made + 2,
         Media!Grab(c, a, t), clients' = clients
  PROVE  /\ Attended(media_players, watched, vanishing, clients)'
         /\ Dated(media_players, made)' /\ made' \in 0 .. MaxWatches
         /\ \A x \in In(media_players)' : x \in In(media_players) \/ (x.name = c /\ x.application = a)
         /\ t = made + 2 => Latest(media_players', a)
         /\ t = 1 /\ Latest(media_players, latest) => Latest(media_players', latest)
<1> DEFINE i == Media!FindByApplication(a)
<1>0. FirstOf(i, {j \in 1 .. Len(media_players) : media_players[j].application = a}) BY Found
<1>1. /\ Len(media_players) \in Nat /\ made \in Nat /\ MaxWatches \in Nat
      /\ \A j \in 1 .. Len(media_players) : media_players[j].time \in Nat
  <2>1. media_players \in Seq(Entry) BY DEF MediaInv, Attended
  <2>2. made \in Nat /\ MaxWatches \in Nat BY WatchAssumption DEF MediaInv
  <2> QED BY <2>1, <2>2, Entries
<1>2. CASE i # 0 /\ ~(media_players[i].time < t)
  <2>1. media_players' = media_players /\ watched' = watched /\ vanishing' = vanishing /\ made' = made
    BY <1>2 DEF Media!Grab
  <2>2. i \in 1 .. Len(media_players) BY <1>0, <1>2 DEF FirstOf
  <2>3. t # made + 2 BY <1>1, <1>2, <2>2 DEF MediaInv, Dated
  <2> QED BY <2>1, <2>3 DEF MediaInv, Attended, Dated, In, Latest
<1>3. CASE ~(i # 0 /\ ~(media_players[i].time < t))
  <2> DEFINE remaining == IF i = 0 THEN Media!Kept ELSE Media!Free(i)
             p == [application |-> a, name |-> c, time |-> t, watch |-> made + 1]
  <2>1. /\ media_players' = Media!InsertSorted(remaining.players, p)
        /\ watched' = remaining.watched \cup {WatchOf(p)}
        /\ vanishing' = IF c \in clients THEN remaining.vanishing ELSE Append(remaining.vanishing, WatchOf(p))
        /\ made' = made + 1
    BY <1>3 DEF Media!Grab, WatchOf
  <2>2. i \in 0 .. Len(media_players) BY <1>0, <1>1 DEF FirstOf
  <2>3. Left(remaining.players, remaining.watched, remaining.vanishing, i) BY <2>2, LetGo
  <2> DEFINE ps == remaining.players
             ws == remaining.watched
             vs == remaining.vanishing
  <2>4. Left(ps, ws, vs, i) BY <2>3
  <2>5. p \in Entry /\ p.application = a /\ p.name = c /\ p.time = t /\ p.watch = made + 1
    BY <1>1 DEF Entry
  <2>6. /\ media_players' = Media!InsertSorted(ps, p) /\ watched' = ws \cup {WatchOf(p)}
        /\ vanishing' = IF p.name \in clients THEN vs ELSE Append(vs, WatchOf(p))
    BY <2>1
  <2> HIDE DEF ps, ws, vs, p, remaining, i
  <2>7. /\ \A k \in 1 .. Len(ps) : \E j \in 1 .. Len(media_players) : j # i /\ ps[k] = media_players[j]
        /\ Len(media_players) >= 1 /\ i # 1 => Len(ps) >= 1 /\ ps[1] = media_players[1]
        /\ In(ps) \subseteq In(media_players) /\ Dated(ps, made) /\ Dated(ps, made + 1)
    BY <2>2, <2>4, LeftOf
  <2>8. ps \in Seq(Entry) /\ Len(ps) \in Nat /\ Attended(ps, ws, vs, clients) BY <2>4 DEF Left, Attended
  <2>9. PICK k \in 1 .. Len(ps) + 1 :
          /\ With(media_players', ps, k, p)
          /\ \A j \in 1 .. k - 1 : p.time < ps[j].time
          /\ k <= Len(ps) => ~(p.time < ps[k].time)
    BY <2>5, <2>6, <2>8, Inserted
  <2>10. media_players' \in Seq(Entry) BY <2>5, <2>6, <2>8, Inserted
  <2>11. ASSUME NEW j \in 1 .. Len(ps) PROVE ps[j].application # p.application /\ ps[j].watch # p.watch
    <3>1. PICK m \in 1 .. Len(media_players) : m # i /\ ps[j] = media_players[m] BY <2>7
    <3>2. media_players[m].application # a
      <4>1. CASE i = 0 BY <1>0, <4>1 DEF FirstOf
      <4>2. CASE i # 0
        <5>1. i \in 1 .. Len(media_players) /\ media_players[i].application = a BY <1>0, <4>2 DEF FirstOf
        <5> QED BY <3>1, <5>1 DEF MediaInv, Attended
      <4> QED BY <4>1, <4>2
    <3>3. ps[j].watch \in Nat /\ ps[j].watch <= made BY <2>7, <2>8, Entries DEF Dated
    <3> QED BY <1>1, <2>5, <3>1, <3>2, <3>3
  <2>12. Attended(media_players', watched', vanishing', clients)
    BY <2>5, <2>6, <2>8, <2>9, <2>10, <2>11, Added
  <2>13. ASSUME NEW j \in 1 .. Len(media_players')
         PROVE  media_players'[j] = p \/ \E m \in 1 .. Len(ps) : media_players'[j] = ps[m]
    <3>1. CASE j < k BY <2>8, <2>9, <3>1 DEF With
    <3>2. CASE j = k BY <2>8, <2>9, <3>2 DEF With
    <3>3. CASE j > k
      <4>1. j - 1 \in 1 .. Len(ps) /\ media_players'[j] = ps[j - 1] BY <2>8, <2>9, <3>3 DEF With
      <4> QED BY <4>1
    <3> QED BY <3>1, <3>2, <3>3
  <2>14. Dated(media_players', made')
    <3> SUFFICES ASSUME NEW j \in 1 .. Len(media_players')
                 PROVE  media_players'[j].time <= made' + 1 /\ media_players'[j].watch <= made'
      BY DEF Dated
    <3>1. made' = made + 1 BY <2>1
    <3>2. CASE media_players'[j] = p BY <1>1, <2>5, <3>1, <3>2
    <3>3. ASSUME NEW m \in 1 .. Len(ps), media_players'[j] = ps[m]
          PROVE  media_players'[j].time <= made' + 1 /\ media_players'[j].watch <= made'
      BY <2>7, <3>1, <3>3 DEF Dated
    <3> QED BY <2>13, <3>2, <3>3
  <2>15. \A x \in In(media_players)' : x \in In(media_players) \/ (x.name = c /\ x.application = a)
    BY <2>5, <2>7, <2>13 DEF In
  <2>16. Len(media_players') >= 1 BY <2>8, <2>9 DEF With
  <2>17. ASSUME t = made + 2 PROVE Latest(media_players', a)
    <3>1. k = 1
      <4> SUFFICES ASSUME k # 1 PROVE FALSE OBVIOUS
      <4>1. 1 \in 1 .. k - 1 /\ 1 \in 1 .. Len(ps) BY <2>8
      <4>2. t < ps[1].time /\ ps[1].time <= made + 1 /\ ps[1].time \in Nat
        BY <2>5, <2>7, <2>8, <2>9, <4>1, Entries DEF Dated
      <4> QED BY <1>1, <2>17, <4>2
    <3>2. media_players'[1] = p BY <2>8, <2>9, <3>1 DEF With
    <3> QED BY <1>1, <2>5, <2>16, <2>17, <3>2 DEF Latest
  <2>18. ASSUME t = 1, Latest(media_players, latest) PROVE Latest(media_players', latest)
    <3> SUFFICES ASSUME latest # NoOne
                 PROVE  Len(media_players') >= 1 /\ media_players'[1] = media_players[1]
      BY <2>18 DEF Latest
    <3>1. Len(media_players) >= 1 /\ media_players[1].time >= 2 BY <2>18 DEF Latest
    <3>2. i # 1 BY <1>1, <1>3, <2>18, <3>1 DEF i
    <3>3. Len(ps) >= 1 /\ ps[1] = media_players[1] BY <2>7, <3>1, <3>2
    <3>4. k # 1
      <4> SUFFICES ASSUME k = 1 PROVE FALSE OBVIOUS
      <4>1. ~(t < ps[1].time) BY <2>5, <2>8, <2>9, <3>3
      <4>2. ps[1].time >= 2 /\ ps[1].time \in Nat BY <1>1, <3>1, <3>3
      <4> QED BY <2>18, <4>1, <4>2
    <3>5. media_players'[1] = ps[1] BY <2>8, <2>9, <3>4 DEF With
    <3> QED BY <2>16, <3>3, <3>5
  <2>19. made' \in 0 .. MaxWatches BY <1>1, <2>1
  <2> QED BY <2>12, <2>14, <2>15, <2>17, <2>18, <2>19
<1> QED BY <1>2, <1>3

\* A handler that has told, of a watch that is gone.
LEMMA HasTold ==
  ASSUME NEW ps, NEW ws, NEW vs, NEW on, Attended(ps, ws, vs, on), NEW h, Shares \/ h \notin ws
  PROVE  Attended(ps, ws, Media!RemoveFirst(vs, h), on)
<1> DEFINE s == Media!RemoveFirst(vs, h)
<1>1. s \in Seq(Watch) /\ NoRepeats(s) /\ In(s) = In(vs) \ {h} BY Dropped DEF Attended
<1> HIDE DEF s
<1>2. \A v \in In(s) : v \in ws /\ v.name \notin on BY <1>1 DEF Attended
<1>3. ASSUME ~Shares, NEW i \in 1 .. Len(ps), ps[i].name \notin on PROVE WatchOf(ps[i]) \in In(s)
  BY <1>1, <1>3 DEF Attended
<1> QED BY <1>1, <1>2, <1>3 DEF Attended, s

LEMMA Appended ==
  ASSUME NEW S, NEW q \in Seq(S), NEW e \in S
  PROVE  Append(q, e) \in Seq(S) /\ In(Append(q, e)) = In(q) \cup {e}
<1>1. /\ Append(q, e) \in Seq(S) /\ Len(q) \in Nat /\ Len(Append(q, e)) = Len(q) + 1
      /\ Append(q, e)[Len(q) + 1] = e /\ \A i \in 1 .. Len(q) : Append(q, e)[i] = q[i]
  OBVIOUS
<1>2. ASSUME NEW r, r = Append(q, e) PROVE In(r) = In(q) \cup {e}
  <2>1. /\ Len(r) = Len(q) + 1 /\ r[Len(q) + 1] = e /\ \A i \in 1 .. Len(q) : r[i] = q[i]
    BY <1>1, <1>2
  <2>2. ASSUME NEW i \in 1 .. Len(r) PROVE r[i] \in In(q) \cup {e} BY <1>1, <2>1 DEF In
  <2>3. ASSUME NEW i \in 1 .. Len(q) PROVE q[i] \in In(r)
    <3>1. i \in 1 .. Len(r) /\ r[i] = q[i] BY <1>1, <2>1
    <3> QED BY <3>1 DEF In
  <2>4. e \in In(r)
    <3>1. Len(q) + 1 \in 1 .. Len(r) BY <1>1, <2>1
    <3> QED BY <2>1, <3>1 DEF In
  <2>5. \A x \in In(r) : x \in In(q) \cup {e} BY <2>2 DEF In
  <2>6. \A x \in In(q) \cup {e} : x \in In(r) BY <2>3, <2>4 DEF In
  <2> QED BY <2>5, <2>6
<1> QED BY <1>1, <1>2

\* The elements as the library counts them.
LEMMA InIs ==
  ASSUME NEW S, NEW q \in Seq(S) PROVE Media!ToSet(q) = In(q)
<1>1. DOMAIN q = 1 .. Len(q) OBVIOUS
<1> QED BY <1>1 DEF Media!ToSet, In

LEMMA RequestsOf ==
  ASSUME NEW q \in Seq(Request), q # <<>>
  PROVE  /\ Tail(q) \in Seq(Request) /\ In(Tail(q)) \subseteq In(q) /\ Head(q) \in In(q)
         /\ Head(q).name \in Client /\ Head(q).application \in Application
         /\ Head(q).what \in {"grab", "grab low", "release"}
<1>1. /\ Tail(q) \in Seq(Request) /\ Len(q) \in Nat /\ Len(Tail(q)) = Len(q) - 1 /\ Len(q) >= 1
      /\ \A i \in 1 .. Len(q) - 1 : Tail(q)[i] = q[i + 1]
      /\ Head(q) = q[1] /\ Head(q) \in Request
  OBVIOUS
<1>2. In(Tail(q)) \subseteq In(q)
  <2>1. ASSUME NEW i \in 1 .. Len(Tail(q)) PROVE Tail(q)[i] \in In(q)
    <3>1. i + 1 \in 1 .. Len(q) /\ Tail(q)[i] = q[i + 1] BY <1>1
    <3> QED BY <3>1 DEF In
  <2> QED BY <2>1 DEF In
<1>3. Head(q) \in In(q) BY <1>1 DEF In
<1> QED BY <1>1, <1>2, <1>3 DEF Request

\* Calls may be dispatched and entries let go: those that stay are paired.
LEMMA StillPaired ==
  ASSUME NEW ps, NEW gs, NEW ps2, NEW gs2, Paired(ps, gs), In(gs2) \subseteq In(gs),
         NEW g \in In(gs), \A x \in In(ps2) : x \in In(ps) \/ (x.name = g.name /\ x.application = g.application)
  PROVE  Paired(ps2, gs2)
<1>1. ASSUME NEW x \in In(ps2) \cup In(gs2)
      PROVE  \E z \in In(ps) \cup In(gs) : x.name = z.name /\ x.application = z.application
  BY <1>1
<1> QED BY <1>1 DEF Paired, Alike

LEMMA CallStep ==
  ASSUME MediaInv, NEW c \in Client, NEW a \in Application, NEW w \in {"grab", "grab low", "release"},
         Media!Call(c, a, w)
  PROVE  MediaInv'
<1> DEFINE g == [name |-> c, application |-> a, what |-> w]
<1>1. /\ clients' = clients /\ media_players' = media_players /\ watched' = watched
      /\ vanishing' = vanishing /\ made' = made /\ latest' = latest /\ grabs' = Append(grabs, g)
  BY DEF Media!Call
<1>2. g \in Request /\ g.name = c /\ g.application = a BY DEF Request
<1>3. grabs \in Seq(Request) /\ media_players \in Seq(Entry)
  <2>1. grabs \in Seq(Request) BY DEF MediaInv
  <2>2. media_players \in Seq(Entry) BY DEF MediaInv, Attended
  <2> QED BY <2>1, <2>2
<1> HIDE DEF g
<1>4. Append(grabs, g) \in Seq(Request) /\ In(Append(grabs, g)) = In(grabs) \cup {g}
  <2>1. g \in Request /\ grabs \in Seq(Request) BY <1>2, <1>3
  <2>2. \A q \in Seq(Request), e \in Request :
          Append(q, e) \in Seq(Request) /\ In(Append(q, e)) = In(q) \cup {e}
    BY Appended
  <2>3. PICK e \in Request : e = g BY <2>1
  <2>4. Append(grabs, e) \in Seq(Request) /\ In(Append(grabs, e)) = In(grabs) \cup {e} BY <2>1, <2>2
  <2> QED BY <2>3, <2>4
<1>5. grabs' \in Seq(Request) /\ In(grabs') = In(grabs) \cup {g} BY <1>1, <1>4
<1>6. ASSUME ~Shares PROVE Paired(media_players, grabs')
  <2>1. \A x \in In(media_players) \cup In(grabs) : x.name = c => x.application = a
    <3>1. Media!ToSet(media_players) = In(media_players) /\ Media!ToSet(grabs) = In(grabs)
      BY <1>3, InIs
    <3> QED BY <1>6, <3>1 DEF Media!Call
  <2>2. Paired(media_players, grabs) BY <1>6 DEF MediaInv
  <2>3. ASSUME NEW x \in In(media_players) \cup In(grabs) PROVE Alike(x, g) /\ Alike(g, x)
    BY <1>2, <2>1 DEF Alike
  <2>4. Alike(g, g) BY DEF Alike
  <2> QED BY <1>5, <2>2, <2>3, <2>4 DEF Paired
<1> QED BY <1>1, <1>5, <1>6 DEF MediaInv, Attended, Dated, Latest

LEMMA FiniteWatches ==
  ASSUME MediaInv PROVE IsFiniteSet(watched)
<1> DEFINE f == [i \in 1 .. Len(media_players) |-> WatchOf(media_players[i])]
<1>1. f \in Surjection(1 .. Len(media_players), watched) BY DEF MediaInv, Attended, Surjection
<1>2. Len(media_players) \in Nat BY DEF MediaInv, Attended
<1>3. IsFiniteSet(1 .. Len(media_players)) BY <1>2, FS_Interval
<1> QED BY <1>1, <1>3, FS_Surjection

\* A sequence of as many elements of a finite set as it has, without repetitions.
LEMMA AllThere ==
  ASSUME NEW S, IsFiniteSet(S), NEW f \in [1 .. Cardinality(S) -> S],
         \A i, j \in 1 .. Cardinality(S) : f[i] = f[j] => i = j
  PROVE  /\ f \in Seq(S) /\ Len(f) = Cardinality(S) /\ Cardinality(S) \in Nat
         /\ NoRepeats(f) /\ In(f) = S
<1> DEFINE n == Cardinality(S)
<1>1. n \in Nat BY FS_CardinalityType
<1>2. f \in Seq(S) /\ Len(f) = n
  <2> HIDE DEF n
  <2>1. f \in [1 .. n -> S] BY DEF n
  <2> QED BY <1>1, <2>1
<1>3. Cardinality(1 .. n) = n BY <1>1, FS_Interval
<1>4. f \in Injection(1 .. n, S) BY DEF Injection, IsInjective
<1>5. f \in Surjection(1 .. n, S) BY <1>3, <1>4, FS_Injection
<1>6. \A x \in S : \E i \in 1 .. n : f[i] = x BY <1>5 DEF Surjection
<1> HIDE DEF n
<1> QED
  <2>1. \A i \in 1 .. n : f[i] \in S BY DEF n
  <2>2. In(f) = S BY <1>2, <1>6, <2>1 DEF In
  <2> QED BY <1>1, <1>2, <2>2 DEF NoRepeats, n

LEMMA LeaveStep ==
  ASSUME MediaInv, NEW c \in Client, Media!Leave(c)
  PROVE  MediaInv'
<1> DEFINE mine == {w \in watched : w.name = c}
<1>1. c \in clients /\ clients' = clients \ {c} BY DEF Media!Leave
<1>2. PICK order \in [1 .. Media!Cardinality(mine) -> mine] :
        /\ \A i, j \in 1 .. Media!Cardinality(mine) : i < j => order[i].id < order[j].id
        /\ vanishing' = vanishing \o order
  BY DEF Media!Leave
<1>3. Media!Cardinality(mine) = Cardinality(mine) BY DEF Media!Cardinality, Cardinality
<1>4. /\ grabs' = grabs /\ media_players' = media_players /\ watched' = watched
      /\ made' = made /\ latest' = latest
  BY DEF Media!Leave
<1>5. IsFiniteSet(mine) BY FiniteWatches, FS_Subset
<1>6. Cardinality(mine) \in Nat BY <1>5, FS_CardinalityType
<1>7. \A w \in mine : w \in Watch /\ w.id \in Nat /\ w.name = c
  BY DEF MediaInv, Attended, Watch
<1> HIDE DEF mine
<1>8. \A i, j \in 1 .. Cardinality(mine) : order[i] = order[j] => i = j
  <2> SUFFICES ASSUME NEW i \in 1 .. Cardinality(mine), NEW j \in 1 .. Cardinality(mine),
                      order[i] = order[j], i # j
               PROVE  FALSE
    OBVIOUS
  <2>1. order[i] \in mine /\ order[i].id \in Nat BY <1>2, <1>3, <1>7
  <2>2. i < j \/ j < i BY <1>6
  <2> QED BY <1>2, <1>3, <2>1, <2>2
<1>9. order \in Seq(mine) /\ NoRepeats(order) /\ In(order) = mine /\ Len(order) \in Nat
  BY <1>2, <1>3, <1>5, <1>8, AllThere
<1>10. order \in Seq(Watch)
  <2>1. mine \subseteq Watch BY <1>7
  <2> QED BY <1>9, <2>1
<1>11. vanishing \in Seq(Watch) /\ NoRepeats(vanishing) BY DEF MediaInv, Attended
<1>12. /\ vanishing' \in Seq(Watch) /\ Len(vanishing') = Len(vanishing) + Len(order) /\ Len(vanishing) \in Nat
       /\ \A i \in 1 .. Len(vanishing) : vanishing'[i] = vanishing[i]
       /\ \A i \in 1 .. Len(order) : vanishing'[Len(vanishing) + i] = order[i]
  <2>1. vanishing' \in Seq(Watch) /\ Len(vanishing') = Len(vanishing) + Len(order) /\ Len(vanishing) \in Nat
    BY <1>2, <1>10, <1>11
  <2>2. \A i \in 1 .. Len(vanishing) : vanishing'[i] = vanishing[i]
    BY <1>2, <1>10, <1>11
  <2>3. ASSUME NEW i \in 1 .. Len(order) PROVE vanishing'[Len(vanishing) + i] = order[i]
    <3>1. /\ Len(vanishing) + i \in 1 .. Len(vanishing) + Len(order) /\ ~(Len(vanishing) + i <= Len(vanishing))
          /\ (Len(vanishing) + i) - Len(vanishing) = i
      BY <1>9, <2>1
    <3>2. vanishing'[Len(vanishing) + i] = order[(Len(vanishing) + i) - Len(vanishing)]
      BY <1>2, <1>10, <1>11, <3>1, SMTT(30)
    <3> QED BY <3>1, <3>2
  <2> QED BY <2>1, <2>2, <2>3
<1> DEFINE Is(i) == IF i <= Len(vanishing) THEN vanishing[i] ELSE order[i - Len(vanishing)]
<1>13. ASSUME NEW i \in 1 .. Len(vanishing')
       PROVE  /\ i <= Len(vanishing) => i \in 1 .. Len(vanishing) /\ vanishing'[i] = vanishing[i]
              /\ ~(i <= Len(vanishing)) => /\ i - Len(vanishing) \in 1 .. Len(order)
                                           /\ vanishing'[i] = order[i - Len(vanishing)]
  <2>1. CASE i <= Len(vanishing) BY <1>12, <2>1
  <2>2. CASE ~(i <= Len(vanishing))
    <3>1. i - Len(vanishing) \in 1 .. Len(order) /\ Len(vanishing) + (i - Len(vanishing)) = i BY <1>9, <1>12, <2>2
    <3> QED BY <1>12, <2>2, <3>1
  <2> QED BY <2>1, <2>2
<1>14. \A v \in In(vanishing) : v.name # c BY <1>1 DEF MediaInv, Attended
<1>15. In(vanishing') = In(vanishing) \cup mine
  <2>1. ASSUME NEW i \in 1 .. Len(vanishing') PROVE vanishing'[i] \in In(vanishing) \cup mine
    BY <1>9, <1>13 DEF In
  <2>2. ASSUME NEW i \in 1 .. Len(vanishing) PROVE vanishing[i] \in In(vanishing')
    <3>1. i \in 1 .. Len(vanishing') BY <1>9, <1>12
    <3> QED BY <1>12, <3>1 DEF In
  <2>3. ASSUME NEW i \in 1 .. Len(order) PROVE order[i] \in In(vanishing')
    <3>1. Len(vanishing) + i \in 1 .. Len(vanishing') BY <1>9, <1>12
    <3> QED BY <1>12, <3>1 DEF In
  <2>4. \A x \in In(vanishing') : x \in In(vanishing) \cup mine BY <2>1 DEF In
  <2>5. \A x \in In(vanishing) \cup mine : x \in In(vanishing') BY <1>9, <2>2, <2>3 DEF In
  <2> QED BY <2>4, <2>5
<1>16. NoRepeats(vanishing')
  <2> SUFFICES ASSUME NEW i \in 1 .. Len(vanishing'), NEW j \in 1 .. Len(vanishing'), vanishing'[i] = vanishing'[j]
               PROVE  i = j
    BY DEF NoRepeats
  <2>1. CASE i <= Len(vanishing) /\ j <= Len(vanishing) BY <1>11, <1>13, <2>1 DEF NoRepeats
  <2>2. CASE ~(i <= Len(vanishing)) /\ ~(j <= Len(vanishing))
    <3>1. i - Len(vanishing) = j - Len(vanishing) BY <1>9, <1>13, <2>2 DEF NoRepeats
    <3> QED BY <1>12, <3>1
  <2>3. ASSUME NEW k \in 1 .. Len(vanishing), NEW l \in 1 .. Len(order) PROVE vanishing[k] # order[l]
    BY <1>7, <1>9, <1>14 DEF In
  <2> QED BY <1>13, <2>1, <2>2, <2>3
<1>17. Attended(media_players, watched, vanishing', clients')
  <2>1. \A v \in In(vanishing') : v \in watched /\ v.name \notin clients'
    BY <1>1, <1>7, <1>15 DEF MediaInv, Attended, mine
  <2>2. ASSUME ~Shares, NEW i \in 1 .. Len(media_players), media_players[i].name \notin clients'
        PROVE  WatchOf(media_players[i]) \in In(vanishing')
    <3>1. CASE media_players[i].name \notin clients BY <1>15, <2>2, <3>1 DEF MediaInv, Attended
    <3>2. CASE media_players[i].name = c
      <4>1. WatchOf(media_players[i]) \in watched BY DEF MediaInv, Attended
      <4>2. WatchOf(media_players[i]) \in mine BY <3>2, <4>1 DEF WatchOf, mine
      <4> QED BY <1>15, <4>2
    <3> QED BY <1>1, <2>2, <3>1, <3>2
  <2> QED BY <1>12, <1>16, <2>1, <2>2 DEF MediaInv, Attended
<1> QED BY <1>1, <1>4, <1>17 DEF MediaInv, Dated, Latest

LEMMA HandleStep ==
  ASSUME MediaInv, MaxWatches + 1 < Wrap, Media!HandleMethodCall
  PROVE  MediaInv'
<1> DEFINE g == Head(grabs)
<1>0. /\ grabs # <<>> /\ grabs' = Tail(grabs) /\ made < MaxWatches /\ clients' = clients
  BY DEF Media!HandleMethodCall
<1>1. grabs \in Seq(Request) BY DEF MediaInv
<1>2. /\ grabs' \in Seq(Request) /\ In(grabs') \subseteq In(grabs) /\ g \in In(grabs)
      /\ g.name \in Client /\ g.application \in Application
      /\ g.what = "grab" \/ g.what = "grab low" \/ g.what = "release"
  BY <1>0, <1>1, RequestsOf
<1>3. made \in Nat /\ Wrap \in Nat /\ MaxWatches \in Nat BY WatchAssumption DEF MediaInv
<1>4. ASSUME NEW t \in Nat, t <= made + 2, Media!Grab(g.name, g.application, t),
             t = made + 2 => latest' = g.application, t # made + 2 => t = 1 /\ latest' = latest
      PROVE  MediaInv'
  <2> HIDE DEF g
  <2>0. PICK c \in Client, a \in Application : c = g.name /\ a = g.application BY <1>2
  <2>01. Media!Grab(c, a, t) BY <1>4, <2>0
  <2>1. /\ Attended(media_players, watched, vanishing, clients)'
        /\ Dated(media_players, made)' /\ made' \in 0 .. MaxWatches
        /\ \A x \in In(media_players)' : x \in In(media_players) \/ (x.name = c /\ x.application = a)
        /\ t = made + 2 => Latest(media_players', a)
        /\ t = 1 /\ Latest(media_players, latest) => Latest(media_players', latest)
    BY <1>0, <1>4, <2>01, GrabStep
  <2>2. Latest(media_players', latest') BY <1>4, <2>0, <2>1 DEF MediaInv
  <2>3. ASSUME ~Shares PROVE Paired(media_players', grabs')
    <3>1. Paired(media_players, grabs) BY <2>3 DEF MediaInv
    <3>2. \A x \in In(media_players') : x \in In(media_players) \/ (x.name = g.name /\ x.application = g.application)
      BY <2>0, <2>1
    <3> QED BY <1>2, <3>1, <3>2, StillPaired
  <2> QED BY <1>0, <1>2, <2>1, <2>2, <2>3 DEF MediaInv
<1>5. CASE g.what = "grab"
  <2>1. Media!Grab(g.name, g.application, Media!Time) /\ latest' = g.application
    BY <1>5 DEF Media!HandleMethodCall
  <2>2. Media!Time = made + 2 BY <1>0, <1>3 DEF Media!Time
  <2> QED BY <1>3, <1>4, <2>1, <2>2
<1>6. CASE g.what = "grab low"
  <2>1. Media!Grab(g.name, g.application, 1) /\ latest' = latest
    BY <1>6 DEF Media!HandleMethodCall, Media!LowPriority
  <2> QED BY <1>3, <1>4, <2>1
<1>7. CASE g.what = "release"
  <2> DEFINE i == Media!FindByApplication(g.application)
             n == IF i # 0 THEN i ELSE Media!FindByName(g.name)
             remaining == IF n = 0 THEN Media!Kept ELSE Media!Free(n)
  <2>1. /\ media_players' = remaining.players /\ watched' = remaining.watched /\ vanishing' = remaining.vanishing /\ made' = made
        /\ latest' = IF \E p \in Media!ToSet(media_players') : p.application = latest THEN latest ELSE NoOne
    BY <1>7 DEF Media!HandleMethodCall, Media!Release
  <2>2. n \in 0 .. Len(media_players)
    <3>1. Len(media_players) \in Nat BY DEF MediaInv, Attended
    <3> QED BY <3>1, Found DEF FirstOf
  <2> HIDE DEF n
  <2>3. Left(remaining.players, remaining.watched, remaining.vanishing, n) BY <2>2, LetGo
  <2>4. Left(media_players', watched', vanishing', n)
    <3> HIDE DEF remaining
    <3> QED BY <2>1, <2>3
  <2>5. /\ \A k \in 1 .. Len(media_players') : \E j \in 1 .. Len(media_players) : j # n /\ media_players'[k] = media_players[j]
        /\ Len(media_players) >= 1 /\ n # 1 => Len(media_players') >= 1 /\ media_players'[1] = media_players[1]
        /\ In(media_players') \subseteq In(media_players) /\ Dated(media_players', made)
    BY <2>2, <2>4, LeftOf
  <2>6. Attended(media_players', watched', vanishing', clients) BY <2>4 DEF Left
  <2>7. Latest(media_players', latest')
    <3> SUFFICES ASSUME latest' # NoOne PROVE Latest(media_players', latest) BY <2>1 DEF Latest
    <3>1. PICK p \in Media!ToSet(media_players') : p.application = latest BY <2>1
    <3>2. Media!ToSet(media_players') = In(media_players') BY <2>6, InIs DEF Attended
    <3>3. PICK k \in 1 .. Len(media_players') : p = media_players'[k] BY <3>1, <3>2 DEF In
    <3>4. PICK j \in 1 .. Len(media_players) : j # n /\ p = media_players[j] BY <2>5, <3>3
    <3>5. latest # NoOne BY <2>1
    <3>6. Len(media_players) >= 1 /\ media_players[1].application = latest /\ media_players[1].time >= 2
      BY <3>5 DEF MediaInv, Latest
    <3>7. Len(media_players) \in Nat BY DEF MediaInv, Attended
    <3>8. j = 1 BY <3>1, <3>4, <3>6, <3>7 DEF MediaInv, Attended
    <3>9. Len(media_players') >= 1 /\ media_players'[1] = media_players[1] BY <2>5, <3>4, <3>6, <3>8
    <3> QED BY <3>6, <3>9 DEF Latest
  <2>8. ASSUME ~Shares PROVE Paired(media_players', grabs')
    <3>1. Paired(media_players, grabs) BY <2>8 DEF MediaInv
    <3> QED BY <1>2, <2>5, <3>1, StillPaired
  <2> QED BY <1>0, <1>2, <2>1, <2>5, <2>6, <2>7, <2>8 DEF MediaInv
<1> QED BY <1>2, <1>5, <1>6, <1>7

LEMMA VanishedStep ==
  ASSUME MediaInv, Media!NameVanished
  PROVE  MediaInv'
<1> DEFINE h == Head(vanishing)
           n == Media!FindByName(h.name)
           remaining == IF n = 0 THEN Media!Kept ELSE Media!Free(n)
<1>1. /\ vanishing # <<>> /\ clients' = clients /\ grabs' = grabs /\ made' = made
      /\ media_players' = remaining.players /\ watched' = remaining.watched
      /\ vanishing' = Media!RemoveFirst(remaining.vanishing, h)
      /\ latest' = IF n # 0 THEN Media!Gone(media_players[n].application) ELSE latest
  BY DEF Media!NameVanished
<1>2. vanishing \in Seq(Watch) /\ media_players \in Seq(Entry) /\ Len(media_players) \in Nat
  BY DEF MediaInv, Attended
<1>3. h \in In(vanishing)
  <2>1. h = vanishing[1] /\ 1 \in 1 .. Len(vanishing) BY <1>1, <1>2
  <2> QED BY <2>1 DEF In
<1>4. PICK j \in 1 .. Len(media_players) : h = WatchOf(media_players[j]) BY <1>3 DEF MediaInv, Attended
<1> HIDE DEF h
<1>5. FirstOf(n, {i \in 1 .. Len(media_players) : media_players[i].name = h.name}) BY Found
<1>6. media_players[j].name = h.name BY <1>4 DEF WatchOf
<1> HIDE DEF n
<1>7. n \in 1 .. Len(media_players) /\ n # 0 /\ media_players[n].name = h.name
  BY <1>2, <1>5, <1>6 DEF FirstOf
<1>8. Left(remaining.players, remaining.watched, remaining.vanishing, n)
  <2>1. n \in 0 .. Len(media_players) BY <1>7
  <2> QED BY <2>1, LetGo
<1> DEFINE ps == remaining.players
           ws == remaining.watched
           vs == remaining.vanishing
<1>9. /\ Left(ps, ws, vs, n) /\ media_players' = ps /\ watched' = ws
      /\ vanishing' = Media!RemoveFirst(vs, h)
  BY <1>1, <1>8
<1> HIDE DEF ps, ws, vs, remaining
<1>10. /\ \A k \in 1 .. Len(ps) : \E i \in 1 .. Len(media_players) : i # n /\ ps[k] = media_players[i]
       /\ Len(media_players) >= 1 /\ n # 1 => Len(ps) >= 1 /\ ps[1] = media_players[1]
       /\ In(ps) \subseteq In(media_players) /\ Dated(ps, made)
  <2>1. n \in 0 .. Len(media_players) BY <1>7
  <2> QED BY <1>9, <2>1, LeftOf
<1>11. Shares \/ h \notin ws
  <2> SUFFICES ASSUME ~Shares PROVE h \notin ws OBVIOUS
  <2>1. Paired(media_players, grabs) BY DEF MediaInv
  <2>2. media_players[j] \in In(media_players) /\ media_players[n] \in In(media_players) BY <1>7 DEF In
  <2>3. media_players[j].application = media_players[n].application
    BY <1>6, <1>7, <2>1, <2>2 DEF Paired, Alike
  <2>4. j = n BY <1>7, <2>3 DEF MediaInv, Attended
  <2>5. ws = watched \ {WatchOf(media_players[n])} BY <1>7, <1>9 DEF Left
  <2> QED BY <1>4, <2>4, <2>5
<1>12. Attended(ps, ws, vs, clients) BY <1>9 DEF Left
<1>13. Attended(ps, ws, Media!RemoveFirst(vs, h), clients) BY <1>11, <1>12, HasTold
<1>14. Attended(media_players', watched', vanishing', clients') BY <1>1, <1>9, <1>13
<1>15. Latest(media_players', latest')
  <2> SUFFICES ASSUME latest' # NoOne PROVE Latest(media_players', latest')
    BY DEF Latest
  <2>1. latest' = latest /\ media_players[n].application # latest BY <1>1, <1>7 DEF Media!Gone
  <2>2. Len(media_players) >= 1 /\ media_players[1].application = latest /\ media_players[1].time >= 2
    BY <2>1 DEF MediaInv, Latest
  <2>3. n # 1 BY <2>1, <2>2
  <2> QED BY <1>9, <1>10, <2>1, <2>2, <2>3 DEF Latest
<1>16. ASSUME ~Shares PROVE Paired(media_players', grabs')
  <2>1. Paired(media_players, grabs) BY <1>16 DEF MediaInv
  <2> QED BY <1>1, <1>9, <1>10, <2>1 DEF Paired
<1>17. Dated(media_players', made') BY <1>1, <1>9, <1>10
<1> QED BY <1>1, <1>14, <1>15, <1>16, <1>17 DEF MediaInv

LEMMA MediaInit == Media!Init => MediaInv
<1> SUFFICES ASSUME Media!Init PROVE MediaInv OBVIOUS
<1>1. In(<<>>) = {} BY DEF In
<1>2. <<>> \in Seq(Entry) /\ <<>> \in Seq(Watch) /\ <<>> \in Seq(Request) OBVIOUS
<1>3. NoRepeats(<<>>) BY DEF NoRepeats
<1>4. Attended(<<>>, {}, <<>>, clients) BY <1>1, <1>2, <1>3 DEF Attended
<1> QED BY <1>1, <1>2, <1>4, WatchAssumption DEF Media!Init, MediaInv, Dated, Latest, Paired

LEMMA MediaStep ==
  ASSUME MaxWatches + 1 < Wrap PROVE MediaInv /\ [Media!Next]_(Media!vars) => MediaInv'
<1> SUFFICES ASSUME MediaInv, [Media!Next]_(Media!vars) PROVE MediaInv' OBVIOUS
<1>1. CASE UNCHANGED Media!vars
  BY <1>1 DEF Media!vars, MediaInv, Attended, Dated, Latest, Paired, In
<1> QED BY <1>1, CallStep, LeaveStep, HandleStep, VanishedStep DEF Media!Next

\* Every behaviour of the parts is one of the applications.
LEMMA PartIsMedia == AllSpec => Media!Spec
<1>1. AllInit => Media!Init BY DEF AllInit
<1>2. [AllNext]_allVars => [Media!Next]_(Media!vars)
  BY DEF AllNext, allVars, mediaVars, Media!vars
<1> QED BY <1>1, <1>2, PTL DEF AllSpec, Media!Spec

LEMMA PlayersKept ==
  ASSUME MaxWatches + 1 < Wrap, ~Shares
  PROVE  AllSpec => [](Media!NoGhosts /\ Media!LastRegisteredReceives)
<1>1. Media!Init => MediaInv BY MediaInit
<1>2. MediaInv /\ [Media!Next]_(Media!vars) => MediaInv' BY MediaStep
<1>3. Media!Spec => []MediaInv BY <1>1, <1>2, PTL DEF Media!Spec
<1>4. MediaInv => Media!NoGhosts /\ Media!LastRegisteredReceives
  <2> SUFFICES ASSUME MediaInv PROVE Media!NoGhosts /\ Media!LastRegisteredReceives OBVIOUS
  <2>1. media_players \in Seq(Entry) BY DEF MediaInv, Attended
  <2>2. Media!ToSet(media_players) = In(media_players) BY <2>1, InIs
  <2>3. ASSUME vanishing = <<>>, NEW p \in In(media_players) PROVE p.name \in clients
    <3>1. In(vanishing) = {} BY <2>3 DEF In
    <3> QED BY <2>3, <3>1 DEF In, MediaInv, Attended
  <2>4. Media!NoGhosts BY <2>2, <2>3 DEF Media!NoGhosts
  <2>5. ASSUME latest # NoOne PROVE media_players # <<>> /\ media_players[1].application = latest
    BY <2>1, <2>5 DEF MediaInv, Latest
  <2> QED BY <2>4, <2>5 DEF Media!LastRegisteredReceives
<1> QED BY <1>3, <1>4, PartIsMedia, PTL

-----------------------------------------------------------------------------
(* The players of MPRIS.  NameInv: the last report of a player on its way  *)
(* says whether it lives; without one the watcher knows, or will ask.      *)

Report == [is : {"changed"}, name : Player, old : BOOLEAN, new : BOOLEAN]
            \cup [is : {"owner"}, name : Player, old : {FALSE}, new : BOOLEAN]
List == [is : {"listed"}, names : SUBSET Player]
Question == {[is |-> "match"], [is |-> "list"]} \cup [is : {"owner"}, name : Player]

\* A message that says of p whether it is there.
Says(m, p) == m.is \in {"changed", "owner"} /\ m.name = p /\ (m.old \/ m.new)
Right(q, p, on) ==
  \E i \in 1 .. Len(q) : /\ Says(q[i], p) /\ (q[i].new <=> p \in on)
                         /\ \A j \in 1 .. Len(q) : j > i => ~Says(q[j], p)
Silent(q, p) == \A i \in 1 .. Len(q) : ~Says(q[i], p)

WillAsk(p) ==
  \/ ~watching
  \/ \E m \in In(sent) : m.is = "list" \/ (m.is = "owner" /\ m.name = p)
  \/ \E m \in In(inbox) : m.is = "listed" /\ p \in m.names

NameInv(p) ==
  \/ Right(inbox, p, live)
  \/ /\ Silent(inbox, p)
     /\ \/ p \in names /\ p \in live
        \/ p \notin names /\ (p \notin live \/ WillAsk(p))

\* The players the controller knows, with nobody that slipped from it: c is
\* what it keeps of them.
Control == [proxy : Player \cup {Nobody}, connecting : Player \cup {Nobody}, others : Seq(Player)]
Plays(c, ns) ==
  /\ In(c.others) \cup ({c.proxy, c.connecting} \ {Nobody}) = ns
  /\ NoRepeats(c.others)
  /\ c.proxy \notin In(c.others) /\ c.connecting \notin In(c.others)
  /\ c.proxy = Nobody \/ c.connecting = Nobody
  /\ c.others # <<>> => c.proxy # Nobody \/ c.connecting # Nobody

MprisTypes ==
  /\ live \subseteq Player /\ names \subseteq Player
  /\ inbox \in Seq(Report \cup List) /\ sent \in Seq(Question)
  /\ Mpris!Now \in Control
  /\ matching \in BOOLEAN /\ watching \in BOOLEAN

\* The list is asked for after the match.
InTurn ==
  ~matching => \/ sent = <<>> /\ ~watching
               \/ sent = <<[is |-> "match"], [is |-> "list"]>> /\ watching

MprisInv ==
  /\ MprisTypes /\ InTurn
  /\ ~matching => inbox = <<>> /\ names = {}
  /\ \A p \in Player : NameInv(p)
  /\ ~slipped => Plays(Mpris!Now, names)

LEMMA Starts ==
  /\ In(<<[is |-> "match"], [is |-> "list"]>>) = {[is |-> "match"], [is |-> "list"]}
  /\ <<[is |-> "match"], [is |-> "list"]>> \in Seq(Question)
<1> DEFINE a == [is |-> "match"]
           b == [is |-> "list"]
<1>1. a \in Question /\ b \in Question BY DEF Question
<1> HIDE DEF a, b
<1>2. <<a, b>> \in Seq(Question) BY <1>1
<1>3. In(<<a, b>>) = {a, b}
  <2>1. Len(<<a, b>>) = 2 /\ <<a, b>>[1] = a /\ <<a, b>>[2] = b OBVIOUS
  <2>2. \A x \in In(<<a, b>>) : x \in {a, b}
    <3>1. \A i \in 1 .. 2 : i = 1 \/ i = 2 OBVIOUS
    <3> QED BY <2>1, <3>1 DEF In
  <2>3. \A x \in {a, b} : x \in In(<<a, b>>)
    <3>1. 1 \in 1 .. 2 /\ 2 \in 1 .. 2 OBVIOUS
    <3> QED BY <2>1, <3>1 DEF In
  <2> QED BY <2>2, <2>3
<1> QED BY <1>2, <1>3 DEF a, b

LEMMA FromTail ==
  ASSUME NEW S, NEW q \in Seq(S), q # <<>>
  PROVE  /\ Tail(q) \in Seq(S) /\ Head(q) \in S /\ In(q) = {Head(q)} \cup In(Tail(q))
         /\ Len(q) \in Nat /\ Len(q) >= 1 /\ Len(Tail(q)) = Len(q) - 1 /\ Head(q) = q[1]
         /\ \A i \in 1 .. Len(q) - 1 : Tail(q)[i] = q[i + 1]
<1> DEFINE t == Tail(q)
<1>1. /\ t \in Seq(S) /\ Len(q) \in Nat /\ Len(t) = Len(q) - 1 /\ Len(q) >= 1
      /\ \A i \in 1 .. Len(q) - 1 : t[i] = q[i + 1]
      /\ Head(q) = q[1] /\ Head(q) \in S
  OBVIOUS
<1> HIDE DEF t
<1>2. ASSUME NEW i \in 1 .. Len(t) PROVE t[i] \in In(q)
  <2>1. i + 1 \in 1 .. Len(q) /\ t[i] = q[i + 1] BY <1>1
  <2> QED BY <2>1 DEF In
<1>3. ASSUME NEW i \in 1 .. Len(q) PROVE q[i] \in {Head(q)} \cup In(t)
  <2>1. CASE i = 1 BY <1>1, <2>1
  <2>2. CASE i # 1
    <3>1. i - 1 \in 1 .. Len(t) /\ t[i - 1] = q[i] BY <1>1, <2>2
    <3> QED BY <3>1 DEF In
  <2> QED BY <2>1, <2>2
<1>4. Head(q) \in In(q)
  <2>1. 1 \in 1 .. Len(q) BY <1>1
  <2> QED BY <1>1, <2>1 DEF In
<1>5. \A x \in In(q) : x \in {Head(q)} \cup In(t) BY <1>3 DEF In
<1>6. \A x \in {Head(q)} \cup In(t) : x \in In(q) BY <1>2, <1>4 DEF In
<1> QED BY <1>1, <1>5, <1>6 DEF t

LEMMA SaidLast ==
  ASSUME NEW S, NEW q \in Seq(S), NEW m \in S, NEW p, NEW on,
         Says(m, p) => (m.new <=> p \in on),
         ~Says(m, p) => Right(q, p, on) \/ Silent(q, p)
  PROVE  IF Says(m, p) THEN Right(Append(q, m), p, on)
         ELSE /\ Right(q, p, on) => Right(Append(q, m), p, on)
              /\ Silent(q, p) => Silent(Append(q, m), p)
<1> DEFINE r == Append(q, m)
<1>1. /\ Len(r) = Len(q) + 1 /\ Len(q) \in Nat /\ r[Len(q) + 1] = m
      /\ \A i \in 1 .. Len(q) : r[i] = q[i]
  OBVIOUS
<1> HIDE DEF r
<1>2. CASE Says(m, p)
  <2>1. Len(q) + 1 \in 1 .. Len(r) /\ \A j \in 1 .. Len(r) : ~(j > Len(q) + 1) BY <1>1
  <2>2. Right(r, p, on) BY <1>1, <1>2, <2>1 DEF Right
  <2> QED BY <1>2, <2>2 DEF r
<1>3. CASE ~Says(m, p)
  <2>1. ASSUME Right(q, p, on) PROVE Right(r, p, on)
    <3>1. PICK i \in 1 .. Len(q) : /\ Says(q[i], p) /\ (q[i].new <=> p \in on)
                                   /\ \A j \in 1 .. Len(q) : j > i => ~Says(q[j], p)
      BY <2>1 DEF Right
    <3>2. i \in 1 .. Len(r) /\ r[i] = q[i] BY <1>1
    <3>3. ASSUME NEW j \in 1 .. Len(r), j > i PROVE ~Says(r[j], p)
      <4>1. CASE j \in 1 .. Len(q) BY <1>1, <3>1, <3>3, <4>1
      <4>2. CASE j = Len(q) + 1 BY <1>1, <1>3, <4>2
      <4> QED BY <1>1, <4>1, <4>2
    <3> QED BY <3>1, <3>2, <3>3 DEF Right
  <2>2. ASSUME Silent(q, p) PROVE Silent(r, p)
    <3> SUFFICES ASSUME NEW j \in 1 .. Len(r) PROVE ~Says(r[j], p) BY DEF Silent
    <3>1. CASE j \in 1 .. Len(q) BY <1>1, <2>2, <3>1 DEF Silent
    <3>2. CASE j = Len(q) + 1 BY <1>1, <1>3, <3>2
    <3> QED BY <1>1, <3>1, <3>2
  <2> QED BY <1>3, <2>1, <2>2 DEF r
<1> QED BY <1>2, <1>3

LEMMA SaidFirst ==
  ASSUME NEW S, NEW q \in Seq(S), q # <<>>, NEW p, NEW on
  PROVE  /\ Right(q, p, on) => \/ Right(Tail(q), p, on)
                               \/ Says(Head(q), p) /\ (Head(q).new <=> p \in on) /\ Silent(Tail(q), p)
         /\ Silent(q, p) => Silent(Tail(q), p) /\ ~Says(Head(q), p)
<1> DEFINE t == Tail(q)
<1>1. /\ Len(q) \in Nat /\ Len(q) >= 1 /\ Len(t) = Len(q) - 1 /\ Head(q) = q[1]
      /\ \A i \in 1 .. Len(q) - 1 : t[i] = q[i + 1]
  BY FromTail
<1> HIDE DEF t
<1>2. ASSUME Right(q, p, on)
      PROVE  Right(t, p, on) \/ (Says(Head(q), p) /\ (Head(q).new <=> p \in on) /\ Silent(t, p))
  <2>1. PICK i \in 1 .. Len(q) : /\ Says(q[i], p) /\ (q[i].new <=> p \in on)
                                 /\ \A j \in 1 .. Len(q) : j > i => ~Says(q[j], p)
    BY <1>2 DEF Right
  <2>2. ASSUME NEW j \in 1 .. Len(t), j + 1 > i PROVE ~Says(t[j], p)
    <3>1. j + 1 \in 1 .. Len(q) /\ t[j] = q[j + 1] BY <1>1
    <3> QED BY <2>1, <2>2, <3>1
  <2>3. CASE i = 1
    <3>1. \A j \in 1 .. Len(t) : j + 1 > i BY <2>3
    <3>2. Silent(t, p) BY <2>2, <3>1 DEF Silent
    <3> QED BY <1>1, <2>1, <2>3, <3>2
  <2>4. CASE i # 1
    <3>1. i - 1 \in 1 .. Len(t) /\ t[i - 1] = q[i] BY <1>1, <2>4
    <3>2. \A j \in 1 .. Len(t) : j > i - 1 => j + 1 > i BY <1>1
    <3>3. \A j \in 1 .. Len(t) : j > i - 1 => ~Says(t[j], p) BY <2>2, <3>2
    <3> QED BY <2>1, <3>1, <3>3 DEF Right
  <2> QED BY <2>3, <2>4
<1>3. ASSUME Silent(q, p) PROVE Silent(t, p) /\ ~Says(Head(q), p)
  <2>1. ASSUME NEW j \in 1 .. Len(t) PROVE ~Says(t[j], p)
    <3>1. j + 1 \in 1 .. Len(q) /\ t[j] = q[j + 1] BY <1>1
    <3> QED BY <1>3, <3>1 DEF Silent
  <2>2. 1 \in 1 .. Len(q) BY <1>1
  <2> QED BY <1>1, <1>3, <2>1, <2>2 DEF Silent
<1> QED BY <1>2, <1>3 DEF t

LEMMA Messages ==
  /\ \A m \in Report : /\ m.is \in {"changed", "owner"} /\ m.name \in Player
                       /\ m.old \in BOOLEAN /\ m.new \in BOOLEAN
                       /\ m.is = "owner" => m.old = FALSE
  /\ \A m \in List : m.is = "listed" /\ m.names \in SUBSET Player
  /\ \A m \in Report \cup List : m.is # "listed" => m \in Report
  /\ \A m \in Report \cup List : m.is = "listed" => m \in List
<1>1. \A m \in Report : /\ m.is \in {"changed", "owner"} /\ m.name \in Player
                        /\ m.old \in BOOLEAN /\ m.new \in BOOLEAN
                        /\ m.is = "owner" => m.old = FALSE
  BY DEF Report
<1>2. \A m \in List : m.is = "listed" /\ m.names \in SUBSET Player BY DEF List
<1> QED BY <1>1, <1>2

\* A report reaches the watcher's queue if the bus matches.
LEMMA NewsStep ==
  ASSUME MprisInv, NEW m \in Report, NEW on \in SUBSET Player, live' = on,
         \A p \in Player : p # m.name => (p \in on <=> p \in live),
         m.old \/ m.new, m.new <=> m.name \in on,
         inbox' = IF matching THEN Append(inbox, m) ELSE inbox,
         sent' = sent, matching' = matching, watching' = watching, names' = names,
         mpris_client_proxy' = mpris_client_proxy, trying' = trying,
         other_players' = other_players, slipped' = slipped
  PROVE  MprisInv'
<1>1. inbox \in Seq(Report \cup List) /\ m \in Report \cup List BY DEF MprisInv, MprisTypes
<1>2. /\ \A q \in Seq(Report \cup List), e \in Report \cup List :
           Append(q, e) \in Seq(Report \cup List) /\ In(Append(q, e)) = In(q) \cup {e}
  BY Appended
<1>3. Append(inbox, m) \in Seq(Report \cup List) /\ In(Append(inbox, m)) = In(inbox) \cup {m}
  BY <1>1, <1>2
<1>4. MprisTypes' BY <1>3 DEF MprisInv, MprisTypes, Mpris!Now, Control
<1>5. ASSUME NEW p \in Player PROVE NameInv(p)'
  <2>0. NameInv(p) BY DEF MprisInv
  <2>1. CASE ~matching
    <3>1. inbox' = <<>> /\ names' = {} BY <2>1 DEF MprisInv
    <3>2. Silent(inbox', p) BY <3>1 DEF Silent
    <3>3. WillAsk(p)'
      <4>1. ~watching \/ sent = <<[is |-> "match"], [is |-> "list"]>> BY <2>1 DEF MprisInv, InTurn
      <4>2. CASE ~watching BY <4>2 DEF WillAsk
      <4>3. CASE sent = <<[is |-> "match"], [is |-> "list"]>>
        <5>1. [is |-> "list"] \in In(sent') BY <4>3, Starts
        <5> QED BY <5>1 DEF WillAsk
      <4> QED BY <4>1, <4>2, <4>3
    <3> QED BY <3>1, <3>2, <3>3 DEF NameInv
  <2>2. CASE matching
    <3>1. inbox' = Append(inbox, m) BY <2>2
    <3>2. CASE p = m.name
      <4>1. Says(m, p) BY <3>2, Messages DEF Says
      <4>2. Right(Append(inbox, m), p, on) BY <1>1, <3>2, <4>1, SaidLast
      <4> QED BY <3>1, <4>2 DEF NameInv
    <3>3. CASE p # m.name
      <4>1. ~Says(m, p) BY <3>3 DEF Says
      <4>2. p \in on <=> p \in live BY <3>3
      <4>3. Right(inbox, p, live) => Right(inbox, p, on) BY <4>2 DEF Right
      <4>4. Right(inbox, p, on) \/ Silent(inbox, p) BY <2>0, <4>3 DEF NameInv
      <4>5. /\ Right(inbox, p, on) => Right(Append(inbox, m), p, on)
            /\ Silent(inbox, p) => Silent(Append(inbox, m), p)
        BY <1>1, <4>1, <4>4, SaidLast
      <4>6. WillAsk(p) => WillAsk(p)' BY <1>3, <3>1 DEF WillAsk
      <4> QED BY <2>0, <3>1, <4>2, <4>3, <4>5, <4>6 DEF NameInv
    <3> QED BY <3>2, <3>3
  <2> QED BY <2>1, <2>2
<1> QED BY <1>4, <1>5 DEF MprisInv, InTurn, Plays, Mpris!Now

LEMMA AppearsStep ==
  ASSUME MprisInv, NEW p \in Player, Mpris!PlayerAppears(p) PROVE MprisInv'
<1>1. PICK m \in Report : m = [is |-> "changed", name |-> p, old |-> FALSE, new |-> TRUE]
  BY DEF Report
<1>2. m.name = p /\ m.new = TRUE BY <1>1
<1>3. live \cup {p} \in SUBSET Player BY DEF MprisInv, MprisTypes
<1>4. /\ live' = live \cup {p} /\ inbox' = IF matching THEN Append(inbox, m) ELSE inbox
      /\ sent' = sent /\ matching' = matching /\ watching' = watching /\ names' = names
      /\ mpris_client_proxy' = mpris_client_proxy /\ trying' = trying
      /\ other_players' = other_players /\ slipped' = slipped
  BY <1>1 DEF Mpris!PlayerAppears, Mpris!News, Mpris!Changed, Mpris!controller
<1> QED BY <1>2, <1>3, <1>4, NewsStep

LEMMA LeavesStep ==
  ASSUME MprisInv, NEW p \in Player, Mpris!PlayerVanishes(p) PROVE MprisInv'
<1>1. PICK m \in Report : m = [is |-> "changed", name |-> p, old |-> TRUE, new |-> FALSE]
  BY DEF Report
<1>2. m.name = p /\ m.old = TRUE /\ m.new = FALSE BY <1>1
<1>3. live \ {p} \in SUBSET Player BY DEF MprisInv, MprisTypes
<1>4. /\ live' = live \ {p} /\ inbox' = IF matching THEN Append(inbox, m) ELSE inbox
      /\ sent' = sent /\ matching' = matching /\ watching' = watching /\ names' = names
      /\ mpris_client_proxy' = mpris_client_proxy /\ trying' = trying
      /\ other_players' = other_players /\ slipped' = slipped
  BY <1>1 DEF Mpris!PlayerVanishes, Mpris!News, Mpris!Changed, Mpris!controller
<1> QED BY <1>2, <1>3, <1>4, NewsStep

LEMMA HandsOverStep ==
  ASSUME MprisInv, NEW p \in Player, Mpris!PlayerHandsOver(p) PROVE MprisInv'
<1>1. PICK m \in Report : m = [is |-> "changed", name |-> p, old |-> TRUE, new |-> TRUE]
  BY DEF Report
<1>2. m.name = p /\ m.old = TRUE /\ m.new = TRUE BY <1>1
<1>3. live \in SUBSET Player /\ p \in live BY DEF MprisInv, MprisTypes, Mpris!PlayerHandsOver
<1>4. /\ live' = live /\ inbox' = IF matching THEN Append(inbox, m) ELSE inbox
      /\ sent' = sent /\ matching' = matching /\ watching' = watching /\ names' = names
      /\ mpris_client_proxy' = mpris_client_proxy /\ trying' = trying
      /\ other_players' = other_players /\ slipped' = slipped
  BY <1>1 DEF Mpris!PlayerHandsOver, Mpris!News, Mpris!Changed, Mpris!controller
<1> QED BY <1>2, <1>3, <1>4, NewsStep

LEMMA GotBusStep ==
  ASSUME MprisInv, Mpris!GotBus PROVE MprisInv'
<1>1. /\ ~watching /\ watching' = TRUE /\ live' = live /\ inbox' = inbox /\ matching' = matching
      /\ sent' = <<[is |-> "match"], [is |-> "list"]>>
      /\ names' = names /\ mpris_client_proxy' = mpris_client_proxy /\ trying' = trying
      /\ other_players' = other_players /\ slipped' = slipped
  BY DEF Mpris!GotBus, Mpris!controller
<1>2. sent' \in Seq(Question) /\ [is |-> "list"] \in In(sent') BY <1>1, Starts
<1>3. \A p \in Player : NameInv(p)'
  <2> SUFFICES ASSUME NEW p \in Player PROVE NameInv(p)' OBVIOUS
  <2>1. WillAsk(p)' BY <1>2 DEF WillAsk
  <2>2. NameInv(p) BY DEF MprisInv
  <2> QED BY <1>1, <2>1, <2>2 DEF NameInv
<1>4. MprisTypes' BY <1>1, <1>2 DEF MprisInv, MprisTypes, Mpris!Now, Control
<1>5. InTurn' BY <1>1 DEF InTurn
<1> QED BY <1>1, <1>3, <1>4, <1>5 DEF MprisInv, Plays, Mpris!Now

LEMMA Questions ==
  \A c \in Question : /\ c.is \in {"match", "list", "owner"}
                      /\ c.is = "owner" => c.name \in Player
BY DEF Question

\* The bus answers with what there is: m is the answer, if there is one.
LEMMA AnswerStep ==
  ASSUME MprisInv, NEW c \in Question, sent # <<>>, c = Head(sent), sent' = Tail(sent),
         NEW m \in Report \cup List,
         c.is = "match" => matching' = TRUE /\ inbox' = inbox,
         c.is # "match" => matching' = matching /\ inbox' = Append(inbox, m),
         c.is = "list" => m.is = "listed" /\ m.names = live,
         c.is = "owner" => /\ m.is = "owner" /\ m.name = c.name /\ m.old = FALSE
                           /\ (m.new <=> c.name \in live),
         live' = live, watching' = watching, names' = names,
         mpris_client_proxy' = mpris_client_proxy, trying' = trying,
         other_players' = other_players, slipped' = slipped
  PROVE  MprisInv'
<1>1. inbox \in Seq(Report \cup List) /\ sent \in Seq(Question) BY DEF MprisInv, MprisTypes
<1>2. Tail(sent) \in Seq(Question) /\ In(sent) = {c} \cup In(Tail(sent)) BY <1>1, FromTail
<1>3. Append(inbox, m) \in Seq(Report \cup List) /\ In(Append(inbox, m)) = In(inbox) \cup {m}
  <2>1. \A q \in Seq(Report \cup List), e \in Report \cup List :
           Append(q, e) \in Seq(Report \cup List) /\ In(Append(q, e)) = In(q) \cup {e}
    BY Appended
  <2> QED BY <1>1, <2>1
<1>4. MprisTypes' BY <1>1, <1>2, <1>3 DEF MprisInv, MprisTypes, Mpris!Now, Control
<1>5. ~matching => c.is = "match"
  <2> SUFFICES ASSUME ~matching PROVE c.is = "match" OBVIOUS
  <2>1. sent = <<[is |-> "match"], [is |-> "list"]>> BY DEF MprisInv, InTurn
  <2>2. Head(sent) = [is |-> "match"] BY <2>1
  <2>3. [is |-> "match"].is = "match" OBVIOUS
  <2> QED BY <2>2, <2>3
<1>6. matching' = TRUE BY <1>5 DEF MprisInv, MprisTypes
<1>7. ASSUME NEW p \in Player PROVE NameInv(p)'
  <2>0. NameInv(p) BY DEF MprisInv
  <2>1. CASE c.is = "match"
    <3>1. WillAsk(p) => WillAsk(p)' BY <1>2, <2>1 DEF WillAsk
    <3> QED BY <2>0, <2>1, <3>1 DEF NameInv
  <2>2. CASE c.is = "list"
    <3>1. ~Says(m, p) /\ inbox' = Append(inbox, m) BY <2>2 DEF Says
    <3>2. Right(inbox, p, live) \/ Silent(inbox, p) BY <2>0 DEF NameInv
    <3>3. /\ Right(inbox, p, live) => Right(Append(inbox, m), p, live)
          /\ Silent(inbox, p) => Silent(Append(inbox, m), p)
      BY <1>1, <3>1, <3>2, SaidLast
    <3>4. p \in live => WillAsk(p)' BY <1>3, <2>2, <3>1 DEF WillAsk
    <3> QED BY <2>0, <3>1, <3>3, <3>4 DEF NameInv
  <2>3. CASE c.is = "owner"
    <3>0. inbox' = Append(inbox, m) BY <2>3
    <3>1. CASE p = c.name /\ p \in live
      <4>1. Says(m, p) /\ m.new BY <2>3, <3>1 DEF Says
      <4>2. Right(Append(inbox, m), p, live) BY <1>1, <3>1, <4>1, SaidLast
      <4> QED BY <3>0, <4>2 DEF NameInv
    <3>2. CASE ~(p = c.name /\ p \in live)
      <4>1. ~Says(m, p)
        <5>1. p # c.name => ~Says(m, p) BY <2>3 DEF Says
        <5>2. p = c.name => m.old = FALSE /\ ~m.new BY <2>3, <3>2
        <5> QED BY <5>1, <5>2 DEF Says
      <4>2. Right(inbox, p, live) \/ Silent(inbox, p) BY <2>0 DEF NameInv
      <4>3. /\ Right(inbox, p, live) => Right(Append(inbox, m), p, live)
            /\ Silent(inbox, p) => Silent(Append(inbox, m), p)
        BY <1>1, <4>1, <4>2, SaidLast
      <4>4. p \in live /\ WillAsk(p) => WillAsk(p)'
        <5> SUFFICES ASSUME p \in live, WillAsk(p) PROVE WillAsk(p)' OBVIOUS
        <5>1. p # c.name /\ c.is # "list" BY <2>3, <3>2
        <5>2. \A d \in In(sent) : d.is = "list" \/ (d.is = "owner" /\ d.name = p) => d \in In(sent')
          BY <1>2, <5>1
        <5> QED BY <1>3, <3>0, <5>2 DEF WillAsk
      <4> QED BY <2>0, <3>0, <4>3, <4>4 DEF NameInv
    <3> QED BY <3>1, <3>2
  <2> QED BY <2>1, <2>2, <2>3, Questions
<1> QED BY <1>4, <1>6, <1>7 DEF MprisInv, InTurn, Plays, Mpris!Now

LEMMA BusServesStep ==
  ASSUME MprisInv, Mpris!BusServes PROVE MprisInv'
<1>1. /\ sent # <<>> /\ sent' = Tail(sent) /\ live' = live /\ watching' = watching /\ names' = names
      /\ mpris_client_proxy' = mpris_client_proxy /\ trying' = trying
      /\ other_players' = other_players /\ slipped' = slipped
  BY DEF Mpris!BusServes, Mpris!controller
<1>2. sent \in Seq(Question) BY DEF MprisInv, MprisTypes
<1>3. Head(sent) \in Question BY <1>1, <1>2, FromTail
<1>4. PICK c \in Question : c = Head(sent) BY <1>3
<1>5. CASE c.is = "match"
  <2>1. matching' = TRUE /\ inbox' = inbox BY <1>4, <1>5 DEF Mpris!BusServes
  <2>2. [is |-> "listed", names |-> {}] \in Report \cup List BY DEF List
  <2> QED BY <1>1, <1>4, <1>5, <2>1, <2>2, AnswerStep
<1>6. CASE c.is = "list"
  <2>0. live \in SUBSET Player BY DEF MprisInv, MprisTypes
  <2>1. PICK m \in Report \cup List : m = [is |-> "listed", names |-> live] BY <2>0 DEF List
  <2>2. matching' = matching /\ inbox' = Append(inbox, m)
    BY <1>4, <1>6, <2>1 DEF Mpris!BusServes, Mpris!Listed
  <2>3. m.is = "listed" /\ m.names = live BY <2>1
  <2> QED BY <1>1, <1>4, <1>6, <2>2, <2>3, AnswerStep
<1>7. CASE c.is = "owner"
  <2>0. c.name \in Player BY <1>7, Questions
  <2>1. PICK on \in BOOLEAN : on = (c.name \in live)
    <3>1. CASE c.name \in live
      <4>1. TRUE = (c.name \in live) BY <3>1, Zenon
      <4> QED BY <4>1, Zenon
    <3>2. CASE c.name \notin live
      <4>1. (c.name \in live) = FALSE BY <3>2, SMT
      <4> QED BY <4>1, Zenon
    <3> QED BY <3>1, <3>2, Zenon
  <2>2. PICK m \in Report \cup List : m = [is |-> "owner", name |-> c.name, old |-> FALSE, new |-> on]
    BY <2>0 DEF Report
  <2>3. matching' = matching /\ inbox' = Append(inbox, m)
    <3>1. matching' = matching /\ inbox' = Append(inbox, Mpris!Owner(c.name, c.name \in live))
      BY <1>4, <1>7 DEF Mpris!BusServes
    <3> QED BY <2>1, <2>2, <3>1 DEF Mpris!Owner
  <2>4. m.is = "owner" /\ m.name = c.name /\ m.old = FALSE /\ (m.new <=> c.name \in live) BY <2>1, <2>2
  <2> QED BY <1>1, <1>4, <1>7, <2>3, <2>4, AnswerStep
<1> QED BY <1>5, <1>6, <1>7, Questions

LEMMA Enumerated ==
  ASSUME NEW S, IsFiniteSet(S)
  PROVE  Mpris!SetToSeq(S) \in Seq(S) /\ In(Mpris!SetToSeq(S)) = S
<1> DEFINE n == Cardinality(S)
           f == Mpris!SetToSeq(S)
<1>1. Mpris!Cardinality(S) = n BY DEF Mpris!Cardinality, Cardinality
<1>2. n \in Nat /\ ExistsBijection(1 .. n, S) BY FS_CardinalityType
<1>3. PICK g \in [1 .. n -> S] : Mpris!IsInjective(g)
  <2>1. PICK g : g \in Bijection(1 .. n, S) BY <1>2 DEF ExistsBijection
  <2>2. g \in [1 .. n -> S] /\ \A a, b \in 1 .. n : g[a] = g[b] => a = b
    BY <2>1 DEF Bijection, Injection, IsInjective
  <2> QED BY <2>2 DEF Mpris!IsInjective
<1>4. f \in [1 .. n -> S] /\ Mpris!IsInjective(f) BY <1>1, <1>3 DEF Mpris!SetToSeq
<1> HIDE DEF f
<1>5. \A i, j \in 1 .. n : f[i] = f[j] => i = j BY <1>4 DEF Mpris!IsInjective
<1>6. f \in Seq(S) /\ In(f) = S BY <1>4, <1>5, AllThere
<1> QED BY <1>6 DEF f

LEMMA InJoined ==
  ASSUME NEW T, NEW a \in Seq(T), NEW b \in Seq(T)
  PROVE  a \o b \in Seq(T) /\ In(a \o b) = In(a) \cup In(b)
<1> DEFINE c == a \o b
<1>1. c \in Seq(T) /\ Len(c) = Len(a) + Len(b) /\ Len(a) \in Nat /\ Len(b) \in Nat
  OBVIOUS
<1>2. \A i \in 1 .. Len(a) : c[i] = a[i]
  OBVIOUS
<1>3. ASSUME NEW i \in 1 .. Len(b) PROVE c[Len(a) + i] = b[i]
  <2>1. Len(a) + i \in 1 .. Len(a) + Len(b) /\ ~(Len(a) + i <= Len(a)) /\ (Len(a) + i) - Len(a) = i
    BY <1>1
  <2> QED BY <2>1
<1> HIDE DEF c
<1>4. ASSUME NEW i \in 1 .. Len(c) PROVE c[i] \in In(a) \cup In(b)
  <2>1. CASE i \in 1 .. Len(a) BY <1>2, <2>1 DEF In
  <2>2. CASE i \notin 1 .. Len(a)
    <3>1. i - Len(a) \in 1 .. Len(b) /\ Len(a) + (i - Len(a)) = i BY <1>1, <2>2
    <3>2. c[i] = b[i - Len(a)] BY <1>3, <3>1
    <3> QED BY <3>1, <3>2 DEF In
  <2> QED BY <2>1, <2>2
<1>5. ASSUME NEW i \in 1 .. Len(a) PROVE a[i] \in In(c)
  <2>1. i \in 1 .. Len(c) BY <1>1
  <2> QED BY <1>2, <2>1 DEF In
<1>6. ASSUME NEW i \in 1 .. Len(b) PROVE b[i] \in In(c)
  <2>1. Len(a) + i \in 1 .. Len(c) BY <1>1
  <2> QED BY <1>3, <2>1 DEF In
<1>7. \A x \in In(c) : x \in In(a) \cup In(b) BY <1>4 DEF In
<1>8. \A x \in In(a) \cup In(b) : x \in In(c) BY <1>5, <1>6 DEF In
<1> QED BY <1>1, <1>7, <1>8 DEF c

LEMMA NamesListedStep ==
  ASSUME MprisInv, Mpris!NamesListed PROVE MprisInv'
<1> DEFINE m == Head(inbox)
           A == {[is |-> "owner", name |-> p] : p \in m.names}
           more == Mpris!SetToSeq(A)
<1>1. /\ inbox # <<>> /\ m.is = "listed" /\ inbox' = Tail(inbox) /\ sent' = sent \o more
      /\ live' = live /\ matching' = matching /\ watching' = watching /\ names' = names
      /\ mpris_client_proxy' = mpris_client_proxy /\ trying' = trying
      /\ other_players' = other_players /\ slipped' = slipped
  BY DEF Mpris!NamesListed, Mpris!controller
<1>2. inbox \in Seq(Report \cup List) /\ sent \in Seq(Question) BY DEF MprisInv, MprisTypes
<1>3. /\ Tail(inbox) \in Seq(Report \cup List) /\ m \in Report \cup List
      /\ In(inbox) = {m} \cup In(Tail(inbox))
  BY <1>1, <1>2, FromTail
<1>4. m \in List /\ m.names \in SUBSET Player
  <2>1. m \in List BY <1>1, <1>3, Messages
  <2> QED BY <2>1, Messages
<1>5. IsFiniteSet(A)
  <2>1. IsFiniteSet(m.names) BY <1>4, PlayerAssumption, FS_Subset
  <2> DEFINE f == [p \in m.names |-> [is |-> "owner", name |-> p]]
  <2>2. f \in Surjection(m.names, A) BY DEF Surjection
  <2> QED BY <2>1, <2>2, FS_Surjection
<1>6. \A x \in A : x \in Question BY <1>4 DEF Question
<1>7. \A p \in m.names : \E x \in A : x.is = "owner" /\ x.name = p
  <2> TAKE p \in m.names
  <2> WITNESS [is |-> "owner", name |-> p] \in A
  <2> QED OBVIOUS
<1> HIDE DEF A, m
<1>8. more \in Seq(A) /\ In(more) = A BY <1>5, Enumerated
<1> HIDE DEF more
<1>9. more \in Seq(Question)
  <2>1. A \subseteq Question BY <1>6
  <2> QED BY <1>8, <2>1
<1>10. sent \o more \in Seq(Question) /\ In(sent \o more) = In(sent) \cup A
  BY <1>2, <1>8, <1>9, InJoined
<1>11. MprisTypes' BY <1>1, <1>3, <1>10 DEF MprisInv, MprisTypes, Mpris!Now, Control
<1>12. matching BY <1>1 DEF MprisInv
<1>13. ASSUME NEW p \in Player PROVE NameInv(p)'
  <2>0. NameInv(p) BY DEF MprisInv
  <2>1. ~Says(m, p) BY <1>1 DEF Says
  <2>2. /\ Right(inbox, p, live) => Right(Tail(inbox), p, live)
        /\ Silent(inbox, p) => Silent(Tail(inbox), p)
    BY <1>1, <1>2, <2>1, SaidFirst DEF m
  <2>3. WillAsk(p) => WillAsk(p)'
    <3> SUFFICES ASSUME WillAsk(p) PROVE WillAsk(p)' OBVIOUS
    <3>1. CASE ~watching BY <1>1, <3>1 DEF WillAsk
    <3>2. CASE \E d \in In(sent) : d.is = "list" \/ (d.is = "owner" /\ d.name = p)
      BY <1>1, <1>10, <3>2 DEF WillAsk
    <3>3. CASE \E d \in In(inbox) : d.is = "listed" /\ p \in d.names
      <4>1. PICK d \in In(inbox) : d.is = "listed" /\ p \in d.names BY <3>3
      <4>2. CASE d = m BY <1>1, <1>7, <1>10, <4>1, <4>2 DEF WillAsk
      <4>3. CASE d \in In(Tail(inbox)) BY <1>1, <4>1, <4>3 DEF WillAsk
      <4> QED BY <1>3, <4>2, <4>3
    <3> QED BY <3>1, <3>2, <3>3 DEF WillAsk
  <2> QED BY <1>1, <2>0, <2>2, <2>3 DEF NameInv
<1> QED BY <1>1, <1>11, <1>12, <1>13 DEF MprisInv, InTurn, Plays, Mpris!Now

LEMMA ProxyReadyStep ==
  ASSUME MprisInv, NEW ok \in BOOLEAN, Mpris!MprisProxyReady(ok) PROVE MprisInv'
<1>1. /\ trying # Nobody /\ trying' = Nobody
      /\ mpris_client_proxy' = IF ok THEN trying ELSE Nobody
      /\ slipped' = (slipped \/ ~ok)
      /\ live' = live /\ sent' = sent /\ inbox' = inbox /\ matching' = matching
      /\ watching' = watching /\ names' = names /\ other_players' = other_players
  BY DEF Mpris!MprisProxyReady, Mpris!bus
<1>2. \A p \in Player : NameInv(p)' BY <1>1 DEF MprisInv, NameInv, Right, Silent, WillAsk
<1>3. MprisTypes' BY <1>1 DEF MprisInv, MprisTypes, Mpris!Now, Control
<1>4. ASSUME ~slipped' PROVE Plays(Mpris!Now', names')
  <2>0. ok /\ ~slipped BY <1>1, <1>4
  <2>1. mpris_client_proxy' = trying BY <1>1, <2>0
  <2>2. other_players \in Seq(Player) BY DEF MprisInv, MprisTypes, Mpris!Now, Control
  <2>3. Nobody \notin In(other_players)
    <3>1. \A i \in 1 .. Len(other_players) : other_players[i] \in Player BY <2>2
    <3> QED BY <3>1, PlayerAssumption DEF In
  <2> QED BY <1>1, <2>0, <2>1, <2>3 DEF MprisInv, Plays, Mpris!Now
<1> QED BY <1>1, <1>2, <1>3, <1>4 DEF MprisInv, InTurn

LEMMA Prepended ==
  ASSUME NEW S, NEW q \in Seq(S), NEW p \in S
  PROVE  /\ <<p>> \o q \in Seq(S) /\ In(<<p>> \o q) = {p} \cup In(q)
         /\ <<p>> \o q # <<>>
         /\ NoRepeats(q) /\ p \notin In(q) => NoRepeats(<<p>> \o q)
<1> DEFINE r == <<p>> \o q
<1>1. r \in Seq(S) /\ Len(r) = Len(q) + 1 /\ r[1] = p /\ Len(q) \in Nat OBVIOUS
<1>2. \A i \in 2 .. Len(r) : r[i] = q[i - 1] OBVIOUS
<1>3. r # <<>> BY <1>1
<1> HIDE DEF r
<1>4. \A i \in 1 .. Len(r) : i = 1 \/ (i \in 2 .. Len(r) /\ i - 1 \in 1 .. Len(q)) BY <1>1
<1>5. ASSUME NEW i \in 1 .. Len(r) PROVE r[i] \in {p} \cup In(q)
  BY <1>1, <1>2, <1>4 DEF In
<1>6. p \in In(r)
  <2>1. 1 \in 1 .. Len(r) BY <1>1
  <2> QED BY <1>1, <2>1 DEF In
<1>7. ASSUME NEW i \in 1 .. Len(q) PROVE q[i] \in In(r)
  <2>1. i + 1 \in 2 .. Len(r) /\ i + 1 \in 1 .. Len(r) /\ (i + 1) - 1 = i BY <1>1
  <2>2. r[i + 1] = q[i] BY <1>2, <2>1
  <2> QED BY <2>1, <2>2 DEF In
<1>8. In(r) = {p} \cup In(q)
  <2>1. \A x \in In(r) : x \in {p} \cup In(q) BY <1>5 DEF In
  <2>2. \A x \in {p} \cup In(q) : x \in In(r) BY <1>6, <1>7 DEF In
  <2> QED BY <2>1, <2>2
<1>9. ASSUME NoRepeats(q), p \notin In(q) PROVE NoRepeats(r)
  <2> SUFFICES ASSUME NEW i \in 1 .. Len(r), NEW j \in 1 .. Len(r), r[i] = r[j] PROVE i = j
    BY DEF NoRepeats
  <2>1. \A k \in 2 .. Len(r) : r[k] # p BY <1>2, <1>4, <1>9 DEF In
  <2>2. CASE i = 1 \/ j = 1 BY <1>1, <1>4, <2>1, <2>2
  <2>3. CASE i # 1 /\ j # 1
    <3>1. i - 1 \in 1 .. Len(q) /\ j - 1 \in 1 .. Len(q) /\ q[i - 1] = q[j - 1] BY <1>2, <1>4, <2>3
    <3>2. i - 1 = j - 1 BY <1>9, <3>1 DEF NoRepeats
    <3> QED BY <1>1, <3>2
  <2> QED BY <2>2, <2>3
<1> QED BY <1>1, <1>3, <1>8, <1>9 DEF r

\* A player that the controller does not know appears.
LEMMA AppearedKeeps ==
  ASSUME NEW c \in Control, NEW p \in Player, NEW ns
  PROVE  /\ Mpris!Appeared(p, c) \in Control
         /\ Plays(c, ns) /\ p \notin ns => Plays(Mpris!Appeared(p, c), ns \cup {p})
<1> DEFINE d == Mpris!Appeared(p, c)
<1>0. /\ c.proxy \in Player \cup {Nobody} /\ c.connecting \in Player \cup {Nobody}
      /\ c.others \in Seq(Player) /\ p # Nobody
  BY PlayerAssumption DEF Control
<1>1. CASE c.proxy = Nobody /\ c.connecting = Nobody
  <2>1. d = [c EXCEPT !.connecting = p] BY <1>1 DEF Mpris!Appeared
  <2>2. d \in Control BY <2>1 DEF Control
  <2>3. d.proxy = c.proxy /\ d.connecting = p /\ d.others = c.others BY <2>1 DEF Control
  <2>4. ASSUME Plays(c, ns), p \notin ns PROVE Plays(d, ns \cup {p})
    <3>1. c.others = <<>> BY <1>1, <2>4 DEF Plays
    <3>2. In(c.others) = {} /\ ns = {} BY <1>1, <2>4, <3>1 DEF Plays, In
    <3> HIDE DEF d
    <3> QED BY <1>0, <1>1, <2>3, <2>4, <3>1, <3>2 DEF Plays
  <2> QED BY <2>2, <2>4
<1>2. CASE ~(c.proxy = Nobody /\ c.connecting = Nobody)
  <2>1. d = [c EXCEPT !.others = <<p>> \o @] BY <1>2 DEF Mpris!Appeared
  <2>2. /\ <<p>> \o c.others \in Seq(Player) /\ In(<<p>> \o c.others) = {p} \cup In(c.others)
        /\ NoRepeats(c.others) /\ p \notin In(c.others) => NoRepeats(<<p>> \o c.others)
    BY <1>0, Prepended
  <2>3. d \in Control BY <2>1, <2>2 DEF Control
  <2>4. d.proxy = c.proxy /\ d.connecting = c.connecting /\ d.others = <<p>> \o c.others BY <2>1 DEF Control
  <2>5. ASSUME Plays(c, ns), p \notin ns PROVE Plays(d, ns \cup {p})
    <3> HIDE DEF d
    <3>1. p \notin In(c.others) /\ p # c.proxy /\ p # c.connecting BY <1>0, <2>5 DEF Plays
    <3>2. In(d.others) = {p} \cup In(c.others) /\ NoRepeats(d.others) BY <2>2, <2>4, <2>5, <3>1 DEF Plays
    <3> QED BY <1>0, <1>2, <2>4, <2>5, <3>1, <3>2 DEF Plays
  <2> QED BY <2>3, <2>5
<1> QED BY <1>1, <1>2

\* The player of the proxy vanishes.
LEMMA VanishedKeeps ==
  ASSUME NEW c \in Control, NEW p \in Player, NEW ns
  PROVE  /\ Mpris!Vanished(p, c) \in Control
         /\ Plays(c, ns) /\ c.proxy = p => Plays(Mpris!Vanished(p, c), ns \ {p})
<1> DEFINE d == Mpris!Vanished(p, c)
<1>0. /\ c.proxy \in Player \cup {Nobody} /\ c.connecting \in Player \cup {Nobody}
      /\ c.others \in Seq(Player) /\ p # Nobody
  BY PlayerAssumption DEF Control
<1>1. CASE c.proxy # p
  <2>1. d = c BY <1>1 DEF Mpris!Vanished
  <2> QED BY <1>1, <2>1
<1>2. CASE c.proxy = p /\ c.others = <<>>
  <2>1. d = [c EXCEPT !.proxy = Nobody] BY <1>2 DEF Mpris!Vanished
  <2>2. d \in Control BY <2>1 DEF Control
  <2>3. d.proxy = Nobody /\ d.connecting = c.connecting /\ d.others = c.others BY <2>1 DEF Control
  <2>4. In(c.others) = {} BY <1>2 DEF In
  <2> HIDE DEF d
  <2>5. Plays(c, ns) => Plays(d, ns \ {p})
    <3> SUFFICES ASSUME Plays(c, ns) PROVE Plays(d, ns \ {p}) OBVIOUS
    <3>1. c.connecting = Nobody BY <1>0, <1>2 DEF Plays
    <3>2. ns = {p} BY <1>0, <1>2, <2>4, <3>1 DEF Plays
    <3> QED BY <1>0, <1>2, <2>3, <2>4, <3>1, <3>2 DEF Plays
  <2> QED BY <1>2, <2>2, <2>5 DEF d
<1>3. CASE c.proxy = p /\ c.others # <<>>
  <2> DEFINE h == Head(c.others)
             t == Tail(c.others)
  <2>1. d = [proxy |-> Nobody, connecting |-> h, others |-> t] BY <1>3 DEF Mpris!Vanished
  <2>2. /\ t \in Seq(Player) /\ h \in Player /\ In(c.others) = {h} \cup In(t)
        /\ Len(c.others) \in Nat /\ Len(c.others) >= 1 /\ Len(t) = Len(c.others) - 1 /\ h = c.others[1]
        /\ \A i \in 1 .. Len(c.others) - 1 : t[i] = c.others[i + 1]
    BY <1>0, <1>3, FromTail
  <2> HIDE DEF h, t
  <2>3. d \in Control BY <2>1, <2>2 DEF Control
  <2>4. d.proxy = Nobody /\ d.connecting = h /\ d.others = t BY <2>1
  <2> HIDE DEF d
  <2>5. Plays(c, ns) => Plays(d, ns \ {p})
    <3> SUFFICES ASSUME Plays(c, ns) PROVE Plays(d, ns \ {p}) OBVIOUS
    <3>1. c.connecting = Nobody /\ p \notin In(c.others) BY <1>0, <1>3 DEF Plays
    <3>2. NoRepeats(t) /\ h \notin In(t)
      <4>1. \A i \in 1 .. Len(t) : i + 1 \in 1 .. Len(c.others) /\ i + 1 # 1 /\ 1 \in 1 .. Len(c.others) BY <2>2
      <4>2. \A i \in 1 .. Len(t) : t[i] # h BY <2>2, <4>1 DEF Plays, NoRepeats
      <4>3. ASSUME NEW i \in 1 .. Len(t), NEW j \in 1 .. Len(t), t[i] = t[j] PROVE i = j
        <5>1. c.others[i + 1] = c.others[j + 1] BY <2>2, <4>3
        <5>2. i + 1 = j + 1 BY <4>1, <5>1 DEF Plays, NoRepeats
        <5> QED BY <2>2, <5>2
      <4> QED BY <4>2, <4>3 DEF NoRepeats, In
    <3>3. Nobody \notin In(t)
      <4>1. \A i \in 1 .. Len(t) : t[i] \in Player BY <2>2
      <4> QED BY <4>1, PlayerAssumption DEF In
    <3>4. ns \ {p} = In(t) \cup {h}
      <4>1. ns = {h} \cup In(t) \cup {p} BY <1>0, <1>3, <2>2, <3>1 DEF Plays
      <4> QED BY <2>2, <3>1, <4>1
    <3>5. h # Nobody BY <2>2, PlayerAssumption
    <3> QED BY <2>4, <3>2, <3>3, <3>4, <3>5 DEF Plays
  <2> QED BY <1>3, <2>3, <2>5 DEF d
<1> QED BY <1>1, <1>2, <1>3

LEMMA HearStep ==
  ASSUME MprisInv, Mpris!Hear PROVE MprisInv'
<1> DEFINE h == Head(inbox)
<1>0. inbox # <<>> /\ h.is \in {"changed", "owner"} BY DEF Mpris!Hear
<1>1. inbox \in Seq(Report \cup List) BY DEF MprisInv, MprisTypes
<1>2. /\ Tail(inbox) \in Seq(Report \cup List) /\ h \in Report \cup List
      /\ In(inbox) = {h} \cup In(Tail(inbox))
  BY <1>0, <1>1, FromTail
<1>3. h \in Report BY <1>0, <1>2, Messages
<1> HIDE DEF h
<1>4. PICK m \in Report : m = h BY <1>3
<1>5. /\ m.is \in {"changed", "owner"} /\ m.name \in Player /\ m.old \in BOOLEAN /\ m.new \in BOOLEAN
  BY Messages
<1> DEFINE left == IF m.old THEN names \ {m.name} ELSE names
           gone == IF m.old /\ m.name \in names THEN Mpris!Vanished(m.name, Mpris!Now) ELSE Mpris!Now
           c == IF m.new /\ m.name \notin left THEN Mpris!Appeared(m.name, gone) ELSE gone
<1>6. /\ inbox' = Tail(inbox) /\ live' = live /\ sent' = sent /\ matching' = matching /\ watching' = watching
      /\ slipped' = (slipped \/ Mpris!Ignored(m))
      /\ names' = IF m.new THEN left \cup {m.name} ELSE left
      /\ mpris_client_proxy' = c.proxy /\ trying' = c.connecting /\ other_players' = c.others
  BY <1>4 DEF Mpris!Hear, Mpris!Becomes, h
<1>7. names \subseteq Player /\ Mpris!Now \in Control BY DEF MprisInv, MprisTypes
<1>8. gone \in Control BY <1>5, <1>7, VanishedKeeps
<1>9. c \in Control BY <1>5, <1>8, AppearedKeeps
<1>10. Mpris!Now' = c BY <1>6, <1>9 DEF Mpris!Now, Control
<1>11. matching BY <1>0 DEF MprisInv
<1>12. MprisTypes'
  <2> HIDE DEF c
  <2>1. names' \subseteq Player BY <1>5, <1>6, <1>7
  <2> QED BY <1>2, <1>6, <1>9, <1>10, <2>1 DEF MprisInv, MprisTypes
<1>13. ASSUME NEW p \in Player PROVE NameInv(p)'
  <2> HIDE DEF c, gone
  <2>0. NameInv(p) BY DEF MprisInv
  <2>1. /\ Right(inbox, p, live) => \/ Right(Tail(inbox), p, live)
                                    \/ Says(m, p) /\ (m.new <=> p \in live) /\ Silent(Tail(inbox), p)
        /\ Silent(inbox, p) => Silent(Tail(inbox), p) /\ ~Says(m, p)
    BY <1>0, <1>1, <1>4, SaidFirst DEF h
  <2>2. WillAsk(p) => WillAsk(p)'
    <3>1. m.is # "listed" BY <1>5
    <3> QED BY <1>2, <1>4, <1>6, <3>1 DEF WillAsk
  <2>3. CASE Says(m, p)
    <3>1. p \in names' <=> m.new BY <1>5, <1>6, <2>3 DEF Says
    <3>2. Right(Tail(inbox), p, live) \/ ((m.new <=> p \in live) /\ Silent(Tail(inbox), p))
      BY <2>0, <2>1, <2>3 DEF NameInv
    <3> QED BY <1>6, <3>1, <3>2 DEF NameInv
  <2>4. CASE ~Says(m, p)
    <3>1. p \in names' <=> p \in names BY <1>5, <1>6, <2>4 DEF Says
    <3> QED BY <1>6, <2>0, <2>1, <2>2, <2>4, <3>1 DEF NameInv
  <2> QED BY <2>3, <2>4
<1>14. ASSUME ~slipped' PROVE Plays(Mpris!Now', names')
  <2>1. ~slipped /\ ~(m.old /\ m.name \in names /\ m.name # mpris_client_proxy)
    BY <1>6, <1>14 DEF Mpris!Ignored
  <2>2. Plays(Mpris!Now, names) BY <2>1 DEF MprisInv
  <2>3. Plays(gone, left)
    <3>1. CASE m.old /\ m.name \in names
      <4>1. Mpris!Now.proxy = m.name BY <2>1, <3>1 DEF Mpris!Now
      <4>2. Plays(Mpris!Vanished(m.name, Mpris!Now), names \ {m.name}) BY <1>5, <1>7, <2>2, <4>1, VanishedKeeps
      <4> QED BY <3>1, <4>2
    <3>2. CASE ~(m.old /\ m.name \in names)
      <4>1. left = names BY <3>2
      <4> QED BY <2>2, <3>2, <4>1
    <3> QED BY <3>1, <3>2
  <2> HIDE DEF gone, left
  <2>4. CASE m.new /\ m.name \notin left
    <3>1. Plays(Mpris!Appeared(m.name, gone), left \cup {m.name}) BY <1>5, <1>8, <2>3, <2>4, AppearedKeeps
    <3>2. names' = left \cup {m.name} BY <1>6, <2>4
    <3>3. Mpris!Now' = Mpris!Appeared(m.name, gone) BY <1>10, <2>4
    <3> QED BY <3>1, <3>2, <3>3
  <2>5. CASE ~(m.new /\ m.name \notin left)
    <3>1. names' = left BY <1>6, <2>5
    <3>2. Mpris!Now' = gone BY <1>10, <2>5
    <3> QED BY <2>3, <3>1, <3>2
  <2> QED BY <2>4, <2>5
<1> HIDE DEF c, gone, left
<1> QED BY <1>6, <1>11, <1>12, <1>13, <1>14 DEF MprisInv, InTurn

LEMMA MprisInit == Mpris!Init => MprisInv
<1> SUFFICES ASSUME Mpris!Init PROVE MprisInv OBVIOUS
<1>1. In(<<>>) = {} /\ NoRepeats(<<>>) BY DEF In, NoRepeats
<1>2. <<>> \in Seq(Report \cup List) /\ <<>> \in Seq(Question) /\ <<>> \in Seq(Player) OBVIOUS
<1>3. MprisTypes BY <1>2 DEF Mpris!Init, MprisTypes, Mpris!Now, Control
<1>4. Plays(Mpris!Now, names) BY <1>1 DEF Mpris!Init, Plays, Mpris!Now
<1>5. ASSUME NEW p \in Player PROVE NameInv(p) BY DEF Mpris!Init, NameInv, Silent, WillAsk
<1> QED BY <1>3, <1>4, <1>5 DEF Mpris!Init, MprisInv, InTurn

LEMMA MprisStep == MprisInv /\ [Mpris!Next]_(Mpris!vars) => MprisInv'
<1> SUFFICES ASSUME MprisInv, [Mpris!Next]_(Mpris!vars) PROVE MprisInv' OBVIOUS
<1>1. CASE UNCHANGED Mpris!vars
  <2>1. Mpris!Now' = Mpris!Now BY <1>1 DEF Mpris!vars, Mpris!controller, Mpris!Now
  <2>2. /\ live' = live /\ sent' = sent /\ inbox' = inbox /\ matching' = matching
        /\ watching' = watching /\ names' = names /\ slipped' = slipped
    BY <1>1 DEF Mpris!vars, Mpris!bus
  <2>3. \A p \in Player : NameInv(p)' BY <2>2 DEF MprisInv, NameInv, Right, Silent, WillAsk
  <2>4. Plays(Mpris!Now, names)' = Plays(Mpris!Now', names') OBVIOUS
  <2>5. ~slipped' => Plays(Mpris!Now', names') BY <2>1, <2>2 DEF MprisInv
  <2>6. MprisTypes' BY <2>1, <2>2 DEF MprisInv, MprisTypes
  <2> QED BY <2>2, <2>3, <2>5, <2>6 DEF MprisInv, InTurn
<1>2. ASSUME NEW ok \in BOOLEAN, Mpris!MprisProxyReady(ok) PROVE MprisInv' BY <1>2, ProxyReadyStep
<1>3. ASSUME \E ok \in {TRUE} \cup {~ProxyFails} : Mpris!MprisProxyReady(ok) PROVE MprisInv'
  <2>1. PICK ok \in {TRUE} \cup {~ProxyFails} : Mpris!MprisProxyReady(ok) BY <1>3
  <2>2. ok \in BOOLEAN BY Zenon
  <2> QED BY <1>2, <2>1, <2>2
<1> QED
  BY <1>1, <1>3, AppearsStep, LeavesStep, HandsOverStep, BusServesStep, GotBusStep, NamesListedStep, HearStep
  DEF Mpris!Next

LEMMA PartIsMpris == AllSpec => Mpris!Spec
<1>1. AllInit => Mpris!Init BY DEF AllInit
<1>2. [AllNext]_allVars => [Mpris!Next]_(Mpris!vars)
  BY DEF AllNext, allVars, mprisVars, Mpris!vars, Mpris!bus, Mpris!controller
<1> QED BY <1>1, <1>2, PTL DEF AllSpec, Mpris!Spec

LEMMA KeysFound == MprisInv => Mpris!KeysReachPlayer
<1> SUFFICES ASSUME MprisInv, Mpris!Quiet PROVE Mpris!KeysReachPlayer
  BY DEF Mpris!KeysReachPlayer
<1>1. watching /\ sent = <<>> /\ inbox = <<>> /\ trying = Nobody BY DEF Mpris!Quiet
<1>2. In(<<>>) = {} BY DEF In
<1>3. names = live
  <2>1. ASSUME NEW p \in Player PROVE p \in names <=> p \in live
    <3>1. NameInv(p) BY DEF MprisInv
    <3>2. ~Right(inbox, p, live) BY <1>1 DEF Right
    <3>3. ~WillAsk(p) BY <1>1, <1>2 DEF WillAsk
    <3> QED BY <3>1, <3>2, <3>3 DEF NameInv
  <2>2. names \subseteq Player /\ live \subseteq Player BY DEF MprisInv, MprisTypes
  <2> QED BY <2>1, <2>2
<1>4. /\ other_players \in Seq(Player) /\ mpris_client_proxy \in Player \cup {Nobody}
      /\ live \subseteq Player
  BY DEF MprisInv, MprisTypes, Mpris!Now, Control
<1>5. Mpris!ToSet(other_players) = In(other_players)
  <2>1. DOMAIN other_players = 1 .. Len(other_players) BY <1>4
  <2> QED BY <2>1 DEF Mpris!ToSet, In
<1>6. ASSUME ~slipped
      PROVE  /\ In(other_players) \cup ({mpris_client_proxy} \ {Nobody}) = names
             /\ NoRepeats(other_players) /\ mpris_client_proxy \notin In(other_players)
             /\ other_players # <<>> => mpris_client_proxy # Nobody
  <2>1. Plays(Mpris!Now, names) BY <1>6 DEF MprisInv
  <2> QED BY <1>1, <2>1 DEF Plays, Mpris!Now
<1>7. ASSUME ~slipped, live # {} PROVE mpris_client_proxy \in live
  <2>1. other_players = <<>> => In(other_players) = {} BY DEF In
  <2>2. mpris_client_proxy # Nobody BY <1>3, <1>6, <1>7, <2>1
  <2> QED BY <1>3, <1>6, <1>7, <2>2
<1>8. ASSUME ~slipped PROVE Len(other_players) < Cardinality(Player)
  <2> DEFINE n == Len(other_players)
             T == Player \ {mpris_client_proxy}
  <2>0. n \in Nat BY <1>4
  <2>1. CASE other_players = <<>>
    <3>1. Cardinality(Player) \in Nat /\ Cardinality(Player) # 0
      BY PlayerAssumption, FS_CardinalityType, FS_EmptySet
    <3>2. n = 0 BY <2>1
    <3> QED BY <3>1, <3>2
  <2>2. CASE other_players # <<>>
    <3>1. mpris_client_proxy \in Player BY <1>4, <1>6, <1>8, <2>2
    <3>2. IsFiniteSet(T) /\ Cardinality(T) = Cardinality(Player) - 1
      BY <3>1, PlayerAssumption, FS_RemoveElement
    <3>3. other_players \in Injection(1 .. n, T)
      <4>1. \A i \in 1 .. n : other_players[i] \in T BY <1>4, <1>6, <1>8 DEF In
      <4>2. other_players \in [1 .. n -> T] BY <1>4, <4>1
      <4>3. \A i, j \in 1 .. n : other_players[i] = other_players[j] => i = j BY <1>6, <1>8 DEF NoRepeats
      <4> QED BY <4>2, <4>3 DEF Injection, IsInjective
    <3>4. Cardinality(1 .. n) <= Cardinality(T) BY <3>2, <3>3, FS_Injection
    <3>5. Cardinality(1 .. n) = n
      <4> HIDE DEF n
      <4> QED BY <2>0, FS_Interval
    <3>6. Cardinality(Player) \in Nat BY PlayerAssumption, FS_CardinalityType
    <3> QED BY <2>0, <3>2, <3>4, <3>5, <3>6
  <2> QED BY <2>1, <2>2
<1>9. Mpris!Cardinality(Player) = Cardinality(Player) BY DEF Mpris!Cardinality, Cardinality
<1> QED BY <1>3, <1>5, <1>6, <1>7, <1>8, <1>9 DEF Mpris!KeysReachPlayer

\* A media key reaches a player that is there: by MPRIS one that lives, with
\* the players' own calls the application that registered last, and none that
\* has left the bus (MediaKeysArrive: mpris-controller.c, bus-watch-namespace.c,
\* csd-media-keys-manager.c:1003-1184), for any number of players and clients,
\* as long as no connection serves two applications and the times of grabbing
\* do not come round.
THEOREM KeysArrive ==
  ASSUME MaxWatches + 1 < Wrap, ~Shares
  PROVE  AllSpec => []MediaKeysArrive
<1>1. Mpris!Spec => []MprisInv BY MprisInit, MprisStep, PTL DEF Mpris!Spec
<1>2. AllSpec => [](Media!NoGhosts /\ Media!LastRegisteredReceives) BY PlayersKept
<1>3. Mpris!KeysReachPlayer /\ Media!NoGhosts /\ Media!LastRegisteredReceives => MediaKeysArrive
  BY DEF MediaKeysArrive
<1> QED BY <1>1, <1>2, <1>3, KeysFound, PartIsMpris, PTL

-----------------------------------------------------------------------------
(* The clipboard, for any applications, targets and number of events.      *)

\* What a queue holds: nothing of some kinds, nothing of them by one who, no two
\* of them by one, nothing of other kinds after them, all of them of one time.
NoneOf(q, K) == \A i \in 1 .. Len(q) : q[i].is \notin K
NoneBy(q, K, a) == \A i \in 1 .. Len(q) : ~(q[i].is \in K /\ q[i].who = a)
OneBy(q, K, a) == \A i, j \in 1 .. Len(q) : i < j /\ q[i].is \in K /\ q[i].who = a => ~(q[j].is \in K /\ q[j].who = a)
NoneAfter(q, K, L) == \A i, j \in 1 .. Len(q) : i < j /\ q[i].is \in K => q[j].is \notin L
AllAt(q, K, n) == \A i \in 1 .. Len(q) : q[i].is \in K => q[i].when = n

LEMMA Narrower ==
  ASSUME NEW q, NEW K, NEW L, K \subseteq L
  PROVE  /\ NoneOf(q, L) => NoneOf(q, K) /\ \A n : AllAt(q, K, n)
         /\ \A a : NoneOf(q, K) => NoneBy(q, K, a) /\ OneBy(q, K, a)
         /\ \A M : NoneAfter(q, L, M) => NoneAfter(q, K, M)
         /\ \A M : NoneAfter(q, M, L) => NoneAfter(q, M, K)
         /\ \A M : NoneOf(q, K) => NoneAfter(q, K, M) /\ NoneAfter(q, M, K)
BY DEF NoneOf, NoneBy, OneBy, NoneAfter, AllAt

LEMMA Queueing ==
  ASSUME NEW S, NEW q \in Seq(S), NEW e \in S
  PROVE  /\ Append(q, e) \in Seq(S)
         /\ \A K : NoneOf(Append(q, e), K) <=> NoneOf(q, K) /\ e.is \notin K
         /\ \A K, a : NoneBy(Append(q, e), K, a) <=> NoneBy(q, K, a) /\ ~(e.is \in K /\ e.who = a)
         /\ \A K, a : OneBy(Append(q, e), K, a) <=> OneBy(q, K, a) /\ (NoneBy(q, K, a) \/ ~(e.is \in K /\ e.who = a))
         /\ \A K, L : NoneAfter(Append(q, e), K, L) <=> NoneAfter(q, K, L) /\ (NoneOf(q, K) \/ e.is \notin L)
         /\ \A K, n : AllAt(Append(q, e), K, n) <=> AllAt(q, K, n) /\ (e.is \in K => e.when = n)
<1> DEFINE r == Append(q, e)
           n == Len(q)
<1>1. r \in Seq(S) /\ n \in Nat /\ Len(r) = n + 1 /\ r[n + 1] = e /\ \A i \in 1 .. n : r[i] = q[i] OBVIOUS
<1> HIDE DEF r, n
<1>2. /\ \A i \in 1 .. n : i \in 1 .. n + 1 /\ i < n + 1
      /\ \A i \in 1 .. n + 1 : i \in 1 .. n \/ i = n + 1
      /\ n + 1 \in 1 .. n + 1
      /\ \A i, j \in 1 .. n + 1 : i < j => i \in 1 .. n
  BY <1>1
<1>3. ASSUME NEW K PROVE NoneOf(r, K) <=> NoneOf(q, K) /\ e.is \notin K BY <1>1, <1>2 DEF NoneOf, n
<1>4. ASSUME NEW K, NEW a PROVE NoneBy(r, K, a) <=> NoneBy(q, K, a) /\ ~(e.is \in K /\ e.who = a)
  BY <1>1, <1>2 DEF NoneBy, n
<1>5. ASSUME NEW K, NEW a
      PROVE  OneBy(r, K, a) <=> OneBy(q, K, a) /\ (NoneBy(q, K, a) \/ ~(e.is \in K /\ e.who = a))
  <2>1. ASSUME OneBy(r, K, a) PROVE OneBy(q, K, a) /\ (NoneBy(q, K, a) \/ ~(e.is \in K /\ e.who = a))
    BY <1>1, <1>2, <2>1 DEF OneBy, NoneBy, n
  <2>2. ASSUME OneBy(q, K, a), NoneBy(q, K, a) \/ ~(e.is \in K /\ e.who = a) PROVE OneBy(r, K, a)
    <3> SUFFICES ASSUME NEW i \in 1 .. n + 1, NEW j \in 1 .. n + 1, i < j, r[i].is \in K, r[i].who = a,
                        r[j].is \in K, r[j].who = a
                 PROVE  FALSE
      BY <1>1 DEF OneBy
    <3>1. i \in 1 .. n /\ q[i].is \in K /\ q[i].who = a BY <1>1, <1>2
    <3>2. CASE j \in 1 .. n BY <1>1, <2>2, <3>1, <3>2 DEF OneBy, n
    <3>3. CASE j = n + 1 BY <1>1, <2>2, <3>1, <3>3 DEF NoneBy, n
    <3> QED BY <1>2, <3>2, <3>3
  <2> QED BY <2>1, <2>2
<1>6. ASSUME NEW K, NEW L PROVE NoneAfter(r, K, L) <=> NoneAfter(q, K, L) /\ (NoneOf(q, K) \/ e.is \notin L)
  <2>1. ASSUME NoneAfter(r, K, L) PROVE NoneAfter(q, K, L) /\ (NoneOf(q, K) \/ e.is \notin L)
    BY <1>1, <1>2, <2>1 DEF NoneAfter, NoneOf, n
  <2>2. ASSUME NoneAfter(q, K, L), NoneOf(q, K) \/ e.is \notin L PROVE NoneAfter(r, K, L)
    <3> SUFFICES ASSUME NEW i \in 1 .. n + 1, NEW j \in 1 .. n + 1, i < j, r[i].is \in K, r[j].is \in L PROVE FALSE
      BY <1>1 DEF NoneAfter
    <3>1. i \in 1 .. n /\ q[i].is \in K BY <1>1, <1>2
    <3>2. CASE j \in 1 .. n BY <1>1, <2>2, <3>1, <3>2 DEF NoneAfter, n
    <3>3. CASE j = n + 1 BY <1>1, <2>2, <3>1, <3>3 DEF NoneOf, n
    <3> QED BY <1>2, <3>2, <3>3
  <2> QED BY <2>1, <2>2
<1>7. ASSUME NEW K, NEW m PROVE AllAt(r, K, m) <=> AllAt(q, K, m) /\ (e.is \in K => e.when = m)
  BY <1>1, <1>2 DEF AllAt, n
<1> QED BY <1>1, <1>3, <1>4, <1>5, <1>6, <1>7 DEF r

LEMMA Dispatching ==
  ASSUME NEW S, NEW q \in Seq(S), q # <<>>
  PROVE  /\ Head(q) \in S /\ Tail(q) \in Seq(S)
         /\ \A K : NoneOf(q, K) <=> Head(q).is \notin K /\ NoneOf(Tail(q), K)
         /\ \A K, a : NoneBy(q, K, a) <=> NoneBy(Tail(q), K, a) /\ ~(Head(q).is \in K /\ Head(q).who = a)
         /\ \A K, a : OneBy(q, K, a) =>
                        OneBy(Tail(q), K, a) /\ (Head(q).is \in K /\ Head(q).who = a => NoneBy(Tail(q), K, a))
         /\ \A K, L : NoneAfter(q, K, L) => NoneAfter(Tail(q), K, L) /\ (Head(q).is \in K => NoneOf(Tail(q), L))
         /\ \A K, n : AllAt(q, K, n) => AllAt(Tail(q), K, n) /\ (Head(q).is \in K => Head(q).when = n)
<1> DEFINE r == Tail(q)
           n == Len(q)
<1>1. /\ n \in Nat /\ n >= 1 /\ Head(q) = q[1] /\ Head(q) \in S /\ r \in Seq(S) /\ Len(r) = n - 1
      /\ \A i \in 1 .. n - 1 : r[i] = q[i + 1]
  OBVIOUS
<1> HIDE DEF r, n
<1>2. /\ \A i \in 1 .. n - 1 : i + 1 \in 1 .. n /\ 1 < i + 1
      /\ 1 \in 1 .. n
      /\ \A i, j \in 1 .. n - 1 : i < j => i + 1 < j + 1
      /\ \A i \in 1 .. n : i = 1 \/ (i - 1 \in 1 .. n - 1 /\ r[i - 1] = q[i])
  BY <1>1
<1>3. ASSUME NEW K PROVE NoneOf(q, K) <=> Head(q).is \notin K /\ NoneOf(r, K)
  <2>1. NoneOf(q, K) => Head(q).is \notin K /\ NoneOf(r, K) BY <1>1, <1>2 DEF NoneOf, n
  <2>2. Head(q).is \notin K /\ NoneOf(r, K) => NoneOf(q, K) BY <1>1, <1>2 DEF NoneOf, n
  <2> QED BY <2>1, <2>2
<1>4. ASSUME NEW K, NEW a PROVE NoneBy(q, K, a) <=> NoneBy(r, K, a) /\ ~(Head(q).is \in K /\ Head(q).who = a)
  <2>1. NoneBy(q, K, a) => NoneBy(r, K, a) /\ ~(Head(q).is \in K /\ Head(q).who = a) BY <1>1, <1>2 DEF NoneBy, n
  <2>2. NoneBy(r, K, a) /\ ~(Head(q).is \in K /\ Head(q).who = a) => NoneBy(q, K, a) BY <1>1, <1>2 DEF NoneBy, n
  <2> QED BY <2>1, <2>2
<1>5. ASSUME NEW K, NEW a, OneBy(q, K, a)
      PROVE  OneBy(r, K, a) /\ (Head(q).is \in K /\ Head(q).who = a => NoneBy(r, K, a))
  BY <1>1, <1>2, <1>5 DEF OneBy, NoneBy, n
<1>6. ASSUME NEW K, NEW L, NoneAfter(q, K, L)
      PROVE  NoneAfter(r, K, L) /\ (Head(q).is \in K => NoneOf(r, L))
  BY <1>1, <1>2, <1>6 DEF NoneAfter, NoneOf, n
<1>7. ASSUME NEW K, NEW m, AllAt(q, K, m) PROVE AllAt(r, K, m) /\ (Head(q).is \in K => Head(q).when = m)
  BY <1>1, <1>2, <1>7 DEF AllAt, n
<1> QED BY <1>1, <1>3, <1>4, <1>5, <1>6, <1>7 DEF r

\* Events of a kind that nothing is said about.
LEMMA Unnoticed ==
  ASSUME NEW S, NEW q \in Seq(S), NEW r \in Seq(S), NEW k, \A i \in 1 .. Len(r) : r[i].is = k
  PROVE  /\ q \o r \in Seq(S)
         /\ \A K : k \notin K => (NoneOf(q \o r, K) <=> NoneOf(q, K))
         /\ \A K, a : k \notin K => (NoneBy(q \o r, K, a) <=> NoneBy(q, K, a))
         /\ \A K, a : k \notin K => (OneBy(q \o r, K, a) <=> OneBy(q, K, a))
         /\ \A K, L : k \notin K \cup L => (NoneAfter(q \o r, K, L) <=> NoneAfter(q, K, L))
         /\ \A K, n : k \notin K => (AllAt(q \o r, K, n) <=> AllAt(q, K, n))
<1> DEFINE s == q \o r
           n == Len(q)
           l == Len(r)
<1>1. /\ s \in Seq(S) /\ n \in Nat /\ l \in Nat /\ Len(s) = n + l
      /\ \A i \in 1 .. n : s[i] = q[i]
      /\ \A i \in n + 1 .. n + l : i - n \in 1 .. l /\ s[i] = r[i - n]
  OBVIOUS
<1>2. /\ \A i \in 1 .. n : i \in 1 .. n + l
      /\ \A i \in 1 .. n + l : i \in 1 .. n \/ s[i].is = k
  BY <1>1
<1> HIDE DEF s, n, l
<1>3. ASSUME NEW K, k \notin K PROVE NoneOf(s, K) <=> NoneOf(q, K) BY <1>1, <1>2, <1>3 DEF NoneOf, n
<1>4. ASSUME NEW K, NEW a, k \notin K PROVE NoneBy(s, K, a) <=> NoneBy(q, K, a) BY <1>1, <1>2, <1>4 DEF NoneBy, n
<1>5. ASSUME NEW K, NEW a, k \notin K PROVE OneBy(s, K, a) <=> OneBy(q, K, a) BY <1>1, <1>2, <1>5 DEF OneBy, n
<1>6. ASSUME NEW K, NEW L, k \notin K \cup L PROVE NoneAfter(s, K, L) <=> NoneAfter(q, K, L)
  BY <1>1, <1>2, <1>6 DEF NoneAfter, n
<1>7. ASSUME NEW K, NEW m, k \notin K PROVE AllAt(s, K, m) <=> AllAt(q, K, m) BY <1>1, <1>2, <1>7 DEF AllAt, n
<1> QED BY <1>1, <1>3, <1>4, <1>5, <1>6, <1>7 DEF s

\* The types; the times are those of the server.
Kinds == {"save", "TARGETS", "MULTIPLE", "None", "new", "paste", "deleted", "destroyed", "clear", "clear manager"}
Sent == [is : Kinds \ {"new", "paste"}, who : App \cup {NoOne}, when : Nat, what : Target \cup {NoOne, "targets"}]
        \cup [is : {"new"}, who : {NoOne}, when : Nat, what : Target]
        \cup [is : {"paste"}, who : App, when : Nat, what : Target]
Piece == App \cup {"nothing", "INCR", "end"}
Data == [target : Target \cup {NoOne}, type : {"none", "INCR", "data"}, from : SUBSET Piece, refcount : Nat]
Transfer == [requestor : App, property : Target, data : Clip!Address, offset : {0, 1}, was : SUBSET Piece]

ClipTypes ==
  /\ alive \subseteq App /\ owner \in App \cup {NoOne, Manager} /\ now \in Nat
  /\ asked \subseteq [who : App, what : {"TARGETS", "MULTIPLE"}, when : Nat]
  /\ written \in [Target -> Piece]
  /\ sending \subseteq [who : App, target : Target, left : {0, 1}]
  /\ pasting \subseteq [who : App, target : Target, has : {"nothing", "piece"}]
  /\ events \in Seq(Sent) /\ manages \in BOOLEAN
  /\ heap \in [Clip!Address -> Data] /\ contents \subseteq Clip!Address
  /\ conversions \subseteq Transfer /\ IsFiniteSet(conversions)
  /\ requestor \in App \cup {NoOne} /\ time \in Nat

\* How many hold the data at an address, and what a transfer sends of it.
Users(C, i) == {c \in C : c.data = i}
Held(s, C, h) ==
  /\ \A i \in Clip!Address : h[i].refcount = (IF i \in s THEN 1 ELSE 0) + Cardinality(Users(C, i))
  /\ \A c \in C : h[c.data].from = c.was /\ h[c.data].type # "INCR"

Conversion == {"save", "TARGETS", "MULTIPLE"}
Answers == {"TARGETS", "MULTIPLE"}

\* The order of the manager's events.
InOrder ==
  /\ NoneAfter(events, Conversion, Conversion)
  /\ NoneAfter(events, {"save"}, {"paste", "clear", "None", "destroyed"})
  /\ NoneAfter(events, {"clear manager"}, {"save"})
  /\ manages => NoneOf(events, {"clear manager"})
  /\ NoneAfter(events, {"None"}, {"destroyed"})
  /\ AllAt(events, {"save", "MULTIPLE"}, now)

Living ==
  /\ owner \in alive \cup {NoOne, Manager}
  /\ \A a \in alive : NoneBy(events, {"destroyed"}, a)

\* A request to save finds the manager idle, and its application the owner.
Requested ==
  ~NoneOf(events, {"save"}) =>
     /\ requestor = NoOne /\ owner # Manager
     /\ \A a \in alive : owner = a \/ NoneBy(events, {"save"}, a)

Listing == (\E q \in asked : q.what = "TARGETS") \/ ~NoneOf(events, {"TARGETS"})
Waiting == (\E q \in asked : q.what = "MULTIPLE") \/ ~NoneOf(events, {"MULTIPLE"})
Converting == asked # {} \/ ~NoneOf(events, Answers)
Dying == ~NoneBy(events, {"destroyed"}, requestor)
Blank == \A i \in contents : heap[i].type = "none"

Converted ==
  /\ \A q, r \in asked : q = r
  /\ \A q \in asked : q.who = requestor /\ q.who \in alive /\ q.when = now /\ NoneOf(events, Answers)
  /\ Converting =>
       /\ requestor # NoOne /\ time = now /\ owner \in {requestor, NoOne}
       /\ NoneOf(events, {"paste", "clear", "None"})
       /\ IF requestor \in alive THEN NoneOf(events, {"destroyed"})
          ELSE Dying /\ NoneAfter(events, {"destroyed"}, Answers)
  /\ Listing => contents = {} /\ (requestor \in alive => owner = requestor)
  /\ Waiting => Blank /\ \A c \in conversions : c.data \notin contents

\* What contents is there for.
Owned ==
  /\ ~NoneOf(events, {"None"}) => requestor = NoOne \/ Dying
  /\ contents # {} =>
       IF requestor = NoOne THEN owner = Manager \/ ~NoneOf(events, {"clear"})
       ELSE Converting \/ owner = Manager \/ (Blank /\ Dying)

\* An application pastes one thing at a time.
Pasted ==
  /\ \A a \in App : OneBy(events, {"paste"}, a)
  /\ \A c \in conversions : NoneBy(events, {"paste"}, c.requestor)
  /\ \A c, d \in conversions : c.requestor = d.requestor => c = d
  /\ \A a \in alive : (\E p \in pasting : p.who = a) \/
        (NoneBy(events, {"paste"}, a) /\ \A c \in conversions : c.requestor # a)

\* The inductive invariant.
ClipInv == ClipTypes /\ Held(contents, conversions, heap) /\ InOrder /\ Living /\ Requested /\ Converted /\ Owned /\ Pasted

\* A conversion under way asks for the list of targets or for the targets.
LEMMA AskedFor ==
  ASSUME ClipTypes
  PROVE  Converting <=> Listing \/ Waiting
<1>1. NoneOf(events, Answers) <=> NoneOf(events, {"TARGETS"}) /\ NoneOf(events, {"MULTIPLE"})
  BY DEF NoneOf, Answers
<1>2. \A q \in asked : q.what \in {"TARGETS", "MULTIPLE"} BY DEF ClipTypes
<1> QED BY <1>1, <1>2 DEF Converting, Listing, Waiting

LEMMA Seen ==
  ASSUME NEW S, NEW q \in Seq(S), NEW k
  PROVE  (\A e \in Clip!ToSet(q) : e.is # k) <=> NoneOf(q, {k})
<1>1. DOMAIN q = 1 .. Len(q) OBVIOUS
<1> QED BY <1>1 DEF NoneOf, Clip!ToSet

\* What is said of a queue q and of r, q with e at its end; and of q and r, what is
\* left of it after its head h.
Joined(q, r, e) ==
  /\ r \in Seq(Sent)
  /\ \A K : NoneOf(r, K) <=> NoneOf(q, K) /\ e.is \notin K
  /\ \A K, a : NoneBy(r, K, a) <=> NoneBy(q, K, a) /\ ~(e.is \in K /\ e.who = a)
  /\ \A K, a : OneBy(r, K, a) <=> OneBy(q, K, a) /\ (NoneBy(q, K, a) \/ ~(e.is \in K /\ e.who = a))
  /\ \A K, L : NoneAfter(r, K, L) <=> NoneAfter(q, K, L) /\ (NoneOf(q, K) \/ e.is \notin L)
  /\ \A K, n : AllAt(r, K, n) <=> AllAt(q, K, n) /\ (e.is \in K => e.when = n)

Dispatched(q, r, h) ==
  /\ h \in Sent /\ r \in Seq(Sent)
  /\ \A K : NoneOf(q, K) <=> h.is \notin K /\ NoneOf(r, K)
  /\ \A K, a : NoneBy(q, K, a) <=> NoneBy(r, K, a) /\ ~(h.is \in K /\ h.who = a)
  /\ \A K, a : OneBy(q, K, a) => OneBy(r, K, a) /\ (h.is \in K /\ h.who = a => NoneBy(r, K, a))
  /\ \A K, L : NoneAfter(q, K, L) => NoneAfter(r, K, L) /\ (h.is \in K => NoneOf(r, L))
  /\ \A K, n : AllAt(q, K, n) => AllAt(r, K, n) /\ (h.is \in K => h.when = n)

LEMMA Joins == ASSUME NEW q \in Seq(Sent), NEW e \in Sent PROVE Joined(q, Append(q, e), e)
BY Queueing DEF Joined
LEMMA Dispatches == ASSUME NEW q \in Seq(Sent), q # <<>> PROVE Dispatched(q, Tail(q), Head(q))
BY Dispatching DEF Dispatched

-----------------------------------------------------------------------------
(* The applications and the server.                                        *)

\* Nobody saves when an application copies: the only request that a new time
\* makes early is not there.
LEMMA CopyStep ==
  ASSUME ~Overlaps, ClipInv, NEW a \in App, Clip!Copy(a)
  PROVE  ClipInv'
<1> DEFINE e == Clip!Event("clear", NoOne, now, NoOne)
<1>0. ClipTypes BY DEF ClipInv
<1>1. /\ a \in alive /\ owner' = a /\ now' = now + 1
      /\ events' = IF owner = Manager THEN Append(events, e) ELSE events
      /\ UNCHANGED <<alive, asked, written, sending, pasting, manages, heap, contents, conversions, requestor, time>>
  BY <1>0, ClipboardAssumption DEF Clip!Copy, Clip!Own, Clip!manager, ClipTypes
<1>2. requestor = NoOne /\ NoneOf(events, {"save"})
  <2>1. ~Clip!Saving BY DEF Clip!Copy
  <2> QED BY <1>0, <2>1, Seen DEF Clip!Saving, ClipTypes
<1>3. ~Converting BY <1>2 DEF ClipInv, Converted
<1>4. NoneOf(events, Answers) /\ asked = {} BY <1>3 DEF Converting
<1>5. e \in Sent /\ e.is = "clear"  BY <1>0 DEF Sent, Kinds, ClipTypes, Clip!Event
<1> HIDE DEF e
<1>6. owner = Manager => Joined(events, events', e) BY <1>0, <1>1, <1>5, Joins DEF ClipTypes
<1>7. ClipTypes'
  BY <1>0, <1>1, <1>6 DEF ClipTypes, Joined
<1>8. Held(contents, conversions, heap)' BY <1>1 DEF ClipInv
<1>9. NoneOf(events, {"save", "MULTIPLE"}) BY <1>2, <1>4 DEF NoneOf, Answers
<1>10. AllAt(events, {"save", "MULTIPLE"}, now') BY <1>9 DEF NoneOf, AllAt
<1>11. InOrder'
  <2>1. CASE owner = Manager BY <1>1, <1>2, <1>4, <1>5, <1>6, <1>10, <2>1 DEF ClipInv, InOrder, Joined, Conversion
  <2>2. CASE owner # Manager BY <1>1, <1>10, <2>2 DEF ClipInv, InOrder
  <2> QED BY <2>1, <2>2
<1>12. Living' 
  BY <1>1, <1>5, <1>6 DEF ClipInv, Living, Joined
<1>13. NoneOf(events', {"save"}) /\ NoneOf(events', Answers) /\ NoneOf(events', {"TARGETS"}) /\ NoneOf(events', {"MULTIPLE"})
  <2>1. NoneOf(events, {"TARGETS"}) /\ NoneOf(events, {"MULTIPLE"}) BY <1>4 DEF NoneOf, Answers
  <2> QED BY <1>1, <1>2, <1>4, <1>5, <1>6, <2>1 DEF Joined, Answers
<1>14. Requested' BY <1>13 DEF Requested
<1>15. Converted' BY <1>1, <1>4, <1>13 DEF Converted, Converting, Listing, Waiting
<1>16. Owned'
  BY <1>1, <1>2, <1>5, <1>6 DEF ClipInv, Owned, Joined
<1>17. Pasted'
  BY <1>1, <1>2, <1>5, <1>6 DEF ClipInv, Pasted, Joined
<1> QED BY <1>7, <1>8, <1>11, <1>12, <1>14, <1>15, <1>16, <1>17 DEF ClipInv

LEMMA SaveStep ==
  ASSUME ~Overlaps, ClipInv, NEW a \in App, NEW lists \in BOOLEAN, Clip!Save(a, lists)
  PROVE  ClipInv'
<1> DEFINE e == Clip!Event("save", a, now, IF lists THEN "targets" ELSE NoOne)
<1>0. ClipTypes BY DEF ClipInv
<1>1. /\ a \in alive /\ owner = a /\ manages
      /\ events' = Append(events, e)
      /\ UNCHANGED <<alive, owner, now, asked, written, sending, pasting, manages, heap, contents, conversions, requestor, time>>
  BY DEF Clip!Save, Clip!manager, Clip!server
<1>2. requestor = NoOne /\ NoneOf(events, {"save"})
  <2>1. ~Clip!Saving BY DEF Clip!Save
  <2> QED BY <1>0, <2>1, Seen DEF Clip!Saving, ClipTypes
<1>3. ~Converting BY <1>2 DEF ClipInv, Converted
<1>4. NoneOf(events, Answers) /\ asked = {} BY <1>3 DEF Converting
<1>5. e \in Sent /\ e.is = "save" /\ e.who = a /\ e.when = now
  BY <1>0, ClipboardAssumption DEF ClipTypes, Sent, Kinds, Clip!Event
<1> HIDE DEF e
<1>6. Joined(events, events', e) BY <1>0, <1>1, <1>5, Joins DEF ClipTypes
<1>7. ClipTypes' BY <1>0, <1>1, <1>6 DEF ClipTypes, Joined
<1>8. Held(contents, conversions, heap)' BY <1>1 DEF ClipInv
<1>9. NoneOf(events, Conversion) BY <1>2, <1>4 DEF NoneOf, Answers, Conversion
<1>10. InOrder' BY <1>1, <1>5, <1>6, <1>9 DEF ClipInv, InOrder, Joined, Conversion
<1>11. Living' BY <1>1, <1>5, <1>6 DEF ClipInv, Living, Joined
<1>12. Requested'
  <2>1. a # Manager BY ClipboardAssumption
  <2>2. \A b \in alive : owner = b \/ NoneBy(events', {"save"}, b)
    <3>1. \A b : NoneBy(events, {"save"}, b) BY <1>2 DEF NoneOf, NoneBy
    <3> QED BY <1>1, <1>5, <1>6, <3>1 DEF Joined
  <2> QED BY <1>1, <1>2, <2>1, <2>2 DEF Requested
<1>13. Converted'
  <2>1. NoneOf(events, {"TARGETS"}) /\ NoneOf(events, {"MULTIPLE"}) BY <1>4 DEF NoneOf, Answers
  <2>2. NoneOf(events', Answers) /\ NoneOf(events', {"TARGETS"}) /\ NoneOf(events', {"MULTIPLE"})
    BY <1>4, <1>5, <1>6, <2>1 DEF Joined, Answers
  <2> QED BY <1>1, <1>4, <2>2 DEF Converted, Converting, Listing, Waiting
<1>14. Owned' BY <1>1, <1>2, <1>5, <1>6 DEF ClipInv, Owned, Joined
<1>15. Pasted' BY <1>1, <1>2, <1>5, <1>6 DEF ClipInv, Pasted, Joined
<1> QED BY <1>7, <1>8, <1>10, <1>11, <1>12, <1>13, <1>14, <1>15 DEF ClipInv

\* A requestor that exits leaves its window's end in the queue, behind all that is
\* about it.
LEMMA ExitStep ==
  ASSUME ClipInv, NEW a \in App, Clip!Exit(a)
  PROVE  ClipInv'
<1> DEFINE e == Clip!Event("destroyed", a, now, NoOne)
<1>0. ClipTypes BY DEF ClipInv
<1>1. /\ a \in alive /\ alive' = alive \ {a}
      /\ owner' = IF owner = a THEN NoOne ELSE owner
      /\ asked' = {q \in asked : q.who # a}
      /\ sending' = {s \in sending : s.who # a} /\ pasting' = {p \in pasting : p.who # a}
      /\ events' = IF requestor = a THEN Append(events, e) ELSE events
      /\ UNCHANGED <<now, written, manages, heap, contents, conversions, requestor, time>>
  BY DEF Clip!Exit, Clip!manager
<1>2. a # NoOne /\ a # Manager BY ClipboardAssumption
<1>3. e \in Sent /\ e.is = "destroyed" /\ e.who = a /\ e.when = now
  BY <1>0, ClipboardAssumption DEF ClipTypes, Sent, Kinds, Clip!Event
<1> HIDE DEF e
<1>4. requestor = a => Joined(events, events', e) BY <1>0, <1>1, <1>3, Joins DEF ClipTypes
<1>5. requestor = a =>
        /\ NoneOf(events, {"save"}) /\ NoneOf(events, {"None"}) /\ ~Dying
        /\ (Converting => NoneOf(events, {"destroyed"}))
  BY <1>1, <1>2 DEF ClipInv, Requested, Owned, Living, Dying, Converted
<1>6. ClipTypes' BY <1>0, <1>1, <1>4 DEF ClipTypes, Joined
<1>7. Held(contents, conversions, heap)' BY <1>1 DEF ClipInv
<1>8. InOrder'
  <2>1. CASE requestor = a BY <1>1, <1>3, <1>4, <1>5, <2>1 DEF ClipInv, InOrder, Joined, Conversion
  <2>2. CASE requestor # a BY <1>1, <2>2 DEF ClipInv, InOrder
  <2> QED BY <2>1, <2>2
<1>9. Living' BY <1>1, <1>3, <1>4 DEF ClipInv, Living, Joined
<1>10. Requested'
  <2>1. CASE requestor = a
    <3>1. NoneOf(events', {"save"}) BY <1>3, <1>4, <1>5, <2>1 DEF Joined
    <3> QED BY <3>1 DEF Requested
  <2>2. CASE requestor # a BY <1>1, <1>2, <2>2, ClipboardAssumption DEF ClipInv, Requested
  <2> QED BY <2>1, <2>2
<1>11. /\ NoneOf(events', Answers) <=> NoneOf(events, Answers)
       /\ NoneOf(events', {"TARGETS"}) <=> NoneOf(events, {"TARGETS"})
       /\ NoneOf(events', {"MULTIPLE"}) <=> NoneOf(events, {"MULTIPLE"})
       /\ NoneOf(events', {"paste", "clear", "None"}) <=> NoneOf(events, {"paste", "clear", "None"})
       /\ NoneOf(events', {"None"}) <=> NoneOf(events, {"None"})
       /\ NoneOf(events', {"clear"}) <=> NoneOf(events, {"clear"})
       /\ Dying => Dying'
       /\ requestor = a => Dying'
  BY <1>1, <1>3, <1>4 DEF Joined, Answers, Dying
<1>12. (Converting' => Converting) /\ (Listing' => Listing) /\ (Waiting' => Waiting)
  BY <1>1, <1>11 DEF Converting, Listing, Waiting
<1>13. Converted'
  <2>1. \A q, r \in asked' : q = r BY <1>1 DEF ClipInv, Converted
  <2>2. \A q \in asked' : q.who = requestor' /\ q.who \in alive' /\ q.when = now' /\ NoneOf(events', Answers)
    BY <1>1, <1>11 DEF ClipInv, Converted
  <2>3. ASSUME Converting'
        PROVE  /\ requestor' # NoOne /\ time' = now' /\ owner' \in {requestor', NoOne}
               /\ NoneOf(events', {"paste", "clear", "None"})
    BY <1>1, <1>11, <1>12, <2>3 DEF ClipInv, Converted
  <2>4. ASSUME Converting'
        PROVE  IF requestor' \in alive' THEN NoneOf(events', {"destroyed"})
               ELSE Dying' /\ NoneAfter(events', {"destroyed"}, Answers)
    <3>1. CASE requestor = a
      <4>1. NoneAfter(events, {"destroyed"}, Answers) BY <1>5, <1>12, <2>4, <3>1 DEF NoneOf, NoneAfter
      <4>2. NoneAfter(events', {"destroyed"}, Answers) BY <1>3, <1>4, <3>1, <4>1 DEF Joined, Answers
      <4> QED BY <1>1, <1>11, <3>1, <4>2
    <3>2. CASE requestor # a BY <1>1, <1>11, <1>12, <2>4, <3>2 DEF ClipInv, Converted
    <3> QED BY <3>1, <3>2
  <2>5. Listing' => contents' = {} /\ (requestor' \in alive' => owner' = requestor')
    BY <1>1, <1>12 DEF ClipInv, Converted
  <2>6. Waiting' => Blank' /\ \A c \in conversions' : c.data \notin contents'
    BY <1>1, <1>12 DEF ClipInv, Converted, Blank
  <2> QED BY <2>1, <2>2, <2>3, <2>4, <2>5, <2>6 DEF Converted
<1>14. Owned'
  <2>1. ~NoneOf(events', {"None"}) => requestor' = NoOne \/ Dying'
    BY <1>1, <1>11 DEF ClipInv, Owned
  <2>2. ASSUME contents' # {}, requestor' = NoOne PROVE owner' = Manager \/ ~NoneOf(events', {"clear"})
    BY <1>1, <1>2, <1>11, <2>2 DEF ClipInv, Owned
  <2>3. ASSUME contents' # {}, requestor' # NoOne
        PROVE  Converting' \/ owner' = Manager \/ (Blank' /\ Dying')
    <3>1. CASE Converting /\ ~Converting'
      <4>1. PICK q \in asked : q.who = a BY <1>1, <1>11, <3>1 DEF Converting
      <4>2. requestor = a BY <4>1 DEF ClipInv, Converted
      <4>3. Waiting BY <1>0, <1>1, <2>3, <4>1 DEF ClipInv, Converted, ClipTypes, Waiting, Listing
      <4>4. Blank BY <4>3 DEF ClipInv, Converted
      <4> QED BY <1>1, <1>11, <4>2, <4>4 DEF Blank
    <3>2. CASE ~Converting BY <1>1, <1>2, <1>11, <2>3, <3>2 DEF ClipInv, Owned, Blank
    <3> QED BY <3>1, <3>2
  <2> QED BY <2>1, <2>2, <2>3 DEF Owned
<1>15. Pasted'
  BY <1>1, <1>3, <1>4 DEF ClipInv, Pasted, Joined
<1> QED BY <1>6, <1>7, <1>8, <1>9, <1>10, <1>13, <1>14, <1>15 DEF ClipInv

\* Steps that only add an event of a kind nothing is said about.
LEMMA OnlyNews ==
  ASSUME ClipInv, NEW e \in Sent, e.is \in {"new", "deleted"}, events' = Append(events, e),
         UNCHANGED <<alive, owner, now, asked, manages, heap, contents, conversions, requestor, time>>,
         written' \in [Target -> Piece],
         sending' \subseteq [who : App, target : Target, left : {0, 1}],
         pasting' \subseteq [who : App, target : Target, has : {"nothing", "piece"}],
         \A p \in pasting : \E r \in pasting' : r.who = p.who
  PROVE  ClipInv'
<1>0. ClipTypes BY DEF ClipInv
<1>1. Joined(events, events', e) BY <1>0, Joins DEF ClipTypes
<1>2. ClipTypes' BY <1>0, <1>1 DEF ClipTypes, Joined
<1>3. /\ \A K : {"new", "deleted"} \cap K = {} => (NoneOf(events', K) <=> NoneOf(events, K))
      /\ \A K, a : {"new", "deleted"} \cap K = {} => (NoneBy(events', K, a) <=> NoneBy(events, K, a))
      /\ \A K, a : {"new", "deleted"} \cap K = {} => (OneBy(events', K, a) <=> OneBy(events, K, a))
  BY <1>1 DEF Joined
<1>4. /\ NoneOf(events', Answers) <=> NoneOf(events, Answers)
      /\ NoneOf(events', {"TARGETS"}) <=> NoneOf(events, {"TARGETS"})
      /\ NoneOf(events', {"MULTIPLE"}) <=> NoneOf(events, {"MULTIPLE"})
      /\ Dying' <=> Dying
  BY <1>1 DEF Joined, Answers, Dying
<1>5. (Converting' <=> Converting) /\ (Listing' <=> Listing) /\ (Waiting' <=> Waiting) /\ (Blank' <=> Blank)
  BY <1>4 DEF Converting, Listing, Waiting, Blank
<1>6. Held(contents, conversions, heap)' BY DEF ClipInv
<1>7. InOrder' BY <1>1 DEF ClipInv, InOrder, Joined, Conversion
<1>8. Living' BY <1>1 DEF ClipInv, Living, Joined
<1>9. Requested' BY <1>1 DEF ClipInv, Requested, Joined
<1>10. Converted' BY <1>1, <1>4, <1>5 DEF ClipInv, Converted, Joined, Answers
<1>11. Owned' BY <1>1, <1>4, <1>5 DEF ClipInv, Owned, Joined
<1>12. Pasted'
  <2>1. \A a \in App : OneBy(events', {"paste"}, a) BY <1>1 DEF ClipInv, Pasted, Joined
  <2>2. \A a : NoneBy(events', {"paste"}, a) <=> NoneBy(events, {"paste"}, a) BY <1>1 DEF Joined
  <2> QED BY <2>1, <2>2 DEF ClipInv, Pasted
<1> QED BY <1>2, <1>6, <1>7, <1>8, <1>9, <1>10, <1>11, <1>12 DEF ClipInv

LEMMA SendPieceStep ==
  ASSUME ClipInv, NEW s \in sending, Clip!SendPiece(s)
  PROVE  ClipInv'
<1> DEFINE e == Clip!Event("new", NoOne, now, s.target)
<1>0. ClipTypes BY DEF ClipInv
<1>1. s \in [who : App, target : Target, left : {0, 1}] BY <1>0 DEF ClipTypes
<1>2. e \in Sent /\ e.is = "new" BY <1>0, <1>1, ClipboardAssumption DEF ClipTypes, Sent, Kinds, Clip!Event
<1> HIDE DEF e
<1>3. events' = Append(events, e) /\ UNCHANGED <<alive, owner, now, asked, pasting, manages, heap, contents, conversions, requestor, time>>
  BY DEF Clip!SendPiece, Clip!manager, e
<1>4. written' \in [Target -> Piece] BY <1>0, <1>1 DEF Clip!SendPiece, ClipTypes, Piece
<1>5. sending' \subseteq [who : App, target : Target, left : {0, 1}]
  <2>1. CASE s.left > 0
    <3>1. sending' = (sending \ {s}) \cup {[s EXCEPT !.left = @ - 1]} BY <2>1 DEF Clip!SendPiece
    <3>2. s.left = 1 BY <1>1, <2>1
    <3>3. [s EXCEPT !.left = @ - 1] \in [who : App, target : Target, left : {0, 1}] BY <1>1, <3>2
    <3> QED BY <1>0, <3>1, <3>3 DEF ClipTypes
  <2>2. CASE ~(s.left > 0) BY <1>0, <2>2 DEF Clip!SendPiece, ClipTypes
  <2> QED BY <2>1, <2>2
<1> QED BY <1>0, <1>2, <1>3, <1>4, <1>5, OnlyNews DEF ClipTypes

LEMMA ReadPieceStep ==
  ASSUME ClipInv, NEW p \in pasting, Clip!ReadPiece(p)
  PROVE  ClipInv'
<1> DEFINE e == Clip!Event("deleted", p.who, now, p.target)
           r == [p EXCEPT !.has = "nothing"]
<1>0. ClipTypes BY DEF ClipInv
<1>1. p \in [who : App, target : Target, has : {"nothing", "piece"}] BY <1>0 DEF ClipTypes
<1>2. e \in Sent /\ e.is = "deleted" BY <1>0, <1>1, ClipboardAssumption DEF ClipTypes, Sent, Kinds, Clip!Event
<1>3. r \in [who : App, target : Target, has : {"nothing", "piece"}] /\ r.who = p.who BY <1>1
<1> HIDE DEF e, r
<1>4. /\ events' = Append(events, e) /\ pasting' = (pasting \ {p}) \cup {r}
      /\ UNCHANGED <<alive, owner, now, asked, written, sending, manages, heap, contents, conversions, requestor, time>>
  BY DEF Clip!ReadPiece, Clip!manager, e, r
<1>5. pasting' \subseteq [who : App, target : Target, has : {"nothing", "piece"}] BY <1>0, <1>3, <1>4 DEF ClipTypes
<1>6. \A x \in pasting : \E y \in pasting' : y.who = x.who BY <1>3, <1>4
<1> QED BY <1>0, <1>2, <1>4, <1>5, <1>6, OnlyNews DEF ClipTypes

LEMMA PasteStep ==
  ASSUME ClipInv, NEW a \in App, NEW t \in Target, Clip!Paste(a, t)
  PROVE  ClipInv'
<1> DEFINE e == Clip!Event("paste", a, now, t)
           p == [who |-> a, target |-> t, has |-> "nothing"]
<1>0. ClipTypes BY DEF ClipInv
<1>1. /\ a \in alive /\ owner = Manager /\ \A r \in pasting : r.who # a
      /\ pasting' = pasting \cup {p} /\ events' = Append(events, e)
      /\ UNCHANGED <<alive, owner, now, asked, written, sending, manages, heap, contents, conversions, requestor, time>>
  BY DEF Clip!Paste, Clip!manager
<1>2. e \in Sent /\ e.is = "paste" /\ e.who = a BY <1>0 DEF ClipTypes, Sent, Kinds, Clip!Event
<1>3. p \in [who : App, target : Target, has : {"nothing", "piece"}] /\ p.who = a OBVIOUS
<1> HIDE DEF e, p
<1>4. Joined(events, events', e) BY <1>0, <1>1, <1>2, Joins DEF ClipTypes
<1>5. ClipTypes' BY <1>0, <1>1, <1>3, <1>4 DEF ClipTypes, Joined
<1>6. NoneOf(events, {"save"}) BY <1>1 DEF ClipInv, Requested
<1>7. ~Converting BY <1>0, <1>1, ClipboardAssumption DEF ClipInv, Converted, ClipTypes
<1>8. NoneOf(events, Answers) /\ asked = {} BY <1>7 DEF Converting
<1>9. Held(contents, conversions, heap)' BY <1>1 DEF ClipInv
<1>10. InOrder' BY <1>1, <1>2, <1>4, <1>6 DEF ClipInv, InOrder, Joined, Conversion
<1>11. Living' BY <1>1, <1>2, <1>4 DEF ClipInv, Living, Joined
<1>12. Requested' BY <1>2, <1>4, <1>6 DEF Requested, Joined
<1>13. Converted'
  <2>1. NoneOf(events, {"TARGETS"}) /\ NoneOf(events, {"MULTIPLE"}) BY <1>8 DEF NoneOf, Answers
  <2>2. NoneOf(events', Answers) /\ NoneOf(events', {"TARGETS"}) /\ NoneOf(events', {"MULTIPLE"})
    BY <1>2, <1>4, <1>8, <2>1 DEF Joined, Answers
  <2> QED BY <1>1, <1>8, <2>2 DEF Converted, Converting, Listing, Waiting
<1>14. Owned' BY <1>1, <1>2, <1>4 DEF ClipInv, Owned, Joined, Dying, Blank
<1>15. Pasted'
  <2>1. NoneBy(events, {"paste"}, a) /\ \A c \in conversions : c.requestor # a BY <1>1 DEF ClipInv, Pasted
  <2>2. \A b \in App : OneBy(events', {"paste"}, b) BY <1>2, <1>4, <2>1 DEF ClipInv, Pasted, Joined
  <2>3. \A c \in conversions : NoneBy(events', {"paste"}, c.requestor)
    BY <1>2, <1>4, <2>1 DEF ClipInv, Pasted, Joined
  <2>4. \A b \in alive : (\E r \in pasting' : r.who = b) \/
          (NoneBy(events', {"paste"}, b) /\ \A c \in conversions : c.requestor # b)
    BY <1>1, <1>2, <1>3, <1>4 DEF ClipInv, Pasted, Joined
  <2> QED BY <1>1, <2>2, <2>3, <2>4 DEF ClipInv, Pasted
<1> QED BY <1>5, <1>9, <1>10, <1>11, <1>12, <1>13, <1>14, <1>15 DEF ClipInv

LEMMA ReplaceStep ==
  ASSUME ClipInv, Clip!Replace
  PROVE  ClipInv'
<1> DEFINE e == Clip!Event("clear manager", NoOne, now, NoOne)
<1>0. ClipTypes BY DEF ClipInv
<1>1. /\ manages' = FALSE /\ events' = Append(events, e)
      /\ UNCHANGED <<alive, owner, now, asked, written, sending, pasting, heap, contents, conversions, requestor, time>>
  BY DEF Clip!Replace, Clip!server
<1>2. e \in Sent /\ e.is = "clear manager" BY <1>0 DEF ClipTypes, Sent, Kinds, Clip!Event
<1> HIDE DEF e
<1>3. Joined(events, events', e) BY <1>0, <1>1, <1>2, Joins DEF ClipTypes
<1>4. ClipTypes' BY <1>0, <1>1, <1>3 DEF ClipTypes, Joined
<1>5. /\ NoneOf(events', Answers) <=> NoneOf(events, Answers)
      /\ NoneOf(events', {"TARGETS"}) <=> NoneOf(events, {"TARGETS"})
      /\ NoneOf(events', {"MULTIPLE"}) <=> NoneOf(events, {"MULTIPLE"})
      /\ Dying' <=> Dying
  BY <1>1, <1>2, <1>3 DEF Joined, Answers, Dying
<1>6. (Converting' <=> Converting) /\ (Listing' <=> Listing) /\ (Waiting' <=> Waiting) /\ (Blank' <=> Blank)
  BY <1>1, <1>5 DEF Converting, Listing, Waiting, Blank
<1>7. Held(contents, conversions, heap)' BY <1>1 DEF ClipInv
<1>8. InOrder' BY <1>1, <1>2, <1>3 DEF ClipInv, InOrder, Joined, Conversion
<1>9. Living' BY <1>1, <1>2, <1>3 DEF ClipInv, Living, Joined
<1>10. Requested' BY <1>1, <1>2, <1>3 DEF ClipInv, Requested, Joined
<1>11. Converted' BY <1>1, <1>2, <1>3, <1>5, <1>6 DEF ClipInv, Converted, Joined, Answers
<1>12. Owned' BY <1>1, <1>2, <1>3, <1>5, <1>6 DEF ClipInv, Owned, Joined
<1>13. Pasted'
  <2>1. \A a \in App : OneBy(events', {"paste"}, a) BY <1>2, <1>3 DEF ClipInv, Pasted, Joined
  <2>2. \A a : NoneBy(events', {"paste"}, a) <=> NoneBy(events, {"paste"}, a) BY <1>2, <1>3 DEF Joined
  <2> QED BY <1>1, <2>1, <2>2 DEF ClipInv, Pasted
<1> QED BY <1>4, <1>7, <1>8, <1>9, <1>10, <1>11, <1>12, <1>13 DEF ClipInv

\* The list of the targets, in some order.
LEMMA Ordered ==
  ASSUME TRUE
  PROVE  /\ Clip!Cardinality(Target) \in Nat
         /\ Clip!SetToSeq(Target) \in [1 .. Clip!Cardinality(Target) -> Target]
<1> DEFINE n == Cardinality(Target)
           f == Clip!SetToSeq(Target)
<1>1. Clip!Cardinality(Target) = n BY DEF Clip!Cardinality, Cardinality
<1>2. n \in Nat /\ ExistsBijection(1 .. n, Target) BY FS_CardinalityType, ClipboardAssumption
<1>3. PICK g \in [1 .. n -> Target] : Clip!IsInjective(g)
  <2>1. PICK g : g \in Bijection(1 .. n, Target) BY <1>2 DEF ExistsBijection
  <2>2. g \in [1 .. n -> Target] /\ \A a, b \in 1 .. n : g[a] = g[b] => a = b
    BY <2>1 DEF Bijection, Injection, IsInjective
  <2> QED BY <2>2 DEF Clip!IsInjective
<1>4. f \in [1 .. n -> Target] BY <1>1, <1>3 DEF Clip!SetToSeq
<1> HIDE DEF f
<1> QED BY <1>1, <1>2, <1>4 DEF f

\* What is said of a queue, but for events of kind k.
AsBefore(q, r, k) ==
  /\ r \in Seq(Sent)
  /\ \A K : k \notin K => (NoneOf(r, K) <=> NoneOf(q, K))
  /\ \A K, a : k \notin K => (NoneBy(r, K, a) <=> NoneBy(q, K, a))
  /\ \A K, a : k \notin K => (OneBy(r, K, a) <=> OneBy(q, K, a))
  /\ \A K, L : k \notin K \cup L => (NoneAfter(r, K, L) <=> NoneAfter(q, K, L))
  /\ \A K, n : k \notin K => (AllAt(r, K, n) <=> AllAt(q, K, n))

\* The owner's answer ends the request, and comes while the manager waits for it.
LEMMA RequestAnswered ==
  ASSUME Refusing = {}, ClipInv, NEW q \in asked, Clip!Answer(q)
  PROVE  ClipInv'
<1> DEFINE e == Clip!Event(q.what, q.who, q.when, NoOne)
           news == [i \in 1 .. Clip!Cardinality(Target) |-> Clip!Event("new", NoOne, now, Clip!SetToSeq(Target)[i])]
<1>0. ClipTypes BY DEF ClipInv
<1>1. q.who \in App /\ q.what \in {"TARGETS", "MULTIPLE"} /\ q.when \in Nat BY <1>0 DEF ClipTypes
<1>2. asked' = {} /\ q.who = requestor /\ requestor \in alive /\ q.when = now /\ NoneOf(events, Answers)
  BY DEF ClipInv, Converted, Clip!Answer
<1>3. e \in Sent /\ e.is = q.what /\ e.who = requestor /\ e.when = now
  BY <1>0, <1>1, <1>2 DEF Sent, Kinds, ClipTypes, Clip!Event
<1>4. news \in Seq(Sent) /\ \A i \in 1 .. Len(news) : news[i].is = "new"
  <2> DEFINE n == Clip!Cardinality(Target)
             f == Clip!SetToSeq(Target)
  <2>1. n \in Nat /\ f \in [1 .. n -> Target] BY Ordered
  <2> HIDE DEF n, f
  <2>2. \A i \in 1 .. n : Clip!Event("new", NoOne, now, f[i]) \in Sent /\ Clip!Event("new", NoOne, now, f[i]).is = "new"
    BY <1>0, <2>1 DEF Sent, Kinds, ClipTypes, Clip!Event
  <2>3. news = [i \in 1 .. n |-> Clip!Event("new", NoOne, now, f[i])] BY DEF n, f
  <2> HIDE DEF news
  <2>4. news \in [1 .. n -> Sent] BY <2>2, <2>3
  <2>5. news \in Seq(Sent) /\ Len(news) = n BY <2>1, <2>4
  <2> QED BY <2>2, <2>3, <2>5
<1>5. UNCHANGED <<alive, owner, now, pasting, manages, heap, contents, conversions, requestor, time>>
  BY DEF Clip!Answer, Clip!manager
<1> HIDE DEF e, news
<1>6. \E r : AsBefore(events, r, "new") /\ events' = Append(r, e)
  <2>1. CASE q.what = "TARGETS"
    <3>1. e = Clip!Event("TARGETS", q.who, q.when, NoOne) BY <2>1 DEF e
    <3>2. events' = Append(events, e) BY <2>1, <3>1 DEF Clip!Answer
    <3>3. AsBefore(events, events, "new") BY <1>0 DEF AsBefore, ClipTypes
    <3> QED BY <3>2, <3>3
  <2>2. CASE q.what = "MULTIPLE"
    <3>1. e = Clip!Event("MULTIPLE", q.who, q.when, NoOne) BY <2>2 DEF e
    <3>2. events' = events \o news \o <<e>> BY <2>2, <3>1 DEF Clip!Answer, news
    <3>3. AsBefore(events, events \o news, "new") BY <1>0, <1>4, Unnoticed DEF AsBefore, ClipTypes
    <3>4. events \o news \in Seq(Sent) BY <3>3 DEF AsBefore
    <3>5. events' = Append(events \o news, e) BY <1>3, <3>2, <3>4
    <3> QED BY <3>3, <3>5
  <2> QED BY <1>1, <2>1, <2>2
<1>7. PICK r : AsBefore(events, r, "new") /\ events' = Append(r, e) BY <1>6
<1>8. Joined(r, events', e) BY <1>3, <1>7, Joins DEF AsBefore
<1>9. /\ written' \in [Target -> Piece]
      /\ sending' \subseteq [who : App, target : Target, left : {0, 1}]
  <2>1. CASE q.what = "TARGETS" BY <1>0, <2>1 DEF Clip!Answer, ClipTypes
  <2>2. CASE q.what = "MULTIPLE"
    <3>1. /\ written' = [t \in Target |-> IF t \in Long THEN "INCR" ELSE q.who]
          /\ sending' = sending \cup [who : {q.who}, target : Long, left : {1}]
      BY <2>2 DEF Clip!Answer
    <3>2. written' \in [Target -> Piece] BY <1>1, <3>1 DEF Piece
    <3>3. [who : {q.who}, target : Long, left : {1}] \subseteq [who : App, target : Target, left : {0, 1}]
      BY <1>1, ClipboardAssumption
    <3> QED BY <1>0, <3>1, <3>2, <3>3 DEF ClipTypes
  <2> QED BY <1>1, <2>1, <2>2
<1>10. ClipTypes' BY <1>0, <1>2, <1>5, <1>8, <1>9 DEF ClipTypes, Joined
<1>11. requestor # NoOne /\ NoneOf(events, {"save"}) /\ Converting
  BY <1>2 DEF ClipInv, Converted, Converting, Requested
<1>12. /\ NoneOf(events, {"paste", "clear", "None"}) /\ NoneOf(events, {"destroyed"})
       /\ time = now /\ owner \in {requestor, NoOne}
  BY <1>2, <1>11 DEF ClipInv, Converted
<1>13. NoneOf(events, Conversion) /\ NoneOf(events, {"TARGETS"}) /\ NoneOf(events, {"MULTIPLE"})
  BY <1>2, <1>11 DEF NoneOf, Answers, Conversion
<1>14. /\ NoneOf(r, Conversion) /\ NoneOf(r, {"save"}) /\ NoneOf(r, {"TARGETS"}) /\ NoneOf(r, {"MULTIPLE"})
       /\ NoneOf(r, {"paste", "clear", "None"}) /\ NoneOf(r, {"destroyed"})
  BY <1>7, <1>11, <1>12, <1>13 DEF AsBefore, Conversion
<1>15. Held(contents, conversions, heap)' BY <1>5 DEF ClipInv
<1>16. InOrder'
  <2>1. /\ NoneAfter(r, Conversion, Conversion)
        /\ NoneAfter(r, {"save"}, {"paste", "clear", "None", "destroyed"})
        /\ NoneAfter(r, {"clear manager"}, {"save"})
        /\ manages => NoneOf(r, {"clear manager"})
        /\ NoneAfter(r, {"None"}, {"destroyed"})
        /\ AllAt(r, {"save", "MULTIPLE"}, now)
    BY <1>7 DEF ClipInv, InOrder, AsBefore, Conversion
  <2> QED BY <1>1, <1>3, <1>5, <1>8, <1>14, <2>1 DEF InOrder, Joined, Conversion
<1>17. Living'
  <2>1. \A a \in alive : NoneBy(r, {"destroyed"}, a) BY <1>7 DEF ClipInv, Living, AsBefore
  <2> QED BY <1>1, <1>3, <1>5, <1>8, <2>1 DEF ClipInv, Living, Joined
<1>18. Requested' BY <1>1, <1>3, <1>8, <1>14 DEF Requested, Joined
<1>19. /\ NoneOf(events', {"paste", "clear", "None"}) /\ NoneOf(events', {"destroyed"})
       /\ NoneOf(events', {"TARGETS"}) <=> q.what # "TARGETS"
       /\ NoneOf(events', {"MULTIPLE"}) <=> q.what # "MULTIPLE"
  BY <1>1, <1>3, <1>8, <1>14 DEF Joined
<1>20. /\ Listing' => Listing
       /\ Waiting' => Waiting
       /\ Converting'
  <2>1. ~NoneOf(events', Answers) BY <1>1, <1>3, <1>8 DEF Joined, Answers
  <2> QED BY <1>2, <1>19, <2>1 DEF Listing, Waiting, Converting
<1>21. Converted'
  <2>1. requestor' # NoOne /\ time' = now' /\ owner' \in {requestor', NoOne} /\ requestor' \in alive'
    BY <1>2, <1>5, <1>11, <1>12
  <2>2. Listing' => contents' = {} /\ (requestor' \in alive' => owner' = requestor')
    BY <1>5, <1>20 DEF ClipInv, Converted
  <2>3. Waiting' => Blank' /\ \A c \in conversions' : c.data \notin contents'
    BY <1>5, <1>20 DEF ClipInv, Converted, Blank
  <2> QED BY <1>2, <1>19, <2>1, <2>2, <2>3 DEF Converted
<1>22. Owned'
  <2>1. NoneOf(events', {"None"}) BY <1>19 DEF NoneOf
  <2> QED BY <1>5, <1>11, <1>20, <2>1 DEF Owned
<1>23. Pasted'
  <2>1. \A a : NoneBy(events', {"paste"}, a) <=> NoneBy(events, {"paste"}, a)
    BY <1>1, <1>3, <1>7, <1>8 DEF AsBefore, Joined
  <2>2. \A a \in App : OneBy(events', {"paste"}, a)
    BY <1>1, <1>3, <1>7, <1>8 DEF ClipInv, Pasted, AsBefore, Joined
  <2> QED BY <1>5, <2>1, <2>2 DEF ClipInv, Pasted
<1> QED BY <1>10, <1>15, <1>16, <1>17, <1>18, <1>21, <1>22, <1>23 DEF ClipInv

-----------------------------------------------------------------------------
(* The manager's events.                                                   *)

\* The order survives the first event.
LEMMA StillInOrder ==
  ASSUME ClipInv, NEW e, Dispatched(events, events', e), UNCHANGED <<manages, now>>
  PROVE  InOrder'
BY DEF ClipInv, InOrder, Dispatched

LEMMA FirstEvent ==
  ASSUME ClipTypes, NEW k, Clip!First(k)
  PROVE  Dispatched(events, Tail(events), Head(events)) /\ Head(events).is = k
BY Dispatches DEF ClipTypes, Clip!First

\* An event that is not about the request under way.
LEMMA Aside ==
  ASSUME ClipInv, NEW e, Dispatched(events, events', e), e.is \notin Answers, e.is # "clear",
         ~(e.is = "destroyed" /\ e.who = requestor),
         UNCHANGED <<alive, owner, now, asked, manages, contents, requestor, time>>,
         ClipTypes', Held(contents, conversions, heap)', Pasted',
         \A i \in contents : heap'[i].type = heap[i].type,
         Waiting => \A c \in conversions' : c.data \notin contents
  PROVE  ClipInv'
<1>1. InOrder' BY StillInOrder
<1>2. /\ NoneOf(events', Answers) <=> NoneOf(events, Answers)
      /\ NoneOf(events', {"TARGETS"}) <=> NoneOf(events, {"TARGETS"})
      /\ NoneOf(events', {"MULTIPLE"}) <=> NoneOf(events, {"MULTIPLE"})
      /\ NoneOf(events', {"clear"}) <=> NoneOf(events, {"clear"})
      /\ Dying' <=> Dying
  BY DEF Dispatched, Answers, Dying
<1>3. (Converting' <=> Converting) /\ (Listing' <=> Listing) /\ (Waiting' <=> Waiting) /\ (Blank' <=> Blank)
  BY <1>2 DEF Converting, Listing, Waiting, Blank
<1>4. Living' BY DEF ClipInv, Living, Dispatched
<1>5. Requested' BY DEF ClipInv, Requested, Dispatched
<1>6. Converted'
  <2>1. Waiting' => Blank' /\ \A c \in conversions' : c.data \notin contents' BY <1>3 DEF ClipInv, Converted
  <2>2. Converting' => NoneOf(events', {"paste", "clear", "None"}) BY <1>3 DEF ClipInv, Converted, Dispatched
  <2>3. Converting' => IF requestor' \in alive' THEN NoneOf(events', {"destroyed"})
                       ELSE Dying' /\ NoneAfter(events', {"destroyed"}, Answers)
    BY <1>2, <1>3 DEF ClipInv, Converted, Dispatched
  <2> QED BY <1>2, <1>3, <2>1, <2>2, <2>3 DEF ClipInv, Converted
<1>7. Owned' BY <1>2, <1>3 DEF ClipInv, Owned, Dispatched
<1> QED BY <1>1, <1>4, <1>5, <1>6, <1>7 DEF ClipInv

LEMMA PastedAsBefore ==
  ASSUME ClipInv, NEW e, Dispatched(events, events', e), UNCHANGED <<alive, pasting, conversions>>
  PROVE  Pasted'
<1>1. \A a \in App : OneBy(events', {"paste"}, a) BY DEF ClipInv, Pasted, Dispatched
<1>2. \A a : NoneBy(events, {"paste"}, a) => NoneBy(events', {"paste"}, a) BY DEF Dispatched
<1> QED BY <1>1, <1>2 DEF ClipInv, Pasted

\* An event that changes nothing.
LEMMA Ignored ==
  ASSUME ClipInv, NEW e, Dispatched(events, events', e), e.is \notin Answers, e.is # "clear",
         ~(e.is = "destroyed" /\ e.who = requestor),
         UNCHANGED <<alive, owner, now, asked, written, sending, pasting, manages, heap, contents, conversions, requestor, time>>
  PROVE  ClipInv'
<1>1. ClipTypes' BY DEF ClipInv, ClipTypes, Dispatched
<1>2. Pasted' BY PastedAsBefore
<1>3. Held(contents, conversions, heap)' BY DEF ClipInv
<1>4. Waiting => \A c \in conversions' : c.data \notin contents BY DEF ClipInv, Converted
<1> QED BY <1>1, <1>2, <1>3, <1>4, Aside

-----------------------------------------------------------------------------
(* The memory.                                                             *)
\* Who holds the data at an address can be counted.
LEMMA UsersCounted ==
  ASSUME NEW C, IsFiniteSet(C), NEW i
  PROVE  /\ IsFiniteSet(Users(C, i)) /\ Cardinality(Users(C, i)) \in Nat
         /\ \A c \in C : c.data = i => Cardinality(Users(C, i)) > 0
         /\ Cardinality(Users(C, i)) > 0 => \E c \in C : c.data = i
<1> DEFINE U == Users(C, i)
<1>1. U \subseteq C BY DEF Users
<1>2. IsFiniteSet(U) BY <1>1, FS_Subset
<1>3. Cardinality(U) \in Nat /\ (Cardinality(U) = 0 <=> U = {}) BY <1>2, FS_CardinalityType, FS_EmptySet
<1>4. \A c : c \in U <=> c \in C /\ c.data = i BY DEF Users
<1> HIDE DEF U
<1> QED BY <1>2, <1>3, <1>4 DEF U

LEMMA UserAdded ==
  ASSUME NEW C, IsFiniteSet(C), NEW c, c \notin C, NEW i
  PROVE  /\ c.data = i => Cardinality(Users(C \cup {c}, i)) = Cardinality(Users(C, i)) + 1
         /\ c.data # i => Users(C \cup {c}, i) = Users(C, i)
<1>1. IsFiniteSet(Users(C, i)) BY UsersCounted
<1>2. c \notin Users(C, i) BY DEF Users
<1>3. ASSUME c.data = i PROVE Users(C \cup {c}, i) = Users(C, i) \cup {c} BY <1>3 DEF Users
<1>4. ASSUME c.data # i PROVE Users(C \cup {c}, i) = Users(C, i) BY <1>4 DEF Users
<1> QED BY <1>1, <1>2, <1>3, <1>4, FS_AddElement

\* All of contents is given up.
LEMMA DropStep ==
  ASSUME ClipTypes, Held(contents, conversions, heap), Clip!DropContents, UNCHANGED conversions
  PROVE  /\ contents' = {} /\ heap' \in [Clip!Address -> Data]
         /\ Held(contents, conversions, heap)'
<1>1. contents' = {} /\ heap' = [i \in Clip!Address |->
        IF i \notin contents THEN heap[i]
        ELSE IF heap[i].refcount = 1 THEN Clip!Freed ELSE [heap[i] EXCEPT !.refcount = @ - 1]]
  BY DEF Clip!DropContents, Clip!Unref
<1>2. IsFiniteSet(conversions) /\ \A c \in conversions : c.data \in Clip!Address BY DEF ClipTypes, Transfer
<1>3. ASSUME NEW i \in Clip!Address
      PROVE  /\ heap'[i] \in Data /\ heap'[i].refcount = Cardinality(Users(conversions, i))
             /\ Cardinality(Users(conversions, i)) > 0 => heap'[i].from = heap[i].from /\ heap'[i].type = heap[i].type
  <2> DEFINE n == Cardinality(Users(conversions, i))
  <2>1. n \in Nat BY <1>2, UsersCounted
  <2>2. heap[i] \in Data /\ heap[i].refcount = (IF i \in contents THEN 1 ELSE 0) + n BY DEF Held, ClipTypes
  <2> HIDE DEF n
  <2>3. heap'[i] \in Data /\ heap'[i].refcount = n /\ (n > 0 => heap'[i].from = heap[i].from /\ heap'[i].type = heap[i].type)
    <3>1. CASE i \notin contents
      <4>1. heap'[i] = heap[i] BY <1>1, <3>1
      <4>2. heap[i].refcount = n BY <2>1, <2>2, <3>1
      <4> QED BY <2>2, <4>1, <4>2
    <3>2. CASE i \in contents /\ n = 0
      <4>1. heap[i].refcount = 1 BY <2>2, <3>2
      <4>2. heap'[i] = Clip!Freed BY <1>1, <3>2, <4>1
      <4>3. Clip!Freed \in Data BY DEF Clip!Freed, Data
      <4>4. Clip!Freed.refcount = 0 BY DEF Clip!Freed
      <4> QED BY <3>2, <4>2, <4>3, <4>4
    <3>3. CASE i \in contents /\ n # 0
      <4>1. heap[i].refcount = n + 1 BY <2>1, <2>2, <3>3
      <4>2. heap'[i] = [heap[i] EXCEPT !.refcount = @ - 1] BY <1>1, <2>1, <3>3, <4>1
      <4>3. heap[i].refcount - 1 = n BY <2>1, <4>1
      <4>4. heap'[i] \in Data /\ heap'[i].refcount = n /\ heap'[i].from = heap[i].from /\ heap'[i].type = heap[i].type
        BY <2>1, <2>2, <4>2, <4>3 DEF Data
      <4> QED BY <4>4
    <3> QED BY <2>1, <3>1, <3>2, <3>3
  <2> QED BY <2>3 DEF n
<1>4. heap' \in [Clip!Address -> Data] BY <1>1, <1>3
<1>5. \A i \in Clip!Address :
        heap'[i].refcount = (IF i \in contents' THEN 1 ELSE 0) + Cardinality(Users(conversions', i))
  <2> TAKE i \in Clip!Address
  <2> DEFINE n == Cardinality(Users(conversions, i))
  <2>1. n \in Nat BY <1>2, UsersCounted
  <2>2. heap'[i].refcount = n /\ i \notin contents' BY <1>1, <1>3
  <2>3. Cardinality(Users(conversions', i)) = n OBVIOUS
  <2> HIDE DEF n
  <2> QED BY <2>1, <2>2, <2>3
<1>6. \A c \in conversions' : heap'[c.data].from = c.was /\ heap'[c.data].type # "INCR"
  <2> TAKE c \in conversions'
  <2>1. c.data \in Clip!Address /\ Cardinality(Users(conversions, c.data)) > 0 BY <1>2, UsersCounted
  <2> QED BY <1>3, <2>1 DEF Held
<1> QED BY <1>1, <1>4, <1>5, <1>6 DEF Held

LEMMA NoneStep ==
  ASSUME ClipInv, Clip!HandleNone
  PROVE  ClipInv'
<1>0. ClipTypes BY DEF ClipInv
<1> DEFINE e == Head(events)
<1>1. Dispatched(events, Tail(events), e) /\ e.is = "None" BY <1>0, FirstEvent DEF Clip!HandleNone
<1> HIDE DEF e
<1>2. /\ events' = Tail(events) /\ requestor' = NoOne
      /\ UNCHANGED <<alive, owner, now, asked, written, sending, pasting, manages, heap, contents, conversions, time>>
  BY DEF Clip!HandleNone, Clip!Handled, Clip!server
<1>3. Dispatched(events, events', e) BY <1>1, <1>2
<1>4. ~NoneOf(events, {"None"}) /\ NoneOf(events', {"destroyed"})
  BY <1>1, <1>3 DEF ClipInv, InOrder, Dispatched
<1>5. ~Dying
  <2>1. NoneBy(events', {"destroyed"}, requestor) BY <1>4 DEF NoneOf, NoneBy
  <2> QED BY <1>1, <1>3, <2>1 DEF Dying, Dispatched
<1>6. requestor = NoOne BY <1>4, <1>5 DEF ClipInv, Owned
<1>7. ~Converting BY <1>6 DEF ClipInv, Converted
<1>8. asked = {} /\ NoneOf(events, Answers) BY <1>7 DEF Converting
<1>9. ClipTypes' BY <1>0, <1>2, <1>3 DEF ClipTypes, Dispatched
<1>10. Held(contents, conversions, heap)' BY <1>2 DEF ClipInv
<1>11. InOrder' BY <1>2, <1>3, StillInOrder
<1>12. Living' BY <1>1, <1>2, <1>3 DEF ClipInv, Living, Dispatched
<1>13. Requested' BY <1>1, <1>2, <1>3 DEF ClipInv, Requested, Dispatched
<1>14. Converted'
  <2>1. NoneOf(events', Answers) BY <1>3, <1>8 DEF Dispatched
  <2>2. NoneOf(events', {"TARGETS"}) /\ NoneOf(events', {"MULTIPLE"}) BY <2>1 DEF NoneOf, Answers
  <2> QED BY <1>2, <1>8, <2>1, <2>2 DEF Converted, Converting, Listing, Waiting
<1>15. Owned' BY <1>1, <1>2, <1>3, <1>6 DEF ClipInv, Owned, Dispatched
<1>16. Pasted' BY <1>2, <1>3, PastedAsBefore
<1> QED BY <1>9, <1>10, <1>11, <1>12, <1>13, <1>14, <1>15, <1>16 DEF ClipInv

LEMMA ClearStep ==
  ASSUME ClipInv, Clip!HandleClear
  PROVE  ClipInv'
<1>0. ClipTypes BY DEF ClipInv
<1> DEFINE e == Head(events)
<1>1. Dispatched(events, Tail(events), e) /\ e.is = "clear" BY <1>0, FirstEvent DEF Clip!HandleClear
<1> HIDE DEF e
<1>2. /\ events' = Tail(events) /\ requestor' = NoOne /\ Clip!DropContents
      /\ UNCHANGED <<alive, owner, now, asked, written, sending, pasting, manages, conversions, time>>
  BY DEF Clip!HandleClear, Clip!Handled, Clip!server
<1>3. Dispatched(events, events', e) BY <1>1, <1>2
<1>4. /\ contents' = {} /\ heap' \in [Clip!Address -> Data]
      /\ Held(contents, conversions, heap)'
  BY <1>0, <1>2, DropStep DEF ClipInv
<1>5. ~NoneOf(events, {"paste", "clear", "None"}) BY <1>1, <1>3 DEF Dispatched
<1>6. ~Converting BY <1>5 DEF ClipInv, Converted
<1>7. asked = {} /\ NoneOf(events, Answers) BY <1>6 DEF Converting
<1>8. ClipTypes' BY <1>0, <1>2, <1>3, <1>4 DEF ClipTypes, Dispatched
<1>9. InOrder' BY <1>2, <1>3, StillInOrder
<1>10. Living' BY <1>1, <1>2, <1>3 DEF ClipInv, Living, Dispatched
<1>11. Requested' BY <1>1, <1>2, <1>3 DEF ClipInv, Requested, Dispatched
<1>12. Converted'
  <2>1. NoneOf(events', Answers) BY <1>3, <1>7 DEF Dispatched
  <2>2. NoneOf(events', {"TARGETS"}) /\ NoneOf(events', {"MULTIPLE"}) BY <2>1 DEF NoneOf, Answers
  <2> QED BY <1>2, <1>7, <2>1, <2>2 DEF Converted, Converting, Listing, Waiting
<1>13. Owned' BY <1>2, <1>4 DEF Owned
<1>14. Pasted' BY <1>2, <1>3, PastedAsBefore
<1> QED BY <1>4, <1>8, <1>9, <1>10, <1>11, <1>12, <1>13, <1>14 DEF ClipInv

LEMMA DestroyedStep ==
  ASSUME ClipInv, Clip!HandleDestroyed
  PROVE  ClipInv'
<1>0. ClipTypes BY DEF ClipInv
<1> DEFINE e == Head(events)
<1>1. Dispatched(events, Tail(events), e) /\ e.is = "destroyed" BY <1>0, FirstEvent DEF Clip!HandleDestroyed
<1>2. /\ events' = Tail(events)
      /\ UNCHANGED <<alive, owner, now, asked, written, sending, pasting, manages, conversions, time>>
  BY DEF Clip!HandleDestroyed, Clip!Handled, Clip!server
<1>3. Dispatched(events, events', e) BY <1>1, <1>2
<1>4. CASE e.who # requestor
  <2>1. UNCHANGED <<heap, contents, requestor>> BY <1>4 DEF Clip!HandleDestroyed
  <2>2. e.is \notin Answers /\ e.is # "clear" BY <1>1 DEF Answers
  <2> HIDE DEF e
  <2> QED BY <1>2, <1>3, <1>4, <2>1, <2>2, Ignored
<1>5. CASE e.who = requestor
  <2>1. Clip!DropContents /\ requestor' = NoOne BY <1>5 DEF Clip!HandleDestroyed
  <2> HIDE DEF e
  <2>2. /\ contents' = {} /\ heap' \in [Clip!Address -> Data]
        /\ Held(contents, conversions, heap)'
    BY <1>0, <1>2, <2>1, DropStep DEF ClipInv
  <2>3. asked' = {} /\ NoneOf(events', Answers)
    <3>1. CASE ~Converting
      <4>1. asked = {} /\ NoneOf(events, Answers) BY <3>1 DEF Converting
      <4> QED BY <1>2, <1>3, <4>1 DEF Dispatched
    <3>2. CASE Converting
      <4>1. ~NoneOf(events, {"destroyed"}) BY <1>1, <1>3 DEF Dispatched
      <4>2. requestor \notin alive /\ NoneAfter(events, {"destroyed"}, Answers)
        BY <3>2, <4>1 DEF ClipInv, Converted
      <4>3. asked = {} BY <4>2 DEF ClipInv, Converted
      <4> QED BY <1>1, <1>2, <1>3, <4>2, <4>3 DEF Dispatched
    <3> QED BY <3>1, <3>2
  <2>4. NoneOf(events', {"TARGETS"}) /\ NoneOf(events', {"MULTIPLE"}) BY <2>3 DEF NoneOf, Answers
  <2>5. ClipTypes' BY <1>0, <1>2, <1>3, <2>1, <2>2 DEF ClipTypes, Dispatched
  <2>6. InOrder' BY <1>2, <1>3, StillInOrder
  <2>7. Living' BY <1>1, <1>2, <1>3 DEF ClipInv, Living, Dispatched
  <2>8. Requested' BY <1>1, <1>2, <1>3, <2>1 DEF ClipInv, Requested, Dispatched
  <2>9. Converted' BY <2>3, <2>4 DEF Converted, Converting, Listing, Waiting
  <2>10. Owned' BY <2>1, <2>2 DEF Owned
  <2>11. Pasted' BY <1>2, <1>3, PastedAsBefore
  <2> QED BY <2>2, <2>5, <2>6, <2>7, <2>8, <2>9, <2>10, <2>11 DEF ClipInv
<1> QED BY <1>4, <1>5

LEMMA ClearManagerStep ==
  ASSUME ClipInv, Clip!HandleClearManager
  PROVE  ClipInv'
<1>0. ClipTypes BY DEF ClipInv
<1> DEFINE h == Head(events)
           e == Clip!Event("clear", NoOne, now, NoOne)
           q == Tail(events)
<1>1. Dispatched(events, q, h) /\ h.is = "clear manager" BY <1>0, FirstEvent DEF Clip!HandleClearManager
<1>2. UNCHANGED <<alive, now, asked, written, sending, pasting, manages, conversions, requestor, time>>
  BY DEF Clip!HandleClearManager
<1>3. CASE contents = {}
  <2>1. events' = q /\ UNCHANGED <<owner, heap, contents>> BY <1>3 DEF Clip!HandleClearManager, Clip!Handled
  <2>2. h.is \notin Answers /\ h.is \notin {"clear", "destroyed"} BY <1>1 DEF Answers
  <2>3. Dispatched(events, events', h) BY <1>1, <2>1
  <2> HIDE DEF h, q
  <2> QED BY <1>2, <2>1, <2>2, <2>3, Ignored
<1>4. CASE contents # {}
  <2>1. /\ Clip!DropContents /\ owner' = (IF time >= now THEN NoOne ELSE owner)
        /\ events' = IF owner' # owner /\ owner = Manager THEN Append(q, e) ELSE q
    BY <1>4 DEF Clip!HandleClearManager
  <2>2. e \in Sent /\ e.is = "clear" BY <1>0 DEF ClipTypes, Sent, Kinds, Clip!Event
  <2> HIDE DEF h, q, e
  <2>3. /\ contents' = {} /\ heap' \in [Clip!Address -> Data]
        /\ Held(contents, conversions, heap)'
    BY <1>0, <1>2, <2>1, DropStep DEF ClipInv
  <2>4. events' = q \/ (owner = Manager /\ Joined(q, events', e)) BY <1>1, <2>1, <2>2, Joins DEF Dispatched
  <2>5. /\ NoneAfter(q, Conversion, Conversion)
        /\ NoneAfter(q, {"save"}, {"paste", "clear", "None", "destroyed"})
        /\ NoneAfter(q, {"clear manager"}, {"save"})
        /\ manages => NoneOf(q, {"clear manager"})
        /\ NoneAfter(q, {"None"}, {"destroyed"})
        /\ AllAt(q, {"save", "MULTIPLE"}, now)
        /\ NoneOf(q, {"save"})
    BY <1>1 DEF ClipInv, InOrder, Dispatched
  <2>6. Converting => owner # Manager /\ time = now /\ ~Listing
    BY <1>0, <1>4, ClipboardAssumption DEF ClipInv, Converted, ClipTypes
  <2>7. /\ NoneOf(events', Answers) <=> NoneOf(events, Answers)
        /\ NoneOf(events', {"TARGETS"}) <=> NoneOf(events, {"TARGETS"})
        /\ NoneOf(events', {"MULTIPLE"}) <=> NoneOf(events, {"MULTIPLE"})
        /\ NoneOf(events', {"destroyed"}) <=> NoneOf(events, {"destroyed"})
        /\ NoneOf(events', {"None"}) <=> NoneOf(events, {"None"})
        /\ NoneOf(events', {"save"})
    BY <1>1, <2>2, <2>4, <2>5 DEF Joined, Dispatched, Answers
  <2>8. /\ \A K, a : "clear" \notin K => (NoneBy(events', K, a) <=> NoneBy(q, K, a))
        /\ \A K, a : "clear" \notin K => (OneBy(events', K, a) <=> OneBy(q, K, a))
    <3>1. CASE events' = q BY <3>1
    <3>2. CASE Joined(q, events', e) BY <2>2, <3>2 DEF Joined
    <3> QED BY <2>4, <3>1, <3>2
  <2>9. Dying' <=> Dying BY <1>1, <1>2, <2>8 DEF Dispatched, Dying
  <2>10. (Converting' <=> Converting) /\ (Listing' <=> Listing) /\ (Waiting' <=> Waiting)
    BY <1>2, <2>7 DEF Converting, Listing, Waiting
  <2>11. ClipTypes' BY <1>0, <1>1, <1>2, <2>1, <2>3, <2>4 DEF ClipTypes, Joined, Dispatched
  <2>12. InOrder' BY <1>2, <2>2, <2>4, <2>5 DEF InOrder, Joined, Conversion
  <2>13. Living' BY <1>1, <1>2, <2>1, <2>8 DEF ClipInv, Living, Dispatched
  <2>14. Requested' BY <2>7 DEF Requested
  <2>15. Converted'
    <3>1. ASSUME Converting'
          PROVE  /\ requestor' # NoOne /\ time' = now' /\ owner' \in {requestor', NoOne}
                 /\ NoneOf(events', {"paste", "clear", "None"})
                 /\ IF requestor' \in alive' THEN NoneOf(events', {"destroyed"})
                    ELSE Dying' /\ NoneAfter(events', {"destroyed"}, Answers)
      <4>1. Converting /\ owner # Manager BY <2>6, <2>10, <3>1
      <4>2. events' = q BY <2>4, <4>1
      <4>3. NoneOf(events', {"paste", "clear", "None"}) BY <1>1, <4>1, <4>2 DEF ClipInv, Converted, Dispatched
      <4>4. NoneAfter(events, {"destroyed"}, Answers) => NoneAfter(events', {"destroyed"}, Answers)
        BY <1>1, <4>2 DEF Dispatched
      <4> QED BY <1>2, <2>1, <2>7, <2>9, <4>1, <4>3, <4>4 DEF ClipInv, Converted
    <3>2. ~Listing' BY <2>6, <2>10, AskedFor, <1>0
    <3>3. Blank' BY <2>3 DEF Blank
    <3>4. \A x, y \in asked' : x = y BY <1>2 DEF ClipInv, Converted
    <3>5. \A x \in asked' : x.who = requestor' /\ x.who \in alive' /\ x.when = now' /\ NoneOf(events', Answers)
      BY <1>2, <2>7 DEF ClipInv, Converted
    <3> QED BY <2>3, <3>1, <3>2, <3>3, <3>4, <3>5 DEF Converted
  <2>16. Owned' BY <1>2, <2>3, <2>7, <2>9 DEF ClipInv, Owned
  <2>17. Pasted'
    <3>1. \A a \in App : OneBy(events', {"paste"}, a) BY <1>1, <2>8 DEF ClipInv, Pasted, Dispatched
    <3>2. \A a : NoneBy(events, {"paste"}, a) => NoneBy(events', {"paste"}, a)
      BY <1>1, <2>8 DEF Dispatched
    <3> QED BY <1>2, <3>1, <3>2 DEF ClipInv, Pasted
  <2> QED BY <2>3, <2>11, <2>12, <2>13, <2>14, <2>15, <2>16, <2>17 DEF ClipInv
<1> QED BY <1>3, <1>4

\* Room for the targets is room nobody uses.
LEMMA RoomMade ==
  ASSUME ClipTypes, Held(contents, conversions, heap), contents = {}, NEW n, Clip!SaveTargets(n),
         UNCHANGED conversions
  PROVE  /\ heap' \in [Clip!Address -> Data] /\ contents' \subseteq Clip!Address
         /\ Held(contents, conversions, heap)' /\ Blank'
         /\ \A c \in conversions' : c.data \notin contents'
         /\ Clip!Convert("MULTIPLE", n)
<1> DEFINE new == CHOOSE f \in Clip!Rooms : TRUE
           T(i) == CHOOSE t \in Target : new[t] = i
           d(i) == [target |-> T(i), type |-> "none", from |-> {}, refcount |-> 1]
<1>1. new \in Clip!Rooms BY DEF Clip!SaveTargets
<1>2. \A t \in Target : new[t] \in Clip!Address /\ heap[new[t]].refcount = 0 BY <1>1 DEF Clip!Rooms
<1>3. /\ heap' = [i \in Clip!Address |-> IF \E t \in Target : new[t] = i THEN d(i) ELSE heap[i]]
      /\ contents' = contents \cup {new[t] : t \in Target}
      /\ Clip!Convert("MULTIPLE", n)
  BY DEF Clip!SaveTargets
<1>4. \A i : (\E t \in Target : new[t] = i) => T(i) \in Target OBVIOUS
<1> HIDE DEF new, T
<1>5. contents' = {new[t] : t \in Target} BY <1>3
<1>6. \A i : i \in contents' <=> \E t \in Target : new[t] = i BY <1>5
<1>7. \A i \in contents' : i \in Clip!Address /\ heap[i].refcount = 0 /\ heap'[i] = d(i) BY <1>2, <1>3, <1>6
<1>8. \A i \in Clip!Address : i \notin contents' => heap'[i] = heap[i] BY <1>3, <1>6
<1>9. \A i \in contents' : d(i) \in Data BY <1>4, <1>6 DEF Data
<1>10. \A i \in contents' : d(i).refcount = 1 /\ d(i).type = "none" OBVIOUS
<1> HIDE DEF d
<1>11. heap' \in [Clip!Address -> Data]
  <2>1. \A i \in Clip!Address : heap'[i] \in Data BY <1>7, <1>8, <1>9 DEF ClipTypes
  <2> QED BY <1>3, <2>1
<1>12. \A i \in Clip!Address : heap[i].refcount = Cardinality(Users(conversions, i)) /\ Cardinality(Users(conversions, i)) \in Nat
  <2> TAKE i \in Clip!Address
  <2> DEFINE k == Cardinality(Users(conversions, i))
  <2>1. k \in Nat BY UsersCounted DEF ClipTypes
  <2>2. heap[i].refcount = (IF i \in contents THEN 1 ELSE 0) + k BY DEF Held
  <2> HIDE DEF k
  <2>3. heap[i].refcount = k BY <2>1, <2>2
  <2> QED BY <2>1, <2>3 DEF k
<1>13. \A c \in conversions : c.data \in Clip!Address /\ c.data \notin contents'
  <2> TAKE c \in conversions
  <2>1. c.data \in Clip!Address BY DEF ClipTypes, Transfer
  <2>2. Cardinality(Users(conversions, c.data)) > 0 BY UsersCounted DEF ClipTypes
  <2> QED BY <1>7, <1>12, <2>1, <2>2
<1>14. \A i \in Clip!Address :
         heap'[i].refcount = (IF i \in contents' THEN 1 ELSE 0) + Cardinality(Users(conversions', i))
  <2> TAKE i \in Clip!Address
  <2> DEFINE k == Cardinality(Users(conversions, i))
  <2>1. k \in Nat /\ heap[i].refcount = k BY <1>12
  <2>2. Cardinality(Users(conversions', i)) = k OBVIOUS
  <2> HIDE DEF k
  <2>3. CASE i \in contents' BY <1>7, <1>10, <2>1, <2>2, <2>3
  <2>4. CASE i \notin contents' BY <1>8, <2>1, <2>2, <2>4
  <2> QED BY <2>3, <2>4
<1>15. \A c \in conversions' : heap'[c.data].from = c.was /\ heap'[c.data].type # "INCR"
  BY <1>8, <1>13 DEF Held
<1>16. contents' \subseteq Clip!Address BY <1>7
<1>17. Blank' BY <1>7, <1>10 DEF Blank
<1> QED BY <1>3, <1>11, <1>13, <1>14, <1>15, <1>16, <1>17 DEF Held

\* The owner, who is the requestor, is asked to convert.
LEMMA OwnerAsked ==
  ASSUME ClipInv, NEW e, Dispatched(events, events', e), e.is \in {"save", "TARGETS"},
         NEW what \in {"TARGETS", "MULTIPLE"}, asked' = {[who |-> owner, what |-> what, when |-> now]},
         requestor' = owner, owner \in alive, time' = now,
         UNCHANGED <<alive, owner, now, written, sending, pasting, manages, conversions>>,
         heap' \in [Clip!Address -> Data], contents' \subseteq Clip!Address, Held(contents, conversions, heap)',
         IF what = "TARGETS" THEN contents' = {} ELSE Blank' /\ \A c \in conversions' : c.data \notin contents',
         NoneOf(events', {"paste", "clear", "None"}), NoneOf(events', {"destroyed"})
  PROVE  ClipInv'
<1>0. ClipTypes BY DEF ClipInv
<1>1. owner \in App /\ owner # NoOne BY <1>0, ClipboardAssumption DEF ClipTypes
<1>2. \E r : r = [who |-> owner, what |-> what, when |-> now] OBVIOUS
<1>3. PICK r : r = [who |-> owner, what |-> what, when |-> now] BY <1>2
<1>4. /\ asked' = {r} /\ r.who = owner /\ r.what = what /\ r.when = now
      /\ r \in [who : App, what : {"TARGETS", "MULTIPLE"}, when : Nat]
  BY <1>0, <1>1, <1>3 DEF ClipTypes
<1>5. ClipTypes' BY <1>0, <1>1, <1>4 DEF ClipTypes, Dispatched
<1>6. InOrder' BY StillInOrder
<1>7. NoneOf(events', Conversion) BY DEF ClipInv, InOrder, Dispatched, Conversion
<1>8. /\ NoneOf(events', Answers) /\ NoneOf(events', {"TARGETS"}) /\ NoneOf(events', {"MULTIPLE"})
      /\ NoneOf(events', {"save"}) /\ NoneOf(events', {"None"})
  BY <1>7 DEF NoneOf, Answers, Conversion
<1>9. Living' BY DEF ClipInv, Living, Dispatched
<1>10. Requested' BY <1>8 DEF Requested
<1>11. Converting' /\ (Listing' <=> what = "TARGETS") /\ (Waiting' <=> what = "MULTIPLE")
  BY <1>4, <1>8 DEF Converting, Listing, Waiting
<1>12. Converted' BY <1>1, <1>4, <1>8, <1>11 DEF Converted
<1>13. Owned' BY <1>1, <1>8, <1>11 DEF Owned
<1>14. Pasted' BY PastedAsBefore
<1> QED BY <1>5, <1>6, <1>9, <1>10, <1>12, <1>13, <1>14 DEF ClipInv

LEMMA HandleSaveStep ==
  ASSUME ClipInv, Clip!HandleSave
  PROVE  ClipInv'
<1>0. ClipTypes BY DEF ClipInv
<1> DEFINE e == Head(events)
           q == Tail(events)
           what == IF e.what = "targets" THEN "MULTIPLE" ELSE "TARGETS"
           request == [who |-> owner, what |-> what, when |-> e.when]
<1>1. Dispatched(events, q, e) /\ e.is = "save" BY <1>0, FirstEvent DEF Clip!HandleSave
<1>2. CASE requestor # NoOne \/ contents # {} \/ e.who \notin alive
  <2>1. events' = q /\ UNCHANGED <<Clip!server, Clip!manager>> BY <1>2 DEF Clip!HandleSave, Clip!Handled
  <2>2. UNCHANGED <<alive, owner, now, asked, written, sending, pasting, manages, heap, contents, conversions, requestor, time>>
    BY <2>1 DEF Clip!server, Clip!manager
  <2>3. Dispatched(events, events', e) BY <1>1, <2>1
  <2>4. e.is \notin Answers /\ e.is \notin {"clear", "destroyed"} BY <1>1 DEF Answers
  <2> HIDE DEF e, q
  <2> QED BY <2>2, <2>3, <2>4, Ignored
<1>3. CASE requestor = NoOne /\ contents = {} /\ e.who \in alive
  <2>1. /\ requestor' = e.who /\ time' = e.when
        /\ IF e.what = "targets" THEN Clip!SaveTargets(e.when) ELSE Clip!Convert("TARGETS", e.when) /\ UNCHANGED <<heap, contents>>
        /\ UNCHANGED <<alive, owner, now, written, sending, pasting, manages, conversions>>
    BY <1>3 DEF Clip!HandleSave
  <2>2. ~NoneOf(events, {"save"}) /\ ~NoneBy(events, {"save"}, e.who) BY <1>1 DEF Dispatched
  <2>3. owner = e.who /\ owner # NoOne /\ owner # Manager /\ owner \in App
    BY <1>0, <1>3, <2>2, ClipboardAssumption DEF ClipInv, Requested, ClipTypes
  <2>4. e.when = now BY <1>1 DEF ClipInv, InOrder, Dispatched
  <2>5. ~Converting BY <1>3 DEF ClipInv, Converted
  <2>6. asked = {} BY <2>5 DEF Converting
  <2>7. CASE e.what = "targets"
    <3>1. Clip!SaveTargets(e.when) BY <2>1, <2>7
    <3>2. /\ heap' \in [Clip!Address -> Data] /\ contents' \subseteq Clip!Address
          /\ Held(contents, conversions, heap)' /\ Blank'
          /\ \A c \in conversions' : c.data \notin contents'
          /\ Clip!Convert("MULTIPLE", e.when)
      BY <1>0, <1>3, <2>1, <3>1, RoomMade DEF ClipInv
    <3>3. asked' = {[who |-> owner, what |-> "MULTIPLE", when |-> now]} /\ events' = q
      BY <2>3, <2>4, <2>6, <3>2 DEF Clip!Convert
    <3>4. Dispatched(events, events', e) BY <1>1, <3>3
    <3>5. NoneOf(events', {"paste", "clear", "None", "destroyed"}) BY <1>1, <3>4 DEF ClipInv, InOrder, Dispatched
    <3>6. NoneOf(events', {"paste", "clear", "None"}) /\ NoneOf(events', {"destroyed"}) BY <3>5 DEF NoneOf
    <3> HIDE DEF e, q
    <3> QED BY <1>1, <1>3, <2>1, <2>3, <2>4, <3>2, <3>3, <3>4, <3>6, OwnerAsked
  <2>8. CASE e.what # "targets"
    <3>1. Clip!Convert("TARGETS", e.when) /\ UNCHANGED <<heap, contents>> BY <2>1, <2>8
    <3>2. asked' = {[who |-> owner, what |-> "TARGETS", when |-> now]} /\ events' = q
      BY <2>3, <2>4, <2>6, <3>1 DEF Clip!Convert
    <3>3. Dispatched(events, events', e) BY <1>1, <3>2
    <3>4. NoneOf(events', {"paste", "clear", "None", "destroyed"}) BY <1>1, <3>3 DEF ClipInv, InOrder, Dispatched
    <3>5. NoneOf(events', {"paste", "clear", "None"}) /\ NoneOf(events', {"destroyed"}) BY <3>4 DEF NoneOf
    <3>6. /\ heap' \in [Clip!Address -> Data] /\ contents' \subseteq Clip!Address
          /\ Held(contents, conversions, heap)' /\ contents' = {}
      BY <1>0, <1>3, <2>1, <3>1 DEF ClipInv, ClipTypes
    <3> HIDE DEF e, q
    <3> QED BY <1>1, <1>3, <2>1, <2>3, <2>4, <3>2, <3>3, <3>5, <3>6, OwnerAsked
  <2> QED BY <2>7, <2>8
<1> QED BY <1>2, <1>3

\* Without an owner the server refuses, and the requestor is dying.
LEMMA TargetsStep ==
  ASSUME ClipInv, Clip!HandleTargets
  PROVE  ClipInv'
<1>0. ClipTypes BY DEF ClipInv
<1> DEFINE h == Head(events)
           q == Tail(events)
           e == Clip!Event("None", NoOne, time, NoOne)
<1>1. Dispatched(events, q, h) /\ h.is = "TARGETS" BY <1>0, FirstEvent DEF Clip!HandleTargets
<1>2. ~NoneOf(events, {"TARGETS"}) /\ ~NoneOf(events, Answers) BY <1>1 DEF Dispatched, Answers
<1>3. Converting /\ Listing BY <1>2 DEF Converting, Listing
<1>4. asked = {} /\ contents = {} BY <1>2, <1>3 DEF ClipInv, Converted
<1>5. UNCHANGED <<alive, owner, now, written, sending, pasting, manages, conversions, requestor, time>>
  BY DEF Clip!HandleTargets
<1>6. /\ heap' \in [Clip!Address -> Data] /\ contents' \subseteq Clip!Address
      /\ Held(contents, conversions, heap)' /\ Blank'
      /\ \A c \in conversions' : c.data \notin contents'
      /\ Clip!Convert("MULTIPLE", time)
  <2>1. Clip!SaveTargets(time) BY DEF Clip!HandleTargets
  <2> QED BY <1>0, <1>4, <1>5, <2>1, RoomMade DEF ClipInv
<1>7. /\ requestor # NoOne /\ time = now /\ owner \in {requestor, NoOne}
      /\ NoneOf(events, {"paste", "clear", "None"})
  BY <1>3 DEF ClipInv, Converted
<1>8. NoneOf(q, Conversion) /\ NoneOf(q, {"paste", "clear", "None"})
  BY <1>1, <1>7 DEF ClipInv, InOrder, Dispatched, Conversion
<1>9. CASE owner = requestor
  <2>1. requestor \in alive BY <1>0, <1>7, <1>9, ClipboardAssumption DEF ClipInv, Living, ClipTypes
  <2>2. NoneOf(events, {"destroyed"}) BY <1>3, <2>1 DEF ClipInv, Converted
  <2>3. asked' = {[who |-> owner, what |-> "MULTIPLE", when |-> now]} /\ events' = q
    BY <1>4, <1>6, <1>7, <1>9 DEF Clip!Convert
  <2>4. Dispatched(events, events', h) BY <1>1, <2>3
  <2>5. NoneOf(events', {"destroyed"}) /\ NoneOf(events', {"paste", "clear", "None"})
    BY <1>1, <1>8, <2>2, <2>3 DEF Dispatched
  <2> HIDE DEF h, q
  <2> QED BY <1>1, <1>5, <1>6, <1>7, <1>9, <2>1, <2>3, <2>4, <2>5, OwnerAsked
<1>10. CASE owner # requestor
  <2>1. owner = NoOne BY <1>7, <1>10
  <2>2. requestor \notin alive BY <1>3, <1>10 DEF ClipInv, Converted
  <2>3. Dying BY <1>3, <2>2 DEF ClipInv, Converted
  <2>4. events' = Append(q, e) /\ asked' = {} BY <1>4, <1>6, <2>1 DEF Clip!Convert
  <2>5. e \in Sent /\ e.is = "None" BY <1>0 DEF ClipTypes, Sent, Kinds, Clip!Event
  <2> HIDE DEF h, q, e
  <2>6. Joined(q, events', e) BY <1>1, <2>4, <2>5, Joins DEF Dispatched
  <2>7. NoneOf(q, Answers) /\ NoneOf(q, {"TARGETS"}) /\ NoneOf(q, {"MULTIPLE"}) /\ NoneOf(q, {"save"})
    BY <1>8 DEF NoneOf, Conversion, Answers
  <2>8. /\ NoneOf(events', Answers) /\ NoneOf(events', {"TARGETS"}) /\ NoneOf(events', {"MULTIPLE"})
        /\ NoneOf(events', {"save"})
    BY <2>5, <2>6, <2>7 DEF Joined, Answers
  <2>9. ~Converting' /\ ~Listing' /\ ~Waiting' BY <2>4, <2>8 DEF Converting, Listing, Waiting
  <2>10. Dying' BY <1>1, <1>5, <2>3, <2>6 DEF Joined, Dispatched, Dying
  <2>11. ClipTypes' BY <1>0, <1>5, <1>6, <2>4, <2>6 DEF ClipTypes, Joined
  <2>12. InOrder'
    <3>1. /\ NoneAfter(q, Conversion, Conversion)
          /\ NoneAfter(q, {"save"}, {"paste", "clear", "None", "destroyed"})
          /\ NoneAfter(q, {"clear manager"}, {"save"})
          /\ manages => NoneOf(q, {"clear manager"})
          /\ NoneAfter(q, {"None"}, {"destroyed"})
          /\ AllAt(q, {"save", "MULTIPLE"}, now)
      BY <1>1 DEF ClipInv, InOrder, Dispatched
    <3> QED BY <1>5, <2>5, <2>6, <2>7, <3>1 DEF InOrder, Joined, Conversion
  <2>13. Living'
    <3>1. \A a \in alive : NoneBy(q, {"destroyed"}, a) BY <1>1 DEF ClipInv, Living, Dispatched
    <3> QED BY <1>5, <2>5, <2>6, <3>1 DEF ClipInv, Living, Joined
  <2>14. Requested' BY <2>8 DEF Requested
  <2>15. Converted' BY <2>4, <2>9 DEF Converted
  <2>16. Owned' BY <1>6, <2>1, <1>7, <1>5, <2>10 DEF Owned
  <2>17. Pasted'
    <3>1. \A a \in App : OneBy(events', {"paste"}, a) BY <1>1, <2>5, <2>6 DEF ClipInv, Pasted, Joined, Dispatched
    <3>2. \A a : NoneBy(events, {"paste"}, a) => NoneBy(events', {"paste"}, a)
      BY <1>1, <2>5, <2>6 DEF Joined, Dispatched
    <3> QED BY <1>5, <3>1, <3>2 DEF ClipInv, Pasted
  <2> QED BY <1>6, <2>11, <2>12, <2>13, <2>14, <2>15, <2>16, <2>17 DEF ClipInv
<1> QED BY <1>9, <1>10

\* No paste uses contents yet, so what was not converted is held by nobody.
LEMMA MultipleStep ==
  ASSUME ClipInv, Clip!HandleMultiple
  PROVE  ClipInv'
<1>0. ClipTypes BY DEF ClipInv
<1> DEFINE e == Head(events)
<1>1. Dispatched(events, Tail(events), e) /\ e.is = "MULTIPLE" BY <1>0, FirstEvent DEF Clip!HandleMultiple
<1>2. /\ events' = Tail(events)
      /\ heap' = [i \in Clip!Address |-> IF i \in contents THEN Clip!Taken(i) ELSE heap[i]]
      /\ contents' = {i \in contents : heap'[i].refcount > 0}
      /\ written' = [t \in Target |-> IF \E i \in contents : heap[i].target = t THEN "nothing" ELSE written[t]]
      /\ time' = e.when
      /\ owner' = (IF e.when >= now THEN Manager ELSE owner)
      /\ requestor' \in {requestor, NoOne}
      /\ UNCHANGED <<alive, now, asked, sending, pasting, manages, conversions>>
  BY DEF Clip!HandleMultiple, Clip!Handled
<1> HIDE DEF e
<1>3. Dispatched(events, events', e) BY <1>1, <1>2
<1>4. ~NoneOf(events, {"MULTIPLE"}) /\ ~NoneOf(events, Answers) BY <1>1 DEF Dispatched, Answers
<1>5. Converting /\ Waiting BY <1>4 DEF Converting, Waiting
<1>6. asked = {} /\ Blank /\ \A c \in conversions : c.data \notin contents
  BY <1>4, <1>5 DEF ClipInv, Converted
<1>7. e.when = now BY <1>1 DEF ClipInv, InOrder, Dispatched
<1>8. owner' = Manager /\ time' = now BY <1>0, <1>2, <1>7 DEF ClipTypes
<1>9. NoneOf(events, {"paste", "clear", "None"}) BY <1>5 DEF ClipInv, Converted
<1>10. NoneOf(events', Conversion) /\ NoneOf(events', {"paste", "clear", "None"})
  BY <1>1, <1>3, <1>9 DEF ClipInv, InOrder, Dispatched, Conversion
<1>11. /\ NoneOf(events', Answers) /\ NoneOf(events', {"TARGETS"}) /\ NoneOf(events', {"MULTIPLE"})
       /\ NoneOf(events', {"save"}) /\ NoneOf(events', {"None"})
  BY <1>10 DEF NoneOf, Answers, Conversion
<1>12. ASSUME NEW i \in contents
       PROVE  /\ i \in Clip!Address /\ Cardinality(Users(conversions, i)) = 0 /\ heap[i].refcount = 1
              /\ heap'[i] \in Data /\ heap'[i].refcount \in {0, 1}
  <2>1. i \in Clip!Address BY <1>0 DEF ClipTypes
  <2>2. Cardinality(Users(conversions, i)) = 0
    <3>1. IsFiniteSet(conversions) BY <1>0 DEF ClipTypes
    <3>2. ~(Cardinality(Users(conversions, i)) > 0) /\ Cardinality(Users(conversions, i)) \in Nat
      BY <1>6, <3>1, UsersCounted
    <3> QED BY <3>2
  <2>3. heap[i].refcount = 1 /\ heap[i] \in Data BY <1>0, <2>1, <2>2 DEF ClipInv, Held, ClipTypes
  <2>4. heap'[i] = Clip!Taken(i) BY <1>2, <2>1
  <2> DEFINE w == IF heap[i].target \in Target THEN written[heap[i].target] ELSE "nothing"
  <2>5. w \in Piece BY <1>0 DEF ClipTypes, Piece
  <2>6. heap'[i] = IF w = "nothing" THEN Clip!Freed
                   ELSE IF w = "INCR" THEN [heap[i] EXCEPT !.type = "INCR", !.from = {}]
                   ELSE [heap[i] EXCEPT !.type = "data", !.from = {w}]
    BY <2>4 DEF Clip!Taken
  <2> HIDE DEF w
  <2>7. Clip!Freed \in Data /\ Clip!Freed.refcount = 0 BY DEF Clip!Freed, Data
  <2>8. [heap[i] EXCEPT !.type = "INCR", !.from = {}] \in Data /\ [heap[i] EXCEPT !.type = "INCR", !.from = {}].refcount = 1
    BY <2>3 DEF Data
  <2>9. [heap[i] EXCEPT !.type = "data", !.from = {w}] \in Data /\ [heap[i] EXCEPT !.type = "data", !.from = {w}].refcount = 1
    BY <2>3, <2>5 DEF Data
  <2>10. heap'[i] \in Data /\ heap'[i].refcount \in {0, 1} BY <2>6, <2>7, <2>8, <2>9
  <2> QED BY <2>1, <2>2, <2>3, <2>10
<1>13. heap' \in [Clip!Address -> Data]
  <2>1. \A i \in Clip!Address : heap'[i] \in Data BY <1>0, <1>2, <1>12 DEF ClipTypes
  <2> QED BY <1>2, <2>1
<1>14. \A i \in Clip!Address :
         heap'[i].refcount = (IF i \in contents' THEN 1 ELSE 0) + Cardinality(Users(conversions', i))
  <2> TAKE i \in Clip!Address
  <2>1. CASE i \in contents
    <3>1. Cardinality(Users(conversions', i)) = 0 BY <1>2, <1>12, <2>1
    <3>2. i \in contents' <=> heap'[i].refcount > 0 BY <1>2, <2>1
    <3> QED BY <1>12, <2>1, <3>1, <3>2
  <2>2. CASE i \notin contents
    <3>1. heap'[i] = heap[i] /\ i \notin contents' BY <1>2, <2>2
    <3>2. Users(conversions', i) = Users(conversions, i) BY <1>2
    <3> QED BY <2>2, <3>1, <3>2 DEF ClipInv, Held
  <2> QED BY <2>1, <2>2
<1>15. \A c \in conversions' : heap'[c.data].from = c.was /\ heap'[c.data].type # "INCR"
  <2> TAKE c \in conversions'
  <2>1. c \in conversions /\ c.data \in Clip!Address /\ c.data \notin contents BY <1>0, <1>2, <1>6 DEF ClipTypes, Transfer
  <2>2. heap'[c.data] = heap[c.data] BY <1>2, <2>1
  <2> QED BY <2>1, <2>2 DEF ClipInv, Held
<1>16. Held(contents, conversions, heap)' BY <1>14, <1>15 DEF Held
<1>17. ClipTypes'
  <2>1. written' \in [Target -> Piece] BY <1>0, <1>2 DEF ClipTypes, Piece
  <2>2. contents' \subseteq Clip!Address BY <1>0, <1>2 DEF ClipTypes
  <2> QED BY <1>0, <1>2, <1>3, <1>8, <1>13, <2>1, <2>2 DEF ClipTypes, Dispatched
<1>18. InOrder' BY <1>2, <1>3, StillInOrder
<1>19. Living' BY <1>1, <1>2, <1>3, <1>8 DEF ClipInv, Living, Dispatched
<1>20. Requested' BY <1>11 DEF Requested
<1>21. Converted' BY <1>2, <1>6, <1>11 DEF Converted, Converting, Listing, Waiting
<1>22. Owned' BY <1>8, <1>11 DEF Owned
<1>23. Pasted' BY <1>2, <1>3, PastedAsBefore
<1> QED BY <1>16, <1>17, <1>18, <1>19, <1>20, <1>21, <1>22, <1>23 DEF ClipInv

LEMMA ReceiveStep ==
  ASSUME ClipInv, Clip!Receive
  PROVE  ClipInv'
<1>0. ClipTypes BY DEF ClipInv
<1> DEFINE e == Head(events)
           t == e.what
           i == CHOOSE i \in Clip!With(t) : TRUE
           piece == written[t]
           got == Clip!Received(heap[i], piece)
<1>1. Dispatched(events, Tail(events), e) /\ e.is = "new" BY <1>0, FirstEvent DEF Clip!Receive
<1>2. events' = Tail(events) BY DEF Clip!Receive, Clip!Handled
<1>3. Dispatched(events, events', e) BY <1>1, <1>2
<1>4. e.is \notin Answers /\ e.is \notin {"clear", "destroyed"} BY <1>1 DEF Answers
<1>5. CASE Clip!With(t) = {} \/ heap[i].type # "INCR"
  <2>1. UNCHANGED <<Clip!server, Clip!manager>> BY <1>5 DEF Clip!Receive
  <2>2. UNCHANGED <<alive, owner, now, asked, written, sending, pasting, manages, heap, contents, conversions, requestor, time>>
    BY <2>1 DEF Clip!server, Clip!manager
  <2> HIDE DEF e
  <2> QED BY <1>3, <1>4, <2>2, Ignored
<1>6. CASE Clip!With(t) # {} /\ heap[i].type = "INCR"
  <2>1. ~(Clip!With(t) = {} \/ heap[i].type # "INCR") BY <1>6
  <2>2. heap' = [heap EXCEPT ![i] = got] BY <2>1 DEF Clip!Receive
  <2>3. written' = [written EXCEPT ![t] = "nothing"] BY <2>1 DEF Clip!Receive
  <2>4. requestor' \in {requestor, NoOne} BY <2>1 DEF Clip!Receive
  <2>5. UNCHANGED <<alive, owner, now, asked, sending, pasting, manages, contents, conversions, time>> BY <2>1 DEF Clip!Receive
  <2>6. i \in contents /\ heap[i].type = "INCR" BY <2>1 DEF Clip!With
  <2>7. i \in Clip!Address /\ heap[i] \in Data /\ heap \in [Clip!Address -> Data] BY <1>0, <2>6 DEF ClipTypes
  <2>8. piece \in Piece BY <1>0, <1>1 DEF ClipTypes, Dispatched, Sent
  <2>9. written' \in [Target -> Piece] BY <1>0, <2>3 DEF ClipTypes, Piece
  <2> HIDE DEF e, i, piece
  <2>10. heap'[i] = got /\ (\A j \in Clip!Address \ {i} : heap'[j] = heap[j])
         /\ heap' = [j \in Clip!Address |-> heap'[j]]
    BY <2>2, <2>7
  <2>11. got \in Data /\ got.refcount = heap[i].refcount BY <2>7, <2>8 DEF Data, Clip!Received
  <2> HIDE DEF got
  <2>12. heap' \in [Clip!Address -> Data]
    <3>1. \A j \in Clip!Address : heap'[j] \in Data BY <2>7, <2>10, <2>11
    <3> QED BY <2>10, <3>1
  <2>13. ~Blank BY <2>6 DEF Blank
  <2>14. ~Converting /\ ~Waiting /\ ~Listing
    <3>1. ~Waiting BY <2>13 DEF ClipInv, Converted
    <3>2. ~Listing BY <2>6 DEF ClipInv, Converted
    <3> QED BY <1>0, <3>1, <3>2, AskedFor
  <2>15. requestor = NoOne \/ owner = Manager BY <2>6, <2>13, <2>14 DEF ClipInv, Owned
  <2>16. ClipTypes' BY <1>0, <1>3, <2>4, <2>5, <2>9, <2>12 DEF ClipTypes, Dispatched
  <2>17. Held(contents, conversions, heap)'
    <3>1. \A j \in Clip!Address : heap'[j].refcount = heap[j].refcount BY <2>7, <2>10, <2>11
    <3>2. \A c \in conversions : c.data \in Clip!Address /\ c.data # i
      BY <1>0, <2>6 DEF ClipInv, Held, ClipTypes, Transfer
    <3>3. \A c \in conversions' : heap'[c.data].from = c.was /\ heap'[c.data].type # "INCR"
      BY <2>5, <2>10, <3>2 DEF ClipInv, Held
    <3>4. \A j \in Clip!Address :
            heap'[j].refcount = (IF j \in contents' THEN 1 ELSE 0) + Cardinality(Users(conversions', j))
      BY <2>5, <3>1 DEF ClipInv, Held
    <3> QED BY <3>3, <3>4 DEF Held
  <2>18. asked' = {} /\ NoneOf(events', Answers) /\ NoneOf(events', {"TARGETS"}) /\ NoneOf(events', {"MULTIPLE"})
    <3>1. asked = {} /\ NoneOf(events, Answers) BY <2>14 DEF Converting
    <3>2. NoneOf(events', Answers) BY <1>3, <3>1 DEF Dispatched
    <3> QED BY <2>5, <3>1, <3>2 DEF NoneOf, Answers
  <2>19. InOrder' BY <1>3, <2>5, StillInOrder
  <2>20. Living' BY <1>1, <1>3, <2>5 DEF ClipInv, Living, Dispatched
  <2>21. Requested' BY <1>1, <1>3, <2>4, <2>5 DEF ClipInv, Requested, Dispatched
  <2>22. Converted' BY <2>18 DEF Converted, Converting, Listing, Waiting
  <2>23. Owned'
    <3>1. requestor' # NoOne => requestor' = requestor BY <2>4
    <3>2. ~NoneOf(events', {"None"}) => requestor' = NoOne \/ Dying'
      BY <1>1, <1>3, <3>1 DEF ClipInv, Owned, Dispatched, Dying
    <3>3. requestor' = NoOne /\ requestor # NoOne => owner' = Manager BY <2>5, <2>15
    <3>4. requestor = NoOne => owner' = Manager \/ ~NoneOf(events', {"clear"})
      BY <1>1, <1>3, <2>5, <2>6 DEF ClipInv, Owned, Dispatched
    <3>5. requestor' # NoOne => owner' = Manager BY <2>4, <2>5, <2>15
    <3> QED BY <3>2, <3>3, <3>4, <3>5 DEF Owned
  <2>24. Pasted' BY <1>3, <2>5, PastedAsBefore
  <2> QED BY <2>16, <2>17, <2>19, <2>20, <2>21, <2>22, <2>23, <2>24 DEF ClipInv
<1> QED BY <1>5, <1>6

\* An application has one paste at a time, so its transfer is new.
LEMMA HandlePasteStep ==
  ASSUME ClipInv, Clip!HandlePaste
  PROVE  ClipInv'
<1>0. ClipTypes BY DEF ClipInv
<1> DEFINE e == Head(events)
           p == [who |-> e.who, target |-> e.what, has |-> "nothing"]
           i == CHOOSE i \in Clip!With(e.what) : TRUE
           long == Clip!With(e.what) # {} /\ heap[i].type # "INCR" /\ e.what \in Long
           x == [requestor |-> e.who, property |-> e.what, data |-> i, offset |-> 0, was |-> heap[i].from]
           shown == IF long /\ p \in pasting THEN {[p EXCEPT !.has = "piece"]} ELSE {}
<1>1. Dispatched(events, Tail(events), e) /\ e.is = "paste" BY <1>0, FirstEvent DEF Clip!HandlePaste
<1>2. /\ events' = Tail(events)
      /\ UNCHANGED <<alive, owner, now, asked, written, sending, manages, contents, requestor, time>>
  BY DEF Clip!HandlePaste, Clip!Handled
<1>3. Dispatched(events, events', e) BY <1>1, <1>2
<1>4. e.is \notin Answers /\ e.is \notin {"clear", "destroyed"} BY <1>1 DEF Answers
<1>5. pasting' = (pasting \ {p}) \cup shown BY DEF Clip!HandlePaste
<1>6. long => heap' = [heap EXCEPT ![i].refcount = @ + 1] /\ conversions' = conversions \cup {x}
  BY DEF Clip!HandlePaste
<1>7. ~long => UNCHANGED <<heap, conversions>>
  BY DEF Clip!HandlePaste
<1>8. e.who \in App /\ e.what \in Target BY <1>1 DEF Dispatched, Sent
<1>9. \A r \in shown : r \in [who : App, target : Target, has : {"nothing", "piece"}] /\ r.who = e.who
  BY <1>8
<1>10. pasting' \subseteq [who : App, target : Target, has : {"nothing", "piece"}] BY <1>0, <1>5, <1>9 DEF ClipTypes
<1>11. p.who = e.who OBVIOUS
<1>12. long /\ p \in pasting => \E r \in shown : TRUE OBVIOUS
<1>13. long => i \in contents /\ heap[i].type # "INCR" BY DEF Clip!With
<1>14. x.requestor = e.who /\ x.data = i /\ x.was = heap[i].from OBVIOUS
<1>15. long => i \in Clip!Address /\ heap[i] \in Data /\ x \in Transfer
  BY <1>0, <1>8, <1>13 DEF ClipTypes, Transfer, Data
<1> HIDE DEF e, p, i, long, x, shown
<1>16. NoneBy(events', {"paste"}, e.who) /\ \A c \in conversions : c.requestor # e.who
  BY <1>1, <1>3, <1>8 DEF ClipInv, Pasted, Dispatched
<1>17. ~Waiting
  <2>1. ~NoneOf(events, {"paste", "clear", "None"}) BY <1>1 DEF Dispatched
  <2>2. ~Converting BY <2>1 DEF ClipInv, Converted
  <2> QED BY <1>0, <2>2, AskedFor
<1>18. \A a \in App : OneBy(events', {"paste"}, a) BY <1>3 DEF ClipInv, Pasted, Dispatched
<1>19. \A a : NoneBy(events, {"paste"}, a) => NoneBy(events', {"paste"}, a) BY <1>3 DEF Dispatched
<1>20. CASE ~long
  <2>1. UNCHANGED <<heap, conversions>> BY <1>7, <1>20
  <2>2. ClipTypes' BY <1>0, <1>2, <1>3, <1>10, <2>1 DEF ClipTypes, Dispatched
  <2>3. Held(contents, conversions, heap)' BY <1>2, <2>1 DEF ClipInv
  <2>4. \A b \in alive : (\E r \in pasting' : r.who = b) \/
          (NoneBy(events', {"paste"}, b) /\ \A c \in conversions : c.requestor # b)
    <3> TAKE b \in alive
    <3>1. CASE b = e.who BY <1>16, <3>1
    <3>2. CASE b # e.who /\ \E r \in pasting : r.who = b BY <1>5, <1>11, <3>2
    <3>3. CASE b # e.who /\ ~\E r \in pasting : r.who = b BY <1>19, <3>3 DEF ClipInv, Pasted
    <3> QED BY <3>1, <3>2, <3>3
  <2>5. Pasted' BY <1>2, <1>18, <1>19, <2>1, <2>4 DEF ClipInv, Pasted
  <2>6. \A j \in contents : heap'[j].type = heap[j].type BY <2>1
  <2> QED BY <1>2, <1>3, <1>4, <1>17, <2>2, <2>3, <2>5, <2>6, Aside
<1>21. CASE long
  <2>1. heap' = [heap EXCEPT ![i].refcount = @ + 1] /\ conversions' = conversions \cup {x} BY <1>6, <1>21
  <2>2. i \in contents /\ heap[i].type # "INCR" /\ i \in Clip!Address /\ heap[i] \in Data /\ x \in Transfer
    BY <1>13, <1>15, <1>21
  <2>3. /\ heap'[i] = [heap[i] EXCEPT !.refcount = @ + 1] /\ \A j \in Clip!Address \ {i} : heap'[j] = heap[j]
        /\ heap' = [j \in Clip!Address |-> heap'[j]]
    BY <1>0, <2>1, <2>2 DEF ClipTypes
  <2>4. /\ heap'[i] \in Data /\ heap'[i].refcount = heap[i].refcount + 1 /\ heap'[i].type = heap[i].type
        /\ heap'[i].from = heap[i].from
    BY <2>2, <2>3 DEF Data
  <2>5. heap' \in [Clip!Address -> Data]
    <3>1. \A j \in Clip!Address : heap'[j] \in Data BY <1>0, <2>3, <2>4 DEF ClipTypes
    <3> QED BY <2>3, <3>1
  <2>6. x \notin conversions BY <1>14, <1>16
  <2>7. IsFiniteSet(conversions) /\ IsFiniteSet(conversions') BY <1>0, <2>1, FS_AddElement DEF ClipTypes
  <2>8. ClipTypes' BY <1>0, <1>2, <1>3, <1>10, <2>1, <2>2, <2>5, <2>7 DEF ClipTypes, Dispatched
  <2>9. \A j \in Clip!Address :
          heap'[j].refcount = (IF j \in contents' THEN 1 ELSE 0) + Cardinality(Users(conversions', j))
    <3> TAKE j \in Clip!Address
    <3> DEFINE n == Cardinality(Users(conversions, j))
               m == Cardinality(Users(conversions', j))
    <3>1. n \in Nat BY <2>7, UsersCounted
    <3>2. heap[j].refcount = (IF j \in contents THEN 1 ELSE 0) + n BY DEF ClipInv, Held
    <3>3. j = i => m = n + 1 BY <1>14, <2>1, <2>6, <2>7, UserAdded
    <3>4. j # i => m = n BY <1>14, <2>1, <2>6, <2>7, UserAdded
    <3> HIDE DEF n, m
    <3>5. heap'[j].refcount = (IF j \in contents' THEN 1 ELSE 0) + m
      <4>1. CASE j = i BY <1>2, <2>2, <2>4, <3>1, <3>2, <3>3, <4>1
      <4>2. CASE j # i BY <1>2, <2>3, <3>1, <3>2, <3>4, <4>2
      <4> QED BY <4>1, <4>2
    <3> QED BY <3>5 DEF m
  <2>10. \A c \in conversions' : heap'[c.data].from = c.was /\ heap'[c.data].type # "INCR"
    <3> TAKE c \in conversions'
    <3>1. CASE c = x BY <1>14, <2>2, <2>4, <3>1
    <3>2. CASE c \in conversions
      <4>1. c.data \in Clip!Address /\ heap[c.data].from = c.was /\ heap[c.data].type # "INCR"
        BY <1>0, <3>2 DEF ClipInv, Held, ClipTypes, Transfer
      <4> QED BY <2>3, <2>4, <4>1
    <3> QED BY <2>1, <3>1, <3>2
  <2>11. Held(contents, conversions, heap)' BY <2>9, <2>10 DEF Held
  <2>12. \A b \in alive : (\E r \in pasting' : r.who = b) \/
           (NoneBy(events', {"paste"}, b) /\ \A c \in conversions' : c.requestor # b)
    <3> TAKE b \in alive
    <3>1. CASE b = e.who
      <4>1. \E r \in pasting : r.who = b BY <1>1, <1>3, <3>1 DEF ClipInv, Pasted, Dispatched
      <4>2. CASE p \in pasting BY <1>5, <1>9, <1>12, <1>21, <3>1, <4>2
      <4>3. CASE p \notin pasting BY <1>5, <4>1, <4>3
      <4> QED BY <4>2, <4>3
    <3>2. CASE b # e.who /\ \E r \in pasting : r.who = b BY <1>5, <1>11, <3>2
    <3>3. CASE b # e.who /\ ~\E r \in pasting : r.who = b BY <1>14, <1>19, <2>1, <3>3 DEF ClipInv, Pasted
    <3> QED BY <3>1, <3>2, <3>3
  <2>13. \A c \in conversions' : NoneBy(events', {"paste"}, c.requestor)
    BY <1>14, <1>16, <1>19, <2>1 DEF ClipInv, Pasted
  <2>14. \A c, d \in conversions' : c.requestor = d.requestor => c = d
    BY <1>14, <1>16, <2>1 DEF ClipInv, Pasted
  <2>15. Pasted' BY <1>2, <1>18, <2>12, <2>13, <2>14 DEF Pasted
  <2>16. \A j \in contents : heap'[j].type = heap[j].type BY <1>0, <2>3, <2>4 DEF ClipTypes
  <2> QED BY <1>2, <1>3, <1>4, <1>17, <2>8, <2>11, <2>15, <2>16, Aside
<1> QED BY <1>20, <1>21

LEMMA SendStep ==
  ASSUME ClipInv, Clip!SendIncrementally
  PROVE  ClipInv'
<1>0. ClipTypes BY DEF ClipInv
<1> DEFINE e == Head(events)
           p == [who |-> e.who, target |-> e.what, has |-> "nothing"]
           more == [p EXCEPT !.has = "piece"]
           mine == {c \in conversions : c.requestor = e.who /\ c.property = e.what}
<1>1. Dispatched(events, Tail(events), e) /\ e.is = "deleted" BY <1>0, FirstEvent DEF Clip!SendIncrementally
<1>2. /\ events' = Tail(events)
      /\ UNCHANGED <<alive, owner, now, asked, written, sending, manages, contents, requestor, time>>
  BY DEF Clip!SendIncrementally, Clip!Handled
<1>3. Dispatched(events, events', e) BY <1>1, <1>2
<1>4. e.is \notin Answers /\ e.is \notin {"clear", "destroyed"} BY <1>1 DEF Answers
<1>5. CASE mine = {}
  <2>1. UNCHANGED <<pasting, heap, conversions>> BY <1>5 DEF Clip!SendIncrementally
  <2> HIDE DEF e
  <2> QED BY <1>2, <1>3, <1>4, <2>1, Ignored
<1>6. CASE mine # {}
  <2>1. PICK c \in mine :
          IF c.offset = 0
            THEN /\ conversions' = (conversions \ {c}) \cup {[c EXCEPT !.offset = 1]}
                 /\ pasting' = IF p \in pasting THEN (pasting \ {p}) \cup {[p EXCEPT !.has = "piece"]} ELSE pasting
                 /\ UNCHANGED heap
            ELSE /\ conversions' = conversions \ {c} /\ pasting' = pasting \ {p}
                 /\ heap' = Clip!Unref(heap, {c.data})
    BY <1>6 DEF Clip!SendIncrementally
  <2> DEFINE B == conversions \ {c}
             d == [c EXCEPT !.offset = 1]
  <2>2. c \in conversions /\ c.requestor = e.who /\ c \in Transfer BY <1>0, <2>1 DEF ClipTypes
  <2>3. d \in Transfer /\ d.requestor = e.who /\ d.data = c.data /\ d.was = c.was /\ d.offset = 1
    BY <2>2 DEF Transfer
  <2>4. \A r \in pasting : r \in [who : App, target : Target, has : {"nothing", "piece"}] BY <1>0 DEF ClipTypes
  <2>5. p \in pasting => more \in [who : App, target : Target, has : {"nothing", "piece"}] /\ more.who = e.who
    BY <2>4
  <2>6. p.who = e.who OBVIOUS
  <2>7. CASE c.offset = 0
    <3>1. conversions' = B \cup {d} /\ heap' = heap BY <2>1, <2>7
    <3>2. pasting' = IF p \in pasting THEN (pasting \ {p}) \cup {more} ELSE pasting BY <2>1, <2>7
    <3> HIDE DEF e, p, more, d
    <3>3. d \notin B
      <4> SUFFICES ASSUME d \in conversions PROVE d = c BY <2>3
      <4> QED BY <2>2, <2>3 DEF ClipInv, Pasted
    <3>4. IsFiniteSet(B) /\ IsFiniteSet(conversions') /\ conversions = B \cup {c} /\ c \notin B
      <4>1. IsFiniteSet(B) BY <1>0, FS_Subset DEF ClipTypes
      <4> QED BY <2>2, <3>1, <4>1, FS_AddElement
    <3>5. ASSUME NEW j PROVE Cardinality(Users(conversions', j)) = Cardinality(Users(conversions, j))
      <4> HIDE DEF B
      <4>1. CASE c.data = j BY <2>3, <3>1, <3>3, <3>4, <4>1, UserAdded
      <4>2. CASE c.data # j BY <2>3, <3>1, <3>3, <3>4, <4>2, UserAdded
      <4> QED BY <4>1, <4>2
    <3>6. \A x \in conversions' : \E y \in conversions : x.requestor = y.requestor /\ x.data = y.data /\ x.was = y.was
      BY <2>2, <2>3, <3>1
    <3>7. Held(contents, conversions, heap)'
      <4>1. \A j \in Clip!Address :
              heap'[j].refcount = (IF j \in contents' THEN 1 ELSE 0) + Cardinality(Users(conversions', j))
        BY <1>2, <3>1, <3>5 DEF ClipInv, Held
      <4>2. \A x \in conversions' : heap'[x.data].from = x.was /\ heap'[x.data].type # "INCR"
        BY <3>1, <3>6 DEF ClipInv, Held
      <4> QED BY <4>1, <4>2 DEF Held
    <3>8. pasting' \subseteq [who : App, target : Target, has : {"nothing", "piece"}] BY <2>4, <2>5, <3>2
    <3>9. conversions' \subseteq Transfer BY <1>0, <2>3, <3>1 DEF ClipTypes
    <3>10. ClipTypes' BY <1>0, <1>2, <1>3, <3>1, <3>4, <3>8, <3>9 DEF ClipTypes, Dispatched
    <3>11. Pasted'
      <4>1. \A a \in App : OneBy(events', {"paste"}, a) BY <1>3 DEF ClipInv, Pasted, Dispatched
      <4>2. \A a : NoneBy(events, {"paste"}, a) => NoneBy(events', {"paste"}, a) BY <1>3 DEF Dispatched
      <4>3. \A x \in conversions' : NoneBy(events', {"paste"}, x.requestor) BY <3>6, <4>2 DEF ClipInv, Pasted
      <4>4. \A x, y \in conversions' : x.requestor = y.requestor => x = y
        BY <2>2, <2>3, <3>1 DEF ClipInv, Pasted
      <4>5. \A r \in pasting : \E s \in pasting' : s.who = r.who BY <2>5, <2>6, <3>2
      <4>6. \A b \in alive : (\E r \in pasting' : r.who = b) \/
              (NoneBy(events', {"paste"}, b) /\ \A x \in conversions' : x.requestor # b)
        BY <3>6, <4>2, <4>5 DEF ClipInv, Pasted
      <4> QED BY <1>2, <4>1, <4>3, <4>4, <4>6 DEF Pasted
    <3>12. \A j \in contents : heap'[j].type = heap[j].type BY <3>1
    <3>13. Waiting => \A x \in conversions' : x.data \notin contents BY <3>6 DEF ClipInv, Converted
    <3> HIDE DEF B
    <3> QED BY <1>2, <1>3, <1>4, <3>7, <3>10, <3>11, <3>12, <3>13, Aside
  <2>8. CASE c.offset # 0
    <3>1. conversions' = B /\ pasting' = pasting \ {p} /\ heap' = Clip!Unref(heap, {c.data}) BY <2>1, <2>8
    <3> HIDE DEF e, p, more, d
    <3>2. c.data \in Clip!Address BY <2>2 DEF Transfer
    <3>3. /\ heap'[c.data] = IF heap[c.data].refcount = 1 THEN Clip!Freed ELSE [heap[c.data] EXCEPT !.refcount = @ - 1]
          /\ \A j \in Clip!Address \ {c.data} : heap'[j] = heap[j]
          /\ heap' = [j \in Clip!Address |-> heap'[j]]
      BY <3>1, <3>2 DEF Clip!Unref
    <3>4. IsFiniteSet(B) /\ conversions = B \cup {c} /\ c \notin B
      <4>1. IsFiniteSet(B) BY <1>0, FS_Subset DEF ClipTypes
      <4> QED BY <2>2, <4>1
    <3> HIDE DEF B
    <3> DEFINE k == IF c.data \in contents THEN 1 ELSE 0
               n == Cardinality(Users(B, c.data))
    <3>5. n \in Nat BY <3>4, UsersCounted
    <3>6. heap[c.data].refcount = k + n + 1 /\ heap[c.data] \in Data
      <4> DEFINE m == Cardinality(Users(conversions, c.data))
      <4>1. m = n + 1 BY <3>4, UserAdded
      <4>2. heap[c.data].refcount = k + m BY <3>2 DEF ClipInv, Held
      <4>3. heap[c.data] \in Data BY <1>0, <3>2 DEF ClipTypes
      <4> HIDE DEF m, n, k
      <4>4. k \in {0, 1} BY DEF k
      <4> QED BY <3>5, <4>1, <4>2, <4>3, <4>4
    <3>7. k \in {0, 1} OBVIOUS
    <3> HIDE DEF n, k
    <3>8. /\ heap'[c.data] \in Data /\ heap'[c.data].refcount = k + n
          /\ k + n > 0 => heap'[c.data].type = heap[c.data].type /\ heap'[c.data].from = heap[c.data].from
      <4>1. CASE k + n = 0
        <5>1. heap'[c.data] = Clip!Freed BY <3>3, <3>5, <3>6, <3>7, <4>1
        <5>2. Clip!Freed \in Data /\ Clip!Freed.refcount = 0 BY DEF Clip!Freed, Data
        <5> QED BY <4>1, <5>1, <5>2
      <4>2. CASE k + n # 0
        <5>1. heap[c.data].refcount # 1 BY <3>5, <3>6, <3>7, <4>2
        <5>2. heap'[c.data] = [heap[c.data] EXCEPT !.refcount = @ - 1] BY <3>3, <5>1
        <5>3. heap[c.data].refcount - 1 = k + n /\ k + n \in Nat BY <3>5, <3>6, <3>7
        <5> QED BY <3>6, <5>2, <5>3 DEF Data
      <4> QED BY <4>1, <4>2
    <3>9. heap' \in [Clip!Address -> Data]
      <4>1. \A j \in Clip!Address : heap'[j] \in Data BY <1>0, <3>3, <3>8 DEF ClipTypes
      <4> QED BY <3>3, <4>1
    <3>10. \A j \in Clip!Address :
             heap'[j].refcount = (IF j \in contents' THEN 1 ELSE 0) + Cardinality(Users(conversions', j))
      <4> TAKE j \in Clip!Address
      <4>1. CASE j = c.data BY <1>2, <3>1, <3>8, <4>1 DEF k, n
      <4>2. CASE j # c.data
        <5>1. Users(conversions, j) = Users(B, j) BY <3>4, <4>2, UserAdded
        <5> QED BY <1>2, <3>1, <3>3, <4>2, <5>1 DEF ClipInv, Held
      <4> QED BY <4>1, <4>2
    <3>11. \A x \in conversions' : heap'[x.data].from = x.was /\ heap'[x.data].type # "INCR"
      <4> TAKE x \in conversions'
      <4>1. x \in B /\ x \in conversions /\ x.data \in Clip!Address BY <1>0, <3>1, <3>4 DEF ClipTypes, Transfer
      <4>2. heap[x.data].from = x.was /\ heap[x.data].type # "INCR" BY <4>1 DEF ClipInv, Held
      <4>3. CASE x.data = c.data
        <5>1. n > 0 BY <3>4, <4>1, <4>3, UsersCounted DEF n
        <5>2. k + n > 0 BY <3>5, <3>7, <5>1
        <5> QED BY <3>8, <4>2, <4>3, <5>2
      <4>4. CASE x.data # c.data BY <3>3, <4>1, <4>2, <4>4
      <4> QED BY <4>3, <4>4
    <3>12. Held(contents, conversions, heap)' BY <3>10, <3>11 DEF Held
    <3>13. conversions' \subseteq conversions BY <3>1, <3>4
    <3>14. ClipTypes' BY <1>0, <1>2, <1>3, <2>4, <3>1, <3>4, <3>9, <3>13 DEF ClipTypes, Dispatched
    <3>15. Pasted'
      <4>1. \A a \in App : OneBy(events', {"paste"}, a) BY <1>3 DEF ClipInv, Pasted, Dispatched
      <4>2. \A a : NoneBy(events, {"paste"}, a) => NoneBy(events', {"paste"}, a) BY <1>3 DEF Dispatched
      <4>3. \A x \in conversions' : NoneBy(events', {"paste"}, x.requestor) BY <3>13, <4>2 DEF ClipInv, Pasted
      <4>4. \A x, y \in conversions' : x.requestor = y.requestor => x = y BY <3>13 DEF ClipInv, Pasted
      <4>5. \A b \in alive : (\E r \in pasting' : r.who = b) \/
              (NoneBy(events', {"paste"}, b) /\ \A x \in conversions' : x.requestor # b)
        <5> TAKE b \in alive
        <5>1. CASE b = e.who
          <6>1. NoneBy(events, {"paste"}, b) BY <2>2, <5>1 DEF ClipInv, Pasted
          <6>2. \A x \in conversions' : x.requestor # b BY <2>2, <3>1, <3>4, <5>1 DEF ClipInv, Pasted
          <6> QED BY <4>2, <6>1, <6>2
        <5>2. CASE b # e.who /\ \E r \in pasting : r.who = b BY <2>6, <3>1, <5>2
        <5>3. CASE b # e.who /\ ~\E r \in pasting : r.who = b BY <3>13, <4>2, <5>3 DEF ClipInv, Pasted
        <5> QED BY <5>1, <5>2, <5>3
      <4> QED BY <1>2, <4>1, <4>3, <4>4, <4>5 DEF Pasted
    <3>16. \A j \in contents : heap'[j].type = heap[j].type
      <4> TAKE j \in contents
      <4>1. j \in Clip!Address BY <1>0 DEF ClipTypes
      <4>2. CASE j = c.data
        <5>1. k + n > 0 BY <3>5, <4>2 DEF k
        <5> QED BY <3>8, <4>2, <5>1
      <4>3. CASE j # c.data BY <3>3, <4>1, <4>3
      <4> QED BY <4>2, <4>3
    <3>17. Waiting => \A x \in conversions' : x.data \notin contents BY <3>13 DEF ClipInv, Converted
    <3> QED BY <1>2, <1>3, <1>4, <3>12, <3>14, <3>15, <3>16, <3>17, Aside
  <2> QED BY <2>7, <2>8
<1> QED BY <1>5, <1>6

-----------------------------------------------------------------------------
LEMMA ClipInit == Clip!Init => ClipInv
<1> SUFFICES ASSUME Clip!Init PROVE ClipInv OBVIOUS
<1>1. <<>> \in Seq(Sent) /\ Len(<<>>) = 0 OBVIOUS
<1>2. /\ \A K : NoneOf(<<>>, K) /\ \A n : AllAt(<<>>, K, n)
      /\ \A K, a : NoneBy(<<>>, K, a) /\ OneBy(<<>>, K, a)
      /\ \A K, L : NoneAfter(<<>>, K, L)
  BY <1>1 DEF NoneOf, NoneBy, OneBy, NoneAfter, AllAt
<1>3. Clip!Freed \in Data /\ Clip!Freed.refcount = 0 BY DEF Clip!Freed, Data
<1>4. IsFiniteSet(conversions) BY FS_EmptySet DEF Clip!Init
<1>5. ClipTypes BY <1>1, <1>3, <1>4 DEF Clip!Init, ClipTypes, Piece
<1>6. Held(contents, conversions, heap)
  <2>1. \A i : Users({}, i) = {} BY DEF Users
  <2>2. \A i : Cardinality(Users({}, i)) = 0 BY <2>1, FS_EmptySet
  <2> QED BY <1>3, <2>2 DEF Clip!Init, Held
<1>7. InOrder BY <1>2 DEF Clip!Init, InOrder
<1>8. Living BY <1>2 DEF Clip!Init, Living
<1>9. Requested BY <1>2 DEF Clip!Init, Requested
<1>10. Converted BY <1>2 DEF Clip!Init, Converted, Converting, Listing, Waiting
<1>11. Owned BY <1>2 DEF Clip!Init, Owned
<1>12. Pasted BY <1>2 DEF Clip!Init, Pasted
<1> QED BY <1>5, <1>6, <1>7, <1>8, <1>9, <1>10, <1>11, <1>12 DEF ClipInv

LEMMA ClipStep ==
  ASSUME ~Overlaps, Refusing = {}
  PROVE  ClipInv /\ [Clip!Next]_(Clip!vars) => ClipInv'
<1> SUFFICES ASSUME ClipInv, [Clip!Next]_(Clip!vars) PROVE ClipInv' OBVIOUS
<1>1. CASE UNCHANGED Clip!vars
  <2>1. UNCHANGED <<alive, owner, now, asked, written, sending, pasting, events, manages, heap, contents, conversions, requestor, time>>
    BY <1>1 DEF Clip!vars, Clip!server, Clip!manager
  <2> QED BY <2>1 DEF ClipInv, ClipTypes, Held, InOrder, Living, Requested, Converted, Owned, Pasted,
                      Converting, Listing, Waiting, Dying, Blank
<1>2. CASE Clip!Handle
  BY <1>2, HandleSaveStep, TargetsStep, MultipleStep, NoneStep, ReceiveStep, HandlePasteStep, SendStep,
     DestroyedStep, ClearStep, ClearManagerStep
  DEF Clip!Handle
<1>3. CASE \E a \in App : Clip!Copy(a) \/ Clip!Exit(a) \/ (\E lists \in BOOLEAN : Clip!Save(a, lists)) \/ (\E t \in Target : Clip!Paste(a, t))
  BY <1>3, CopyStep, ExitStep, SaveStep, PasteStep
<1>4. CASE (\E q \in asked : Clip!Answer(q)) \/ (\E s \in sending : Clip!SendPiece(s)) \/ (\E p \in pasting : Clip!ReadPiece(p)) \/ Clip!Replace
  BY <1>4, RequestAnswered, SendPieceStep, ReadPieceStep, ReplaceStep
<1> QED BY <1>1, <1>2, <1>3, <1>4 DEF Clip!Next

LEMMA PartIsClip == AllSpec => Clip!Spec
<1>1. AllInit => Clip!Init BY DEF AllInit
<1>2. [AllNext]_allVars => [Clip!Next]_(Clip!vars)
  BY DEF AllNext, allVars, clipVars, Clip!vars, Clip!server, Clip!manager
<1> QED BY <1>1, <1>2, PTL DEF AllSpec, Clip!Spec

LEMMA PastesAndRefusals == ClipInv => ClipboardKept
<1> SUFFICES ASSUME ClipInv PROVE ClipboardKept OBVIOUS
<1>1. /\ \A i \in Clip!Address : heap[i].refcount = (IF i \in contents THEN 1 ELSE 0) + Cardinality(Users(conversions, i))
      /\ \A c \in conversions : heap[c.data].from = c.was
  BY DEF ClipInv, Held
<1>2. Clip!PastesKept
  <2>1. \A c \in conversions : heap[c.data].refcount > 0 /\ heap[c.data].from = c.was
    <3> TAKE c \in conversions
    <3> DEFINE n == Cardinality(Users(conversions, c.data))
    <3>1. c.data \in Clip!Address BY DEF ClipInv, ClipTypes, Transfer
    <3>2. n \in Nat /\ n > 0 BY UsersCounted DEF ClipInv, ClipTypes
    <3>3. heap[c.data].refcount = (IF c.data \in contents THEN 1 ELSE 0) + n BY <1>1, <3>1
    <3> HIDE DEF n
    <3> QED BY <1>1, <3>2, <3>3
  <2>2. \A i \in Clip!Address :
          heap[i].refcount = (IF i \in contents THEN 1 ELSE 0) + Clip!Cardinality({c \in conversions : c.data = i})
    <3> TAKE i \in Clip!Address
    <3>1. Clip!Cardinality({c \in conversions : c.data = i}) = Cardinality(Users(conversions, i))
      BY DEF Clip!Cardinality, Cardinality, Users
    <3> QED BY <1>1, <3>1
  <2> QED BY <2>1, <2>2 DEF Clip!PastesKept
<1>3. Clip!RefusedWhenBusy
  <2> SUFFICES ASSUME events = <<>>, asked = {}, contents # {} PROVE requestor # NoOne \/ owner = Manager
    BY DEF Clip!RefusedWhenBusy
  <2>1. \A K : NoneOf(events, K) BY DEF NoneOf
  <2> QED BY <2>1 DEF ClipInv, Owned
<1> QED BY <1>2, <1>3 DEF ClipboardKept

\* A paste that is being sent keeps its data until it is over, nothing is kept
\* that nobody holds, and a request to save is refused only while another is
\* under way or the clipboard is owned (ClipboardKept:
\* csd-clipboard-manager.c:98-128, :406-492), for any applications and targets,
\* any number of pastes and of changes of the owner, as long as applications
\* convert to MULTIPLE and none copies while another's clipboard is saved.
THEOREM ClipboardServes ==
  ASSUME ~Overlaps, Refusing = {}
  PROVE  AllSpec => []ClipboardKept
<1>1. ClipInv /\ [Clip!Next]_(Clip!vars) => ClipInv' BY ClipStep
<1>2. Clip!Spec => []ClipInv BY <1>1, ClipInit, PTL DEF Clip!Spec
<1> QED BY <1>2, PastesAndRefusals, PartIsClip, PTL

-----------------------------------------------------------------------------
(* A fold over a sequence is a trace of it.                                *)
\* What holds at 0 and passes from one number to the next holds up to n.
LEMMA Reaches ==
  ASSUME NEW n \in Nat, NEW Good, 0 \in Good, \A k \in 1 .. n : k - 1 \in Good => k \in Good
  PROVE  \A k \in 0 .. n : k \in Good
<1> DEFINE Bad == {k \in 0 .. n : k \notin Good}
<1> SUFFICES ASSUME Bad # {} PROVE FALSE OBVIOUS
<1>1. Bad \in SUBSET Nat OBVIOUS
<1>2. PICK k \in Bad : \A m \in Bad : k <= m BY <1>1, Least
<1>3. k \in 1 .. n OBVIOUS
<1>4. k - 1 \in 0 .. n /\ k - 1 \notin Bad BY <1>2, <1>3
<1> QED BY <1>3, <1>4

Largest(s) == CHOOSE x \in s : \A y \in s : x >= y

LEMMA LargestIs ==
  ASSUME NEW n \in Nat, NEW s \in SUBSET (1 .. n), s # {}
  PROVE  Largest(s) \in s /\ \A y \in s : Largest(s) >= y
<1> DEFINE below == {n - x : x \in s}
<1>0. \A x \in s : x \in 1 .. n /\ n - x \in Nat OBVIOUS
<1>1. below \in SUBSET Nat /\ below # {} BY <1>0
<1>2. PICK b \in below : \A c \in below : b <= c
  <2> HIDE DEF below
  <2> QED BY <1>1, Least
<1>3. PICK x \in s : b = n - x OBVIOUS
<1>4. \A y \in s : x >= y
  <2> TAKE y \in s
  <2>1. b <= n - y BY <1>2
  <2> QED BY <1>3, <2>1
<1> QED BY <1>3, <1>4 DEF Largest

\* The first k positions.
LEMMA FirstOnes ==
  ASSUME NEW n \in Nat, NEW k \in 1 .. n
  PROVE  /\ 1 .. k \in SUBSET (1 .. n) /\ 1 .. k # {}
         /\ Largest(1 .. k) = k /\ (1 .. k) \ {k} = 1 .. (k - 1)
<1>1. 1 .. k \in SUBSET (1 .. n) /\ k \in 1 .. k /\ 1 .. k # {} OBVIOUS
<1>2. Largest(1 .. k) \in 1 .. k /\ \A y \in 1 .. k : Largest(1 .. k) >= y BY <1>1, LargestIs
<1>3. Largest(1 .. k) = k BY <1>1, <1>2
<1> QED BY <1>1, <1>3

Solves(f, n, base, step) ==
  f = [s \in SUBSET (1 .. n) |-> IF s = {} THEN base ELSE step[<<f[s \ {Largest(s)}], Largest(s)>>]]

\* What is known of the first k positions gives what is known of the next.
LEMMA FoldExists ==
  ASSUME NEW n \in Nat, NEW A, NEW base \in A, NEW step \in [A \X (1 .. n) -> A]
  PROVE  \E f \in [SUBSET (1 .. n) -> A] : Solves(f, n, base, step)
<1> DEFINE Good == {k \in 0 .. n : \E f \in [SUBSET (1 .. k) -> A] : Solves(f, k, base, step)}
<1>1. 0 \in Good
  <2> DEFINE f == [s \in SUBSET (1 .. 0) |-> base]
  <2>1. \A s \in SUBSET (1 .. 0) : s = {} OBVIOUS
  <2>2. f = [s \in SUBSET (1 .. 0) |-> IF s = {} THEN base ELSE step[<<f[s \ {Largest(s)}], Largest(s)>>]] BY <2>1
  <2>3. f \in [SUBSET (1 .. 0) -> A] OBVIOUS
  <2> QED BY <2>2, <2>3 DEF Solves
<1>2. ASSUME NEW k \in 1 .. n, k - 1 \in Good PROVE k \in Good
  <2>1. PICK f \in [SUBSET (1 .. (k - 1)) -> A] : Solves(f, k - 1, base, step) BY <1>2
  <2> DEFINE h == [s \in SUBSET (1 .. k) |-> IF k \in s THEN step[<<f[s \ {k}], k>>] ELSE f[s]]
             After(s) == IF s = {} THEN base ELSE step[<<h[s \ {Largest(s)}], Largest(s)>>]
  <2>2. ASSUME NEW s \in SUBSET (1 .. k), k \in s
        PROVE  h[s] = After(s) /\ h[s] \in A
    <3>0. k \in Nat /\ s # {} BY <2>2
    <3>1. Largest(s) \in s /\ \A y \in s : Largest(s) >= y
      <4> HIDE DEF h, After
      <4> QED BY <3>0, LargestIs
    <3>a. Largest(s) \in 1 .. k /\ Largest(s) >= k BY <2>2, <3>1
    <3>2. Largest(s) = k BY <3>0, <3>a
    <3>3. s \ {k} \in SUBSET (1 .. (k - 1)) /\ s \ {k} \in SUBSET (1 .. k) /\ k \notin s \ {k} OBVIOUS
    <3>4. h[s \ {k}] = f[s \ {k}] BY <3>3
    <3>5. h[s] = step[<<f[s \ {k}], k>>] BY <2>2
    <3>6. f[s \ {k}] \in A BY <3>3
    <3> HIDE DEF h
    <3> QED BY <2>2, <3>2, <3>4, <3>5, <3>6
  <2>3. ASSUME NEW s \in SUBSET (1 .. k), k \notin s
        PROVE  h[s] = After(s) /\ h[s] \in A
    <3>1. s \in SUBSET (1 .. (k - 1)) BY <2>3
    <3>2. h[s] = f[s] /\ f[s] \in A BY <2>3, <3>1
    <3>3. f[s] = IF s = {} THEN base ELSE step[<<f[s \ {Largest(s)}], Largest(s)>>] BY <2>1, <3>1 DEF Solves
    <3>4. s \ {Largest(s)} \in SUBSET (1 .. k) /\ k \notin s \ {Largest(s)} BY <2>3
    <3>5. h[s \ {Largest(s)}] = f[s \ {Largest(s)}] BY <3>4
    <3> HIDE DEF h
    <3> QED BY <3>2, <3>3, <3>5
  <2>4. \A s \in SUBSET (1 .. k) : h[s] = After(s) /\ h[s] \in A BY <2>2, <2>3
  <2>5. h = [s \in SUBSET (1 .. k) |-> h[s]] OBVIOUS
  <2> HIDE DEF h
  <2>6. h \in [SUBSET (1 .. k) -> A] BY <2>4, <2>5
  <2>7. h = [s \in SUBSET (1 .. k) |-> After(s)] BY <2>4, <2>5
  <2>8. Solves(h, k, base, step) BY <2>7 DEF Solves
  <2> QED BY <2>6, <2>8
<1> HIDE DEF Good
<1>3. n \in Good BY <1>1, <1>2, Reaches
<1> QED BY <1>3 DEF Good

-----------------------------------------------------------------------------
(* Low disk space.                                                         *)

Measured == [mount : Disks!Mount, free : FreeLevels]
LookAt == [notified : [Disks!Mount -> Disks!Entry], told : [Disks!Mount -> Disks!Entry],
         notice : Disks!Mount \cup {Nothing}, rest : Seq(Measured), waits : BOOLEAN, done : BOOLEAN]

LEMMA EntryIs ==
  /\ Disks!Entry = [free : FreeLevels, ago : 0 .. MinPeriod + 1, is : BOOLEAN]
  /\ Disks!Roomy \in FreeLevels /\ Disks!Never \in Disks!Entry /\ ~Disks!Never.is
<1>1. Disks!Roomy \in FreeLevels BY DiskAssumption DEF Disks!Roomy
<1>2. MinPeriod + 1 \in 0 .. MinPeriod + 1 BY DiskAssumption
<1> QED BY <1>1, <1>2 DEF Disks!Entry, Disks!Ago, Disks!Never

\* What ldsm_maybe_warn_mounts does for one mount.
LEMMA WarnTypes ==
  ASSUME NEW st \in LookAt, NEW low \in Measured
  PROVE  Disks!Warn(st, low) \in LookAt
<1> DEFINE m == low.mount
           previous == st.notified[m]
           again == previous.is /\ previous.free > low.free + 1
           show == ~previous.is \/ (again /\ previous.ago > MinPeriod)
           entry == [free |-> low.free, is |-> TRUE, ago |-> IF show THEN 0 ELSE previous.ago]
           puts == show /\ st.notice = Nothing
<1>1. m \in Disks!Mount /\ low.free \in FreeLevels BY DEF Measured
<1>2. previous \in Disks!Entry BY <1>1 DEF LookAt
<1>3. previous.ago \in 0 .. MinPeriod + 1 BY <1>2, EntryIs
<1>4. entry \in Disks!Entry
  <2>1. 0 \in 0 .. MinPeriod + 1 BY DiskAssumption
  <2> HIDE DEF previous, show
  <2> QED BY <1>1, <1>3, <2>1, EntryIs
<1>a. show \in BOOLEAN /\ puts \in BOOLEAN /\ (puts /\ dialogs) \in BOOLEAN BY DEF Disks!Warn
<1>5. CASE st.waits
  <2>1. Disks!Warn(st, low) = [st EXCEPT !.rest = Append(@, low)] BY <1>5 DEF Disks!Warn
  <2>2. st.rest \in Seq(Measured) BY DEF LookAt
  <2>3. Append(st.rest, low) \in Seq(Measured) BY <2>2
  <2> QED BY <2>1, <2>3 DEF LookAt
<1>6. CASE ~st.waits /\ (st.done \/ ~(show \/ again))
  <2>1. Disks!Warn(st, low) = st BY <1>6 DEF Disks!Warn
  <2> QED BY <2>1
<1>7. CASE ~st.waits /\ ~(st.done \/ ~(show \/ again))
  <2>1. Disks!Warn(st, low) =
          [st EXCEPT !.notified[m] = entry, !.told[m] = IF puts THEN entry ELSE @,
                     !.notice = IF puts THEN m ELSE @, !.waits = puts /\ dialogs, !.done = show]
    BY <1>7 DEF Disks!Warn
  <2> DEFINE noted == [st.notified EXCEPT ![m] = entry]
             tells == [st.told EXCEPT ![m] = IF puts THEN entry ELSE @]
             next == [notified |-> noted, told |-> tells, notice |-> IF puts THEN m ELSE st.notice,
                      rest |-> st.rest, waits |-> puts /\ dialogs, done |-> show]
  <2> HIDE DEF m, entry, show, puts
  <2>2. Disks!Warn(st, low) = next BY <2>1 DEF LookAt
  <2>3. st.notified \in [Disks!Mount -> Disks!Entry] /\ st.told \in [Disks!Mount -> Disks!Entry] BY DEF LookAt
  <2>4. noted \in [Disks!Mount -> Disks!Entry] BY <1>1, <1>4, <2>3
  <2>5. tells \in [Disks!Mount -> Disks!Entry] BY <1>1, <1>4, <2>3
  <2> HIDE DEF noted, tells
  <2> QED BY <1>1, <1>a, <2>2, <2>4, <2>5 DEF LookAt
<1> QED BY <1>5, <1>6, <1>7

WarnSolves(f, base, lows) ==
  f = [s \in SUBSET DOMAIN lows |->
         IF s = {} THEN base ELSE Disks!Warn(f[s \ {Largest(s)}], lows[Largest(s)])]

\* ldsm_maybe_warn_mounts
Warnings(base, lows) == Disks!FoldLeft(Disks!Warn, base, lows)

\* The mounts are looked at one after the other.
LEMMA WarnTrace ==
  ASSUME NEW n \in Nat, NEW lows, DOMAIN lows = 1 .. n, \A k \in 1 .. n : lows[k] \in Measured, NEW base \in LookAt
  PROVE  \E t : /\ t[0] = base /\ t[n] = Warnings(base, lows)
                /\ \A k \in 1 .. n : t[k] = Disks!Warn(t[k - 1], lows[k])
<1> DEFINE step == [p \in LookAt \X (1 .. n) |-> Disks!Warn(p[1], lows[p[2]])]
           h == CHOOSE f : WarnSolves(f, base, lows)
           t == [k \in 0 .. n |-> h[1 .. k]]
<1>1. step \in [LookAt \X (1 .. n) -> LookAt] BY WarnTypes
<1>2. PICK f \in [SUBSET (1 .. n) -> LookAt] : Solves(f, n, base, step)
  <2> HIDE DEF step
  <2> QED BY <1>1, FoldExists
<1>3. ASSUME NEW s \in SUBSET (1 .. n), s # {}
      PROVE  step[<<f[s \ {Largest(s)}], Largest(s)>>] = Disks!Warn(f[s \ {Largest(s)}], lows[Largest(s)])
  <2>1. Largest(s) \in 1 .. n BY <1>3, LargestIs
  <2>2. s \ {Largest(s)} \in SUBSET (1 .. n) OBVIOUS
  <2>3. f[s \ {Largest(s)}] \in LookAt BY <2>2
  <2> QED BY <2>1, <2>3
<1>4. WarnSolves(f, base, lows)
  <2> HIDE DEF step
  <2> QED BY <1>2, <1>3 DEF Solves, WarnSolves
<1>5. WarnSolves(h, base, lows) BY <1>4
<1>6. Warnings(base, lows) = h[1 .. n]
  BY DEF Warnings, Disks!FoldLeft, Disks!MapThenFoldSet, Disks!Max, WarnSolves, Largest
<1> HIDE DEF h
<1>7. h[{}] = base BY <1>5 DEF WarnSolves
<1>8. ASSUME NEW k \in 1 .. n PROVE h[1 .. k] = Disks!Warn(h[1 .. (k - 1)], lows[k])
  <2>1. /\ 1 .. k \in SUBSET (1 .. n) /\ 1 .. k # {}
        /\ Largest(1 .. k) = k /\ (1 .. k) \ {k} = 1 .. (k - 1) BY FirstOnes
  <2> QED BY <1>5, <2>1 DEF WarnSolves
<1>9. t[0] = base /\ t[n] = h[1 .. n]
  <2>1. 0 \in 0 .. n /\ n \in 0 .. n /\ 1 .. 0 = {} OBVIOUS
  <2> QED BY <1>7, <2>1
<1>10. \A k \in 1 .. n : k \in 0 .. n /\ k - 1 \in 0 .. n OBVIOUS
<1>11. \A k \in 1 .. n : t[k] = Disks!Warn(t[k - 1], lows[k]) BY <1>8, <1>10
<1> HIDE DEF t
<1> QED BY <1>6, <1>9, <1>11

\* What told knows of a mount the manager knows, at least as much and as long.
Behind(table, tells) ==
  \A m \in Disks!Mount : tells[m].is =>
    table[m].is /\ tells[m].free >= table[m].free /\ tells[m].ago >= table[m].ago

\* A notice that is not from before is about a mount that was looked at, and due.
NoticeDue(st, base, lows) ==
  \/ st.told = base.told /\ st.notice = base.notice
  \/ \E m \in Disks!Mount :
       /\ st.done /\ st.notice = m
       /\ \E i \in DOMAIN lows : lows[i].mount = m
       /\ base.told[m].is => base.told[m].ago > MinPeriod /\ st.told[m].free + 1 < base.told[m].free

Looked(st, base, lows) == st \in LookAt /\ Behind(st.notified, st.told) /\ NoticeDue(st, base, lows)

LEMMA WarnKeeps ==
  ASSUME NEW base \in LookAt, NEW lows, NEW i \in DOMAIN lows, lows[i] \in Measured,
         NEW st, Looked(st, base, lows)
  PROVE  Looked(Disks!Warn(st, lows[i]), base, lows)
<1> DEFINE low == lows[i]
           m == low.mount
           previous == st.notified[m]
           again == previous.is /\ previous.free > low.free + 1
           show == ~previous.is \/ (again /\ previous.ago > MinPeriod)
           entry == [free |-> low.free, is |-> TRUE, ago |-> IF show THEN 0 ELSE previous.ago]
           puts == show /\ st.notice = Nothing
           noted == [st.notified EXCEPT ![m] = entry]
           tells == [st.told EXCEPT ![m] = IF puts THEN entry ELSE @]
           next == Disks!Warn(st, low)
<1>a. next = Disks!Warn(st, lows[i]) OBVIOUS
<1>0. st \in LookAt /\ Behind(st.notified, st.told) /\ NoticeDue(st, base, lows) BY DEF Looked
<1>1. next \in LookAt BY <1>0, WarnTypes
<1>2. CASE st.waits
  <2>1. next = [st EXCEPT !.rest = Append(@, low)] BY <1>2 DEF Disks!Warn
  <2>2. next.notified = st.notified /\ next.told = st.told /\ next.notice = st.notice /\ next.done = st.done
    BY <1>0, <2>1 DEF LookAt
  <2> HIDE DEF next, low
  <2> QED BY <1>0, <1>1, <1>a, <2>2 DEF Looked, NoticeDue
<1>3. CASE ~st.waits /\ (st.done \/ ~(show \/ again))
  <2>1. next = st BY <1>3 DEF Disks!Warn
  <2> QED BY <1>0, <2>1 DEF Looked
<1>4. CASE ~st.waits /\ ~(st.done \/ ~(show \/ again))
  <2>1. /\ next.notified = noted /\ next.told = tells
        /\ next.notice = (IF puts THEN m ELSE st.notice) /\ next.done = show
    BY <1>0, <1>4 DEF Disks!Warn, LookAt
  <2>2. ~st.done /\ st.told = base.told /\ st.notice = base.notice BY <1>0, <1>4 DEF NoticeDue
  <2>3. m \in Disks!Mount /\ low.free \in FreeLevels /\ low.free \in Nat BY DiskAssumption DEF Measured
  <2>4. st.notified \in [Disks!Mount -> Disks!Entry] /\ st.told \in [Disks!Mount -> Disks!Entry]
    BY <1>0 DEF LookAt
  <2>5. previous \in Disks!Entry /\ st.told[m] \in Disks!Entry BY <2>3, <2>4
  <2>6. /\ previous.ago \in Nat /\ previous.free \in Nat /\ st.told[m].free \in Nat /\ st.told[m].ago \in Nat
    BY <2>5, EntryIs, DiskAssumption
  <2>7. st.told[m].is => previous.is /\ st.told[m].free >= previous.free /\ st.told[m].ago >= previous.ago
    BY <1>0, <2>3 DEF Behind
  <2>8. noted[m] = entry /\ tells[m] = (IF puts THEN entry ELSE st.told[m]) BY <2>3, <2>4
  <2>9. \A x \in Disks!Mount : x # m => noted[x] = st.notified[x] /\ tells[x] = st.told[x] BY <2>4
  <2>10. show \/ again BY <1>4
  <2>11. entry.is /\ entry.free = low.free /\ entry.ago = (IF show THEN 0 ELSE previous.ago) OBVIOUS
  <2>12. tells[m].is => noted[m].is /\ tells[m].free >= noted[m].free /\ tells[m].ago >= noted[m].ago
    <3>1. CASE puts
      <4>1. tells[m] = entry /\ noted[m] = entry BY <2>8, <3>1
      <4>2. entry.free \in Nat /\ entry.ago \in Nat BY <2>3, <2>6, <2>11
      <4> HIDE DEF tells, noted, entry
      <4> QED BY <4>1, <4>2, <2>11
    <3>2. CASE ~puts
      <4> HIDE DEF tells, noted, entry, puts
      <4>1. tells[m] = st.told[m] /\ noted[m] = entry BY <2>8, <3>2
      <4> QED BY <4>1, <2>3, <2>6, <2>7, <2>10, <2>11
    <3> QED BY <3>1, <3>2
  <2>13. Behind(noted, tells)
    <3> HIDE DEF tells, noted, m
    <3> QED BY <1>0, <2>9, <2>12 DEF Behind
  <2>14. NoticeDue(next, base, lows)
    <3>1. CASE ~puts
      <4>1. tells = st.told BY <3>1, <2>4
      <4>2. next.told = st.told /\ next.notice = st.notice BY <2>1, <3>1, <4>1
      <4> HIDE DEF next
      <4> QED BY <2>2, <4>2 DEF NoticeDue
    <3>2. CASE puts
      <4>1. show /\ next.notice = m /\ next.done BY <2>1, <3>2
      <4>2. next.told[m].free = low.free BY <2>1, <2>8, <2>11, <3>2
      <4>3. base.told[m].is => base.told[m].ago > MinPeriod /\ low.free + 1 < base.told[m].free
        BY <2>2, <2>3, <2>6, <2>7, <4>1, DiskAssumption, SMTT(40)
      <4>4. lows[i].mount = m OBVIOUS
      <4> HIDE DEF next, m, low, show
      <4> QED BY <2>3, <4>1, <4>2, <4>3, <4>4 DEF NoticeDue
    <3> QED BY <3>1, <3>2
  <2> HIDE DEF next, tells, noted, m, low
  <2> QED BY <1>1, <1>a, <2>1, <2>13, <2>14 DEF Looked
<1> QED BY <1>2, <1>3, <1>4

LEMMA WarnsDue ==
  ASSUME NEW lows \in Seq(Measured), NEW base \in LookAt, Behind(base.notified, base.told)
  PROVE  Looked(Warnings(base, lows), base, lows)
<1> DEFINE n == Len(lows)
<1>1. n \in Nat /\ DOMAIN lows = 1 .. n /\ \A k \in 1 .. n : lows[k] \in Measured OBVIOUS
<1>2. PICK t : /\ t[0] = base /\ t[n] = Warnings(base, lows)
               /\ \A k \in 1 .. n : t[k] = Disks!Warn(t[k - 1], lows[k])
  <2> HIDE DEF n
  <2> QED BY <1>1, WarnTrace
<1> DEFINE Good == {k \in 0 .. n : Looked(t[k], base, lows)}
<1> HIDE DEF n
<1>3. 0 \in Good BY <1>1, <1>2 DEF Looked, NoticeDue
<1>4. ASSUME NEW k \in 1 .. n, k - 1 \in Good PROVE k \in Good
  <2>1. Looked(t[k - 1], base, lows) /\ k \in DOMAIN lows /\ lows[k] \in Measured BY <1>1, <1>4
  <2>2. Looked(Disks!Warn(t[k - 1], lows[k]), base, lows) BY <2>1, WarnKeeps
  <2> QED BY <1>1, <1>2, <2>2
<1> HIDE DEF Good
<1>5. n \in Good
  <2>1. n \in Nat BY <1>1
  <2>2. \A k \in 1 .. n : k - 1 \in Good => k \in Good BY <1>4
  <2>3. \A k \in 0 .. n : k \in Good BY <2>1, <2>2, <1>3, Reaches
  <2> QED BY <2>1, <2>3
<1> QED BY <1>2, <1>5 DEF Good

LEMMA MaybeWarns ==
  ASSUME NEW lows, NEW hash, NEW tells, NEW source, Disks!MaybeWarn(lows, hash, tells, source)
  PROVE  \E st :
           /\ st = Warnings([notified |-> hash, told |-> tells, notice |-> notice, rest |-> <<>>, waits |-> FALSE, done |-> FALSE], lows)
           /\ notified' = st.notified /\ told' = st.told /\ notice' = st.notice
           /\ rest' = IF st.waits THEN st.rest ELSE rest
BY DEF Disks!MaybeWarn, Warnings

DiskTypes ==
  /\ free \in [Disks!Mount -> FreeLevels] /\ mounted \subseteq Disks!Mount
  /\ notified \in [Disks!Mount -> Disks!Entry] /\ told \in [Disks!Mount -> Disks!Entry]
  /\ notice \in Disks!Mount \cup {Nothing} /\ rest \in Seq(Measured)
  /\ ignoring \in Seq(Disks!Mount) /\ ignore_paths \in Seq(Disks!Mount)

DiskInv == DiskTypes /\ Behind(notified, told)

\* full_mounts while ldsm_check_all_mounts goes through the mounts.
AddFull(considered, full, m) ==
  IF m \in considered /\ free[m] <= LowFree THEN Append(full, [mount |-> m, free |-> free[m]]) ELSE full
FullSolves(f, considered) ==
  f = [s \in SUBSET DOMAIN Fstab |->
         IF s = {} THEN <<>> ELSE AddFull(considered, f[s \ {Largest(s)}], Fstab[Largest(s)])]

\* What is full is considered and low.
LEMMA FullIs ==
  ASSUME DiskTypes, NEW considered
  PROVE  /\ Disks!FullMounts(considered) \in Seq(Measured)
         /\ \A i \in DOMAIN Disks!FullMounts(considered) :
              LET m == Disks!FullMounts(considered)[i].mount
              IN m \in considered /\ free[m] <= LowFree
<1> DEFINE n == Len(Fstab)
           A == Seq(Measured)
           Low(full) == \A i \in DOMAIN full : full[i].mount \in considered /\ free[full[i].mount] <= LowFree
           step == [p \in A \X (1 .. n) |-> AddFull(considered, p[1], Fstab[p[2]])]
           h == CHOOSE f : FullSolves(f, considered)
<1>1. n \in Nat /\ DOMAIN Fstab = 1 .. n /\ \A k \in 1 .. n : Fstab[k] \in Disks!Mount
  BY DiskAssumption
<1>2. ASSUME NEW full \in A, NEW m \in Disks!Mount
      PROVE  AddFull(considered, full, m) \in A /\ (Low(full) => Low(AddFull(considered, full, m)))
  <2> DEFINE low == [mount |-> m, free |-> free[m]]
  <2>1. low \in Measured BY DEF DiskTypes, Measured
  <2>2. CASE m \in considered /\ free[m] <= LowFree
    <3>1. AddFull(considered, full, m) = Append(full, low) BY <2>2 DEF AddFull
    <3>2. low.mount = m OBVIOUS
    <3> HIDE DEF low
    <3>3. Append(full, low) \in A BY <2>1
    <3>4. ASSUME Low(full), NEW i \in DOMAIN Append(full, low)
          PROVE  Append(full, low)[i].mount \in considered /\ free[Append(full, low)[i].mount] <= LowFree
      <4>1. CASE i = Len(full) + 1 BY <2>2, <3>2, <4>1
      <4>2. CASE i # Len(full) + 1
        <5>1. i \in DOMAIN full /\ Append(full, low)[i] = full[i] BY <3>4, <4>2
        <5> QED BY <3>4, <5>1
      <4> QED BY <4>1, <4>2
    <3> QED BY <3>1, <3>3, <3>4
  <2>3. CASE ~(m \in considered /\ free[m] <= LowFree) BY <2>3 DEF AddFull
  <2> QED BY <2>2, <2>3
<1>3. <<>> \in A OBVIOUS
<1>4. step \in [A \X (1 .. n) -> A]
  <2> HIDE DEF A, Low, n
  <2> QED BY <1>1, <1>2
<1>5. PICK f \in [SUBSET (1 .. n) -> A] : Solves(f, n, <<>>, step)
  <2> HIDE DEF step, A, n
  <2> QED BY <1>1, <1>3, <1>4, FoldExists
<1>6. ASSUME NEW s \in SUBSET (1 .. n), s # {}
      PROVE  step[<<f[s \ {Largest(s)}], Largest(s)>>] = AddFull(considered, f[s \ {Largest(s)}], Fstab[Largest(s)])
  <2> HIDE DEF A, n
  <2>1. Largest(s) \in 1 .. n BY <1>1, <1>6, LargestIs
  <2>2. f[s \ {Largest(s)}] \in A OBVIOUS
  <2> QED BY <2>1, <2>2
<1> HIDE DEF n
<1>7. FullSolves(f, considered)
  <2> HIDE DEF step
  <2> QED BY <1>1, <1>5, <1>6 DEF Solves, FullSolves
<1>8. FullSolves(h, considered) BY <1>7
<1>9. Disks!FullMounts(considered) = h[DOMAIN Fstab]
  BY DEF Disks!FullMounts, Disks!FoldLeft, Disks!MapThenFoldSet, Disks!Max, FullSolves, AddFull, Largest
<1> HIDE DEF h
<1>10. h[{}] = <<>> BY <1>8 DEF FullSolves
<1>11. ASSUME NEW k \in 1 .. n PROVE h[1 .. k] = AddFull(considered, h[1 .. (k - 1)], Fstab[k])
  <2>1. /\ 1 .. k \in SUBSET (1 .. n) /\ 1 .. k # {}
        /\ Largest(1 .. k) = k /\ (1 .. k) \ {k} = 1 .. (k - 1) BY <1>1, FirstOnes
  <2> QED BY <1>1, <1>8, <2>1 DEF FullSolves
<1> DEFINE Good == {k \in 0 .. n : h[1 .. k] \in A /\ Low(h[1 .. k])}
<1>12. 0 \in Good
  <2>1. 1 .. 0 = {} /\ 0 \in 0 .. n BY <1>1
  <2>2. h[1 .. 0] = <<>> BY <1>10, <2>1
  <2>3. Low(<<>>) OBVIOUS
  <2> HIDE DEF A, Low
  <2> QED BY <1>3, <2>1, <2>2, <2>3
<1> HIDE DEF A, Low
<1>13. ASSUME NEW k \in 1 .. n, k - 1 \in Good PROVE k \in Good
  <2>1. h[1 .. (k - 1)] \in A /\ Low(h[1 .. (k - 1)]) BY <1>13
  <2>2. Fstab[k] \in Disks!Mount /\ k \in 0 .. n BY <1>1
  <2> QED BY <1>2, <1>11, <2>1, <2>2
<1> HIDE DEF Good
<1>14. n \in Good BY <1>1, <1>12, <1>13, Reaches
<1>15. h[1 .. n] \in A /\ Low(h[1 .. n]) BY <1>14 DEF Good
<1> QED BY <1>1, <1>9, <1>15 DEF A, Low

-----------------------------------------------------------------------------
\* Taking out entries keeps told behind.
LEMMA WithoutIs ==
  ASSUME DiskInv, NEW gone
  PROVE  /\ Disks!Without(notified, gone) \in [Disks!Mount -> Disks!Entry]
         /\ Disks!Without(told, gone) \in [Disks!Mount -> Disks!Entry]
         /\ Behind(Disks!Without(notified, gone), Disks!Without(told, gone))
         /\ \A m \in Disks!Mount \ gone : Disks!Without(told, gone)[m] = told[m]
BY EntryIs DEF DiskInv, DiskTypes, Disks!Without, Behind

Start(hash, tells) ==
  [notified |-> hash, told |-> tells, notice |-> notice, rest |-> <<>>, waits |-> FALSE, done |-> FALSE]

\* NotNagging for one mount.
Nags(m) ==
  notice' = m /\ notice # m /\ told[m].is /\ told'[m].is
    => told[m].ago > MinPeriod /\ told'[m].free + 1 < told[m].free

LEMMA ChecksKeep ==
  ASSUME DiskInv, NEW gone, NEW source, gone \cap mounted = {}, Disks!CheckAll(gone, source),
         UNCHANGED <<free, mounted, ignoring, ignore_paths>>
  PROVE  DiskInv' /\ \A m \in Disks!Mount : Nags(m)
<1> DEFINE considered == {m \in mounted : m \notin Disks!ToSet(ignore_paths)}
           drop == gone \cup {m \in considered : free[m] > LowFree}
           lows == Disks!FullMounts(considered)
           hash == Disks!Without(notified, drop)
           tells == Disks!Without(told, drop)
           base == Start(hash, tells)
<1>0. DiskTypes BY DEF DiskInv
<1>1. Disks!MaybeWarn(lows, hash, tells, source) BY DEF Disks!CheckAll
<1>2. PICK st : /\ st = Warnings(base, lows)
                /\ notified' = st.notified /\ told' = st.told /\ notice' = st.notice
                /\ rest' = IF st.waits THEN st.rest ELSE rest
  <2> HIDE DEF lows, hash, tells
  <2> QED BY <1>1, MaybeWarns DEF Start
<1>3. considered \subseteq mounted OBVIOUS
<1> HIDE DEF considered
<1>4. /\ hash \in [Disks!Mount -> Disks!Entry] /\ tells \in [Disks!Mount -> Disks!Entry] /\ Behind(hash, tells)
      /\ \A m \in Disks!Mount \ drop : tells[m] = told[m]
  <2> HIDE DEF drop
  <2> QED BY WithoutIs
<1>5. /\ lows \in Seq(Measured)
      /\ \A i \in DOMAIN lows : lows[i].mount \in considered /\ free[lows[i].mount] <= LowFree
  BY <1>0, FullIs
<1> HIDE DEF lows, hash, tells
<1>6. base \in LookAt /\ Behind(base.notified, base.told) /\ base.told = tells /\ base.notice = notice
  BY <1>0, <1>4 DEF Start, LookAt, DiskTypes
<1> HIDE DEF base
<1>7. Looked(st, base, lows) BY <1>2, <1>5, <1>6, WarnsDue
<1>8. st \in LookAt /\ Behind(st.notified, st.told) BY <1>7 DEF Looked
<1>9. DiskInv'
  <2>1. rest' \in Seq(Measured) BY <1>0, <1>2, <1>8 DEF DiskTypes, LookAt
  <2>2. DiskTypes' BY <1>0, <1>2, <1>8, <2>1 DEF DiskTypes, LookAt
  <2> QED BY <1>2, <1>8, <2>2 DEF DiskInv, Behind
<1>10. ASSUME NEW m \in Disks!Mount, notice' = m, notice # m, told[m].is
       PROVE  told[m].ago > MinPeriod /\ told'[m].free + 1 < told[m].free
  <2>1. st.notice = m /\ st.notice # base.notice BY <1>2, <1>6, <1>10
  <2>2. /\ \E i \in DOMAIN lows : lows[i].mount = m
        /\ base.told[m].is => base.told[m].ago > MinPeriod /\ st.told[m].free + 1 < base.told[m].free
    BY <1>7, <2>1 DEF Looked, NoticeDue
  <2>3. m \in considered /\ free[m] <= LowFree BY <1>5, <2>2
  <2>4. m \notin drop
    <3>1. m \in mounted /\ free[m] \in Nat BY <1>0, <1>3, <2>3, DiskAssumption DEF DiskTypes
    <3>2. ~(free[m] > LowFree) BY <2>3, <3>1, DiskAssumption
    <3> QED BY <3>1, <3>2
  <2>5. base.told[m] = told[m] BY <1>4, <1>6, <2>4
  <2> QED BY <1>2, <1>10, <2>2, <2>5
<1> QED BY <1>9, <1>10 DEF Nags

LEMMA DiskStart == Disks!Init => DiskInv
BY EntryIs DEF Disks!Init, DiskInv, DiskTypes, Behind

LEMMA AnswerKeeps ==
  ASSUME DiskInv, NEW goes_on \in BOOLEAN, Disks!Answered(goes_on)
  PROVE  DiskInv' /\ \A m \in Disks!Mount : Nags(m)
<1> DEFINE lows == IF goes_on THEN rest ELSE <<>>
           base == [notified |-> notified, told |-> told, notice |-> Nothing, rest |-> <<>>, waits |-> FALSE, done |-> FALSE]
           st == Warnings(base, lows)
<1>0. DiskTypes /\ Behind(notified, told) BY DEF DiskInv
<1>1. /\ notified' = st.notified /\ told' = st.told /\ notice' = st.notice /\ rest' = st.rest
      /\ UNCHANGED <<free, mounted, ignoring, ignore_paths>>
  BY DEF Disks!Answered, Warnings, Disks!disks, Disks!ignores
<1>2. lows \in Seq(Measured) BY <1>0 DEF DiskTypes
<1>3. /\ base \in LookAt /\ Behind(base.notified, base.told) /\ base.told = told /\ base.notice = Nothing
  BY <1>0 DEF DiskTypes, LookAt
<1> HIDE DEF lows, base
<1>4. Looked(st, base, lows) BY <1>2, <1>3, WarnsDue
<1>5. st \in LookAt /\ Behind(st.notified, st.told) BY <1>4 DEF Looked
<1> HIDE DEF st
<1>6. DiskInv'
  <2>1. DiskTypes' BY <1>0, <1>1, <1>5 DEF DiskTypes, LookAt
  <2> QED BY <1>1, <1>5, <2>1 DEF DiskInv, Behind
<1>7. ASSUME NEW m \in Disks!Mount, notice' = m, notice # m, told[m].is
      PROVE  told[m].ago > MinPeriod /\ told'[m].free + 1 < told[m].free
  <2>1. st.notice = m /\ m # Nothing BY <1>1, <1>7, DiskAssumption DEF Disks!Answered
  <2> QED BY <1>1, <1>3, <1>4, <1>7, <2>1 DEF Looked, NoticeDue
<1> QED BY <1>6, <1>7 DEF Nags

LEMMA OlderKeeps ==
  ASSUME NEW t \in [Disks!Mount -> Disks!Entry], NEW m \in Disks!Mount
  PROVE  /\ Disks!Older(t)[m] \in Disks!Entry /\ Disks!Older(t)[m].is = t[m].is
         /\ Disks!Older(t)[m].free = t[m].free
         /\ Disks!Older(t)[m].ago = IF t[m].is /\ t[m].ago <= MinPeriod THEN t[m].ago + 1 ELSE t[m].ago
<1>1. t[m] \in Disks!Entry OBVIOUS
<1>2. t[m] \in [free : FreeLevels, ago : 0 .. MinPeriod + 1, is : BOOLEAN] BY <1>1, EntryIs
<1>3. Disks!Older(t)[m] = IF t[m].is /\ t[m].ago <= MinPeriod THEN [t[m] EXCEPT !.ago = @ + 1] ELSE t[m]
  BY DEF Disks!Older
<1>4. t[m].ago <= MinPeriod => t[m].ago + 1 \in 0 .. MinPeriod + 1 BY <1>2, DiskAssumption
<1> QED BY <1>2, <1>3, <1>4, EntryIs

LEMMA TickKeeps == ASSUME DiskInv, Disks!Tick PROVE DiskInv'
<1> DEFINE n == Disks!Older(notified)
           t == Disks!Older(told)
<1>0. DiskTypes /\ Behind(notified, told) BY DEF DiskInv
<1>1. notified' = n /\ told' = t /\ UNCHANGED <<free, mounted, notice, rest, ignoring, ignore_paths>>
  BY DEF Disks!Tick, Disks!disks, Disks!ignores
<1>2. notified \in [Disks!Mount -> Disks!Entry] /\ told \in [Disks!Mount -> Disks!Entry]
  BY <1>0 DEF DiskTypes
<1>3. n \in [Disks!Mount -> Disks!Entry] /\ t \in [Disks!Mount -> Disks!Entry]
  <2>1. \A m \in Disks!Mount : n[m] \in Disks!Entry /\ t[m] \in Disks!Entry BY <1>2, OlderKeeps
  <2>2. n = [m \in Disks!Mount |-> n[m]] /\ t = [m \in Disks!Mount |-> t[m]] BY DEF Disks!Older
  <2> HIDE DEF n, t
  <2> QED BY <2>1, <2>2
<1>4. ASSUME NEW m \in Disks!Mount, t[m].is
      PROVE  n[m].is /\ t[m].free >= n[m].free /\ t[m].ago >= n[m].ago
  <2>1. /\ n[m].is = notified[m].is /\ n[m].free = notified[m].free
        /\ n[m].ago = IF notified[m].is /\ notified[m].ago <= MinPeriod THEN notified[m].ago + 1 ELSE notified[m].ago
    BY <1>2, OlderKeeps
  <2>2. /\ t[m].is = told[m].is /\ t[m].free = told[m].free
        /\ t[m].ago = IF told[m].is /\ told[m].ago <= MinPeriod THEN told[m].ago + 1 ELSE told[m].ago
    BY <1>2, OlderKeeps
  <2> HIDE DEF n, t
  <2>3. told[m].is BY <1>4, <2>2
  <2>4. notified[m].is /\ told[m].free >= notified[m].free /\ told[m].ago >= notified[m].ago
    BY <1>0, <2>3 DEF Behind
  <2>5. notified[m].ago \in 0 .. MinPeriod + 1 /\ told[m].ago \in 0 .. MinPeriod + 1
    <3>1. notified[m] \in Disks!Entry /\ told[m] \in Disks!Entry BY <1>2
    <3> QED BY <3>1, EntryIs
  <2> QED BY <2>1, <2>2, <2>3, <2>4, <2>5, DiskAssumption, SMTT(20)
<1> HIDE DEF n, t
<1>5. DiskTypes' BY <1>0, <1>1, <1>3 DEF DiskTypes
<1>6. Behind(notified', told') BY <1>1, <1>4 DEF Behind
<1> QED BY <1>5, <1>6 DEF DiskInv, Behind

LEMMA ToggleKeeps == ASSUME DiskInv, Disks!ToggleIgnore PROVE DiskInv'
<1>0. DiskTypes BY DEF DiskInv
<1>1. notice \in Disks!Mount BY <1>0 DEF Disks!ToggleIgnore, DiskTypes
<1>2. \A list \in Seq(Disks!Mount) : Disks!FirstOf(list) \in Seq(Disks!Mount)
  <2> TAKE list \in Seq(Disks!Mount)
  <2>1. CASE list = <<>> BY <2>1 DEF Disks!FirstOf
  <2>2. CASE list # <<>>
    <3>1. Head(list) \in Disks!Mount BY <2>2
    <3> QED BY <2>2, <3>1 DEF Disks!FirstOf
  <2> QED BY <2>1, <2>2
<1>3. ignoring' \in Seq(Disks!Mount)
  <2> DEFINE paths == Disks!FirstOf(ignoring)
  <2>1. paths \in Seq(Disks!Mount) BY <1>0, <1>2 DEF DiskTypes
  <2>2. ignoring' = IF notice \in Disks!ToSet(paths) THEN <<>> ELSE Append(paths, notice) BY DEF Disks!ToggleIgnore
  <2> HIDE DEF paths
  <2> QED BY <1>1, <2>1, <2>2
<1>4. ignore_paths' \in Seq(Disks!Mount)
  <2>1. ignore_paths' = Disks!FirstOf(ignoring') BY DEF Disks!ToggleIgnore
  <2> QED BY <1>2, <1>3, <2>1
<1> DEFINE gone == Disks!ToSet(ignore_paths')
<1>5. /\ notified' = Disks!Without(notified, gone) /\ told' = Disks!Without(told, gone)
      /\ UNCHANGED <<free, mounted, notice, rest>>
  BY DEF Disks!ToggleIgnore, Disks!disks
<1> HIDE DEF gone
<1>6. /\ Disks!Without(notified, gone) \in [Disks!Mount -> Disks!Entry]
      /\ Disks!Without(told, gone) \in [Disks!Mount -> Disks!Entry]
      /\ Behind(Disks!Without(notified, gone), Disks!Without(told, gone))
  BY WithoutIs
<1>7. DiskTypes' BY <1>0, <1>3, <1>4, <1>5, <1>6 DEF DiskTypes
<1> QED BY <1>5, <1>6, <1>7 DEF DiskInv, Behind

\* A step that puts up no notice.
LEMMA DiskStep ==
  ASSUME DiskInv, [Disks!Next]_(Disks!vars)
  PROVE  DiskInv' /\ \A m \in Disks!Mount : Nags(m)
<1> DEFINE N == \A m \in Disks!Mount : Nags(m)
<1>0. DiskTypes BY DEF DiskInv
<1>q. notice' = Nothing => N BY DiskAssumption DEF Nags
<1>r. notice' = notice => N BY DEF Nags
<1>1. ASSUME NEW m \in Disks!Mount, NEW f \in FreeLevels, Disks!Use(m, f) PROVE DiskInv' /\ N
  <2>1. /\ free' = [free EXCEPT ![m] = f] /\ notice' = notice
        /\ UNCHANGED <<mounted, notified, rest, told, ignoring, ignore_paths>>
    BY <1>1 DEF Disks!Use, Disks!ignores
  <2>2. free' \in [Disks!Mount -> FreeLevels] BY <1>0, <2>1 DEF DiskTypes
  <2> QED BY <1>r, <2>1, <2>2 DEF DiskInv, DiskTypes, Behind
<1>2. ASSUME NEW m \in Disks!Mount, Disks!MountOrUnmount(m) PROVE DiskInv' /\ N
  <2>1. /\ mounted' \subseteq Disks!Mount /\ notice' = notice
        /\ UNCHANGED <<free, notified, rest, told, ignoring, ignore_paths>>
    BY <1>0, <1>2 DEF Disks!MountOrUnmount, Disks!ignores, DiskTypes
  <2> QED BY <1>r, <2>1 DEF DiskInv, DiskTypes, Behind
<1>3. CASE Disks!Tick
  <2>1. notice' = notice BY <1>3 DEF Disks!Tick
  <2> QED BY <1>r, <1>3, <2>1, TickKeeps
<1>4. CASE Disks!Check
  <2>1. Disks!CheckAll({}, "timer") /\ UNCHANGED <<free, mounted, ignoring, ignore_paths>>
    BY <1>4 DEF Disks!Check, Disks!disks, Disks!ignores
  <2>2. {} \cap mounted = {} OBVIOUS
  <2> QED BY <2>1, <2>2, ChecksKeep
<1>5. CASE Disks!MountsChanged
  <2>1. Disks!CheckAll(Disks!Mount \ mounted, "monitor") /\ UNCHANGED <<free, mounted, ignoring, ignore_paths>>
    BY <1>5 DEF Disks!MountsChanged, Disks!disks, Disks!ignores
  <2>2. (Disks!Mount \ mounted) \cap mounted = {} OBVIOUS
  <2> QED BY <2>1, <2>2, ChecksKeep
<1>6. CASE Disks!Closed
  <2>1. /\ notice' = Nothing
        /\ UNCHANGED <<free, mounted, notified, rest, told, ignoring, ignore_paths>>
    BY <1>6 DEF Disks!Closed, Disks!disks, Disks!ignores
  <2> QED BY <1>q, <2>1 DEF DiskInv, DiskTypes, Behind
<1>7. CASE Disks!ToggleIgnore
  <2>1. notice' = notice BY <1>7 DEF Disks!ToggleIgnore
  <2> QED BY <1>r, <1>7, <2>1, ToggleKeeps
<1>8. ASSUME NEW goes_on \in BOOLEAN, Disks!Answered(goes_on) PROVE DiskInv' /\ N
  BY <1>8, AnswerKeeps
<1>9. ASSUME UNCHANGED Disks!vars PROVE DiskInv' /\ N
  <2>1. notice' = notice /\ UNCHANGED <<free, mounted, notified, rest, told, ignoring, ignore_paths>>
    BY <1>9 DEF Disks!vars
  <2> QED BY <1>r, <2>1 DEF DiskInv, DiskTypes, Behind
<1> HIDE DEF N
<1>10. ASSUME Disks!Next PROVE DiskInv' /\ N
  BY <1>1, <1>2, <1>3, <1>4, <1>5, <1>6, <1>7, <1>8, <1>10 DEF Disks!Next, N
<1> QED BY <1>9, <1>10 DEF N

LEMMA DisksTyped == DiskInv => Disks!TypeOK
BY DEF DiskInv, DiskTypes, Disks!TypeOK, Disks!ToSet

LEMMA PartIsDisks == AllSpec => Disks!Spec
<1>1. AllInit => Disks!Init BY DEF AllInit
<1>2. [AllNext]_allVars => [Disks!Next]_(Disks!vars)
  BY DEF AllNext, allVars, diskVars, Disks!vars
<1> QED BY <1>1, <1>2, PTL DEF AllSpec, Disks!Spec

LEMMA DisksKept == AllSpec => []DiskInv
<1>1. DiskInv /\ [Disks!Next]_(Disks!vars) => DiskInv' BY DiskStep
<1> QED BY DiskStart, <1>1, PartIsDisks, PTL DEF Disks!Spec

\* Warned again too soon: never.
LEMMA NeverNags == AllSpec => Disks!NotNagging
<1>1. DiskInv /\ [Disks!Next]_(Disks!vars) => DiskInv' BY DiskStep
<1>2. DiskInv /\ [Disks!Next]_(Disks!vars) =>
        [\A m \in Disks!Mount :
           notice' = m /\ notice # m /\ told[m].is /\ told'[m].is
             => told[m].ago > MinPeriod /\ told'[m].free + 1 < told[m].free]_(Disks!vars)
  BY DiskStep DEF Nags
<1> QED BY DiskStart, <1>1, <1>2, PartIsDisks, PTL DEF Disks!Spec, Disks!NotNagging

-----------------------------------------------------------------------------
(* Thumbnails.                                                             *)
-----------------------------------------------------------------------------
(* The thumbnail cache.                                                    *)

\* What sets of things weigh together: a sum does not depend on the order.
Weighs(sum, F, w) ==
  /\ sum \in [SUBSET F -> Nat] /\ sum[{}] = 0
  /\ \A S \in SUBSET F : \A x \in S : sum[S] = w[x] + sum[S \ {x}]

LEMMA SumExists ==
  ASSUME NEW F, IsFiniteSet(F), NEW w \in [F -> Nat]
  PROVE  \E sum : Weighs(sum, F, w)
<1>1. PICK n \in Nat : ExistsBijection(1 .. n, F) BY FS_NatBijection
<1>2. PICK q \in Bijection(1 .. n, F) : TRUE BY <1>1 DEF ExistsBijection
<1>3. /\ \A k \in 1 .. n : q[k] \in F
      /\ \A i, j \in 1 .. n : q[i] = q[j] => i = j
      /\ \A x \in F : \E k \in 1 .. n : q[k] = x
  BY <1>2 DEF Bijection, Injection, Surjection, IsInjective
<1> DEFINE A == [SUBSET F -> Nat]
           share(S, k) == IF q[k] \in S THEN w[q[k]] ELSE 0
           step == [p \in A \X (1 .. n) |-> [S \in SUBSET F |-> p[1][S] + share(S, p[2])]]
           none == [S \in SUBSET F |-> 0]
<1>4. none \in A OBVIOUS
<1>5. \A S \in SUBSET F : \A k \in 1 .. n : share(S, k) \in Nat BY <1>3
<1>6. step \in [A \X (1 .. n) -> A]
  <2> HIDE DEF share
  <2> QED BY <1>5
<1>7. PICK f \in [SUBSET (1 .. n) -> A] : Solves(f, n, none, step)
  <2> HIDE DEF step, A, none
  <2> QED BY <1>4, <1>6, FoldExists
<1> DEFINE t == [k \in 0 .. n |-> f[1 .. k]]
<1>8. t \in [0 .. n -> A] /\ t[0] = none
  <2>1. \A k \in 0 .. n : 1 .. k \in SUBSET (1 .. n) OBVIOUS
  <2>2. 1 .. 0 = {} /\ 0 \in 0 .. n OBVIOUS
  <2>3. f[{}] = none BY <1>7 DEF Solves
  <2> HIDE DEF none, A
  <2> QED BY <2>1, <2>2, <2>3
<1>9. ASSUME NEW k \in 1 .. n, NEW S \in SUBSET F
      PROVE  t[k][S] = t[k - 1][S] + share(S, k)
  <2>1. /\ 1 .. k \in SUBSET (1 .. n) /\ 1 .. k # {}
        /\ Largest(1 .. k) = k /\ (1 .. k) \ {k} = 1 .. (k - 1) BY FirstOnes
  <2>2. f[1 .. k] = step[<<f[1 .. (k - 1)], k>>]
    <3> HIDE DEF step, none, A
    <3> QED BY <1>7, <2>1 DEF Solves
  <2>3. k \in 0 .. n /\ k - 1 \in 0 .. n OBVIOUS
  <2>4. t[k] = step[<<t[k - 1], k>>] /\ t[k - 1] \in A
    <3>1. t[k] = f[1 .. k] /\ t[k - 1] = f[1 .. (k - 1)] BY <2>3
    <3> HIDE DEF t, step, A
    <3> QED BY <1>8, <2>2, <2>3, <3>1
  <2> HIDE DEF t, share
  <2> QED BY <2>4
<1> HIDE DEF t, step
<1> DEFINE upto(x, k) == IF \E j \in 1 .. k : q[j] = x THEN w[x] ELSE 0
           Sums(k) == /\ t[k][{}] = 0
                      /\ \A S \in SUBSET F : \A x \in S : t[k][S] = t[k][S \ {x}] + upto(x, k)
           Good == {k \in 0 .. n : Sums(k)}
<1>10. 0 \in Good
  <2>1. \A x : ~\E j \in 1 .. 0 : q[j] = x OBVIOUS
  <2>2. \A S \in SUBSET F : t[0][S] = 0 BY <1>8
  <2>3. \A S \in SUBSET F : \A x \in S : S \ {x} \in SUBSET F OBVIOUS
  <2>4. 0 \in 0 .. n /\ {} \in SUBSET F OBVIOUS
  <2> QED BY <2>1, <2>2, <2>3, <2>4
<1>11. ASSUME NEW k \in 1 .. n, k - 1 \in Good PROVE k \in Good
  <2>1. Sums(k - 1) BY <1>11
  <2>2. t[k][{}] = 0
    <3>1. t[k][{}] = t[k - 1][{}] + share({}, k) BY <1>9
    <3>2. share({}, k) = 0 OBVIOUS
    <3> HIDE DEF share
    <3> QED BY <2>1, <3>1, <3>2
  <2>3. ASSUME NEW S \in SUBSET F, NEW x \in S
        PROVE  t[k][S] = t[k][S \ {x}] + upto(x, k)
    <3> DEFINE R == S \ {x}
    <3>1. R \in SUBSET F /\ x \notin R OBVIOUS
    <3>2. t[k][S] = t[k - 1][S] + share(S, k) /\ t[k][R] = t[k - 1][R] + share(R, k) BY <1>9, <3>1
    <3>3. t[k - 1][S] = t[k - 1][R] + upto(x, k - 1) BY <2>1
    <3>4. t[k - 1][R] \in Nat /\ t[k - 1][S] \in Nat
      <4>1. k - 1 \in 0 .. n OBVIOUS
      <4>2. t[k - 1] \in A BY <1>8, <4>1
      <4> QED BY <3>1, <4>2
    <3>5. w[x] \in Nat OBVIOUS
    <3>6. CASE q[k] = x
      <4>1. \A j \in 1 .. (k - 1) : q[j] # x BY <1>3, <3>6
      <4>2. upto(x, k - 1) = 0 /\ upto(x, k) = w[x] BY <3>6, <4>1
      <4>3. share(S, k) = w[x] /\ share(R, k) = 0 BY <3>6
      <4> HIDE DEF upto, share, R
      <4>4. t[k][S] = t[k][R] + upto(x, k) BY <3>2, <3>3, <3>4, <3>5, <4>2, <4>3
      <4> QED BY <4>4 DEF R
    <3>7. CASE q[k] # x
      <4>1. upto(x, k) = upto(x, k - 1)
        <5>1. \A j : j \in 1 .. k <=> j \in 1 .. (k - 1) \/ j = k OBVIOUS
        <5> QED BY <3>7, <5>1
      <4>2. share(S, k) = share(R, k) BY <3>7
      <4>3. share(R, k) \in Nat /\ upto(x, k - 1) \in Nat BY <1>5, <3>1, <3>5
      <4> HIDE DEF upto, share, R
      <4>4. t[k][S] = t[k][R] + upto(x, k) BY <3>2, <3>3, <3>4, <4>1, <4>2, <4>3
      <4> QED BY <4>4 DEF R
    <3> QED BY <3>6, <3>7
  <2> HIDE DEF share, upto
  <2> QED BY <2>2, <2>3
<1> HIDE DEF Good
<1>12. n \in Good BY <1>10, <1>11, Reaches
<1>13. Sums(n) BY <1>12 DEF Good
<1>14. Weighs(t[n], F, w)
  <2>1. t[n] \in [SUBSET F -> Nat] BY <1>8
  <2>2. \A x \in F : upto(x, n) = w[x] BY <1>3
  <2>3. ASSUME NEW S \in SUBSET F, NEW x \in S PROVE t[n][S] = w[x] + t[n][S \ {x}]
    <3>1. t[n][S] = t[n][S \ {x}] + upto(x, n) BY <1>13
    <3>2. upto(x, n) = w[x] /\ w[x] \in Nat /\ S \ {x} \in SUBSET F /\ t[n][S \ {x}] \in Nat BY <2>1, <2>2
    <3> HIDE DEF upto
    <3> QED BY <3>1, <3>2
  <2> HIDE DEF upto
  <2> QED BY <1>13, <2>1, <2>3 DEF Weighs
<1> QED BY <1>14

\* An enumeration without repetitions leaves nothing out.
LEMMA AllCounted ==
  ASSUME NEW S, IsFiniteSet(S), NEW p \in [1 .. Cardinality(S) -> S],
         \A i, j \in 1 .. Cardinality(S) : p[i] = p[j] => i = j
  PROVE  \A x \in S : \E k \in 1 .. Cardinality(S) : p[k] = x
<1> DEFINE n == Cardinality(S)
<1>1. n \in Nat BY FS_CardinalityType
<1>2. p \in Injection(1 .. n, S) BY DEF Injection, IsInjective
<1>3. Cardinality(1 .. n) = n
  <2> HIDE DEF n
  <2>1. Cardinality(1 .. n) = IF 1 > n THEN 0 ELSE n - 1 + 1 BY <1>1, FS_Interval
  <2> QED BY <1>1, <2>1
<1>4. p \in Surjection(1 .. n, S) BY <1>2, <1>3, FS_Injection
<1> QED BY <1>4 DEF Surjection

SizeSolves(f, p) ==
  f = [s \in SUBSET DOMAIN p |-> IF s = {} THEN 0 ELSE f[s \ {Largest(s)}] + p[Largest(s)].size]

\* What is counted is the sum.
LEMMA SizeIs ==
  ASSUME NEW F, IsFiniteSet(F), \A x \in F : x.size \in Nat,
         NEW sum, Weighs(sum, F, [x \in F |-> x.size]), NEW S \in SUBSET F
  PROVE  Thumbs!Size(S) = sum[S]
<1> DEFINE n == Cardinality(S)
           p == Thumbs!SetToSeq(S)
           h == CHOOSE f : SizeSolves(f, p)
           step == [q \in Nat \X (1 .. n) |-> q[1] + p[q[2]].size]
<1>1. IsFiniteSet(S) BY FS_Subset
<1>2. n \in Nat /\ ExistsBijection(1 .. n, S) BY <1>1, FS_CardinalityType
<1>n. n \in Nat /\ Thumbs!Cardinality(S) = n BY <1>2 DEF Thumbs!Cardinality, Cardinality
<1>3. p \in [1 .. n -> S] /\ \A i, j \in 1 .. n : p[i] = p[j] => i = j
  <2>1. PICK b \in [1 .. n -> S] : Thumbs!IsInjective(b)
    <3>1. PICK b \in Bijection(1 .. n, S) : TRUE BY <1>2 DEF ExistsBijection
    <3> QED BY <3>1 DEF Bijection, Injection, IsInjective, Thumbs!IsInjective
  <2>2. p \in [1 .. n -> S] /\ Thumbs!IsInjective(p) BY <1>n, <2>1 DEF Thumbs!SetToSeq
  <2> QED BY <2>2 DEF Thumbs!IsInjective
<1>4. \A x \in S : \E k \in 1 .. n : p[k] = x
  <2> HIDE DEF p
  <2> QED BY <1>1, <1>3, AllCounted
<1>5. Thumbs!Size(S) = h[DOMAIN p]
  BY DEF Thumbs!Size, Thumbs!FoldLeft, Thumbs!MapThenFoldSet, Thumbs!Max, SizeSolves, Largest
<1> HIDE DEF h, p, n
<1>6. \A k \in 1 .. n : p[k] \in S /\ p[k] \in F /\ p[k].size \in Nat BY <1>3
<1>7. step \in [Nat \X (1 .. n) -> Nat] BY <1>6
<1>8. PICK f \in [SUBSET (1 .. n) -> Nat] : Solves(f, n, 0, step)
  <2> HIDE DEF step
  <2> QED BY <1>2, <1>7, FoldExists
<1>9. SizeSolves(f, p)
  <2>1. ASSUME NEW s \in SUBSET (1 .. n), s # {}
        PROVE  step[<<f[s \ {Largest(s)}], Largest(s)>>] = f[s \ {Largest(s)}] + p[Largest(s)].size
    <3>1. Largest(s) \in 1 .. n BY <1>2, <2>1, LargestIs
    <3>2. f[s \ {Largest(s)}] \in Nat OBVIOUS
    <3> QED BY <3>1, <3>2
  <2>2. DOMAIN p = 1 .. n BY <1>3
  <2> HIDE DEF step
  <2> QED BY <1>8, <2>1, <2>2 DEF Solves, SizeSolves
<1>10. SizeSolves(h, p) BY <1>9 DEF h
<1>11. DOMAIN p = 1 .. n BY <1>3
<1>12. h[{}] = 0 BY <1>10 DEF SizeSolves
<1>13. ASSUME NEW k \in 1 .. n PROVE h[1 .. k] = h[1 .. (k - 1)] + p[k].size
  <2>1. /\ 1 .. k \in SUBSET (1 .. n) /\ 1 .. k # {}
        /\ Largest(1 .. k) = k /\ (1 .. k) \ {k} = 1 .. (k - 1) BY <1>2, FirstOnes
  <2> QED BY <1>10, <1>11, <2>1 DEF SizeSolves
<1> DEFINE first(k) == {p[i] : i \in 1 .. k}
           Good == {k \in 0 .. n : h[1 .. k] = sum[first(k)]}
<1>14. 0 \in Good
  <2>1. 1 .. 0 = {} /\ first(0) = {} /\ 0 \in 0 .. n BY <1>2
  <2> HIDE DEF first
  <2> QED BY <1>12, <2>1 DEF Weighs
<1>15. ASSUME NEW k \in 1 .. n, k - 1 \in Good PROVE k \in Good
  <2>1. h[1 .. (k - 1)] = sum[first(k - 1)] BY <1>15
  <2>2. first(k) \in SUBSET F /\ p[k] \in first(k) BY <1>2, <1>6
  <2>3. first(k) \ {p[k]} = first(k - 1)
    <3>1. ASSUME NEW x \in first(k), x # p[k] PROVE x \in first(k - 1)
      <4>1. PICK i \in 1 .. k : x = p[i] OBVIOUS
      <4>2. i \in 1 .. (k - 1) BY <3>1, <4>1
      <4> QED BY <4>1, <4>2
    <3>2. ASSUME NEW x \in first(k - 1) PROVE x \in first(k) /\ x # p[k]
      <4>1. PICK i \in 1 .. (k - 1) : x = p[i] OBVIOUS
      <4>2. i \in 1 .. n /\ i \in 1 .. k /\ i # k BY <1>2
      <4> QED BY <1>3, <4>1, <4>2
    <3> HIDE DEF first
    <3> QED BY <3>1, <3>2
  <2> HIDE DEF first
  <2>4. sum[first(k)] = p[k].size + sum[first(k - 1)]
    <3> DEFINE w == [x \in F |-> x.size]
    <3>1. p[k] \in F /\ w[p[k]] = p[k].size BY <1>6
    <3>2. Weighs(sum, F, w) OBVIOUS
    <3> HIDE DEF w
    <3>3. sum[first(k)] = w[p[k]] + sum[first(k) \ {p[k]}] BY <2>2, <3>2 DEF Weighs
    <3> QED BY <2>3, <3>1, <3>3
  <2>5. first(k - 1) \in SUBSET F /\ sum[first(k - 1)] \in Nat BY <2>2, <2>3 DEF Weighs
  <2>6. p[k].size \in Nat /\ k \in 0 .. n BY <1>2, <1>6
  <2> QED BY <1>13, <2>1, <2>4, <2>5, <2>6
<1> HIDE DEF Good
<1>16. n \in Good BY <1>n, <1>14, <1>15, Reaches
<1>17. h[1 .. n] = sum[first(n)] BY <1>16 DEF Good
<1>18. first(n) = S BY <1>3, <1>4
<1> QED BY <1>5, <1>11, <1>17, <1>18

\* The limits of the settings fit an int (the others are a known deviation).
LimitsFit ==
  \A l \in Limit : {l, l * Megabyte} \subseteq -(Width \div 2) .. Width \div 2 - 1

LEMMA WrappedFits ==
  ASSUME NEW l \in -(Width \div 2) .. Width \div 2 - 1
  PROVE  Thumbs!Wrapped(l) = l
<1> DEFINE h == Width \div 2
           x == l + h
<1>1. Width \in Nat /\ h \in Nat /\ h + h <= Width BY ThumbnailAssumption
<1>2. x \in Nat /\ x < Width BY <1>1
<1>3. x % Width = x BY <1>1, <1>2
<1>4. Thumbs!Wrapped(l) = (x % Width) - h BY DEF Thumbs!Wrapped
<1> HIDE DEF h
<1> QED BY <1>1, <1>3, <1>4

LEMMA LimitsAre ==
  ASSUME LimitsFit, maximum_age \in Limit, maximum_size \in Limit
  PROVE  /\ Thumbs!MaxAge = maximum_age /\ Thumbs!MaxSize = maximum_size * Megabyte
         /\ maximum_size \in Int /\ maximum_age \in Int /\ maximum_size * Megabyte \in Int
         /\ maximum_size < 0 <=> maximum_size * Megabyte < 0
<1>1. /\ maximum_age \in -(Width \div 2) .. Width \div 2 - 1
      /\ maximum_size * Megabyte \in -(Width \div 2) .. Width \div 2 - 1
  BY DEF LimitsFit
<1>2. Thumbs!MaxAge = maximum_age /\ Thumbs!MaxSize = maximum_size * Megabyte
  BY <1>1, WrappedFits DEF Thumbs!MaxAge, Thumbs!MaxSize
<1>3. maximum_size \in Int /\ maximum_age \in Int /\ Megabyte \in Int /\ Megabyte > 0 BY ThumbnailAssumption
<1>4. \A a, b \in Int : b > 0 => (a < 0 <=> a * b < 0) /\ a * b \in Int
  <2> TAKE a, b \in Int
  <2>1. a * b \in Int OBVIOUS
  <2>2. ASSUME b > 0, a < 0 PROVE a * b < 0 BY <2>2
  <2>3. ASSUME b > 0, a >= 0 PROVE a * b >= 0 BY <2>3
  <2> QED BY <2>1, <2>2, <2>3
<1> QED BY <1>2, <1>3, <1>4

File == [name : Name, mtime : Nat, size : Sizes]
ThumbInv ==
  /\ today \in Nat /\ files \subseteq File /\ IsFiniteSet(files)
  /\ \A f, g \in files : f.name = g.name => f = g
  /\ maximum_age \in Limit /\ maximum_size \in Limit

Scan(st, f) ==
  IF Thumbs!MaxSize >= 0 /\ st.total > Thumbs!MaxSize
    THEN [kept |-> st.kept \ {f}, total |-> st.total - (IF Thumbs!Old(f) THEN 0 ELSE f.size)] ELSE st
ScanSolves(f, base, order) ==
  f = [s \in SUBSET DOMAIN order |->
         IF s = {} THEN base ELSE Scan(f[s \ {Largest(s)}], order[Largest(s)])]

Young == {f \in files : ~Thumbs!Old(f)}
Uncut == [kept |-> Young, total |-> IF Thumbs!MaxAge >= 0 THEN Thumbs!Size(Young) ELSE 0]

\* purge_thumbnail_cache goes through the files in their order.
LEMMA PurgeTrace ==
  ASSUME NEW n \in Nat, NEW order \in [1 .. n -> files], \A f \in files : f.size \in Nat,
         Thumbs!MaxSize \in Int, Uncut.total \in Int
  PROVE  \E t : /\ t[0] = Uncut /\ Thumbs!Purge(order) = t[n].kept
                /\ \A k \in 1 .. n : t[k] = Scan(t[k - 1], order[k])
<1> DEFINE A == [kept : SUBSET files, total : Int]
           step == [p \in A \X (1 .. n) |-> Scan(p[1], order[p[2]])]
           h == CHOOSE f : ScanSolves(f, Uncut, order)
           t == [k \in 0 .. n |-> h[1 .. k]]
<1>1. Uncut \in A BY DEF Uncut, Young
<1>2. ASSUME NEW st \in A, NEW f \in files PROVE Scan(st, f) \in A
  <2> DEFINE w == IF Thumbs!Old(f) THEN 0 ELSE f.size
  <2>1. w \in Int /\ st.total \in Int OBVIOUS
  <2>2. Scan(st, f) \in {st, [kept |-> st.kept \ {f}, total |-> st.total - w]} BY DEF Scan
  <2> HIDE DEF w
  <2> QED BY <2>1, <2>2
<1>3. step \in [A \X (1 .. n) -> A]
  <2> HIDE DEF A
  <2> QED BY <1>2
<1>4. PICK f \in [SUBSET (1 .. n) -> A] : Solves(f, n, Uncut, step)
  <2> HIDE DEF A, step
  <2> QED BY <1>1, <1>3, FoldExists
<1>5. DOMAIN order = 1 .. n OBVIOUS
<1>6. ScanSolves(f, Uncut, order)
  <2>1. ASSUME NEW s \in SUBSET (1 .. n), s # {}
        PROVE  step[<<f[s \ {Largest(s)}], Largest(s)>>] = Scan(f[s \ {Largest(s)}], order[Largest(s)])
    <3> HIDE DEF A
    <3>1. Largest(s) \in 1 .. n BY <2>1, LargestIs
    <3>2. f[s \ {Largest(s)}] \in A OBVIOUS
    <3> QED BY <3>1, <3>2
  <2> HIDE DEF A, step
  <2> QED BY <1>4, <1>5, <2>1 DEF Solves, ScanSolves
<1>7. ScanSolves(h, Uncut, order) BY <1>6
<1>8. Thumbs!Purge(order) = h[DOMAIN order].kept
  BY DEF Thumbs!Purge, Thumbs!FoldLeft, Thumbs!MapThenFoldSet, Thumbs!Max, ScanSolves, Scan, Uncut, Young, Largest
<1> HIDE DEF h
<1>9. h[{}] = Uncut BY <1>7 DEF ScanSolves
<1>10. ASSUME NEW k \in 1 .. n PROVE h[1 .. k] = Scan(h[1 .. (k - 1)], order[k])
  <2>1. /\ 1 .. k \in SUBSET (1 .. n) /\ 1 .. k # {}
        /\ Largest(1 .. k) = k /\ (1 .. k) \ {k} = 1 .. (k - 1) BY FirstOnes
  <2> QED BY <1>5, <1>7, <2>1 DEF ScanSolves
<1>11. t[0] = Uncut /\ t[n] = h[1 .. n]
  <2>1. 0 \in 0 .. n /\ n \in 0 .. n /\ 1 .. 0 = {} OBVIOUS
  <2> QED BY <1>9, <2>1
<1>12. \A k \in 1 .. n : k \in 0 .. n /\ k - 1 \in 0 .. n OBVIOUS
<1>13. \A k \in 1 .. n : t[k] = Scan(t[k - 1], order[k]) BY <1>10, <1>12
<1> HIDE DEF t
<1> QED BY <1>5, <1>8, <1>11, <1>13

\* Fits, of what a purge has kept.
Fitted(kept) ==
  LET young == {f \in files : today - f.mtime <= maximum_age}
      taken == young \ kept
  IN /\ kept \subseteq young
     /\ maximum_size < 0 => taken = {}
     /\ maximum_size >= 0 => Thumbs!Size(kept) <= maximum_size * Megabyte
     /\ \A f \in taken : \A g \in kept : f.mtime <= g.mtime
     /\ taken # {} => \E f \in taken : Thumbs!Size(kept) + f.size > maximum_size * Megabyte

\* What the first files of the order are, and what is left when they are gone:
\* so far as the limit was exceeded they are, and the last of them had to go.
First(order, m) == {order[i] : i \in 1 .. m}
Scanned(st, sum, order, k, m) ==
  /\ m \in 0 .. k
  /\ st.kept = Young \ First(order, m) /\ st.total = sum[st.kept]
  /\ m < k => ~(Thumbs!MaxSize >= 0 /\ st.total > Thumbs!MaxSize)
  /\ Young \cap First(order, m) # {} =>
       /\ Thumbs!MaxSize >= 0
       /\ \E f \in Young \cap First(order, m) : sum[st.kept] + f.size > Thumbs!MaxSize

LEMMA ScanKeeps ==
  ASSUME NEW n \in Nat, NEW order \in [1 .. n -> files], \A i, j \in 1 .. n : order[i] = order[j] => i = j,
         \A f \in files : f.size \in Nat, Thumbs!MaxSize \in Int,
         NEW sum, Weighs(sum, files, [f \in files |-> f.size]),
         NEW k \in 1 .. n, NEW st, NEW m, Scanned(st, sum, order, k - 1, m)
  PROVE  \E l : Scanned(Scan(st, order[k]), sum, order, k, l)
<1> DEFINE M == Thumbs!MaxSize
           x == order[k]
           next == Scan(st, x)
<1>0. /\ m \in 0 .. k - 1
      /\ st.kept = Young \ First(order, m) /\ st.total = sum[st.kept]
      /\ m < k - 1 => ~(M >= 0 /\ st.total > M)
      /\ Young \cap First(order, m) # {} =>
           M >= 0 /\ \E f \in Young \cap First(order, m) : sum[st.kept] + f.size > M
  BY DEF Scanned
<1>1. CASE ~(M >= 0 /\ st.total > M)
  <2>1. next = st BY <1>1 DEF Scan
  <2>2. m \in 0 .. k /\ m < k BY <1>0
  <2>3. Scanned(next, sum, order, k, m) BY <1>0, <1>1, <2>1, <2>2 DEF Scanned
  <2> QED BY <2>3
<1>2. CASE M >= 0 /\ st.total > M
  <2>1. m = k - 1 BY <1>0, <1>2
  <2>2. x \in files /\ x.size \in Nat OBVIOUS
  <2>3. First(order, k) = First(order, k - 1) \cup {x}
    <3>1. \A i : i \in 1 .. k <=> i \in 1 .. (k - 1) \/ i = k OBVIOUS
    <3> QED BY <3>1 DEF First
  <2>4. x \notin First(order, k - 1)
    <3>1. \A i \in 1 .. (k - 1) : i \in 1 .. n /\ i # k OBVIOUS
    <3> QED BY <3>1 DEF First
  <2>5. next = [kept |-> st.kept \ {x}, total |-> st.total - (IF Thumbs!Old(x) THEN 0 ELSE x.size)]
    BY <1>2 DEF Scan
  <2>6. next.kept = Young \ First(order, k) BY <1>0, <2>1, <2>3, <2>5
  <2>7. k \in 0 .. k /\ ~(k < k) OBVIOUS
  <2>8. st.kept \in SUBSET files BY <1>0 DEF Young
  <2>9. sum[st.kept] \in Nat BY <2>8 DEF Weighs
  <2>10. CASE Thumbs!Old(x)
    <3>1. x \notin Young BY <2>10 DEF Young
    <3>2. next.kept = st.kept /\ Young \cap First(order, k) = Young \cap First(order, k - 1)
      BY <1>0, <2>1, <2>3, <2>6, <3>1
    <3>3. next.total = st.total BY <1>0, <2>5, <2>9, <2>10
    <3> HIDE DEF next, M
    <3>4. Scanned(next, sum, order, k, k)
      BY <1>0, <1>2, <2>1, <2>6, <2>7, <3>2, <3>3 DEF Scanned, M
    <3> QED BY <3>4 DEF next
  <2>11. CASE ~Thumbs!Old(x)
    <3>1. x \in Young /\ x \in st.kept BY <1>0, <2>1, <2>2, <2>4, <2>11 DEF Young
    <3>2. next.kept = st.kept \ {x} /\ next.total = st.total - x.size BY <2>5, <2>11
    <3>3. sum[st.kept] = x.size + sum[st.kept \ {x}]
      <4> DEFINE w == [f \in files |-> f.size]
      <4>1. w[x] = x.size /\ Weighs(sum, files, w) BY <2>2
      <4> HIDE DEF w
      <4> QED BY <2>8, <3>1, <4>1 DEF Weighs
    <3>4. sum[st.kept \ {x}] \in Nat BY <2>8 DEF Weighs
    <3>5. next.total = sum[next.kept] BY <1>0, <2>2, <2>9, <3>2, <3>3, <3>4
    <3>6. sum[next.kept] + x.size > M BY <1>0, <1>2, <2>2, <2>9, <3>2, <3>3, <3>4
    <3>7. x \in Young \cap First(order, k) BY <2>3, <3>1
    <3> HIDE DEF next, M
    <3>8. Scanned(next, sum, order, k, k)
      BY <1>2, <2>6, <2>7, <3>5, <3>6, <3>7 DEF Scanned, M
    <3> QED BY <3>8 DEF next
  <2> QED BY <2>10, <2>11
<1> QED BY <1>1, <1>2

LEMMA PurgeFitted ==
  ASSUME ThumbInv, LimitsFit, maximum_age >= 0,
         NEW order \in Thumbs!SetToSeqs(files), Thumbs!ByAge(order)
  PROVE  Fitted(Thumbs!Purge(order)) /\ Thumbs!Purge(order) \subseteq files
<1> DEFINE n == Cardinality(files)
           M == maximum_size * Megabyte
           kept == Thumbs!Purge(order)
<1>1. /\ Thumbs!MaxAge = maximum_age /\ Thumbs!MaxSize = M /\ M \in Int /\ maximum_size \in Int
      /\ maximum_age \in Int /\ (maximum_size < 0 <=> M < 0)
  BY LimitsAre DEF ThumbInv
<1>2. \A f \in files : f.size \in Nat /\ f.mtime \in Nat BY ThumbnailAssumption DEF ThumbInv, File
<1>3. IsFiniteSet(files) /\ today \in Nat /\ n \in Nat BY FS_CardinalityType DEF ThumbInv
<1>4. Thumbs!Cardinality(files) = n BY <1>3 DEF Thumbs!Cardinality, Cardinality
<1>5. order \in [1 .. n -> files] /\ \A i, j \in 1 .. n : order[i] = order[j] => i = j
  BY <1>4 DEF Thumbs!SetToSeqs
<1>6. \A x \in files : \E k \in 1 .. n : order[k] = x
  BY <1>3, <1>5, AllCounted
<1>7. \A f : f \in Young <=> f \in files /\ today - f.mtime <= maximum_age
  <2> TAKE f
  <2>1. f \in files => today - f.mtime \in Int BY <1>2, <1>3
  <2> HIDE DEF M
  <2>2. f \in files => (Thumbs!Old(f) <=> ~(today - f.mtime <= maximum_age))
    BY <1>1, <2>1 DEF Thumbs!Old
  <2> QED BY <2>2 DEF Young
<1> DEFINE w == [f \in files |-> f.size]
<1>8. w \in [files -> Nat] BY <1>2
<1>9. PICK sum : Weighs(sum, files, w)
  <2> HIDE DEF w
  <2> QED BY <1>3, <1>8, SumExists
<1>10. \A S \in SUBSET files : Thumbs!Size(S) = sum[S] /\ sum[S] \in Nat
  <2>1. \A S \in SUBSET files : Thumbs!Size(S) = sum[S] BY <1>2, <1>3, <1>9, SizeIs
  <2> QED BY <1>9, <2>1 DEF Weighs
<1>11. Young \in SUBSET files BY DEF Young
<1>12. Uncut.kept = Young /\ Uncut.total = sum[Young] /\ Uncut.total \in Int
  BY <1>1, <1>10, <1>11 DEF Uncut
<1> HIDE DEF n, M
<1>13. PICK t : /\ t[0] = Uncut /\ kept = t[n].kept
                /\ \A k \in 1 .. n : t[k] = Scan(t[k - 1], order[k])
  BY <1>1, <1>2, <1>3, <1>5, <1>12, PurgeTrace
<1> DEFINE Good == {k \in 0 .. n : \E m : Scanned(t[k], sum, order, k, m)}
<1>14. 0 \in Good
  <2>1. First(order, 0) = {} /\ 0 \in 0 .. 0 /\ 0 \in 0 .. n BY <1>3 DEF First
  <2>2. Scanned(t[0], sum, order, 0, 0) BY <1>12, <1>13, <2>1 DEF Scanned
  <2> QED BY <2>1, <2>2
<1>15. ASSUME NEW k \in 1 .. n, k - 1 \in Good PROVE k \in Good
  <2>1. PICK m : Scanned(t[k - 1], sum, order, k - 1, m) BY <1>15
  <2>2. \E l : Scanned(Scan(t[k - 1], order[k]), sum, order, k, l)
    BY <1>1, <1>2, <1>3, <1>5, <1>9, <2>1, ScanKeeps
  <2>3. k \in 0 .. n BY <1>3
  <2> QED BY <1>13, <2>2, <2>3
<1> HIDE DEF Good
<1>16. n \in Good BY <1>3, <1>14, <1>15, Reaches
<1>17. PICK m : Scanned(t[n], sum, order, n, m) BY <1>16 DEF Good
<1>18. /\ m \in 0 .. n /\ kept = Young \ First(order, m) /\ t[n].total = sum[kept]
       /\ m < n => ~(M >= 0 /\ sum[kept] > M)
       /\ Young \cap First(order, m) # {} =>
            M >= 0 /\ \E f \in Young \cap First(order, m) : sum[kept] + f.size > M
  BY <1>1, <1>13, <1>17 DEF Scanned
<1> DEFINE young == {f \in files : today - f.mtime <= maximum_age}
           taken == young \ kept
<1>19. young = Young /\ taken = Young \cap First(order, m) /\ kept \subseteq young BY <1>7, <1>18
<1>20. kept \in SUBSET files BY <1>11, <1>18
<1> HIDE DEF kept, young, taken
<1>21. maximum_size >= 0 => Thumbs!Size(kept) <= M
  <2>1. CASE m < n BY <1>1, <1>10, <1>18, <1>20, <2>1
  <2>2. CASE m = n
    <3>1. files \subseteq First(order, n) BY <1>6 DEF First
    <3>2. kept = {} BY <1>11, <1>18, <2>2, <3>1
    <3>3. sum[{}] = 0 BY <1>9 DEF Weighs
    <3> QED BY <1>1, <1>10, <1>20, <3>2, <3>3
  <2> QED BY <1>3, <1>18, <2>1, <2>2
<1>22. ASSUME NEW f \in taken, NEW g \in kept PROVE f.mtime <= g.mtime
  <2>1. PICK i \in 1 .. m : f = order[i] BY <1>19 DEF First
  <2>2. PICK j \in 1 .. n : g = order[j] BY <1>6, <1>20
  <2>3. j \notin 1 .. m BY <1>18, <2>2 DEF First
  <2>4. i \in 1 .. n /\ i < j BY <1>3, <1>18, <2>3
  <2>5. DOMAIN order = 1 .. n BY <1>5
  <2> QED BY <2>1, <2>2, <2>4, <2>5 DEF Thumbs!ByAge
<1>23. taken # {} => \E f \in taken : Thumbs!Size(kept) + f.size > M
  BY <1>10, <1>18, <1>19, <1>20
<1>24. maximum_size < 0 => taken = {} BY <1>1, <1>18, <1>19
<1>25. Fitted(kept)
  <2>1. maximum_size >= 0 => Thumbs!Size(kept) <= maximum_size * Megabyte BY <1>21 DEF M
  <2>2. taken # {} => \E f \in taken : Thumbs!Size(kept) + f.size > maximum_size * Megabyte BY <1>23 DEF M
  <2> QED BY <1>19, <1>22, <1>24, <2>1, <2>2, Zenon DEF Fitted, young, taken
<1> QED BY <1>20, <1>25 DEF kept

LEMMA ThumbStart == Thumbs!Init => ThumbInv
BY FS_EmptySet DEF Thumbs!Init, ThumbInv

\* Less files are as well typed.
LEMMA FewerFiles ==
  ASSUME ThumbInv, files' \subseteq files, today' = today,
         maximum_age' = maximum_age, maximum_size' = maximum_size
  PROVE  ThumbInv'
<1>1. IsFiniteSet(files') BY FS_Subset DEF ThumbInv
<1> QED BY <1>1 DEF ThumbInv

\* The limits are integers, wrapped or not.
LEMMA LimitsAreInts ==
  ASSUME maximum_size \in Limit
  PROVE  Thumbs!MaxSize \in Int
<1>1. maximum_size \in Int /\ Megabyte \in Int /\ Width \in Nat /\ Width > 0 BY ThumbnailAssumption
<1>2. maximum_size * Megabyte \in Int BY <1>1
<1>3. \A n \in Int : Thumbs!Wrapped(n) \in Int
  <2> TAKE n \in Int
  <2> DEFINE h == Width \div 2
             r == (n + h) % Width
  <2>1. h \in Int BY <1>1
  <2> HIDE DEF h
  <2>2. n + h \in Int BY <2>1
  <2>3. r \in Int BY <1>1, <2>2
  <2>4. Thumbs!Wrapped(n) = r - h BY DEF Thumbs!Wrapped, h
  <2> HIDE DEF r
  <2> QED BY <2>1, <2>3, <2>4
<1> QED BY <1>2, <1>3 DEF Thumbs!MaxSize

\* A purge writes no file.
LEMMA PurgeLeavesFewer ==
  ASSUME ThumbInv, Thumbs!PurgeThumbnails
  PROVE  files' \subseteq files
<1>1. PICK order \in Thumbs!SetToSeqs(files) : files' = Thumbs!Purge(order) BY DEF Thumbs!PurgeThumbnails
<1> DEFINE n == Cardinality(files)
           w == [f \in files |-> f.size]
<1>2. IsFiniteSet(files) /\ n \in Nat BY FS_CardinalityType DEF ThumbInv
<1>3. Thumbs!Cardinality(files) = n BY <1>2 DEF Thumbs!Cardinality, Cardinality
<1>4. order \in [1 .. n -> files] BY <1>3 DEF Thumbs!SetToSeqs
<1>5. \A f \in files : f.size \in Nat BY ThumbnailAssumption DEF ThumbInv, File
<1>6. w \in [files -> Nat] BY <1>5
<1>7. PICK sum : Weighs(sum, files, w)
  <2> HIDE DEF w
  <2> QED BY <1>2, <1>6, SumExists
<1>8. Young \in SUBSET files BY DEF Young
<1>9. Thumbs!Size(Young) = sum[Young] /\ sum[Young] \in Nat
  <2>1. Thumbs!Size(Young) = sum[Young] BY <1>2, <1>5, <1>7, <1>8, SizeIs
  <2> QED BY <1>7, <1>8, <2>1 DEF Weighs
<1>10. Uncut.kept = Young /\ Uncut.total \in Int BY <1>9 DEF Uncut
<1>11. Thumbs!MaxSize \in Int BY LimitsAreInts DEF ThumbInv
<1> HIDE DEF n
<1>12. PICK t : /\ t[0] = Uncut /\ Thumbs!Purge(order) = t[n].kept
                /\ \A k \in 1 .. n : t[k] = Scan(t[k - 1], order[k])
  BY <1>2, <1>4, <1>5, <1>10, <1>11, PurgeTrace
<1> DEFINE Good == {k \in 0 .. n : t[k].kept \subseteq files}
<1>13. 0 \in Good BY <1>2, <1>8, <1>10, <1>12
<1>14. ASSUME NEW k \in 1 .. n, k - 1 \in Good PROVE k \in Good
  <2>1. t[k] = Scan(t[k - 1], order[k]) BY <1>12
  <2>2. t[k].kept \subseteq t[k - 1].kept BY <2>1 DEF Scan
  <2>3. k \in 0 .. n BY <1>2
  <2> QED BY <1>14, <2>2, <2>3
<1> HIDE DEF Good
<1>15. n \in Good BY <1>2, <1>13, <1>14, Reaches
<1> QED BY <1>1, <1>12, <1>15 DEF Good

\* A purge that knows the age leaves what fits.
LEMMA PurgeIsFit ==
  ASSUME ThumbInv, LimitsFit, maximum_age >= 0, Thumbs!PurgeThumbnails
  PROVE  Thumbs!Fits
<1>1. PICK order \in Thumbs!SetToSeqs(files) : Thumbs!ByAge(order) /\ files' = Thumbs!Purge(order)
  BY DEF Thumbs!PurgeThumbnails
<1>2. Fitted(files') BY <1>1, PurgeFitted
<1> QED BY <1>2 DEF Fitted, Thumbs!Fits

\* A thumbnail is written over, and days go by.
LEMMA ThumbStep ==
  ASSUME ThumbInv, [Thumbs!Next]_(Thumbs!vars)
  PROVE  ThumbInv'
<1> USE DEF Thumbs!settings, Thumbs!timers
<1>1. CASE UNCHANGED Thumbs!vars BY <1>1 DEF ThumbInv, Thumbs!vars
<1>2. ASSUME NEW n \in Name, NEW s \in Sizes, Thumbs!Write(n, s) PROVE ThumbInv'
  <2> DEFINE old == {f \in files : f.name # n}
             new == [name |-> n, mtime |-> today, size |-> s]
  <2>1. files' = old \cup {new} /\ UNCHANGED <<today, maximum_age, maximum_size>>
    BY <1>2 DEF Thumbs!Write
  <2>2. IsFiniteSet(old) BY FS_Subset DEF ThumbInv
  <2>3. IsFiniteSet(files') BY <2>1, <2>2, FS_AddElement
  <2>4. new \in File /\ new.name = n BY DEF ThumbInv, File
  <2> HIDE DEF new
  <2>5. files' \subseteq File BY <2>1, <2>4 DEF ThumbInv
  <2>6. \A f, g \in files' : f.name = g.name => f = g BY <2>1, <2>4 DEF ThumbInv
  <2> QED BY <2>1, <2>3, <2>5, <2>6 DEF ThumbInv
<1>3. ASSUME NEW a \in Limit, NEW s \in Limit, Thumbs!Set(a, s) PROVE ThumbInv'
  BY <1>3 DEF ThumbInv, Thumbs!Set
<1>4. CASE Thumbs!Day BY <1>4, ThumbnailAssumption DEF ThumbInv, Thumbs!Day
<1>5. CASE Thumbs!DoCleanup
  <2>1. files' \subseteq files BY <1>5, PurgeLeavesFewer DEF Thumbs!DoCleanup
  <2> QED BY <1>5, <2>1, FewerFiles DEF Thumbs!DoCleanup
<1>6. CASE Thumbs!DoCleanupOnce
  <2>1. files' \subseteq files BY <1>6, PurgeLeavesFewer DEF Thumbs!DoCleanupOnce
  <2> QED BY <1>6, <2>1, FewerFiles DEF Thumbs!DoCleanupOnce
<1>7. CASE Thumbs!Stop
  <2>1. files' \subseteq files BY <1>7, PurgeLeavesFewer DEF Thumbs!Stop
  <2> QED BY <1>7, <2>1, FewerFiles DEF Thumbs!Stop
<1>8. CASE Thumbs!SettingsChanged \/ Thumbs!Start
  BY <1>8 DEF ThumbInv, Thumbs!SettingsChanged, Thumbs!Start
<1> QED BY <1>1, <1>2, <1>3, <1>4, <1>5, <1>6, <1>7, <1>8 DEF Thumbs!Next

\* No two thumbnails have one name, so there are no more of them than names.
LEMMA ThumbsTyped == ThumbInv => Thumbs!TypeOK
<1> SUFFICES ASSUME ThumbInv PROVE Thumbs!TypeOK OBVIOUS
<1> DEFINE h == [f \in files |-> f.name]
<1>1. IsFiniteSet(Name) BY ThumbnailAssumption
<1>2. h \in Injection(files, Name) BY DEF ThumbInv, File, Injection, IsInjective
<1> HIDE DEF h
<1>3. Cardinality(files) <= Cardinality(Name) BY <1>1, <1>2, FS_Injection
<1>4. Thumbs!Cardinality(files) = Cardinality(files) /\ Thumbs!Cardinality(Name) = Cardinality(Name)
  BY DEF Thumbs!Cardinality, Cardinality
<1>5. {f.name : f \in files} \subseteq Name BY DEF ThumbInv, File
<1> QED BY <1>3, <1>4, <1>5 DEF ThumbInv, Thumbs!TypeOK

LEMMA PartIsThumbs == AllSpec => Thumbs!Spec
<1>1. AllInit => Thumbs!Init BY DEF AllInit
<1>2. [AllNext]_allVars => [Thumbs!Next]_(Thumbs!vars)
  BY DEF AllNext, allVars, thumbVars, Thumbs!vars, Thumbs!settings, Thumbs!timers
<1> QED BY <1>1, <1>2, PTL DEF AllSpec, Thumbs!Spec

LEMMA ThumbsKept == AllSpec => []ThumbInv
<1>1. ThumbInv /\ [Thumbs!Next]_(Thumbs!vars) => ThumbInv' BY ThumbStep
<1> QED BY ThumbStart, <1>1, PartIsThumbs, PTL DEF Thumbs!Spec

\* Where the limits fit, what a purge leaves fits.
LEMMA PurgesFit ==
  ASSUME LimitsFit
  PROVE  AllSpec => Thumbs!PurgeFits
<1>1. ThumbInv /\ [Thumbs!Next]_(Thumbs!vars) =>
        [maximum_age >= 0 /\ (Thumbs!DoCleanup \/ Thumbs!DoCleanupOnce
            \/ (Thumbs!Stop /\ 0 \in {maximum_age, maximum_size})) => Thumbs!Fits]_(Thumbs!vars)
  <2> SUFFICES ASSUME ThumbInv, maximum_age >= 0,
                      Thumbs!DoCleanup \/ Thumbs!DoCleanupOnce
                        \/ (Thumbs!Stop /\ 0 \in {maximum_age, maximum_size})
               PROVE  Thumbs!Fits
    OBVIOUS
  <2>1. Thumbs!PurgeThumbnails BY DEF Thumbs!DoCleanup, Thumbs!DoCleanupOnce, Thumbs!Stop
  <2> QED BY <2>1, PurgeIsFit
<1> QED BY <1>1, ThumbsKept, PartIsThumbs, PTL DEF Thumbs!Spec, Thumbs!PurgeFits

\* A mount that stays low is not brought up again before the period is over and
\* more space is lost, and a purge of the thumbnails leaves what the limits allow
\* and takes nothing newer or more than it must, where the limits fit an int
\* (csd-disk-space.c:495-559, csd-housekeeping-manager.c:203-243).
THEOREM HousekeepingHolds ==
  ASSUME LimitsFit
  PROVE  AllSpec => HousekeepingKeeps
BY NeverNags, PurgesFit, PTL DEF HousekeepingKeeps

-----------------------------------------------------------------------------
(* The types of the parts.                                                 *)
LEMMA PrintTyped == PrintInv => Cups!TypeOK
BY DEF PrintInv, PrintTypes, Cups!TypeOK

\* The applications: an entry and its watch have one number.
LEMMA MediaTyped == MediaInv => Media!TypeOK
<1> SUFFICES ASSUME MediaInv PROVE Media!TypeOK OBVIOUS
<1>1. media_players \in Seq(Entry) BY DEF MediaInv, Attended
<1>2. Media!ToSet(media_players) = In(media_players) BY <1>1, InIs
<1>3. latest \in Application \cup {NoOne}
  <2>1. ASSUME latest # NoOne PROVE latest \in Application
    <3>1. 1 \in 1 .. Len(media_players) /\ media_players[1].application = latest
      BY <1>1, <2>1 DEF MediaInv, Latest
    <3>2. media_players[1] \in Entry BY <1>1, <3>1
    <3> QED BY <3>1, <3>2 DEF Entry
  <2> QED BY <2>1
<1>4. ASSUME NEW p \in In(media_players) PROVE \E w \in watched : p.watch = w.id
  <2>1. PICK i \in 1 .. Len(media_players) : p = media_players[i] BY DEF In
  <2>2. WatchOf(p) \in watched BY <2>1 DEF MediaInv, Attended
  <2> QED BY <2>2 DEF WatchOf
<1>5. ASSUME NEW w \in watched PROVE \E p \in In(media_players) : p.watch = w.id
  <2>1. PICK i \in 1 .. Len(media_players) : w = WatchOf(media_players[i]) BY DEF MediaInv, Attended
  <2> QED BY <2>1 DEF In, WatchOf
<1>6. {p.watch : p \in In(media_players)} = {w.id : w \in watched} BY <1>4, <1>5
<1> QED BY <1>2, <1>3, <1>6 DEF MediaInv, Media!TypeOK

LEMMA ClipTyped == ClipInv => Clip!TypeOK
<1> SUFFICES ASSUME ClipInv PROVE Clip!TypeOK OBVIOUS
<1>1. ClipTypes BY DEF ClipInv
<1>2. \A c \in conversions : c.data \in Clip!Address BY <1>1 DEF ClipTypes, Transfer
<1>3. \A i \in Clip!Address : heap[i].type \in {"none", "INCR", "data"} BY <1>1 DEF ClipTypes, Data
<1> QED BY <1>1, <1>2, <1>3 DEF ClipTypes, Clip!TypeOK

\* Never does the controller keep one player and wait for another.
OnePlayer == MprisInv /\ (mpris_client_proxy = Nobody \/ trying = Nobody)
LEMMA OnePlayerKept == OnePlayer /\ [Mpris!Next]_(Mpris!vars) => OnePlayer'
<1> SUFFICES ASSUME OnePlayer, [Mpris!Next]_(Mpris!vars) PROVE OnePlayer' OBVIOUS
<1>1. MprisInv' BY MprisStep DEF OnePlayer
<1>2. mpris_client_proxy = Nobody \/ trying = Nobody BY DEF OnePlayer
<1>3. CASE UNCHANGED <<mpris_client_proxy, trying>> BY <1>1, <1>2, <1>3 DEF OnePlayer
<1>4. CASE \E ok \in {TRUE} \cup {~ProxyFails} : Mpris!MprisProxyReady(ok)
  BY <1>1, <1>4 DEF OnePlayer, Mpris!MprisProxyReady
<1>5. CASE Mpris!Hear
  <2> DEFINE m == Head(inbox)
             c == Mpris!Now
             gone == IF m.old /\ m.name \in names THEN Mpris!Vanished(m.name, c) ELSE c
             left == IF m.old THEN names \ {m.name} ELSE names
             next == IF m.new /\ m.name \notin left THEN Mpris!Appeared(m.name, gone) ELSE gone
  <2>1. mpris_client_proxy' = next.proxy /\ trying' = next.connecting
    BY <1>5 DEF Mpris!Hear, Mpris!Becomes
  <2>2. m.name # Nobody
    <3>1. inbox # <<>> /\ m.is \in {"changed", "owner"} BY <1>5 DEF Mpris!Hear
    <3>2. inbox \in Seq(Report \cup List) BY DEF OnePlayer, MprisInv, MprisTypes
    <3>3. m \in Report \cup List BY <3>1, <3>2
    <3>4. m \in Report BY <3>1, <3>3 DEF List
    <3>5. m.name \in Player BY <3>4 DEF Report
    <3> QED BY <3>5, PlayerAssumption
  <2>3. /\ c.proxy = mpris_client_proxy /\ c.connecting = trying /\ c.others = other_players
        /\ c = [proxy |-> mpris_client_proxy, connecting |-> trying, others |-> other_players]
    BY DEF Mpris!Now
  <2> HIDE DEF m
  <2>4. gone.proxy = Nobody \/ gone.connecting = Nobody
    <3>1. CASE c.proxy # m.name \/ ~(m.old /\ m.name \in names) BY <1>2, <2>3, <3>1 DEF Mpris!Vanished
    <3>2. CASE c.proxy = m.name /\ m.old /\ m.name \in names
      <4>1. gone = IF c.others = <<>> THEN [c EXCEPT !.proxy = Nobody]
                   ELSE [proxy |-> Nobody, connecting |-> Head(c.others), others |-> Tail(c.others)]
        BY <3>2 DEF Mpris!Vanished
      <4>2. [c EXCEPT !.proxy = Nobody].proxy = Nobody BY <2>3
      <4>3. \A a, b : [proxy |-> Nobody, connecting |-> a, others |-> b].proxy = Nobody OBVIOUS
      <4> HIDE DEF gone, c
      <4>4. CASE c.others = <<>> BY <4>1, <4>2, <4>4
      <4>5. CASE c.others # <<>> BY <4>1, <4>3, <4>5
      <4> QED BY <4>4, <4>5
    <3> QED BY <3>1, <3>2
  <2>5. gone \in [proxy : {gone.proxy}, connecting : {gone.connecting}, others : {gone.others}]
    BY <2>3 DEF Mpris!Vanished
  <2> HIDE DEF gone, left, c
  <2>6. next.proxy = Nobody \/ next.connecting = Nobody
    BY <2>4, <2>5 DEF Mpris!Appeared
  <2> QED BY <1>1, <2>1, <2>6 DEF OnePlayer
<1> QED
  BY <1>3, <1>4, <1>5 DEF Mpris!Next, Mpris!vars, Mpris!controller, Mpris!PlayerAppears, Mpris!PlayerVanishes,
    Mpris!PlayerHandsOver, Mpris!BusServes, Mpris!GotBus, Mpris!NamesListed

LEMMA MprisTyped == OnePlayer => Mpris!TypeOK
BY DEF OnePlayer, MprisInv, MprisTypes, Mpris!Now, Control, Mpris!TypeOK

\* The variables of every part have their types, the watches are those of the
\* entries, the controller keeps one player or waits for one, and the addresses
\* of the clipboard point into the heap (PartsTypeOK), for any instance of the
\* parts, as far as the hypotheses of the invariants go.
THEOREM PartsTyped ==
  ASSUME MaxWatches + 1 < Wrap, ~Overlaps, Refusing = {}
  PROVE  AllSpec => []PartsTypeOK
<1>1. AllSpec => Spec
  <2>1. AllInit => Init BY DEF AllInit
  <2>2. [AllNext]_allVars => [Next]_vars BY DEF AllNext, allVars, cardVars
  <2> QED BY <2>1, <2>2, PTL DEF AllSpec, Spec
<1>2. Cups!Spec => []PrintInv BY PrintInit, PrintStep, PTL DEF Cups!Spec
<1>3. Mpris!Init => OnePlayer BY MprisInit DEF OnePlayer, Mpris!Init
<1>4. Mpris!Spec => []OnePlayer BY <1>3, OnePlayerKept, PTL DEF Mpris!Spec
<1>5. MediaInv /\ [Media!Next]_(Media!vars) => MediaInv' BY MediaStep
<1>6. Media!Spec => []MediaInv BY <1>5, MediaInit, PTL DEF Media!Spec
<1>7. ClipInv /\ [Clip!Next]_(Clip!vars) => ClipInv' BY ClipStep
<1>8. Clip!Spec => []ClipInv BY <1>7, ClipInit, PTL DEF Clip!Spec
<1>9. TypeOK /\ DiskInv /\ ThumbInv /\ PrintInv /\ OnePlayer /\ MediaInv /\ ClipInv => PartsTypeOK
  BY DisksTyped, ThumbsTyped, PrintTyped, MprisTyped, MediaTyped, ClipTyped DEF PartsTypeOK
<1>10. AllSpec => []TypeOK BY <1>1, TypeCorrect, PTL
<1> QED BY <1>2, <1>4, <1>6, <1>8, <1>9, <1>10, DisksKept, ThumbsKept, PartIsCups, PartIsMpris, PartIsMedia, PartIsClip, PTL
==============================================================================
