-------------------------- MODULE PrintSubscription --------------------------
(***************************************************************************)
(* csd-print-notifications-manager.c: the subscription to the events of    *)
(* CUPS.  The server is tried at start and, while it does not answer, at   *)
(* intervals; then the subscription is made and a timer renews its lease.  *)
(* The manager does not look at the answer to a renewal.  CUPS is external.*)
(***************************************************************************)
EXTENDS Naturals, FiniteSets

CONSTANTS
  Lease,       \* SUBSCRIPTION_DURATION, in ticks
  Renew,       \* RENEW_INTERVAL
  Test,        \* CUPS_CONNECTION_TEST_INTERVAL
  MaxIds,      \* bound on the subscriptions made
  MaxTimers,   \* bound on the renewal timers
  Scenarios    \* sets of "remote", "late", "no printers", "suspend", "restart", "hasty":
               \* the server is not a local socket, so the connection is tried first;
               \* it starts after the manager; it has no printers yet; and what may
               \* happen: the last is a stop that comes before the start idle

VARIABLES
  may,                     \* the scenario
  up, printers,            \* the server answers, and has printers
  leases,                  \* subscriptions at the server: what is left of each
  next_id,
  running, idles,          \* the manager, and its start idles that are to run
  dests, subscription_id,  \* 0 for none
  tests,                   \* connection test timers and what is left of each
  cups_connection_timeout_id,
  renewals,                \* renewal timers and what is left of each
  connecting               \* connections being tried: "test" or "renew"

server == <<may, up, printers>>
timers == <<tests, cups_connection_timeout_id>>
vars == <<server, leases, next_id, running, idles, dests, subscription_id, timers, renewals, connecting>>

Init ==
  /\ may \in Scenarios
  /\ up = ("late" \notin may) /\ printers = ("no printers" \notin may)
  /\ leases = [i \in 1 .. MaxIds |-> 0] /\ next_id = 1
  /\ running = FALSE /\ idles = 0 /\ dests = FALSE /\ subscription_id = 0
  /\ tests = {} /\ cups_connection_timeout_id = FALSE /\ renewals = {} /\ connecting = {}

Live == {i \in 1 .. MaxIds : leases[i] > 0}

-----------------------------------------------------------------------------
(* Time, and the server.                                                   *)

\* Timers that are due go first; an attempt to connect takes no whole tick.
Tick ==
  /\ idles = 0 /\ connecting = {} /\ \A r \in tests \cup renewals : r.left > 0
  /\ leases' = [i \in DOMAIN leases |-> IF leases[i] > 0 THEN leases[i] - 1 ELSE 0]
  /\ tests' = {[r EXCEPT !.left = @ - 1] : r \in tests}
  /\ renewals' = {[r EXCEPT !.left = @ - 1] : r \in renewals}
  /\ UNCHANGED <<server, next_id, running, idles, dests, subscription_id, cups_connection_timeout_id, connecting>>

\* Leases run out while timers stand still.
Suspend ==
  /\ "suspend" \in may /\ leases' = [i \in DOMAIN leases |-> 0]
  /\ UNCHANGED <<server, next_id, running, idles, dests, subscription_id, timers, renewals, connecting>>

ServerStarts ==
  /\ ~up /\ up' = TRUE
  /\ UNCHANGED <<may, printers, leases, next_id, running, idles, dests, subscription_id, timers, renewals, connecting>>
PrinterAdded ==
  /\ ~printers /\ printers' = TRUE
  /\ UNCHANGED <<may, up, leases, next_id, running, idles, dests, subscription_id, timers, renewals, connecting>>

-----------------------------------------------------------------------------
(* The subscription.                                                       *)

\* Mutation: the subscription is not remembered.
RenewSubscriptionAnew ==
  IF ~up \/ next_id > MaxIds THEN UNCHANGED <<leases, next_id, subscription_id>>
  ELSE /\ leases' = [leases EXCEPT ![next_id] = Lease]
       /\ next_id' = next_id + 1 /\ UNCHANGED subscription_id

\* renew_subscription: of one that has run out nothing is left to renew.
RenewSubscription ==
  IF ~up THEN UNCHANGED <<leases, next_id, subscription_id>>
  ELSE IF subscription_id > 0
    THEN /\ leases' = [leases EXCEPT ![subscription_id] = IF @ > 0 THEN Lease ELSE 0]
         /\ UNCHANGED <<next_id, subscription_id>>
    ELSE IF next_id > MaxIds THEN UNCHANGED <<leases, next_id, subscription_id>>
         ELSE /\ leases' = [leases EXCEPT ![next_id] = Lease]
              /\ subscription_id' = next_id /\ next_id' = next_id + 1

WithTimer(set, left) ==
  IF Cardinality(set) = MaxTimers THEN set
  ELSE set \cup {[n |-> CHOOSE n \in 1 .. MaxTimers : \A r \in set : r.n # n, left |-> left]}

\* The printers are read, the subscription made and the renewal set up.
Subscribe ==
  /\ dests' = (up /\ printers)
  /\ RenewSubscription
  /\ renewals' = WithTimer(renewals, Renew)

\* cups_connection_test without its return value.
ConnectionTest ==
  IF dests THEN UNCHANGED <<dests, leases, next_id, subscription_id, renewals, connecting>>
  ELSE IF "remote" \in may
    THEN /\ connecting' = connecting \cup {"test"}
         /\ UNCHANGED <<dests, leases, next_id, subscription_id, renewals>>
    ELSE Subscribe /\ UNCHANGED connecting

\* cups_connection_test_cb
TestAnswered ==
  /\ "test" \in connecting /\ connecting' = connecting \ {"test"}
  /\ IF up THEN Subscribe /\ UNCHANGED timers
     ELSE /\ tests' = IF cups_connection_timeout_id THEN tests ELSE WithTimer(tests, Test)
          /\ cups_connection_timeout_id' = TRUE
          /\ UNCHANGED <<dests, leases, next_id, subscription_id, renewals>>
  /\ UNCHANGED <<server, running, idles>>

\* The timer goes on until there are printers.
TestAgain ==
  /\ \E r \in tests :
       /\ r.left = 0 /\ ConnectionTest
       /\ tests' = (tests \ {r}) \cup (IF dests' THEN {} ELSE {[r EXCEPT !.left = Test]})
  /\ cups_connection_timeout_id' = (cups_connection_timeout_id /\ ~dests')
  /\ UNCHANGED <<server, running, idles>>

\* renew_subscription_with_connection_test
RenewalDue ==
  /\ \E r \in renewals :
       /\ r.left = 0
       /\ renewals' = (renewals \ {r}) \cup {[r EXCEPT !.left = Renew]}
  /\ IF "remote" \in may THEN connecting' = connecting \cup {"renew"} /\ UNCHANGED <<leases, next_id, subscription_id>>
     ELSE RenewSubscription /\ UNCHANGED connecting
  /\ UNCHANGED <<server, running, idles, dests, timers>>
RenewalAnswered ==
  /\ "renew" \in connecting /\ connecting' = connecting \ {"renew"}
  /\ IF up THEN RenewSubscription ELSE UNCHANGED <<leases, next_id, subscription_id>>
  /\ UNCHANGED <<server, running, idles, dests, timers, renewals>>

Start ==
  /\ ~running /\ ("restart" \in may \/ next_id = 1) /\ idles < MaxTimers
  /\ running' = TRUE /\ idles' = idles + 1 /\ dests' = FALSE /\ subscription_id' = 0
  /\ cups_connection_timeout_id' = FALSE
  /\ UNCHANGED <<server, leases, next_id, tests, renewals, connecting>>
StartIdle ==
  /\ idles > 0 /\ idles' = idles - 1 /\ ConnectionTest
  /\ UNCHANGED <<server, running, timers>>

\* The subscription is cancelled; timers, attempts and a start idle go on.
Stop ==
  /\ "restart" \in may /\ running /\ running' = FALSE
  /\ idles > 0 => "hasty" \in may
  /\ dests' = FALSE
  /\ leases' = IF subscription_id > 0 /\ up THEN [leases EXCEPT ![subscription_id] = 0] ELSE leases
  /\ UNCHANGED <<server, next_id, idles, subscription_id, timers, renewals, connecting>>

Next ==
  \/ Tick \/ Suspend \/ ServerStarts \/ PrinterAdded
  \/ TestAnswered \/ TestAgain \/ RenewalDue \/ RenewalAnswered
  \/ Start \/ StartIdle \/ Stop

Spec == Init /\ [][Next]_vars

-----------------------------------------------------------------------------
(* Properties.                                                             *)
TypeOK ==
  /\ subscription_id \in 0 .. MaxIds /\ next_id \in 1 .. MaxIds + 1
  /\ connecting \subseteq {"test", "renew"}

\* The server never sends its events twice, nor to a stopped manager; once the
\* first subscription is made its lease is renewed before it is over, by one
\* timer (csd-print-notifications-manager.c:881-947, :1005-1036).  A suspend
\* longer than the lease ends it for good, a restart or a remote server
\* without printers leaves renewal timers behind; a start idle, an attempt or the
\* timer of a late server may subscribe for a stopped manager (known deviations).
StaysSubscribed ==
  /\ Live \subseteq {subscription_id}
  /\ ~running => Live = {}
  /\ may \cap {"suspend", "restart"} = {} /\ renewals # {} => Cardinality(renewals) = 1 /\ Live = {subscription_id}
==============================================================================
