-------------------------- MODULE ScreensaverProxy --------------------------
(***************************************************************************)
(* csd-screensaver-proxy-manager.c: the org.freedesktop.ScreenSaver name,  *)
(* whose Inhibit and UnInhibit are passed on to the session manager.  The  *)
(* session manager knows one client, this daemon; it is the proxy that has *)
(* to give back what a client held that left the bus.  The clients, the    *)
(* bus and the session manager are external; a cookie is a random number   *)
(* of 31 bits there and is taken to be used once.                          *)
(***************************************************************************)
EXTENDS Naturals, Sequences, FiniteSets

CONSTANTS
  Client,      \* unique names on the bus
  Cookie,      \* what the session manager returns: bounds the calls of Inhibit
  Nobody,        \* no client
  MaxCalls     \* bound on the calls under way

VARIABLES
  running,    \* priv->session # NULL
  cookie_ht,  \* the sender that each cookie was given to
  watch_ht,   \* the senders whose names are watched
  told,       \* names whose name_vanished_cb was called
  alive,      \* clients on the bus; a name that left does not come back
  calls,      \* method calls to the proxy, in order
  held,       \* the session manager's inhibitors: for whom each is held
  used,       \* the cookies it has given out
  scene       \* this behaviour's clients, and whether the plugin may be
              \* stopped and started; chosen at its start

proxy == <<running, cookie_ht, watch_ht, told>>
vars == <<proxy, alive, calls, held, used, scene>>

Inhibit(c) == [client |-> c, method |-> "Inhibit"]
UnInhibit(c, k) == [client |-> c, method |-> "UnInhibit", cookie |-> k]

Entries == {k \in Cookie : cookie_ht[k] # Nobody}

-----------------------------------------------------------------------------
\* csd_screensaver_proxy_manager_start, before any client has called.
Init ==
  /\ running = TRUE
  /\ cookie_ht = [k \in Cookie |-> Nobody]
  /\ watch_ht = {}
  /\ told = {}
  /\ scene \in [clients : SUBSET Client, restarts : BOOLEAN]
  /\ alive = scene.clients
  /\ calls = <<>>
  /\ held = [k \in Cookie |-> Nobody]
  /\ used = {}

\* What clients do, as far as there are cookies left: ask, give back a cookie,
\* theirs or not, and leave the bus.
CallInhibit(c) ==
  /\ c \in alive /\ Len(calls) < MaxCalls
  /\ Cardinality(used) + Len(calls) < Cardinality(Cookie)
  /\ calls' = Append(calls, Inhibit(c))
  /\ UNCHANGED <<proxy, alive, held, used>>

CallUnInhibit(c) ==
  /\ c \in alive /\ Len(calls) < MaxCalls
  /\ \E k \in Cookie : calls' = Append(calls, UnInhibit(c, k))
  /\ UNCHANGED <<proxy, alive, held, used>>

Leave(c) ==
  /\ c \in alive
  /\ alive' = alive \ {c}
  /\ UNCHANGED <<proxy, calls, held, used>>

-----------------------------------------------------------------------------
TakeCall(method) == calls # <<>> /\ Head(calls).method = method /\ calls' = Tail(calls)

\* Mutation: only the first inhibitor of a client is looked after.
HandleInhibitFirst ==
  /\ TakeCall("Inhibit")
  /\ \E k \in Cookie \ used, c \in {Head(calls).client} :
       /\ running
       /\ used' = used \cup {k}
       /\ held' = [held EXCEPT ![k] = c]
       /\ cookie_ht' = IF c \in watch_ht THEN cookie_ht ELSE [cookie_ht EXCEPT ![k] = c]
       /\ watch_ht' = watch_ht \cup {c}
  /\ UNCHANGED <<running, told, alive>>

\* handle_method_call, "Inhibit": the session manager is called, the cookie
\* noted and the sender watched, unless it is already.
HandleInhibit ==
  /\ TakeCall("Inhibit")
  /\ running
  /\ \E k \in Cookie \ used, c \in {Head(calls).client} :
       /\ used' = used \cup {k}
       /\ held' = [held EXCEPT ![k] = c]
       /\ cookie_ht' = [cookie_ht EXCEPT ![k] = c]
       /\ watch_ht' = watch_ht \cup {c}
  /\ UNCHANGED <<running, told, alive>>

\* handle_method_call, "UnInhibit": passed on, whoever has sent it (the session
\* manager takes it for the daemon's own); the tables stay as they are.
HandleUnInhibit ==
  /\ TakeCall("UnInhibit")
  /\ running
  /\ held' = [held EXCEPT ![Head(calls).cookie] = Nobody]
  /\ UNCHANGED <<proxy, alive, used>>

\* handle_method_call while the plugin is stopped: no answer.
HandleStopped ==
  /\ calls # <<>>
  /\ ~running
  /\ calls' = Tail(calls)
  /\ UNCHANGED <<proxy, alive, held, used>>

-----------------------------------------------------------------------------
\* The cookies that the loop of name_vanished_cb takes out.
Released(c) == {k \in Entries : cookie_ht[k] = c}

\* What "sender" points to after the loop, in the table's order: any entry's
\* owner.  That of c has been freed by then, and may still read as c or not.
LastSender(c) ==
  {{cookie_ht[k]} : k \in Entries} \cup (IF Released(c) # {} THEN {{}} ELSE {})

\* name_vanished_cb: the bus tells of it after the calls of c.  Of the names
\* that are watched it is the last sender's that is dropped.
NameVanished(c) ==
  /\ c \in watch_ht \ (alive \cup told)
  /\ \A i \in DOMAIN calls : calls[i].client # c
  /\ held' = [k \in Cookie |-> IF k \in Released(c) THEN Nobody ELSE held[k]]
  /\ cookie_ht' = [k \in Cookie |-> IF k \in Released(c) THEN Nobody ELSE cookie_ht[k]]
  /\ \E last \in LastSender(c) : watch_ht' = watch_ht \ last
  /\ told' = told \cup {c}
  /\ UNCHANGED <<running, alive, calls, used>>

\* csd_screensaver_proxy_manager_stop.
Stop ==
  /\ scene.restarts /\ running
  /\ running' = FALSE
  /\ cookie_ht' = [k \in Cookie |-> Nobody]
  /\ watch_ht' = {}
  /\ UNCHANGED <<told, alive, calls, held, used>>

\* csd_screensaver_proxy_manager_start.
Start ==
  /\ ~running
  /\ running' = TRUE
  /\ UNCHANGED <<cookie_ht, watch_ht, told, alive, calls, held, used>>

Step ==
  \/ \E c \in Client :
       CallInhibit(c) \/ CallUnInhibit(c) \/ Leave(c) \/ NameVanished(c)
  \/ HandleInhibit \/ HandleUnInhibit \/ HandleStopped
  \/ Stop \/ Start

Next == Step /\ UNCHANGED scene

Spec == Init /\ [][Next]_vars

-----------------------------------------------------------------------------
\* The variables have their types.  Whoever is watched and has not vanished
\* has an entry in cookie_ht: when name_vanished_cb runs, its loop assigns the
\* "sender" that it uses afterwards (csd-screensaver-proxy-manager.c:199-215).
TypeOK ==
  /\ running \in BOOLEAN
  /\ scene \in [clients : SUBSET Client, restarts : BOOLEAN]
  /\ cookie_ht \in [Cookie -> Client \cup {Nobody}]
  /\ watch_ht \subseteq Client /\ told \subseteq Client /\ alive \subseteq Client
  /\ Len(calls) <= MaxCalls
  /\ held \in [Cookie -> Client \cup {Nobody}] /\ used \subseteq Cookie
  /\ \A c \in watch_ht \ told : Released(c) # {}

\* An inhibitor ends only when somebody gives its cookie back or when its client
\* has left: one client's end never lets the screen of another's film go dark
\* (csd-screensaver-proxy-manager.c:199-213).  That it is the client itself who
\* gives it back is left to the clients (:276-285; known deviation).
ReleasedOnRequest ==
  [][\A k \in Cookie :
       held[k] # Nobody /\ held'[k] = Nobody =>
         \/ held[k] \notin alive
         \/ \E c \in Client : calls # <<>> /\ Head(calls) = UnInhibit(c, k)]_vars

\* One client and no restart.
Alone == ~scene.restarts /\ Cardinality(scene.clients) = 1

\* "Look for all the cookies under that name, and call uninhibit for them"
\* (csd-screensaver-proxy-manager.c:197): a client that leaves comes to hold
\* nothing, if it is the only one and the plugin keeps running.
GoneIsReleased ==
  \A c \in Client : Alone /\ c \notin alive ~> \A k \in Cookie : held[k] # c
=============================================================================
