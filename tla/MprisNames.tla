------------------------------ MODULE MprisNames -----------------------------
(***************************************************************************)
(* bus-watch-namespace.c and mpris-controller.c: which MPRIS player gets   *)
(* the media keys.  The watcher learns of players by NameOwnerChanged and  *)
(* by asking for all names and then for each owner; the controller talks   *)
(* to one player and keeps a list of the others.  The bus is external: it  *)
(* deals with what it is sent in order, and delivers in order.             *)
(***************************************************************************)
EXTENDS Naturals, Sequences, SequencesExt, FiniteSets

CONSTANTS
  Player,     \* bus names in org.mpris.MediaPlayer2
  Nobody,
  MaxWaiting, \* bound on the messages and players that wait
  ProxyFails  \* proxies may fail to be made

VARIABLES
  live,                \* the players on the bus
  sent,                \* what the watcher has sent to the bus
  inbox,               \* what the bus has sent, not dispatched
  matching,            \* the bus knows the match rule
  watching,            \* got_bus has run
  names,               \* watcher->names
  mpris_client_proxy, connecting, other_players,
  slipped              \* history: a player that left was not the proxy's, or a proxy failed

bus == <<live, sent, inbox, matching>>
controller == <<mpris_client_proxy, connecting, other_players>>
vars == <<bus, watching, names, controller, slipped>>

Changed(p, old, new) == [is |-> "changed", name |-> p, old |-> old, new |-> new]
Owner(p, on) == [is |-> "owner", name |-> p, old |-> FALSE, new |-> on]
Listed(S) == [is |-> "listed", names |-> S]

Init ==
  /\ live \in SUBSET Player
  /\ sent = <<>> /\ inbox = <<>> /\ matching = FALSE
  /\ watching = FALSE /\ names = {}
  /\ mpris_client_proxy = Nobody /\ connecting = Nobody /\ other_players = <<>>
  /\ slipped = FALSE

-----------------------------------------------------------------------------
(* The bus.                                                                *)
News(p, old, new) == inbox' = IF matching THEN Append(inbox, Changed(p, old, new)) ELSE inbox
Room == Len(inbox) < MaxWaiting /\ Len(other_players) < MaxWaiting

PlayerAppears(p) ==
  /\ p \notin live /\ Room
  /\ live' = live \cup {p} /\ News(p, FALSE, TRUE)
  /\ UNCHANGED <<sent, matching, watching, names, controller, slipped>>

PlayerVanishes(p) ==
  /\ p \in live /\ Room
  /\ live' = live \ {p} /\ News(p, TRUE, FALSE)
  /\ UNCHANGED <<sent, matching, watching, names, controller, slipped>>

\* A name passes from one owner to another.
PlayerHandsOver(p) ==
  /\ p \in live /\ Room
  /\ News(p, TRUE, TRUE)
  /\ UNCHANGED <<live, sent, matching, watching, names, controller, slipped>>

BusServes ==
  /\ sent # <<>> /\ sent' = Tail(sent)
  /\ LET call == Head(sent)
     IN CASE call.is = "match" -> matching' = TRUE /\ UNCHANGED inbox
          [] call.is = "list" -> inbox' = Append(inbox, Listed(live)) /\ UNCHANGED matching
          [] call.is = "owner" -> inbox' = Append(inbox, Owner(call.name, call.name \in live)) /\ UNCHANGED matching
  /\ UNCHANGED <<live, watching, names, controller, slipped>>

-----------------------------------------------------------------------------
(* The controller.                                                         *)
Appeared(p, c) ==
  IF c.proxy = Nobody /\ c.connecting = Nobody
    THEN [c EXCEPT !.connecting = p]
    ELSE [c EXCEPT !.others = <<p>> \o @]

\* mpris_player_vanished: the first of the others takes its place.  One of the
\* others that leaves stays in the list.
Vanished(p, c) ==
  IF c.proxy # p THEN c
  ELSE IF c.others = <<>> THEN [c EXCEPT !.proxy = Nobody]
  ELSE [proxy |-> Nobody, connecting |-> Head(c.others), others |-> Tail(c.others)]

Now == [proxy |-> mpris_client_proxy, connecting |-> connecting, others |-> other_players]
Becomes(c) == mpris_client_proxy' = c.proxy /\ connecting' = c.connecting /\ other_players' = c.others

MprisProxyReady(ok) ==
  /\ connecting # Nobody
  /\ mpris_client_proxy' = IF ok THEN connecting ELSE Nobody
  /\ connecting' = Nobody
  /\ slipped' = (slipped \/ ~ok)
  /\ UNCHANGED <<bus, watching, names, other_players>>

-----------------------------------------------------------------------------
(* The watcher.                                                            *)
GotBus ==
  /\ ~watching /\ watching' = TRUE
  /\ sent' = <<[is |-> "match"], [is |-> "list"]>>
  /\ UNCHANGED <<live, inbox, matching, names, controller, slipped>>

NamesListed ==
  /\ inbox # <<>> /\ Head(inbox).is = "listed"
  /\ inbox' = Tail(inbox)
  /\ sent' = sent \o SetToSeq({[is |-> "owner", name |-> p] : p \in Head(inbox).names})
  /\ UNCHANGED <<live, matching, watching, names, controller, slipped>>

\* A player has left that is not the proxy's.
Ignored(m) == m.old /\ m.name \in names /\ m.name # mpris_client_proxy

\* Mutation: every report of a name is passed on.
HearEach ==
  /\ inbox # <<>> /\ Head(inbox).is \in {"changed", "owner"}
  /\ inbox' = Tail(inbox)
  /\ LET m == Head(inbox)
         gone == IF m.old THEN Vanished(m.name, Now) ELSE Now
     IN /\ names' = IF m.new THEN names \cup {m.name} ELSE names \ (IF m.old THEN {m.name} ELSE {})
        /\ Becomes(IF m.new THEN Appeared(m.name, gone) ELSE gone)
  /\ slipped' = (slipped \/ Ignored(Head(inbox)))
  /\ UNCHANGED <<live, sent, matching, watching>>

\* name_owner_changed, got_name_owner: appeared and vanished are passed on only
\* if names changes by them.
Hear ==
  /\ inbox # <<>> /\ Head(inbox).is \in {"changed", "owner"}
  /\ inbox' = Tail(inbox)
  /\ LET m == Head(inbox)
         gone == IF m.old /\ m.name \in names THEN Vanished(m.name, Now) ELSE Now
         left == IF m.old THEN names \ {m.name} ELSE names
     IN /\ names' = IF m.new THEN left \cup {m.name} ELSE left
        /\ Becomes(IF m.new /\ m.name \notin left THEN Appeared(m.name, gone) ELSE gone)
  /\ slipped' = (slipped \/ Ignored(Head(inbox)))
  /\ UNCHANGED <<live, sent, matching, watching>>

Next ==
  \/ \E p \in Player : PlayerAppears(p) \/ PlayerVanishes(p) \/ PlayerHandsOver(p)
  \/ BusServes \/ GotBus \/ NamesListed \/ Hear
  \/ \E ok \in {TRUE} \cup {~ProxyFails} : MprisProxyReady(ok)

Spec == Init /\ [][Next]_vars

-----------------------------------------------------------------------------
(* Properties.                                                             *)
TypeOK ==
  /\ names \subseteq Player /\ live \subseteq Player
  /\ mpris_client_proxy \in Player \cup {Nobody} /\ connecting \in Player \cup {Nobody}
  /\ mpris_client_proxy = Nobody \/ connecting = Nobody

Quiet == watching /\ sent = <<>> /\ inbox = <<>> /\ connecting = Nobody

\* Whatever appears or leaves between the list of names, the questions for
\* their owners and the signals, the watcher ends up with the players there are
\* (bus-watch-namespace.c:88 "There's a race between NameOwnerChanged signals
\* arriving and the ListNames/GetNameOwner sequence returning"); and the keys go
\* to one of them, if no other player left meanwhile (known deviation).
KeysReachPlayer ==
  Quiet => /\ names = live
           /\ ~slipped /\ live # {} => mpris_client_proxy \in live
           /\ ~slipped => \A p \in live : p = mpris_client_proxy \/ p \in ToSet(other_players)
           /\ ~slipped => Len(other_players) < Cardinality(Player)
=============================================================================
