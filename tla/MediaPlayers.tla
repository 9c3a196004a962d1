----------------------------- MODULE MediaPlayers ----------------------------
(***************************************************************************)
(* csd-media-keys-manager.c: applications that grab the media keys over    *)
(* D-Bus.  The list is ordered by the time of the grab, a 32-bit count of  *)
(* milliseconds; a watch on the client's bus name takes its application    *)
(* out when the client leaves.  Clients and the bus are external.          *)
(***************************************************************************)
EXTENDS Naturals, Sequences, SequencesExt, FiniteSets

CONSTANTS
  Application,
  Client,       \* bus names
  NoOne,
  Wrap,         \* the clock counts modulo this
  MaxWatches,   \* bound on the watches made
  MaxNews,      \* bound on calls and vanished names not dispatched
  Shares        \* a client may grab for several applications (several clients may
                \* for one in any case)

VARIABLES
  clients,        \* those on the bus
  grabs,          \* calls to GrabMediaPlayerKeys and ReleaseMediaPlayerKeys
  media_players,  \* the list
  watched,        \* the watch of each entry, by its number
  vanishing,      \* vanished handlers that will run, in order
  made,           \* watches made
  latest          \* history: the application that grabbed last, while it has not let go

vars == <<clients, grabs, media_players, watched, vanishing, made, latest>>

Init ==
  /\ clients = Client /\ grabs = <<>> /\ media_players = <<>>
  /\ watched = {} /\ vanishing = <<>> /\ made = 0 /\ latest = NoOne


\* A millisecond passes with each grab.
Time == (made + 2) % Wrap
LowPriority == 1

-----------------------------------------------------------------------------
(* The clients.                                                            *)
Call(c, a, what) ==
  /\ c \in clients /\ Len(grabs) < MaxNews
  /\ Shares \/ \A p \in ToSet(media_players) : p.name = c => p.application = a
  /\ Shares \/ \A g \in ToSet(grabs) : g.name = c => g.application = a
  /\ grabs' = Append(grabs, [name |-> c, application |-> a, what |-> what])
  /\ UNCHANGED <<clients, media_players, watched, vanishing, made, latest>>

\* A client leaves: the handler of each of its watches will run, the oldest
\* watch's first.
Leave(c) ==
  /\ c \in clients /\ clients' = clients \ {c}
  /\ LET mine == {w \in watched : w.name = c}
     IN \E order \in [1 .. Cardinality(mine) -> mine] :
          /\ \A i, j \in 1 .. Cardinality(mine) : i < j => order[i].id < order[j].id
          /\ vanishing' = vanishing \o order
  /\ UNCHANGED <<grabs, media_players, watched, made, latest>>

-----------------------------------------------------------------------------
(* The manager.                                                            *)
FindByApplication(a) == SelectInSeq(media_players, LAMBDA p : p.application = a)
FindByName(c) == SelectInSeq(media_players, LAMBDA p : p.name = c)

\* free_media_player: the entry goes with its watch, whose handler is not
\* called any more.
Free(i) ==
  LET w == [id |-> media_players[i].watch, name |-> media_players[i].name]
  IN [players |-> RemoveAt(media_players, i), watched |-> watched \ {w}, vanishing |-> RemoveFirst(vanishing, w)]
Kept == [players |-> media_players, watched |-> watched, vanishing |-> vanishing]

\* g_list_insert_sorted by find_by_time: before the first that is not later.
InsertSorted(s, p) ==
  LET i == SelectInSeq(s, LAMBDA q : ~(p.time < q.time))
  IN IF i = 0 THEN Append(s, p) ELSE InsertAt(s, i, p)

\* csd_media_keys_manager_grab_media_player_keys; a watch on a name that has
\* left already is told so.
Grab(c, a, time) ==
  LET i == FindByApplication(a)
      w == [id |-> made + 1, name |-> c]
  IN IF i # 0 /\ ~(media_players[i].time < time)
       THEN UNCHANGED <<media_players, watched, vanishing, made>>
       ELSE LET rest == IF i = 0 THEN Kept ELSE Free(i)
            IN /\ media_players' = InsertSorted(rest.players, [application |-> a, name |-> c, time |-> time, watch |-> made + 1])
               /\ watched' = rest.watched \cup {w}
               /\ vanishing' = IF c \in clients THEN rest.vanishing ELSE Append(rest.vanishing, w)
               /\ made' = made + 1

\* ..._release_media_player_keys: by the application, else by the bus name.
Release(c, a) ==
  LET i == FindByApplication(a)
      j == IF i # 0 THEN i ELSE FindByName(c)
      rest == IF j = 0 THEN Kept ELSE Free(j)
  IN /\ media_players' = rest.players /\ watched' = rest.watched /\ vanishing' = rest.vanishing
     /\ UNCHANGED made

Gone(a) == IF latest = a THEN NoOne ELSE latest

\* handle_method_call; a grab takes its time when it is dispatched.
HandleMethodCall ==
  /\ grabs # <<>> /\ grabs' = Tail(grabs) /\ made < MaxWatches
  /\ LET g == Head(grabs)
     IN CASE g.what = "grab" -> Grab(g.name, g.application, Time) /\ latest' = g.application
          [] g.what = "grab low" -> Grab(g.name, g.application, LowPriority) /\ UNCHANGED latest
          [] g.what = "release" ->
               /\ Release(g.name, g.application)
               /\ latest' = IF \E p \in ToSet(media_players') : p.application = latest THEN latest ELSE NoOne
  /\ UNCHANGED clients

\* Mutation: the entry goes, its watch stays.
NameVanishedWatched ==
  /\ vanishing # <<>>
  /\ LET i == FindByName(Head(vanishing).name)
     IN media_players' = IF i = 0 THEN media_players ELSE RemoveAt(media_players, i)
  /\ vanishing' = Tail(vanishing)
  /\ UNCHANGED <<clients, grabs, watched, made, latest>>

\* name_vanished_handler: the first entry of that name goes; if it is another
\* application's of the same client, this one's watch never tells again.
NameVanished ==
  /\ vanishing # <<>>
  /\ LET i == FindByName(Head(vanishing).name)
         rest == IF i = 0 THEN Kept ELSE Free(i)
     IN /\ media_players' = rest.players /\ watched' = rest.watched
        /\ vanishing' = RemoveFirst(rest.vanishing, Head(vanishing))
        /\ latest' = IF i # 0 THEN Gone(media_players[i].application) ELSE latest
  /\ UNCHANGED <<clients, grabs, made>>

Next ==
  \/ \E c \in Client, a \in Application, what \in {"grab", "grab low", "release"} : Call(c, a, what)
  \/ \E c \in Client : Leave(c)
  \/ HandleMethodCall \/ NameVanished

Spec == Init /\ [][Next]_vars

-----------------------------------------------------------------------------
(* Properties.                                                             *)
TypeOK ==
  /\ clients \subseteq Client /\ latest \in Application \cup {NoOne}
  /\ {p.watch : p \in ToSet(media_players)} = {w.id : w \in watched}

Present(a) == \E p \in ToSet(media_players) : p.application = a

\* "the last registered player will receive media events"
\* (csd-media-keys-manager.c:1057): as long as it is there it is the first.
LastRegisteredReceives == latest # NoOne => media_players # <<>> /\ media_players[1].application = latest

\* Once every name that vanished is dealt with the keys go to nobody who has
\* left; a client that grabs for several applications leaves one behind (known
\* deviation).
NoGhosts == vanishing = <<>> => \A p \in ToSet(media_players) : p.name \in clients
=============================================================================
