------------------------------ MODULE Clipboard ------------------------------
(***************************************************************************)
(* csd-clipboard-manager.c: an application that is about to exit has its   *)
(* clipboard saved (SAVE_TARGETS): the manager converts all targets, takes *)
(* CLIPBOARD and serves pastes.  Long targets travel in pieces, both ways, *)
(* by writing and deleting a property.  The X server and the applications  *)
(* are external; every change of the owner of CLIPBOARD is a new time.     *)
(***************************************************************************)
EXTENDS Naturals, Sequences, FiniteSets, SequencesExt

CONSTANTS
  App, Target,
  Long,        \* the targets that do not fit into one property
  NoOne,
  Manager,     \* the manager's window
  MaxTime,     \* bound on the changes of the owner
  MaxEvents,   \* bound on the events not dispatched
  Refusing,    \* the applications that do not convert to MULTIPLE
  Overlaps     \* an application may copy while another's clipboard is saved

Address == 1 .. Cardinality(Target) + Cardinality(App) * Cardinality(Long)

VARIABLES
  alive,        \* applications
  owner, now,   \* of CLIPBOARD, and since when
  asked,        \* XConvertSelection requests the owner has not seen
  written,      \* properties on the manager's window
  sending,      \* long targets applications send to the manager
  pasting,      \* pastes: by whom, of what, and the state of the property
  events,       \* events for the manager
  manages,      \* it owns CLIPBOARD_MANAGER
  heap,         \* the TargetData at each address
  contents,     \* the list: an address for each target
  conversions,  \* incremental transfers to requestors
  requestor, time

server == <<alive, owner, now, asked, written, sending, pasting>>
manager == <<manages, heap, contents, conversions, requestor, time>>
vars == <<server, events, manager>>

Freed == [target |-> NoOne, type |-> "none", from |-> {}, refcount |-> 0]

Init ==
  /\ alive = App /\ owner = NoOne /\ now = 0 /\ asked = {}
  /\ written = [t \in Target |-> "nothing"] /\ sending = {} /\ pasting = {} /\ events = <<>>
  /\ manages = TRUE /\ heap = [i \in Address |-> Freed] /\ contents = {}
  /\ conversions = {} /\ requestor = NoOne /\ time = 0

Event(is, who, when, what) == [is |-> is, who |-> who, when |-> when, what |-> what]
Room == Len(events) < MaxEvents

-----------------------------------------------------------------------------
(* Applications and the server.                                            *)

\* A new owner; the old one is told if it is the manager.
Own(w) ==
  /\ owner' = w /\ now' = now + 1
  /\ events' = IF owner = Manager /\ w # Manager THEN Append(events, Event("clear", NoOne, now, NoOne)) ELSE events

Saving == requestor # NoOne \/ \E e \in ToSet(events) : e.is = "save"

Copy(a) ==
  /\ a \in alive /\ owner # a /\ now < MaxTime /\ Room
  /\ Overlaps \/ ~Saving
  /\ Own(a)
  /\ UNCHANGED <<alive, asked, written, sending, pasting, manager>>

\* SAVE_TARGETS, with or without the list of targets.
Save(a, lists) ==
  /\ a \in alive /\ owner = a /\ manages /\ Room
  /\ Overlaps \/ ~Saving
  /\ ~\E e \in ToSet(events) : e.is = "save" /\ e.who = a
  /\ events' = Append(events, Event("save", a, now, IF lists THEN "targets" ELSE NoOne))
  /\ UNCHANGED <<server, manager>>

Exit(a) ==
  /\ a \in alive /\ Room
  /\ alive' = alive \ {a}
  /\ owner' = IF owner = a THEN NoOne ELSE owner
  /\ asked' = {q \in asked : q.who # a}
  /\ sending' = {s \in sending : s.who # a} /\ pasting' = {p \in pasting : p.who # a}
  /\ events' = IF requestor = a THEN Append(events, Event("destroyed", a, now, NoOne)) ELSE events
  /\ UNCHANGED <<now, written, manager>>

\* The owner converts: to the list of its targets, or to MULTIPLE, where each
\* target is a property and a long one says INCR.
Answer(q) ==
  /\ q \in asked /\ asked' = asked \ {q} /\ Len(events) + Cardinality(Target) < MaxEvents
  /\ CASE q.what = "TARGETS" ->
            /\ events' = Append(events, Event("TARGETS", q.who, q.when, NoOne))
            /\ UNCHANGED <<written, sending>>
       [] q.what = "MULTIPLE" /\ q.who \in Refusing ->
            /\ events' = Append(events, Event("None", q.who, q.when, NoOne))
            /\ UNCHANGED <<written, sending>>
       [] OTHER ->
            /\ written' = [t \in Target |-> IF t \in Long THEN "INCR" ELSE q.who]
            /\ sending' = sending \cup [who : {q.who}, target : Long, left : {1}]
            /\ events' = events \o [i \in 1 .. Cardinality(Target) |-> Event("new", NoOne, now, SetToSeq(Target)[i])]
                                \o <<Event("MULTIPLE", q.who, q.when, NoOne)>>
  /\ UNCHANGED <<alive, owner, now, pasting, manager>>

\* The manager has deleted the property: the next piece, at last an empty one.
SendPiece(s) ==
  /\ s \in sending /\ written[s.target] = "nothing" /\ Room
  /\ \A e \in ToSet(events) : e.is # "new"
  /\ written' = [written EXCEPT ![s.target] = IF s.left > 0 THEN s.who ELSE "end"]
  /\ sending' = IF s.left > 0 THEN (sending \ {s}) \cup {[s EXCEPT !.left = @ - 1]} ELSE sending \ {s}
  /\ events' = Append(events, Event("new", NoOne, now, s.target))
  /\ UNCHANGED <<alive, owner, now, asked, pasting, manager>>

Paste(a, t) ==
  /\ a \in alive /\ owner = Manager /\ Room
  /\ \A p \in pasting : p.who # a
  /\ pasting' = pasting \cup {[who |-> a, target |-> t, has |-> "nothing"]}
  /\ events' = Append(events, Event("paste", a, now, t))
  /\ UNCHANGED <<alive, owner, now, asked, written, sending, manager>>

\* The application has read a piece: it deletes the property.
ReadPiece(p) ==
  /\ p \in pasting /\ p.has = "piece" /\ Room
  /\ pasting' = (pasting \ {p}) \cup {[p EXCEPT !.has = "nothing"]}
  /\ events' = Append(events, Event("deleted", p.who, now, p.target))
  /\ UNCHANGED <<alive, owner, now, asked, written, sending, manager>>

\* Another clipboard manager takes over.
Replace ==
  /\ manages /\ manages' = FALSE /\ Room
  /\ events' = Append(events, Event("clear manager", NoOne, now, NoOne))
  /\ UNCHANGED <<server, heap, contents, conversions, requestor, time>>

-----------------------------------------------------------------------------
(* The manager's memory.                                                   *)
Unref(h, s) ==
  [i \in Address |-> IF i \notin s THEN h[i]
                    ELSE IF h[i].refcount = 1 THEN Freed ELSE [h[i] EXCEPT !.refcount = @ - 1]]

\* Mutation: the data goes with the contents.
DropContentsFreed ==
  /\ heap' = [i \in Address |-> IF i \in contents THEN Freed ELSE heap[i]]
  /\ contents' = {}

\* All of contents is given up; what a transfer still sends stays.
DropContents == heap' = Unref(heap, contents) /\ contents' = {}

Incomplete(h, list) == \E i \in list : h[i].type = "INCR"

\* XConvertSelection: without an owner the server refuses.
Convert(what, when) ==
  IF owner = NoOne
    THEN /\ events' = Append(Tail(events), Event("None", NoOne, when, NoOne)) /\ UNCHANGED asked
    ELSE /\ asked' = asked \cup {[who |-> owner, what |-> what, when |-> when]} /\ events' = Tail(events)

\* save_targets: room for each target at free addresses, of which there are
\* enough, then MULTIPLE.
Rooms ==
  {f \in [Target -> {i \in Address : heap[i].refcount = 0}] : \A s, t \in Target : f[s] = f[t] => s = t}
SaveTargets(when) ==
  LET new == CHOOSE f \in Rooms : TRUE
  IN /\ Rooms # {}
     /\ heap' = [i \in Address |->
                   IF \E t \in Target : new[t] = i
                     THEN [target |-> CHOOSE t \in Target : new[t] = i, type |-> "none", from |-> {}, refcount |-> 1]
                     ELSE heap[i]]
     /\ contents' = contents \cup {new[t] : t \in Target}
     /\ Convert("MULTIPLE", when)

First(e) == events # <<>> /\ Head(events).is = e
Handled == events' = Tail(events)

-----------------------------------------------------------------------------
(* The manager's events.                                                   *)

\* convert_clipboard_manager; a requestor that is gone is an X error.
HandleSave ==
  /\ First("save")
  /\ LET e == Head(events)
     IN IF requestor # NoOne \/ contents # {} \/ e.who \notin alive
          THEN Handled /\ UNCHANGED <<server, manager>>
          ELSE /\ requestor' = e.who /\ time' = e.when
               /\ IF e.what = "targets"
                    THEN SaveTargets(e.when)
                    ELSE Convert("TARGETS", e.when) /\ UNCHANGED <<heap, contents>>
               /\ UNCHANGED <<alive, owner, now, written, sending, pasting, manages, conversions>>

\* SelectionNotify of TARGETS
HandleTargets ==
  /\ First("TARGETS") /\ SaveTargets(time)
  /\ UNCHANGED <<alive, owner, now, written, sending, pasting, manages, conversions, requestor, time>>

\* get_property: what was not converted is freed whoever uses it.
Taken(i) ==
  LET w == IF heap[i].target \in Target THEN written[heap[i].target] ELSE "nothing"
  IN IF w = "nothing" THEN Freed
     ELSE IF w = "INCR" THEN [heap[i] EXCEPT !.type = "INCR", !.from = {}]
     ELSE [heap[i] EXCEPT !.type = "data", !.from = {w}]

\* SelectionNotify of MULTIPLE: CLIPBOARD is taken at the time of the request,
\* which is too early if there is a new owner.
HandleMultiple ==
  /\ First("MULTIPLE")
  /\ LET when == Head(events).when
     IN /\ heap' = [i \in Address |-> IF i \in contents THEN Taken(i) ELSE heap[i]]
        /\ contents' = {i \in contents : heap'[i].refcount > 0}
        /\ written' = [t \in Target |-> IF \E i \in contents : heap[i].target = t THEN "nothing" ELSE written[t]]
        /\ time' = when
        /\ owner' = IF when >= now THEN Manager ELSE owner
        /\ requestor' = IF Incomplete(heap', contents') THEN requestor ELSE NoOne
  /\ Handled
  /\ UNCHANGED <<alive, now, asked, sending, pasting, manages, conversions>>

\* SelectionNotify of nothing: the requestor is told, contents stays.
HandleNone ==
  /\ First("None") /\ Handled /\ requestor' = NoOne
  /\ UNCHANGED <<server, manages, heap, contents, conversions, time>>

With(t) == {i \in contents : heap[i].target = t}

\* receive_incrementally: the first of contents with that target, if it waits
\* for pieces; an empty one is its end.
Received(data, piece) ==
  IF piece \in {"nothing", "end"} THEN [data EXCEPT !.type = "data"] ELSE [data EXCEPT !.from = @ \cup {piece}]
Receive ==
  /\ First("new") /\ Handled
  /\ LET t == Head(events).what
         i == CHOOSE i \in With(t) : TRUE
         piece == written[t]
     IN IF With(t) = {} \/ heap[i].type # "INCR"
          THEN UNCHANGED <<server, manager>>
          ELSE /\ heap' = [heap EXCEPT ![i] = Received(heap[i], piece)]
               /\ written' = [written EXCEPT ![t] = "nothing"]
               /\ requestor' = IF Incomplete(heap', contents) THEN requestor ELSE NoOne
               /\ UNCHANGED <<alive, owner, now, asked, sending, pasting, manages, contents, conversions, time>>

\* convert_clipboard for one target: what is still being received is refused,
\* an unknown target is answered with nothing, a long one is kept for pieces.
HandlePaste ==
  /\ First("paste") /\ Handled
  /\ LET e == Head(events)
         p == [who |-> e.who, target |-> e.what, has |-> "nothing"]
         i == CHOOSE i \in With(e.what) : TRUE
         long == With(e.what) # {} /\ heap[i].type # "INCR" /\ e.what \in Long
     IN /\ pasting' = (pasting \ {p}) \cup (IF long /\ p \in pasting THEN {[p EXCEPT !.has = "piece"]} ELSE {})
        /\ IF long
             THEN /\ heap' = [heap EXCEPT ![i].refcount = @ + 1]
                  /\ conversions' = conversions \cup
                       {[requestor |-> e.who, property |-> e.what, data |-> i, offset |-> 0, was |-> heap[i].from]}
             ELSE UNCHANGED <<heap, conversions>>
  /\ UNCHANGED <<alive, owner, now, asked, written, sending, manages, contents, requestor, time>>

\* send_incrementally: the next piece, at last an empty one.
SendIncrementally ==
  /\ First("deleted") /\ Handled
  /\ LET e == Head(events)
         p == [who |-> e.who, target |-> e.what, has |-> "nothing"]
         mine == {c \in conversions : c.requestor = e.who /\ c.property = e.what}
     IN IF mine = {} THEN UNCHANGED <<pasting, heap, conversions>>
        ELSE \E c \in mine :
               IF c.offset = 0
                 THEN /\ conversions' = (conversions \ {c}) \cup {[c EXCEPT !.offset = 1]}
                      /\ pasting' = IF p \in pasting THEN (pasting \ {p}) \cup {[p EXCEPT !.has = "piece"]} ELSE pasting
                      /\ UNCHANGED heap
                 ELSE /\ conversions' = conversions \ {c} /\ pasting' = pasting \ {p}
                      /\ heap' = Unref(heap, {c.data})
  /\ UNCHANGED <<alive, owner, now, asked, written, sending, manages, contents, requestor, time>>

\* DestroyNotify of the requestor's window.
HandleDestroyed ==
  /\ First("destroyed") /\ Handled
  /\ IF Head(events).who = requestor
       THEN DropContents /\ requestor' = NoOne
       ELSE UNCHANGED <<heap, contents, requestor>>
  /\ UNCHANGED <<server, manages, conversions, time>>

\* SelectionClear of CLIPBOARD: a requestor that waits is not told.
HandleClear ==
  /\ First("clear") /\ Handled
  /\ DropContents /\ requestor' = NoOne
  /\ UNCHANGED <<server, manages, conversions, time>>

\* SelectionClear of CLIPBOARD_MANAGER: with contents, CLIPBOARD is given up at
\* the time it was taken.
HandleClearManager ==
  /\ First("clear manager")
  /\ IF contents = {} THEN Handled /\ UNCHANGED <<owner, heap, contents>>
     ELSE /\ DropContents
          /\ owner' = IF time >= now THEN NoOne ELSE owner
          /\ events' = IF owner' # owner /\ owner = Manager THEN Append(Tail(events), Event("clear", NoOne, now, NoOne)) ELSE Tail(events)
  /\ UNCHANGED <<alive, now, asked, written, sending, pasting, manages, conversions, requestor, time>>

Handle ==
  \/ HandleSave \/ HandleTargets \/ HandleMultiple \/ HandleNone \/ Receive
  \/ HandlePaste \/ SendIncrementally \/ HandleDestroyed \/ HandleClear \/ HandleClearManager

Next ==
  \/ \E a \in App : Copy(a) \/ Exit(a) \/ (\E lists \in BOOLEAN : Save(a, lists)) \/ (\E t \in Target : Paste(a, t))
  \/ (\E q \in asked : Answer(q)) \/ (\E s \in sending : SendPiece(s)) \/ (\E p \in pasting : ReadPiece(p)) \/ Replace
  \/ Handle

Spec == Init /\ [][Next]_vars

-----------------------------------------------------------------------------
(* Properties.                                                             *)
TypeOK ==
  /\ alive \subseteq App /\ owner \in App \cup {NoOne, Manager} /\ requestor \in App \cup {NoOne}
  /\ contents \cup {c.data : c \in conversions} \subseteq Address
  /\ \A i \in Address : heap[i].type \in {"none", "INCR", "data"}

\* "we may need to keep the data around after loosing the CLIPBOARD ownership
\* to complete incremental transfers" (csd-clipboard-manager.c:98-101): what a
\* paste is being sent is still there and still what it was, and nothing is
\* kept that nobody holds.
PastesKept ==
  /\ \A c \in conversions : heap[c.data].refcount > 0 /\ heap[c.data].from = c.was
  /\ \A i \in Address :
       heap[i].refcount = (IF i \in contents THEN 1 ELSE 0) + Cardinality({c \in conversions : c.data = i})

\* "We're in the middle of a conversion request, or own the CLIPBOARD already"
\* (csd-clipboard-manager.c:418-420) is why a request to save is refused; so
\* when all events are dealt with, contents is there only then.
RefusedWhenBusy == events = <<>> /\ asked = {} /\ contents # {} => requestor # NoOne \/ owner = Manager
==============================================================================
