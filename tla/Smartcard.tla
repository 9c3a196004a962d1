------------------------------ MODULE Smartcard ------------------------------
(***************************************************************************)
(* csd-smartcard-manager.c, csd-smartcard-plugin.c: the card the user has  *)
(* logged in with, in one slot.  A worker thread waits for token events of *)
(* NSS and writes insertions and removals to a pipe; the main loop reads   *)
(* them, keeps the table of cards and does what the setting says when the  *)
(* card is taken out (here: locks the screen).  NSS is external: it flags  *)
(* a slot once for all that has happened since it was last asked, and      *)
(* counts the insertions.  Two null pointers are dereferenced, where whole *)
(* cards were missed and where a slot is empty at the start: there the     *)
(* daemon crashes (known deviations), and the session starts it again.     *)
(***************************************************************************)
EXTENDS Naturals, Sequences

CONSTANTS
  MaxSeries,   \* bound on the insertions
  Fails        \* NSS may fail

ASSUME SeriesAssumption == MaxSeries \in Nat \ {0} /\ Fails \in BOOLEAN

VARIABLES
  present, series, flagged,   \* the slot
  pc, read, writes,           \* the worker: what it has read, what it has left to write
  tracked,                    \* the series of the card in its table, 0 for none
  pipe,
  state,                      \* of the manager
  connected,                  \* the plugin's handlers
  card,                       \* the card is in the manager's table
  locked,                     \* the screen has been locked since the card was seen
  reported                    \* history: insertions and removals written, the last two

vars == <<present, series, flagged, pc, read, writes, tracked, pipe, state, connected, card, locked, reported>>
slot == <<present, series, flagged>>
worker == <<pc, read, writes, tracked>>
main == <<state, connected, card, locked>>

Init ==
  /\ present \in BOOLEAN /\ series = (IF present THEN 1 ELSE 0) /\ flagged = FALSE
  /\ pc = "none" /\ read = 0 /\ writes = <<>> /\ tracked = 0 /\ pipe = <<>>
  /\ state = "stopped" /\ connected = FALSE /\ card = FALSE /\ locked = FALSE
  /\ reported = <<"none", "none">>

-----------------------------------------------------------------------------
(* The card.                                                               *)
Insert ==
  /\ ~present /\ series < MaxSeries
  /\ present' = TRUE /\ series' = series + 1 /\ flagged' = TRUE
  /\ UNCHANGED <<worker, pipe, main, reported>>
TakeOut ==
  /\ present /\ present' = FALSE /\ flagged' = TRUE
  /\ UNCHANGED <<series, worker, pipe, main, reported>>

-----------------------------------------------------------------------------
(* The daemon is gone with all it holds.  The session starts it again      *)
(* (X-GNOME-AutoRestart), which the next StartWorkers stands for.          *)
Crash ==
  /\ pc' = "none" /\ read' = 0 /\ writes' = <<>> /\ tracked' = 0 /\ pipe' = <<>>
  /\ state' = "stopped" /\ connected' = FALSE /\ card' = FALSE
  /\ reported' = <<"none", "none">>
  /\ UNCHANGED <<slot, locked>>

-----------------------------------------------------------------------------
(* The worker: csd_smartcard_manager_worker_watch_for_and_process_event.   *)

\* SECMOD_WaitForAnyTokenEvent and the slot's series.
Wait ==
  /\ pc = "wait" /\ flagged /\ flagged' = FALSE
  /\ read' = series /\ pc' = "look"
  /\ UNCHANGED <<present, series, writes, tracked, pipe, main, reported>>

\* Mutation: a card that was exchanged is not taken for another one.
LookOnce ==
  /\ pc = "look" /\ pc' = "write"
  /\ IF present
       THEN /\ writes' = <<"I">> /\ tracked' = read
       ELSE /\ writes' = <<>> /\ UNCHANGED tracked
  /\ UNCHANGED <<slot, read, pipe, main, reported>>

\* Mutation: a card that came and went unseen is a removal as well.
LookUnpaired ==
  /\ pc = "look" /\ pc' = "write"
  /\ IF present
       THEN /\ writes' = IF tracked # 0 /\ tracked # read THEN <<"R", "I">> ELSE <<"I">>
            /\ tracked' = read
       ELSE /\ writes' = <<"R">> /\ tracked' = 0
  /\ UNCHANGED <<slot, read, pipe, main, reported>>

\* PK11_IsPresent: another card in place of the tracked one is a removal and an
\* insertion; a removal of none is discarded; one that has missed a whole card
\* reports it, its key goes to the table, and the null key is hashed at the end.
Look ==
  /\ pc = "look"
  /\ \/ /\ present /\ pc' = "write" /\ tracked' = read
        /\ writes' = IF tracked # 0 /\ tracked # read THEN <<"R", "I">> ELSE <<"I">>
     \/ /\ ~present /\ (tracked = 0 \/ read <= tracked + 1) /\ pc' = "write" /\ tracked' = 0
        /\ writes' = IF tracked = 0 THEN <<>> ELSE <<"R">>
     \/ /\ ~present /\ tracked # 0 /\ read > tracked + 1 /\ pc' = "fall" /\ tracked' = read
        /\ writes' = <<"R", "I", "R">>
  /\ UNCHANGED <<slot, read, pipe, main, reported>>

\* Nobody reads the pipe of a worker that was stopped.
Write ==
  /\ pc \in {"write", "fall"} /\ writes # <<>>
  /\ writes' = Tail(writes)
  /\ pipe' = IF state = "stopped" THEN pipe ELSE Append(pipe, Head(writes))
  /\ reported' = <<reported[2], Head(writes)>>
  /\ UNCHANGED <<slot, pc, read, tracked, main>>
Written ==
  /\ pc = "write" /\ writes = <<>> /\ pc' = "wait"
  /\ UNCHANGED <<slot, read, writes, tracked, pipe, main, reported>>

\* g_hash_table_remove (worker->smartcards, NULL): slot_id_hash reads the key.
Fall == pc = "fall" /\ writes = <<>> /\ Crash

\* The thread ends; its end of the pipe stays open, so nobody is told.
Fail ==
  /\ Fails /\ pc = "wait" /\ pc' = "done"
  /\ UNCHANGED <<slot, read, writes, tracked, pipe, main, reported>>

-----------------------------------------------------------------------------
(* The main loop.                                                          *)

\* impl_activate, csd_smartcard_manager_start: NSS is loaded, it counts from here
\* and flags a card that is in already; the thread runs.
StartWorkers ==
  /\ state = "stopped" /\ pc = "none"
  /\ state' = "starting" /\ pc' = "wait"
  /\ series' = (IF present THEN 1 ELSE 0) /\ flagged' = present
  /\ UNCHANGED <<present, read, writes, tracked, pipe, connected, card, locked, reported>>

\* csd_smartcard_manager_get_all_cards, and the rest of impl_activate: a slot that
\* has had a card since NSS was loaded counts as one that has it, so nothing is
\* acted on.  For a slot that has had none _csd_smartcard_new returns NULL.
GetAllCards ==
  /\ state = "starting" /\ series > 0 /\ state' = "started"
  /\ card' = TRUE /\ connected' = TRUE /\ locked' = FALSE
  /\ UNCHANGED <<slot, worker, pipe, reported>>
GetAllCardsNull == state = "starting" /\ series = 0 /\ Crash

\* csd_smartcard_manager_check_for_and_process_events
ProcessEvent ==
  /\ state = "started" /\ pipe # <<>> /\ pipe' = Tail(pipe)
  /\ IF Head(pipe) = "I"
       THEN card' = TRUE /\ locked' = FALSE
       ELSE card' = FALSE /\ locked' = connected
  /\ UNCHANGED <<slot, worker, state, connected, reported>>

\* impl_deactivate: a worker that waits is cancelled, another one goes on.
Deactivate ==
  /\ state = "started" /\ state' = "stopped" /\ connected' = FALSE
  /\ pc' = IF pc = "wait" THEN "done" ELSE pc
  /\ pipe' = <<>>
  /\ UNCHANGED <<slot, read, writes, tracked, card, locked, reported>>

Next ==
  \/ Insert \/ TakeOut \/ Wait \/ Look \/ Write \/ Written \/ Fall \/ Fail
  \/ StartWorkers \/ GetAllCards \/ GetAllCardsNull \/ ProcessEvent \/ Deactivate

Spec == Init /\ [][Next]_vars

-----------------------------------------------------------------------------
(* Properties.                                                             *)
TypeOK ==
  /\ pc \in {"none", "wait", "look", "write", "fall", "done"} /\ state \in {"stopped", "starting", "started"}
  /\ series \in 0 .. MaxSeries /\ tracked \in 0 .. MaxSeries

Quiet == state = "started" /\ pc = "wait" /\ ~flagged /\ pipe = <<>>

\* Once all is dispatched, a manager whose worker has reported something knows
\* whether the card is in, and the removal of one whose insertion was reported
\* has been acted on (csd-smartcard-plugin.c:237-255), wherever the exchanges fall
\* between the wait and the look.  That is as long as the daemon lives: where a
\* whole card was missed it crashes, and with it goes what it knew; and a card
\* that is taken out before the worker has seen it at all is lost (known
\* deviations).
KnowsCard == Quiet /\ reported[2] # "none" => card = present /\ (~present => locked)

\* "We don't want unpaired remove events" (csd-smartcard-manager.c:1327)
RemovalsPaired == reported[2] = "R" => reported[1] = "I"

\* "(we don't want unpaired insertion events)" (csd-smartcard-manager.c:1304)
InsertionsPaired == reported # <<"I", "I">>
==============================================================================
