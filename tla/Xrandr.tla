------------------------------- MODULE Xrandr --------------------------------
(***************************************************************************)
(* csd-xrandr-manager.c: which outputs are on.  The manager applies stored *)
(* configurations, makes one when outputs come and go or the lid moves,    *)
(* cycles through stock ones on a key, and asks the user to confirm what a *)
(* settings program has stored.  The question runs a main loop of its own  *)
(* inside an idle, so questions nest.  The X server, UPower, the settings  *)
(* program and the library's files are external: saving moves the old file *)
(* to the backup and writes the new one.                                   *)
(***************************************************************************)
EXTENDS Naturals, Sequences, SequencesExt, FiniteSets

CONSTANTS
  External,   \* monitors that can be plugged in
  MaxAsks,    \* bound on the questions queued or open at a time
  Scenarios   \* what may happen in a behaviour, see Init

Laptop == "laptop"
Output == {Laptop} \cup External
Null == [on |-> {}, clone |-> FALSE]   \* no configuration: all off is none
Config == [on : SUBSET Output, clone : BOOLEAN]
Absent == [s \in {} |-> Null]          \* the file is not there
File == {Absent} \cup [SUBSET External -> Config]  \* Null: no match for these monitors

VARIABLES
  connected,             \* monitors plugged in
  lid_is_closed,         \* what UPower says of the laptop's lid
  current,               \* the server's configuration
  hot,                   \* config timestamp > change timestamp
  events,                \* RandR events not dispatched
  handled,               \* last_config_timestamp is the config timestamp
  fn_f7_configs, current_fn_f7_config, fn_f7_outputs, \* the cycle, and what it was made for
  running,
  intended, backup,      \* monitors.xml and monitors.xml.backup
  calling,               \* the program has saved and called ApplyConfiguration
  queued,                \* confirm_with_user_idle_cb that wait
  asking,                \* open questions, the innermost last: is the countdown over
  accepted,              \* history: what the user has agreed to keep
  before, expired,       \* history: the screen when the program called, if compared; a countdown that ended
  scene                  \* the scenario of this behaviour

server == <<connected, lid_is_closed, current, hot, events>>
cycle == <<fn_f7_configs, current_fn_f7_config, fn_f7_outputs>>
files == <<intended, backup>>
asks == <<calling, queued, asking>>
told == <<before, expired>>
vars == <<server, handled, cycle, running, files, asks, accepted, told, scene>>

-----------------------------------------------------------------------------
(* Configurations.                                                         *)
Present == {Laptop} \cup connected
Only(S, cl) == IF S = {} THEN Null ELSE [on |-> S, clone |-> cl]

\* turn_off_laptop_display_in_configuration: never the last that is on.
WithoutLaptop(c) == IF c.on \ {Laptop} # {} THEN [c EXCEPT !.on = @ \ {Laptop}] ELSE c

Follows == scene.boot \in {"follow-lid", "clone"}
MakeClone(closed) == Only({o \in Present : ~(o = Laptop /\ closed)}, TRUE)
MakeLaptop(closed) == Only(IF closed THEN {} ELSE {Laptop}, FALSE)
MakeOther == Only(connected, FALSE)

\* make_xinerama_setup; trimming starts at the left end and moves nothing, so
\* what does not fit does not fit until all is off.
MakeXinerama(closed) ==
  LET row == IF closed /\ Follows THEN connected ELSE Present
  IN IF Cardinality(row) <= scene.fits THEN Only(row, FALSE) ELSE Null

MakeDefault(closed) ==
  CASE scene.boot = "do-nothing" -> MakeXinerama(closed)
    [] scene.boot = "follow-lid" -> IF closed THEN MakeOther ELSE MakeXinerama(closed)
    [] scene.boot = "clone" -> MakeClone(closed)
    [] scene.boot = "dock" -> MakeOther

\* sanitize: of the duplicates of a configuration the first one goes, and what
\* is left closes up.
DropDuplicate(s, i) ==
  LET same == {j \in i+1 .. Len(s) : s[j] = s[i]}
  IN IF s[i] = Null \/ same = {} THEN s
     ELSE [s EXCEPT ![CHOOSE j \in same : \A k \in same : j <= k] = Null]
Sanitize(s) ==
  LET dropped[i \in 0 .. Len(s)] == IF i = 0 THEN s ELSE DropDuplicate(dropped[i - 1], i)
      left == dropped[Len(s)]
      new[i \in 0 .. Len(s)] ==
        IF i = 0 THEN <<>> ELSE IF left[i] = Null THEN new[i - 1] ELSE Append(new[i - 1], left[i])
  IN new[Len(s)]
Shown == Only(current.on \cap Present, current.clone)   \* gnome_rr_config_new_current
StockConfigs == Sanitize(<<Shown, MakeClone(lid_is_closed), MakeXinerama(lid_is_closed), MakeOther, MakeLaptop(lid_is_closed)>>)

-----------------------------------------------------------------------------
(* Files.                                                                  *)
Stored(f) == IF f = Absent THEN Null ELSE f[connected]
Empty == [s \in SUBSET External |-> Null]
Saved(c) == [IF intended = Absent THEN Empty ELSE intended EXCEPT ![connected] = c]
Save(c) ==
  /\ intended' = Saved(c)
  /\ backup' = IF intended = Absent THEN backup ELSE intended

\* What apply_configuration_from_filename makes of a stored configuration.
FromFile(c, closed) == IF closed THEN WithoutLaptop(c) ELSE c

\* The server takes c: its timestamps agree again.
Show(c) == current' = c /\ hot' = FALSE
ShowIf(c) == IF c = Null THEN UNCHANGED <<current, hot>> ELSE Show(c)

-----------------------------------------------------------------------------
\* A behaviour has a boot setting, a number of outputs that fit side by side in
\* the frame buffer, and a set of things that may happen in it: monitors come
\* and go, the lid moves, keys are pressed, a program asks for a configuration,
\* the daemon is killed, requests cross each other, calls of the server fail;
\* or nothing was ever stored.
Init ==
  /\ scene \in Scenarios
  /\ connected = External /\ lid_is_closed = FALSE
  /\ current = [on |-> Present, clone |-> Cardinality(Present) > scene.fits] /\ hot = FALSE /\ events = 0
  /\ handled = TRUE
  /\ fn_f7_configs = <<>> /\ current_fn_f7_config = 0 /\ fn_f7_outputs = {}
  /\ running = TRUE
  /\ intended = IF "first" \in scene.may THEN Absent ELSE [Empty EXCEPT ![External] = current]
  /\ backup = Absent
  /\ calling = FALSE /\ queued = 0 /\ asking = <<>>
  /\ accepted = intended
  /\ before = Null /\ expired = FALSE

May(what) == what \in scene.may
Busy == calling \/ queued > 0 \/ asking # <<>>
Free == ~Busy \/ May("overlap")
Outcomes == IF May("fail") THEN BOOLEAN ELSE {TRUE}

-----------------------------------------------------------------------------
(* The world.                                                              *)
Replug(S) ==
  /\ May("plug") /\ Free /\ events < 2
  /\ connected' = S /\ S # connected
  /\ hot' = TRUE /\ handled' = FALSE /\ events' = events + 1
  /\ UNCHANGED <<lid_is_closed, current, cycle, running, files, asks, accepted, told>>

\* A settings program stores a configuration and calls ApplyConfiguration.
StoreAndCall(c) ==
  /\ May("asks") /\ running /\ ~calling /\ Free /\ events = 0 /\ queued + Len(asking) < MaxAsks
  /\ c.on # {} /\ c.on \subseteq Present /\ (IF c.clone THEN c.on = Present ELSE Cardinality(c.on) <= scene.fits)
  /\ Save(c) /\ calling' = TRUE
  /\ before' = (IF May("fail") \/ May("first") THEN current ELSE Null) /\ expired' = FALSE
  /\ UNCHANGED <<server, handled, cycle, running, queued, asking, accepted>>

-----------------------------------------------------------------------------
(* The manager.                                                            *)

\* use_stored_configuration_or_auto_configure_outputs; new: not the event of a
\* timestamp that was dealt with.
UseStoredOrAuto(new) ==
  IF Stored(intended) # Null
    THEN Show(FromFile(Stored(intended), lid_is_closed)) /\ UNCHANGED handled
    ELSE /\ handled' = TRUE
         /\ IF new THEN ShowIf(MakeDefault(lid_is_closed)) ELSE UNCHANGED <<current, hot>>

\* Mutation: nothing is made up for monitors that are unknown.
OnRandrEventStored ==
  /\ running /\ events > 0
  /\ events' = events - 1
  /\ IF hot THEN ShowIf(FromFile(Stored(intended), lid_is_closed)) ELSE UNCHANGED <<current, hot>>
  /\ UNCHANGED <<connected, lid_is_closed, handled, cycle, running, files, asks, accepted, told>>

\* on_randr_event: a change by a client is left alone, a hotplug is not.
OnRandrEvent ==
  /\ running /\ events > 0
  /\ events' = events - 1
  /\ IF hot THEN UseStoredOrAuto(~handled) ELSE UNCHANGED <<current, hot, handled>>
  /\ UNCHANGED <<connected, lid_is_closed, cycle, running, files, asks, accepted, told>>

\* lid_state_changed_cb, in the notification that moves UPower's property;
\* turning the laptop's panel off and applying what is stored happen in one go.
LidStateChanged ==
  /\ May("lid") /\ Free
  /\ lid_is_closed' = ~lid_is_closed
  /\ LET closed == ~lid_is_closed IN
     IF ~running \/ ~Follows THEN UNCHANGED <<current, hot, handled>>
     ELSE LET off == IF closed THEN WithoutLaptop(Shown) ELSE Null
              auto == IF MakeDefault(closed) = Null THEN off ELSE MakeDefault(closed)
          IN IF Stored(intended) # Null
               THEN Show(FromFile(Stored(intended), closed)) /\ UNCHANGED handled
               ELSE ShowIf(auto) /\ handled' = FALSE
  /\ UNCHANGED <<connected, events, cycle, running, files, asks, accepted, told>>

\* handle_fn_f7: the cycle is made anew if the world is not as it left it; the
\* next configuration is applied and stored.
VideoModeSwitch ==
  /\ May("keys") /\ running /\ Free
  /\ LET stale == \/ fn_f7_configs = <<>>
                  \/ fn_f7_outputs # connected
                  \/ Shown # fn_f7_configs[current_fn_f7_config]
         configs == IF stale THEN StockConfigs ELSE fn_f7_configs
         at == IF stale THEN 1 ELSE current_fn_f7_config
         next == (at % Len(configs)) + 1
     IN /\ fn_f7_configs' = configs
        /\ fn_f7_outputs' = connected
        /\ IF configs = <<>>
             THEN current_fn_f7_config' = 0 /\ UNCHANGED <<current, hot, files, accepted>>
             ELSE /\ current_fn_f7_config' = next
                  /\ \E ok \in Outcomes :
                       IF ok THEN Show(configs[next]) /\ Save(configs[next]) /\ accepted' = intended'
                             ELSE UNCHANGED <<current, hot, files, accepted>>
  /\ UNCHANGED <<connected, lid_is_closed, events, handled, running, asks, told>>

\* try_to_apply_intended_configuration: what cannot be applied is undone, the
\* rest is for the user to confirm.
ApplyConfiguration ==
  /\ running /\ calling
  /\ calling' = FALSE
  /\ \E ok \in Outcomes :
       IF ok
         THEN /\ ShowIf(FromFile(Stored(intended), lid_is_closed))
              /\ queued' = queued + 1
              /\ UNCHANGED files
         ELSE /\ UNCHANGED <<current, hot, queued>>
              /\ IF backup = Absent THEN UNCHANGED files
                                    ELSE intended' = backup /\ backup' = Absent
  /\ UNCHANGED <<connected, lid_is_closed, events, handled, cycle, running, asking, accepted, told>>

\* confirm_with_user_idle_cb opens the question and enters its main loop.
ConfirmWithUserIdle ==
  /\ queued > 0
  /\ queued' = queued - 1
  /\ asking' = Append(asking, FALSE)
  /\ UNCHANGED <<server, handled, cycle, running, files, calling, accepted, told>>

\* unlink (backup_filename)
Keep == backup' = Absent /\ accepted' = intended /\ UNCHANGED <<intended, current, hot>>

\* Mutation: the file comes back, the screen does not.
RestoreFileOnly ==
  /\ backup' = Absent /\ intended' = backup
  /\ UNCHANGED <<current, hot, accepted>>

\* restore_backup_configuration: without a backup there was no file, so there
\* is to be none again.
RestoreBackup ==
  /\ backup' = Absent
  /\ intended' = backup
  /\ IF backup = Absent THEN UNCHANGED <<current, hot>> ELSE ShowIf(FromFile(backup[connected], lid_is_closed))
  /\ UNCHANGED accepted

\* The innermost main loop returns, and the rest of its idle with it.
Answered(yes) == IF yes THEN Keep ELSE RestoreBackup

\* timeout_response_cb: the innermost question is modal.
Answer(yes) ==
  /\ running /\ asking # <<>>
  /\ asking' = Front(asking)
  /\ Answered(yes)
  /\ UNCHANGED <<connected, lid_is_closed, events, handled, cycle, running, calling, queued, told>>

\* timeout_cb of any question leaves the innermost main loop.  If that is
\* another's, its answer was never set: it is read uninitialised, and the
\* question that is left has no countdown any more.
CountdownEnds(i) ==
  /\ running /\ i \in DOMAIN asking /\ ~asking[i]
  /\ asking' = Front([asking EXCEPT ![i] = TRUE])
  /\ expired' = TRUE
  /\ \/ Answered(FALSE)
     \/ i < Len(asking) /\ Answered(TRUE)
  /\ UNCHANGED <<connected, lid_is_closed, events, handled, cycle, running, calling, queued, before>>

-----------------------------------------------------------------------------
\* The daemon is killed, or the machine crashes: the files stay.
Crash ==
  /\ May("crash") /\ running
  /\ running' = FALSE
  /\ calling' = FALSE /\ queued' = 0 /\ asking' = <<>>
  /\ fn_f7_configs' = <<>> /\ current_fn_f7_config' = 0 /\ fn_f7_outputs' = {}
  /\ UNCHANGED <<server, handled, files, accepted, told>>

\* csd_xrandr_manager_start: a backup says that a question was left open, so it
\* is what is applied and kept; then the stored configuration; then the default
\* of the boot setting.
Start ==
  /\ ~running
  /\ running' = TRUE
  /\ handled' = FALSE /\ events' = 0
  /\ IF backup # Absent
       THEN intended' = backup /\ backup' = Absent /\ ShowIf(FromFile(backup[connected], lid_is_closed))
       ELSE /\ UNCHANGED files
            /\ IF Stored(intended) # Null THEN Show(FromFile(Stored(intended), lid_is_closed))
               ELSE IF scene.boot = "do-nothing" THEN UNCHANGED <<current, hot>>
               ELSE ShowIf(MakeDefault(lid_is_closed))
  /\ UNCHANGED <<connected, lid_is_closed, cycle, asks, accepted, told>>

Next ==
  /\ UNCHANGED scene
  /\ \/ \E S \in SUBSET External : Replug(S)
     \/ \E c \in Config : StoreAndCall(c)
     \/ OnRandrEvent \/ LidStateChanged \/ VideoModeSwitch
     \/ ApplyConfiguration \/ ConfirmWithUserIdle
     \/ \E yes \in BOOLEAN : Answer(yes)
     \/ \E i \in 1 .. MaxAsks : CountdownEnds(i)
     \/ Crash \/ Start

Spec == Init /\ [][Next]_vars

-----------------------------------------------------------------------------
(* Properties.                                                             *)
TypeOK ==
  /\ connected \subseteq External /\ current \in Config /\ events \in 0 .. 2
  /\ intended \in File /\ backup \in File /\ accepted \in File
  /\ fn_f7_configs = <<>> \/ current_fn_f7_config \in DOMAIN fn_f7_configs
  /\ queued + Len(asking) <= MaxAsks

Quiet == running /\ ~Busy /\ events = 0

\* With the lid open there is something to see once every event was dealt with,
\* whatever was plugged, closed, chosen and stored before (auto_configure_outputs
\* and the setups it picks from).  "dock" asks for external monitors only and
\* gets them (known deviation).
SomethingToSee ==
  Quiet /\ ~lid_is_closed /\ scene.boot # "dock" => current.on \cap Present # {}

\* Only what the user agreed to stays stored, also if the daemon dies with the
\* question open: csd-xrandr-manager.c:1905 "the user had selected to change the
\* display configuration, but the machine crashed"; and a question that nobody
\* answers leaves the screen as it was.  Not when requests cross each other or a
\* first file was never confirmed (known deviations).
OnlyConfirmedStays ==
  /\ Quiet /\ ~May("overlap") /\ ~May("first") /\ ~(May("crash") /\ May("keys"))
       => intended = accepted
  /\ Quiet /\ expired /\ May("fail") => current = before

\* "The display will be reset to its previous configuration in %d seconds"
\* (csd-xrandr-manager.c:577).
ResetToPrevious == Quiet /\ expired => current = before

\* The scenario that refutes it: the first configuration ever is stored.
FirstStored == [fits : {2}, boot : {"do-nothing"}, may : {{"first", "asks"}}]
=============================================================================
