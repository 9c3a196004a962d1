------------------------------ MODULE DiskSpace ------------------------------
(***************************************************************************)
(* csd-disk-space.c: file systems that run low.  A check measures all that *)
(* are mounted and puts up one notice at a time: a notification, or on a   *)
(* server without actions a dialog whose main loop runs inside the check,  *)
(* which goes on with its old measurements when the user has answered.     *)
(***************************************************************************)
EXTENDS Naturals, Sequences, SequencesExt

CONSTANTS
  Fstab,      \* the mount points in the order of /etc/fstab
  Nothing,    \* no mount point
  Free,       \* the levels of free space looked at, in steps of free_percent_notify_again
  LowFree,    \* free_percent_notify: this much is low
  MinPeriod   \* min_notify_period, in ticks

Mount == ToSet(Fstab)
Ago == 0 .. MinPeriod + 1        \* how long ago, as far as it matters
Roomy == CHOOSE f \in Free : f > LowFree
Never == [free |-> Roomy, ago |-> MinPeriod + 1, is |-> FALSE]
Entry == [free : Free, ago : Ago, is : BOOLEAN]

VARIABLES
  free, mounted,       \* the file systems
  mounts_changed,      \* the monitor has news
  notified,            \* ldsm_notified_hash: measurement and time of each entry
  notice,              \* the mount a notification or dialog is about
  rest,                \* what the check that waits for a dialog has left, as it was measured
  inside,              \* the sources that are being dispatched while it waits
  ignoring,            \* the setting ignore-paths
  ignore_paths,        \* the manager's copy
  told,                \* history: the last notice for a mount since it had space
  dialogs              \* the server has no actions

vars == <<free, mounted, mounts_changed, notified, notice, rest, inside, ignoring, ignore_paths, told, dialogs>>
disks == <<free, mounted>>
ignores == <<ignoring, ignore_paths>>

Init ==
  /\ dialogs \in BOOLEAN
  /\ free = [m \in Mount |-> Roomy] /\ mounted = Mount
  /\ mounts_changed = FALSE
  /\ notified = [m \in Mount |-> Never] /\ told = notified
  /\ notice = Nothing /\ rest = <<>> /\ inside = {}
  /\ ignoring = <<>> /\ ignore_paths = <<>>

-----------------------------------------------------------------------------
(* The world.                                                              *)
Use(m, f) ==
  /\ f # free[m]
  /\ free' = [free EXCEPT ![m] = f]
  /\ UNCHANGED <<mounted, mounts_changed, notified, notice, rest, inside, ignores, told, dialogs>>

MountOrUnmount(m) ==
  /\ ~mounts_changed /\ mounts_changed' = TRUE
  /\ mounted' = IF m \in mounted THEN mounted \ {m} ELSE mounted \cup {m}
  /\ UNCHANGED <<free, notified, notice, rest, inside, ignores, told, dialogs>>

Older(table) ==
  [m \in Mount |-> IF table[m].is /\ table[m].ago <= MinPeriod THEN [table[m] EXCEPT !.ago = @ + 1] ELSE table[m]]
Tick ==
  /\ notified' = Older(notified) /\ told' = Older(told)
  /\ UNCHANGED <<disks, mounts_changed, notice, rest, inside, ignores, dialogs>>

-----------------------------------------------------------------------------
(* Checks.                                                                 *)

\* Mutation: a loss that comes too soon is not remembered with its time.
WarnForgets(st, low) ==
  LET m == low.mount
      previous == st.notified[m]
      again == previous.is /\ previous.free > low.free + 1
      show == ~previous.is \/ (again /\ previous.ago > MinPeriod)
      puts == show /\ st.notice = Nothing
      entry == [free |-> low.free, is |-> TRUE, ago |-> 0]
  IN IF st.waits THEN [st EXCEPT !.rest = Append(@, low)]
     ELSE IF st.done \/ ~(show \/ again) THEN st
     ELSE [st EXCEPT
             !.notified[m] = IF show THEN entry ELSE Never,
             !.told[m] = IF puts THEN entry ELSE @,
             !.notice = IF puts THEN m ELSE @,
             !.waits = puts /\ dialogs,
             !.done = show]

\* ldsm_maybe_warn_mounts for one mount that was measured as low; st.rest is
\* what comes after a dialog, st.done that a notice is up.
Warn(st, low) ==
  LET m == low.mount
      previous == st.notified[m]
      again == previous.is /\ previous.free > low.free + 1
      show == ~previous.is \/ (again /\ previous.ago > MinPeriod)
      entry == [free |-> low.free, is |-> TRUE,
                ago |-> IF show THEN 0 ELSE previous.ago]
      puts == show /\ st.notice = Nothing
  IN IF st.waits THEN [st EXCEPT !.rest = Append(@, low)]
     ELSE IF st.done \/ ~(show \/ again) THEN st
     ELSE [st EXCEPT
             !.notified[m] = entry,
             !.told[m] = IF puts THEN entry ELSE @,
             !.notice = IF puts THEN m ELSE @,
             !.waits = puts /\ dialogs,
             !.done = show]

MaybeWarn(lows, hash, tells, source) ==
  LET st == FoldLeft(Warn, [notified |-> hash, told |-> tells, notice |-> notice, rest |-> <<>>, waits |-> FALSE, done |-> FALSE], lows)
  IN /\ notified' = st.notified /\ told' = st.told /\ notice' = st.notice
     /\ rest' = IF st.waits THEN st.rest ELSE rest
     /\ inside' = IF st.waits THEN {source} ELSE IF source = "monitor" THEN inside \ {"timer"} ELSE inside

\* The entries of mounts that are gone, ignored or have space are taken out.
Without(table, gone) == [m \in Mount |-> IF m \in gone THEN Never ELSE table[m]]

\* full_mounts: those of the watched that have no space, as they were measured.
FullMounts(watched) ==
  LET Add(full, m) == IF m \in watched /\ free[m] <= LowFree THEN Append(full, [mount |-> m, free |-> free[m]]) ELSE full
  IN FoldLeft(Add, <<>>, Fstab)

\* ldsm_check_all_mounts; gone: what ldsm_mounts_changed has taken out.
CheckAll(gone, source) ==
  LET watched == {m \in mounted : m \notin ToSet(ignore_paths)}
      drop == gone \cup {m \in watched : free[m] > LowFree}
  IN MaybeWarn(FullMounts(watched), Without(notified, drop), Without(told, drop), source)

\* A source that is being dispatched is not dispatched again.
Check ==
  /\ "timer" \notin inside
  /\ CheckAll({}, "timer")
  /\ UNCHANGED <<disks, mounts_changed, ignores, dialogs>>

\* ldsm_mounts_changed sets the timer anew when its check has returned, so it
\* can go off although a dialog was opened by it.
MountsChanged ==
  /\ mounts_changed /\ "monitor" \notin inside
  /\ mounts_changed' = FALSE
  /\ CheckAll(Mount \ mounted, "monitor")
  /\ UNCHANGED <<disks, ignores, dialogs>>

-----------------------------------------------------------------------------
(* Answers.                                                                *)

\* on_notification_closed
Closed ==
  /\ notice # Nothing /\ ~dialogs
  /\ notice' = Nothing
  /\ UNCHANGED <<disks, mounts_changed, notified, rest, inside, ignores, told, dialogs>>

\* The dialog returns: after "ignore" or "examine" the check goes on with what
\* it has left, after "empty trash" or a close it is done.
Answered(goes_on) ==
  /\ notice # Nothing /\ dialogs
  /\ LET lows == IF goes_on THEN rest ELSE <<>>
         st == FoldLeft(Warn, [notified |-> notified, told |-> told, notice |-> Nothing, rest |-> <<>>, waits |-> FALSE, done |-> FALSE], lows)
     IN /\ notified' = st.notified /\ told' = st.told /\ notice' = st.notice /\ rest' = st.rest
        /\ inside' = IF st.waits THEN inside ELSE {}
  /\ UNCHANGED <<disks, mounts_changed, ignores, dialogs>>

\* csd_ldsm_get_config and the dialog read a list of paths by G_N_ELEMENTS of a
\* pointer: its first element.
FirstOf(list) == IF list = <<>> THEN <<>> ELSE <<Head(list)>>

\* ignore_check_button_toggled_cb, and csd_ldsm_update_config in its call.
ToggleIgnore ==
  /\ notice # Nothing /\ dialogs
  /\ LET read == FirstOf(ignoring)
     IN ignoring' = IF notice \in ToSet(read) THEN <<>> ELSE Append(read, notice)
  /\ ignore_paths' = FirstOf(ignoring')
  /\ notified' = Without(notified, ToSet(ignore_paths'))
  /\ told' = Without(told, ToSet(ignore_paths'))
  /\ UNCHANGED <<disks, mounts_changed, notice, rest, inside, dialogs>>

Next ==
  \/ \E m \in Mount : MountOrUnmount(m) \/ \E f \in Free : Use(m, f)
  \/ Tick \/ Check \/ MountsChanged \/ Closed \/ ToggleIgnore
  \/ \E goes_on \in BOOLEAN : Answered(goes_on)

Spec == Init /\ [][Next]_vars

-----------------------------------------------------------------------------
(* Properties.                                                             *)
TypeOK ==
  /\ free \in [Mount -> Free] /\ mounted \subseteq Mount
  /\ notified \in [Mount -> Entry] /\ told \in [Mount -> Entry]
  /\ notice \in Mount \cup {Nothing}
  /\ ToSet(ignore_paths) \subseteq Mount

\* A mount that stays low is not brought up again before the period is over and
\* more space is lost, however checks, new mounts and answers interleave
\* (csd-disk-space.c:542 "This will stop the notification from reappearing
\* unnecessarily as soon as the timeout expires").
NotNagging ==
  [][\A m \in Mount :
       notice' = m /\ notice # m /\ told[m].is /\ told'[m].is
         => told[m].ago > MinPeriod /\ told'[m].free + 1 < told[m].free]_vars

\* "We've notified for this mount before" (csd-disk-space.c:534) of a mount in
\* the table.
EntryMeansNotice == \A m \in Mount : notified[m].is => told[m].is
=============================================================================
