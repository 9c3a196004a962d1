-------------------------- MODULE DatetimeMechanism --------------------------
(***************************************************************************)
(* plugins/datetime: the service on the system bus that sets clock, time   *)
(* zone, hardware clock and NTP for callers whom PolicyKit lets.  It is    *)
(* started by a call, serves one call at a time, blocks on the question to *)
(* PolicyKit and on the tools it runs, and exits when it was not used for  *)
(* a while.  Callers, PolicyKit, files and tools are external; any tool    *)
(* and any write may fail.  Of the clock only matters whether the hardware *)
(* clock is in step with it.                                               *)
(***************************************************************************)
EXTENDS Integers, Sequences, SequencesExt

CONSTANTS
  Zone,       \* names of time zones
  Odd,        \* those that system_timezone_is_valid refuses ("Etc/GMT+1")
  Twin,       \* of each zone the first in the directory with the same data
  Files,      \* configuration files, in the order in which they are read
  Outside,    \* a name with ".." in it
  Missing,    \* a name without a file
  Kill,       \* the time without use after which the service exits
  MaxCalls,   \* calls of a behaviour
  ToolsFail   \* whether a tool that was started may be in vain

None == "none"  \* no answer, no zone, nothing known
Tools == {"hwclock", "ntpd", "ntpdate"}
Methods == {"SetTime", "SetDate", "SetTimezone", "GetTimezone",
            "SetHardwareClockUsingUtc", "SetUsingNtp", "CanSetTime"}
Arguments(m) ==
  CASE m = "SetTimezone" -> Zone \cup {Outside, Missing}
    [] m \in {"SetHardwareClockUsingUtc", "SetUsingNtp"} -> {"yes", "no"}
    [] OTHER -> {None}
Call == UNION {[method : {m}, argument : Arguments(m)] : m \in Methods}
Resetting == {"SetTime", "SetDate", "SetTimezone", "GetTimezone"}
Free == {"GetTimezone", "CanSetTime"}  \* without a question to PolicyKit

VARIABLES
  machine,  \* its distribution and the tools that are installed
  running,  \* the process
  calls,    \* not dispatched, in order
  made,     \* how many were
  age,      \* of the kill timer
  world,    \* what the service changes
  told      \* what the last answer on each matter promised

vars == <<machine, running, calls, made, age, world, told>>

Init ==
  /\ machine \in [distribution : {"debian", "fedora", "suse", "other"}, tools : {Tools}]
                   \cup [distribution : {"fedora", "suse"}, tools : {{"hwclock"}}]
                   \cup [distribution : {"debian"}, tools : {{}}]
  /\ running = FALSE /\ calls = <<>> /\ made = 0 /\ age = 0
  /\ \E z \in Zone, k \in {"link", "relative", "file"}, having \in SUBSET ToSet(Files) :
       world = [localtime |-> [kind |-> k, zone |-> z],
                config |-> [f \in ToSet(Files) |-> IF f \in having THEN z ELSE None],
                inStep |-> FALSE, utc |-> "no", ntpd |-> "no", started |-> "no", ntpdate |-> "no"]
  /\ told = [zone |-> None, clock |-> None, utc |-> None, ntp |-> None]

-----------------------------------------------------------------------------
(* system-timezone.c.                                                      *)

\* system_timezone_find: the link, then the configuration, then the inode that
\* the link leads to and the data.
Find(w) ==
  LET lt == w.localtime
      linked == IF lt.kind = "link" THEN <<lt.zone>> ELSE <<>>
      data == CASE lt.kind = "file" -> <<Twin[lt.zone]>>
                [] lt.kind \in {"link", "relative"} -> <<lt.zone, Twin[lt.zone]>>
                [] OTHER -> <<>>
      told_by == linked \o [i \in DOMAIN Files |-> w.config[Files[i]]] \o data
      valid == SelectInSeq(told_by, LAMBDA z : z \in Zone \ Odd)
  IN IF valid = 0 THEN "UTC" ELSE told_by[valid]

\* system_timezone_set_etc_timezone: a link is replaced by a link, or else by a
\* copy; what may be left if neither can be made.
Localtimes(z, lt) ==
  LET isLink == lt.kind \in {"link", "relative"}
      linked == IF isLink THEN {[kind |-> "link", zone |-> z]} ELSE {}
      unlinked == IF isLink THEN {[kind |-> None, zone |-> None]} ELSE {}
  IN [ok : {TRUE}, is : linked \cup {[kind |-> "file", zone |-> z]}] \cup [ok : {FALSE}, is : {lt} \cup unlinked]

\* Mutation: only the first of the files is kept in step.
ConfigsFirst(z, config) ==
  {[ok |-> TRUE, is |-> [config EXCEPT ![Files[1]] = IF @ \in Zone THEN z ELSE @]]}

\* system_timezone_update_config: the files that have the key, up to the first
\* that cannot be written.
Configs(z, config) ==
  LET Having(i) == config[Files[i]] \in Zone
      Written(n) == [f \in DOMAIN config |-> IF \E i \in 1 .. n : Files[i] = f /\ Having(i) THEN z ELSE config[f]]
  IN {[ok |-> TRUE, is |-> Written(Len(Files))]}
       \cup {[ok |-> FALSE, is |-> Written(n - 1)] : n \in {i \in DOMAIN Files : Having(i)}}

-----------------------------------------------------------------------------
(* The methods: what may have become of the world, and the answer.         *)

Result(w, a) == [world |-> w, answer |-> a]

\* A name that leaves the directory is refused without an answer.
SetTimezone(z, w) ==
  CASE z = Outside -> {Result(w, None)}
    [] z = Missing -> {Result(w, "error")}
    [] OTHER ->
         LET made_in(l) == {Result([w EXCEPT !.localtime = l.is, !.config = c.is], IF c.ok THEN "done" ELSE "error") :
                              c \in Configs(z, w.config)}
         IN UNION {IF l.ok THEN made_in(l) ELSE {Result([w EXCEPT !.localtime = l.is], "error")} :
                     l \in Localtimes(z, w.localtime)}

\* _set_time, _set_date and _sync_hwclock; _set_date forgets to answer.
SetClock(m, w) ==
  LET set == [w EXCEPT !.inStep = FALSE]
      Synced == IF "hwclock" \in machine.tools THEN [w EXCEPT !.inStep = TRUE] ELSE set
  IN {Result(w, "error"), Result(Synced, IF m = "SetDate" THEN None ELSE "done")}
       \cup (IF "hwclock" \in machine.tools THEN {Result(set, "error")} ELSE {})

\* hwclock, and the file that Fedora and SUSE keep beside it.
SetUtc(utc, w) ==
  LET set == [w EXCEPT !.utc = utc, !.inStep = TRUE]
  IN IF "hwclock" \notin machine.tools THEN {Result(w, "done")}
     ELSE {Result(w, "error"), Result(set, "done")}
            \cup (IF machine.distribution \in {"fedora", "suse"} THEN {Result(set, "error")} ELSE {})

\* A tool: it is not started, it works, or it is in vain.
Runs == {"unstarted", "works"} \cup (IF ToolsFail THEN {"in vain"} ELSE {})
Told(results) == IF results \cap {"unstarted", "moved"} # {} THEN "error" ELSE "done"

\* The service at startup, and now.
Service(on, w, startup, now) ==
  [w EXCEPT !.ntpd = IF startup = "works" THEN on ELSE @,
            !.started = IF startup # "unstarted" /\ now = "works" THEN on ELSE @]

\* Debian goes on with what is installed, and tells of the first failure; the
\* script of ntpdate may be moved, but not run at once.
DebianRuns(tool, on) ==
  (IF tool \in machine.tools THEN Runs ELSE {"absent"})
    \cup (IF tool \in machine.tools \cap {"ntpdate"} /\ on = "yes" THEN {"moved"} ELSE {})

DebianSets(on, w, s, n, d) ==
  Result([Service(on, w, s, n) EXCEPT !.ntpdate = IF d \in {"works", "moved"} THEN on ELSE @], Told({s, n, d}))

SetUsingNtpDebian(on, w) ==
  {DebianSets(on, w, s, n, d) :
     s \in DebianRuns("ntpd", on), n \in DebianRuns("ntpd", on), d \in DebianRuns("ntpdate", on)}

\* Without an NTP client the command names none, or one that is not there.
ServiceRuns == IF "ntpd" \in machine.tools THEN Runs ELSE {"unstarted", "in vain"}

\* Fedora and SUSE stop at the first tool that is not started.
SetUsingNtp(on, w) ==
  CASE machine.distribution = "other" -> {Result(w, "error")}
    [] machine.distribution \in {"fedora", "suse"} ->
         {Result(Service(on, w, s, n), Told({s, n})) : s \in ServiceRuns, n \in ServiceRuns}
    [] OTHER -> SetUsingNtpDebian(on, w)

Results(call, w) ==
  CASE call.method = "SetTimezone" -> SetTimezone(call.argument, w)
    [] call.method \in {"SetTime", "SetDate"} -> SetClock(call.method, w)
    [] call.method = "SetHardwareClockUsingUtc" -> SetUtc(call.argument, w)
    [] call.method = "SetUsingNtp" -> SetUsingNtp(call.argument, w)
    [] OTHER -> {Result(w, "done")}

-----------------------------------------------------------------------------
\* A call is made, and starts the service if it does not run.
Invoke(c) ==
  /\ made < MaxCalls /\ made' = made + 1
  /\ calls' = Append(calls, c)
  /\ running' = TRUE /\ age' = IF running THEN age ELSE 0
  /\ UNCHANGED <<machine, world, told>>

\* What callers may rely on: the last promise, until a call on the same matter
\* fails or, for the clock, NTP takes it over.
Promise(call, answer) ==
  LET Kept(matter, methods, is) ==
        IF call.method \notin methods \/ answer = "refused" THEN told[matter]
        ELSE IF answer = "error" THEN None
        ELSE IF call.argument = Outside THEN told[matter] ELSE is
  IN [zone |-> Kept("zone", {"SetTimezone"}, call.argument),
      utc |-> Kept("utc", {"SetHardwareClockUsingUtc"}, call.argument),
      ntp |-> Kept("ntp", {"SetUsingNtp"}, call.argument),
      clock |-> IF call.method = "SetUsingNtp" THEN None ELSE Kept("clock", {"SetTime", "SetDate"}, "set")]

\* The service takes a call.  PolicyKit may ask the user, for longer than the
\* kill timer runs.
Serve ==
  /\ calls # <<>>
  /\ LET call == Head(calls)
         refused == IF call.method \in Free THEN {} ELSE {Result(world, "refused")}
     IN /\ \E r \in refused \cup Results(call, world) : world' = r.world /\ told' = Promise(call, r.answer)
        /\ \E waited \in {0, Kill} :
             age' = IF waited = Kill THEN Kill ELSE IF call.method \in Resetting THEN 0 ELSE age
  /\ calls' = Tail(calls)
  /\ UNCHANGED <<machine, running, made>>

\* Time passes while the service is idle.
Tick ==
  /\ running /\ calls = <<>> /\ age < Kill /\ age' = age + 1
  /\ UNCHANGED <<machine, running, calls, made, world, told>>

\* do_exit: calls that wait are lost.
Exit ==
  /\ running /\ age = Kill
  /\ running' = FALSE /\ calls' = <<>>
  /\ UNCHANGED <<machine, made, age, world, told>>

Next == (\E c \in Call : Invoke(c)) \/ Serve \/ Tick \/ Exit

Spec == Init /\ [][Next]_vars

-----------------------------------------------------------------------------
\* The variables have their types, and a call waits only for a process that
\* runs.
TypeOK ==
  /\ calls \in Seq(Call) /\ made \in 0 .. MaxCalls /\ age \in 0 .. Kill
  /\ calls # <<>> => running
  /\ DOMAIN world.config = ToSet(Files)

\* Whatever tools and writes failed in between, the last promise of the service
\* is kept: the zone it was told to set is the one it finds later (or one of the
\* same data, where nothing but the data names it), unless its own check of
\* names refuses it (system-timezone.c:710-725); the hardware clock is in step
\* with the time that was set; hardware clock and NTP are as they were wanted.
\* With ToolsFail the last is false: the exit codes are not looked at
\* (csd-datetime-mechanism-debian.c:148-170).
PromisesKept ==
  /\ told.zone \in Zone \ Odd =>
       Find(world) = told.zone \/ (Find(world) = Twin[told.zone] /\ \A f \in ToSet(Files) : world.config[f] = None)
  /\ "hwclock" \in machine.tools => (told.clock = "set" => world.inStep)
  /\ "hwclock" \in machine.tools => (told.utc # None => world.utc = told.utc)
  /\ told.ntp # None =>
       /\ "ntpd" \in machine.tools => world.ntpd = told.ntp /\ world.started = told.ntp
       /\ machine.distribution = "debian" /\ "ntpdate" \in machine.tools => world.ntpdate = told.ntp
=============================================================================
