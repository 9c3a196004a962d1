------------------------------ MODULE Thumbnails -----------------------------
(***************************************************************************)
(* csd-housekeeping-manager.c: the thumbnail caches are purged once after  *)
(* start or a change of the settings, daily, and at a stop when a limit is *)
(* zero.  The limits are computed in the int of the settings, so they wrap *)
(* at Width.                                                               *)
(***************************************************************************)
EXTENDS Integers, Sequences, FiniteSets, SequencesExt

CONSTANTS
  Name,        \* thumbnails
  Sizes,       \* of a thumbnail
  MaxTime,     \* bound on the days
  Limit,       \* values of the settings maximum-age and maximum-size
  Megabyte,    \* the unit of maximum-size in that of Sizes
  Width        \* an int is -Width \div 2 .. Width \div 2 - 1

VARIABLES
  now, files,               \* mtime and size of each thumbnail
  maximum_age, maximum_size,
  changed,                  \* the settings' signal is not dispatched
  running, short_term_cb, long_term_cb

settings == <<maximum_age, maximum_size>>
timers == <<short_term_cb, long_term_cb>>
vars == <<now, files, settings, changed, running, timers>>

Init ==
  /\ now = 0 /\ files = {}
  /\ maximum_age \in Limit /\ maximum_size \in Limit
  /\ changed = FALSE /\ running = FALSE /\ short_term_cb = FALSE /\ long_term_cb = FALSE

-----------------------------------------------------------------------------
(* The world.                                                              *)
Write(n, s) ==
  /\ files' = {f \in files : f.name # n} \cup {[name |-> n, mtime |-> now, size |-> s]}
  /\ UNCHANGED <<now, settings, changed, running, timers>>
Day ==
  /\ now < MaxTime /\ now' = now + 1
  /\ UNCHANGED <<files, settings, changed, running, timers>>
Set(a, s) ==
  /\ maximum_age' = a /\ maximum_size' = s /\ changed' = running
  /\ UNCHANGED <<now, files, running, timers>>

-----------------------------------------------------------------------------
(* purge_thumbnail_cache                                                   *)
Wrapped(n) == ((n + Width \div 2) % Width) - Width \div 2
MaxAge == Wrapped(maximum_age)
MaxSize == Wrapped(maximum_size * Megabyte)

Old(f) == MaxAge >= 0 /\ now - f.mtime > MaxAge
Size(fs) == FoldLeft(LAMBDA n, f : n + f.size, 0, SetToSeq(fs))

\* The oldest go first; what was too old has gone and counts for nothing.
\* Without a limit on the age nothing was counted.
Purge(order) ==
  LET young == {f \in files : ~Old(f)}
      Scan(st, f) ==
        IF MaxSize >= 0 /\ st.total > MaxSize
          THEN [kept |-> st.kept \ {f}, total |-> st.total - (IF Old(f) THEN 0 ELSE f.size)] ELSE st
  IN FoldLeft(Scan, [kept |-> young, total |-> IF MaxAge >= 0 THEN Size(young) ELSE 0], order).kept

ByAge(order) == \A i, j \in DOMAIN order : i < j => order[i].mtime <= order[j].mtime
PurgeThumbnails == \E order \in {o \in SetToSeqs(files) : ByAge(o)} : files' = Purge(order)

DoCleanup ==
  /\ long_term_cb /\ PurgeThumbnails
  /\ UNCHANGED <<now, settings, changed, running, timers>>
DoCleanupOnce ==
  /\ short_term_cb /\ PurgeThumbnails
  /\ short_term_cb' = FALSE
  /\ UNCHANGED <<now, settings, changed, running, long_term_cb>>
SettingsChanged ==
  /\ changed /\ changed' = FALSE /\ short_term_cb' = TRUE
  /\ UNCHANGED <<now, files, settings, running, long_term_cb>>
Start ==
  /\ ~running /\ running' = TRUE /\ short_term_cb' = TRUE /\ long_term_cb' = TRUE
  /\ UNCHANGED <<now, files, settings, changed>>
\* A limit of zero is cleaned up to at once; the settings are let go.
Stop ==
  /\ running /\ running' = FALSE /\ short_term_cb' = FALSE /\ long_term_cb' = FALSE /\ changed' = FALSE
  /\ IF maximum_age = 0 \/ maximum_size = 0 THEN PurgeThumbnails ELSE UNCHANGED files
  /\ UNCHANGED <<now, settings>>

Next ==
  \/ \E n \in Name, s \in Sizes : Write(n, s)
  \/ \E a, s \in Limit : Set(a, s)
  \/ Day \/ DoCleanup \/ DoCleanupOnce \/ SettingsChanged \/ Start \/ Stop

Spec == Init /\ [][Next]_vars

-----------------------------------------------------------------------------
(* Properties.                                                             *)
TypeOK ==
  /\ {f.name : f \in files} \subseteq Name /\ Cardinality(files) <= Cardinality(Name)
  /\ maximum_age \in Limit /\ maximum_size \in Limit

\* A purge leaves nothing too old and no more than the limit of the size; what
\* else it takes is older than all it leaves and had to go
\* (csd-housekeeping-manager.c:203-243).  Where the limits do not fit an int, or
\* there is none on the age, it does not hold (known deviation).
Fits ==
  LET kept == files'
      young == {f \in files : now - f.mtime <= maximum_age}
      taken == young \ kept
  IN /\ kept \subseteq young
     /\ maximum_size < 0 => taken = {}
     /\ maximum_size >= 0 => Size(kept) <= maximum_size * Megabyte
     /\ \A f \in taken : \A g \in kept : f.mtime <= g.mtime
     /\ taken # {} => \E f \in taken : Size(kept) + f.size > maximum_size * Megabyte

PurgeFits == [][maximum_age >= 0 /\ (DoCleanup \/ DoCleanupOnce \/ (Stop /\ 0 \in {maximum_age, maximum_size})) => Fits]_vars
==============================================================================
