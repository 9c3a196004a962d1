---------------------------- MODULE ServiceParts -----------------------------
(***************************************************************************)
(* Seven parts that serve the session and share no state: smart cards      *)
(* (Smartcard), low disk space (DiskSpace), the thumbnail cache            *)
(* (Thumbnails), print notifications (PrintSubscription), the players that *)
(* get the media keys (MprisNames, MediaPlayers) and the clipboard         *)
(* (Clipboard).  A behaviour is one of any of them, the others stay where  *)
(* they start.                                                             *)
(***************************************************************************)
EXTENDS Smartcard, FiniteSets, Integers

CONSTANTS
  Fstab, Nothing, FreeLevels, LowFree, MinPeriod,                \* DiskSpace
  Name, Sizes, MaxDays, Limit, Megabyte, Width,                  \* Thumbnails
  Lease, Renew, Test, MaxIds, MaxTimers, Scenarios,              \* PrintSubscription
  Player, Nobody, MaxWaiting, ProxyFails,                        \* MprisNames
  Application, Client, NoOne, Wrap, MaxWatches, MaxNews, Shares, \* MediaPlayers
  App, Target, Long, Manager, MaxTime, MaxEvents, Refusing, Overlaps  \* Clipboard

\* A lease is longer than the interval in which it is renewed.
ASSUME LeaseAssumption ==
  /\ {Lease, Renew, Test} \subseteq Nat /\ Renew < Lease
  /\ MaxIds \in Nat \ {0} /\ MaxTimers \in Nat \ {0}
\* The print servers that are looked at: one behind a local socket is there
\* before the manager, one that is tried first has printers and a manager that
\* stays; and no manager is stopped before its start idle has run.  What the code
\* does in the others is modelled, but breaks the property (known deviations of
\* PrintSubscription).
ASSUME ScenariosAssumption ==
  \A s \in Scenarios :
    /\ "hasty" \notin s
    /\ IF "remote" \in s THEN s \cap {"no printers", "restart"} = {} ELSE "late" \notin s
\* There are finitely many players, and nobody is none of them.
ASSUME PlayerAssumption == IsFiniteSet(Player) /\ Player # {} /\ Nobody \notin Player
\* There are finitely many targets, some of them long, and the windows that own
\* a clipboard differ.
ASSUME ClipboardAssumption ==
  /\ IsFiniteSet(Target) /\ Long \subseteq Target
  /\ NoOne \notin App /\ Manager \notin App /\ NoOne # Manager
\* Watches are numbered and times come round.
ASSUME WatchAssumption == MaxWatches \in Nat /\ Wrap \in Nat \ {0}

VARIABLES
  part,                                                       \* the part that moves
  free, mounted, mounts_changed, notified, notice, rest,      \* DiskSpace
  inside, ignoring, ignore_paths, told, dialogs,
  today, files, maximum_age, maximum_size, changed, purging,  \* Thumbnails
  short_term_cb, long_term_cb,
  may, up, printers, leases, next_id, running, idles, dests,   \* PrintSubscription
  subscription_id, tests, cups_connection_timeout_id, renewals, connecting,
  live, sent, inbox, matching, watching, names,               \* MprisNames
  mpris_client_proxy, trying, other_players, slipped,
  clients, grabs, media_players, watched, vanishing, made, latest,  \* MediaPlayers
  alive, owner, now, asked, written, sending, pasting, events,      \* Clipboard
  manages, heap, contents, conversions, requestor, time

cardVars == vars
diskVars == <<free, mounted, mounts_changed, notified, notice, rest, inside, ignoring,
              ignore_paths, told, dialogs>>
thumbVars == <<today, files, maximum_age, maximum_size, changed, purging, short_term_cb, long_term_cb>>
printVars == <<may, up, printers, leases, next_id, running, idles, dests, subscription_id, tests,
               cups_connection_timeout_id, renewals, connecting>>
mprisVars == <<live, sent, inbox, matching, watching, names, mpris_client_proxy, trying,
               other_players, slipped>>
mediaVars == <<clients, grabs, media_players, watched, vanishing, made, latest>>
clipVars == <<alive, owner, now, asked, written, sending, pasting, events, manages, heap,
              contents, conversions, requestor, time>>
allVars == <<part, cardVars, diskVars, thumbVars, printVars, mprisVars, mediaVars, clipVars>>

Disks == INSTANCE DiskSpace WITH Free <- FreeLevels
\* Space is counted, and some level is enough.
ASSUME DiskAssumption ==
  /\ Fstab \in Seq(Disks!Mount) /\ Nothing \notin Disks!Mount /\ MinPeriod \in Nat
  /\ FreeLevels \subseteq Nat /\ LowFree \in Nat /\ \E f \in FreeLevels : f > LowFree
Thumbs == INSTANCE Thumbnails WITH now <- today, running <- purging, MaxTime <- MaxDays
\* There are finitely many thumbnails; sizes and limits are integers.
ASSUME ThumbnailAssumption ==
  /\ IsFiniteSet(Name) /\ Sizes \subseteq Nat /\ MaxDays \in Nat
  /\ Limit \subseteq Int /\ Megabyte \in Nat \ {0} /\ Width \in Nat \ {0}
Cups == INSTANCE PrintSubscription
Mpris == INSTANCE MprisNames WITH connecting <- trying
Media == INSTANCE MediaPlayers
Clip == INSTANCE Clipboard

-----------------------------------------------------------------------------
\* Every part has one initial state in which it waits for its turn.
Waits(name, Rest) == part # name => Rest

AllInit ==
  /\ part \in {"card", "disks", "thumbnails", "print", "mpris", "media", "clipboard"}
  /\ Init /\ Disks!Init /\ Thumbs!Init /\ Cups!Init /\ Mpris!Init /\ Media!Init /\ Clip!Init
  /\ Waits("card", ~present)
  /\ Waits("disks", ~dialogs)
  /\ Waits("thumbnails", maximum_age = 0 /\ maximum_size = 0)
  /\ Waits("print", may = {})
  /\ Waits("mpris", live = {})

AllNext ==
  /\ UNCHANGED part
  /\ \/ /\ part = "card" /\ Next
        /\ UNCHANGED <<diskVars, thumbVars, printVars, mprisVars, mediaVars, clipVars>>
     \/ /\ part = "disks" /\ Disks!Next
        /\ UNCHANGED <<cardVars, thumbVars, printVars, mprisVars, mediaVars, clipVars>>
     \/ /\ part = "thumbnails" /\ Thumbs!Next
        /\ UNCHANGED <<cardVars, diskVars, printVars, mprisVars, mediaVars, clipVars>>
     \/ /\ part = "print" /\ Cups!Next
        /\ UNCHANGED <<cardVars, diskVars, thumbVars, mprisVars, mediaVars, clipVars>>
     \/ /\ part = "mpris" /\ Mpris!Next
        /\ UNCHANGED <<cardVars, diskVars, thumbVars, printVars, mediaVars, clipVars>>
     \/ /\ part = "media" /\ Media!Next
        /\ UNCHANGED <<cardVars, diskVars, thumbVars, printVars, mprisVars, clipVars>>
     \/ /\ part = "clipboard" /\ Clip!Next
        /\ UNCHANGED <<cardVars, diskVars, thumbVars, printVars, mprisVars, mediaVars>>

AllSpec == AllInit /\ [][AllNext]_allVars

-----------------------------------------------------------------------------
(* Properties.  KnowsCard and RemovalsPaired are those of Smartcard.       *)

\* The variables of the parts have their types: the watches are those of the
\* entries, addresses point into the heap.
PartsTypeOK ==
  TypeOK /\ Disks!TypeOK /\ Thumbs!TypeOK /\ Cups!TypeOK /\ Mpris!TypeOK /\ Media!TypeOK /\ Clip!TypeOK

\* A mount that stays low is not brought up again before the period is over and
\* more space is lost, however checks, mounts and answers interleave
\* (csd-disk-space.c:495-559); and a purge of the thumbnails leaves what the
\* limits allow and takes nothing newer or more than it must
\* (csd-housekeeping-manager.c:203-243).
HousekeepingKeeps == Disks!NotNagging /\ Thumbs!PurgeFits

\* The print server sends its events once, and to a running manager only, and
\* the subscription is renewed before its lease is over by one timer
\* (csd-print-notifications-manager.c:881-1036).
StaysSubscribed == Cups!StaysSubscribed

\* A media key reaches a player that is there: by MPRIS one that lives, with
\* the players' own calls the application that registered last, and none that
\* has left the bus (mpris-controller.c, csd-media-keys-manager.c:1003-1184).
MediaKeysArrive == Mpris!KeysReachPlayer /\ Media!NoGhosts /\ Media!LastRegisteredReceives

\* A paste that is being sent keeps its data until it is over, nothing is kept
\* that nobody holds, and a request to save is refused only while another is
\* under way or the clipboard is owned (csd-clipboard-manager.c:98-128,
\* :406-492).
ClipboardKept == Clip!PastesKept /\ Clip!RefusedWhenBusy
=============================================================================
