----------------------------- MODULE SmallParts ------------------------------
(***************************************************************************)
(* Nine parts that share no state: the idle modes of the screen            *)
(* (PowerIdle), the automounter (Automount), the state of the session      *)
(* (SettingsSession), the battery notification (PowerNotice), the daemon's *)
(* names on the bus (DaemonNames), the accessibility of the keyboard       *)
(* (A11yKeyboard), the date and time service (DatetimeMechanism), the      *)
(* touchpads and their helper (Mouse) and the published settings           *)
(* (XSettings).  A behaviour is one of any of them, the others stay where  *)
(* they start.                                                             *)
(***************************************************************************)
EXTENDS PowerIdle, Sequences, FiniteSets

CONSTANTS
  Volume, MaxMessages, MaxProxies,  \* Automount
  Modes, CallsFail, MaxSignals,     \* SettingsSession
  MaxNotices,                       \* PowerNotice
  Daemon, Foreign,                  \* DaemonNames
  Delays, MaxDelay, MaxKeys, MaxQuestions,  \* A11yKeyboard
  Zone, Odd, Twin, Files, Outside, Missing, Kill, MaxCalls, ToolsFail,  \* DatetimeMechanism
  Pad, Custom, Lingers, MaxEvents, MaxHelpers,                         \* Mouse
  Translated, Extra, Value, Unknown, Unset, MaxWrites                  \* XSettings

\* The other program that owns GSD_DBUS_NAME is none of the daemons.
ASSUME ForeignAssumption == Foreign \notin Daemon

\* There are finitely many touchpads.
ASSUME PadAssumption == IsFiniteSet(Pad)

\* No key of GSettings is translated to the settings of the modules and fonts.
ASSUME TranslatedAssumption == {"Gtk/Modules", "Fontconfig/Timestamp"} \cap Translated = {}

\* What is no name of a zone, and the arguments that are none.
ASSUME ZonesAssumption ==
  /\ {"none", Outside, Missing} \cap Zone = {} /\ Outside # Missing
  /\ Outside \notin {"none", "yes", "no"}
\* The configuration files are read in some order.
ASSUME FilesAssumption == Files \in Seq({Files[i] : i \in DOMAIN Files})
\* Bounds are numbers.
ASSUME CountsAssumption == {Kill, MaxCalls, MaxEvents, MaxHelpers, MaxWrites} \subseteq Nat

VARIABLES
  part,                                                             \* the part that moves
  plugged, asked_to_mount, volume_queue, session_is_active,         \* Automount
  screensaver_active, idle, owner, locked, inbox, making, ss_proxy, connected, asking,
  source, isActive, state, at, readable, missed, asked, messages,   \* SettingsSession
  made, current, objects, shown, closing,                           \* PowerNotice
  main_stage, names_asked, name_queue, bus_messages,                \* DaemonNames
  ignore_name_lost, handler, registered,
  stage, settings, controls, changed, keys, doing, desc,            \* A11yKeyboard
  shortcut_val, question, living, visible, closed, alerts, questions, slipped,
  machine, running, calls, called, age, world, told,                \* DatetimeMechanism
  started, pads, on, known, events, enabled, typing, blacklist,     \* Mouse
  helpers, last, syndaemon, dead,
  manager, gsettings, directory, gtk, fonts, unseen, published,     \* XSettings
  serial, overrides, notify_idle_id, property, writes

screenVars == vars
mountVars == <<plugged, asked_to_mount, volume_queue, session_is_active, screensaver_active,
               idle, owner, locked, inbox, making, ss_proxy, connected, asking>>
sessionVars == <<source, isActive, state, at, readable, missed, asked, messages>>
noticeVars == <<made, current, objects, shown, closing>>
nameVars == <<main_stage, names_asked, name_queue, bus_messages, ignore_name_lost, handler, registered>>
accessVars == <<stage, settings, controls, changed, keys, doing, desc, shortcut_val, question,
                living, visible, closed, alerts, questions, slipped>>
timeVars == <<machine, running, calls, called, age, world, told>>
mouseVars == <<started, pads, on, known, events, enabled, typing, blacklist, helpers, last, syndaemon, dead>>
xsettingsVars == <<manager, gsettings, directory, gtk, fonts, unseen, published, serial, overrides,
                   notify_idle_id, property, writes>>
allVars == <<part, screenVars, mountVars, sessionVars, noticeVars, nameVars, accessVars, timeVars, mouseVars,
             xsettingsVars>>

Mounter == INSTANCE Automount
Session == INSTANCE SettingsSession WITH mode <- source, inbox <- messages, MaxMessages <- MaxSignals
Notification == INSTANCE PowerNotice WITH alive <- objects
Names == INSTANCE DaemonNames WITH stage <- main_stage, asked <- names_asked,
                                   queue <- name_queue, inbox <- bus_messages
Access == INSTANCE A11yKeyboard WITH notice <- question, made <- questions, missed <- slipped,
                                     MaxNotices <- MaxQuestions
Datetime == INSTANCE DatetimeMechanism WITH made <- called
Pointer == INSTANCE Mouse WITH plugged <- pads
Published == INSTANCE XSettings WITH stage <- manager, missed <- unseen, settings <- published

-----------------------------------------------------------------------------
\* Every part has one initial state in which it waits for its turn.
Waits(name, Rest) == part # name => Rest

AllInit ==
  /\ part \in {"screen", "automount", "session", "notice", "names", "access", "datetime", "mouse", "xsettings"}
  /\ Init /\ Waits("screen", user = Min /\ active /\ upsets = {})
  /\ Mounter!Init /\ Waits("automount", plugged = {} /\ ~owner /\ ~session_is_active)
  /\ Session!Init /\ Waits("session", source = "logind" /\ ~isActive)
  /\ Notification!Init
  /\ Names!Init /\ Waits("names", ~Names!Owns(Foreign, "GSD"))
  /\ Access!Init /\ Waits("access", settings.on = {})
  /\ Datetime!Init
  /\ Waits("datetime", /\ machine = [distribution |-> "other", tools |-> Datetime!Tools]
                        /\ world.localtime = [kind |-> "file", zone |-> CHOOSE z \in Zone : TRUE]
                        /\ \A f \in DOMAIN world.config : world.config[f] = Datetime!None)
  /\ Pointer!Init /\ Waits("mouse", pads = {} /\ ~enabled /\ ~typing)
  /\ Published!Init
  /\ Waits("xsettings", /\ \A n \in Translated : gsettings.values[n] = CHOOSE v \in Value : TRUE
                        /\ \A n \in DOMAIN gsettings.override : gsettings.override[n] = Unset
                        /\ directory.has)

AllNext ==
  /\ UNCHANGED part
  /\ \/ /\ part = "screen" /\ Next
        /\ UNCHANGED <<mountVars, sessionVars, noticeVars, nameVars, accessVars, timeVars, mouseVars,
                    xsettingsVars>>
     \/ /\ part = "automount" /\ Mounter!Next
        /\ UNCHANGED <<screenVars, sessionVars, noticeVars, nameVars, accessVars, timeVars, mouseVars,
                    xsettingsVars>>
     \/ /\ part = "session" /\ Session!Next
        /\ UNCHANGED <<screenVars, mountVars, noticeVars, nameVars, accessVars, timeVars, mouseVars,
                    xsettingsVars>>
     \/ /\ part = "notice" /\ Notification!Next
        /\ UNCHANGED <<screenVars, mountVars, sessionVars, nameVars, accessVars, timeVars, mouseVars,
                    xsettingsVars>>
     \/ /\ part = "names" /\ Names!Next
        /\ UNCHANGED <<screenVars, mountVars, sessionVars, noticeVars, accessVars, timeVars, mouseVars,
                    xsettingsVars>>
     \/ /\ part = "access" /\ Access!Next
        /\ UNCHANGED <<screenVars, mountVars, sessionVars, noticeVars, nameVars, timeVars, mouseVars,
                    xsettingsVars>>
     \/ /\ part = "datetime" /\ Datetime!Next
        /\ UNCHANGED <<screenVars, mountVars, sessionVars, noticeVars, nameVars, accessVars, mouseVars,
                    xsettingsVars>>
     \/ /\ part = "mouse" /\ Pointer!Next
        /\ UNCHANGED <<screenVars, mountVars, sessionVars, noticeVars, nameVars, accessVars, timeVars,
                    xsettingsVars>>
     \/ /\ part = "xsettings" /\ Published!Next
        /\ UNCHANGED <<screenVars, mountVars, sessionVars, noticeVars, nameVars, accessVars, timeVars,
                    mouseVars>>

AllSpec == AllInit /\ [][AllNext]_allVars

-----------------------------------------------------------------------------
(* Properties.  UserLevelKept and NormalIsVisible are those of PowerIdle.  *)

\* The variables of the parts have their types, with what the session
\* and the automounter need of them: one question at a time is under way, no
\* volume is queued twice.
PartsTypeOK == TypeOK /\ Mounter!TypeOK /\ Session!TypeOK /\ Names!TypeOK /\ Access!TypeOK /\ Datetime!TypeOK
               /\ Pointer!TypeOK /\ Published!TypeOK

\* A volume waits in the queue only while the screen is locked, and once all
\* news of the screensaver is dispatched the manager knows whether it is
\* (csd-automount-manager.c:160-395).
VolumesWaitForUnlock == Mounter!QueueWaits /\ Mounter!KnowsLock

\* Once all is dispatched the daemon knows whether its session is active: the
\* answer to IsActive and the signals around it leave no gap
\* (cinnamon-settings-session.c:242-312), and with logind only a switch
\* between the read and the flush does (:62-77).  A daemon that stays owns both
\* of its names, so that there is one of it; one that was told to stop owns
\* none, since "cinnamon-session will hang waiting for us" (main.c:84-86), and
\* one that ended waits for none.
DaemonSettled == Session!Agrees /\ Names!OneDaemon

\* The pointer to the battery notification never outlives its object, and an
\* object lives until its notification is closed and no longer, however
\* requests to close, signals of earlier notifications and failures to show
\* cross each other.
NoticeAccounted == Notification!NoDangling /\ Notification!AliveAccounted

\* Once every event and change is dispatched the X server has what the settings
\* say: the controls of the keyboard, however writes of the settings, shortcuts
\* of the keyboard and answers to the question about a shortcut cross each other
\* (csd-a11y-keyboard-manager.c:211-336, :766-920); the touchpads, which leave
\* the list of devices as they are switched off, with at most one helper
\* (csd-mouse-manager.c:565-625, :1126-1227); and the property of the settings,
\* with serials that hide no change from a client (xsettings-common.c:69-91).
SettingsReachServer == Access!Agrees /\ Pointer!Agrees /\ Published!Agrees

\* Whatever writes and tools failed in between, what the service for date and
\* time last promised is so: the zone it set is the one it finds, clock,
\* hardware clock and NTP are as they were wanted (csd-datetime-mechanism.c,
\* system-timezone.c:875-912).
PromisesKept == Datetime!PromisesKept
=============================================================================
