------------------------------ MODULE XSettings ------------------------------
(***************************************************************************)
(* plugins/xsettings: GSettings, overrides, GTK modules and the state of   *)
(* the fonts, published as one property of a window.  A setting has two    *)
(* tiers, of which an override is the upper, and the serial of its last    *)
(* change; handlers change settings at once, and the property follows in   *)
(* an idle.  GSettings, files and clients are external.                    *)
(***************************************************************************)
EXTENDS Integers

CONSTANTS
  Translated,  \* settings that follow a key of GSettings
  Extra,       \* names that only overrides use
  Value,
  Unknown,     \* values of an override whose type is not accepted
  Unset,       \* no value
  MaxWrites    \* changes from outside, of any kind

Modules == "Gtk/Modules"
Stamp == "Fontconfig/Timestamp"
Overridable == Translated \cup Extra
Name == Overridable \cup {Modules, Stamp}

VARIABLES
  stage,      \* "running", "stopped" or "crashed"
  gsettings,  \* the keys: values, overrides, whether the module is enabled, disabled
  directory,  \* of the GTK modules: whether it has the module, and its time
  gtk,        \* CsdXSettingsGtk: the time and content it knows, and its answer
  fonts,      \* as they are and as they were loaded, the monitor and its timer
  missed,     \* whether a change of directory or fonts came when nobody could see it
  settings, serial, overrides, notify_idle_id,  \* the manager
  property,   \* of the window
  writes

vars == <<stage, gsettings, directory, gtk, fonts, missed, settings, serial, overrides,
          notify_idle_id, property, writes>>
published == <<settings, serial, overrides, notify_idle_id>>

-----------------------------------------------------------------------------
(* xsettings-common.c and xsettings-manager.c.                             *)

\* xsettings_setting_get: the uppermost tier that has a value.
Get(s) == IF s.upper # Unset THEN s.upper ELSE s.lower

\* xsettings_setting_set.
Set(s, new, at) == [new EXCEPT !.last_change = IF Get(new) # Get(s) THEN at ELSE @]
SetLower(s, v, at) == Set(s, [s EXCEPT !.lower = v], at)

SetUpper(s, v, at) == Set(s, [s EXCEPT !.upper = v], at)

\* xsettings_manager_set_overrides: those that are gone are unset, the new ones
\* set if their type is accepted.
Overridden(s, o) ==
  [n \in Name |->
     IF n \in Overridable /\ o[n] \in Value THEN SetUpper(s[n], o[n], serial)
     ELSE IF n \in Overridable /\ o[n] = Unset /\ overrides[n] # Unset THEN SetUpper(s[n], Unset, serial)
     ELSE s[n]]

\* xsettings_manager_notify.
Published == [serial |-> serial, settings |-> settings]

-----------------------------------------------------------------------------
(* csd-xsettings-gtk.c, with one module.                                   *)

\* update_gtk_modules: the modules of the directory and those enabled, without
\* those disabled.
Answer(dir) == IF (dir \/ gsettings.enabled) /\ ~gsettings.disabled THEN "module" ELSE "empty"

\* get_gtk_modules_from_dir: it looks only if the directory has a later time.
Look(d) == IF d.time > gtk.time THEN [time |-> d.time, dir |-> d.has] ELSE [time |-> gtk.time, dir |-> gtk.dir]

-----------------------------------------------------------------------------
\* cinnamon_xsettings_manager_start has run; its two idles wait.  The lists of
\* modules are empty, as by default.
Init ==
  /\ stage = "running"
  /\ gsettings \in [values : [Translated -> Value], override : [Overridable -> Value \cup {Unset}],
                    enabled : {FALSE}, disabled : {FALSE}]
  /\ directory \in [has : BOOLEAN, time : {1}]
  /\ gtk = [time |-> 1, dir |-> directory.has, modules |-> Answer(directory.has)]
  /\ fonts = [now |-> 0, loaded |-> 0, monitor |-> "idle", timer |-> FALSE]
  /\ missed = FALSE
  /\ serial = 0 /\ overrides = gsettings.override /\ notify_idle_id = TRUE
  /\ settings = [n \in Name |->
       [lower |-> CASE n \in Translated -> gsettings.values[n] [] n = Modules -> gtk.modules [] OTHER -> Unset,
        upper |-> IF n \in Overridable THEN gsettings.override[n] ELSE Unset, last_change |-> 0]]
  /\ property = [serial |-> -1, settings |-> [n \in Name |-> [lower |-> Unset, upper |-> Unset, last_change |-> -1]]]
  /\ writes = 0

Write == writes < MaxWrites /\ writes' = writes + 1

\* A key changes: xsettings_callback.
WriteValue(n, v) ==
  /\ Write /\ gsettings.values[n] # v /\ gsettings' = [gsettings EXCEPT !.values[n] = v]
  /\ IF stage = "running"
     THEN settings' = [settings EXCEPT ![n] = SetLower(@, v, serial)] /\ notify_idle_id' = TRUE
     ELSE UNCHANGED <<settings, notify_idle_id>>
  /\ UNCHANGED <<stage, directory, gtk, fonts, missed, serial, overrides, property>>

\* The key of the overrides changes: override_callback.
WriteOverride(n, v) ==
  /\ Write /\ gsettings.override[n] # v /\ gsettings' = [gsettings EXCEPT !.override[n] = v]
  /\ IF stage = "running"
     THEN /\ settings' = Overridden(settings, gsettings'.override)
          /\ overrides' = gsettings'.override /\ notify_idle_id' = TRUE
     ELSE UNCHANGED <<settings, overrides, notify_idle_id>>
  /\ UNCHANGED <<stage, directory, gtk, fonts, missed, serial, property>>

\* The lists of modules change: plugin_callback leaves them to CsdXSettingsGtk,
\* which does not listen.
WriteModules(key) ==
  /\ Write /\ gsettings' = [gsettings EXCEPT ![key] = ~@]
  /\ UNCHANGED <<stage, directory, gtk, fonts, missed, property, published>>

\* The directory changes, maybe within the second of its last change:
\* gtk_modules_dir_changed_cb, and gtk_modules_callback if the answer is another.
ChangeDirectory(later) ==
  /\ Write /\ directory' = [has |-> ~directory.has, time |-> directory.time + later]
  /\ IF stage = "running"
     THEN LET known == Look(directory')
              modules == Answer(known.dir)
              changed == modules # gtk.modules
          IN /\ gtk' = [time |-> known.time, dir |-> known.dir, modules |-> modules]
             /\ settings' = IF changed THEN [settings EXCEPT ![Modules] = SetLower(@, modules, serial)] ELSE settings
             /\ notify_idle_id' = (notify_idle_id \/ changed)
             /\ missed' = (missed \/ known.dir # directory'.has)
     ELSE UNCHANGED <<gtk, settings, notify_idle_id, missed>>
  /\ UNCHANGED <<stage, gsettings, fonts, serial, overrides, property>>

\* A font comes or goes: stuff_changed, if the monitor is up.
ChangeFonts ==
  /\ Write
  /\ fonts' = [fonts EXCEPT !.now = @ + 1, !.timer = @ \/ fonts.monitor = "on"]
  /\ missed' = (missed \/ fonts.monitor # "on")
  /\ UNCHANGED <<stage, gsettings, directory, gtk, property, published>>

\* start_fontconfig_monitor_idle_cb.
StartMonitor ==
  /\ fonts.monitor = "idle" /\ stage # "crashed"
  /\ fonts' = [fonts EXCEPT !.monitor = "on"]
  /\ UNCHANGED <<stage, gsettings, directory, gtk, missed, property, published, writes>>

\* update: the fonts have been quiet, and fontconfig_callback tells.
Update ==
  /\ fonts.timer /\ stage # "crashed"
  /\ fonts' = [fonts EXCEPT !.timer = FALSE, !.loaded = fonts.now]
  /\ LET changed == fonts.loaded # fonts.now
     IN IF stage = "stopped"
        THEN /\ stage' = IF changed THEN "crashed" ELSE stage
             /\ UNCHANGED published
        ELSE /\ settings' = IF changed THEN [settings EXCEPT ![Stamp] = SetLower(@, fonts.now, serial)] ELSE settings
             /\ notify_idle_id' = (notify_idle_id \/ changed)
             /\ UNCHANGED <<stage, serial, overrides>>
  /\ UNCHANGED <<gsettings, directory, gtk, missed, property, writes>>

\* notify_idle, which looks at managers that are gone after a stop.
NotifyIdle ==
  /\ notify_idle_id /\ stage # "crashed"
  /\ IF stage = "stopped"
     THEN stage' = "crashed" /\ UNCHANGED <<serial, notify_idle_id, property>>
     ELSE /\ property' = Published /\ serial' = serial + 1 /\ notify_idle_id' = FALSE
          /\ UNCHANGED stage
  /\ UNCHANGED <<gsettings, directory, gtk, fonts, missed, settings, overrides, writes>>

\* cinnamon_xsettings_manager_stop: the idles stay.
Stop ==
  /\ stage = "running" /\ stage' = "stopped"
  /\ fonts' = IF fonts.monitor = "on" THEN [fonts EXCEPT !.monitor = "off", !.timer = FALSE] ELSE fonts
  /\ UNCHANGED <<gsettings, directory, gtk, missed, property, published, writes>>

Next ==
  \/ \E n \in Translated, v \in Value : WriteValue(n, v)
  \/ \E n \in Overridable, v \in Value \cup Unknown \cup {Unset} : WriteOverride(n, v)
  \/ \E key \in {"enabled", "disabled"} : WriteModules(key)
  \/ \E later \in {0, 1} : ChangeDirectory(later)
  \/ ChangeFonts \/ StartMonitor \/ Update \/ NotifyIdle \/ Stop

Spec == Init /\ [][Next]_vars

-----------------------------------------------------------------------------
TypeOK ==
  /\ stage \in {"running", "stopped", "crashed"} /\ writes \in 0 .. MaxWrites
  /\ fonts.timer => fonts.monitor = "on"
  /\ property.serial = serial - 1
  /\ \A n \in Name : settings[n].last_change <= serial

\* What a client can see: a running manager that has nothing left to publish
\* has published what GSettings, the accepted overrides, the modules and the
\* fonts are (an override of a type that is not accepted leaves the one before
\* in force, a known deviation); and a setting that reads differently from the
\* published one is stamped with a later serial, so a client that compares
\* serials misses nothing.
Agrees ==
  stage = "running" =>
    /\ \A n \in Translated : settings[n].lower = gsettings.values[n]
    /\ \A n \in Overridable :
         gsettings.override[n] \in Value \cup {Unset} => settings[n].upper = gsettings.override[n]
    /\ settings[Modules].lower = gtk.modules
    /\ fonts.monitor = "on" /\ ~fonts.timer /\ ~missed => fonts.loaded = fonts.now
    /\ fonts.loaded > 0 => settings[Stamp].lower = fonts.loaded
    /\ ~notify_idle_id => \A n \in Name : Get(property.settings[n]) = Get(settings[n])
    /\ \A n \in Name : Get(property.settings[n]) # Get(settings[n]) => settings[n].last_change > property.serial

\* "Do nothing, as CsdXsettingsGtk will handle it" (csd-xsettings-manager.c:708):
\* it does not, so a module that is enabled or disabled waits for the next start.
ModulesFollow == stage = "running" /\ ~missed => gtk.modules = Answer(directory.has)

\* No idle runs on a manager that was stopped: refuted, stop removes neither.
NoLateIdle == stage # "crashed"
=============================================================================
