--------------------------- MODULE SettingsManager ---------------------------
(***************************************************************************)
(* The core of the daemon (cinnamon-settings-manager.c and -plugin-info.c):*)
(* the plugins that are found in the plugin directory, started in the      *)
(* order of their priorities, switched by their "active" settings while    *)
(* the main loop runs, and stopped when it ends.  GSettings, the session   *)
(* bus and its clients are external.                                       *)
(***************************************************************************)
EXTENDS Naturals

CONSTANTS
  Plugin,    \* the locations (module names) in the plugin directory
  Priority   \* of each plugin; a lower number means higher priority

ASSUME PriorityAssumption == Priority \in [Plugin -> Nat]

Phase == {"load", "activate", "main", "unload", "done"}
Signal == {"none", "PluginActivated", "PluginDeactivated"}

VARIABLES
  phase,       \* where main() is
  plugins,     \* priv->plugins, whose order is that of the priorities
  todo,        \* what the loop of the phase has still to visit
  enabled,     \* priv->enabled of each plugin
  active,      \* priv->active
  available,   \* priv->available
  object,      \* priv->plugin # NULL
  setting,     \* the "active" key of each plugin, in dconf
  pending,     \* plugins whose "changed" signal has not been dispatched
  connection,  \* priv->connection # NULL
  heard        \* the last signal a bus client received for each plugin

info == <<enabled, active, available, object>>
env == <<setting, pending, connection>>
vars == <<phase, plugins, todo, info, env, heard>>

-----------------------------------------------------------------------------
\* Mutation: the list is not sorted.
FirstUnsorted == todo

\* g_slist_sort by compare_priority, then g_slist_foreach: the plugins that
\* may come next; those of equal priority come in the directory's order.
First == {p \in todo : \A q \in todo : Priority[p] <= Priority[q]}

\* emit_signal sends one and the same name, whatever its parameter says.
EmitSignal(signal, p) ==
  heard' = IF connection THEN [heard EXCEPT ![p] = "PluginActivated"] ELSE heard

\* _activate_plugin, with the module loaded on the first activation.
Started(p) ==
  /\ active' = [active EXCEPT ![p] = TRUE]
  /\ object' = [object EXCEPT ![p] = TRUE]
  /\ EmitSignal("PluginActivated", p)
  /\ UNCHANGED <<enabled, available>>

\* Mutation: the module that cannot be loaded is not marked.
UnloadableUnmarked(p) == ~object[p] /\ UNCHANGED <<info, heard>>

\* load_plugin_module fails: the plugin is given up.
Unloadable(p) ==
  /\ ~object[p]
  /\ available' = [available EXCEPT ![p] = FALSE]
  /\ UNCHANGED <<enabled, active, object, heard>>

\* cinnamon_settings_plugin_info_activate.
Activate(p) ==
  IF available[p] /\ ~active[p]
  THEN Started(p) \/ Unloadable(p)
  ELSE UNCHANGED <<info, heard>>

\* cinnamon_settings_plugin_info_deactivate.
Deactivate(p) ==
  IF available[p] /\ active[p]
  THEN /\ EmitSignal("PluginDeactivated", p)
       /\ active' = [active EXCEPT ![p] = FALSE]
       /\ UNCHANGED <<enabled, available, object>>
  ELSE UNCHANGED <<info, heard>>

-----------------------------------------------------------------------------
Init ==
  /\ phase = "load"
  /\ plugins = {}
  /\ todo = Plugin
  /\ enabled = [p \in Plugin |-> FALSE]
  /\ active = [p \in Plugin |-> FALSE]
  /\ available = [p \in Plugin |-> TRUE]
  /\ object = [p \in Plugin |-> FALSE]
  /\ setting \in [Plugin -> BOOLEAN]
  /\ pending = {}
  /\ connection = FALSE
  /\ heard = [p \in Plugin |-> "none"]

\* _load_file, _set_settings_prefix; a bad file or an unknown schema is
\* passed over.
LoadFile(p) ==
  /\ phase = "load"
  /\ p \in todo
  /\ todo' = todo \ {p}
  /\ \/ /\ plugins' = plugins \cup {p}
        /\ enabled' = [enabled EXCEPT ![p] = setting[p]]
     \/ UNCHANGED <<plugins, enabled>>
  /\ UNCHANGED <<phase, active, available, object, env, heard>>

\* The end of _load_dir.
Sort ==
  /\ phase = "load"
  /\ todo = {}
  /\ phase' = "activate"
  /\ todo' = plugins
  /\ UNCHANGED <<plugins, info, env, heard>>

\* maybe_activate_plugin.
MaybeActivate(p) ==
  /\ phase = "activate"
  /\ p \in First
  /\ todo' = todo \ {p}
  /\ IF enabled[p] THEN Activate(p) ELSE UNCHANGED <<info, heard>>
  /\ UNCHANGED <<phase, plugins, env>>

\* main() enters gtk_main.
EnterMain ==
  /\ phase = "activate"
  /\ todo = {}
  /\ phase' = "main"
  /\ UNCHANGED <<plugins, todo, info, env, heard>>

\* on_bus_gotten: asked for before the plugins were loaded, but it is the
\* main loop that calls it.
OnBusGotten ==
  /\ phase = "main"
  /\ ~connection
  /\ connection' = TRUE
  /\ UNCHANGED <<phase, plugins, todo, info, setting, pending, heard>>

\* Anyone writes the key; a plugin that is loaded will be told.
SettingChanges(p) ==
  /\ phase # "done"
  /\ setting' = [setting EXCEPT ![p] = ~@]
  /\ pending' = pending \cup ({p} \cap plugins)
  /\ UNCHANGED <<phase, plugins, todo, info, connection, heard>>

\* Mutation: it looks at what was enabled when the plugin was loaded.
PluginEnabledCbCached(p) ==
  /\ phase = "main"
  /\ p \in pending
  /\ pending' = pending \ {p}
  /\ IF enabled[p] THEN Activate(p) ELSE Deactivate(p)
  /\ UNCHANGED <<phase, plugins, todo, setting, connection>>

\* plugin_enabled_cb.
PluginEnabledCb(p) ==
  /\ phase = "main"
  /\ p \in pending
  /\ pending' = pending \ {p}
  /\ IF setting[p] THEN Activate(p) ELSE Deactivate(p)
  /\ UNCHANGED <<phase, plugins, todo, setting, connection>>

\* gtk_main_quit (SIGTERM, the name was lost, the timed exit): main() drops
\* the manager, whose dispose stops it.
Quit ==
  /\ phase = "main"
  /\ phase' = "unload"
  /\ todo' = plugins
  /\ UNCHANGED <<plugins, info, env, heard>>

\* _unload_plugin; the plugin's GSettings goes with it.
UnloadPlugin(p) ==
  /\ phase = "unload"
  /\ p \in First
  /\ todo' = todo \ {p}
  /\ IF enabled[p] THEN Deactivate(p) ELSE UNCHANGED <<info, heard>>
  /\ pending' = pending \ {p}
  /\ UNCHANGED <<phase, plugins, setting, connection>>

\* The end of _unload_all.
Stopped ==
  /\ phase = "unload"
  /\ todo = {}
  /\ phase' = "done"
  /\ plugins' = {}
  /\ UNCHANGED <<todo, info, env, heard>>

Next ==
  \/ Sort \/ EnterMain \/ OnBusGotten \/ Quit \/ Stopped
  \/ \E p \in Plugin :
       \/ LoadFile(p) \/ MaybeActivate(p) \/ UnloadPlugin(p)
       \/ SettingChanges(p) \/ PluginEnabledCb(p)

Spec == Init /\ [][Next]_vars

\* The main loop dispatches what is pending.
FairSpec == Spec /\ \A p \in Plugin : WF_vars(PluginEnabledCb(p))

-----------------------------------------------------------------------------
\* The variables have their types; an active plugin is available and has its
\* object (plugin-info.c:393-437).
TypeOK ==
  /\ phase \in Phase
  /\ plugins \subseteq Plugin /\ todo \subseteq Plugin /\ pending \subseteq Plugin
  /\ enabled \in [Plugin -> BOOLEAN] /\ active \in [Plugin -> BOOLEAN]
  /\ available \in [Plugin -> BOOLEAN] /\ object \in [Plugin -> BOOLEAN]
  /\ setting \in [Plugin -> BOOLEAN] /\ connection \in BOOLEAN
  /\ heard \in [Plugin -> Signal]
  /\ \A p \in Plugin : active[p] => available[p] /\ object[p]

\* While the main loop runs, a plugin of which no change is pending is active
\* exactly if its setting says so and its module could be loaded: the value
\* read at load, the start-up pass and the changes add up, in whichever order
\* a key is written meanwhile (plugin-info.c:286-316, manager.c:91-105).
FollowsSetting ==
  phase = "main" =>
    \A p \in plugins \ pending : active[p] <=> setting[p] /\ available[p]

\* At start-up a plugin is not started before one of higher priority that is
\* to be started and can be (manager.c:295-306).
StartedInOrder ==
  [][\A p \in Plugin :
       phase = "activate" /\ ~active[p] /\ active'[p] =>
         \A q \in plugins :
           Priority[q] < Priority[p] /\ enabled[q] /\ available[q] => active[q]]_vars

\* A plugin that is loaded and stays switched on comes to run and stays so,
\* unless its module cannot be loaded (plugin-info.c:286-297).
SwitchedOnRuns ==
  \A p \in Plugin :
    <>[](phase = "main" /\ p \in plugins /\ setting[p]) => <>[](active[p] \/ ~available[p])

\* The introspection data announce PluginActivated and PluginDeactivated
\* (manager.c:53-58): a client that heard of a plugin knows whether it runs.
HeardIsSo ==
  \A p \in Plugin :
    /\ heard[p] = "PluginActivated" => active[p]
    /\ heard[p] = "PluginDeactivated" => ~active[p]

\* "Priority determines the order in which plugins are started and stopped"
\* (plugin-info.c:66): when the end of the daemon stops a plugin, those of
\* higher priority have been stopped.
StoppedInOrder ==
  [][\A p \in Plugin :
       phase = "unload" /\ active[p] /\ ~active'[p] =>
         \A q \in plugins : Priority[q] < Priority[p] => ~active[q]]_vars
=============================================================================
