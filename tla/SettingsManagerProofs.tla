------------------------ MODULE SettingsManagerProofs ------------------------
(***************************************************************************)
(* Theorems about SettingsManager, for any plugins and priorities.  What a *)
(* plugin does in the main loop depends on how far it got before: Followed *)
(* says, phase by phase, how the copy made at load, the start-up pass and  *)
(* the key that may have been written meanwhile stand to each other.       *)
(***************************************************************************)
EXTENDS SettingsManager, TLAPS

\* A plugin no change is pending for was loaded with what its key says.
LoadedAsSet == \A p \in plugins \ pending : enabled[p] = setting[p]

\* Nothing runs while files are loaded; the start-up pass has started what is
\* enabled and can be, as far as it got.
Loading == LoadedAsSet /\ todo \cap plugins = {} /\ \A p \in Plugin : ~active[p] /\ available[p]
Starting ==
  /\ LoadedAsSet /\ todo \subseteq plugins
  /\ \A p \in todo : ~active[p] /\ available[p]
  /\ \A p \in plugins \ todo : active[p] <=> enabled[p] /\ available[p]

Followed ==
  /\ phase = "load" => Loading
  /\ phase = "activate" => Starting
  /\ FollowsSetting

IInv == TypeOK /\ Followed

-----------------------------------------------------------------------------
(* What activating and deactivating do to the plugins.                     *)

\* Activation leaves every other plugin alone; the plugin is active then, or
\* its module could not be loaded.
LEMMA ActivateEffect ==
  ASSUME NEW p \in Plugin, TypeOK, Activate(p)
  PROVE  /\ active' \in [Plugin -> BOOLEAN] /\ available' \in [Plugin -> BOOLEAN]
         /\ object' \in [Plugin -> BOOLEAN] /\ heard' \in [Plugin -> Signal]
         /\ enabled' = enabled
         /\ \A q \in Plugin \ {p} : active'[q] = active[q] /\ available'[q] = available[q] /\ object'[q] = object[q]
         /\ active'[p] = available'[p]
         /\ active'[p] => object'[p]
<1>1. CASE ~(available[p] /\ ~active[p]) BY <1>1 DEF Activate, TypeOK, info
<1>2. CASE available[p] /\ ~active[p]
  <2>1. CASE Started(p) BY <1>2, <2>1 DEF Started, EmitSignal, TypeOK, Signal
  <2>2. CASE Unloadable(p) BY <1>2, <2>2 DEF Unloadable, TypeOK
  <2> QED BY <1>2, <2>1, <2>2 DEF Activate
<1> QED BY <1>1, <1>2

\* Deactivation leaves the plugin inactive and changes nothing else.
LEMMA DeactivateEffect ==
  ASSUME NEW p \in Plugin, TypeOK, Deactivate(p)
  PROVE  /\ active' \in [Plugin -> BOOLEAN] /\ heard' \in [Plugin -> Signal]
         /\ enabled' = enabled /\ available' = available /\ object' = object
         /\ \A q \in Plugin \ {p} : active'[q] = active[q]
         /\ ~active'[p]
<1>1. CASE ~(available[p] /\ active[p]) BY <1>1 DEF Deactivate, TypeOK, info
<1>2. CASE available[p] /\ active[p] BY <1>2 DEF Deactivate, EmitSignal, TypeOK, Signal
<1> QED BY <1>1, <1>2

-----------------------------------------------------------------------------
\* One step per action.
LEMMA IInvStep == IInv /\ [Next]_vars => IInv'
<1> SUFFICES ASSUME IInv, [Next]_vars PROVE IInv' OBVIOUS
<1> USE DEF IInv
<1>1. ASSUME NEW p \in Plugin, LoadFile(p) PROVE IInv'
  BY <1>1 DEF LoadFile, TypeOK, Phase, Followed, Loading, LoadedAsSet, FollowsSetting, env
<1>2. CASE Sort
  BY <1>2 DEF Sort, TypeOK, Phase, Followed, Loading, Starting, LoadedAsSet, FollowsSetting, info, env
<1>3. ASSUME NEW p \in Plugin, MaybeActivate(p) PROVE IInv'
  <2>0. phase = "activate" /\ phase' = phase /\ p \in todo /\ todo' = todo \ {p} /\ plugins' = plugins
        /\ setting' = setting /\ pending' = pending /\ connection' = connection
    BY <1>3 DEF MaybeActivate, First, env
  <2>1. CASE enabled[p]
    <3>1. Activate(p) BY <1>3, <2>1 DEF MaybeActivate
    <3>2. TypeOK' BY <2>0, <3>1, ActivateEffect DEF TypeOK
    <3>3. Starting' BY <2>0, <2>1, <3>1, ActivateEffect DEF Followed, Starting, LoadedAsSet, TypeOK
    <3> QED BY <2>0, <3>2, <3>3 DEF Followed, FollowsSetting
  <2>2. CASE ~enabled[p]
    <3>1. UNCHANGED <<enabled, active, available, object, heard>> BY <1>3, <2>2 DEF MaybeActivate, info
    <3> QED BY <2>0, <2>2, <3>1 DEF TypeOK, Followed, Starting, LoadedAsSet, FollowsSetting
  <2> QED BY <2>1, <2>2
<1>4. CASE EnterMain
  BY <1>4 DEF EnterMain, TypeOK, Phase, Followed, Starting, LoadedAsSet, FollowsSetting, info, env
<1>5. CASE OnBusGotten
  BY <1>5 DEF OnBusGotten, TypeOK, Followed, FollowsSetting, info
<1>6. ASSUME NEW p \in Plugin, SettingChanges(p) PROVE IInv'
  BY <1>6 DEF SettingChanges, TypeOK, Followed, Loading, Starting, LoadedAsSet, FollowsSetting, info
<1>7. ASSUME NEW p \in Plugin, PluginEnabledCb(p) PROVE IInv'
  <2>0. phase = "main" /\ phase' = phase /\ todo' = todo /\ plugins' = plugins
        /\ setting' = setting /\ connection' = connection /\ pending' = pending \ {p}
    BY <1>7 DEF PluginEnabledCb
  <2>1. CASE setting[p]
    <3>1. Activate(p) BY <1>7, <2>1 DEF PluginEnabledCb
    <3> QED BY <2>0, <2>1, <3>1, ActivateEffect DEF TypeOK, Followed, FollowsSetting
  <2>2. CASE ~setting[p]
    <3>1. Deactivate(p) BY <1>7, <2>2 DEF PluginEnabledCb
    <3> QED BY <2>0, <2>2, <3>1, DeactivateEffect DEF TypeOK, Followed, FollowsSetting
  <2> QED BY <2>1, <2>2
<1>8. CASE Quit
  BY <1>8 DEF Quit, TypeOK, Phase, Followed, FollowsSetting, info, env
<1>9. ASSUME NEW p \in Plugin, UnloadPlugin(p) PROVE IInv'
  <2>0. phase = "unload" /\ phase' = phase /\ todo' = todo \ {p} /\ plugins' = plugins
        /\ setting' = setting /\ connection' = connection /\ pending' = pending \ {p}
    BY <1>9 DEF UnloadPlugin
  <2>1. CASE enabled[p]
    BY <1>9, <2>0, <2>1, DeactivateEffect DEF UnloadPlugin, TypeOK, Followed, FollowsSetting
  <2>2. CASE ~enabled[p]
    BY <1>9, <2>0, <2>2 DEF UnloadPlugin, info, TypeOK, Followed, FollowsSetting
  <2> QED BY <2>1, <2>2
<1>10. CASE Stopped
  BY <1>10 DEF Stopped, TypeOK, Phase, Followed, FollowsSetting, info, env
<1>11. CASE UNCHANGED vars
  BY <1>11 DEF vars, info, env, TypeOK, Followed, Loading, Starting, LoadedAsSet, FollowsSetting
<1> QED BY <1>1, <1>2, <1>3, <1>4, <1>5, <1>6, <1>7, <1>8, <1>9, <1>10, <1>11 DEF Next

LEMMA IInvInit == Init => IInv
BY DEF Init, IInv, TypeOK, Phase, Signal, Followed, Loading, LoadedAsSet, FollowsSetting

LEMMA Inductive == Spec => []IInv
BY IInvInit, IInvStep, PTL DEF Spec

\* For any plugins and priorities the variables have their types, and a plugin
\* that is active is available and has its object (plugin-info.c:393-437).
THEOREM TypeCorrect == Spec => []TypeOK
<1>1. IInv => TypeOK BY DEF IInv
<1> QED BY <1>1, Inductive, PTL

\* In the main loop every plugin without a pending change is as its setting
\* says, unless its module cannot be loaded, whenever the keys were written
\* (plugin-info.c:286-316, manager.c:91-105).
THEOREM PluginsFollow == Spec => []FollowsSetting
<1>1. IInv => FollowsSetting BY DEF IInv, Followed
<1> QED BY <1>1, Inductive, PTL

\* A step of the start-up pass does so for the plugin it visits alone.
LEMMA VisitStarts ==
  ASSUME IInv, Next, phase = "activate", NEW p \in Plugin, ~active[p], active'[p]
  PROVE  MaybeActivate(p)
<1> USE DEF IInv
<1>1. ASSUME NEW r \in Plugin, MaybeActivate(r) PROVE r = p
  <2>1. CASE enabled[r] BY <1>1, <2>1, ActivateEffect DEF MaybeActivate
  <2>2. CASE ~enabled[r] BY <1>1, <2>2 DEF MaybeActivate, info
  <2> QED BY <2>1, <2>2
<1>2. ASSUME NEW r \in Plugin PROVE ~LoadFile(r) /\ ~PluginEnabledCb(r) /\ ~UnloadPlugin(r)
  BY DEF LoadFile, PluginEnabledCb, UnloadPlugin
<1>3. ASSUME NEW r \in Plugin, SettingChanges(r) PROVE FALSE BY <1>3 DEF SettingChanges, info
<1>4. ~Sort /\ ~OnBusGotten /\ ~Quit /\ ~Stopped BY DEF Sort, OnBusGotten, Quit, Stopped
<1>5. ~EnterMain BY DEF EnterMain, info
<1> QED BY <1>1, <1>2, <1>3, <1>4, <1>5 DEF Next

\* The start-up pass starts no plugin before one of higher priority that is to
\* run and can (manager.c:295-306).
THEOREM StartOrder == Spec => StartedInOrder
<1> DEFINE Ordered ==
  \A p \in Plugin :
    phase = "activate" /\ ~active[p] /\ active'[p] =>
      \A q \in plugins :
        Priority[q] < Priority[p] /\ enabled[q] /\ available[q] => active[q]
<1>1. IInv /\ [Next]_vars => [Ordered]_vars
  <2> SUFFICES ASSUME IInv, Next, NEW p \in Plugin, phase = "activate", ~active[p], active'[p],
                      NEW q \in plugins, Priority[q] < Priority[p], enabled[q], available[q]
               PROVE  active[q]
    OBVIOUS
  <2>1. q \in Plugin BY DEF IInv, TypeOK
  <2>2. p \in First BY VisitStarts DEF MaybeActivate
  <2>3. q \notin todo BY <2>1, <2>2, PriorityAssumption DEF First
  <2> QED BY <2>1, <2>3 DEF IInv, Followed, Starting
<1>2. []IInv /\ [][Next]_vars => [][Ordered]_vars BY <1>1, PTL
<1> QED BY <1>2, Inductive, PTL DEF StartedInOrder, Spec
==============================================================================
