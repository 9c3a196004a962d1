----------------------------- MODULE ColorDevices ----------------------------
(***************************************************************************)
(* csd-color-manager.c: a device of colord for each connected output, and  *)
(* the default profile of each device loaded into the gamma tables of its  *)
(* output and into the screen's _ICC_PROFILE.  All calls to colord are     *)
(* asynchronous; calls, replies and signals keep their order.  colord and  *)
(* the X server are external.                                              *)
(***************************************************************************)
EXTENDS Naturals, Sequences, FiniteSets, SequencesExt

CONSTANTS
  Output, Profile,
  NoProfile,     \* linear gamma tables
  MaxChanges,    \* bound on what happens to outputs, defaults and the session
  Flaps          \* an output may be replugged before its removal is dealt with

VARIABLES
  connected, primary,   \* the X server
  changed,              \* it has news
  screen,               \* priv->x11_screen: the outputs known to be connected, and the primary one
  devices, default,     \* colord
  calls,                \* requests to colord
  news,                 \* its replies and signals
  device_assign_hash,
  gamma, icc,           \* what is loaded
  changes

x == <<connected, primary>>
colord == <<devices, default>>
vars == <<x, changed, screen, colord, calls, news, device_assign_hash, gamma, icc, changes>>

Message(is, o, why) == [is |-> is, output |-> o, why |-> why]

\* gcm_session_client_connect_cb has run: the outputs are being added.
Init ==
  /\ connected \in SUBSET Output /\ primary \in Output
  /\ changed = FALSE /\ screen = [outputs |-> connected, primary |-> primary]
  /\ devices = {} /\ default \in [Output -> Profile \cup {NoProfile}]
  /\ calls = [i \in 1 .. Cardinality(connected) |-> Message("create", SetToSeq(connected)[i], "none")]
             \o <<Message("list", primary, "none")>>
  /\ news = <<>> /\ device_assign_hash = {}
  /\ gamma = [o \in Output |-> NoProfile] /\ icc = NoProfile
  /\ changes = 0

Change == changes < MaxChanges /\ changes' = changes + 1

-----------------------------------------------------------------------------
(* The outputs, the user and colord.                                       *)
Removing(o) == \E m \in ToSet(calls) \cup ToSet(news) : m.output = o /\ m.why \in {"remove", "delete"}

\* New crtcs have linear tables.
PlugOrUnplug(o) ==
  /\ Change /\ (Flaps \/ (~changed /\ ~Removing(o)))
  /\ connected' = IF o \in connected THEN connected \ {o} ELSE connected \cup {o}
  /\ changed' = TRUE /\ gamma' = [gamma EXCEPT ![o] = NoProfile]
  /\ UNCHANGED <<primary, screen, colord, calls, news, device_assign_hash, icc>>

SetPrimary(o) ==
  /\ Change /\ primary' = o /\ changed' = TRUE
  /\ \E r \in SUBSET connected : gamma' = [p \in Output |-> IF p \in r THEN NoProfile ELSE gamma[p]]
  /\ UNCHANGED <<connected, screen, colord, calls, news, device_assign_hash, icc>>

SetDefault(o, p) ==
  /\ Change /\ o \in devices /\ default[o] # p
  /\ default' = [default EXCEPT ![o] = p]
  /\ news' = Append(news, Message("changed", o, "none"))
  /\ UNCHANGED <<x, changed, screen, devices, calls, device_assign_hash, gamma, icc>>

\* The replies; one to a connect holds the device's default profile, or tells
\* that there is no such device.
Serve ==
  /\ calls # <<>> /\ calls' = Tail(calls)
  /\ LET c == Head(calls)
         o == c.output
     IN /\ devices' = CASE c.is = "create" -> devices \cup {o}
                        [] c.is = "delete" -> devices \ {o}
                        [] OTHER -> devices
        /\ news' = news \o
             CASE c.is = "create" /\ o \notin devices -> <<Message("added", o, "none")>>
               [] c.is = "list" -> <<Message("devices", devices, "none")>>
               [] c.is = "find" -> IF o \in devices THEN <<Message("found", o, c.why)>> ELSE <<>>
               [] c.is = "device" -> <<Message("device", o, IF o \in devices THEN default[o] ELSE "gone")>>
               [] c.is = "profile" -> <<Message("profile", o, c.why)>>
               [] OTHER -> <<>>
  /\ UNCHANGED <<x, changed, screen, default, device_assign_hash, gamma, icc, changes>>

-----------------------------------------------------------------------------
(* The manager.                                                            *)
Handled == news # <<>> /\ news' = Tail(news)
Of(s, is, why) == LET q == SetToSeq(s) IN [i \in DOMAIN q |-> Message(is, q[i], why)]

\* gcm_session_device_assign for each of s: not if one is in progress.
Assign(s) ==
  /\ device_assign_hash' = device_assign_hash \cup s
  /\ calls' = calls \o Of(s \ device_assign_hash, "device", "none")

\* gnome_rr_screen tells of outputs that went and came, and that it changed:
\* cinnamon_rr_screen_output_removed_cb, _added_cb and _changed_cb.
ScreenChanged ==
  /\ changed /\ changed' = FALSE
  /\ screen' = [outputs |-> connected, primary |-> primary]
  /\ calls' = calls \o Of(screen.outputs \ connected, "find", "remove")
                    \o Of(connected \ screen.outputs, "create", "none")
                    \o Of(connected, "find", "gamma")
  /\ UNCHANGED <<x, colord, news, device_assign_hash, gamma, icc, changes>>

\* device-added, device-changed, and the list of devices that are there.
DeviceNews ==
  /\ Handled /\ Head(news).is \in {"added", "changed", "devices"}
  /\ Assign(IF Head(news).is = "devices" THEN Head(news).output ELSE {Head(news).output})
  /\ UNCHANGED <<x, changed, screen, colord, gamma, icc, changes>>

\* gcm_session_screen_removed_find_device_cb deletes the device, whoever has
\* come back meanwhile; gcm_session_profile_gamma_find_device_cb connects it.
DeviceFound ==
  /\ Handled /\ Head(news).is = "found"
  /\ calls' = Append(calls, Message(IF Head(news).why = "remove" THEN "delete" ELSE "device",
                                    Head(news).output, IF Head(news).why = "remove" THEN "delete" ELSE "none"))
  /\ UNCHANGED <<x, changed, screen, colord, device_assign_hash, gamma, icc, changes>>

\* Mutation: the device is in progress until its profile is loaded.
DeviceConnectedKeepsHash ==
  /\ Handled /\ Head(news).is = "device"
  /\ LET o == Head(news).output
         p == Head(news).why
         known == p # "gone" /\ o \in screen.outputs
     IN /\ icc' = IF known /\ p = NoProfile /\ screen.primary = o THEN NoProfile ELSE icc
        /\ gamma' = IF known /\ p = NoProfile /\ o \in connected THEN [gamma EXCEPT ![o] = NoProfile] ELSE gamma
        /\ calls' = IF known /\ p # NoProfile THEN Append(calls, Message("profile", o, p)) ELSE calls
        /\ device_assign_hash' = IF p = "gone" THEN device_assign_hash \ {o} ELSE device_assign_hash
  /\ UNCHANGED <<x, changed, screen, colord, changes>>

\* gcm_session_device_assign_connect_cb
DeviceConnected ==
  /\ Handled /\ Head(news).is = "device"
  /\ LET o == Head(news).output
         p == Head(news).why
         known == p # "gone" /\ o \in screen.outputs
     IN /\ icc' = IF known /\ p = NoProfile /\ screen.primary = o THEN NoProfile ELSE icc
        /\ gamma' = IF known /\ p = NoProfile /\ o \in connected THEN [gamma EXCEPT ![o] = NoProfile] ELSE gamma
        /\ calls' = IF known /\ p # NoProfile THEN Append(calls, Message("profile", o, p)) ELSE calls
        /\ device_assign_hash' = device_assign_hash \ {o}
  /\ UNCHANGED <<x, changed, screen, colord, changes>>

\* gcm_session_use_output_profile_for_screen, where one output is primary.
UsesScreenProfile(o) == screen.primary = o

\* gcm_session_device_assign_profile_connect_cb; an output without a crtc has
\* no tables.
ProfileConnected ==
  /\ Handled /\ Head(news).is = "profile"
  /\ LET o == Head(news).output
         p == Head(news).why
     IN /\ icc' = IF UsesScreenProfile(o) THEN p ELSE icc
        /\ gamma' = IF o \in connected THEN [gamma EXCEPT ![o] = p] ELSE gamma
  /\ UNCHANGED <<x, changed, screen, colord, calls, device_assign_hash, changes>>

\* gcm_session_active_changed_cb: back from another user's session, whose
\* profiles are loaded.
SessionActive ==
  /\ Change
  /\ calls' = Append(calls, Message("list", primary, "none"))
  /\ \E g \in [connected -> Profile \cup {NoProfile}] :
       gamma' = [o \in Output |-> IF o \in connected THEN g[o] ELSE gamma[o]]
  /\ UNCHANGED <<x, changed, screen, colord, news, device_assign_hash, icc>>

Next ==
  \/ \E o \in Output : PlugOrUnplug(o) \/ SetPrimary(o) \/ \E p \in Profile \cup {NoProfile} : SetDefault(o, p)
  \/ Serve \/ ScreenChanged \/ DeviceNews \/ DeviceFound \/ DeviceConnected \/ ProfileConnected
  \/ SessionActive

Spec == Init /\ [][Next]_vars

-----------------------------------------------------------------------------
(* Properties.                                                             *)
TypeOK ==
  /\ connected \cup screen.outputs \cup devices \cup device_assign_hash \subseteq Output
  /\ gamma \in [Output -> Profile \cup {NoProfile}]
  /\ changes \in 0 .. MaxChanges

Quiet == calls = <<>> /\ news = <<>> /\ ~changed

\* Once all is answered every connected output has a device, whose default
\* profile is the one its gamma tables hold, and the screen has that of the
\* primary output: no change was lost to "assign already in progress"
\* (csd-color-manager.c:1303-1323).  A replug that overtakes the removal leaves
\* an output without a device (known deviation).
ShowsDefaults ==
  Quiet =>
    /\ devices = connected
    /\ \A o \in connected : gamma[o] = default[o]
    /\ primary \in connected => icc = default[primary]
==============================================================================
