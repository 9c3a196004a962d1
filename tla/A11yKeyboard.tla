---------------------------- MODULE A11yKeyboard -----------------------------
(***************************************************************************)
(* csd-a11y-keyboard-manager.c: the accessibility controls of the X server *)
(* and the settings, each written from the other.  The user switches slow  *)
(* and sticky keys in the settings or by a shortcut that the server takes  *)
(* (Shift five times, or held); the server tells, the plugin reads the     *)
(* controls, writes the settings, and asks the user with a notification or *)
(* a dialog.  Server, settings' service and notifications are external.    *)
(***************************************************************************)
EXTENDS Naturals, Sequences, SequencesExt

CONSTANTS
  Delays,      \* the values of slowkeys-delay
  MaxDelay,    \* the longest that the plugin sets (500)
  MaxKeys,     \* bound on the server's events
  MaxNotices

Feature == {"sticky", "slow"}
Control == {"enable"} \cup Feature
None == [on |-> {}, delay |-> 0]

VARIABLES
  stage,         \* of the plugin: "off", "starting", "setting", "running"
  settings, controls, \* what is on, and the delay
  changed,       \* a "changed" signal of someone else's write is under way
  keys,          \* the server's events that were not dispatched
  doing, desc,   \* what the handler has read and is going to write
  shortcut_val,
  notice,        \* priv->notification, 0 for NULL
  living, visible, closed,  \* notifications: objects, shown ones, closed signals
  alerts,        \* slowkeys_alert, stickykeys_alert
  made,
  missed         \* history: a key that came before the server was listened to

vars == <<stage, settings, controls, changed, keys, doing, desc, shortcut_val,
          notice, living, visible, closed, alerts, made, missed>>
both == <<settings, controls>>
asks == <<shortcut_val, notice, living, visible, closed, alerts, made>>

Init ==
  /\ stage = "off" /\ changed = FALSE /\ keys = 0 /\ doing = "idle" /\ desc = None
  /\ settings \in [on : SUBSET Control, delay : Delays] /\ controls \in [on : {{}}, delay : Delays]
  /\ shortcut_val = [f \in Feature |-> FALSE] /\ notice = 0 /\ living = {} /\ visible = {}
  /\ closed = <<>> /\ alerts = {} /\ made = 0
  /\ missed = FALSE

-----------------------------------------------------------------------------
(* The others.                                                             *)

\* Another program writes one of the settings.
Flip(on, c) == IF c \in on THEN on \ {c} ELSE on \cup {c}
WriteSetting ==
  /\ \/ \E c \in Control : settings' = [settings EXCEPT !.on = Flip(@, c)]
     \/ \E d \in Delays \ {settings.delay} : settings' = [settings EXCEPT !.delay = d]
  /\ changed' = (stage \in {"setting", "running"})
  /\ UNCHANGED <<stage, controls, keys, doing, desc, asks, missed>>

\* A shortcut of the keyboard, or the end of the time without input, which
\* takes the master switch only.
Press(c) ==
  /\ keys < MaxKeys /\ "enable" \in controls.on
  /\ controls' = [controls EXCEPT !.on = Flip(@, c)]
  /\ keys' = IF stage = "running" THEN keys + 1 ELSE keys
  /\ missed' = (missed \/ stage = "setting")
  /\ UNCHANGED <<stage, settings, changed, doing, desc, asks>>

-----------------------------------------------------------------------------
(* The controls.                                                           *)

\* Mutation: what the settings do not have is left on.
ForServerOr(s, c) ==
  [on |-> s.on \cup c.on, delay |-> IF "slow" \notin s.on THEN c.delay ELSE IF s.delay > MaxDelay THEN MaxDelay ELSE s.delay]

\* set_server_from_gsettings: the delay is for slow keys that are on, and no
\* longer than the keyboard bears.
ForServer(s, c) ==
  [on |-> s.on, delay |-> IF "slow" \notin s.on THEN c.delay ELSE IF s.delay > MaxDelay THEN MaxDelay ELSE s.delay]

\* The settings are read; XkbSetControls follows.
Reads(s) == doing' = "set" /\ desc' = s
SetServer ==
  /\ doing = "set" /\ doing' = "idle" /\ desc' = None
  /\ controls' = ForServer(desc, controls)
  /\ UNCHANGED <<stage, settings, changed, keys, asks, missed>>

\* keyboard_callback
KeyboardCallback ==
  /\ doing = "idle" /\ changed /\ changed' = FALSE /\ missed' = FALSE
  /\ Reads(settings)
  /\ UNCHANGED <<stage, both, keys, asks>>

\* device_added_cb
KeyboardAdded ==
  /\ doing = "idle" /\ stage = "running" /\ Reads(settings)
  /\ UNCHANGED <<stage, both, changed, keys, asks, missed>>

\* cb_xkb_event_filter, set_gsettings_from_server: the controls are read.
XkbEvent ==
  /\ doing = "idle" /\ keys > 0 /\ keys' = keys - 1
  /\ doing' = "apply" /\ desc' = controls
  /\ missed' = FALSE
  /\ UNCHANGED <<stage, both, changed, asks>>

-----------------------------------------------------------------------------
(* The question.                                                           *)

\* notify_notification_close: if it is there, its signal comes.
Shown(ids) == {v \in visible : v.id \in ids}
Close(ids) == visible' = visible \ Shown(ids) /\ closed' = closed \o SetToSeq({v.id : v \in Shown(ids)})

\* ax_slowkeys_warning_post, ax_stickykeys_warning_post: a notification, if
\* there is an icon in the panel and it can be shown, else a dialog.
WarningPost(f, enabled) ==
  /\ shortcut_val' = [shortcut_val EXCEPT ![f] = enabled]
  /\ \/ /\ made < MaxNotices /\ made' = made + 1 /\ notice' = made + 1
        /\ living' = living \cup {made + 1}
        /\ closed' = closed \o SetToSeq({v.id : v \in Shown({notice})})
        /\ \/ /\ visible' = (visible \ Shown({notice})) \cup {[id |-> made + 1, of |-> f]}
              /\ alerts' = alerts \ {"slow"}
           \/ visible' = visible \ Shown({notice}) /\ alerts' = (alerts \ {"slow"}) \cup {f}  \* it is not shown
     \/ alerts' = alerts \cup {f} /\ UNCHANGED <<notice, living, visible, closed, made>>

\* The rest of set_gsettings_from_server: one of the two features has changed
\* and nothing else, so it was a shortcut.  The settings are applied at once,
\* and the plugin hears of its own write within the call.
ApplySettings ==
  /\ doing = "apply"
  /\ LET flips == (desc.on \ settings.on) \cup (settings.on \ desc.on)
     IN /\ IF \E f \in Feature : flips = {f} /\ desc.delay = settings.delay /\ "enable" \in desc.on
             THEN LET f == CHOOSE f \in Feature : f \in flips IN WarningPost(f, f \in desc.on)
             ELSE UNCHANGED asks
        /\ IF desc = settings THEN doing' = "idle" /\ desc' = None ELSE Reads(desc)
  /\ settings' = desc
  /\ UNCHANGED <<stage, controls, changed, keys, missed>>

\* ax_response_callback: "reject" takes the shortcut back; after stop there are
\* no settings, and all of them read FALSE.
Response(f, answer) ==
  IF answer = "reject"
    THEN IF stage = "off"
           THEN settings' = settings /\ Reads([settings EXCEPT !.on = {}])
           ELSE /\ settings' = [settings EXCEPT !.on = IF shortcut_val[f] THEN @ \ {f} ELSE @ \cup {f}]
                /\ Reads(settings')
    ELSE UNCHANGED <<settings, doing, desc>>

\* on_slow_keys_action, on_sticky_keys_action: a notification that is used is
\* closed by the server, and priv->notification by the plugin.
Action(n, answer) ==
  /\ doing = "idle" /\ n.id \in living
  /\ Response(n.of, answer) /\ Close({n.id, notice})
  /\ UNCHANGED <<stage, controls, changed, keys, shortcut_val, notice, living, alerts, made, missed>>

\* ax_slowkeys_response, ax_stickykeys_response
DialogResponse(f, answer) ==
  /\ doing = "idle" /\ f \in alerts /\ alerts' = alerts \ {f} /\ Response(f, answer)
  /\ UNCHANGED <<stage, controls, changed, keys, shortcut_val, notice, living, visible, closed, made, missed>>

\* The time of a notification is over.
Expire(n) ==
  /\ Close({n.id})
  /\ UNCHANGED <<stage, both, changed, keys, doing, desc, shortcut_val, notice, living, alerts, made, missed>>

\* on_notification_closed: whichever was closed, priv->notification goes.
NotificationClosed ==
  /\ doing = "idle" /\ closed # <<>> /\ closed' = Tail(closed)
  /\ IF Head(closed) \in living THEN living' = living \ {notice} /\ notice' = 0 ELSE UNCHANGED <<living, notice>>
  /\ UNCHANGED <<stage, both, changed, keys, doing, desc, shortcut_val, visible, alerts, made, missed>>

-----------------------------------------------------------------------------
(* The plugin.                                                             *)
Start ==
  /\ stage = "off" /\ doing = "idle" /\ stage' = "starting"
  /\ UNCHANGED <<both, changed, keys, doing, desc, asks, missed>>

\* start_a11y_keyboard_idle_cb: "be sure to init before starting to monitor the
\* server" (:954).
StartIdle ==
  /\ stage = "starting" /\ stage' = "setting" /\ Reads(settings)
  /\ UNCHANGED <<both, changed, keys, asks, missed>>
Monitor ==
  /\ stage = "setting" /\ doing = "idle" /\ stage' = "running"
  /\ UNCHANGED <<both, changed, keys, doing, desc, asks, missed>>

Stop ==
  /\ stage \in {"starting", "running"} /\ doing = "idle" /\ stage' = "off"
  /\ changed' = FALSE /\ keys' = 0 /\ alerts' = {}
  /\ shortcut_val' = [f \in Feature |-> FALSE]
  /\ missed' = FALSE
  /\ UNCHANGED <<both, doing, desc, notice, living, visible, closed, made>>

Next ==
  \/ WriteSetting
  \/ \E c \in Control : Press(c)
  \/ SetServer \/ KeyboardCallback \/ KeyboardAdded \/ XkbEvent \/ ApplySettings
  \/ \E answer \in {"accept", "reject"} :
       (\E f \in Feature : DialogResponse(f, answer)) \/ (\E n \in visible : Action(n, answer))
  \/ \E n \in visible : Expire(n)
  \/ NotificationClosed
  \/ Start \/ StartIdle \/ Monitor \/ Stop

Spec == Init /\ [][Next]_vars

-----------------------------------------------------------------------------
(* Properties.                                                             *)
TypeOK ==
  /\ settings \in [on : SUBSET Control, delay : Delays \cup {MaxDelay}]
  /\ controls.on \subseteq Control /\ controls.delay \in Delays \cup {MaxDelay}
  /\ alerts \subseteq Feature /\ living \subseteq 1 .. made /\ {v.id : v \in visible} \subseteq 1 .. made

Quiet == stage = "running" /\ doing = "idle" /\ ~changed /\ keys = 0

\* Once every event and change is dispatched the server's controls are what
\* the settings say, however writes, shortcuts and answers cross each other,
\* but for a key between the first XkbSetControls and XkbSelectEvents
\* (:954-960).
Agrees ==
  Quiet /\ ~missed =>
    /\ controls.on = settings.on
    /\ "slow" \in settings.on => controls.delay = ForServer(settings, controls).delay

\* A notification that is shown is one whose buttons work (:438-444; the signal
\* of an older one takes the newer one away).
ButtonsWork == \A v \in visible : v.id \in living

\* What the user chose stays: only a shortcut changes a setting, and only that
\* which it switches ("we only want to update GSettings when it's in response
\* to an explicit user input event", :895).
DelayKept == [][doing = "apply" => settings'.delay = settings.delay]_vars
=============================================================================
