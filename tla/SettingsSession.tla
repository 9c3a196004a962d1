--------------------------- MODULE SettingsSession ---------------------------
(***************************************************************************)
(* cinnamon-settings-session.c: what the daemon believes about whether its *)
(* session is the active one.  With logind a monitor's descriptor wakes the*)
(* main loop, which reads the session's state and then empties the monitor;*)
(* with ConsoleKit a chain of calls finds the session, asks IsActive and   *)
(* then listens to ActiveChanged.  logind, ConsoleKit and the bus, which   *)
(* delivers in order, are external.                                        *)
(***************************************************************************)
EXTENDS Naturals, Sequences

CONSTANTS
  Modes,       \* "logind" and "consolekit", by the build and the setting
  CallsFail,   \* whether a ConsoleKit call may fail
  MaxMessages  \* bound on what is under way on the bus

\* The calls of the ConsoleKit chain, in order.
Call == {"manager", "path", "session", "IsActive"}

VARIABLES
  mode,      \* which of the two services is used
  isActive,  \* whether the session is active, outside
  state,     \* priv->state
  at,        \* logind: "poll" or "flush"; ConsoleKit: the call waited for,
             \* "connected" or "failed"
  readable,  \* logind: the monitor's descriptor has something to read
  missed,    \* history: a switch fell between the last read and its flush
  asked,     \* ConsoleKit has yet to receive the call
  inbox      \* ConsoleKit: messages to this process

vars == <<mode, isActive, state, at, readable, missed, asked, inbox>>

State(b) == IF b THEN "active" ELSE "inactive"
Reply(b) == [kind |-> "reply", active |-> b]
ActiveChanged(b) == [kind |-> "ActiveChanged", active |-> b]

-----------------------------------------------------------------------------

\* cinnamon_settings_session_set_state.
SetState(b) == state' = State(b)

\* cinnamon_settings_session_init; with logind it reads the state at once,
\* after the monitor was made.
Init ==
  /\ mode \in Modes
  /\ isActive \in BOOLEAN
  /\ state = IF mode = "logind" THEN State(isActive) ELSE "unknown"
  /\ at = IF mode = "logind" THEN "poll" ELSE "manager"
  /\ readable = FALSE
  /\ missed = FALSE
  /\ asked = FALSE
  /\ inbox = <<>>

\* The user switches to this session or away from it.  logind touches what
\* the monitor watches; ConsoleKit sends a signal, to whoever has a proxy.
Switch ==
  /\ Len(inbox) < MaxMessages
  /\ isActive' = ~isActive
  /\ readable' = (mode = "logind")
  /\ missed' = (missed \/ at = "flush")
  /\ inbox' = IF at \in {"IsActive", "connected"}
              THEN Append(inbox, ActiveChanged(isActive')) ELSE inbox
  /\ UNCHANGED <<mode, state, at, asked>>

-----------------------------------------------------------------------------
\* sd_source_dispatch: sessions_changed ...
SessionsChanged ==
  /\ at = "poll"
  /\ readable
  /\ SetState(isActive)
  /\ at' = "flush"
  /\ missed' = FALSE
  /\ UNCHANGED <<mode, isActive, readable, asked, inbox>>

\* ... and then sd_login_monitor_flush.
MonitorFlush ==
  /\ at = "flush"
  /\ at' = "poll"
  /\ readable' = FALSE
  /\ UNCHANGED <<mode, isActive, state, missed, asked, inbox>>

-----------------------------------------------------------------------------
\* got_manager_proxy_cb, got_session_path_cb, got_session_proxy_cb: each
\* makes the next call, or warns and gives up.
Proceed(from, to) ==
  /\ at = from
  /\ \/ at' = to /\ asked' = (to = "IsActive")
     \/ CallsFail /\ at' = "failed" /\ UNCHANGED asked
  /\ UNCHANGED <<mode, isActive, state, readable, missed, inbox>>

GotManagerProxy == Proceed("manager", "path")
GotSessionPath == Proceed("path", "session")
GotSessionProxy == Proceed("session", "IsActive")

\* ConsoleKit answers IsActive.
AnswerIsActive ==
  /\ asked
  /\ asked' = FALSE
  /\ \E failed \in {FALSE, CallsFail} :
       inbox' = Append(inbox, IF failed THEN [kind |-> "error"] ELSE Reply(isActive))
  /\ UNCHANGED <<mode, isActive, state, at, readable, missed>>

\* is_active_cb: takes the answer, then connects to the proxy's signals.
IsActiveCb ==
  /\ at = "IsActive"
  /\ inbox # <<>> /\ Head(inbox).kind \in {"reply", "error"}
  /\ inbox' = Tail(inbox)
  /\ IF Head(inbox).kind = "reply"
     THEN SetState(Head(inbox).active) /\ at' = "connected"
     ELSE at' = "failed" /\ UNCHANGED state
  /\ UNCHANGED <<mode, isActive, readable, missed, asked>>

\* cinnamon_settings_session_proxy_signal_cb, if it is connected yet.
SessionProxySignalCb ==
  /\ inbox # <<>> /\ Head(inbox).kind = "ActiveChanged"
  /\ inbox' = Tail(inbox)
  /\ IF at = "connected"
     THEN SetState(Head(inbox).active)
     ELSE UNCHANGED state
  /\ UNCHANGED <<mode, isActive, at, readable, missed, asked>>

Next ==
  \/ Switch
  \/ SessionsChanged \/ MonitorFlush
  \/ GotManagerProxy \/ GotSessionPath \/ GotSessionProxy
  \/ AnswerIsActive \/ IsActiveCb \/ SessionProxySignalCb

Spec == Init /\ [][Next]_vars

-----------------------------------------------------------------------------
Answers == {m \in 1 .. Len(inbox) : inbox[m].kind # "ActiveChanged"}

\* The variables have their types; a question to ConsoleKit or an answer to
\* it is under way only while is_active_cb is still to be called, and one at
\* a time (cinnamon-settings-session.c:286-312).
TypeOK ==
  /\ mode \in Modes /\ isActive \in BOOLEAN
  /\ state \in {"unknown", "active", "inactive"}
  /\ at \in Call \cup {"poll", "flush", "connected", "failed"}
  /\ readable \in BOOLEAN /\ missed \in BOOLEAN /\ asked \in BOOLEAN
  /\ asked \/ Answers # {} => at = "IsActive"
  /\ asked => Answers = {}
  /\ \A m, n \in Answers : m = n

\* Nothing is under way any more that would change the state.
Quiet ==
  \/ at = "poll" /\ ~readable
  \/ at = "connected" /\ inbox = <<>>

\* Once all is dispatched the daemon knows whether its session is active: the
\* answer to IsActive and the signals around it leave no gap
\* (cinnamon-settings-session.c:242-312), and with logind only a switch
\* between the read and the flush does (:62-77).
Agrees == Quiet => state = State(isActive) \/ missed
=============================================================================
