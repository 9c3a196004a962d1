---------------------------- MODULE KbdBacklight ----------------------------
(***************************************************************************)
(* csd-power-manager.c: the keyboard backlight.  Three parts of the power  *)
(* manager move it, each with a memory of its own: DIM saves the level in  *)
(* kbd_brightness_pre_dim, BLANK and the closed lid "toggle" it off and    *)
(* keep the level in kbd_brightness_old, and D-Bus clients set, step and   *)
(* toggle it.  All of them work from kbd_brightness_now, a cache of the    *)
(* level that UPower holds, refreshed by UPower's signals.                 *)
(***************************************************************************)
EXTENDS Integers, Sequences

CONSTANTS
  KMax,        \* priv->kbd_brightness_max
  DimPercent,  \* "idle-brightness"
  MaxSignals,  \* bound on undelivered BrightnessChanged signals
  Scenarios    \* what may happen together: sets of upsets

\* adjust: other clients set the level while it is dimmed or toggled off;
\* toggle: they toggle it; fault: calls to UPower fail; lag: the main loop
\* serves requests before the signals that are already queued.
AllUpsets == {"adjust", "toggle", "fault", "lag"}

ASSUME KMaxAssumption == KMax \in Nat \ {0} /\ MaxSignals \in Nat
ASSUME DimAssumption == DimPercent \in 0 .. 100
ASSUME ScenariosAssumption == Scenarios \subseteq SUBSET AllUpsets

NORMAL == 0
DIM    == 1
BLANK  == 2
SLEEP  == 3
None   == -1
Level  == 0 .. KMax

VARIABLES
  mode,  \* priv->current_idle_mode
  kbd,   \* hw: the level UPower holds; signals: the levels it announced;
         \* now, old, preDim: kbd_brightness_now, _old, _pre_dim
  lidClosed,  \* priv->lid_is_closed
  user,  \* history: the level the user chose last
  reply,   \* the number returned by the last D-Bus method
  upsets   \* what may happen in this behaviour, chosen at its start

vars == <<mode, kbd, lidClosed, user, reply, upsets>>

Kbd == [hw : Level, now : Level, old : {None} \cup Level, preDim : {None} \cup Level,
        signals : Seq(Level)]

\* The variables have their types: no level outside the keyboard's range is
\* written, saved or reported as a percentage (csd-power-manager.c:180-240).
TypeOK ==
  /\ mode \in NORMAL .. SLEEP
  /\ kbd \in Kbd
  /\ lidClosed \in BOOLEAN
  /\ user \in Level
  /\ reply \in {None} \cup 0 .. 100
  /\ upsets \in Scenarios

-----------------------------------------------------------------------------
(* upower_kbd_set_brightness and upower_kbd_toggle, as functions of the    *)
(* state: one call of the power manager makes several of them.  ok: the    *)
(* D-Bus call succeeds.                                                    *)

PercentageToAbs(p) == (KMax * p) \div 100

\* Mutation: the range checks of abs_to_percentage are gone.
UncheckedPercentage(v) == (v * 100) \div KMax

AbsToPercentage(v) == IF v \in Level THEN (v * 100) \div KMax ELSE None

Outcome == IF "fault" \in upsets THEN BOOLEAN ELSE {TRUE}

Succeeds(k, v, ok) == k.now = v \/ (ok /\ v \in Level)

SetBrightness(k, v, ok) ==
  IF k.now # v /\ Succeeds(k, v, ok)
    THEN [k EXCEPT !.hw = v, !.now = v, !.signals = Append(@, v)]
    ELSE k

ToggleOff(k, ok) ==
  IF Succeeds(k, 0, ok) THEN [SetBrightness(k, 0, ok) EXCEPT !.old = k.now] ELSE k

ToggleOn(k, ok) ==
  IF Succeeds(k, k.old, ok) THEN [SetBrightness(k, k.old, ok) EXCEPT !.old = None] ELSE k

Toggle(k, ok) == IF k.old >= 0 THEN ToggleOn(k, ok) ELSE ToggleOff(k, ok)

-----------------------------------------------------------------------------
(* idle_set_mode, the keyboard's part.  Policy may skip the dimming.       *)

KbdBacklightDim(k, ok) ==
  LET idle == PercentageToAbs(DimPercent) IN
  IF idle <= k.now /\ Succeeds(k, idle, ok)
    THEN [SetBrightness(k, idle, ok) EXCEPT !.preDim = k.now]
    ELSE k

\* Mutation: the saved level is dropped, not written.
UndimForgets(k, ok) == [k EXCEPT !.preDim = None]

Undim(k, ok) ==
  IF k.preDim >= 0
    THEN [SetBrightness(k, k.preDim, ok) EXCEPT !.preDim = None]
    ELSE k

\* Unless it lags, the main loop has dispatched every signal.
Ready == Len(kbd.signals) + 2 <= MaxSignals /\ ("lag" \notin upsets => kbd.signals = <<>>)

GoDim ==
  /\ Ready /\ mode < DIM
  /\ mode' = DIM
  /\ \/ \E ok \in Outcome : kbd' = KbdBacklightDim(kbd, ok)
     \/ UNCHANGED kbd
  /\ UNCHANGED <<lidClosed, user, reply>>

GoBlank ==
  /\ Ready /\ mode < BLANK
  /\ mode' = BLANK
  /\ \E ok \in Outcome : kbd' = IF kbd.old = None THEN Toggle(kbd, ok) ELSE kbd
  /\ UNCHANGED <<lidClosed, user, reply>>

GoSleep == Ready /\ mode < SLEEP /\ mode' = SLEEP /\ UNCHANGED <<kbd, lidClosed, user, reply>>

GoNormal ==
  /\ Ready /\ mode # NORMAL
  /\ mode' = NORMAL
  /\ \E ok1, ok2 \in Outcome :
       kbd' = Undim(IF kbd.old # None THEN Toggle(kbd, ok1) ELSE kbd, ok2)
  /\ UNCHANGED <<lidClosed, user, reply>>

-----------------------------------------------------------------------------
(* The lid.                                                                *)

SuspendWithLidClosed ==
  /\ Ready
  /\ lidClosed' = TRUE
  /\ \E ok \in Outcome : kbd' = IF kbd.old = None THEN Toggle(kbd, ok) ELSE kbd
  /\ UNCHANGED <<mode, user, reply>>

DoLidOpenAction ==
  /\ Ready /\ lidClosed
  /\ lidClosed' = FALSE
  /\ \E ok \in Outcome : kbd' = IF kbd.old # None THEN Toggle(kbd, ok) ELSE kbd
  /\ UNCHANGED <<mode, user, reply>>

-----------------------------------------------------------------------------
(* D-Bus clients, the keyboard's own keys, and UPower's signals.           *)

MayAdjust == (mode = NORMAL /\ kbd.old = None) \/ "adjust" \in upsets

StepAmount == IF KMax < 20 THEN 1 ELSE KMax \div 20

\* value: the level asked for; returned: what the reply is computed from.
MethodSets(value, returned) ==
  /\ Ready /\ MayAdjust
  /\ \E ok \in Outcome :
       IF Succeeds(kbd, value, ok)
         THEN /\ kbd' = SetBrightness(kbd, value, ok)
              /\ reply' = AbsToPercentage(returned)
              /\ user' = value
         ELSE UNCHANGED <<kbd, reply, user>>
  /\ UNCHANGED <<mode, lidClosed>>

SetPercentage == \E p \in 0 .. 100 : MethodSets(PercentageToAbs(p), p)

StepUp ==
  LET v == IF kbd.now + StepAmount < KMax THEN kbd.now + StepAmount ELSE KMax IN
  MethodSets(v, v)

StepDown ==
  LET v == IF kbd.now - StepAmount > 0 THEN kbd.now - StepAmount ELSE 0 IN
  MethodSets(v, v)

GetPercentage ==
  /\ Ready
  /\ kbd' = [kbd EXCEPT !.now = kbd.hw]
  /\ reply' = AbsToPercentage(kbd.hw)
  /\ UNCHANGED <<mode, lidClosed, user>>

\* The value that is returned stays at its initial -1.
ToggleMethod ==
  /\ Ready /\ "toggle" \in upsets
  /\ (mode = NORMAL /\ ~lidClosed) \/ "adjust" \in upsets
  /\ \E ok \in Outcome :
       LET v == IF kbd.old >= 0 THEN kbd.old ELSE 0 IN
       IF Succeeds(kbd, v, ok)
         THEN kbd' = Toggle(kbd, ok) /\ reply' = AbsToPercentage(None) /\ user' = v
         ELSE UNCHANGED <<kbd, reply, user>>
  /\ UNCHANGED <<mode, lidClosed>>

FirmwareKey(v) ==
  /\ MayAdjust /\ Len(kbd.signals) < MaxSignals
  /\ v # kbd.hw
  /\ kbd' = [kbd EXCEPT !.hw = v, !.signals = Append(@, v)]
  /\ user' = v
  /\ UNCHANGED <<mode, lidClosed, reply>>

\* Mutation: only the clients are told.
HandleChangedDeaf ==
  /\ kbd.signals # <<>>
  /\ kbd' = [kbd EXCEPT !.signals = Tail(@)]
  /\ UNCHANGED <<mode, lidClosed, user, reply>>

HandleChanged ==
  /\ kbd.signals # <<>>
  /\ kbd' = [kbd EXCEPT !.now = Head(kbd.signals), !.signals = Tail(@)]
  /\ UNCHANGED <<mode, lidClosed, user, reply>>

-----------------------------------------------------------------------------
\* power_keyboard_proxy_ready_cb has read the level from UPower.
Init ==
  /\ mode = NORMAL
  /\ user \in Level
  /\ kbd = [hw |-> user, now |-> user, old |-> None, preDim |-> None, signals |-> <<>>]
  /\ lidClosed = FALSE
  /\ reply = 0
  /\ upsets \in Scenarios

Step ==
  \/ GoDim
  \/ GoBlank
  \/ GoSleep
  \/ GoNormal
  \/ SuspendWithLidClosed
  \/ DoLidOpenAction
  \/ SetPercentage
  \/ StepUp
  \/ StepDown
  \/ GetPercentage
  \/ ToggleMethod
  \/ \E v \in Level : FirmwareKey(v)
  \/ HandleChanged

Next == Step /\ UNCHANGED upsets

Spec == Init /\ [][Next]_vars

-----------------------------------------------------------------------------
(* Properties.                                                             *)

\* However requests and signals overtake each other, the cache and UPower
\* agree once every signal is dispatched: "same as before" in
\* upower_kbd_set_brightness then compares with the real level.
CacheAgrees == kbd.signals = <<>> => kbd.now = kbd.hw

\* "Restore user-selected brightness level": out of the idle modes and with
\* nothing toggled off, the keyboard is lit as the user chose.
RestoredNow ==
  mode = NORMAL /\ kbd.old = None /\ kbd.signals = <<>> => kbd.hw = user

\* However dimming, blanking and the lid overlap, the level the user chose is
\* restored, as long as nobody interferes and the dim level is not "off".
UserLevelRestored ==
  upsets = {} /\ PercentageToAbs(DimPercent) > 0 => RestoredNow

\* The keyboard interface "returns new level", as a percentage.
ReplyIsPercentage == reply \in 0 .. 100
=============================================================================
