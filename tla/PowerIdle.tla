------------------------------ MODULE PowerIdle ------------------------------
(***************************************************************************)
(* csd-power-manager.c: the idle modes of the power manager and what they  *)
(* do to the screen.  idle_set_mode only moves to a deeper mode or back to *)
(* NORMAL, saves the brightness it dims and gives it back on NORMAL.  The  *)
(* user, other D-Bus clients, the lid and fast user switching interfere.   *)
(*                                                                         *)
(* Not here: when the modes are asked for (PowerIdleSystem), the keyboard  *)
(* (KbdBacklight), suspend and logind (PowerSleep, PowerLid).            *)
(***************************************************************************)
EXTENDS Integers

CONSTANTS
  Min, Max,     \* range of the backlight; Min may be above 0 with xbacklight
  DimPercent,   \* "idle-brightness"
  IsVM,         \* priv->is_virtual_machine
  Scenarios     \* what may go wrong together: sets of upsets

ASSUME RangeAssumption == Min \in Nat /\ Max \in Nat /\ Min < Max
ASSUME DimAssumption == DimPercent \in 0 .. 100
ASSUME FlagAssumption == IsVM \in BOOLEAN /\ Scenarios \subseteq SUBSET {"adjust", "fault"}

NORMAL == 0
DIM    == 1
BLANK  == 2
SLEEP  == 3
Mode == NORMAL .. SLEEP

None == -1
ActionType == {"blank", "suspend", "hibernate", "shutdown", "interactive", "nothing"}

VARIABLES
  mode,       \* priv->current_idle_mode
  level,      \* the backlight of the primary output
  preDim,     \* priv->pre_dim_brightness, or None
  panelOn,    \* DPMS state
  active,     \* the session is the active one of the seat
  lidClosed,  \* priv->lid_is_closed
  user,       \* history: the level the user chose last
  upsets      \* what may go wrong in this behaviour, chosen at its start:
              \* "adjust": a client sets the level of a dimmed screen,
              \* "fault": a call to the X server or the helper fails

vars == <<mode, level, preDim, panelOn, active, lidClosed, user, upsets>>

\* The variables have their types: no level outside the range of the backlight
\* is set or saved (csd-power-manager.c:180-240).
TypeOK ==
  /\ mode \in Mode
  /\ level \in Min .. Max
  /\ preDim \in {None} \cup Min .. Max
  /\ panelOn \in BOOLEAN
  /\ active \in BOOLEAN
  /\ lidClosed \in BOOLEAN
  /\ user \in Min .. Max
  /\ upsets \in Scenarios

-----------------------------------------------------------------------------
(* Backlight arithmetic.                                                   *)

PercentageToAbs(p) == Min + ((Max - Min) * p) \div 100

StepAmount == LET n == Max - Min + 1 IN IF n < 20 THEN 1 ELSE n \div 20

\* A call to the X server or to the backlight helper may fail.
Outcome == IF "fault" \in upsets THEN BOOLEAN ELSE {TRUE}

\* The server refuses a value outside the range of the property.
BacklightSet(v, ok) == level' = IF ok /\ v \in Min .. Max THEN v ELSE level

-----------------------------------------------------------------------------
(* idle_set_mode.                                                          *)

Deeper(m) == m > mode \/ (m = NORMAL /\ mode # NORMAL)

\* Is the dim brightness actually dimmer than the one we have now?
Dims == PercentageToAbs(DimPercent) <= level

DisplayBacklightDim(ok) ==
  IF Dims /\ ok
    THEN BacklightSet(PercentageToAbs(DimPercent), ok) /\ preDim' = level
    ELSE UNCHANGED <<level, preDim>>

EnterDim ==
  /\ \/ \E ok \in Outcome : DisplayBacklightDim(ok)
     \/ UNCHANGED <<level, preDim>>            \* not dimming due to policy
  /\ UNCHANGED panelOn

PanelSet(on) == \E ok \in Outcome : panelOn' = IF ok THEN on ELSE panelOn

EnterBlank == PanelSet(FALSE) /\ UNCHANGED <<level, preDim>>

EnterSleep ==
  /\ \E a \in ActionType : IF a = "blank" THEN PanelSet(FALSE) ELSE UNCHANGED panelOn
  /\ UNCHANGED <<level, preDim>>

RestoreLevel ==
  IF preDim >= 0
    THEN \E ok \in Outcome : /\ BacklightSet(preDim, ok)
                             /\ preDim' = IF ok THEN None ELSE preDim
    ELSE UNCHANGED <<level, preDim>>

\* Mutation: the screen is turned on, the brightness forgotten.
EnterNormalForgets == PanelSet(TRUE) /\ preDim' = None /\ UNCHANGED level

EnterNormal == PanelSet(TRUE) /\ RestoreLevel

\* act: the session state that is asked for.
IdleSetMode(m, act) ==
  IF Deeper(m) /\ act
    THEN /\ mode' = m
         /\ IF IsVM THEN UNCHANGED <<level, preDim, panelOn>>
            ELSE \/ m = NORMAL /\ EnterNormal
                 \/ m = DIM /\ EnterDim
                 \/ m = BLANK /\ EnterBlank
                 \/ m = SLEEP /\ EnterSleep
    ELSE UNCHANGED <<mode, level, preDim, panelOn>>

-----------------------------------------------------------------------------
(* Who calls it, and who else moves the screen.                            *)

AlarmExpired(m) ==
  /\ m # NORMAL
  /\ IdleSetMode(m, active)
  /\ UNCHANGED <<active, lidClosed, user>>

\* The idle time was reset, or the session got inhibited from going idle.
Reset ==
  /\ IdleSetMode(NORMAL, active)
  /\ UNCHANGED <<active, lidClosed, user>>

\* "When doing the fast-user-switch into a new account, ensure the new account
\* is undimmed and with the backlight on."
SessionActiveChanged ==
  /\ active' = ~active
  /\ IdleSetMode(NORMAL, active')
  /\ UNCHANGED <<lidClosed, user>>

MayAdjust == mode = NORMAL \/ "adjust" \in upsets

\* SetPercentage, StepUp and StepDown of the screen interface.
UserSets(v) ==
  /\ MayAdjust
  /\ \E ok \in Outcome :
       /\ BacklightSet(v, ok)
       /\ user' = IF ok /\ v \in Min .. Max THEN v ELSE user
  /\ UNCHANGED <<mode, preDim, panelOn, active, lidClosed>>

SetPercentage == \E p \in 0 .. 100 : UserSets(PercentageToAbs(p))

StepUp == UserSets(IF level + StepAmount < Max THEN level + StepAmount ELSE Max)

StepDown == UserSets(IF level - StepAmount > 0 THEN level - StepAmount ELSE 0)

\* The lid is closed and no external monitor keeps the session going: at the
\* event itself or when the safety timer looks again.
SuspendWithLidClosed ==
  /\ lidClosed' = TRUE
  /\ PanelSet(FALSE)
  /\ UNCHANGED <<mode, level, preDim, active, user>>

LidClosedExternalMonitor ==
  /\ lidClosed' = TRUE
  /\ UNCHANGED <<mode, level, preDim, panelOn, active, user>>

\* Mutation: nobody turns the panel back on.
LidOpenDark ==
  /\ lidClosed
  /\ lidClosed' = FALSE
  /\ UNCHANGED <<mode, level, preDim, panelOn, active, user>>

LidOpen ==
  /\ lidClosed
  /\ lidClosed' = FALSE
  /\ PanelSet(TRUE)
  /\ UNCHANGED <<mode, level, preDim, active, user>>

-----------------------------------------------------------------------------
Init ==
  /\ mode = NORMAL
  /\ level \in Min .. Max
  /\ preDim = None
  /\ panelOn = TRUE
  /\ active \in BOOLEAN
  /\ lidClosed = FALSE
  /\ user = level
  /\ upsets \in Scenarios

Step ==
  \/ \E m \in Mode : AlarmExpired(m)
  \/ Reset
  \/ SessionActiveChanged
  \/ SetPercentage
  \/ StepUp
  \/ StepDown
  \/ SuspendWithLidClosed
  \/ LidClosedExternalMonitor
  \/ LidOpen

Next == Step /\ UNCHANGED upsets

Spec == Init /\ [][Next]_vars

-----------------------------------------------------------------------------
(* Properties.                                                             *)

\* "Restore user-selected brightness level": whatever sequence of dimming,
\* blanking, lid and session changes happened, the level the user chose is on
\* the screen or is the one that NORMAL will write back, as long as no call
\* fails and nobody else moves a dimmed screen.
UserLevelKept == upsets = {} => level = user \/ preDim = user

\* A session that is not idle is visible: the panel is off in NORMAL mode only
\* behind a closed lid, unless a call has failed.
NormalIsVisible == "fault" \notin upsets /\ mode = NORMAL /\ ~lidClosed => panelOn

=============================================================================
