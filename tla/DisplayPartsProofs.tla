-------------------------- MODULE DisplayPartsProofs --------------------------
(***************************************************************************)
(* Proofs about the parts of DisplayParts.  Each part is proved on its     *)
(* own, for any values of its constants; a behaviour of DisplayParts is    *)
(* one of every part, so that its properties follow.                       *)
(***************************************************************************)
EXTENDS DisplayParts, FiniteSetTheorems, TLAPS

-----------------------------------------------------------------------------
(* The keyboard, for any number of levels, any dim percentage and          *)
(* everything a run may let happen.  CacheInv says where the level UPower  *)
(* holds can be found: it is the last one announced and, when nothing is   *)
(* left to be announced, the cached one.                                   *)

Announced(k) ==
  /\ k.signals = <<>> => k.now = k.hw
  /\ k.signals # <<>> => k.signals[Len(k.signals)] = k.hw

CacheInv == kbd \in Kbd /\ Announced(kbd)

\* Storing a level keeps the record well-formed and announced, and caches it
\* when the call succeeded.
LEMMA SetBrightnessKeeps ==
  ASSUME NEW k \in Kbd, Announced(k), NEW v \in Int, NEW ok \in BOOLEAN
  PROVE  /\ SetBrightness(k, v, ok) \in Kbd
         /\ Announced(SetBrightness(k, v, ok))
  <1>1. CASE k.now # v /\ Succeeds(k, v, ok)
    <2>1. v \in Level /\ k.signals \in Seq(Level)
      BY <1>1 DEF Succeeds, Kbd
    <2> DEFINE n == [k EXCEPT !.hw = v, !.now = v, !.signals = Append(@, v)]
    <2>2. SetBrightness(k, v, ok) = n
      BY <1>1 DEF SetBrightness
    <2>3. /\ Append(k.signals, v) \in Seq(Level)
          /\ Append(k.signals, v) # <<>>
          /\ Append(k.signals, v)[Len(Append(k.signals, v))] = v
      BY <2>1
    <2>4. n \in Kbd /\ n.hw = v /\ n.signals = Append(k.signals, v)
      BY <2>1, <2>3 DEF Kbd
    <2>5. QED
      BY <2>2, <2>3, <2>4 DEF Announced
  <1>2. CASE ~(k.now # v /\ Succeeds(k, v, ok))
    BY <1>2 DEF SetBrightness
  <1>3. QED
    BY <1>1, <1>2

\* A level that is stored is one of the keyboard's.
LEMMA SetBrightnessType ==
  ASSUME NEW k \in Kbd, NEW v, NEW ok
  PROVE  SetBrightness(k, v, ok) \in Kbd
  <1>1. CASE k.now # v /\ Succeeds(k, v, ok)
    <2>1. v \in Level /\ k.signals \in Seq(Level)
      BY <1>1 DEF Succeeds, Kbd
    <2>2. Append(k.signals, v) \in Seq(Level)
      BY <2>1
    <2>3. [k EXCEPT !.hw = v, !.now = v, !.signals = Append(@, v)] \in Kbd
      BY <2>1, <2>2 DEF Kbd
    <2>4. QED
      BY <1>1, <2>3 DEF SetBrightness
  <1>2. CASE ~(k.now # v /\ Succeeds(k, v, ok))
    BY <1>2 DEF SetBrightness
  <1>3. QED
    BY <1>1, <1>2

\* Changing what is remembered does not touch what is announced.
LEMMA MemoryKeeps ==
  ASSUME NEW k \in Kbd, Announced(k), NEW v \in {None} \cup Level
  PROVE  /\ [k EXCEPT !.old = v] \in Kbd /\ Announced([k EXCEPT !.old = v])
         /\ [k EXCEPT !.preDim = v] \in Kbd /\ Announced([k EXCEPT !.preDim = v])
  BY DEF Kbd, Announced

\* Levels are integers, and the dim level is one of them.
LEMMA LevelFacts ==
  /\ Level \subseteq Int /\ 0 \in Level
  /\ \A k \in Kbd : k.now \in Level /\ k.hw \in Level
  /\ \A k \in Kbd : k.old \in Int /\ k.preDim \in Int
  BY KMaxAssumption DEF Level, Kbd, None

\* Toggling keeps the record well-formed and announced.
LEMMA ToggleKeeps ==
  ASSUME NEW k \in Kbd, Announced(k), NEW ok \in BOOLEAN
  PROVE  Toggle(k, ok) \in Kbd /\ Announced(Toggle(k, ok))
  <1>1. /\ SetBrightness(k, k.old, ok) \in Kbd
        /\ Announced(SetBrightness(k, k.old, ok))
        /\ SetBrightness(k, 0, ok) \in Kbd
        /\ Announced(SetBrightness(k, 0, ok))
    BY SetBrightnessKeeps, LevelFacts
  <1>2. ToggleOn(k, ok) \in Kbd /\ Announced(ToggleOn(k, ok))
    BY <1>1, MemoryKeeps DEF ToggleOn
  <1>3. ToggleOff(k, ok) \in Kbd /\ Announced(ToggleOff(k, ok))
    BY <1>1, MemoryKeeps, LevelFacts DEF ToggleOff
  <1>4. QED
    BY <1>2, <1>3 DEF Toggle

\* So does dimming ...
LEMMA DimKeeps ==
  ASSUME NEW k \in Kbd, Announced(k), NEW ok \in BOOLEAN
  PROVE  KbdBacklightDim(k, ok) \in Kbd /\ Announced(KbdBacklightDim(k, ok))
  <1> DEFINE idle == PercentageToAbs(DimPercent)
  <1>1. idle \in Int
    BY KMaxAssumption, DimAssumption DEF PercentageToAbs
  <1>2. SetBrightness(k, idle, ok) \in Kbd /\ Announced(SetBrightness(k, idle, ok))
    BY <1>1, SetBrightnessKeeps
  <1> HIDE DEF idle
  <1>3. [SetBrightness(k, idle, ok) EXCEPT !.preDim = k.now] \in Kbd
        /\ Announced([SetBrightness(k, idle, ok) EXCEPT !.preDim = k.now])
    BY <1>2, MemoryKeeps, LevelFacts
  <1>4. QED
    BY <1>3 DEF KbdBacklightDim, idle

\* ... and what NORMAL does to undo it.
LEMMA UndimKeeps ==
  ASSUME NEW k \in Kbd, Announced(k), NEW ok \in BOOLEAN
  PROVE  Undim(k, ok) \in Kbd /\ Announced(Undim(k, ok))
  <1>1. /\ SetBrightness(k, k.preDim, ok) \in Kbd
        /\ Announced(SetBrightness(k, k.preDim, ok))
    BY SetBrightnessKeeps, LevelFacts
  <1>2. QED
    BY <1>1, MemoryKeeps DEF Undim

\* A signal is dispatched: the last one brings the level UPower holds.
LEMMA HandleChangedKeeps == CacheInv /\ HandleChanged => CacheInv'
  <1> SUFFICES ASSUME CacheInv, HandleChanged PROVE CacheInv'
    OBVIOUS
  <1> DEFINE s == kbd.signals
  <1>1. s \in Seq(Level) /\ s # <<>> /\ s[Len(s)] = kbd.hw
    BY DEF CacheInv, HandleChanged, Kbd, Announced
  <1>2. /\ Tail(s) \in Seq(Level)
        /\ Head(s) \in Level
        /\ Tail(s) = <<>> => Head(s) = s[Len(s)]
        /\ Tail(s) # <<>> => Tail(s)[Len(Tail(s))] = s[Len(s)]
    <2> HIDE DEF s
    <2>1. Len(s) \in Nat /\ Len(s) > 0 /\ DOMAIN s = 1 .. Len(s)
      BY <1>1
    <2>2. Tail(s) \in Seq(Level) /\ Len(Tail(s)) = Len(s) - 1
      BY <1>1, <2>1
    <2>3. \A i \in 1 .. Len(s) - 1 : Tail(s)[i] = s[i + 1]
      BY <1>1, <2>1
    <2>4. Head(s) = s[1] /\ Head(s) \in Level
      BY <1>1, <2>1
    <2>5. Tail(s) = <<>> => Len(s) = 1
      <3>1. Len(<<>>) = 0
        OBVIOUS
      <3>2. Tail(s) = <<>> => Len(Tail(s)) = 0
        BY <3>1, Zenon
      <3>3. QED
        BY <2>1, <2>2, <3>2
    <2>6. Tail(s) # <<>> => Len(s) - 1 \in 1 .. Len(s) - 1
      BY <2>1, <2>2
    <2>7. QED
      BY <2>1, <2>2, <2>3, <2>4, <2>5, <2>6
  <1>3. kbd' = [kbd EXCEPT !.now = Head(s), !.signals = Tail(s)] /\ kbd \in Kbd
    BY DEF HandleChanged, CacheInv
  <1>4. /\ kbd' \in Kbd /\ kbd'.now = Head(s)
        /\ kbd'.signals = Tail(s) /\ kbd'.hw = kbd.hw
    BY <1>2, <1>3 DEF Kbd
  <1>5. QED
    BY <1>1, <1>2, <1>4 DEF CacheInv, Announced

\* Every action keeps the last signal and UPower's level together, whatever
\* overtook what, and whichever calls failed.
LEMMA CacheStep ==
  /\ Init => CacheInv
  /\ CacheInv /\ [Next]_vars => CacheInv'
  <1>1. Init => CacheInv
    BY KMaxAssumption DEF Init, CacheInv, Kbd, Announced, None
  <1>2. CacheInv /\ [Next]_vars => CacheInv'
    <2> SUFFICES ASSUME CacheInv, [Next]_vars PROVE CacheInv'
      OBVIOUS
    <2>1. kbd \in Kbd /\ Announced(kbd)
      BY DEF CacheInv
    <2>2. Outcome \subseteq BOOLEAN
      BY DEF Outcome
    <2>3. ASSUME NEW ok \in Outcome, kbd' = Toggle(kbd, ok) PROVE CacheInv'
      BY <2>1, <2>2, <2>3, ToggleKeeps DEF CacheInv
    <2>4. CASE GoDim
      BY <2>1, <2>2, <2>4, DimKeeps DEF GoDim, CacheInv
    <2>5. CASE GoBlank
      BY <2>1, <2>3, <2>5 DEF GoBlank, CacheInv
    <2>6. CASE GoSleep
      BY <2>1, <2>6 DEF GoSleep, CacheInv
    <2>7. CASE GoNormal
      <3>1. PICK ok1 \in BOOLEAN, ok2 \in BOOLEAN :
              kbd' = Undim(IF kbd.old # None THEN Toggle(kbd, ok1) ELSE kbd, ok2)
        BY <2>2, <2>7 DEF GoNormal
      <3> DEFINE k == IF kbd.old # None THEN Toggle(kbd, ok1) ELSE kbd
      <3>2. k \in Kbd /\ Announced(k)
        BY <2>1, ToggleKeeps
      <3> HIDE DEF k
      <3>3. kbd' = Undim(k, ok2)
        BY <3>1 DEF k
      <3>4. QED
        BY <3>2, <3>3, UndimKeeps DEF CacheInv
    <2>8. CASE SuspendWithLidClosed
      BY <2>1, <2>3, <2>8 DEF SuspendWithLidClosed, CacheInv
    <2>9. CASE DoLidOpenAction
      BY <2>1, <2>3, <2>9 DEF DoLidOpenAction, CacheInv
    <2>10. ASSUME NEW v \in Int, NEW r, MethodSets(v, r) PROVE CacheInv'
      BY <2>1, <2>2, <2>10, SetBrightnessKeeps DEF MethodSets, CacheInv
    <2>11. CASE SetPercentage
      <3>1. PICK p \in 0 .. 100 : MethodSets(PercentageToAbs(p), p)
        BY <2>11 DEF SetPercentage
      <3>2. PercentageToAbs(p) \in Int
        BY KMaxAssumption DEF PercentageToAbs
      <3>3. QED
        BY <2>10, <3>1, <3>2
    <2>12. CASE StepUp \/ StepDown
      <3>1. StepAmount \in Int /\ kbd.now \in Int /\ KMax \in Int
        <4>1. KMax \in Int /\ kbd.now \in Int
          <5>1. kbd.now \in Level
            BY <2>1, LevelFacts
          <5>2. QED
            BY <5>1, KMaxAssumption DEF Level
        <4>2. StepAmount \in Int
          BY <4>1 DEF StepAmount
        <4>3. QED
          BY <4>1, <4>2
      <3>2. QED
        BY <2>10, <2>12, <3>1 DEF StepUp, StepDown
    <2>13. CASE GetPercentage
      <3>1. /\ kbd' \in Kbd /\ kbd'.now = kbd.hw
            /\ kbd'.hw = kbd.hw /\ kbd'.signals = kbd.signals
        BY <2>1, <2>13 DEF GetPercentage, Kbd
      <3>2. QED
        BY <2>1, <3>1 DEF CacheInv, Announced
    <2>14. CASE ToggleMethod
      BY <2>1, <2>3, <2>14 DEF ToggleMethod, CacheInv
    <2>15. ASSUME NEW v \in Level, FirmwareKey(v) PROVE CacheInv'
      <3>1. /\ Append(kbd.signals, v) \in Seq(Level)
            /\ Append(kbd.signals, v) # <<>>
            /\ Append(kbd.signals, v)[Len(Append(kbd.signals, v))] = v
        BY <2>1 DEF Kbd
      <3>2. kbd' \in Kbd /\ kbd'.hw = v /\ kbd'.signals = Append(kbd.signals, v)
        BY <2>1, <2>15, <3>1 DEF FirmwareKey, Kbd
      <3>3. QED
        BY <3>1, <3>2 DEF CacheInv, Announced
    <2>16. CASE HandleChanged
      BY <2>16, HandleChangedKeeps
    <2>17. CASE UNCHANGED vars
      BY <2>1, <2>17 DEF vars, CacheInv
    <2>18. QED
      BY <2>4, <2>5, <2>6, <2>7, <2>8, <2>9, <2>11, <2>12, <2>13, <2>14, <2>15, <2>16,
         <2>17 DEF Next, Step
  <1>3. QED
    BY <1>1, <1>2

\* The cached level and UPower's agree whenever no signal is left to be
\* dispatched.
THEOREM CacheCorrect == Spec => []CacheAgrees
  <1>1. CacheInv => CacheAgrees
    BY DEF CacheInv, Announced, CacheAgrees
  <1>2. QED
    BY <1>1, CacheStep, PTL DEF Spec

-----------------------------------------------------------------------------
(* The user's level.                                                       *)

\* Nobody interferes, and the dim level is not "off".
Undisturbed == upsets = {} /\ PercentageToAbs(DimPercent) > 0

\* Where the user's level is: saved by DIM, or else by what toggled the keyboard
\* off, or else on the keyboard; a keyboard that is toggled off is off.
Kept ==
  /\ kbd.old # None => kbd.hw = 0
  /\ user = IF kbd.preDim # None THEN kbd.preDim ELSE IF kbd.old # None THEN kbd.old ELSE kbd.hw
  /\ mode = NORMAL => kbd.preDim = None

ModeOK == mode \in NORMAL .. SLEEP

KeptInv == CacheInv /\ ModeOK /\ (Undisturbed => Kept)

\* What a call that succeeds leaves of a level that is cached correctly.
LEMMA SetBrightnessSets ==
  ASSUME NEW k \in Kbd, k.now = k.hw, NEW v \in Level
  PROVE  LET n == SetBrightness(k, v, TRUE)
         IN n.hw = v /\ n.now = v /\ n.old = k.old /\ n.preDim = k.preDim
BY DEF SetBrightness, Succeeds, Kbd

\* Toggling a keyboard that is on saves its level, toggling it again restores it.
LEMMA ToggleSaves ==
  ASSUME NEW k \in Kbd, k.now = k.hw
  PROVE  LET n == Toggle(k, TRUE)
         IN /\ k.old = None => n.hw = 0 /\ n.now = 0 /\ n.old = k.hw /\ n.preDim = k.preDim
            /\ k.old # None => n.hw = k.old /\ n.now = k.old /\ n.old = None /\ n.preDim = k.preDim
<1>1. CASE k.old = None
  <2>1. k.hw \in Level /\ 0 \in Level BY LevelFacts
  <2>2. Succeeds(k, 0, TRUE) BY <2>1 DEF Succeeds
  <2> DEFINE s == SetBrightness(k, 0, TRUE)
  <2>3. s \in Kbd
    BY <2>1, LevelFacts, SetBrightnessType
  <2>4. s.hw = 0 /\ s.now = 0 /\ s.preDim = k.preDim BY <2>1, SetBrightnessSets
  <2>5. Toggle(k, TRUE) = [s EXCEPT !.old = k.now] BY <1>1, <2>2 DEF Toggle, ToggleOff, None
  <2> HIDE DEF s
  <2> QED BY <1>1, <2>3, <2>4, <2>5 DEF Kbd
<1>2. CASE k.old # None
  <2>1. k.old \in Level BY <1>2 DEF Kbd
  <2>2. Succeeds(k, k.old, TRUE) /\ k.old >= 0 BY <2>1, KMaxAssumption DEF Succeeds, Level
  <2> DEFINE s == SetBrightness(k, k.old, TRUE)
  <2>3. s \in Kbd BY <2>1, LevelFacts, SetBrightnessType
  <2>4. s.hw = k.old /\ s.now = k.old /\ s.preDim = k.preDim BY <2>1, SetBrightnessSets
  <2>5. Toggle(k, TRUE) = [s EXCEPT !.old = None] BY <2>2 DEF Toggle, ToggleOn
  <2> HIDE DEF s
  <2> QED BY <1>2, <2>3, <2>4, <2>5 DEF Kbd
<1> QED BY <1>1, <1>2

\* NORMAL brings back what was saved.
LEMMA UndimRestores ==
  ASSUME NEW k \in Kbd, k.now = k.hw
  PROVE  LET n == Undim(k, TRUE)
         IN /\ n.hw = IF k.preDim # None THEN k.preDim ELSE k.hw
            /\ n.old = k.old /\ n.preDim = None
<1>1. CASE k.preDim = None BY <1>1 DEF Undim, None
<1>2. CASE k.preDim # None
  <2>1. k.preDim \in Level BY <1>2 DEF Kbd
  <2>2. k.preDim >= 0 BY <2>1, KMaxAssumption DEF Level
  <2> DEFINE s == SetBrightness(k, k.preDim, TRUE)
  <2>3. s \in Kbd BY <2>1, SetBrightnessType
  <2>4. s.hw = k.preDim /\ s.old = k.old BY <2>1, SetBrightnessSets
  <2>5. Undim(k, TRUE) = [s EXCEPT !.preDim = None] BY <2>2 DEF Undim
  <2> HIDE DEF s
  <2> QED BY <1>2, <2>3, <2>4, <2>5 DEF Kbd
<1> QED BY <1>1, <1>2

\* "No level" is none of the levels.
LEMMA NoneIsNoLevel == \A v \in Level : v # None
BY KMaxAssumption DEF Level, None

\* Toggling the keyboard on or off moves the user's level between the keyboard
\* and kbd_brightness_old.
LEMMA ToggleKept ==
  ASSUME CacheInv, Kept, kbd.now = kbd.hw, kbd' = Toggle(kbd, TRUE),
         user' = user, mode' = NORMAL => kbd.preDim = None
  PROVE  Kept'
<1>1. kbd \in Kbd BY DEF CacheInv
<1>2. kbd.hw \in Level BY <1>1, LevelFacts
<1>3. CASE kbd.old = None
  <2>1. kbd'.hw = 0 /\ kbd'.old = kbd.hw /\ kbd'.preDim = kbd.preDim
    BY <1>1, <1>3, ToggleSaves
  <2> QED BY <1>2, <1>3, <2>1, NoneIsNoLevel DEF Kept
<1>4. CASE kbd.old # None
  <2>1. kbd'.hw = kbd.old /\ kbd'.old = None /\ kbd'.preDim = kbd.preDim
    BY <1>1, <1>4, ToggleSaves
  <2> QED BY <1>4, <2>1 DEF Kept
<1> QED BY <1>3, <1>4

\* DIM saves the level of a keyboard that is on; one that is toggled off is
\* darker than the dim level already.
LEMMA DimKept ==
  ASSUME CacheInv, Kept, kbd.now = kbd.hw, PercentageToAbs(DimPercent) > 0,
         kbd' = KbdBacklightDim(kbd, TRUE), user' = user, kbd.preDim = None, mode' = DIM
  PROVE  Kept'
<1> DEFINE idle == PercentageToAbs(DimPercent)
<1>1. kbd \in Kbd BY DEF CacheInv
<1>2. kbd.hw \in Level BY <1>1, LevelFacts
<1>3. CASE kbd' = kbd BY <1>3 DEF Kept, DIM, NORMAL
<1>4. CASE kbd' # kbd
  <2>1. idle <= kbd.now /\ Succeeds(kbd, idle, TRUE)
    BY <1>4 DEF KbdBacklightDim
  <2>2. idle \in Level BY <1>1, <2>1, LevelFacts DEF Succeeds
  <2>3. kbd.old = None
    <3>1. kbd.now \in Int /\ idle \in Int BY <1>1, <2>2, LevelFacts
    <3>2. kbd.hw # 0 BY <2>1, <3>1
    <3> QED BY <3>2 DEF Kept
  <2> DEFINE s == SetBrightness(kbd, idle, TRUE)
  <2>4. s \in Kbd BY <1>1, SetBrightnessType
  <2>5. s.old = kbd.old BY <1>1, <2>2, SetBrightnessSets
  <2>6. kbd' = [s EXCEPT !.preDim = kbd.now] BY <2>1 DEF KbdBacklightDim
  <2> HIDE DEF s
  <2>7. kbd'.preDim = kbd.hw /\ kbd'.old = None BY <2>3, <2>4, <2>5, <2>6 DEF Kbd
  <2>8. mode' # NORMAL BY DEF DIM, NORMAL
  <2> QED BY <1>2, <2>3, <2>7, <2>8, NoneIsNoLevel DEF Kept
<1> QED BY <1>3, <1>4

\* NORMAL undoes both, in whichever order they were done.
LEMMA NormalKept ==
  ASSUME CacheInv, Kept, kbd.now = kbd.hw, user' = user,
         kbd' = Undim(IF kbd.old # None THEN Toggle(kbd, TRUE) ELSE kbd, TRUE)
  PROVE  Kept'
<1>1. kbd \in Kbd /\ Announced(kbd) BY DEF CacheInv
<1> DEFINE k == IF kbd.old # None THEN Toggle(kbd, TRUE) ELSE kbd
<1>2. k \in Kbd BY <1>1, ToggleKeeps
<1>3. /\ k.now = k.hw /\ k.old = None /\ k.preDim = kbd.preDim
      /\ k.hw = IF kbd.old # None THEN kbd.old ELSE kbd.hw
  BY <1>1, ToggleSaves
<1>4. kbd' = Undim(k, TRUE) OBVIOUS
<1> HIDE DEF k
<1>5. /\ kbd'.hw = IF k.preDim # None THEN k.preDim ELSE k.hw
      /\ kbd'.old = None /\ kbd'.preDim = None
  BY <1>2, <1>3, <1>4, UndimRestores
<1> QED BY <1>3, <1>5 DEF Kept

\* In NORMAL, with nothing toggled off, a client's level is the user's.
LEMMA AdjustKept ==
  ASSUME CacheInv, Kept, Undisturbed, NEW v, NEW r, MethodSets(v, r)
  PROVE  Kept'
<1>1. kbd \in Kbd BY DEF CacheInv
<1>2. mode = NORMAL /\ kbd.old = None /\ kbd.signals = <<>> /\ mode' = mode
  BY DEF MethodSets, MayAdjust, Ready, Undisturbed
<1>3. kbd.now = kbd.hw BY <1>2 DEF CacheInv, Announced
<1>4. CASE UNCHANGED <<kbd, user>> BY <1>2, <1>4 DEF Kept
<1>5. CASE /\ Succeeds(kbd, v, TRUE) /\ kbd' = SetBrightness(kbd, v, TRUE) /\ user' = v
  <2>1. v \in Level BY <1>1, <1>5, LevelFacts DEF Succeeds
  <2>2. kbd'.hw = v /\ kbd'.old = None /\ kbd'.preDim = None
    BY <1>1, <1>2, <1>3, <1>5, <2>1, SetBrightnessSets DEF Kept
  <2> QED BY <1>5, <2>2 DEF Kept
<1>6. Outcome = {TRUE} BY DEF Outcome, Undisturbed
<1> QED BY <1>4, <1>5, <1>6 DEF MethodSets

\* While nobody interferes, every action keeps the user's level somewhere.
LEMMA KeptStep ==
  ASSUME CacheInv, ModeOK, Kept, Undisturbed, [Next]_vars
  PROVE  Kept'
<1>1. kbd \in Kbd BY DEF CacheInv
<1>2. Ready => kbd.now = kbd.hw BY DEF Ready, Undisturbed, CacheInv, Announced
<1>3. \A ok \in Outcome : ok = TRUE BY DEF Outcome, Undisturbed
<1>4. CASE GoDim
  <2>1. kbd.now = kbd.hw /\ mode < DIM /\ mode' = DIM /\ user' = user BY <1>2, <1>4 DEF GoDim
  <2>2. CASE kbd' = kbd BY <2>1, <2>2 DEF Kept, DIM, NORMAL
  <2>3. CASE kbd' = KbdBacklightDim(kbd, TRUE)
    <3>1. mode = NORMAL BY <2>1 DEF DIM, NORMAL, SLEEP, ModeOK
    <3> QED BY <2>1, <2>3, <3>1, DimKept DEF Kept, Undisturbed
  <2> QED BY <1>3, <1>4, <2>2, <2>3 DEF GoDim
<1>5. CASE GoBlank
  <2>1. kbd.now = kbd.hw /\ mode' = BLANK /\ user' = user BY <1>2, <1>5 DEF GoBlank
  <2>2. mode' # NORMAL BY <2>1 DEF BLANK, NORMAL
  <2>3. kbd' = kbd \/ kbd' = Toggle(kbd, TRUE) BY <1>3, <1>5 DEF GoBlank
  <2>4. CASE kbd' = kbd BY <2>1, <2>2, <2>4 DEF Kept
  <2> QED BY <2>1, <2>2, <2>3, <2>4, ToggleKept
<1>6. CASE GoSleep BY <1>6 DEF GoSleep, Kept, SLEEP, NORMAL
<1>7. CASE GoNormal
  <2>1. kbd.now = kbd.hw /\ user' = user BY <1>2, <1>7 DEF GoNormal
  <2>2. kbd' = Undim(IF kbd.old # None THEN Toggle(kbd, TRUE) ELSE kbd, TRUE)
    BY <1>3, <1>7 DEF GoNormal
  <2> QED BY <2>1, <2>2, NormalKept
<1>8. CASE SuspendWithLidClosed \/ DoLidOpenAction
  <2>1. kbd.now = kbd.hw /\ mode' = mode /\ user' = user
    BY <1>2, <1>8 DEF SuspendWithLidClosed, DoLidOpenAction
  <2>2. kbd' = kbd \/ kbd' = Toggle(kbd, TRUE)
    BY <1>3, <1>8 DEF SuspendWithLidClosed, DoLidOpenAction
  <2>3. CASE kbd' = kbd BY <2>1, <2>3 DEF Kept
  <2>4. mode' = NORMAL => kbd.preDim = None BY <2>1 DEF Kept
  <2> QED BY <2>1, <2>2, <2>3, <2>4, ToggleKept
<1>9. CASE SetPercentage \/ StepUp \/ StepDown
  BY <1>9, AdjustKept DEF SetPercentage, StepUp, StepDown
<1>10. CASE GetPercentage
  <2>1. /\ kbd'.old = kbd.old /\ kbd'.preDim = kbd.preDim /\ kbd'.hw = kbd.hw
        /\ user' = user /\ mode' = mode
    BY <1>1, <1>10 DEF GetPercentage, Kbd
  <2> QED BY <2>1 DEF Kept
<1>11. CASE ToggleMethod BY <1>11 DEF ToggleMethod, Undisturbed
<1>12. ASSUME NEW v \in Level, FirmwareKey(v) PROVE Kept'
  <2>1. mode = NORMAL /\ kbd.old = None /\ mode' = mode /\ user' = v
    BY <1>12 DEF FirmwareKey, MayAdjust, Undisturbed
  <2>2. kbd'.hw = v /\ kbd'.old = None /\ kbd'.preDim = None
    BY <1>1, <1>12, <2>1 DEF FirmwareKey, Kbd, Kept
  <2> QED BY <2>1, <2>2 DEF Kept
<1>13. CASE HandleChanged
  <2>1. /\ kbd'.old = kbd.old /\ kbd'.preDim = kbd.preDim /\ kbd'.hw = kbd.hw
        /\ user' = user /\ mode' = mode
    BY <1>1, <1>13 DEF HandleChanged, Kbd
  <2> QED BY <2>1 DEF Kept
<1>14. CASE UNCHANGED vars BY <1>14 DEF vars, Kept
<1> QED
  BY <1>4, <1>5, <1>6, <1>7, <1>8, <1>9, <1>10, <1>11, <1>12, <1>13, <1>14 DEF Next, Step

\* However dimming, blanking and the lid overlap, the level the user chose is
\* brought back once the session is in NORMAL with nothing toggled off, for any
\* number of levels and any dim level that is not "off".
THEOREM UserLevelBack == Spec => []UserLevelRestored
<1>1. Init => KeptInv
  <2>1. Init => Kept BY DEF Init, Kept
  <2>2. Init => ModeOK BY DEF Init, ModeOK, NORMAL, SLEEP
  <2> QED BY <2>1, <2>2, CacheStep DEF KeptInv
<1>2. KeptInv /\ [Next]_vars => KeptInv'
  <2> SUFFICES ASSUME KeptInv, [Next]_vars PROVE KeptInv' OBVIOUS
  <2>1. CacheInv' BY CacheStep DEF KeptInv
  <2>2. ModeOK'
    <3>1. CASE GoDim \/ GoBlank \/ GoSleep \/ GoNormal
      BY <3>1 DEF GoDim, GoBlank, GoSleep, GoNormal, ModeOK, NORMAL, DIM, BLANK, SLEEP
    <3>2. ASSUME NEW v, NEW r, MethodSets(v, r) PROVE ModeOK'
      BY <3>2 DEF MethodSets, KeptInv, ModeOK
    <3>3. CASE SetPercentage \/ StepUp \/ StepDown BY <3>2, <3>3 DEF SetPercentage, StepUp, StepDown
    <3>4. ASSUME SuspendWithLidClosed \/ DoLidOpenAction \/ GetPercentage \/ HandleChanged PROVE ModeOK'
      BY <3>4 DEF SuspendWithLidClosed, DoLidOpenAction, GetPercentage, HandleChanged, KeptInv, ModeOK
    <3>5. CASE ToggleMethod BY <3>5 DEF ToggleMethod, KeptInv, ModeOK
    <3>6. ASSUME NEW v \in Level, FirmwareKey(v) PROVE ModeOK'
      BY <3>6 DEF FirmwareKey, KeptInv, ModeOK
    <3>7. CASE UNCHANGED vars BY <3>7 DEF vars, KeptInv, ModeOK
    <3> QED BY <3>1, <3>3, <3>4, <3>5, <3>6, <3>7 DEF Next, Step
  <2>3. Undisturbed' => Undisturbed BY DEF Next, vars, Undisturbed, PercentageToAbs
  <2>4. Undisturbed => Kept' BY KeptStep DEF KeptInv
  <2> QED BY <2>1, <2>2, <2>3, <2>4 DEF KeptInv
<1>3. KeptInv => UserLevelRestored
  BY DEF KeptInv, Kept, Undisturbed, UserLevelRestored, RestoredNow
<1> QED BY <1>1, <1>2, <1>3, PTL DEF Spec

-----------------------------------------------------------------------------
(* The tablet, for any settings.                                           *)

LEMMA PartIsTablet == AllSpec => Tablet!Spec
<1>1. AllInit => Tablet!Init BY DEF AllInit
<1>2. [AllNext]_allVars => [Tablet!Next]_Tablet!vars
  BY DEF AllNext, allVars, orientationVars, Tablet!vars
<1> QED BY <1>1, <1>2, PTL DEF AllSpec, Tablet!Spec

Turn == 0 .. 3
Begun == started \notin {"off", "idle"}

\* The types, and what has not happened yet before the proxy is there.
TabletTypes ==
  /\ how \in Settings
  /\ device \in Turn /\ rotation \in Turn /\ prev_orientation \in Turn \cup {4}
  /\ started # "idle" => prev_orientation \in Turn
  /\ uevents \in Seq(Turn)
  /\ started \in {"off", "idle", "bus", "proxy", "ready", "no proxy"}
  /\ lock \in BOOLEAN /\ first \in BOOLEAN /\ missed \in BOOLEAN
  /\ call \in [to : Turn, at : {"sent", "answered"}] \cup {Tablet!None}
  /\ key.at \in {"nowhere", "sent", "answered"}
  /\ ~how.keys => key.at = "nowhere"
  /\ how.polls => uevents = <<>>
  /\ started \in {"off", "idle"} => uevents = <<>>
  /\ started \in {"idle", "bus", "proxy"} => call.at = "nowhere" /\ first = TRUE

\* Of a tablet that sends events the manager knows how it is held, once the
\* last one is dispatched, unless the lock hid it.
Events ==
  /\ uevents # <<>> => uevents[Len(uevents)] = device
  /\ ~how.polls /\ Begun /\ ~missed /\ uevents = <<>> => prev_orientation = device

\* The screen stands as the manager last knew, or is about to, unless a turn
\* was missed.
Asked ==
  (how.polls => ~first) /\ Begun /\ ~missed /\ prev_orientation \in how.allowed =>
    IF call.at = "sent" THEN call.to = prev_orientation ELSE rotation = prev_orientation

\* A calm tablet is not turned while a call is under way, so that the call is
\* about the last turn; a turn that fell into the lock is made up for.
Calmly ==
  how.calm /\ how.polls =>
    /\ call.at = "sent" => call.to = prev_orientation
    /\ call.at = "answered" => rotation = prev_orientation
    /\ started = "ready" /\ ~first /\ ~lock /\ call.at = "nowhere" => rotation = prev_orientation

TabletInv == TabletTypes /\ Events /\ Asked /\ Calmly /\ touch = rotation

\* What the settings are.
LEMMA SettingsFacts ==
  ASSUME how \in Settings
  PROVE  /\ how.allowed \subseteq Turn
         /\ how.calm => how.allowed = Turn /\ ~how.keys
BY SettingsAssumption DEF Turn

LEMMA TabletStart == Tablet!Init => TabletInv
<1> SUFFICES ASSUME Tablet!Init PROVE TabletInv OBVIOUS
<1> USE DEF Tablet!Init, Tablet!None, Tablet!Undefined
<1>1. <<>> \in Seq(Turn) OBVIOUS
<1>2. TabletTypes BY <1>1 DEF TabletTypes, Turn
<1>3. Events /\ Asked /\ Calmly BY DEF Events, Asked, Calmly, Begun
<1> QED BY <1>2, <1>3 DEF TabletInv

\* Queues of uevents.
LEMMA UeventFacts ==
  ASSUME NEW q \in Seq(Turn)
  PROVE  /\ \A o \in Turn : /\ Append(q, o) \in Seq(Turn) /\ Append(q, o) # <<>>
                            /\ Append(q, o)[Len(Append(q, o))] = o
         /\ q # <<>> => /\ Tail(q) \in Seq(Turn) /\ Head(q) \in Turn
                        /\ Tail(q) = <<>> => Head(q) = q[Len(q)]
                        /\ Tail(q) # <<>> => Tail(q)[Len(Tail(q))] = q[Len(q)]
<1>1. ASSUME NEW o \in Turn
      PROVE  /\ Append(q, o) \in Seq(Turn) /\ Append(q, o) # <<>>
             /\ Append(q, o)[Len(Append(q, o))] = o
  OBVIOUS
<1>2. ASSUME q # <<>>
      PROVE  /\ Tail(q) \in Seq(Turn) /\ Head(q) \in Turn
             /\ Tail(q) = <<>> => Head(q) = q[Len(q)]
             /\ Tail(q) # <<>> => Tail(q)[Len(Tail(q))] = q[Len(q)]
  <2>1. Len(q) \in Nat /\ Len(q) > 0 /\ DOMAIN q = 1 .. Len(q) BY <1>2
  <2>2. Tail(q) \in Seq(Turn) /\ Len(Tail(q)) = Len(q) - 1 BY <1>2, <2>1
  <2>3. \A i \in 1 .. Len(q) - 1 : Tail(q)[i] = q[i + 1] BY <1>2, <2>1
  <2>4. Head(q) = q[1] /\ Head(q) \in Turn BY <1>2, <2>1
  <2>5. Tail(q) = <<>> => Len(q) = 1
    <3>1. Len(<<>>) = 0 OBVIOUS
    <3>2. Tail(q) = <<>> => Len(Tail(q)) = 0 BY <3>1, Zenon
    <3> QED BY <2>1, <2>2, <3>2
  <2>6. Tail(q) # <<>> => Len(q) - 1 \in 1 .. Len(q) - 1 BY <2>1, <2>2
  <2> QED BY <2>1, <2>2, <2>3, <2>4, <2>5, <2>6
<1> QED BY <1>1, <1>2

\* What asking the xrandr plugin does.
LEMMA AskFacts ==
  ASSUME NEW o \in Turn, NEW locked \in BOOLEAN, Tablet!DoRotation(o, locked)
  PROVE  \/ missed' = TRUE /\ call' = call
         \/ /\ missed' = FALSE /\ call' = [to |-> o, at |-> "sent"]
            /\ ~locked /\ started \in {"ready", "off"} /\ call = Tablet!None
BY DEF Tablet!DoRotation, Tablet!HasProxy

LEMMA AskedAgain ==
  ASSUME NEW o \in Turn, NEW locked \in BOOLEAN, Tablet!DoRotation(o, locked),
         ~locked, started \in {"ready", "off"}, call = Tablet!None
  PROVE  call' = [to |-> o, at |-> "sent"]
BY DEF Tablet!DoRotation, Tablet!HasProxy, Tablet!Undefined, Turn

LEMMA TabletStep == TabletInv /\ [Tablet!Next]_Tablet!vars => TabletInv'
<1> SUFFICES ASSUME TabletInv, [Tablet!Next]_Tablet!vars PROVE TabletInv' OBVIOUS
<1> USE DEF TabletInv
<1>0. TabletTypes /\ Events /\ Asked /\ Calmly /\ touch = rotation OBVIOUS
<1>a. how' = how
  BY DEF Tablet!Next, Tablet!vars, Tablet!Turn, Tablet!StartIdle, Tablet!BusGotten, Tablet!XrandrReady,
         Tablet!ClientUevent, Tablet!MpuTimer, Tablet!OrientationLockChanged, Tablet!ActionFinished,
         Tablet!DoVideoRotate, Tablet!RotateFinished, Tablet!RotateTo, Tablet!Rotate, Tablet!Stop
<1>b. how \in Settings /\ how.allowed \subseteq Turn /\ (how.calm => how.allowed = Turn /\ ~how.keys)
  BY SettingsFacts DEF TabletTypes
<1>c. uevents \in Seq(Turn) BY DEF TabletTypes
<1>1. ASSUME NEW o \in Turn, Tablet!Turn(o) PROVE TabletInv'
  <2>1. /\ device' = o
        /\ uevents' = IF how.polls \/ started \in {"off", "idle"} THEN uevents ELSE Append(uevents, o)
        /\ UNCHANGED <<started, lock, prev_orientation, timers, first, call, key, rotation, touch, missed, how>>
    BY <1>1 DEF Tablet!Turn, Tablet!screen
  <2>2. CASE how.polls \/ started \in {"off", "idle"}
    <3>1. uevents' = uevents /\ uevents = <<>> BY <2>1, <2>2 DEF TabletTypes
    <3>2. TabletTypes' BY <2>1, <3>1 DEF TabletTypes
    <3>3. Events' BY <2>1, <2>2, <3>1 DEF Events, Begun
    <3>4. Asked' /\ Calmly' BY <2>1 DEF Asked, Calmly, Begun
    <3> QED BY <2>1, <3>2, <3>3, <3>4
  <2>3. CASE ~(how.polls \/ started \in {"off", "idle"})
    <3>1. /\ uevents' \in Seq(Turn) /\ uevents' # <<>> /\ uevents'[Len(uevents')] = o
      BY <1>c, <2>1, <2>3, UeventFacts
    <3>2. TabletTypes' BY <2>1, <2>3, <3>1 DEF TabletTypes
    <3>3. Events' BY <2>1, <3>1 DEF Events
    <3>4. Asked' /\ Calmly' BY <2>1 DEF Asked, Calmly, Begun
    <3> QED BY <2>1, <3>2, <3>3, <3>4
  <2> QED BY <2>2, <2>3
<1>2. CASE Tablet!StartIdle
  <2>1. /\ started = "idle" /\ started' = "bus" /\ missed' = (device # rotation)
        /\ prev_orientation' = IF how.polls THEN 0 ELSE device
        /\ UNCHANGED <<device, uevents, lock, first, call, key, rotation, touch, how>>
    BY <1>2 DEF Tablet!StartIdle, Tablet!held, Tablet!screen
  <2>2. TabletTypes' BY <2>1 DEF TabletTypes, Turn
  <2>3. Events' BY <2>1 DEF Events, TabletTypes
  <2>4. Asked' BY <2>1 DEF Asked, TabletTypes
  <2>5. Calmly' BY <2>1 DEF Calmly, TabletTypes
  <2> QED BY <2>1, <2>2, <2>3, <2>4, <2>5
<1>3. CASE Tablet!BusGotten \/ Tablet!XrandrReady
  <2>1. /\ started \in {"bus", "proxy"} /\ started' \in {"proxy", "ready", "no proxy"}
        /\ UNCHANGED <<device, uevents, lock, prev_orientation, first, call, key, rotation, touch, missed, how>>
    BY <1>3 DEF Tablet!BusGotten, Tablet!XrandrReady, Tablet!held, Tablet!screen
  <2>2. TabletTypes' BY <2>1 DEF TabletTypes
  <2>3. Events' BY <2>1 DEF Events, Begun
  <2>4. Asked' BY <2>1 DEF Asked, Begun
  <2>5. Calmly' BY <2>1 DEF Calmly, TabletTypes
  <2> QED BY <2>1, <2>2, <2>3, <2>4, <2>5
<1>4. CASE Tablet!ClientUevent
  <2>1. /\ Begun /\ uevents # <<>> /\ uevents' = Tail(uevents)
        /\ UNCHANGED <<device, started, lock, first, key, rotation, touch, how>>
    BY <1>4 DEF Tablet!ClientUevent, Tablet!screen, Begun
  <2>2. /\ uevents' \in Seq(Turn) /\ Head(uevents) \in Turn /\ ~how.polls
        /\ uevents' = <<>> => Head(uevents) = device
        /\ uevents' # <<>> => uevents'[Len(uevents')] = device
    BY <1>c, <2>1, UeventFacts DEF Events, TabletTypes
  <2>3. CASE lock \/ Head(uevents) = prev_orientation
    <3>1. UNCHANGED <<prev_orientation, call>> /\ missed' = (missed \/ lock)
      BY <1>4, <2>3 DEF Tablet!ClientUevent
    <3>2. TabletTypes' BY <2>1, <2>2, <3>1 DEF TabletTypes, Begun
    <3>3. Events' BY <2>1, <2>2, <2>3, <3>1 DEF Events
    <3>4. Asked' BY <2>1, <3>1 DEF Asked, Begun
    <3>5. Calmly' BY <2>1, <2>2 DEF Calmly
    <3> QED BY <2>1, <3>2, <3>3, <3>4, <3>5
  <2>4. CASE ~lock /\ Head(uevents) # prev_orientation
    <3>1. prev_orientation' = Head(uevents) /\ Tablet!DoRotation(Head(uevents), lock)
      BY <1>4, <2>4 DEF Tablet!ClientUevent
    <3>2. \/ missed' = TRUE /\ call' = call
          \/ /\ missed' = FALSE /\ call' = [to |-> prev_orientation', at |-> "sent"]
             /\ started = "ready"
      <4>1. Head(uevents) \in Turn /\ lock \in BOOLEAN BY <2>2 DEF TabletTypes
      <4>2. \/ missed' = TRUE /\ call' = call
            \/ /\ missed' = FALSE /\ call' = [to |-> Head(uevents), at |-> "sent"]
               /\ started \in {"ready", "off"}
        BY <3>1, <4>1, AskFacts
      <4> QED BY <2>1, <3>1, <4>2 DEF Begun
    <3>3. TabletTypes'
      <4>1. CASE call' = call
        BY <2>1, <2>2, <3>1, <3>2, <4>1 DEF TabletTypes, Begun
      <4>2. CASE call' = [to |-> prev_orientation', at |-> "sent"] /\ started = "ready"
        BY <2>1, <2>2, <3>1, <3>2, <4>2 DEF TabletTypes
      <4> QED BY <3>2, <4>1, <4>2
    <3>4. Events' BY <2>1, <2>2, <3>1 DEF Events
    <3>5. Asked' BY <2>1, <3>2 DEF Asked
    <3>6. Calmly' BY <2>1, <2>2 DEF Calmly
    <3> QED BY <2>1, <3>3, <3>4, <3>5, <3>6
  <2> QED BY <2>3, <2>4
<1>5. CASE Tablet!MpuTimer
  <2>1. /\ started \in {"ready", "off"} /\ (how.calm => call = Tablet!None)
        /\ UNCHANGED <<device, uevents, started, lock, key, rotation, touch, how>>
    BY <1>5 DEF Tablet!MpuTimer, Tablet!HasProxy, Tablet!held, Tablet!screen
  <2>2. CASE device # prev_orientation \/ first
    <3>1. first' = FALSE /\ prev_orientation' = device /\ Tablet!DoRotation(device, lock)
      BY <1>5, <2>2 DEF Tablet!MpuTimer
    <3>2. device \in Turn /\ lock \in BOOLEAN BY DEF TabletTypes
    <3>3. \/ missed' = TRUE /\ call' = call
          \/ /\ missed' = FALSE /\ call' = [to |-> prev_orientation', at |-> "sent"]
      BY <3>1, <3>2, AskFacts
    <3>4. ~lock /\ call = Tablet!None => call' = [to |-> prev_orientation', at |-> "sent"]
      <4> SUFFICES ASSUME ~lock, call = Tablet!None PROVE call' = [to |-> device, at |-> "sent"]
        BY <3>1
      <4> QED BY <2>1, <3>1, <3>2, AskedAgain
    <3>5. TabletTypes'
      <4>1. CASE call' = call
        BY <2>1, <3>1, <3>2, <3>3, <4>1 DEF TabletTypes
      <4>2. CASE call' = [to |-> prev_orientation', at |-> "sent"]
        BY <2>1, <3>1, <3>2, <3>3, <4>2 DEF TabletTypes
      <4> QED BY <3>3, <4>1, <4>2
    <3>6. Events' BY <2>1, <3>1 DEF Events
    <3>7. Asked' BY <2>1, <3>3 DEF Asked
    <3>8. Calmly' BY <2>1, <3>1, <3>3, <3>4 DEF Calmly, Tablet!None
    <3> QED BY <2>1, <3>5, <3>6, <3>7, <3>8
  <2>3. CASE ~(device # prev_orientation \/ first)
    <3>1. UNCHANGED <<first, prev_orientation, call, missed>>
      BY <1>5, <2>3 DEF Tablet!MpuTimer
    <3> QED BY <2>1, <3>1 DEF TabletTypes, Events, Asked, Calmly, Begun
  <2> QED BY <2>2, <2>3
<1>6. CASE Tablet!OrientationLockChanged
  <2>1. /\ started # "off" /\ lock' = ~lock
        /\ UNCHANGED <<device, uevents, started, prev_orientation, first, key, rotation, touch, how>>
    BY <1>6 DEF Tablet!OrientationLockChanged, Tablet!held, Tablet!screen
  <2>2. \/ UNCHANGED <<call, missed>> /\ (lock' \/ started # "ready")
        \/ /\ call' = [to |-> prev_orientation, at |-> "sent"] /\ missed' = missed
           /\ prev_orientation # 4 /\ started = "ready" /\ call = Tablet!None
        \/ /\ call' = call /\ missed' = TRUE /\ ~lock'
           /\ ~(prev_orientation # 4 /\ started = "ready" /\ call = Tablet!None)
    <3>1. CASE lock /\ started # "idle"
      <4>1. LET asks == prev_orientation # 4 /\ started = "ready" /\ call = Tablet!None
            IN /\ call' = IF asks THEN [to |-> prev_orientation, at |-> "sent"] ELSE call
               /\ missed' = (missed \/ ~asks)
        BY <1>6, <3>1 DEF Tablet!OrientationLockChanged, Tablet!Undefined
      <4>2. CASE prev_orientation # 4 /\ started = "ready" /\ call = Tablet!None
        BY <4>1, <4>2 DEF TabletTypes
      <4>3. CASE ~(prev_orientation # 4 /\ started = "ready" /\ call = Tablet!None)
        BY <2>1, <3>1, <4>1, <4>3
      <4> QED BY <4>2, <4>3
    <3>2. CASE ~(lock /\ started # "idle")
      <4>1. UNCHANGED <<call, missed>> BY <1>6, <3>2 DEF Tablet!OrientationLockChanged
      <4> QED BY <2>1, <3>2, <4>1
    <3> QED BY <3>1, <3>2
  <2>3. TabletTypes'
    <3>1. CASE call' = call
      BY <2>1, <2>2, <3>1 DEF TabletTypes
    <3>2. CASE call' = [to |-> prev_orientation, at |-> "sent"] /\ started = "ready" /\ missed' = missed
               /\ prev_orientation # 4
      BY <2>1, <3>2 DEF TabletTypes
    <3> QED BY <2>2, <3>1, <3>2
  <2>4. Events' BY <2>1, <2>2 DEF Events, Begun
  <2>5. Asked'
    <3>1. CASE call' = [to |-> prev_orientation, at |-> "sent"] BY <2>1, <3>1 DEF Asked
    <3>2. CASE UNCHANGED <<call, missed>> BY <2>1, <3>2 DEF Asked, Begun
    <3>3. CASE missed' = TRUE BY <3>3 DEF Asked
    <3> QED BY <2>2, <3>1, <3>2, <3>3
  <2>6. Calmly'
    <3>1. CASE call' = [to |-> prev_orientation, at |-> "sent"] BY <2>1, <3>1 DEF Calmly
    <3>2. CASE call' = call /\ (lock' \/ started # "ready") BY <2>1, <3>2 DEF Calmly
    <3>3. CASE call' = call /\ started = "ready" /\ ~(prev_orientation # 4 /\ call = Tablet!None)
      <4>1. SUFFICES ASSUME how.calm /\ how.polls, call.at = "nowhere" PROVE rotation = prev_orientation
        BY <2>1, <3>3 DEF Calmly
      <4>2. call = Tablet!None BY <4>1 DEF TabletTypes
      <4>3. prev_orientation \in Turn BY <3>3 DEF TabletTypes
      <4> QED BY <3>3, <4>2, <4>3 DEF Turn
    <3> QED BY <2>1, <2>2, <3>1, <3>2, <3>3
  <2> QED BY <2>1, <2>3, <2>4, <2>5, <2>6
<1>7. CASE Tablet!ActionFinished
  <2>1. /\ call.at = "answered" /\ call' = Tablet!None
        /\ UNCHANGED <<device, uevents, started, lock, prev_orientation, first, key, rotation, touch, missed, how>>
    BY <1>7 DEF Tablet!ActionFinished, Tablet!held, Tablet!screen
  <2>2. call'.at = "nowhere" BY <2>1 DEF Tablet!None
  <2>3. TabletTypes' BY <2>1, <2>2 DEF TabletTypes
  <2>4. Events' /\ Asked' /\ Calmly' BY <2>1, <2>2 DEF Events, Asked, Calmly, Begun
  <2> QED BY <2>1, <2>3, <2>4
<1>8. CASE Tablet!DoVideoRotate \/ Tablet!RotateFinished
  <2>1. /\ key'.at \in {"sent", "nowhere"} /\ (~how.keys => key'.at = "nowhere")
        /\ UNCHANGED <<device, uevents, started, lock, prev_orientation, first, call, rotation, touch, missed, how>>
    BY <1>8 DEF Tablet!DoVideoRotate, Tablet!RotateFinished, Tablet!held, Tablet!screen, Tablet!None
  <2>2. TabletTypes' BY <2>1 DEF TabletTypes
  <2>3. Events' /\ Asked' /\ Calmly' BY <2>1 DEF Events, Asked, Calmly, Begun
  <2> QED BY <2>1, <2>2, <2>3
<1>9. CASE Tablet!RotateTo
  <2>1. /\ call.at = "sent" /\ call' = [call EXCEPT !.at = "answered"]
        /\ Tablet!HandleRotateWindows(call.to)
        /\ UNCHANGED <<device, uevents, started, lock, prev_orientation, first, key, missed, how>>
    BY <1>9 DEF Tablet!RotateTo, Tablet!held
  <2>2. call.to \in Turn /\ call' = [to |-> call.to, at |-> "answered"]
    <3>1. call \in [to : Turn, at : {"sent", "answered"}]
      <4>1. call # Tablet!None BY <2>1 DEF Tablet!None
      <4> QED BY <4>1 DEF TabletTypes
    <3> QED BY <2>1, <3>1
  <2>3. /\ rotation' = IF call.to \in how.allowed THEN call.to ELSE rotation
        /\ touch' = rotation'
    BY <2>1, <2>2 DEF Tablet!HandleRotateWindows, Tablet!Next90, Turn
  <2>4. rotation' \in Turn BY <1>b, <2>3 DEF TabletTypes
  <2>5. TabletTypes' BY <2>1, <2>2, <2>4 DEF TabletTypes
  <2>6. Events' BY <2>1 DEF Events, Begun
  <2>7. Asked' BY <2>1, <2>2, <2>3 DEF Asked, Begun
  <2>8. Calmly' BY <1>b, <2>1, <2>2, <2>3 DEF Calmly
  <2> QED BY <2>3, <2>5, <2>6, <2>7, <2>8
<1>10. CASE Tablet!Rotate
  <2>1. /\ key.at = "sent" /\ key'.at = "answered" /\ missed' = (missed \/ rotation' # rotation)
        /\ UNCHANGED <<device, uevents, started, lock, prev_orientation, first, call, how>>
    BY <1>10 DEF Tablet!Rotate, Tablet!held
  <2>2. how.keys /\ ~how.calm BY <1>b, <2>1 DEF TabletTypes
  <2>3. touch' = rotation' /\ rotation' \in Turn
    BY <1>b, <1>10 DEF Tablet!Rotate, Tablet!HandleRotateWindows, TabletTypes
  <2>4. TabletTypes' BY <2>1, <2>2, <2>3 DEF TabletTypes
  <2>5. Events' BY <2>1 DEF Events, Begun
  <2>6. Asked' BY <2>1 DEF Asked, Begun
  <2>7. Calmly' BY <2>1, <2>2 DEF Calmly
  <2> QED BY <2>3, <2>4, <2>5, <2>6, <2>7
<1>11. CASE Tablet!Stop
  <2>1. /\ started = "ready" /\ started' = "off" /\ uevents' = <<>>
        /\ UNCHANGED <<device, lock, prev_orientation, first, call, key, rotation, touch, missed, how>>
    BY <1>11 DEF Tablet!Stop, Tablet!screen
  <2>2. uevents' \in Seq(Turn) BY <2>1
  <2>3. TabletTypes' BY <2>1, <2>2 DEF TabletTypes
  <2>4. Events' /\ Asked' BY <2>1 DEF Events, Asked, Begun
  <2>5. Calmly' BY <2>1 DEF Calmly
  <2> QED BY <2>1, <2>3, <2>4, <2>5
<1>12. CASE UNCHANGED Tablet!vars
  <2>1. UNCHANGED <<device, uevents, started, lock, prev_orientation, first, call, key, rotation,
                    touch, missed, how>>
    BY <1>12 DEF Tablet!vars
  <2>2. TabletTypes' BY <2>1 DEF TabletTypes
  <2>3. Events' /\ Asked' /\ Calmly' BY <2>1 DEF Events, Asked, Calmly, Begun
  <2> QED BY <2>1, <2>2, <2>3
<1>13. Tablet!Rotation = Turn BY DEF Tablet!Rotation, Turn
<1> QED
  BY <1>1, <1>2, <1>3, <1>4, <1>5, <1>6, <1>7, <1>8, <1>9, <1>10, <1>11, <1>12, <1>13 DEF Tablet!Next

\* Once every event is dispatched and every call answered, the unlocked screen
\* and the touchscreens stand as the tablet is held, unless the tablet was
\* turned while the manager could not look; one that polls makes up for what
\* fell into the lock (csd-orientation-manager.c:227-333).
THEOREM FollowsTablet == AllSpec => []FollowsAccelerometer
<1>1. TabletInv => Tablet!FollowsAccelerometer
  <2> SUFFICES ASSUME TabletInv, Tablet!Settled, ~lock
               PROVE  /\ ~missed /\ device \in how.allowed => rotation = device
                      /\ how.calm /\ how.polls => rotation = device
    BY DEF Tablet!FollowsAccelerometer, TabletInv
  <2>1. /\ started = "ready" /\ uevents = <<>> /\ call.at = "nowhere"
        /\ how.polls => prev_orientation = device /\ ~first
    BY DEF Tablet!Settled, Tablet!Still, Tablet!None
  <2>2. ~missed /\ device \in how.allowed => rotation = device
    BY <2>1 DEF TabletInv, Events, Asked, Begun
  <2>3. how.calm /\ how.polls => rotation = device
    BY <2>1 DEF TabletInv, Calmly
  <2> QED BY <2>2, <2>3
<1> QED BY <1>1, TabletStart, TabletStep, PartIsTablet, PTL DEF Tablet!Spec, FollowsAccelerometer

-----------------------------------------------------------------------------
(* The monitors, for any number of external ones and any scenario without  *)
(* the known deviations (Ordinary): one question is dealt with at a time,  *)
(* and while one is open the backup is what the user agreed to last.       *)

Ordinary ==
  /\ "overlap" \notin scene.may /\ "first" \notin scene.may
  /\ "crash" \notin scene.may \/ "keys" \notin scene.may

Unasked == calling = FALSE /\ queued = 0 /\ asking = <<>>
Pending ==
  /\ running = TRUE
  /\ \/ calling = TRUE /\ queued = 0 /\ asking = <<>>
     \/ calling = FALSE /\ queued = 1 /\ asking = <<>>
     \/ calling = FALSE /\ queued = 0 /\ asking = <<FALSE>>

Table(f) == f # Monitors!Absent /\ DOMAIN f = SUBSET External

StoredInv ==
  /\ Table(intended) /\ (backup = Monitors!Absent \/ Table(backup))
  /\ running \in BOOLEAN
  /\ \/ Pending /\ backup = accepted /\ backup # Monitors!Absent
     \/ /\ Unasked /\ running = TRUE /\ intended = accepted
        /\ "keys" \in scene.may \/ backup = Monitors!Absent
     \/ /\ Unasked /\ running = FALSE /\ "crash" \in scene.may
        /\ accepted = IF backup = Monitors!Absent THEN intended ELSE backup

\* Where calls fail nothing else happens, so that "before" is what the backup
\* says of the monitors there are.
FailInv ==
  /\ connected = External /\ lid_is_closed = FALSE /\ events = 0 /\ expired \in BOOLEAN
  /\ intended[External] # Monitors!Null
  /\ Unasked => current = intended[External] /\ (expired => current = before)
  /\ ~Unasked =>
       /\ expired = FALSE /\ before = backup[External] /\ before # Monitors!Null
       /\ current = IF calling THEN before ELSE intended[External]

MonitorsInv ==
  /\ scene \in Scenes
  /\ Ordinary => StoredInv
  /\ "fail" \in scene.may => FailInv

LEMMA FrontOfOne == ASSUME NEW s \in Seq(BOOLEAN), Len(s) = 1 PROVE Monitors!Front(s) = <<>>
BY DEF Monitors!Front

LEMMA SavedIs ==
  ASSUME Table(intended), NEW c, Monitors!Save(c)
  PROVE  /\ Table(intended') /\ backup' = intended
         /\ connected \in SUBSET External => intended'[connected] = c
<1>1. intended' = [intended EXCEPT ![connected] = c] /\ backup' = intended
  BY DEF Monitors!Save, Monitors!Saved, Table
<1>2. DOMAIN intended' = SUBSET External
  BY <1>1 DEF Table
<1>3. DOMAIN Monitors!Absent = {}
  BY DEF Monitors!Absent
<1>4. {} \in SUBSET External
  OBVIOUS
<1>5. intended' # Monitors!Absent
  BY <1>2, <1>3, <1>4
<1> QED BY <1>1, <1>2, <1>5 DEF Table

LEMMA FailsAlone ==
  ASSUME scene \in Scenes, "fail" \in scene.may
  PROVE  Ordinary /\ scene.may \subseteq {"fail", "asks"}
BY ScenesAssumption DEF Ordinary

LEMMA Calls ==
  ASSUME MonitorsInv, NEW c \in Monitors!Config, Monitors!StoreAndCall(c), scene' = scene
  PROVE  MonitorsInv'
<1>1. /\ "asks" \in scene.may /\ running /\ ~calling
      /\ c.on # {} /\ Monitors!Save(c) /\ calling' = TRUE
      /\ before' = (IF "fail" \in scene.may \/ "first" \in scene.may THEN current ELSE Monitors!Null)
      /\ expired' = FALSE
      /\ connected' = connected /\ lid_is_closed' = lid_is_closed /\ events' = events /\ current' = current
      /\ running' = running /\ queued' = queued /\ asking' = asking /\ accepted' = accepted
  BY DEF Monitors!StoreAndCall, Monitors!May, Monitors!server
<1>2. ASSUME Ordinary PROVE Unasked /\ intended = accepted /\ StoredInv'
  <2>0. ~Monitors!Busy
    BY <1>2 DEF Monitors!StoreAndCall, Monitors!Free, Monitors!May, Ordinary
  <2>1. StoredInv /\ Unasked
    <3>1. StoredInv BY <1>2 DEF MonitorsInv
    <3>2. <<FALSE>> # <<>> OBVIOUS
    <3>3. ASSUME Pending PROVE FALSE
      <4>1. calling # TRUE /\ ~(queued > 0) /\ asking = <<>> BY <2>0 DEF Monitors!Busy
      <4>2. queued = 1 BY <3>2, <3>3, <4>1 DEF Pending
      <4> QED BY <4>1, <4>2
    <3> QED BY <3>1, <3>3 DEF StoredInv
  <2>2. intended = accepted /\ running = TRUE
    BY <2>1, <1>1 DEF StoredInv, Pending, Unasked
  <2>3. Table(intended') /\ backup' = intended
    BY <2>1, <1>1, SavedIs DEF StoredInv
  <2>4. Pending'
    BY <2>1, <2>2, <1>1 DEF Pending, Unasked
  <2>5. Table(backup') /\ backup' # Monitors!Absent
    BY <2>1, <2>3 DEF StoredInv, Table
  <2> QED BY <2>1, <2>2, <2>3, <2>4, <2>5, <1>1 DEF StoredInv
<1>3. ASSUME "fail" \in scene.may PROVE FailInv'
  <2>1. Ordinary BY <1>3, FailsAlone DEF MonitorsInv
  <2>2. StoredInv /\ FailInv /\ Unasked BY <2>1, <1>2, <1>3 DEF MonitorsInv
  <2>3. connected = External /\ lid_is_closed = FALSE /\ events = 0 /\ External \in SUBSET External BY <2>2 DEF FailInv
  <2>4. intended'[External] = c /\ backup' = intended
    BY <2>2, <2>3, <1>1, SavedIs DEF StoredInv
  <2>5. c # Monitors!Null BY <1>1 DEF Monitors!Null
  <2>6. ~Unasked' BY <1>1 DEF Unasked
  <2>7. before' = current /\ current = intended[External] /\ current # Monitors!Null
    BY <2>2, <1>1, <1>3 DEF FailInv
  <2> QED BY <2>2, <2>3, <2>4, <2>5, <2>6, <2>7, <1>1 DEF FailInv
<1> QED BY <1>2, <1>3 DEF MonitorsInv, Ordinary

\* What neither asks nor stores, and leaves the screen alone where calls fail.
LEMMA Untouched ==
  ASSUME MonitorsInv, scene' = scene,
         running' = running, intended' = intended, backup' = backup, accepted' = accepted,
         calling' = calling, queued' = queued, asking' = asking,
         before' = before, expired' = expired,
         "fail" \in scene.may => connected' = connected /\ lid_is_closed' = lid_is_closed /\ events' = events /\ current' = current
  PROVE  MonitorsInv'
<1>1. Unasked' = Unasked BY DEF Unasked
<1>2. StoredInv => StoredInv' BY <1>1 DEF StoredInv, Pending, Table
<1>3. "fail" \in scene.may /\ FailInv => FailInv' BY <1>1 DEF FailInv
<1> QED BY <1>2, <1>3 DEF MonitorsInv, Ordinary

LEMMA Applies ==
  ASSUME MonitorsInv, Monitors!ApplyConfiguration, scene' = scene
  PROVE  MonitorsInv'
<1>1. /\ running /\ calling /\ calling' = FALSE
      /\ connected' = connected /\ lid_is_closed' = lid_is_closed /\ events' = events /\ running' = running
      /\ asking' = asking /\ accepted' = accepted /\ before' = before /\ expired' = expired
  BY DEF Monitors!ApplyConfiguration, Monitors!told
<1>2. \/ /\ Monitors!ShowIf(Monitors!FromFile(Monitors!Stored(intended), lid_is_closed))
         /\ queued' = queued + 1 /\ intended' = intended /\ backup' = backup
      \/ /\ current' = current /\ queued' = queued
         /\ IF backup = Monitors!Absent THEN intended' = intended /\ backup' = backup
            ELSE intended' = backup /\ backup' = Monitors!Absent
  BY DEF Monitors!ApplyConfiguration, Monitors!files
<1>3. ASSUME Ordinary
      PROVE  /\ StoredInv /\ Pending /\ queued = 0 /\ asking = <<>> /\ calling = TRUE
             /\ backup = accepted /\ backup # Monitors!Absent /\ Table(backup)
  <2>1. StoredInv BY <1>3 DEF MonitorsInv
  <2>2. ~Unasked BY <1>1 DEF Unasked
  <2>3. Pending /\ backup = accepted /\ backup # Monitors!Absent BY <2>1, <2>2 DEF StoredInv
  <2>4. queued = 0 /\ asking = <<>> /\ calling = TRUE BY <2>3, <1>1 DEF Pending
  <2> QED BY <2>1, <2>3, <2>4 DEF StoredInv
<1>4. ASSUME Ordinary PROVE StoredInv'
  <2>1. CASE queued' = queued + 1 /\ intended' = intended /\ backup' = backup
    <3>1. Pending' BY <2>1, <1>1, <1>3, <1>4 DEF Pending
    <3> QED BY <3>1, <2>1, <1>1, <1>3, <1>4 DEF StoredInv, Table
  <2>2. CASE queued' = queued /\ intended' = backup /\ backup' = Monitors!Absent
    <3>1. Unasked' BY <2>2, <1>1, <1>3, <1>4 DEF Unasked
    <3>2. running' = TRUE BY <1>1, <1>3, <1>4 DEF Pending
    <3> QED BY <3>1, <3>2, <2>2, <1>1, <1>3, <1>4 DEF StoredInv, Table
  <2> QED BY <2>1, <2>2, <1>2, <1>3, <1>4
<1>5. ASSUME "fail" \in scene.may PROVE FailInv'
  <2>1. Ordinary /\ FailInv BY <1>5, FailsAlone DEF MonitorsInv
  <2>2. StoredInv /\ queued = 0 /\ asking = <<>> /\ calling = TRUE /\ backup # Monitors!Absent
    BY <2>1, <1>3
  <2>3. /\ ~Unasked /\ expired = FALSE /\ before = backup[External] /\ before # Monitors!Null
        /\ current = before /\ connected = External /\ lid_is_closed = FALSE /\ events = 0
        /\ intended[External] # Monitors!Null
    BY <2>1, <2>2 DEF FailInv, Unasked
  <2>4. CASE /\ Monitors!ShowIf(Monitors!FromFile(Monitors!Stored(intended), lid_is_closed))
             /\ queued' = queued + 1 /\ intended' = intended /\ backup' = backup
    <3>1. intended # Monitors!Absent BY <2>2 DEF StoredInv, Table
    <3>2. Monitors!FromFile(Monitors!Stored(intended), lid_is_closed) = intended[External]
      BY <2>3, <3>1 DEF Monitors!FromFile, Monitors!Stored
    <3>3. current' = intended[External]
      BY <2>3, <2>4, <3>2 DEF Monitors!ShowIf, Monitors!Show
    <3>4. ~Unasked' BY <2>2, <2>4, <1>1 DEF Unasked
    <3> QED BY <2>3, <2>4, <3>3, <3>4, <1>1 DEF FailInv
  <2>5. CASE current' = current /\ queued' = queued /\ intended' = backup /\ backup' = Monitors!Absent
    <3>1. Unasked' BY <2>2, <2>5, <1>1 DEF Unasked
    <3>2. current' = intended'[External] BY <2>3, <2>5
    <3>3. intended'[External] # Monitors!Null BY <2>3, <2>5
    <3> QED BY <2>3, <3>1, <3>2, <3>3, <1>1 DEF FailInv
  <2> QED BY <2>2, <2>4, <2>5, <1>2
<1> QED BY <1>4, <1>5 DEF MonitorsInv, Ordinary

LEMMA Confirms ==
  ASSUME MonitorsInv, Monitors!ConfirmWithUserIdle, scene' = scene
  PROVE  MonitorsInv'
<1>1. /\ queued > 0 /\ queued' = queued - 1 /\ asking' = Append(asking, FALSE) /\ calling' = calling
      /\ connected' = connected /\ lid_is_closed' = lid_is_closed /\ events' = events /\ current' = current /\ running' = running
      /\ intended' = intended /\ backup' = backup /\ accepted' = accepted
      /\ before' = before /\ expired' = expired
  BY DEF Monitors!ConfirmWithUserIdle, Monitors!server, Monitors!files, Monitors!told
<1>2. ASSUME Ordinary PROVE StoredInv' /\ ~Unasked /\ ~Unasked' /\ calling = FALSE
  <2>1. StoredInv BY <1>2 DEF MonitorsInv
  <2>2. ~Unasked BY <1>1 DEF Unasked
  <2>3. Pending /\ backup = accepted /\ backup # Monitors!Absent BY <2>1, <2>2 DEF StoredInv
  <2>4. queued = 1 /\ asking = <<>> /\ calling = FALSE
    <3>1. queued # 0 BY <1>1
    <3> QED BY <2>3, <3>1 DEF Pending
  <2>5. queued' = 0 /\ asking' = <<FALSE>> BY <2>4, <1>1
  <2>6. Pending' BY <2>3, <2>4, <2>5, <1>1 DEF Pending
  <2>7. StoredInv' BY <2>1, <2>3, <2>6, <1>1 DEF StoredInv, Table
  <2>8. <<FALSE>> # <<>> OBVIOUS
  <2> QED BY <2>2, <2>4, <2>5, <2>7, <2>8 DEF Unasked
<1>3. ASSUME "fail" \in scene.may PROVE FailInv'
  <2>1. Ordinary /\ FailInv BY <1>3, FailsAlone DEF MonitorsInv
  <2> QED BY <2>1, <1>1, <1>2 DEF FailInv
<1> QED BY <1>2, <1>3 DEF MonitorsInv, Ordinary

\* The innermost question has been answered, or its countdown is over.
LEMMA Ends ==
  ASSUME MonitorsInv, NEW yes \in BOOLEAN, Monitors!Answered(yes), scene' = scene,
         Ordinary => Pending /\ asking = <<FALSE>> /\ asking' = <<>>,
         running' = running, calling' = calling, queued' = queued,
         connected' = connected, lid_is_closed' = lid_is_closed, events' = events, before' = before,
         expired' = expired \/ (expired' = TRUE /\ yes = FALSE)
  PROVE  MonitorsInv'
<1>1. /\ yes = TRUE => /\ backup' = Monitors!Absent /\ accepted' = intended
                       /\ intended' = intended /\ current' = current
      /\ yes = FALSE => Monitors!RestoreBackup
  BY DEF Monitors!Answered, Monitors!Keep
<1>2. yes = FALSE => backup' = Monitors!Absent /\ intended' = backup /\ accepted' = accepted
  BY <1>1 DEF Monitors!RestoreBackup
<1>3. ASSUME Ordinary
      PROVE  /\ StoredInv /\ Unasked' /\ ~Unasked /\ running' = TRUE /\ calling = FALSE
             /\ backup = accepted /\ backup # Monitors!Absent /\ Table(backup)
  <2>1. StoredInv BY <1>3 DEF MonitorsInv
  <2>2. Pending /\ asking = <<FALSE>> /\ asking' = <<>> BY <1>3
  <2>3. <<FALSE>> # <<>> OBVIOUS
  <2>4. ~Unasked BY <2>2, <2>3 DEF Unasked
  <2>5. calling = FALSE /\ queued = 0 BY <2>2, <2>3 DEF Pending
  <2>6. Unasked' BY <2>2, <2>5 DEF Unasked
  <2>7. running' = TRUE BY <2>2 DEF Pending
  <2> QED BY <2>1, <2>4, <2>5, <2>6, <2>7 DEF StoredInv
<1>4. ASSUME Ordinary PROVE StoredInv'
  <2>1. CASE yes = TRUE BY <2>1, <1>1, <1>3, <1>4 DEF StoredInv, Table
  <2>2. CASE yes = FALSE BY <2>2, <1>2, <1>3, <1>4 DEF StoredInv, Table
  <2> QED BY <2>1, <2>2
<1>5. ASSUME "fail" \in scene.may PROVE FailInv'
  <2>1. Ordinary /\ FailInv BY <1>5, FailsAlone DEF MonitorsInv
  <2>2. /\ Unasked' /\ ~Unasked /\ calling = FALSE /\ backup # Monitors!Absent
    BY <2>1, <1>3
  <2>3. /\ expired = FALSE /\ before = backup[External] /\ before # Monitors!Null
        /\ current = intended[External] /\ intended[External] # Monitors!Null
        /\ connected = External /\ lid_is_closed = FALSE /\ events = 0
    BY <2>1, <2>2 DEF FailInv
  <2>4. CASE yes = TRUE
    <3>1. current' = intended'[External] /\ intended'[External] # Monitors!Null BY <2>3, <2>4, <1>1
    <3>2. expired' = FALSE BY <2>3, <2>4
    <3> QED BY <2>2, <2>3, <3>1, <3>2 DEF FailInv
  <2>5. CASE yes = FALSE
    <3>1. Monitors!FromFile(backup[connected], lid_is_closed) = before
      BY <2>3 DEF Monitors!FromFile
    <3>2. current' = before
      BY <2>2, <2>3, <2>5, <3>1, <1>1 DEF Monitors!RestoreBackup, Monitors!ShowIf, Monitors!Show
    <3>3. current' = intended'[External] /\ intended'[External] # Monitors!Null
      BY <2>3, <2>5, <3>2, <1>2
    <3>4. expired' \in BOOLEAN BY <2>3
    <3> QED BY <2>2, <2>3, <3>2, <3>3, <3>4 DEF FailInv
  <2> QED BY <2>4, <2>5
<1> QED BY <1>4, <1>5 DEF MonitorsInv, Ordinary

LEMMA Answers ==
  ASSUME MonitorsInv, NEW yes \in BOOLEAN, Monitors!Answer(yes), scene' = scene
  PROVE  MonitorsInv'
<1>1. /\ asking # <<>> /\ asking' = Monitors!Front(asking) /\ Monitors!Answered(yes)
      /\ connected' = connected /\ lid_is_closed' = lid_is_closed /\ events' = events
      /\ running' = running /\ calling' = calling /\ queued' = queued
      /\ before' = before /\ expired' = expired
  BY DEF Monitors!Answer, Monitors!told
<1>2. ASSUME Ordinary PROVE Pending /\ asking = <<FALSE>>
  BY <1>1, <1>2 DEF MonitorsInv, StoredInv, Pending, Unasked
<1>3. <<FALSE>> \in Seq(BOOLEAN) /\ Len(<<FALSE>>) = 1 OBVIOUS
<1> QED BY <1>1, <1>2, <1>3, FrontOfOne, Ends

LEMMA Countdown ==
  ASSUME MonitorsInv, NEW i, Monitors!CountdownEnds(i), scene' = scene
  PROVE  MonitorsInv'
<1>1. /\ i \in DOMAIN asking /\ asking' = Monitors!Front([asking EXCEPT ![i] = TRUE])
      /\ expired' = TRUE
      /\ Monitors!Answered(FALSE) \/ (i < Len(asking) /\ Monitors!Answered(TRUE))
      /\ connected' = connected /\ lid_is_closed' = lid_is_closed /\ events' = events
      /\ running' = running /\ calling' = calling /\ queued' = queued
      /\ before' = before
  BY DEF Monitors!CountdownEnds
<1>2. ASSUME Ordinary
      PROVE  Pending /\ asking = <<FALSE>> /\ asking' = <<>> /\ Monitors!Answered(FALSE)
  <2>1. asking # <<>> BY <1>1
  <2>2. Pending /\ asking = <<FALSE>>
    BY <2>1, <1>2 DEF MonitorsInv, StoredInv, Pending, Unasked
  <2>3. i = 1 BY <2>2, <1>1
  <2>4. [asking EXCEPT ![i] = TRUE] \in Seq(BOOLEAN) /\ Len([asking EXCEPT ![i] = TRUE]) = 1
    <3> DEFINE s == [<<FALSE>> EXCEPT ![1] = TRUE]
    <3>1. <<FALSE>> \in Seq(BOOLEAN) /\ Len(<<FALSE>>) = 1 OBVIOUS
    <3>2. s \in Seq(BOOLEAN) /\ Len(s) = 1 BY <3>1
    <3> QED BY <2>2, <2>3, <3>2
  <2>5. asking' = <<>> BY <2>4, <1>1, FrontOfOne
  <2>6. ~(i < Len(asking)) BY <2>2, <2>3
  <2> QED BY <2>2, <2>5, <2>6, <1>1
<1>3. CASE Monitors!Answered(FALSE)
  BY <1>1, <1>2, <1>3, Ends
<1>4. ASSUME ~Monitors!Answered(FALSE) PROVE MonitorsInv'
  <2>1. ~Ordinary BY <1>2, <1>4
  <2>2. "fail" \notin scene.may BY <2>1, FailsAlone DEF MonitorsInv
  <2> QED BY <2>1, <2>2 DEF MonitorsInv, Ordinary
<1> QED BY <1>3, <1>4, Zenon

LEMMA Keys ==
  ASSUME MonitorsInv, Monitors!VideoModeSwitch, scene' = scene
  PROVE  MonitorsInv'
<1>1. /\ "keys" \in scene.may /\ running /\ running' = running
      /\ calling' = calling /\ queued' = queued /\ asking' = asking
  BY DEF Monitors!VideoModeSwitch, Monitors!May, Monitors!asks
<1>2. \/ intended' = intended /\ backup' = backup /\ accepted' = accepted
      \/ \E c : Monitors!Save(c) /\ accepted' = intended'
  BY DEF Monitors!VideoModeSwitch, Monitors!files
<1>3. "fail" \notin scene.may BY <1>1, FailsAlone DEF MonitorsInv
<1>4. ASSUME Ordinary PROVE StoredInv'
  <2>0. ~Monitors!Busy
    BY <1>4 DEF Monitors!VideoModeSwitch, Monitors!Free, Monitors!May, Ordinary
  <2>1. StoredInv BY <1>4 DEF MonitorsInv
  <2>2. Unasked /\ running = TRUE /\ intended = accepted
    <3>1. calling # TRUE /\ ~(queued > 0) /\ asking = <<>> BY <2>0 DEF Monitors!Busy
    <3>2. <<FALSE>> # <<>> OBVIOUS
    <3>3. ASSUME Pending PROVE FALSE
      <4>1. queued = 1 BY <3>1, <3>2, <3>3 DEF Pending
      <4> QED BY <3>1, <4>1
    <3> QED BY <2>1, <3>3, <1>1 DEF StoredInv
  <2>3. Unasked' BY <2>2, <1>1 DEF Unasked
  <2>4. CASE intended' = intended /\ backup' = backup /\ accepted' = accepted
    BY <2>1, <2>2, <2>3, <2>4, <1>1 DEF StoredInv, Table
  <2>5. CASE \E c : Monitors!Save(c) /\ accepted' = intended'
    <3>1. Table(intended') /\ backup' = intended /\ accepted' = intended'
      BY <2>1, <2>5, SavedIs DEF StoredInv
    <3>2. Table(backup') BY <2>1, <3>1 DEF StoredInv, Table
    <3> QED BY <2>2, <2>3, <3>1, <3>2, <1>1 DEF StoredInv
  <2> QED BY <2>4, <2>5, <1>2
<1> QED BY <1>3, <1>4 DEF MonitorsInv, Ordinary

\* A backup says that a question was left open.
LEMMA CrashesAndStarts ==
  ASSUME MonitorsInv, Monitors!Crash \/ Monitors!Start, scene' = scene
  PROVE  MonitorsInv'
<1>1. CASE Monitors!Crash
  <2>1. /\ "crash" \in scene.may /\ running /\ running' = FALSE
        /\ calling' = FALSE /\ queued' = 0 /\ asking' = <<>>
        /\ intended' = intended /\ backup' = backup /\ accepted' = accepted
    BY <1>1 DEF Monitors!Crash, Monitors!May, Monitors!files
  <2>2. "fail" \notin scene.may BY <2>1, FailsAlone DEF MonitorsInv
  <2>3. ASSUME Ordinary PROVE StoredInv'
    <3>1. StoredInv /\ "keys" \notin scene.may BY <2>1, <2>3 DEF MonitorsInv, Ordinary
    <3>2. Unasked' BY <2>1 DEF Unasked
    <3>3. accepted = IF backup = Monitors!Absent THEN intended ELSE backup
      BY <3>1, <2>1 DEF StoredInv
    <3> QED BY <3>1, <3>2, <3>3, <2>1 DEF StoredInv, Table
  <2> QED BY <2>2, <2>3 DEF MonitorsInv, Ordinary
<1>2. CASE Monitors!Start
  <2>1. /\ ~running /\ running' = TRUE
        /\ calling' = calling /\ queued' = queued /\ asking' = asking
        /\ IF backup # Monitors!Absent THEN intended' = backup /\ backup' = Monitors!Absent
           ELSE intended' = intended /\ backup' = backup
        /\ accepted' = accepted
    BY <1>2 DEF Monitors!Start, Monitors!asks, Monitors!files
  <2>2. ASSUME Ordinary PROVE "crash" \in scene.may /\ StoredInv'
    <3>1. StoredInv BY <2>2 DEF MonitorsInv
    <3>2. /\ Unasked /\ "crash" \in scene.may
          /\ accepted = IF backup = Monitors!Absent THEN intended ELSE backup
      BY <3>1, <2>1 DEF StoredInv, Pending
    <3>3. Unasked' BY <3>2, <2>1 DEF Unasked
    <3>4. intended' = accepted' /\ backup' = Monitors!Absent BY <3>2, <2>1
    <3> QED BY <3>1, <3>2, <3>3, <3>4, <2>1 DEF StoredInv, Table
  <2>3. "fail" \notin scene.may BY <2>2, FailsAlone DEF MonitorsInv
  <2> QED BY <2>2, <2>3 DEF MonitorsInv, Ordinary
<1> QED BY <1>1, <1>2

LEMMA WorldMoves ==
  ASSUME MonitorsInv, scene' = scene,
         (\E S : Monitors!Replug(S)) \/ Monitors!OnRandrEvent \/ Monitors!LidStateChanged
  PROVE  MonitorsInv'
<1>1. /\ running' = running /\ intended' = intended /\ backup' = backup /\ accepted' = accepted
      /\ calling' = calling /\ queued' = queued /\ asking' = asking
      /\ before' = before /\ expired' = expired
  BY DEF Monitors!Replug, Monitors!OnRandrEvent, Monitors!LidStateChanged, Monitors!files, Monitors!asks,
         Monitors!told
<1>2. "plug" \in scene.may \/ events > 0 \/ "lid" \in scene.may
  BY DEF Monitors!Replug, Monitors!OnRandrEvent, Monitors!LidStateChanged, Monitors!May
<1>3. "fail" \notin scene.may
  <2> SUFFICES ASSUME "fail" \in scene.may PROVE FALSE OBVIOUS
  <2>1. events = 0 /\ scene.may \subseteq {"fail", "asks"}
    BY FailsAlone DEF MonitorsInv, FailInv
  <2> QED BY <2>1, <1>2
<1> QED BY <1>1, <1>3, Untouched

LEMMA MonitorsStep == MonitorsInv /\ [Monitors!Next]_(Monitors!vars) => MonitorsInv'
<1> SUFFICES ASSUME MonitorsInv, [Monitors!Next]_(Monitors!vars) PROVE MonitorsInv' OBVIOUS
<1>1. CASE UNCHANGED Monitors!vars
  <2>1. /\ scene' = scene /\ running' = running /\ intended' = intended /\ backup' = backup
        /\ accepted' = accepted /\ calling' = calling /\ queued' = queued /\ asking' = asking
        /\ before' = before /\ expired' = expired /\ connected' = connected
        /\ lid_is_closed' = lid_is_closed /\ events' = events /\ current' = current
    BY <1>1 DEF Monitors!vars, Monitors!server, Monitors!files, Monitors!asks, Monitors!told
  <2> QED BY <2>1, Untouched
<1>2. CASE Monitors!Next
  BY <1>2, Calls, Applies, Confirms, Answers, Countdown, Keys, CrashesAndStarts, WorldMoves DEF Monitors!Next
<1> QED BY <1>1, <1>2

LEMMA MonitorsStart == Monitors!Init => MonitorsInv
<1> SUFFICES ASSUME Monitors!Init PROVE MonitorsInv OBVIOUS
<1>1. /\ scene \in Scenes /\ connected = External /\ lid_is_closed = FALSE
      /\ current = [on |-> Monitors!Present, clone |-> Monitors!Cardinality(Monitors!Present) > scene.fits]
      /\ events = 0 /\ running = TRUE
      /\ intended = IF "first" \in scene.may THEN Monitors!Absent ELSE [Monitors!Empty EXCEPT ![External] = current]
      /\ backup = Monitors!Absent /\ calling = FALSE /\ queued = 0 /\ asking = <<>> /\ accepted = intended
      /\ expired = FALSE
  BY DEF Monitors!Init
<1>2. Unasked BY <1>1 DEF Unasked
<1>3. ASSUME Ordinary PROVE StoredInv /\ intended[External] = current
  <2>1. intended = [Monitors!Empty EXCEPT ![External] = current] BY <1>1, <1>3 DEF Ordinary
  <2>2. DOMAIN intended = SUBSET External /\ intended[External] = current
    BY <2>1 DEF Monitors!Empty
  <2>3. DOMAIN Monitors!Absent = {} BY DEF Monitors!Absent
  <2>4. {} \in SUBSET External OBVIOUS
  <2>5. Table(intended) BY <2>2, <2>3, <2>4 DEF Table
  <2> QED BY <2>2, <2>5, <1>1, <1>2 DEF StoredInv
<1>4. ASSUME "fail" \in scene.may PROVE FailInv
  <2>1. intended[External] = current BY <1>1, <1>3, <1>4, FailsAlone
  <2>2. "laptop" \in current.on BY <1>1 DEF Monitors!Present, Monitors!Laptop
  <2>3. current # Monitors!Null BY <2>2 DEF Monitors!Null
  <2> QED BY <2>1, <2>3, <1>1, <1>2 DEF FailInv
<1> QED BY <1>1, <1>3, <1>4 DEF MonitorsInv

LEMMA PartIsMonitors == AllSpec => Monitors!Spec
<1>1. AllInit => Monitors!Init BY DEF AllInit
<1>2. [AllNext]_allVars => [Monitors!Next]_(Monitors!vars)
  BY DEF AllNext, allVars, xrandrVars, Monitors!vars, Monitors!server, Monitors!cycle, Monitors!files,
         Monitors!asks, Monitors!told
<1> QED BY <1>1, <1>2, PTL DEF AllSpec, Monitors!Spec

\* Only what the user agreed to stays stored, also if the daemon dies with the
\* question open (csd-xrandr-manager.c:1905), and a question that nobody answers
\* leaves the screen as it was, for any monitors and any number of questions.
THEOREM ConfirmedStays == AllSpec => []OnlyConfirmedStays
<1>1. MonitorsInv => OnlyConfirmedStays
  <2> SUFFICES ASSUME MonitorsInv, Monitors!Quiet PROVE OnlyConfirmedStays
    BY DEF OnlyConfirmedStays, Monitors!OnlyConfirmedStays
  <2>1. running /\ ~Monitors!Busy BY DEF Monitors!Quiet
  <2>2. calling # TRUE /\ ~(queued > 0) /\ asking = <<>> BY <2>1 DEF Monitors!Busy
  <2>3. ASSUME Ordinary PROVE Unasked /\ intended = accepted
    <3>1. StoredInv BY <2>3 DEF MonitorsInv
    <3>2. <<FALSE>> # <<>> OBVIOUS
    <3>3. ASSUME Pending PROVE FALSE
      <4>1. queued = 1 BY <2>2, <3>2, <3>3 DEF Pending
      <4> QED BY <2>2, <4>1
    <3> QED BY <3>1, <3>3, <2>1 DEF StoredInv
  <2>4. ASSUME "fail" \in scene.may, expired PROVE current = before
    <3>1. FailInv /\ Unasked BY <2>3, <2>4, FailsAlone DEF MonitorsInv
    <3> QED BY <3>1, <2>4 DEF FailInv
  <2> QED BY <2>3, <2>4 DEF OnlyConfirmedStays, Monitors!OnlyConfirmedStays, Monitors!May, Ordinary
<1>2. Monitors!Spec => []MonitorsInv
  BY MonitorsStart, MonitorsStep, PTL DEF Monitors!Spec
<1> QED BY <1>1, <1>2, PartIsMonitors, PTL

-----------------------------------------------------------------------------
(* What there is to see, for any number of monitors and any stored          *)
(* configurations: every configuration that is shown or stored is one of   *)
(* the monitors it is for (Sound, SeenInv), and a dark screen means that   *)
(* the event of the monitors that moved is still to come (InSight).        *)

\* A configuration of the monitors S, and a file of such.
Fit(c, S) == c \in Monitors!Config /\ c.on # {} /\ c.on \subseteq {Monitors!Laptop} \cup S
FitOrNull(c, S) == c = Monitors!Null \/ Fit(c, S)
Sound(f) ==
  \/ f = Monitors!Absent
  \/ /\ f \in [SUBSET External -> Monitors!Config]
     /\ \A S \in SUBSET External : FitOrNull(f[S], S)

LEMMA NullIsNone ==
  /\ Monitors!Null \in Monitors!Config /\ Monitors!Null.on = {} /\ \A S : ~Fit(Monitors!Null, S)
BY DEF Monitors!Null, Monitors!Config, Fit

LEMMA OnlyFits ==
  ASSUME connected \subseteq External, NEW S, S \subseteq Monitors!Present, NEW cl \in BOOLEAN
  PROVE  FitOrNull(Monitors!Only(S, cl), connected) /\ (Monitors!Only(S, cl) = Monitors!Null <=> S = {})
<1>1. CASE S = {} BY <1>1 DEF Monitors!Only, FitOrNull
<1>2. CASE S # {}
  <2>1. Monitors!Only(S, cl) = [on |-> S, clone |-> cl] BY <1>2 DEF Monitors!Only
  <2>2. S \subseteq {Monitors!Laptop} \cup connected BY DEF Monitors!Present
  <2>3. S \in SUBSET Monitors!Output BY <2>2 DEF Monitors!Output
  <2>4. Fit([on |-> S, clone |-> cl], connected) BY <1>2, <2>2, <2>3 DEF Fit, Monitors!Config
  <2> QED BY <1>2, <2>1, <2>4, NullIsNone DEF FitOrNull
<1> QED BY <1>1, <1>2

\* The laptop is not the last that is turned off.
LEMMA FromFileFits ==
  ASSUME NEW S, NEW c, FitOrNull(c, S), NEW closed
  PROVE  /\ FitOrNull(Monitors!FromFile(c, closed), S)
         /\ Monitors!FromFile(c, closed) = Monitors!Null <=> c = Monitors!Null
         /\ FitOrNull(Monitors!WithoutLaptop(c), S)
         /\ Monitors!WithoutLaptop(c) = Monitors!Null <=> c = Monitors!Null
<1> DEFINE w == Monitors!WithoutLaptop(c)
<1>1. FitOrNull(w, S) /\ (w = Monitors!Null <=> c = Monitors!Null)
  <2>1. CASE c.on \ {Monitors!Laptop} = {} BY <2>1 DEF Monitors!WithoutLaptop
  <2>2. CASE c.on \ {Monitors!Laptop} # {}
    <3>1. c # Monitors!Null BY <2>2, NullIsNone
    <3>2. Fit(c, S) BY <3>1 DEF FitOrNull
    <3>3. w = [c EXCEPT !.on = c.on \ {Monitors!Laptop}] BY <2>2 DEF Monitors!WithoutLaptop
    <3>4. w \in Monitors!Config /\ w.on = c.on \ {Monitors!Laptop} BY <3>2, <3>3 DEF Fit, Monitors!Config
    <3> HIDE DEF w
    <3>5. Fit(w, S) BY <2>2, <3>2, <3>4 DEF Fit
    <3> QED BY <3>1, <3>5, NullIsNone DEF FitOrNull
  <2> QED BY <2>1, <2>2
<1> QED BY <1>1 DEF Monitors!FromFile

LEMMA StoredFits ==
  ASSUME connected \subseteq External, NEW f, Sound(f)
  PROVE  FitOrNull(Monitors!Stored(f), connected)
<1>1. CASE f = Monitors!Absent BY <1>1 DEF Monitors!Stored, FitOrNull
<1>2. CASE f # Monitors!Absent
  <2>1. connected \in SUBSET External OBVIOUS
  <2> QED BY <1>2, <2>1 DEF Monitors!Stored, Sound
<1> QED BY <1>1, <1>2

LEMMA SavedIsSound ==
  ASSUME connected \subseteq External, Sound(intended), NEW c, FitOrNull(c, connected)
  PROVE  Sound(Monitors!Saved(c))
<1> DEFINE f == IF intended = Monitors!Absent THEN Monitors!Empty ELSE intended
           g == [f EXCEPT ![connected] = c]
<1>1. Monitors!Empty \in [SUBSET External -> Monitors!Config]
      /\ \A S \in SUBSET External : FitOrNull(Monitors!Empty[S], S)
  BY NullIsNone DEF Monitors!Empty, FitOrNull
<1>2. f \in [SUBSET External -> Monitors!Config] /\ \A S \in SUBSET External : FitOrNull(f[S], S)
  BY <1>1 DEF Sound
<1>3. c \in Monitors!Config BY NullIsNone DEF FitOrNull, Fit
<1> HIDE DEF f
<1>4. g \in [SUBSET External -> Monitors!Config] /\ g[connected] = c
      /\ \A S \in SUBSET External : S # connected => g[S] = f[S]
  BY <1>2, <1>3
<1> HIDE DEF g
<1>5. \A S \in SUBSET External : FitOrNull(g[S], S) BY <1>2, <1>4
<1>6. Monitors!Saved(c) = g BY DEF Monitors!Saved, f, g
<1> QED BY <1>4, <1>5, <1>6 DEF Sound

Boots == {"do-nothing", "follow-lid", "clone", "dock"}

\* What the boot setting asks for; with the lid open, or where it is not looked
\* at, it is nothing only if the outputs do not fit side by side.
LEMMA DefaultFits ==
  ASSUME connected \subseteq External, scene.boot \in Boots, NEW closed \in BOOLEAN
  PROVE  /\ FitOrNull(Monitors!MakeDefault(closed), connected)
         /\ scene.boot # "dock" /\ (~closed \/ scene.boot = "do-nothing")
              /\ Monitors!Cardinality(Monitors!Present) <= scene.fits => Monitors!MakeDefault(closed) # Monitors!Null
<1>1. connected \subseteq Monitors!Present /\ Monitors!Laptop \in Monitors!Present BY DEF Monitors!Present
<1>2. FitOrNull(Monitors!MakeOther, connected) BY <1>1, OnlyFits DEF Monitors!MakeOther
<1>3. /\ FitOrNull(Monitors!MakeClone(closed), connected)
      /\ ~closed => Monitors!MakeClone(closed) # Monitors!Null
  <2> DEFINE S == {o \in Monitors!Present : ~(o = Monitors!Laptop /\ closed)}
  <2>1. S \subseteq Monitors!Present /\ (~closed => S # {}) BY <1>1
  <2>2. Monitors!MakeClone(closed) = Monitors!Only(S, TRUE) BY DEF Monitors!MakeClone
  <2> HIDE DEF S
  <2> QED BY <2>1, <2>2, OnlyFits
<1>4. /\ FitOrNull(Monitors!MakeXinerama(closed), connected)
      /\ ~(closed /\ Monitors!Follows) /\ Monitors!Cardinality(Monitors!Present) <= scene.fits
           => Monitors!MakeXinerama(closed) # Monitors!Null
  <2> DEFINE row == IF closed /\ Monitors!Follows THEN connected ELSE Monitors!Present
  <2>1. row \subseteq Monitors!Present BY <1>1
  <2>2. Monitors!MakeXinerama(closed) =
          IF Monitors!Cardinality(row) <= scene.fits THEN Monitors!Only(row, FALSE) ELSE Monitors!Null
    BY DEF Monitors!MakeXinerama
  <2>3. ~(closed /\ Monitors!Follows) => row = Monitors!Present /\ row # {} BY <1>1
  <2> HIDE DEF row
  <2>4. FitOrNull(Monitors!Only(row, FALSE), connected) /\ (Monitors!Only(row, FALSE) = Monitors!Null <=> row = {})
    BY <2>1, OnlyFits
  <2>5. FitOrNull(Monitors!Null, connected) BY DEF FitOrNull
  <2> QED BY <2>2, <2>3, <2>4, <2>5
<1>5. scene.boot = "do-nothing" => ~Monitors!Follows BY DEF Monitors!Follows
<1> QED BY <1>2, <1>3, <1>4, <1>5 DEF Monitors!MakeDefault, Boots

LEMMA FiveSteps ==
  /\ 0 .. 5 = {0, 1, 2, 3, 4, 5} /\ 1 .. 5 = {1, 2, 3, 4, 5}
  /\ 1 - 1 = 0 /\ 2 - 1 = 1 /\ 3 - 1 = 2 /\ 4 - 1 = 3 /\ 5 - 1 = 4
OBVIOUS

\* What is made of five configurations in as many steps, each from the last.
Stepwise(g, base, step) == g[0] = base /\ \A i \in 1 .. 5 : g[i] = step[<<g[i - 1], i>>]
LEMMA Fifth ==
  ASSUME NEW A, NEW base \in A, NEW step \in [A \X (1 .. 5) -> A]
  PROVE  \E g \in [0 .. 5 -> A] : Stepwise(g, base, step)
<1> DEFINE a1 == step[<<base, 1>>]
           a2 == step[<<a1, 2>>]
           a3 == step[<<a2, 3>>]
           a4 == step[<<a3, 4>>]
           a5 == step[<<a4, 5>>]
           g == [i \in 0 .. 5 |-> IF i = 0 THEN base ELSE IF i = 1 THEN a1 ELSE IF i = 2 THEN a2
                                  ELSE IF i = 3 THEN a3 ELSE IF i = 4 THEN a4 ELSE a5]
<1>1. /\ a1 \in A /\ a2 \in A /\ a3 \in A /\ a4 \in A /\ a5 \in A
  <2>1. \A a \in A, i \in 1 .. 5 : step[<<a, i>>] \in A OBVIOUS
  <2>2. a1 \in A BY <2>1, FiveSteps
  <2> HIDE DEF a1
  <2>3. a2 \in A BY <2>1, <2>2, FiveSteps
  <2> HIDE DEF a2
  <2>4. a3 \in A BY <2>1, <2>3, FiveSteps
  <2> HIDE DEF a3
  <2>5. a4 \in A BY <2>1, <2>4, FiveSteps
  <2> HIDE DEF a4
  <2> QED BY <2>1, <2>2, <2>3, <2>4, <2>5, FiveSteps
<1>2. /\ a1 = step[<<base, 1>>] /\ a2 = step[<<a1, 2>>] /\ a3 = step[<<a2, 3>>]
      /\ a4 = step[<<a3, 4>>] /\ a5 = step[<<a4, 5>>]
  OBVIOUS
<1> HIDE DEF a1, a2, a3, a4, a5
<1>3. g[0] = base /\ g[1] = a1 /\ g[2] = a2 /\ g[3] = a3 /\ g[4] = a4 /\ g[5] = a5 /\ g \in [0 .. 5 -> A]
  BY <1>1, FiveSteps
<1> HIDE DEF g
<1>4. \A i \in 1 .. 5 : g[i] = step[<<g[i - 1], i>>] BY <1>2, <1>3, FiveSteps
<1> QED BY <1>3, <1>4 DEF Stepwise

LEMMA Inherited ==
  ASSUME NEW A, NEW h, h[0] \in A, \A i \in 1 .. 5 : h[i - 1] \in A => h[i] \in A
  PROVE  h[5] \in A
BY FiveSteps

LEMMA Dropped ==
  ASSUME NEW C, Monitors!Null \in C, NEW t \in [1 .. 5 -> C], NEW i
  PROVE  Monitors!DropDuplicate(t, i) \in [1 .. 5 -> C]
<1>1. \A k : [t EXCEPT ![k] = Monitors!Null] \in [1 .. 5 -> C] OBVIOUS
<1>2. \E k : Monitors!DropDuplicate(t, i) \in {t, [t EXCEPT ![k] = Monitors!Null]}
  BY DEF Monitors!DropDuplicate
<1> QED BY <1>1, <1>2

\* sanitize drops some of the stock configurations, and those that are none.
LEMMA Sanitized ==
  ASSUME NEW C, Monitors!Null \in C, NEW s \in [1 .. 5 -> C], Len(s) = 5
  PROVE  Monitors!Sanitize(s) \in Seq(C \ {Monitors!Null})
<1> DEFINE A == [1 .. 5 -> C]
           B == Seq(C \ {Monitors!Null})
           Drop(f) == f = [i \in 0 .. 5 |-> IF i = 0 THEN s ELSE Monitors!DropDuplicate(f[i - 1], i)]
           dropped == CHOOSE f : Drop(f)
           left == dropped[5]
           Keep(f) == f = [i \in 0 .. 5 |-> IF i = 0 THEN <<>> ELSE
                             IF left[i] = Monitors!Null THEN f[i - 1] ELSE Append(f[i - 1], left[i])]
           new == CHOOSE f : Keep(f)
           drop == [p \in A \X (1 .. 5) |-> Monitors!DropDuplicate(p[1], p[2])]
           keep == [p \in B \X (1 .. 5) |-> IF left[p[2]] = Monitors!Null THEN p[1] ELSE Append(p[1], left[p[2]])]
<1>1. Monitors!Sanitize(s) = new[5] BY DEF Monitors!Sanitize
<1>2. drop \in [A \X (1 .. 5) -> A] BY Dropped
<1>3. \E f : Drop(f)
  <2>1. s \in A OBVIOUS
  <2>2. \A a \in A, i \in 1 .. 5 : drop[<<a, i>>] = Monitors!DropDuplicate(a, i) OBVIOUS
  <2> HIDE DEF drop, A
  <2>3. PICK g \in [0 .. 5 -> A] : Stepwise(g, s, drop) BY <1>2, <2>1, Fifth
  <2>4. g[0] = s /\ \A i \in 1 .. 5 : g[i] = Monitors!DropDuplicate(g[i - 1], i)
    BY <2>2, <2>3, FiveSteps DEF Stepwise
  <2>5. g = [i \in 0 .. 5 |-> g[i]] OBVIOUS
  <2>6. \A i \in 0 .. 5 : g[i] = IF i = 0 THEN s ELSE Monitors!DropDuplicate(g[i - 1], i)
    BY <2>4, FiveSteps
  <2> QED BY <2>5, <2>6
<1>4. Drop(dropped)
  <2> HIDE DEF Drop
  <2> QED BY <1>3
<1> HIDE DEF dropped, drop
<1>5. left \in A
  <2>1. dropped[0] = s /\ \A i \in 1 .. 5 : dropped[i] = Monitors!DropDuplicate(dropped[i - 1], i)
    BY <1>4, FiveSteps
  <2>2. \A i \in 1 .. 5 : dropped[i - 1] \in A => dropped[i] \in A BY <2>1, Dropped
  <2>3. dropped[0] \in A BY <2>1
  <2> HIDE DEF A
  <2> QED BY <2>2, <2>3, Inherited
<1>6. \A i \in 1 .. 5 : left[i] \in C BY <1>5
<1> HIDE DEF left, Drop, A
<1>7. keep \in [B \X (1 .. 5) -> B]
  <2>1. ASSUME NEW b \in B, NEW i \in 1 .. 5, left[i] # Monitors!Null PROVE Append(b, left[i]) \in B
    BY <1>6, <2>1
  <2> HIDE DEF B
  <2> QED BY <2>1
<1>8. <<>> \in B OBVIOUS
<1>9. \A b \in B, i \in 1 .. 5 :
        keep[<<b, i>>] = IF left[i] = Monitors!Null THEN b ELSE Append(b, left[i])
  <2> HIDE DEF B
  <2> QED OBVIOUS
<1> HIDE DEF keep, B
<1>10. \E f : Keep(f)
  <2>1. PICK g \in [0 .. 5 -> B] : Stepwise(g, <<>>, keep) BY <1>7, <1>8, Fifth
  <2>2. /\ g[0] = <<>>
        /\ \A i \in 1 .. 5 : g[i] = IF left[i] = Monitors!Null THEN g[i - 1] ELSE Append(g[i - 1], left[i])
    BY <1>9, <2>1, FiveSteps DEF Stepwise
  <2>3. g = [i \in 0 .. 5 |-> g[i]] OBVIOUS
  <2>4. \A i \in 0 .. 5 : g[i] = IF i = 0 THEN <<>> ELSE
                             IF left[i] = Monitors!Null THEN g[i - 1] ELSE Append(g[i - 1], left[i])
    BY <2>2, FiveSteps
  <2> QED BY <2>3, <2>4
<1>11. Keep(new)
  <2> HIDE DEF Keep
  <2> QED BY <1>10
<1> HIDE DEF new
<1>12. new[5] \in B
  <2>0. \A i \in 0 .. 5 : new[i] = IF i = 0 THEN <<>> ELSE
                             IF left[i] = Monitors!Null THEN new[i - 1] ELSE Append(new[i - 1], left[i])
    BY <1>11
  <2> HIDE DEF Keep
  <2>1. new[0] = <<>> /\ \A i \in 1 .. 5 : new[i] = IF left[i] = Monitors!Null THEN new[i - 1] ELSE Append(new[i - 1], left[i])
    BY <2>0, FiveSteps
  <2>2. \A i \in 1 .. 5 : new[i - 1] \in B => keep[<<new[i - 1], i>>] \in B BY <1>7
  <2>3. \A i \in 1 .. 5 : new[i - 1] \in B => new[i] \in B BY <1>9, <2>1, <2>2
  <2> QED BY <1>8, <2>1, <2>3, Inherited
<1> QED BY <1>1, <1>12 DEF B

\* The types: stored configurations are of the monitors they are stored for, the
\* cycle is one of configurations of the monitors it was made for, and there is
\* room for the question of a program that has called.
SeenTypes ==
  /\ scene \in Scenes /\ connected \subseteq External /\ events \in 0 .. 2
  /\ lid_is_closed \in BOOLEAN /\ hot \in BOOLEAN /\ handled \in BOOLEAN /\ running \in BOOLEAN
  /\ current \in Monitors!Config /\ current.on # {}
  /\ Sound(intended) /\ Sound(backup) /\ Sound(accepted)
CycleInv ==
  /\ fn_f7_outputs \subseteq External
  /\ fn_f7_configs \in Seq({c \in Monitors!Config : Fit(c, fn_f7_outputs)})
  /\ fn_f7_configs # <<>> => current_fn_f7_config \in 1 .. Len(fn_f7_configs)
AsksInv ==
  /\ queued \in Nat /\ asking \in Seq(BOOLEAN) /\ calling \in BOOLEAN
  /\ queued + Len(asking) + (IF calling THEN 1 ELSE 0) <= MaxAsks

SeenInv == SeenTypes /\ CycleInv /\ AsksInv

\* The screen stays, or shows a configuration of the monitors that are there.
StaysOrShows == UNCHANGED <<current, hot>> \/ (Fit(current', connected) /\ hot' = FALSE)

LEMMA ShowIfShows ==
  ASSUME NEW c, FitOrNull(c, connected), Monitors!ShowIf(c)
  PROVE  StaysOrShows /\ (c # Monitors!Null => Fit(current', connected) /\ hot' = FALSE)
                /\ (c = Monitors!Null => UNCHANGED <<current, hot>>)
BY DEF FitOrNull, Monitors!ShowIf, Monitors!Show, StaysOrShows

LEMMA ShowsTypes ==
  ASSUME SeenTypes, StaysOrShows
  PROVE  current' \in Monitors!Config /\ current'.on # {} /\ hot' \in BOOLEAN
BY DEF SeenTypes, StaysOrShows, Fit

LEMMA StockFits ==
  ASSUME SeenTypes
  PROVE  Monitors!StockConfigs \in Seq({c \in Monitors!Config : Fit(c, connected)})
<1> DEFINE C == {c \in Monitors!Config : FitOrNull(c, connected)}
           s == <<Monitors!Shown, Monitors!MakeClone(lid_is_closed), Monitors!MakeXinerama(lid_is_closed),
                  Monitors!MakeOther, Monitors!MakeLaptop(lid_is_closed)>>
<1>1. connected \subseteq External /\ scene \in Scenes /\ lid_is_closed \in BOOLEAN /\ current \in Monitors!Config
  BY DEF SeenTypes
<1>2. \A S, cl : S \subseteq Monitors!Present /\ cl \in BOOLEAN => Monitors!Only(S, cl) \in C
  BY <1>1, OnlyFits, NullIsNone DEF FitOrNull, Fit
<1>3. Monitors!Null \in C BY NullIsNone DEF FitOrNull
<1>4. connected \subseteq Monitors!Present /\ {Monitors!Laptop} \subseteq Monitors!Present BY DEF Monitors!Present
<1> HIDE DEF C
<1>5. Monitors!Shown \in C
  <2>1. current.clone \in BOOLEAN BY <1>1 DEF Monitors!Config
  <2>2. current.on \cap Monitors!Present \subseteq Monitors!Present OBVIOUS
  <2> QED BY <1>2, <2>1, <2>2 DEF Monitors!Shown
<1>6. Monitors!MakeClone(lid_is_closed) \in C
  <2>1. {o \in Monitors!Present : ~(o = Monitors!Laptop /\ lid_is_closed)} \subseteq Monitors!Present OBVIOUS
  <2> QED BY <1>2, <2>1 DEF Monitors!MakeClone
<1>7. Monitors!MakeXinerama(lid_is_closed) \in C BY <1>2, <1>3, <1>4 DEF Monitors!MakeXinerama
<1>8. Monitors!MakeOther \in C BY <1>2, <1>4 DEF Monitors!MakeOther
<1>9. Monitors!MakeLaptop(lid_is_closed) \in C
  <2>1. (IF lid_is_closed THEN {} ELSE {Monitors!Laptop}) \subseteq Monitors!Present BY <1>4
  <2> QED BY <1>2, <2>1 DEF Monitors!MakeLaptop
<1>10. s \in [1 .. 5 -> C] /\ Len(s) = 5
  <2>1. \A a, b, c, d, e \in C : <<a, b, c, d, e>> \in [1 .. 5 -> C] /\ Len(<<a, b, c, d, e>>) = 5 OBVIOUS
  <2> QED BY <1>5, <1>6, <1>7, <1>8, <1>9, <2>1
<1>11. Monitors!StockConfigs = Monitors!Sanitize(s) BY DEF Monitors!StockConfigs
<1> HIDE DEF s
<1>12. Monitors!Sanitize(s) \in Seq(C \ {Monitors!Null}) BY <1>3, <1>10, Sanitized
<1>13. C \ {Monitors!Null} = {c \in Monitors!Config : Fit(c, connected)}
  BY NullIsNone DEF C, FitOrNull, Fit
<1> QED BY <1>11, <1>12, <1>13

\* fn-F7 goes to a configuration of the monitors that are there, and stores it.
LEMMA KeyStep ==
  ASSUME SeenInv, Monitors!VideoModeSwitch
  PROVE  /\ StaysOrShows /\ CycleInv' /\ Sound(intended') /\ Sound(backup') /\ Sound(accepted')
<1> DEFINE F == {c \in Monitors!Config : Fit(c, connected)}
           stale == \/ fn_f7_configs = <<>> \/ fn_f7_outputs # connected
                    \/ Monitors!Shown # fn_f7_configs[current_fn_f7_config]
           configs == IF stale THEN Monitors!StockConfigs ELSE fn_f7_configs
           at == IF stale THEN 1 ELSE current_fn_f7_config
           next == (at % Len(configs)) + 1
<1>1. SeenTypes /\ CycleInv BY DEF SeenInv
<1>2. configs \in Seq(F) /\ at \in Nat
  <2>1. CASE stale BY <1>1, <2>1, StockFits
  <2>2. CASE ~stale BY <1>1, <2>2 DEF CycleInv
  <2> QED BY <2>1, <2>2
<1>3. /\ fn_f7_configs' = configs /\ fn_f7_outputs' = connected
      /\ IF configs = <<>>
           THEN current_fn_f7_config' = 0 /\ UNCHANGED <<current, hot, intended, backup, accepted>>
           ELSE /\ current_fn_f7_config' = next
                /\ \/ Monitors!Show(configs[next]) /\ Monitors!Save(configs[next]) /\ accepted' = intended'
                   \/ UNCHANGED <<current, hot, intended, backup, accepted>>
  <2>1. /\ fn_f7_configs' = configs /\ fn_f7_outputs' = connected
        /\ IF configs = <<>>
             THEN current_fn_f7_config' = 0 /\ UNCHANGED <<current, hot, Monitors!files, accepted>>
             ELSE /\ current_fn_f7_config' = next
                  /\ \E ok \in Monitors!Outcomes :
                       IF ok THEN Monitors!Show(configs[next]) /\ Monitors!Save(configs[next]) /\ accepted' = intended'
                             ELSE UNCHANGED <<current, hot, Monitors!files, accepted>>
    BY DEF Monitors!VideoModeSwitch
  <2> HIDE DEF configs, next
  <2> QED BY <2>1 DEF Monitors!files
<1> HIDE DEF configs, at, stale
<1>4. connected \subseteq External /\ Sound(intended) /\ Sound(backup) /\ Sound(accepted) BY <1>1 DEF SeenTypes
<1>5. CASE configs = <<>>
  <2>1. CycleInv' BY <1>2, <1>3, <1>4, <1>5 DEF CycleInv
  <2> QED BY <1>3, <1>4, <1>5, <2>1 DEF StaysOrShows
<1>6. CASE configs # <<>>
  <2>1. next \in 1 .. Len(configs)
    <3> DEFINE n == Len(configs)
    <3>1. n \in Nat /\ n # 0 BY <1>2, <1>6
    <3> HIDE DEF n
    <3>2. at % n \in 0 .. n - 1 BY <1>2, <3>1
    <3>3. (at % n) + 1 \in 1 .. n BY <3>1, <3>2
    <3> QED BY <3>3 DEF n
  <2> HIDE DEF next
  <2>2. Fit(configs[next], connected)
    <3>1. configs[next] \in F BY <1>2, <2>1
    <3> QED BY <3>1
  <2>3. CycleInv' BY <1>2, <1>3, <1>4, <1>6, <2>1 DEF CycleInv
  <2>4. Sound(Monitors!Saved(configs[next])) BY <1>4, <2>2, SavedIsSound DEF FitOrNull
  <2>5. CASE Monitors!Show(configs[next]) /\ Monitors!Save(configs[next]) /\ accepted' = intended'
    <3>1. Sound(intended') /\ Sound(backup') /\ Sound(accepted')
      BY <1>4, <2>4, <2>5 DEF Monitors!Save
    <3>2. StaysOrShows BY <2>2, <2>5 DEF Monitors!Show, StaysOrShows
    <3> QED BY <2>3, <3>1, <3>2
  <2>6. CASE UNCHANGED <<current, hot, intended, backup, accepted>>
    BY <1>4, <2>3, <2>6 DEF StaysOrShows
  <2> QED BY <1>3, <1>6, <2>5, <2>6
<1> QED BY <1>5, <1>6

\* What is left of the scene, where monitors stay and where the daemon does.
SceneInv ==
  /\ "plug" \notin scene.may => connected = External
  /\ "crash" \notin scene.may => running = TRUE

\* An event that comes to nothing, since the screen is as a client wants it, or
\* since the monitors are known, leaves it.
LEMMA UseStoredShows ==
  ASSUME SeenTypes, NEW new \in BOOLEAN, Monitors!UseStoredOrAuto(new)
  PROVE  StaysOrShows /\ handled' \in BOOLEAN
<1>1. connected \subseteq External /\ Sound(intended) /\ lid_is_closed \in BOOLEAN /\ scene.boot \in Boots
      /\ handled \in BOOLEAN
  BY ScenesAssumption DEF SeenTypes, Boots
<1>2. FitOrNull(Monitors!Stored(intended), connected) BY <1>1, StoredFits
<1>3. CASE Monitors!Stored(intended) # Monitors!Null
  <2> DEFINE c == Monitors!FromFile(Monitors!Stored(intended), lid_is_closed)
  <2>1. Monitors!Show(c) /\ handled' = handled BY <1>3 DEF Monitors!UseStoredOrAuto
  <2>2. Fit(c, connected) BY <1>2, <1>3, FromFileFits DEF FitOrNull
  <2> HIDE DEF c
  <2> QED BY <1>1, <2>1, <2>2 DEF Monitors!Show, StaysOrShows
<1>4. CASE Monitors!Stored(intended) = Monitors!Null
  <2>1. /\ handled' = TRUE
        /\ Monitors!ShowIf(Monitors!MakeDefault(lid_is_closed)) \/ UNCHANGED <<current, hot>>
    BY <1>4 DEF Monitors!UseStoredOrAuto
  <2>2. FitOrNull(Monitors!MakeDefault(lid_is_closed), connected) BY <1>1, DefaultFits
  <2> QED BY <2>1, <2>2, ShowIfShows DEF StaysOrShows
<1> QED BY <1>3, <1>4

LEMMA EventStep ==
  ASSUME SeenTypes, Monitors!OnRandrEvent
  PROVE  StaysOrShows /\ events' \in 0 .. 2 /\ handled' \in BOOLEAN
<1>1. events \in 0 .. 2 /\ events > 0 /\ events' = events - 1 /\ handled \in BOOLEAN
  BY DEF SeenTypes, Monitors!OnRandrEvent
<1>2. events' \in 0 .. 2 BY <1>1
<1>3. CASE hot
  <2>1. Monitors!UseStoredOrAuto(~handled) BY <1>3 DEF Monitors!OnRandrEvent
  <2> QED BY <1>2, <2>1, UseStoredShows
<1>4. CASE ~hot
  <2>1. UNCHANGED <<current, hot, handled>> BY <1>4 DEF Monitors!OnRandrEvent
  <2> QED BY <1>1, <1>2, <2>1 DEF StaysOrShows
<1> QED BY <1>3, <1>4

LEMMA LidStep ==
  ASSUME SeenTypes, Monitors!LidStateChanged
  PROVE  StaysOrShows /\ handled' \in BOOLEAN
<1> DEFINE closed == ~lid_is_closed
           off == IF closed THEN Monitors!WithoutLaptop(Monitors!Shown) ELSE Monitors!Null
           auto == IF Monitors!MakeDefault(closed) = Monitors!Null THEN off ELSE Monitors!MakeDefault(closed)
           c == Monitors!FromFile(Monitors!Stored(intended), closed)
<1>1. connected \subseteq External /\ Sound(intended) /\ closed \in BOOLEAN /\ scene.boot \in Boots
      /\ handled \in BOOLEAN /\ current \in Monitors!Config
  BY ScenesAssumption DEF SeenTypes, Boots
<1>2. \/ UNCHANGED <<current, hot, handled>>
      \/ Monitors!Stored(intended) # Monitors!Null /\ Monitors!Show(c) /\ handled' = handled
      \/ Monitors!ShowIf(auto) /\ handled' = FALSE
  <2> HIDE DEF off, c
  <2> QED BY DEF Monitors!LidStateChanged, off, c
<1>3. FitOrNull(Monitors!Stored(intended), connected) BY <1>1, StoredFits
<1>4. Monitors!Stored(intended) # Monitors!Null => Fit(c, connected)
  BY <1>3, FromFileFits DEF FitOrNull
<1>5. FitOrNull(auto, connected)
  <2>1. FitOrNull(Monitors!Shown, connected)
    <3>1. current.clone \in BOOLEAN /\ current.on \cap Monitors!Present \subseteq Monitors!Present
      BY <1>1 DEF Monitors!Config
    <3> QED BY <1>1, <3>1, OnlyFits DEF Monitors!Shown
  <2>2. FitOrNull(Monitors!WithoutLaptop(Monitors!Shown), connected) BY <2>1, FromFileFits
  <2>3. FitOrNull(off, connected) BY <2>2 DEF FitOrNull
  <2>4. FitOrNull(Monitors!MakeDefault(closed), connected) BY <1>1, DefaultFits
  <2> HIDE DEF off, closed
  <2> QED BY <2>3, <2>4
<1> HIDE DEF auto, c, closed
<1>6. CASE UNCHANGED <<current, hot, handled>> BY <1>1, <1>6 DEF StaysOrShows
<1>7. CASE Monitors!Stored(intended) # Monitors!Null /\ Monitors!Show(c) /\ handled' = handled
  BY <1>1, <1>4, <1>7 DEF StaysOrShows, Monitors!Show
<1>8. CASE Monitors!ShowIf(auto) /\ handled' = FALSE BY <1>5, <1>8, ShowIfShows
<1> QED BY <1>2, <1>6, <1>7, <1>8

\* What is restored is a backup, or that there was none.
LEMMA RestoreStep ==
  ASSUME SeenTypes, NEW yes \in BOOLEAN, Monitors!Answered(yes)
  PROVE  StaysOrShows /\ Sound(intended') /\ Sound(backup') /\ Sound(accepted')
<1>1. connected \subseteq External /\ Sound(intended) /\ Sound(backup) /\ Sound(accepted) BY DEF SeenTypes
<1>2. Sound(Monitors!Absent) BY DEF Sound
<1>3. CASE yes BY <1>1, <1>2, <1>3 DEF Monitors!Answered, Monitors!Keep, StaysOrShows
<1>4. CASE ~yes
  <2>1. /\ backup' = Monitors!Absent /\ intended' = backup /\ accepted' = accepted
        /\ IF backup = Monitors!Absent THEN UNCHANGED <<current, hot>>
           ELSE Monitors!ShowIf(Monitors!FromFile(backup[connected], lid_is_closed))
    BY <1>4 DEF Monitors!Answered, Monitors!RestoreBackup
  <2>2. CASE backup = Monitors!Absent BY <1>1, <1>2, <2>1, <2>2 DEF StaysOrShows
  <2>3. CASE backup # Monitors!Absent
    <3>1. FitOrNull(Monitors!Stored(backup), connected) BY <1>1, StoredFits
    <3>2. Monitors!Stored(backup) = backup[connected] BY <2>3 DEF Monitors!Stored
    <3>3. FitOrNull(Monitors!FromFile(backup[connected], lid_is_closed), connected) BY <3>1, <3>2, FromFileFits
    <3> QED BY <1>1, <1>2, <2>1, <2>3, <3>3, ShowIfShows
  <2> QED BY <2>2, <2>3
<1> QED BY <1>3, <1>4

LEMMA ApplyStep ==
  ASSUME SeenInv, Monitors!ApplyConfiguration
  PROVE  StaysOrShows /\ Sound(intended') /\ Sound(backup') /\ AsksInv'
<1>1. connected \subseteq External /\ Sound(intended) /\ Sound(backup) /\ Sound(Monitors!Absent)
  BY DEF SeenInv, SeenTypes, Sound
<1>2. /\ calling /\ calling' = FALSE /\ asking' = asking
      /\ \/ /\ Monitors!ShowIf(Monitors!FromFile(Monitors!Stored(intended), lid_is_closed))
            /\ queued' = queued + 1 /\ UNCHANGED <<intended, backup>>
         \/ /\ UNCHANGED <<current, hot, queued>>
            /\ IF backup = Monitors!Absent THEN UNCHANGED <<intended, backup>>
               ELSE intended' = backup /\ backup' = Monitors!Absent
  BY DEF Monitors!ApplyConfiguration, Monitors!files
<1>3. FitOrNull(Monitors!FromFile(Monitors!Stored(intended), lid_is_closed), connected)
  BY <1>1, StoredFits, FromFileFits
<1>4. AsksInv'
  <2>1. queued \in Nat /\ Len(asking) \in Nat /\ queued + Len(asking) + 1 <= MaxAsks
        /\ asking \in Seq(BOOLEAN)
    BY <1>2 DEF SeenInv, AsksInv
  <2>2. queued' \in {queued, queued + 1} /\ calling' = FALSE /\ asking' = asking BY <1>2
  <2>3. MaxAsks \in Nat BY AsksAssumption
  <2>4. queued' \in Nat /\ queued' + Len(asking) <= MaxAsks BY <2>1, <2>2, <2>3
  <2>5. (IF calling' THEN 1 ELSE 0) = 0 /\ calling' \in BOOLEAN BY <2>2
  <2>6. queued' + Len(asking') + 0 <= MaxAsks BY <2>1, <2>2, <2>4
  <2> QED BY <2>1, <2>2, <2>4, <2>5, <2>6 DEF AsksInv
<1>5. CASE UNCHANGED <<current, hot, queued>> BY <1>1, <1>2, <1>4, <1>5 DEF StaysOrShows
<1>6. CASE /\ Monitors!ShowIf(Monitors!FromFile(Monitors!Stored(intended), lid_is_closed))
           /\ UNCHANGED <<intended, backup>>
  BY <1>1, <1>3, <1>4, <1>6, ShowIfShows
<1>7. Sound(intended') /\ Sound(backup') BY <1>1, <1>2
<1>8. StaysOrShows BY <1>2, <1>3, ShowIfShows DEF StaysOrShows
<1> QED BY <1>4, <1>7, <1>8

\* The start of the daemon.
LEMMA StartStep ==
  ASSUME SeenTypes, Monitors!Start
  PROVE  StaysOrShows /\ Sound(intended') /\ Sound(backup')
<1>1. connected \subseteq External /\ Sound(intended) /\ Sound(backup) /\ Sound(Monitors!Absent)
      /\ lid_is_closed \in BOOLEAN /\ scene.boot \in Boots
  BY ScenesAssumption DEF SeenTypes, Sound, Boots
<1>2. CASE backup # Monitors!Absent
  <2>1. /\ intended' = backup /\ backup' = Monitors!Absent
        /\ Monitors!ShowIf(Monitors!FromFile(backup[connected], lid_is_closed))
    BY <1>2 DEF Monitors!Start
  <2>2. FitOrNull(Monitors!Stored(backup), connected) BY <1>1, StoredFits
  <2>3. Monitors!Stored(backup) = backup[connected] BY <1>2 DEF Monitors!Stored
  <2>4. FitOrNull(Monitors!FromFile(backup[connected], lid_is_closed), connected) BY <2>2, <2>3, FromFileFits
  <2> QED BY <1>1, <2>1, <2>4, ShowIfShows
<1>3. CASE backup = Monitors!Absent
  <2>1. UNCHANGED <<intended, backup>> BY <1>3 DEF Monitors!Start, Monitors!files
  <2>2. FitOrNull(Monitors!Stored(intended), connected) BY <1>1, StoredFits
  <2>3. CASE Monitors!Stored(intended) # Monitors!Null
    <3> DEFINE c == Monitors!FromFile(Monitors!Stored(intended), lid_is_closed)
    <3>1. Monitors!Show(c) BY <1>3, <2>3 DEF Monitors!Start
    <3>2. Fit(c, connected) BY <2>2, <2>3, FromFileFits DEF FitOrNull
    <3> HIDE DEF c
    <3> QED BY <1>1, <2>1, <3>1, <3>2 DEF Monitors!Show, StaysOrShows
  <2>4. CASE Monitors!Stored(intended) = Monitors!Null
    <3>1. Monitors!ShowIf(Monitors!MakeDefault(lid_is_closed)) \/ UNCHANGED <<current, hot>>
      BY <1>3, <2>4 DEF Monitors!Start
    <3>2. FitOrNull(Monitors!MakeDefault(lid_is_closed), connected) BY <1>1, DefaultFits
    <3> QED BY <1>1, <2>1, <3>1, <3>2, ShowIfShows DEF StaysOrShows
  <2> QED BY <2>3, <2>4
<1> QED BY <1>2, <1>3

LEMMA AsksKept == ASSUME AsksInv, UNCHANGED Monitors!asks PROVE AsksInv'
BY DEF AsksInv, Monitors!asks
LEMMA CycleKept == ASSUME CycleInv, UNCHANGED Monitors!cycle PROVE CycleInv'
BY DEF CycleInv, Monitors!cycle, Fit

LEMMA Shortened ==
  ASSUME NEW S, NEW q \in Seq(S), q # <<>>
  PROVE  Monitors!Front(q) \in Seq(S) /\ Len(Monitors!Front(q)) = Len(q) - 1
<1>1. Len(q) - 1 \in Nat /\ \A i \in 1 .. Len(q) - 1 : q[i] \in S OBVIOUS
<1>2. Monitors!Front(q) = SubSeq(q, 1, Len(q) - 1) BY DEF Monitors!Front
<1>3. SubSeq(q, 1, Len(q) - 1) \in Seq(S) BY <1>1
<1>4. Len(SubSeq(q, 1, Len(q) - 1)) = Len(q) - 1
  <2>1. ASSUME NEW k \in Nat PROVE Len(SubSeq(q, 1, k)) = k
    <3>1. CASE k = 0 BY <3>1
    <3>2. CASE k # 0 BY <3>2
    <3> QED BY <3>1, <3>2
  <2> QED BY <1>1, <2>1
<1> QED BY <1>2, <1>3, <1>4

LEMMA AsksClose ==
  ASSUME AsksInv, NEW q \in Seq(BOOLEAN), Len(q) = Len(asking), asking # <<>>,
         asking' = Monitors!Front(q), UNCHANGED <<calling, queued>>
  PROVE  AsksInv'
<1>1. q # <<>> BY DEF AsksInv
<1>2. asking' \in Seq(BOOLEAN) /\ Len(asking') = Len(asking) - 1 BY <1>1, Shortened
<1>3. queued \in Nat /\ Len(asking) \in Nat /\ calling \in BOOLEAN
      /\ queued + Len(asking) + (IF calling THEN 1 ELSE 0) <= MaxAsks
  BY DEF AsksInv
<1>4. MaxAsks \in Nat BY AsksAssumption
<1> QED BY <1>2, <1>3, <1>4 DEF AsksInv

LEMMA CallKeeps ==
  ASSUME SeenInv, NEW c \in Monitors!Config, Monitors!StoreAndCall(c)
  PROVE  AsksInv' /\ Sound(intended') /\ Sound(backup')
<1>1. /\ calling = FALSE /\ calling' = TRUE /\ queued + Len(asking) < MaxAsks /\ UNCHANGED <<queued, asking>>
      /\ c.on # {} /\ c.on \subseteq Monitors!Present /\ Monitors!Save(c)
  BY DEF Monitors!StoreAndCall, SeenInv, AsksInv
<1>2. AsksInv'
  <2>1. queued \in Nat /\ Len(asking) \in Nat /\ asking \in Seq(BOOLEAN) /\ MaxAsks \in Nat
    BY AsksAssumption DEF SeenInv, AsksInv
  <2>2. queued + Len(asking) + 1 <= MaxAsks BY <1>1, <2>1
  <2>3. (IF calling' THEN 1 ELSE 0) = 1 /\ calling' \in BOOLEAN BY <1>1
  <2> QED BY <1>1, <2>1, <2>2, <2>3 DEF AsksInv
<1>3. FitOrNull(c, connected) BY <1>1 DEF FitOrNull, Fit, Monitors!Present
<1>4. connected \subseteq External /\ Sound(intended) /\ Sound(backup) BY DEF SeenInv, SeenTypes
<1>5. Sound(Monitors!Saved(c)) BY <1>3, <1>4, SavedIsSound
<1> QED BY <1>1, <1>2, <1>4, <1>5 DEF Monitors!Save

LEMMA SeenStart == Monitors!Init => SeenInv /\ SceneInv
<1> SUFFICES ASSUME Monitors!Init PROVE SeenInv /\ SceneInv OBVIOUS
<1>1. connected = External /\ scene \in Scenes BY DEF Monitors!Init
<1>2. Fit(current, connected)
  <2>1. current = [on |-> Monitors!Present, clone |-> Monitors!Cardinality(Monitors!Present) > scene.fits]
    BY DEF Monitors!Init
  <2>2. current.on = {Monitors!Laptop} \cup connected BY <2>1 DEF Monitors!Present
  <2>3. current \in Monitors!Config BY <1>1, <2>1 DEF Monitors!Config, Monitors!Present, Monitors!Output
  <2> QED BY <2>2, <2>3 DEF Fit
<1>3. Sound(Monitors!Absent) BY DEF Sound
<1>4. Sound([Monitors!Empty EXCEPT ![External] = current])
  <2> DEFINE g == [Monitors!Empty EXCEPT ![External] = current]
  <2>1. Monitors!Empty \in [SUBSET External -> Monitors!Config]
        /\ \A S \in SUBSET External : Monitors!Empty[S] = Monitors!Null
    BY NullIsNone DEF Monitors!Empty
  <2>2. External \in SUBSET External /\ current \in Monitors!Config BY <1>2 DEF Fit
  <2>3. g \in [SUBSET External -> Monitors!Config] /\ g[External] = current
        /\ \A S \in SUBSET External : S # External => g[S] = Monitors!Null
    BY <2>1, <2>2
  <2> HIDE DEF g
  <2>4. \A S \in SUBSET External : FitOrNull(g[S], S) BY <1>1, <1>2, <2>3 DEF FitOrNull
  <2>5. Sound(g) BY <2>3, <2>4 DEF Sound
  <2> QED BY <2>5 DEF g
<1>5. SeenTypes
  <2>1. (intended = Monitors!Absent \/ intended = [Monitors!Empty EXCEPT ![External] = current])
        /\ backup = Monitors!Absent /\ accepted = intended
        /\ events = 0 /\ lid_is_closed = FALSE /\ hot = FALSE /\ handled = TRUE /\ running = TRUE
    BY DEF Monitors!Init
  <2>2. Sound(intended) /\ Sound(backup) /\ Sound(accepted) BY <1>3, <1>4, <2>1
  <2>3. lid_is_closed \in BOOLEAN /\ hot \in BOOLEAN /\ handled \in BOOLEAN /\ running \in BOOLEAN BY <2>1
  <2>4. events \in 0 .. 2 BY <2>1
  <2> QED BY <1>1, <1>2, <2>2, <2>3, <2>4 DEF SeenTypes, Fit
<1>6. CycleInv
  <2>1. <<>> \in Seq({c \in Monitors!Config : Fit(c, fn_f7_outputs)}) OBVIOUS
  <2> QED BY <2>1 DEF Monitors!Init, CycleInv
<1>7. AsksInv
  <2>1. queued = 0 /\ asking = <<>> /\ calling = FALSE BY DEF Monitors!Init
  <2>2. <<>> \in Seq(BOOLEAN) /\ Len(<<>>) = 0 /\ MaxAsks \in Nat BY AsksAssumption
  <2>3. (IF calling THEN 1 ELSE 0) = 0 /\ calling \in BOOLEAN BY <2>1
  <2>4. queued + Len(asking) + 0 <= MaxAsks BY <2>1, <2>2
  <2> QED BY <2>1, <2>2, <2>3, <2>4 DEF AsksInv
<1>8. SceneInv BY DEF Monitors!Init, SceneInv
<1> QED BY <1>5, <1>6, <1>7, <1>8 DEF SeenInv

LEMMA SeenStep == SeenInv /\ SceneInv /\ [Monitors!Next]_(Monitors!vars) => SeenInv' /\ SceneInv'
<1> SUFFICES ASSUME SeenInv, SceneInv, [Monitors!Next]_(Monitors!vars) PROVE SeenInv' /\ SceneInv' OBVIOUS
<1> USE DEF Monitors!server, Monitors!files, Monitors!told
<1>0. SeenTypes /\ CycleInv /\ AsksInv BY DEF SeenInv
<1>a. /\ scene \in Scenes /\ connected \subseteq External /\ events \in 0 .. 2
      /\ lid_is_closed \in BOOLEAN /\ hot \in BOOLEAN /\ handled \in BOOLEAN /\ running \in BOOLEAN
      /\ Sound(intended) /\ Sound(backup) /\ Sound(accepted)
      /\ current \in Monitors!Config /\ current.on # {}
  BY <1>0 DEF SeenTypes
\* What is shown is a configuration, and what is stored is sound.
<1>b. ASSUME StaysOrShows, scene' = scene, connected' \subseteq External, events' \in 0 .. 2,
             lid_is_closed' \in BOOLEAN, handled' \in BOOLEAN, running' \in BOOLEAN,
             Sound(intended'), Sound(backup'), Sound(accepted')
      PROVE  SeenTypes'
  BY <1>0, <1>a, <1>b, ShowsTypes DEF SeenTypes
<1>c. UNCHANGED <<current, hot>> => StaysOrShows BY DEF StaysOrShows
<1>1. CASE UNCHANGED Monitors!vars
  <2>1. UNCHANGED <<Monitors!asks, Monitors!cycle>> /\ UNCHANGED <<scene, connected, lid_is_closed, current, hot, events,
          handled, running, intended, backup, accepted>>
    BY <1>1 DEF Monitors!vars
  <2>2. SeenTypes' BY <1>a, <1>b, <1>c, <2>1
  <2>3. CycleInv' /\ AsksInv' BY <1>0, <2>1, AsksKept, CycleKept
  <2> QED BY <2>1, <2>2, <2>3 DEF SeenInv, SceneInv
<1>2. ASSUME Monitors!Next PROVE scene' = scene BY <1>2 DEF Monitors!Next
<1>3. ASSUME scene' = scene, NEW S \in SUBSET External, Monitors!Replug(S) PROVE SeenInv' /\ SceneInv'
  <2>1. /\ "plug" \in scene.may /\ events < 2 /\ events' = events + 1 /\ connected' = S
        /\ hot' = TRUE /\ handled' = FALSE
        /\ UNCHANGED <<lid_is_closed, current, running, intended, backup, accepted, Monitors!asks, Monitors!cycle>>
    BY <1>3 DEF Monitors!Replug, Monitors!May
  <2>2. events' \in 0 .. 2 BY <1>a, <2>1
  <2>3. SeenTypes' BY <1>3, <1>a, <2>1, <2>2 DEF SeenTypes
  <2>4. CycleInv' /\ AsksInv' BY <1>0, <2>1, AsksKept, CycleKept
  <2> QED BY <1>3, <2>1, <2>3, <2>4 DEF SeenInv, SceneInv
<1>4. ASSUME scene' = scene, NEW c \in Monitors!Config, Monitors!StoreAndCall(c) PROVE SeenInv' /\ SceneInv'
  <2>1. UNCHANGED <<connected, lid_is_closed, current, hot, events, handled, running, accepted, Monitors!cycle>>
    BY <1>4 DEF Monitors!StoreAndCall
  <2>2. AsksInv' /\ Sound(intended') /\ Sound(backup') BY <1>4, CallKeeps
  <2>3. SeenTypes' BY <1>4, <1>a, <1>b, <1>c, <2>1, <2>2
  <2>4. CycleInv' BY <1>0, <2>1, CycleKept
  <2> QED BY <1>4, <2>1, <2>2, <2>3, <2>4 DEF SeenInv, SceneInv
<1>5. ASSUME scene' = scene, Monitors!OnRandrEvent PROVE SeenInv' /\ SceneInv'
  <2>1. UNCHANGED <<connected, lid_is_closed, running, intended, backup, accepted, Monitors!asks, Monitors!cycle>>
    BY <1>5 DEF Monitors!OnRandrEvent
  <2>2. SeenTypes' BY <1>0, <1>5, <1>a, <1>b, <2>1, EventStep
  <2>3. CycleInv' /\ AsksInv' BY <1>0, <2>1, AsksKept, CycleKept
  <2> QED BY <1>5, <2>1, <2>2, <2>3 DEF SeenInv, SceneInv
<1>6. ASSUME scene' = scene, Monitors!LidStateChanged PROVE SeenInv' /\ SceneInv'
  <2>1. lid_is_closed' = ~lid_is_closed
        /\ UNCHANGED <<connected, events, running, intended, backup, accepted, Monitors!asks, Monitors!cycle>>
    BY <1>6 DEF Monitors!LidStateChanged
  <2>2. StaysOrShows /\ handled' \in BOOLEAN BY <1>0, <1>6, LidStep
  <2>3. SeenTypes' BY <1>6, <1>a, <1>b, <2>1, <2>2
  <2>4. CycleInv' /\ AsksInv' BY <1>0, <2>1, AsksKept, CycleKept
  <2> QED BY <1>6, <2>1, <2>3, <2>4 DEF SeenInv, SceneInv
<1>7. ASSUME scene' = scene, Monitors!VideoModeSwitch PROVE SeenInv' /\ SceneInv'
  <2>1. UNCHANGED <<connected, lid_is_closed, events, handled, running, Monitors!asks>>
    BY <1>7 DEF Monitors!VideoModeSwitch
  <2>2. StaysOrShows /\ CycleInv' /\ Sound(intended') /\ Sound(backup') /\ Sound(accepted') BY <1>7, KeyStep
  <2>3. SeenTypes' BY <1>7, <1>a, <1>b, <2>1, <2>2
  <2>4. AsksInv' BY <1>0, <2>1, AsksKept
  <2> QED BY <1>7, <2>1, <2>2, <2>3, <2>4 DEF SeenInv, SceneInv
<1>8. ASSUME scene' = scene, Monitors!ApplyConfiguration PROVE SeenInv' /\ SceneInv'
  <2>1. UNCHANGED <<connected, lid_is_closed, events, handled, running, accepted, Monitors!cycle>>
    BY <1>8 DEF Monitors!ApplyConfiguration
  <2>2. StaysOrShows /\ Sound(intended') /\ Sound(backup') /\ AsksInv' BY <1>8, ApplyStep
  <2>3. SeenTypes' BY <1>8, <1>a, <1>b, <2>1, <2>2
  <2>4. CycleInv' BY <1>0, <2>1, CycleKept
  <2> QED BY <1>8, <2>1, <2>2, <2>3, <2>4 DEF SeenInv, SceneInv
<1>9. ASSUME scene' = scene, Monitors!ConfirmWithUserIdle PROVE SeenInv' /\ SceneInv'
  <2>1. /\ queued > 0 /\ queued' = queued - 1 /\ asking' = Append(asking, FALSE) /\ calling' = calling
        /\ UNCHANGED <<connected, lid_is_closed, current, hot, events, handled, running, intended, backup, accepted, Monitors!cycle>>
    BY <1>9 DEF Monitors!ConfirmWithUserIdle
  <2>2. AsksInv'
    <3>1. queued \in Nat /\ asking \in Seq(BOOLEAN) /\ Len(asking) \in Nat BY <1>0 DEF AsksInv
    <3>2. asking' \in Seq(BOOLEAN) /\ Len(asking') = Len(asking) + 1 BY <2>1, <3>1
    <3>3. queued' \in Nat /\ queued' + Len(asking') = queued + Len(asking) BY <2>1, <3>1, <3>2
    <3> QED BY <1>0, <2>1, <3>2, <3>3 DEF AsksInv
  <2>3. SeenTypes' BY <1>9, <1>a, <1>b, <1>c, <2>1
  <2>4. CycleInv' BY <1>0, <2>1, CycleKept
  <2> QED BY <1>9, <2>1, <2>2, <2>3, <2>4 DEF SeenInv, SceneInv
<1>10. ASSUME scene' = scene, NEW yes \in BOOLEAN, Monitors!Answer(yes) PROVE SeenInv' /\ SceneInv'
  <2>1. /\ asking # <<>> /\ asking' = Monitors!Front(asking) /\ Monitors!Answered(yes)
        /\ UNCHANGED <<connected, lid_is_closed, events, handled, running, calling, queued, Monitors!cycle>>
    BY <1>10 DEF Monitors!Answer
  <2>2. AsksInv'
    <3>1. asking \in Seq(BOOLEAN) BY <1>0 DEF AsksInv
    <3> QED BY <1>0, <2>1, <3>1, AsksClose
  <2>3. StaysOrShows /\ Sound(intended') /\ Sound(backup') /\ Sound(accepted') BY <1>0, <2>1, RestoreStep
  <2>4. SeenTypes' BY <1>10, <1>a, <1>b, <2>1, <2>3
  <2>5. CycleInv' BY <1>0, <2>1, CycleKept
  <2> QED BY <1>10, <2>1, <2>2, <2>4, <2>5 DEF SeenInv, SceneInv
<1>11. ASSUME scene' = scene, NEW i \in 1 .. MaxAsks, Monitors!CountdownEnds(i) PROVE SeenInv' /\ SceneInv'
  <2>1. /\ i \in DOMAIN asking /\ asking' = Monitors!Front([asking EXCEPT ![i] = TRUE])
        /\ Monitors!Answered(FALSE) \/ Monitors!Answered(TRUE)
        /\ UNCHANGED <<connected, lid_is_closed, events, handled, running, calling, queued, Monitors!cycle>>
    BY <1>11 DEF Monitors!CountdownEnds
  <2>2. AsksInv'
    <3>1. asking \in Seq(BOOLEAN) /\ asking # <<>> BY <1>0, <2>1 DEF AsksInv
    <3>2. [asking EXCEPT ![i] = TRUE] \in Seq(BOOLEAN) /\ Len([asking EXCEPT ![i] = TRUE]) = Len(asking)
      BY <2>1, <3>1
    <3> QED BY <1>0, <2>1, <3>1, <3>2, AsksClose
  <2>3. StaysOrShows /\ Sound(intended') /\ Sound(backup') /\ Sound(accepted') BY <1>0, <2>1, RestoreStep
  <2>4. SeenTypes' BY <1>11, <1>a, <1>b, <2>1, <2>3
  <2>5. CycleInv' BY <1>0, <2>1, CycleKept
  <2> QED BY <1>11, <2>1, <2>2, <2>4, <2>5 DEF SeenInv, SceneInv
<1>12. ASSUME scene' = scene, Monitors!Crash PROVE SeenInv' /\ SceneInv'
  <2>1. /\ "crash" \in scene.may /\ running' = FALSE /\ calling' = FALSE /\ queued' = 0 /\ asking' = <<>>
        /\ fn_f7_configs' = <<>> /\ fn_f7_outputs' = {}
        /\ UNCHANGED <<connected, lid_is_closed, current, hot, events, handled, intended, backup, accepted>>
    BY <1>12 DEF Monitors!Crash, Monitors!May
  <2>2. AsksInv'
    <3>1. (IF calling' THEN 1 ELSE 0) = 0 /\ Len(asking') = 0 /\ asking' \in Seq(BOOLEAN) BY <2>1
    <3>2. queued' + Len(asking') + 0 <= MaxAsks /\ queued' \in Nat BY <2>1, <3>1, AsksAssumption
    <3>3. calling' \in BOOLEAN BY <2>1
    <3> QED BY <3>1, <3>2, <3>3 DEF AsksInv
  <2>3. SeenTypes' BY <1>12, <1>a, <1>b, <1>c, <2>1
  <2>4. CycleInv'
    <3>1. <<>> \in Seq({c \in Monitors!Config : Fit(c, fn_f7_outputs')}) OBVIOUS
    <3> QED BY <2>1, <3>1 DEF CycleInv
  <2> QED BY <1>12, <2>1, <2>2, <2>3, <2>4 DEF SeenInv, SceneInv
<1>13. ASSUME scene' = scene, Monitors!Start PROVE SeenInv' /\ SceneInv'
  <2>1. /\ running' = TRUE /\ handled' = FALSE /\ events' = 0
        /\ UNCHANGED <<connected, lid_is_closed, accepted, Monitors!cycle, Monitors!asks>>
    BY <1>13 DEF Monitors!Start
  <2>2. StaysOrShows /\ Sound(intended') /\ Sound(backup') BY <1>0, <1>13, StartStep
  <2>5. running' \in BOOLEAN /\ handled' \in BOOLEAN BY <2>1
  <2>6. events' \in 0 .. 2 BY <2>1
  <2>3. SeenTypes' BY <1>13, <1>a, <1>b, <2>1, <2>2, <2>5, <2>6
  <2>4. CycleInv' /\ AsksInv' BY <1>0, <2>1, AsksKept, CycleKept
  <2> QED BY <1>13, <2>1, <2>3, <2>4 DEF SeenInv, SceneInv
<1> QED
  BY <1>1, <1>2, <1>3, <1>4, <1>5, <1>6, <1>7, <1>8, <1>9, <1>10, <1>11, <1>12, <1>13 DEF Monitors!Next

LEMMA MonitorsTyped == SeenInv => Monitors!TypeOK
<1> SUFFICES ASSUME SeenInv PROVE Monitors!TypeOK OBVIOUS
<1>1. SeenTypes /\ CycleInv /\ AsksInv BY DEF SeenInv
<1>2. \A f : Sound(f) => f \in Monitors!File BY DEF Sound, Monitors!File
<1>3. fn_f7_configs = <<>> \/ current_fn_f7_config \in DOMAIN fn_f7_configs
  <2>1. DOMAIN fn_f7_configs = 1 .. Len(fn_f7_configs) BY <1>1 DEF CycleInv
  <2> QED BY <1>1, <2>1 DEF CycleInv
<1>4. queued + Len(asking) <= MaxAsks BY <1>1, AsksAssumption DEF AsksInv
<1> QED BY <1>1, <1>2, <1>3, <1>4 DEF SeenTypes, Monitors!TypeOK

\* The outputs that are there fit side by side but all at once, and monitors do
\* not move while the daemon may be dead: otherwise the screen can stay dark.
RoomForMost ==
  /\ IsFiniteSet(External)
  /\ \A s \in Scenes : Cardinality(External) <= s.fits /\ ~({"crash", "plug"} \subseteq s.may)

\* The strengthening of SomethingToSee: a dark screen means that the event of the
\* monitors that moved is still to come, and is news.
Seen == current.on \cap Monitors!Present # {}
Coming == events > 0 /\ hot = TRUE /\ handled = FALSE
Watched == running = TRUE /\ scene.boot # "dock" /\ (lid_is_closed = FALSE \/ scene.boot = "do-nothing")
InSight == Watched => Seen \/ Coming

LEMMA FitIsSeen == ASSUME NEW c, Fit(c, connected) PROVE c.on \cap Monitors!Present # {}
BY DEF Fit, Monitors!Present

\* With every monitor there, whatever is on can be seen.
LEMMA AllIsSeen ==
  ASSUME connected = External, NEW c \in Monitors!Config, c.on # {}
  PROVE  c.on \cap Monitors!Present # {}
BY DEF Monitors!Config, Monitors!Output, Monitors!Present

\* With a monitor missing, the rest fits.
LEMMA Fewer ==
  ASSUME RoomForMost, SeenTypes, connected # External
  PROVE  Monitors!Cardinality(Monitors!Present) <= scene.fits
<1>1. IsFiniteSet(External) /\ connected \subseteq External /\ Cardinality(External) <= scene.fits /\ scene.fits \in Nat
  BY ScenesAssumption DEF RoomForMost, SeenTypes
<1>2. IsFiniteSet(connected) /\ Cardinality(connected) \in Nat /\ Cardinality(External) \in Nat
  BY <1>1, FS_Subset, FS_CardinalityType
<1>3. PICK m \in External : m \notin connected BY <1>1
<1>4. connected \subseteq External \ {m} /\ IsFiniteSet(External \ {m})
      /\ Cardinality(External \ {m}) = Cardinality(External) - 1
  <2>1. connected \subseteq External \ {m} BY <1>1, <1>3
  <2>2. IsFiniteSet(External \ {m}) /\ Cardinality(External \ {m}) = Cardinality(External) - 1
    BY <1>1, <1>3, FS_RemoveElement
  <2> QED BY <2>1, <2>2
<1>5. Cardinality(connected) <= Cardinality(External \ {m}) BY <1>4, FS_Subset
<1>6. IsFiniteSet(connected \cup {Monitors!Laptop})
      /\ Cardinality(connected \cup {Monitors!Laptop}) \in {Cardinality(connected), Cardinality(connected) + 1}
  <2>1. IsFiniteSet(connected \cup {Monitors!Laptop})
        /\ Cardinality(connected \cup {Monitors!Laptop}) =
             IF Monitors!Laptop \in connected THEN Cardinality(connected) ELSE Cardinality(connected) + 1
    BY <1>2, FS_AddElement
  <2> QED BY <2>1
<1>7. Monitors!Present = connected \cup {Monitors!Laptop} BY DEF Monitors!Present
<1>8. Cardinality(Monitors!Present) <= scene.fits
  <2> DEFINE p == Cardinality(Monitors!Present)  e == Cardinality(External)
  <2>1. p \in {Cardinality(connected), Cardinality(connected) + 1} BY <1>6, <1>7
  <2>2. Cardinality(connected) <= e - 1 BY <1>4, <1>5
  <2> HIDE DEF p, e
  <2>3. e \in Nat BY <1>2 DEF e
  <2>4. e <= scene.fits BY <1>1 DEF e
  <2>5. p <= scene.fits BY <1>1, <1>2, <2>1, <2>2, <2>3, <2>4
  <2> QED BY <2>5 DEF p
<1>9. Monitors!Cardinality(Monitors!Present) = Cardinality(Monitors!Present) BY DEF Monitors!Cardinality, Cardinality
<1> QED BY <1>8, <1>9

\* What is made up for open eyes is something to see.
LEMMA MadeUpIsSeen ==
  ASSUME RoomForMost, SeenTypes, scene.boot # "dock", NEW closed \in BOOLEAN, ~closed \/ scene.boot = "do-nothing",
         Monitors!ShowIf(Monitors!MakeDefault(closed)), UNCHANGED connected
  PROVE  Seen'
<1> DEFINE d == Monitors!MakeDefault(closed)
<1>1. connected \subseteq External /\ scene.boot \in Boots BY ScenesAssumption DEF SeenTypes, Boots
<1>2. FitOrNull(d, connected) BY <1>1, DefaultFits
<1>3. Monitors!Cardinality(Monitors!Present) <= scene.fits => d # Monitors!Null BY <1>1, DefaultFits
<1>4. Monitors!ShowIf(d) OBVIOUS
<1> HIDE DEF d
<1>5. CASE d = Monitors!Null
  <2>1. current' = current BY <1>4, <1>5 DEF Monitors!ShowIf
  <2>2. connected = External BY <1>3, <1>5, Fewer
  <2>3. current.on \cap Monitors!Present # {} BY <2>2, AllIsSeen DEF SeenTypes
  <2> QED BY <2>1, <2>3 DEF Seen, Monitors!Present
<1>6. CASE d # Monitors!Null
  <2>1. Fit(current', connected) BY <1>2, <1>4, <1>6, ShowIfShows
  <2>2. current'.on \cap Monitors!Present # {} BY <2>1, FitIsSeen
  <2> QED BY <2>2 DEF Seen, Monitors!Present
<1> QED BY <1>5, <1>6

LEMMA InSightKept ==
  ASSUME InSight, StaysOrShows, UNCHANGED <<scene, running, lid_is_closed, connected, events, handled>>
  PROVE  InSight'
<1>1. CASE UNCHANGED <<current, hot>> BY <1>1 DEF InSight, Watched, Seen, Coming, Monitors!Present
<1>2. CASE Fit(current', connected)
  <2>1. current'.on \cap Monitors!Present # {} BY <1>2, FitIsSeen
  <2> QED BY <2>1 DEF InSight, Seen, Monitors!Present
<1> QED BY <1>1, <1>2 DEF StaysOrShows

LEMMA EventInSight ==
  ASSUME RoomForMost, SeenTypes, InSight, Monitors!OnRandrEvent, scene' = scene
  PROVE  InSight'
<1>1. UNCHANGED <<running, lid_is_closed, connected>> BY DEF Monitors!OnRandrEvent
<1> SUFFICES ASSUME Watched' PROVE Seen' BY DEF InSight
<1>2. Watched /\ (Seen \/ Coming) BY <1>1 DEF InSight, Watched
<1>3. connected \subseteq External /\ Sound(intended) /\ lid_is_closed \in BOOLEAN /\ hot \in BOOLEAN /\ handled \in BOOLEAN
  BY DEF SeenTypes
<1>4. CASE UNCHANGED <<current, hot>> /\ ~Coming
  BY <1>1, <1>2, <1>4 DEF Seen, Monitors!Present
<1>5. CASE hot = FALSE
  <2>1. UNCHANGED <<current, hot>> BY <1>5 DEF Monitors!OnRandrEvent
  <2> QED BY <1>4, <1>5, <2>1 DEF Coming
<1>6. CASE hot = TRUE
  <2>1. Monitors!UseStoredOrAuto(~handled) BY <1>6 DEF Monitors!OnRandrEvent
  <2>2. CASE Monitors!Stored(intended) # Monitors!Null
    <3> DEFINE c == Monitors!FromFile(Monitors!Stored(intended), lid_is_closed)
    <3>1. current' = c BY <2>1, <2>2 DEF Monitors!UseStoredOrAuto, Monitors!Show
    <3>2. FitOrNull(Monitors!Stored(intended), connected) BY <1>3, StoredFits
    <3>3. Fit(c, connected) BY <2>2, <3>2, FromFileFits DEF FitOrNull
    <3> HIDE DEF c
    <3>4. current'.on \cap Monitors!Present # {} BY <3>1, <3>3, FitIsSeen
    <3> QED BY <1>1, <3>4 DEF Seen, Monitors!Present
  <2>3. CASE Monitors!Stored(intended) = Monitors!Null /\ handled = FALSE
    <3>1. Monitors!ShowIf(Monitors!MakeDefault(lid_is_closed)) BY <2>1, <2>3 DEF Monitors!UseStoredOrAuto
    <3>2. scene.boot # "dock" /\ (~lid_is_closed \/ scene.boot = "do-nothing") BY <1>2 DEF Watched
    <3> QED BY <1>1, <1>3, <3>1, <3>2, MadeUpIsSeen
  <2>4. CASE Monitors!Stored(intended) = Monitors!Null /\ handled = TRUE
    <3>1. UNCHANGED <<current, hot>> BY <2>1, <2>4 DEF Monitors!UseStoredOrAuto
    <3> QED BY <1>4, <2>4, <3>1 DEF Coming
  <2> QED BY <1>3, <2>2, <2>3, <2>4
<1> QED BY <1>3, <1>5, <1>6

LEMMA LidInSight ==
  ASSUME RoomForMost, SeenTypes, InSight, Monitors!LidStateChanged, scene' = scene
  PROVE  InSight'
<1>1. lid_is_closed' = ~lid_is_closed /\ UNCHANGED <<running, connected, events>> BY DEF Monitors!LidStateChanged
<1>2. connected \subseteq External /\ Sound(intended) /\ lid_is_closed \in BOOLEAN /\ running \in BOOLEAN
      /\ scene.boot \in Boots
  BY ScenesAssumption DEF SeenTypes, Boots
<1> SUFFICES ASSUME Watched' PROVE Seen' \/ Coming' BY DEF InSight
<1>3. CASE scene.boot = "do-nothing"
  <2>1. ~Monitors!Follows BY <1>3 DEF Monitors!Follows
  <2>2. UNCHANGED <<current, hot, handled>> BY <2>1 DEF Monitors!LidStateChanged
  <2>3. Watched BY <1>1, <1>3 DEF Watched
  <2> QED BY <1>1, <2>2, <2>3 DEF InSight, Seen, Coming, Monitors!Present
<1>4. CASE scene.boot # "do-nothing"
  <2>1. lid_is_closed = TRUE /\ running = TRUE /\ scene.boot # "dock"
    <3>1. running' = TRUE /\ scene'.boot # "dock" /\ (lid_is_closed' = FALSE \/ scene'.boot = "do-nothing")
      BY DEF Watched
    <3>2. scene'.boot # "do-nothing" BY <1>4
    <3>3. lid_is_closed' = FALSE BY <3>1, <3>2
    <3>4. lid_is_closed = TRUE BY <1>1, <1>2, <3>3
    <3> QED BY <1>1, <3>1, <3>4
  <2>2. Monitors!Follows BY <1>2, <1>4, <2>1 DEF Boots, Monitors!Follows
  <2> DEFINE c == Monitors!FromFile(Monitors!Stored(intended), FALSE)
             d == Monitors!MakeDefault(FALSE)
  <2>3. IF Monitors!Stored(intended) # Monitors!Null THEN Monitors!Show(c) ELSE Monitors!ShowIf(d)
    <3>1. ~lid_is_closed = FALSE BY <2>1
    <3> DEFINE closed == ~lid_is_closed
               off == IF closed THEN Monitors!WithoutLaptop(Monitors!Shown) ELSE Monitors!Null
               auto == IF Monitors!MakeDefault(closed) = Monitors!Null THEN off ELSE Monitors!MakeDefault(closed)
    <3>2. IF Monitors!Stored(intended) # Monitors!Null
            THEN Monitors!Show(Monitors!FromFile(Monitors!Stored(intended), closed))
            ELSE Monitors!ShowIf(auto)
      BY <2>1, <2>2 DEF Monitors!LidStateChanged
    <3>3. off = Monitors!Null BY <3>1
    <3>4. auto = Monitors!MakeDefault(closed)
      <4> HIDE DEF off, closed
      <4> QED BY <3>3
    <3>5. closed = FALSE BY <3>1
    <3> HIDE DEF closed, auto
    <3> QED BY <3>2, <3>4, <3>5
  <2> HIDE DEF d
  <2>4. CASE Monitors!Stored(intended) # Monitors!Null
    <3>1. FitOrNull(Monitors!Stored(intended), connected) BY <1>2, StoredFits
    <3>2. Fit(c, connected) BY <2>4, <3>1, FromFileFits DEF FitOrNull
    <3>3. current' = c BY <2>3, <2>4 DEF Monitors!Show
    <3> HIDE DEF c
    <3>4. current'.on \cap Monitors!Present # {} BY <3>2, <3>3, FitIsSeen
    <3> QED BY <1>1, <3>4 DEF Seen, Monitors!Present
  <2>5. CASE Monitors!Stored(intended) = Monitors!Null
    <3>1. Monitors!ShowIf(Monitors!MakeDefault(FALSE)) BY <2>3, <2>5 DEF d
    <3>2. FALSE \in BOOLEAN /\ connected' = connected BY <1>1
    <3> QED BY <2>1, <3>1, <3>2, MadeUpIsSeen
  <2> QED BY <2>4, <2>5
<1> QED BY <1>3, <1>4

LEMMA InSightStart == Monitors!Init /\ SeenInv => InSight
<1> SUFFICES ASSUME Monitors!Init, SeenInv PROVE InSight OBVIOUS
<1>1. connected = External BY DEF Monitors!Init
<1>2. current \in Monitors!Config /\ current.on # {} BY DEF SeenInv, SeenTypes
<1> QED BY <1>1, <1>2, AllIsSeen DEF InSight, Seen

LEMMA InSightStep ==
  ASSUME RoomForMost, SeenInv, SceneInv, InSight, [Monitors!Next]_(Monitors!vars), SeenInv'
  PROVE  InSight'
<1> USE DEF Monitors!server, Monitors!files, Monitors!told
<1>0. SeenTypes /\ SeenTypes' BY DEF SeenInv
<1>1. CASE UNCHANGED Monitors!vars
  <2>1. UNCHANGED <<scene, running, lid_is_closed, connected, events, handled, current, hot>> BY <1>1 DEF Monitors!vars
  <2> QED BY <2>1, InSightKept DEF StaysOrShows
<1>2. ASSUME Monitors!Next PROVE scene' = scene BY <1>2 DEF Monitors!Next
<1>3. ASSUME scene' = scene, NEW S \in SUBSET External, Monitors!Replug(S) PROVE InSight'
  <2>1. hot' = TRUE /\ handled' = FALSE /\ events' = events + 1 BY <1>3 DEF Monitors!Replug
  <2>2. events \in Nat BY <1>0 DEF SeenTypes
  <2>3. events' > 0 BY <2>1, <2>2
  <2> QED BY <2>1, <2>3 DEF InSight, Coming
<1>4. ASSUME scene' = scene, NEW c \in Monitors!Config, Monitors!StoreAndCall(c) PROVE InSight'
  <2>1. UNCHANGED <<running, lid_is_closed, connected, events, handled, current, hot>>
    BY <1>4 DEF Monitors!StoreAndCall
  <2> QED BY <1>4, <2>1, InSightKept DEF StaysOrShows
<1>5. ASSUME scene' = scene, Monitors!OnRandrEvent PROVE InSight' BY <1>0, <1>5, EventInSight
<1>6. ASSUME scene' = scene, Monitors!LidStateChanged PROVE InSight' BY <1>0, <1>6, LidInSight
<1>7. ASSUME scene' = scene, Monitors!VideoModeSwitch PROVE InSight'
  <2>1. UNCHANGED <<running, lid_is_closed, connected, events, handled>> BY <1>7 DEF Monitors!VideoModeSwitch
  <2>2. StaysOrShows BY <1>7, KeyStep
  <2> QED BY <1>7, <2>1, <2>2, InSightKept
<1>8. ASSUME scene' = scene, Monitors!ApplyConfiguration PROVE InSight'
  <2>1. UNCHANGED <<running, lid_is_closed, connected, events, handled>> BY <1>8 DEF Monitors!ApplyConfiguration
  <2>2. StaysOrShows BY <1>8, ApplyStep
  <2> QED BY <1>8, <2>1, <2>2, InSightKept
<1>9. ASSUME scene' = scene, Monitors!ConfirmWithUserIdle PROVE InSight'
  <2>1. UNCHANGED <<running, lid_is_closed, connected, events, handled, current, hot>>
    BY <1>9 DEF Monitors!ConfirmWithUserIdle
  <2> QED BY <1>9, <2>1, InSightKept DEF StaysOrShows
<1>10. ASSUME scene' = scene, NEW yes \in BOOLEAN, Monitors!Answer(yes) PROVE InSight'
  <2>1. Monitors!Answered(yes) /\ UNCHANGED <<running, lid_is_closed, connected, events, handled>>
    BY <1>10 DEF Monitors!Answer
  <2>2. StaysOrShows BY <1>0, <2>1, RestoreStep
  <2> QED BY <1>10, <2>1, <2>2, InSightKept
<1>11. ASSUME scene' = scene, NEW i \in 1 .. MaxAsks, Monitors!CountdownEnds(i) PROVE InSight'
  <2>1. /\ Monitors!Answered(FALSE) \/ Monitors!Answered(TRUE)
        /\ UNCHANGED <<running, lid_is_closed, connected, events, handled>>
    BY <1>11 DEF Monitors!CountdownEnds
  <2>2. StaysOrShows BY <1>0, <2>1, RestoreStep
  <2> QED BY <1>11, <2>1, <2>2, InSightKept
<1>12. ASSUME scene' = scene, Monitors!Crash PROVE InSight'
  <2>1. running' = FALSE BY <1>12 DEF Monitors!Crash
  <2> QED BY <2>1 DEF InSight, Watched
<1>13. ASSUME scene' = scene, Monitors!Start PROVE InSight'
  <2>1. running = FALSE /\ connected' = connected BY <1>0, <1>13 DEF Monitors!Start, SeenTypes
  <2>2. "crash" \in scene.may BY <2>1 DEF SceneInv
  <2>3. "plug" \notin scene.may BY <1>0, <2>2 DEF RoomForMost, SeenTypes
  <2>4. connected = External BY <2>3 DEF SceneInv
  <2>5. current' \in Monitors!Config /\ current'.on # {} BY <1>0 DEF SeenTypes
  <2>6. current'.on \cap Monitors!Present # {} BY <2>4, <2>5, AllIsSeen
  <2> QED BY <2>1, <2>6 DEF InSight, Seen, Monitors!Present
<1> QED
  BY <1>1, <1>2, <1>3, <1>4, <1>5, <1>6, <1>7, <1>8, <1>9, <1>10, <1>11, <1>12, <1>13 DEF Monitors!Next

\* With the lid open there is something to see once every RandR event was dealt
\* with (csd-xrandr-manager.c:1701-1813), however many monitors there are, in
\* every scene in which they fit but all at once and stay while the daemon may
\* be dead.
THEOREM AlwaysInSight == ASSUME RoomForMost PROVE AllSpec => []SomethingToSee
<1>1. Monitors!Init => SeenInv /\ SceneInv /\ InSight BY SeenStart, InSightStart
<1>2. (SeenInv /\ SceneInv /\ InSight) /\ [Monitors!Next]_(Monitors!vars) => (SeenInv /\ SceneInv /\ InSight)'
  BY SeenStep, InSightStep
<1>3. SeenInv /\ SceneInv /\ InSight => SomethingToSee
  <2> SUFFICES ASSUME SeenInv, InSight, Monitors!Quiet, ~lid_is_closed, scene.boot # "dock"
               PROVE  current.on \cap Monitors!Present # {}
    BY DEF SomethingToSee, Monitors!SomethingToSee
  <2>1. running = TRUE /\ lid_is_closed = FALSE /\ events = 0 BY DEF Monitors!Quiet, SeenInv, SeenTypes
  <2>2. Watched /\ ~Coming BY <2>1 DEF Watched, Coming
  <2> QED BY <2>2 DEF InSight, Seen
<1> QED BY <1>1, <1>2, <1>3, PartIsMonitors, PTL DEF Monitors!Spec

-----------------------------------------------------------------------------
(* The colours, for any outputs, profiles and number of changes.  Where the *)
(* requests to colord and its answers are one queue, what is in it about an *)
(* output, and in which order, says what will be loaded.                    *)

\* No message in B comes after the n-th; the last one in G comes after all in B.
Beyond(q, n, B) == \A i \in n + 1 .. Len(q) : q[i] \notin B
NoneOf(q, B) == Beyond(q, 0, B)
LastIs(q, G, B) == \E j \in 1 .. Len(q) : q[j] \in G /\ Beyond(q, j, B)
Once(q, m) == \A i, j \in 1 .. Len(q) : q[i] = m /\ q[j] = m => i = j

LEMMA OneOf ==
  \A e, G, B : /\ NoneOf(<<e>>, B) <=> e \notin B
               /\ e \in G => LastIs(<<e>>, G, B)
               /\ Once(<<e>>, e)
BY DEF NoneOf, Beyond, LastIs, Once

LEMMA NoneOfEmpty == \A B : NoneOf(<<>>, B) /\ \A m : Once(<<>>, m)
BY DEF NoneOf, Beyond, Once

LEMMA Joining ==
  ASSUME NEW S, NEW T, NEW q \in Seq(S), NEW r \in Seq(T)
  PROVE  /\ \A B : NoneOf(q \o r, B) <=> NoneOf(q, B) /\ NoneOf(r, B)
         /\ \A G, B : LastIs(q, G, B) /\ NoneOf(r, B) => LastIs(q \o r, G, B)
         /\ \A G, B : LastIs(r, G, B) => LastIs(q \o r, G, B)
         /\ \A m : Once(q, m) /\ Once(r, m) /\ (NoneOf(q, {m}) \/ NoneOf(r, {m})) => Once(q \o r, m)
<1> DEFINE s == q \o r
           n == Len(q)
           l == Len(r)
<1>1. /\ n \in Nat /\ l \in Nat /\ Len(s) = n + l
      /\ \A i \in 1 .. n : s[i] = q[i]
      /\ \A i \in 1 .. l : s[n + i] = r[i]
      /\ \A i \in n + 1 .. n + l : i - n \in 1 .. l /\ s[i] = r[i - n]
  OBVIOUS
<1> HIDE DEF s, n, l
<1>2. ASSUME NEW B PROVE NoneOf(s, B) <=> NoneOf(q, B) /\ NoneOf(r, B)
  <2>1. ASSUME NoneOf(s, B) PROVE NoneOf(q, B) /\ NoneOf(r, B)
    <3>1. \A i \in 1 .. n : q[i] \notin B BY <1>1, <2>1 DEF NoneOf, Beyond
    <3>2. ASSUME NEW i \in 1 .. l PROVE r[i] \notin B
      <4>1. n + i \in 1 .. n + l /\ s[n + i] = r[i] BY <1>1
      <4> QED BY <1>1, <2>1, <4>1 DEF NoneOf, Beyond
    <3> QED BY <3>1, <3>2 DEF NoneOf, Beyond, n, l
  <2>2. ASSUME NoneOf(q, B), NoneOf(r, B) PROVE NoneOf(s, B)
    <3>1. ASSUME NEW i \in 1 .. n + l PROVE s[i] \notin B
      <4>1. CASE i \in 1 .. n BY <1>1, <2>2, <4>1 DEF NoneOf, Beyond, n
      <4>2. CASE i \in n + 1 .. n + l
        <5>1. i - n \in 1 .. l /\ s[i] = r[i - n] BY <1>1, <4>2
        <5> QED BY <2>2, <5>1 DEF NoneOf, Beyond, l
      <4> QED BY <1>1, <4>1, <4>2
    <3> QED BY <1>1, <3>1 DEF NoneOf, Beyond
  <2> QED BY <2>1, <2>2
<1>3. ASSUME NEW G, NEW B, LastIs(q, G, B), NoneOf(r, B) PROVE LastIs(s, G, B)
  <2>1. PICK j \in 1 .. n : q[j] \in G /\ \A i \in j + 1 .. n : q[i] \notin B BY <1>3 DEF LastIs, Beyond, n
  <2>2. j \in 1 .. Len(s) /\ s[j] \in G BY <1>1, <2>1
  <2>3. ASSUME NEW i \in j + 1 .. Len(s) PROVE s[i] \notin B
    <3>1. CASE i \in 1 .. n BY <1>1, <2>1, <3>1
    <3>2. CASE i \in n + 1 .. n + l
      <4>1. i - n \in 1 .. l /\ s[i] = r[i - n] BY <1>1, <3>2
      <4> QED BY <1>3, <4>1 DEF NoneOf, Beyond, l
    <3> QED BY <1>1, <2>1, <3>1, <3>2
  <2> QED BY <2>2, <2>3 DEF LastIs, Beyond
<1>4. ASSUME NEW G, NEW B, LastIs(r, G, B) PROVE LastIs(s, G, B)
  <2>1. PICK j \in 1 .. l : r[j] \in G /\ \A i \in j + 1 .. l : r[i] \notin B BY <1>4 DEF LastIs, Beyond, l
  <2>2. n + j \in 1 .. Len(s) /\ s[n + j] \in G BY <1>1, <2>1
  <2>3. ASSUME NEW i \in n + j + 1 .. Len(s) PROVE s[i] \notin B
    <3>1. i \in n + 1 .. n + l /\ i - n \in j + 1 .. l BY <1>1, <2>1
    <3>2. s[i] = r[i - n] BY <1>1, <3>1
    <3> QED BY <2>1, <3>1, <3>2
  <2> QED BY <2>2, <2>3 DEF LastIs, Beyond
<1>5. ASSUME NEW m, Once(q, m), Once(r, m), NoneOf(q, {m}) \/ NoneOf(r, {m}) PROVE Once(s, m)
  <2> SUFFICES ASSUME NEW i \in 1 .. n + l, NEW j \in 1 .. n + l, s[i] = m, s[j] = m PROVE i = j
    BY <1>1 DEF Once
  <2>1. \A k \in 1 .. n + l : k \in 1 .. n \/ (k \in n + 1 .. n + l /\ k - n \in 1 .. l /\ s[k] = r[k - n]) BY <1>1
  <2>2. CASE NoneOf(q, {m})
    <3>1. \A k \in 1 .. n : s[k] # m BY <1>1, <2>2 DEF NoneOf, Beyond, n
    <3>2. i - n \in 1 .. l /\ j - n \in 1 .. l /\ r[i - n] = m /\ r[j - n] = m BY <2>1, <3>1
    <3>3. i - n = j - n BY <1>5, <3>2 DEF Once, l
    <3> QED BY <1>1, <3>3
  <2>3. CASE NoneOf(r, {m})
    <3>1. \A k \in 1 .. l : r[k] # m BY <2>3 DEF NoneOf, Beyond, l
    <3>2. i \in 1 .. n /\ j \in 1 .. n BY <2>1, <3>1
    <3>3. q[i] = m /\ q[j] = m BY <1>1, <3>2
    <3> QED BY <1>5, <3>2, <3>3 DEF Once, n
  <2> QED BY <1>5, <2>2, <2>3
<1> QED BY <1>2, <1>3, <1>4, <1>5 DEF s

LEMMA Serving ==
  ASSUME NEW S, NEW q \in Seq(S), q # <<>>
  PROVE  /\ Head(q) \in S /\ Tail(q) \in Seq(S)
         /\ \A B : NoneOf(q, B) <=> Head(q) \notin B /\ NoneOf(Tail(q), B)
         /\ \A G, B : LastIs(q, G, B) => LastIs(Tail(q), G, B) \/ (Head(q) \in G /\ NoneOf(Tail(q), B))
         /\ \A m : Once(q, m) => Once(Tail(q), m) /\ (Head(q) = m => NoneOf(Tail(q), {m}))
<1> DEFINE s == Tail(q)
           n == Len(q)
<1>1. /\ n \in Nat /\ n >= 1 /\ Head(q) = q[1] /\ Head(q) \in S /\ s \in Seq(S) /\ Len(s) = n - 1
      /\ \A i \in 1 .. n - 1 : s[i] = q[i + 1]
  OBVIOUS
<1> HIDE DEF s, n
<1>2. \A i \in 2 .. n : i - 1 \in 1 .. n - 1 /\ q[i] = s[i - 1] BY <1>1
<1>3. ASSUME NEW B PROVE NoneOf(q, B) <=> Head(q) \notin B /\ NoneOf(s, B)
  <2>1. ASSUME NoneOf(q, B) PROVE Head(q) \notin B /\ NoneOf(s, B)
    BY <1>1, <2>1 DEF NoneOf, Beyond, n
  <2>2. ASSUME Head(q) \notin B, NoneOf(s, B) PROVE NoneOf(q, B)
    <3>1. ASSUME NEW i \in 1 .. n PROVE q[i] \notin B
      <4>1. CASE i = 1 BY <1>1, <2>2, <4>1
      <4>2. CASE i \in 2 .. n
        <5>1. i - 1 \in 1 .. Len(s) /\ q[i] = s[i - 1] BY <1>1, <1>2, <4>2
        <5>2. s[i - 1] \notin B BY <2>2, <5>1 DEF NoneOf, Beyond
        <5> QED BY <5>1, <5>2
      <4> QED BY <1>1, <4>1, <4>2
    <3> QED BY <3>1 DEF NoneOf, Beyond, n
  <2> QED BY <2>1, <2>2
<1>4. ASSUME NEW G, NEW B, LastIs(q, G, B) PROVE LastIs(s, G, B) \/ (Head(q) \in G /\ NoneOf(s, B))
  <2>1. PICK j \in 1 .. n : q[j] \in G /\ \A i \in j + 1 .. n : q[i] \notin B BY <1>4 DEF LastIs, Beyond, n
  <2>2. ASSUME NEW i \in j .. n - 1 PROVE s[i] \notin B BY <1>1, <2>1
  <2>3. CASE j = 1 BY <1>1, <2>1, <2>2, <2>3 DEF NoneOf, Beyond
  <2>4. CASE j \in 2 .. n
    <3>1. j - 1 \in 1 .. Len(s) /\ s[j - 1] \in G BY <1>1, <1>2, <2>1, <2>4
    <3>2. \A i \in (j - 1) + 1 .. Len(s) : s[i] \notin B BY <1>1, <2>2
    <3> QED BY <3>1, <3>2 DEF LastIs, Beyond
  <2> QED BY <1>1, <2>3, <2>4
<1>5. ASSUME NEW m, Once(q, m) PROVE Once(s, m) /\ (Head(q) = m => NoneOf(s, {m}))
  <2>1. ASSUME NEW i \in 1 .. n - 1 PROVE i + 1 \in 1 .. n /\ 1 \in 1 .. n /\ s[i] = q[i + 1] /\ i + 1 # 1 BY <1>1
  <2>2. Once(s, m)
    <3> SUFFICES ASSUME NEW i \in 1 .. n - 1, NEW j \in 1 .. n - 1, s[i] = m, s[j] = m PROVE i = j
      BY <1>1 DEF Once
    <3>1. i + 1 = j + 1 BY <1>5, <2>1 DEF Once, n
    <3> QED BY <3>1
  <2>3. ASSUME Head(q) = m PROVE NoneOf(s, {m})
    <3>1. ASSUME NEW i \in 1 .. n - 1, s[i] = m PROVE FALSE
      <4>1. i + 1 = 1 BY <1>1, <1>5, <2>1, <2>3, <3>1 DEF Once, n
      <4> QED BY <2>1, <4>1
    <3> QED BY <1>1, <3>1 DEF NoneOf, Beyond
  <2> QED BY <2>2, <2>3
<1> QED BY <1>1, <1>3, <1>4, <1>5 DEF s

LEMMA Present ==
  ASSUME NEW q, NEW G, NEW B, ~NoneOf(q, G), NoneOf(q, B) PROVE LastIs(q, G, B)
BY DEF NoneOf, Beyond, LastIs

LEMMA SequenceOf ==
  ASSUME NEW S, NEW k \in Nat, NEW g \in [1 .. k -> S] PROVE g \in Seq(S) /\ Len(g) = k
OBVIOUS

LEMMA Enumerated ==
  ASSUME NEW T, IsFiniteSet(T), NEW n, n = Colour!Cardinality(T), NEW f, f = Colour!SetToSeq(T)
  PROVE  f \in [1 .. n -> T] /\ Colour!IsInjective(f) /\ DOMAIN f = 1 .. n
<1>1. n = Cardinality(T) BY DEF Colour!Cardinality, Cardinality
<1>2. n \in Nat /\ ExistsBijection(1 .. n, T) BY <1>1, FS_CardinalityType
<1>3. PICK g \in [1 .. n -> T] : Colour!IsInjective(g)
  <2>1. PICK g : g \in Bijection(1 .. n, T) BY <1>2 DEF ExistsBijection
  <2>2. g \in [1 .. n -> T] /\ \A a, b \in 1 .. n : g[a] = g[b] => a = b
    BY <2>1 DEF Bijection, Injection, IsInjective
  <2> QED BY <2>2 DEF Colour!IsInjective
<1>4. f \in [1 .. n -> T] /\ Colour!IsInjective(f) BY <1>3 DEF Colour!SetToSeq
<1> QED BY <1>4

\* The messages about each of a set of outputs.
LEMMA AboutEach ==
  ASSUME NEW T, IsFiniteSet(T), NEW is, NEW why
  PROVE  /\ Colour!Of(T, is, why) \in Seq([is : {is}, output : T, why : {why}])
         /\ \A B : NoneOf(Colour!Of(T, is, why), B) <=> \A o \in T : Colour!Message(is, o, why) \notin B
         /\ \A o : Once(Colour!Of(T, is, why), Colour!Message(is, o, why))
<1> DEFINE n == Cardinality(T)
           f == Colour!SetToSeq(T)
           r == [i \in 1 .. n |-> Colour!Message(is, f[i], why)]
<1>1. Colour!Cardinality(T) = n BY DEF Colour!Cardinality, Cardinality
<1>2. n \in Nat BY FS_CardinalityType
<1>4. f \in [1 .. n -> T] /\ Colour!IsInjective(f) BY <1>1, Enumerated
<1>5. Colour!Of(T, is, why) = r BY <1>4 DEF Colour!Of
<1> HIDE DEF f
<1>6. f \in [1 .. n -> T] /\ \A i, j \in 1 .. n : f[i] = f[j] => i = j BY <1>4 DEF Colour!IsInjective
<1>7. \A o \in T : \E i \in 1 .. n : f[i] = o
  <2>1. Cardinality(1 .. n) = n
    <3>1. n \in Nat /\ 1 \in Int BY <1>2
    <3> HIDE DEF n
    <3> QED BY <3>1, FS_Interval
  <2>2. f \in Injection(1 .. n, T) BY <1>6 DEF Injection, IsInjective
  <2>3. f \in Surjection(1 .. n, T) BY <2>1, <2>2, FS_Injection
  <2> QED BY <2>3 DEF Surjection
<1> HIDE DEF n
<1>8. r \in Seq([is : {is}, output : T, why : {why}]) /\ Len(r) = n
  <2>1. r \in [1 .. n -> [is : {is}, output : T, why : {why}]] BY <1>6 DEF Colour!Message
  <2> QED BY <1>2, <2>1, SequenceOf
<1>9. \A i \in 1 .. n : r[i] = Colour!Message(is, f[i], why) BY <1>2
<1> HIDE DEF r
<1>10. ASSUME NEW B PROVE NoneOf(r, B) <=> \A o \in T : Colour!Message(is, o, why) \notin B
  BY <1>6, <1>7, <1>8, <1>9 DEF NoneOf, Beyond
<1>11. ASSUME NEW o PROVE Once(r, Colour!Message(is, o, why))
  <2> SUFFICES ASSUME NEW i \in 1 .. n, NEW j \in 1 .. n,
                      r[i] = Colour!Message(is, o, why), r[j] = Colour!Message(is, o, why)
               PROVE  i = j
    BY <1>8 DEF Once
  <2>0. \A x : Colour!Message(is, x, why).output = x BY DEF Colour!Message
  <2>1. f[i] = o /\ f[j] = o BY <1>9, <2>0
  <2> QED BY <1>6, <2>1
<1> QED BY <1>5, <1>8, <1>10, <1>11

Loads == Profile \cup {NoProfile}
Request ==
  [is : {"create", "list", "device"}, output : Connector, why : {"none"}]
  \cup [is : {"find"}, output : Connector, why : {"remove", "gamma"}]
  \cup [is : {"delete"}, output : Connector, why : {"delete"}]
  \cup [is : {"profile"}, output : Connector, why : Loads]
Reply ==
  [is : {"added", "changed"}, output : Connector, why : {"none"}]
  \cup [is : {"devices"}, output : SUBSET Connector, why : {"none"}]
  \cup [is : {"found"}, output : Connector, why : {"remove", "gamma"}]
  \cup [is : {"device"}, output : Connector, why : Loads \cup {"gone"}]
  \cup [is : {"profile"}, output : Connector, why : Loads]

\* What is said about an output: that it is removed and created, that a device
\* is new or has another default, the default a device had when it was asked
\* for, and the profile that is to be loaded.
Removal(o) == [is : {"find", "found", "delete"}, output : {o}, why : {"remove", "delete"}]
FindRemoved(o) == Colour!Message("find", o, "remove")
Create(o) == Colour!Message("create", o, "none")
Tells(o) == [is : {"added", "changed"}, output : {o}, why : {"none"}]
DeviceOf(o) == [is : {"device"}, output : {o}, why : Loads \cup {"gone", "none"}]
ProfileOf(o) == [is : {"profile"}, output : {o}, why : Loads]
Stale(o, d) == [is : {"device"}, output : {o}, why : (Loads \cup {"gone"}) \ {d}]
Good(o, d) == [is : {"device"}, output : {o}, why : {"none", d}] \cup [is : {"profile"}, output : {o}, why : {d}]
Bad(o, d) == Stale(o, d) \cup [is : {"profile"}, output : {o}, why : Loads \ {d}]
\* Of these the device will be asked for its default.
Asks(o) == [is : {"create"}, output : {o}, why : {"none"}] \cup [is : {"find"}, output : {o}, why : {"gamma"}]
           \cup [is : {"list"}, output : Connector, why : {"none"}]
Replies(o) == Tells(o) \cup [is : {"found"}, output : {o}, why : {"gamma"}]
            \cup [is : {"devices"}, output : {s \in SUBSET Connector : o \in s}, why : {"none"}]

Queued(n, c, G, B) == LastIs(c, G, B) \/ (LastIs(n, G, B) /\ NoneOf(c, B))
Removed(o) == ~NoneOf(calls, Removal(o)) \/ ~NoneOf(news, Removal(o))
Created(o) == ~NoneOf(calls, {Create(o)})

\* An output that is being removed is not there.
Gone(o) == Removed(o) => o \notin crtcs /\ o \notin screen.outputs
\* The device of an output that was seen is there or is about to be created; that
\* of another one is about to be removed.
Known(o) ==
  /\ o \in screen.outputs /\ o \notin devices => Created(o)
  /\ o \in devices => ~Created(o) /\ (o \in screen.outputs \/ Removed(o))
  /\ Once(calls, Create(o))
  /\ o \in screen.outputs \/ LastIs(calls, {FindRemoved(o)}, {Create(o)}) \/ ~Created(o)
\* After an answer that is out of date comes the news that it is.
Noticed(o) ==
  o \in screen.outputs => LastIs(news, Tells(o), Stale(o, default[o])) \/ NoneOf(news, Stale(o, default[o])) \/ Created(o)
\* "assign already in progress": the device is being asked for, and no profile
\* of an earlier answer comes later.
InProgress(o) == o \in device_assign_hash => Queued(news, calls, DeviceOf(o), ProfileOf(o))
\* The default is loaded, or will be, and nothing else later.
Shows(n, c, o, d, v) ==
  \/ ~NoneOf(n, Replies(o)) \/ ~NoneOf(c, Asks(o))
  \/ Queued(n, c, Good(o, d), Bad(o, d))
  \/ NoneOf(n, Bad(o, d)) /\ NoneOf(c, Bad(o, d)) /\ v = d

ColorTypes ==
  /\ crtcs \subseteq Connector /\ primary \in Connector /\ changed \in BOOLEAN
  /\ screen \in [outputs : SUBSET Connector, primary : Connector]
  /\ devices \subseteq Connector /\ default \in [Connector -> Loads]
  /\ calls \in Seq(Request) /\ news \in Seq(Reply) /\ device_assign_hash \subseteq Connector
  /\ gamma \in [Connector -> Loads]

Accounted(o) == Gone(o) /\ Known(o) /\ Noticed(o) /\ InProgress(o)
Loaded ==
  ~changed => /\ screen = [outputs |-> crtcs, primary |-> primary]
              /\ \A o \in crtcs : Shows(news, calls, o, default[o], gamma[o])
              /\ primary \in crtcs => Shows(news, calls, primary, default[primary], icc)

ColorInv == ColorTypes /\ (\A o \in Connector : Accounted(o)) /\ Loaded

LEMMA Stands ==
  /\ NoProfile \in Loads /\ Profile \subseteq Loads
  /\ "gone" \notin Loads /\ "none" \notin Loads /\ "remove" \notin Loads /\ "delete" \notin Loads
BY ProfileAssumption DEF Loads

LEMMA ColorFacts ==
  ASSUME NEW o
  PROVE  /\ FindRemoved(o) \in Removal(o) /\ FindRemoved(o) # Create(o)
         /\ Create(o) \in Asks(o) /\ Create(o) \notin Removal(o)
         /\ \A d : Tells(o) \cap Stale(o, d) = {} /\ Stale(o, d) \subseteq Bad(o, d)
         /\ Tells(o) \subseteq Replies(o)
BY DEF FindRemoved, Create, Removal, Asks, Tells, Stale, Bad, Replies, Colour!Message

LEMMA Includes == ASSUME NEW q, NEW A, NEW B, A \subseteq B, NoneOf(q, B) PROVE NoneOf(q, A)
BY DEF NoneOf, Beyond

LEMMA HasLast == ASSUME NEW q, NEW G, NEW B, LastIs(q, G, B) PROVE ~NoneOf(q, G)
<1>1. PICK j \in 1 .. Len(q) : q[j] \in G BY DEF LastIs
<1>2. j \in 0 + 1 .. Len(q) OBVIOUS
<1> QED BY <1>1, <1>2 DEF NoneOf, Beyond

\* The answers of colord, with what they say about each output.
Answering(c) ==
  CASE c.is = "create" /\ c.output \notin devices -> <<Colour!Message("added", c.output, "none")>>
    [] c.is = "list" -> <<Colour!Message("devices", devices, "none")>>
    [] c.is = "find" -> IF c.output \in devices THEN <<Colour!Message("found", c.output, c.why)>> ELSE <<>>
    [] c.is = "device" -> <<Colour!Message("device", c.output, IF c.output \in devices THEN default[c.output] ELSE "gone")>>
    [] c.is = "profile" -> <<Colour!Message("profile", c.output, c.why)>>
    [] OTHER -> <<>>

LEMMA AnswerTo ==
  ASSUME ColorTypes, NEW c \in Request, NEW o \in Connector, NEW a, a = Answering(c)
  PROVE  /\ a \in Seq(Reply)
         /\ c \notin Removal(o) => NoneOf(a, Removal(o))
         /\ c.is = "find" /\ c \in Removal(o) /\ o \in devices => ~NoneOf(a, Removal(o))
         /\ c \notin ProfileOf(o) => NoneOf(a, ProfileOf(o))
         /\ c \in DeviceOf(o) => LastIs(a, DeviceOf(o), ProfileOf(o))
         /\ c = Create(o) /\ o \notin devices =>
              LastIs(a, Tells(o), Stale(o, default[o])) /\ ~NoneOf(a, Replies(o))
         /\ c \in Asks(o) /\ c # Create(o) /\ o \in devices => ~NoneOf(a, Replies(o))
         /\ o \in devices \/ c \notin DeviceOf(o) =>
              /\ NoneOf(a, Stale(o, default[o]))
              /\ c \notin Bad(o, default[o]) => NoneOf(a, Bad(o, default[o]))
              /\ c \in Good(o, default[o]) => LastIs(a, Good(o, default[o]), Bad(o, default[o]))
<1> DEFINE d == default[o]
<1>0. d \in Loads /\ d # "gone" /\ d # "none" BY Stands DEF ColorTypes
<1> HIDE DEF d
<1>1. CASE c.is = "create" /\ c.output \notin devices
  <2> DEFINE m == Colour!Message("added", c.output, "none")
  <2>1. a = <<m>> BY <1>1 DEF Answering
  <2>2. /\ m \in Reply /\ m \notin Removal(o) /\ m \notin ProfileOf(o) /\ m \notin Bad(o, d) /\ m \notin Stale(o, d)
        /\ c \notin DeviceOf(o) /\ c \notin Good(o, d)
        /\ c = Create(o) => m \in Tells(o) /\ m \in Replies(o)
        /\ c \in Asks(o) => c = Create(o)
    BY <1>0, <1>1 DEF Reply, Request, Removal, ProfileOf, Bad, Stale, DeviceOf, Good, Create, Tells, Replies, Asks,
       Colour!Message
  <2> HIDE DEF m
  <2>3. a \in Seq(Reply) BY <2>1, <2>2
  <2> QED BY <1>1, <2>1, <2>2, <2>3, OneOf DEF d
<1>2. CASE c.is = "create" /\ c.output \in devices
  <2>1. a = <<>> BY <1>2 DEF Answering
  <2>2. /\ c \notin DeviceOf(o) /\ c \notin Good(o, d)
        /\ c = Create(o) => o \in devices
        /\ c \in Asks(o) => c = Create(o)
    BY <1>0, <1>2 DEF Request, DeviceOf, Good, Create, Asks, Colour!Message
  <2> QED BY <1>2, <2>1, <2>2, NoneOfEmpty DEF d
<1>3. CASE c.is = "list"
  <2> DEFINE m == Colour!Message("devices", devices, "none")
  <2>1. a = <<m>> BY <1>3 DEF Answering
  <2>2. /\ m \in Reply /\ m \notin Removal(o) /\ m \notin ProfileOf(o) /\ m \notin Bad(o, d) /\ m \notin Stale(o, d)
        /\ c \notin DeviceOf(o) /\ c \notin Good(o, d) /\ c # Create(o)
        /\ o \in devices => m \in Replies(o)
    BY <1>0, <1>3 DEF Reply, Request, Removal, ProfileOf, Bad, Stale, DeviceOf, Good, Create, Replies, ColorTypes,
       Colour!Message
  <2> HIDE DEF m
  <2>3. a \in Seq(Reply) BY <2>1, <2>2
  <2> QED BY <1>3, <2>1, <2>2, <2>3, OneOf DEF d
<1>4. CASE c.is = "find" /\ c.output \in devices
  <2> DEFINE m == Colour!Message("found", c.output, c.why)
  <2>1. a = <<m>> BY <1>4 DEF Answering
  <2>2. /\ m \in Reply /\ m \notin ProfileOf(o) /\ m \notin Bad(o, d) /\ m \notin Stale(o, d)
        /\ c \notin DeviceOf(o) /\ c \notin Good(o, d) /\ c # Create(o)
        /\ c \in Removal(o) <=> m \in Removal(o)
        /\ c \in Asks(o) => m \in Replies(o)
    BY <1>0, <1>4 DEF Reply, Request, Removal, ProfileOf, Bad, Stale, DeviceOf, Good, Create, Replies, Asks,
       Colour!Message
  <2> HIDE DEF m
  <2>3. a \in Seq(Reply) BY <2>1, <2>2
  <2> QED BY <1>4, <2>1, <2>2, <2>3, OneOf DEF d
<1>5. CASE c.is = "find" /\ c.output \notin devices
  <2>1. a = <<>> BY <1>5 DEF Answering
  <2>2. /\ c \notin DeviceOf(o) /\ c \notin Good(o, d) /\ c # Create(o)
        /\ c \in Removal(o) \/ c \in Asks(o) => c.output = o
    BY <1>0, <1>5 DEF Request, DeviceOf, Good, Create, Removal, Asks, Colour!Message
  <2> QED BY <1>5, <2>1, <2>2, NoneOfEmpty DEF d
<1>6. CASE c.is = "delete"
  <2>1. a = <<>> BY <1>6 DEF Answering
  <2>2. c \notin DeviceOf(o) /\ c \notin Good(o, d) /\ c # Create(o) /\ c \notin Asks(o)
    BY <1>0, <1>6 DEF Request, DeviceOf, Good, Create, Asks, Colour!Message
  <2> QED BY <1>6, <2>1, <2>2, NoneOfEmpty DEF d
<1>7. CASE c.is = "device"
  <2> DEFINE w == IF c.output \in devices THEN default[c.output] ELSE "gone"
             m == Colour!Message("device", c.output, w)
  <2>1. a = <<m>> BY <1>7 DEF Answering
  <2>2. w \in Loads \cup {"gone"} /\ (c.output \in devices /\ c.output = o => w = d)
    BY <1>7 DEF ColorTypes, Request, d
  <2>3. c.output \in Connector BY DEF Request
  <2> HIDE DEF w
  <2>4. /\ m \in Reply /\ m \notin ProfileOf(o) /\ m \notin Removal(o)
        /\ c # Create(o) /\ c \notin Asks(o)
        /\ c \in DeviceOf(o) => m \in DeviceOf(o) /\ c.output = o
        /\ c.output = o => c \in DeviceOf(o)
        /\ c \notin DeviceOf(o) => m \notin Bad(o, d) /\ m \notin Stale(o, d) /\ c \notin Good(o, d)
        /\ w = d => m \notin Bad(o, d) /\ m \notin Stale(o, d) /\ (c \in Good(o, d) => m \in Good(o, d))
    BY <1>0, <1>7, <2>2, <2>3 DEF Reply, Request, Removal, ProfileOf, Bad, Stale, DeviceOf, Good, Create, Asks,
       Colour!Message
  <2> HIDE DEF m
  <2>5. a \in Seq(Reply) BY <2>1, <2>4
  <2> QED BY <1>7, <2>1, <2>2, <2>4, <2>5, OneOf DEF d
<1>8. CASE c.is = "profile"
  <2> DEFINE m == Colour!Message("profile", c.output, c.why)
  <2>1. a = <<m>> BY <1>8 DEF Answering
  <2>2. m \in Reply /\ m = c
    BY <1>8 DEF Reply, Request, Colour!Message
  <2>3. /\ m \notin Removal(o) /\ m \notin Stale(o, d) /\ c \notin DeviceOf(o) /\ c # Create(o) /\ c \notin Asks(o)
    BY <1>0, <1>8, <2>2 DEF Removal, Stale, DeviceOf, Create, Asks, Colour!Message
  <2> HIDE DEF m
  <2>4. a \in Seq(Reply) BY <2>1, <2>2
  <2> QED BY <1>8, <2>1, <2>2, <2>3, <2>4, OneOf DEF d
<1> QED BY <1>1, <1>2, <1>3, <1>4, <1>5, <1>6, <1>7, <1>8 DEF Request

LEMMA TypesKept ==
  ASSUME ColorTypes, calls' \in Seq(Request), news' \in Seq(Reply),
         crtcs' \subseteq Connector, primary' \in Connector, changed' \in BOOLEAN,
         screen' \in [outputs : SUBSET Connector, primary : Connector],
         devices' \subseteq Connector, default' \in [Connector -> Loads],
         device_assign_hash' \subseteq Connector, gamma' \in [Connector -> Loads]
  PROVE  ColorTypes'
BY DEF ColorTypes

LEMMA RemovingIs ==
  ASSUME ColorTypes, NEW o \in Connector PROVE Removed(o) <=> Colour!Removing(o)
<1>1. ASSUME NEW T, NEW q \in Seq(T), T \subseteq Request \cup Reply
      PROVE ~NoneOf(q, Removal(o)) <=> \E m \in Colour!ToSet(q) : m.output = o /\ m.why \in {"remove", "delete"}
  <2>1. \A i \in 1 .. Len(q) : q[i] \in Request \cup Reply BY <1>1
  <2>2. ASSUME NEW m \in Request \cup Reply
        PROVE  m \in Removal(o) <=> m.output = o /\ m.why \in {"remove", "delete"}
    <3>1. CASE m \in Request BY <3>1, Stands DEF Request, Removal
    <3>2. CASE m \in Reply BY <3>2, Stands DEF Reply, Removal
    <3> QED BY <3>1, <3>2
  <2>3. DOMAIN q = 1 .. Len(q) BY <1>1
  <2>4. Colour!ToSet(q) = {q[i] : i \in 1 .. Len(q)} BY <2>3 DEF Colour!ToSet
  <2> QED BY <2>1, <2>2, <2>4 DEF NoneOf, Beyond
<1>2. calls \in Seq(Request) /\ news \in Seq(Reply) BY DEF ColorTypes
<1>3. ~NoneOf(calls, Removal(o)) <=> \E m \in Colour!ToSet(calls) : m.output = o /\ m.why \in {"remove", "delete"}
  BY <1>1, <1>2
<1>4. ~NoneOf(news, Removal(o)) <=> \E m \in Colour!ToSet(news) : m.output = o /\ m.why \in {"remove", "delete"}
  BY <1>1, <1>2
<1> QED BY <1>3, <1>4 DEF Removed, Colour!Removing

LEMMA ServeStep == ColorInv /\ Colour!Serve => ColorInv'
<1> SUFFICES ASSUME ColorInv, Colour!Serve PROVE ColorInv' OBVIOUS
<1> DEFINE c == Head(calls)
           a == Answering(c)
<1>0. ColorTypes BY DEF ColorInv
<1>1. /\ calls # <<>> /\ calls' = Tail(calls) /\ news' = news \o a
      /\ devices' = CASE c.is = "create" -> devices \cup {c.output}
                      [] c.is = "delete" -> devices \ {c.output}
                      [] OTHER -> devices
      /\ UNCHANGED <<crtcs, primary, changed, screen, default, device_assign_hash, gamma, icc>>
  BY DEF Colour!Serve, Answering, Colour!x
<1>2. calls \in Seq(Request) /\ news \in Seq(Reply) BY <1>0 DEF ColorTypes
<1>3. c \in Request /\ Tail(calls) \in Seq(Request) BY <1>1, <1>2, Serving
<1> HIDE DEF c
<1>4. c.output \in Connector BY <1>3 DEF Request
<1>5. a \in Seq(Reply) BY <1>0, <1>3, <1>4, AnswerTo
<1> HIDE DEF a
<1>6. ColorTypes'
  <2>1. devices' \subseteq Connector BY <1>0, <1>1, <1>4 DEF ColorTypes
  <2>2. news' \in Seq(Reply) BY <1>1, <1>2, <1>5
  <2> QED BY <1>0, <1>1, <1>3, <2>1, <2>2, TypesKept DEF ColorTypes
<1>7. /\ \A B : NoneOf(calls, B) <=> c \notin B /\ NoneOf(calls', B)
      /\ \A G, B : LastIs(calls, G, B) => LastIs(calls', G, B) \/ (c \in G /\ NoneOf(calls', B))
      /\ \A m : Once(calls, m) => Once(calls', m) /\ (c = m => NoneOf(calls', {m}))
  BY <1>1, <1>2, Serving DEF c
<1>8. /\ \A B : NoneOf(news', B) <=> NoneOf(news, B) /\ NoneOf(a, B)
      /\ \A G, B : LastIs(news, G, B) /\ NoneOf(a, B) => LastIs(news', G, B)
      /\ \A G, B : LastIs(a, G, B) => LastIs(news', G, B)
  BY <1>1, <1>2, <1>5, Joining
<1>9. ASSUME NEW o \in Connector
      PROVE  Accounted(o)' /\ (o \in screen.outputs => \A v : Shows(news, calls, o, default[o], v) => Shows(news', calls', o, default[o], v))
  <2> DEFINE d == default[o]
  <2>0. Accounted(o) /\ d = default'[o] BY <1>1 DEF ColorInv
  <2>1. /\ c \notin Removal(o) => NoneOf(a, Removal(o))
        /\ c.is = "find" /\ c \in Removal(o) /\ o \in devices => ~NoneOf(a, Removal(o))
        /\ c \notin ProfileOf(o) => NoneOf(a, ProfileOf(o))
        /\ c \in DeviceOf(o) => LastIs(a, DeviceOf(o), ProfileOf(o))
        /\ c = Create(o) /\ o \notin devices =>
             LastIs(a, Tells(o), Stale(o, d)) /\ ~NoneOf(a, Replies(o))
        /\ c \in Asks(o) /\ c # Create(o) /\ o \in devices => ~NoneOf(a, Replies(o))
        /\ o \in devices \/ c \notin DeviceOf(o) =>
             /\ NoneOf(a, Stale(o, d))
             /\ c \notin Bad(o, d) => NoneOf(a, Bad(o, d))
             /\ c \in Good(o, d) => LastIs(a, Good(o, d), Bad(o, d))
    BY <1>0, <1>3, AnswerTo DEF a
  <2>2. /\ c = Create(o) => o \in devices'
        /\ c \in Removal(o) => (c.is = "find" /\ devices' = devices) \/ (c.is = "delete" /\ o \notin devices')
        /\ c # Create(o) /\ c \notin Removal(o) => (o \in devices' <=> o \in devices)
        /\ c = FindRemoved(o) => c.is = "find"
        /\ c \in DeviceOf(o) => c # Create(o)
    BY <1>1, <1>3 DEF Create, Removal, FindRemoved, DeviceOf, Request, Colour!Message
  <2> HIDE DEF d
  <2>3. Gone(o)' BY <1>1, <1>7, <1>8, <2>0, <2>1 DEF Accounted, Gone, Removed
  <2>4. Created(o)' <=> ~NoneOf(calls', {Create(o)}) BY DEF Created, Create
  <2>5. Created(o) /\ c # Create(o) => Created(o)' BY <1>7, <2>4 DEF Created
  <2>6. Known(o)'
    <3>1. /\ o \in screen.outputs /\ o \notin devices => Created(o)
          /\ o \in devices => ~Created(o) /\ (o \in screen.outputs \/ Removed(o))
          /\ Once(calls, Create(o))
          /\ o \in screen.outputs \/ LastIs(calls, {FindRemoved(o)}, {Create(o)}) \/ ~Created(o)
          /\ Removed(o) => o \notin screen.outputs
      BY <2>0 DEF Accounted, Known, Gone
    <3>2. Created(o)' => Created(o) BY <1>7, <2>4 DEF Created
    <3>3. Once(calls, Create(o))' BY <1>7, <3>1 DEF Create
    <3>4. LastIs(calls', {FindRemoved(o)}, {Create(o)}) => Removed(o)'
      <4> SUFFICES ASSUME LastIs(calls', {FindRemoved(o)}, {Create(o)}) PROVE Removed(o)' OBVIOUS
      <4>1. ~NoneOf(calls', {FindRemoved(o)}) BY HasLast
      <4>2. {FindRemoved(o)} \subseteq Removal(o) BY ColorFacts
      <4>3. ~NoneOf(calls', Removal(o)) BY <4>1, <4>2, Includes
      <4> QED BY <4>3 DEF Removed, Removal
    <3>5. CASE c = Create(o)
      <4>1. ~Created(o)' BY <1>7, <2>4, <3>1, <3>5
      <4>2. o \in devices' /\ Created(o) BY <1>7, <2>2, <3>5 DEF Created
      <4>3. o \in screen.outputs \/ Removed(o)'
        <5>1. c # FindRemoved(o) BY <3>5, ColorFacts
        <5> QED BY <1>7, <3>1, <3>4, <4>2, <5>1
      <4> QED BY <1>1, <3>3, <4>1, <4>2, <4>3 DEF Known, Create, FindRemoved
    <3>6. CASE c # Create(o)
      <4>1. Created(o)' <=> Created(o) BY <2>5, <3>2, <3>6
      <4>2. o \in screen.outputs => (o \in devices' <=> o \in devices)
        <5>1. c \in Removal(o) => Removed(o) BY <1>7 DEF Removed
        <5> QED BY <2>2, <3>1, <3>6, <5>1
      <4>3. o \in devices' => o \in devices BY <2>2, <3>6
      <4>4. o \in devices' => o \in screen.outputs \/ Removed(o)'
        <5> SUFFICES ASSUME o \in devices', o \notin screen.outputs PROVE Removed(o)' OBVIOUS
        <5>1. Removed(o) /\ o \in devices BY <3>1, <4>3
        <5>2. CASE c \in Removal(o)
          <6>1. ~NoneOf(a, Removal(o)) BY <2>1, <2>2, <5>1, <5>2
          <6> QED BY <1>8, <6>1 DEF Removed, Removal
        <5>3. CASE c \notin Removal(o) BY <1>7, <1>8, <5>1, <5>3 DEF Removed, Removal
        <5> QED BY <5>2, <5>3
      <4>5. o \in screen.outputs \/ LastIs(calls', {FindRemoved(o)}, {Create(o)}) \/ ~Created(o)'
        <5>1. c # Create(o) /\ (LastIs(calls, {FindRemoved(o)}, {Create(o)}) =>
                LastIs(calls', {FindRemoved(o)}, {Create(o)}) \/ NoneOf(calls', {Create(o)}))
          BY <1>7, <3>6
        <5> QED BY <2>4, <3>1, <4>1, <5>1
      <4> QED BY <1>1, <3>1, <3>3, <4>1, <4>2, <4>3, <4>4, <4>5 DEF Known, Create, FindRemoved
    <3> QED BY <3>5, <3>6
  <2>10. o \in screen.outputs /\ o \notin devices => Created(o) BY <2>0 DEF Accounted, Known
  <2>11. Created(o) => o \notin devices BY <2>0 DEF Accounted, Known
  <2>7. Noticed(o)'
    <3> SUFFICES ASSUME o \in screen.outputs
                 PROVE  LastIs(news', Tells(o), Stale(o, d)) \/ NoneOf(news', Stale(o, d)) \/ Created(o)'
      BY <1>1, <2>0 DEF Noticed, Tells, Stale
    <3>1. LastIs(news, Tells(o), Stale(o, d)) \/ NoneOf(news, Stale(o, d)) \/ Created(o)
      BY <2>0 DEF Accounted, Noticed, d
    <3>2. CASE c = Create(o)
      <4>1. Created(o) BY <1>7, <3>2 DEF Created
      <4> QED BY <1>8, <2>1, <2>11, <3>2, <4>1
    <3>3. CASE c # Create(o) /\ Created(o) BY <2>5, <3>3
    <3>4. CASE ~Created(o)
      <4>1. NoneOf(a, Stale(o, d)) BY <2>1, <2>10, <3>4
      <4> QED BY <1>8, <3>1, <3>4, <4>1
    <3> QED BY <3>2, <3>3, <3>4
  <2>8. InProgress(o)'
    BY <1>1, <1>7, <1>8, <2>0, <2>1 DEF Accounted, InProgress, Queued
  <2>9. ASSUME o \in screen.outputs, NEW v, Shows(news, calls, o, default[o], v)
        PROVE  Shows(news', calls', o, default[o], v)
    <3>0. Shows(news', calls', o, default[o], v) <=>
             \/ ~NoneOf(news', Replies(o)) \/ ~NoneOf(calls', Asks(o))
             \/ LastIs(calls', Good(o, d), Bad(o, d))
             \/ LastIs(news', Good(o, d), Bad(o, d)) /\ NoneOf(calls', Bad(o, d))
             \/ NoneOf(news', Bad(o, d)) /\ NoneOf(calls', Bad(o, d)) /\ v = d
      BY DEF Shows, Queued, d
    <3>1. CASE c = Create(o)
      <4>1. Created(o) BY <1>7, <3>1 DEF Created
      <4> QED BY <1>8, <2>1, <2>11, <3>0, <3>1, <4>1
    <3>2. CASE Created(o)' BY <3>0, <3>2, Includes, ColorFacts DEF Created, Create, Asks
    <3>3. CASE c # Create(o) /\ ~Created(o)'
      <4>1. o \in devices BY <2>5, <2>9, <2>10, <3>3
      <4>2. CASE ~NoneOf(news, Replies(o)) BY <1>8, <3>0, <4>2
      <4>3. CASE ~NoneOf(calls, Asks(o)) BY <1>7, <1>8, <2>1, <3>0, <3>3, <4>1, <4>3
      <4>4. CASE LastIs(calls, Good(o, d), Bad(o, d)) BY <1>7, <1>8, <2>1, <3>0, <4>1, <4>4
      <4>5. CASE LastIs(news, Good(o, d), Bad(o, d)) /\ NoneOf(calls, Bad(o, d))
        BY <1>7, <1>8, <2>1, <3>0, <4>1, <4>5
      <4>6. CASE NoneOf(news, Bad(o, d)) /\ NoneOf(calls, Bad(o, d)) /\ v = d
        BY <1>7, <1>8, <2>1, <3>0, <4>1, <4>6
      <4> QED BY <2>9, <4>2, <4>3, <4>4, <4>5, <4>6 DEF Shows, Queued, d
    <3> QED BY <3>1, <3>2, <3>3
  <2> QED BY <2>3, <2>6, <2>7, <2>8, <2>9 DEF Accounted
<1>10. Loaded'
  <2> SUFFICES ASSUME ~changed' PROVE Loaded' BY DEF Loaded
  <2>1. /\ screen = [outputs |-> crtcs, primary |-> primary]
        /\ \A o \in crtcs : Shows(news, calls, o, default[o], gamma[o])
        /\ primary \in crtcs => Shows(news, calls, primary, default[primary], icc)
    BY <1>1 DEF ColorInv, Loaded
  <2>2. \A o \in crtcs : o \in Connector /\ o \in screen.outputs BY <1>0, <2>1 DEF ColorTypes
  <2> QED BY <1>1, <1>9, <2>1, <2>2 DEF Loaded
<1> QED BY <1>6, <1>9, <1>10 DEF ColorInv

\* What any handler that asks for r leaves as it was.
LEMMA Handling ==
  ASSUME ColorInv, news # <<>>, NEW h, h = Head(news), news' = Tail(news),
         NEW r \in Seq(Request), calls' = calls \o r,
         UNCHANGED <<crtcs, primary, changed, screen, devices, default>>,
         NEW o \in Connector, NoneOf(r, {Create(o)}), h \in Removal(o) <=> ~NoneOf(r, Removal(o))
  PROVE  /\ calls' \in Seq(Request) /\ news' \in Seq(Reply) /\ h \in Reply
         /\ Gone(o)' /\ Known(o)' /\ Noticed(o)'
         /\ h \notin DeviceOf(o) /\ NoneOf(r, ProfileOf(o)) /\ Queued(news, calls, DeviceOf(o), ProfileOf(o)) =>
              Queued(news', calls', DeviceOf(o), ProfileOf(o))
         /\ LastIs(r, DeviceOf(o), ProfileOf(o)) => Queued(news', calls', DeviceOf(o), ProfileOf(o))
<1>1. ColorTypes /\ Accounted(o) BY DEF ColorInv
<1>2. calls \in Seq(Request) /\ news \in Seq(Reply) BY <1>1 DEF ColorTypes
<1>3. calls' \in Seq(Request) BY <1>2
<1>4. /\ h \in Reply /\ news' \in Seq(Reply)
      /\ \A B : NoneOf(news, B) <=> h \notin B /\ NoneOf(news', B)
      /\ \A G, B : LastIs(news, G, B) => LastIs(news', G, B) \/ (h \in G /\ NoneOf(news', B))
  BY <1>2, Serving
<1>5. /\ \A B : NoneOf(calls', B) <=> NoneOf(calls, B) /\ NoneOf(r, B)
      /\ \A G, B : LastIs(calls, G, B) /\ NoneOf(r, B) => LastIs(calls', G, B)
      /\ \A G, B : LastIs(r, G, B) => LastIs(calls', G, B)
      /\ \A m : Once(calls, m) /\ Once(r, m) /\ (NoneOf(calls, {m}) \/ NoneOf(r, {m})) => Once(calls', m)
  BY <1>2, Joining
<1>6. Removed(o)' <=> Removed(o) BY <1>4, <1>5 DEF Removed, Removal
<1>7. Created(o)' <=> Created(o) BY <1>5 DEF Created, Create
<1>8. Gone(o)' BY <1>1, <1>6 DEF Accounted, Gone
<1>9. Once(r, Create(o)) BY DEF NoneOf, Beyond, Once
<1>10. Known(o)' BY <1>1, <1>5, <1>6, <1>7, <1>9 DEF Accounted, Known, Create, FindRemoved
<1>11. Noticed(o)'
  <2>1. LastIs(news, Tells(o), Stale(o, default[o])) =>
          LastIs(news', Tells(o), Stale(o, default[o])) \/ NoneOf(news', Stale(o, default[o]))
    BY <1>4
  <2>2. NoneOf(news, Stale(o, default[o])) => NoneOf(news', Stale(o, default[o])) BY <1>4
  <2> QED BY <1>1, <1>7, <2>1, <2>2 DEF Accounted, Noticed, Tells, Stale
<1> QED BY <1>3, <1>4, <1>5, <1>8, <1>10, <1>11 DEF Queued

\* What a handler makes of what an output shows, whether its answer was the
\* right one, one that is out of date, or about something else.
LEMMA HandlingShows ==
  ASSUME ColorInv, news # <<>>, NEW h, h = Head(news), news' = Tail(news),
         NEW r \in Seq(Request), calls' = calls \o r,
         NEW o \in Connector, NEW d, d = default[o]
  PROVE  /\ \A v : /\ h \notin Replies(o) /\ h \notin Good(o, d) /\ NoneOf(r, Bad(o, d)) =>
                        (Shows(news, calls, o, d, v) => Shows(news', calls', o, d, v))
                   /\ LastIs(r, Good(o, d), Bad(o, d)) => Shows(news', calls', o, d, v)
                   /\ h \in Good(o, d) /\ h \notin Replies(o) /\ NoneOf(r, Bad(o, d)) =>
                        (Shows(news, calls, o, d, v) => Shows(news', calls', o, d, d))
                   /\ h \in Stale(o, d) /\ o \in screen.outputs => Shows(news', calls', o, d, v)
<1>1. ColorTypes /\ Accounted(o) BY DEF ColorInv
<1>2. calls \in Seq(Request) /\ news \in Seq(Reply) BY <1>1 DEF ColorTypes
<1>4. /\ \A B : NoneOf(news, B) <=> h \notin B /\ NoneOf(news', B)
      /\ \A G, B : LastIs(news, G, B) => LastIs(news', G, B) \/ (h \in G /\ NoneOf(news', B))
  BY <1>2, Serving
<1>5. /\ \A B : NoneOf(calls', B) <=> NoneOf(calls, B) /\ NoneOf(r, B)
      /\ \A G, B : LastIs(calls, G, B) /\ NoneOf(r, B) => LastIs(calls', G, B)
      /\ \A G, B : LastIs(r, G, B) => LastIs(calls', G, B)
  BY <1>2, Joining
<1>6. ASSUME NEW v, NEW w, Shows(news, calls, o, d, v), NoneOf(r, Bad(o, d)), h \notin Replies(o),
             w = d \/ (w = v /\ h \notin Good(o, d))
      PROVE  Shows(news', calls', o, d, w)
  <2>1. CASE ~NoneOf(news, Replies(o)) BY <1>4, <1>6, <2>1 DEF Shows
  <2>2. CASE ~NoneOf(calls, Asks(o)) BY <1>5, <2>2 DEF Shows
  <2>3. CASE LastIs(calls, Good(o, d), Bad(o, d)) BY <1>5, <1>6, <2>3 DEF Shows, Queued
  <2>4. CASE LastIs(news, Good(o, d), Bad(o, d)) /\ NoneOf(calls, Bad(o, d))
    BY <1>4, <1>5, <1>6, <2>4 DEF Shows, Queued
  <2>5. CASE NoneOf(news, Bad(o, d)) /\ NoneOf(calls, Bad(o, d)) /\ v = d BY <1>4, <1>5, <1>6, <2>5 DEF Shows
  <2> QED BY <1>6, <2>1, <2>2, <2>3, <2>4, <2>5 DEF Shows, Queued
<1>7. ASSUME NEW v, LastIs(r, Good(o, d), Bad(o, d)) PROVE Shows(news', calls', o, d, v)
  BY <1>5, <1>7 DEF Shows, Queued
<1>8. ASSUME NEW v, h \in Stale(o, d), o \in screen.outputs PROVE Shows(news', calls', o, d, v)
  <2>1. LastIs(news, Tells(o), Stale(o, d)) \/ NoneOf(news, Stale(o, d)) \/ Created(o)
    BY <1>1, <1>8 DEF Accounted, Noticed
  <2>2. Tells(o) \cap Stale(o, d) = {} /\ Tells(o) \subseteq Replies(o) /\ {Create(o)} \subseteq Asks(o) BY ColorFacts
  <2>3. CASE LastIs(news, Tells(o), Stale(o, d))
    <3>1. LastIs(news', Tells(o), Stale(o, d)) BY <1>4, <1>8, <2>2, <2>3
    <3>2. ~NoneOf(news', Replies(o)) BY <2>2, <3>1, HasLast, Includes
    <3> QED BY <3>2 DEF Shows
  <2>4. CASE NoneOf(news, Stale(o, d)) BY <1>4, <1>8, <2>4
  <2>5. CASE Created(o)
    <3>1. ~NoneOf(calls', {Create(o)}) BY <1>5, <2>5 DEF Created
    <3>2. ~NoneOf(calls', Asks(o)) BY <2>2, <3>1, Includes
    <3> QED BY <3>2 DEF Shows
  <2> QED BY <2>1, <2>3, <2>4, <2>5
<1> QED BY <1>6, <1>7, <1>8

LEMMA RequestOf ==
  ASSUME NEW m \in Request
  PROVE  /\ <<m>> \in Seq(Request)
         /\ \A B : NoneOf(<<m>>, B) <=> m \notin B
         /\ \A G, B : m \in G => LastIs(<<m>>, G, B)
         /\ \A q \in Seq(Request) : Append(q, m) = q \o <<m>>
<1>1. \A q \in Seq(Request) : Append(q, m) = q \o <<m>> OBVIOUS
<1> QED BY <1>1, OneOf

LEMMA NoRequest ==
  /\ <<>> \in Seq(Request) /\ \A B : NoneOf(<<>>, B)
  /\ \A q \in Seq(Request) : q \o <<>> = q
<1>1. <<>> \in Seq(Request) /\ \A q \in Seq(Request) : q \o <<>> = q OBVIOUS
<1> QED BY <1>1, NoneOfEmpty

LEMMA OutputsStep ==
  ASSUME ColorInv, ~Flaps, NEW p \in Connector, Colour!PlugOrUnplug(p) \/ Colour!SetPrimary(p) PROVE ColorInv'
<1>0. ColorTypes BY DEF ColorInv
<1>1. changed' = TRUE /\ UNCHANGED <<screen, devices, default, calls, news, device_assign_hash>>
  BY DEF Colour!PlugOrUnplug, Colour!SetPrimary, Colour!colord
<1>2. crtcs' = crtcs \/ (~Removed(p) /\ crtcs' = IF p \in crtcs THEN crtcs \ {p} ELSE crtcs \cup {p})
  BY <1>0, RemovingIs DEF Colour!PlugOrUnplug, Colour!SetPrimary
<1>3. primary' \in Connector BY <1>0 DEF Colour!PlugOrUnplug, Colour!SetPrimary, ColorTypes
<1>4. gamma' \in [Connector -> Loads]
  <2>1. CASE Colour!PlugOrUnplug(p) BY <1>0, <2>1, Stands DEF Colour!PlugOrUnplug, ColorTypes
  <2>2. CASE Colour!SetPrimary(p)
    <3>1. PICK r : gamma' = [o \in Connector |-> IF o \in r THEN NoProfile ELSE gamma[o]]
      BY <2>2 DEF Colour!SetPrimary
    <3>2. \A o \in Connector : gamma[o] \in Loads BY <1>0 DEF ColorTypes
    <3> QED BY <3>1, <3>2, Stands
  <2> QED BY <2>1, <2>2
<1>5. ColorTypes' BY <1>0, <1>1, <1>2, <1>3, <1>4, TypesKept DEF ColorTypes
<1>6. ASSUME NEW o \in Connector PROVE Accounted(o)'
  <2>1. Accounted(o) BY DEF ColorInv
  <2>2. /\ Removed(o)' <=> Removed(o)
        /\ Known(o)' <=> Known(o)
        /\ Noticed(o)' <=> Noticed(o)
        /\ InProgress(o)' <=> InProgress(o)
    BY <1>1 DEF Removed, Known, Noticed, InProgress, Created, Queued, Removal, Create, FindRemoved, Tells, Stale,
       DeviceOf, ProfileOf
  <2>3. Gone(o)' BY <1>1, <1>2, <2>1, <2>2 DEF Accounted, Gone
  <2> QED BY <2>1, <2>2, <2>3 DEF Accounted
<1> QED BY <1>1, <1>5, <1>6 DEF ColorInv, Loaded

LEMMA DefaultStep ==
  ASSUME ColorInv, NEW p \in Connector, NEW w \in Loads, Colour!SetDefault(p, w) PROVE ColorInv'
<1> DEFINE m == Colour!Message("changed", p, "none")
<1>0. ColorTypes /\ news \in Seq(Reply) /\ calls \in Seq(Request) BY DEF ColorInv, ColorTypes
<1>1. /\ p \in devices /\ default' = [default EXCEPT ![p] = w] /\ news' = news \o <<m>>
      /\ UNCHANGED <<crtcs, primary, changed, screen, devices, calls, device_assign_hash, gamma, icc>>
  <2>1. m \in Reply BY DEF Reply, Colour!Message
  <2>2. news' = Append(news, m) BY DEF Colour!SetDefault
  <2> HIDE DEF m
  <2>3. news' = news \o <<m>> BY <1>0, <2>1, <2>2
  <2> QED BY <2>3 DEF Colour!SetDefault, Colour!x
<1>2. /\ m \in Reply /\ \A o : /\ m \notin Removal(o) /\ m \notin ProfileOf(o) /\ m \notin DeviceOf(o)
                               /\ \A d : m \notin Stale(o, d) /\ m \notin Bad(o, d)
      /\ m \in Tells(p) /\ m \in Replies(p)
  BY DEF Reply, Removal, ProfileOf, DeviceOf, Stale, Bad, Tells, Replies, Colour!Message
<1> HIDE DEF m
<1>3. /\ \A B : NoneOf(news', B) <=> NoneOf(news, B) /\ m \notin B
      /\ \A G, B : LastIs(news, G, B) /\ m \notin B => LastIs(news', G, B)
      /\ \A G, B : m \in G => LastIs(news', G, B)
  <2>1. <<m>> \in Seq(Reply) BY <1>2
  <2> QED BY <1>0, <1>1, <2>1, Joining, OneOf
<1>4. ColorTypes'
  <2>1. default' \in [Connector -> Loads] BY <1>0, <1>1 DEF ColorTypes
  <2>2. news' \in Seq(Reply) BY <1>0, <1>1, <1>2
  <2> QED BY <1>0, <1>1, <2>1, <2>2, TypesKept DEF ColorTypes
<1>5. ASSUME NEW o \in Connector
      PROVE  Accounted(o)' /\ \A v : Shows(news, calls, o, default[o], v) => Shows(news', calls', o, default'[o], v)
  <2>1. Accounted(o) BY DEF ColorInv
  <2>2. Removed(o)' <=> Removed(o) BY <1>1, <1>2, <1>3 DEF Removed, Removal
  <2>3. Gone(o)' BY <1>1, <2>1, <2>2 DEF Accounted, Gone
  <2>4. Known(o)' BY <1>1, <2>1, <2>2 DEF Accounted, Known, Created, Create, FindRemoved
  <2>5. InProgress(o)' BY <1>1, <1>2, <1>3, <2>1 DEF Accounted, InProgress, Queued, DeviceOf, ProfileOf
  <2>6. o # p => default'[o] = default[o] BY <1>0, <1>1 DEF ColorTypes
  <2>7. Noticed(o)'
    <3> SUFFICES ASSUME o \in screen.outputs
                 PROVE  LastIs(news', Tells(o), Stale(o, default'[o])) \/ NoneOf(news', Stale(o, default'[o])) \/ Created(o)'
      BY <1>1 DEF Noticed, Tells, Stale
    <3>1. CASE o = p BY <1>2, <1>3, <3>1
    <3>2. CASE o # p BY <1>1, <1>2, <1>3, <2>1, <2>6, <3>2 DEF Accounted, Noticed, Created, Create
    <3> QED BY <3>1, <3>2
  <2>8. ASSUME NEW v, Shows(news, calls, o, default[o], v) PROVE Shows(news', calls', o, default'[o], v)
    <3>1. CASE o = p BY <1>2, <1>3, <3>1 DEF Shows
    <3>2. CASE o # p BY <1>1, <1>2, <1>3, <2>6, <2>8, <3>2 DEF Shows, Queued
    <3> QED BY <3>1, <3>2
  <2> QED BY <2>1, <2>3, <2>4, <2>5, <2>7, <2>8 DEF Accounted
<1>6. Loaded' BY <1>0, <1>1, <1>5 DEF ColorInv, ColorTypes, Loaded
<1> QED BY <1>4, <1>5, <1>6 DEF ColorInv

\* What a request that neither creates nor removes leaves as it was.
LEMMA Asking ==
  ASSUME ColorInv, NEW r \in Seq(Request), calls' = calls \o r, NEW o \in Connector,
         UNCHANGED <<crtcs, screen, devices, default, news, device_assign_hash>>,
         NoneOf(r, {Create(o)}), NoneOf(r, Removal(o)), NoneOf(r, ProfileOf(o))
  PROVE  Accounted(o)'
<1>1. ColorTypes /\ Accounted(o) BY DEF ColorInv
<1>2. calls \in Seq(Request) BY <1>1 DEF ColorTypes
<1>3. /\ \A B : NoneOf(calls', B) <=> NoneOf(calls, B) /\ NoneOf(r, B)
      /\ \A G, B : LastIs(calls, G, B) /\ NoneOf(r, B) => LastIs(calls', G, B)
      /\ \A m : Once(calls, m) /\ Once(r, m) /\ (NoneOf(calls, {m}) \/ NoneOf(r, {m})) => Once(calls', m)
  BY <1>2, Joining
<1>4. (Removed(o)' <=> Removed(o)) /\ (Created(o)' <=> Created(o)) BY <1>3 DEF Removed, Removal, Created, Create
<1>5. Once(r, Create(o)) BY DEF NoneOf, Beyond, Once
<1>6. Known(o)' BY <1>1, <1>3, <1>4, <1>5 DEF Accounted, Known, Create, FindRemoved
<1>7. Gone(o)' /\ Noticed(o)' BY <1>1, <1>4 DEF Accounted, Gone, Noticed, Tells, Stale
<1>8. InProgress(o)' BY <1>1, <1>3 DEF Accounted, InProgress, Queued, DeviceOf, ProfileOf
<1> QED BY <1>6, <1>7, <1>8 DEF Accounted

LEMMA ActiveStep == ColorInv /\ Colour!SessionActive => ColorInv'
<1> SUFFICES ASSUME ColorInv, Colour!SessionActive PROVE ColorInv' OBVIOUS
<1> DEFINE m == Colour!Message("list", primary, "none")
<1>0. ColorTypes /\ calls \in Seq(Request) /\ primary \in Connector BY DEF ColorInv, ColorTypes
<1>1. /\ m \in Request
      /\ \A o : m # Create(o) /\ m \notin Removal(o) /\ m \notin ProfileOf(o) /\ m \in Asks(o)
  BY <1>0 DEF Request, Create, Removal, ProfileOf, Asks, Colour!Message
<1>2. /\ calls' = Append(calls, m) /\ UNCHANGED <<crtcs, primary, changed, screen, devices, default, news, device_assign_hash, icc>>
      /\ \E g \in [crtcs -> Loads] : gamma' = [o \in Connector |-> IF o \in crtcs THEN g[o] ELSE gamma[o]]
  BY DEF Colour!SessionActive, Colour!x, Colour!colord, Loads
<1> HIDE DEF m
<1>3. calls' = calls \o <<m>> /\ <<m>> \in Seq(Request) /\ \A B : NoneOf(<<m>>, B) <=> m \notin B
  BY <1>0, <1>1, <1>2, RequestOf
<1>4. gamma' \in [Connector -> Loads] BY <1>0, <1>2 DEF ColorTypes
<1>5. calls' \in Seq(Request) BY <1>0, <1>3
<1>6. ColorTypes' BY <1>0, <1>2, <1>4, <1>5, TypesKept DEF ColorTypes
<1>7. \A o \in Connector : Accounted(o)' BY <1>1, <1>2, <1>3, Asking
<1>8. \A o, v : Shows(news', calls', o, default'[o], v)
  <2>1. \A o : ~NoneOf(calls', Asks(o)) BY <1>0, <1>1, <1>3, Joining
  <2> QED BY <2>1 DEF Shows
<1>9. Loaded' BY <1>2, <1>8 DEF ColorInv, Loaded
<1> QED BY <1>6, <1>7, <1>9 DEF ColorInv

\* A device that is asked for tells its default, if no answer is out of date.
LEMMA OnlyGood ==
  ASSUME NEW n \in Seq(Reply), NEW c \in Seq(Request), NEW o \in Connector, NEW d \in Loads,
         Queued(n, c, DeviceOf(o), ProfileOf(o)), NoneOf(n, Stale(o, d))
  PROVE  Queued(n, c, Good(o, d), Bad(o, d))
<1>1. \A m \in Request : /\ m \in DeviceOf(o) => m \in Good(o, d)
                         /\ m \notin ProfileOf(o) => m \notin Bad(o, d)
  BY Stands DEF Request, DeviceOf, ProfileOf, Good, Bad, Stale
<1>2. \A m \in Reply : /\ m \in DeviceOf(o) => m \in Good(o, d) \/ m \in Stale(o, d)
                       /\ m \notin ProfileOf(o) /\ m \notin Stale(o, d) => m \notin Bad(o, d)
  BY Stands DEF Reply, DeviceOf, ProfileOf, Good, Bad, Stale
<1>3. /\ \A i \in 1 .. Len(c) : c[i] \in Request
      /\ \A i \in 1 .. Len(n) : n[i] \in Reply /\ n[i] \notin Stale(o, d)
      /\ Len(c) \in Nat /\ Len(n) \in Nat
  BY DEF NoneOf, Beyond
<1>4. ASSUME LastIs(c, DeviceOf(o), ProfileOf(o)) PROVE LastIs(c, Good(o, d), Bad(o, d))
  BY <1>1, <1>3, <1>4 DEF LastIs, Beyond
<1>5. ASSUME LastIs(n, DeviceOf(o), ProfileOf(o)), NoneOf(c, ProfileOf(o))
      PROVE  LastIs(n, Good(o, d), Bad(o, d)) /\ NoneOf(c, Bad(o, d))
  BY <1>1, <1>2, <1>3, <1>5 DEF LastIs, NoneOf, Beyond
<1> QED BY <1>4, <1>5 DEF Queued

LEMMA Widened == ASSUME NEW S, NEW T, S \subseteq T, NEW q \in Seq(S) PROVE q \in Seq(T)
OBVIOUS

LEMMA NewsStep == ColorInv /\ Colour!DeviceNews => ColorInv'
<1> SUFFICES ASSUME ColorInv, Colour!DeviceNews PROVE ColorInv' OBVIOUS
<1> DEFINE h == Head(news)
           s == IF h.is = "devices" THEN h.output ELSE {h.output}
           t == s \ device_assign_hash
           r == Colour!Of(t, "device", "none")
<1>0. ColorTypes /\ calls \in Seq(Request) /\ news \in Seq(Reply) BY DEF ColorInv, ColorTypes
<1>1. /\ news # <<>> /\ news' = Tail(news) /\ h.is \in {"added", "changed", "devices"}
      /\ device_assign_hash' = device_assign_hash \cup s /\ calls' = calls \o r
      /\ UNCHANGED <<crtcs, primary, changed, screen, devices, default, gamma, icc>>
  BY DEF Colour!DeviceNews, Colour!Handled, Colour!Assign, Colour!x, Colour!colord
<1>2. h \in Reply BY <1>0, <1>1, Serving
<1> HIDE DEF h
<1>3. s \subseteq Connector BY <1>1, <1>2 DEF Reply
<1>4. /\ \A o \in Connector : h \in Replies(o) => o \in s
      /\ \A o : h \notin Removal(o) /\ h \notin DeviceOf(o) /\ \A d : h \notin Good(o, d)
  BY <1>1, <1>2 DEF Reply, Replies, Tells, Removal, DeviceOf, Good
<1> HIDE DEF s
<1>5. t \subseteq Connector /\ IsFiniteSet(t) BY <1>3, ConnectorAssumption, FS_Subset
<1> HIDE DEF t
<1>6. /\ r \in Seq([is : {"device"}, output : t, why : {"none"}])
      /\ \A B : NoneOf(r, B) <=> \A o \in t : Colour!Message("device", o, "none") \notin B
  BY <1>5, AboutEach
<1> HIDE DEF r
<1>7. r \in Seq(Request)
  <2>1. [is : {"device"}, output : t, why : {"none"}] \subseteq Request BY <1>5 DEF Request
  <2> QED BY <1>6, <2>1, Widened
<1>8. ASSUME NEW o \in Connector
      PROVE  /\ NoneOf(r, {Create(o)}) /\ NoneOf(r, Removal(o)) /\ NoneOf(r, ProfileOf(o))
             /\ NoneOf(r, Bad(o, default[o]))
             /\ o \in t => /\ LastIs(r, DeviceOf(o), ProfileOf(o))
                           /\ LastIs(r, Good(o, default[o]), Bad(o, default[o]))
  <2>1. default[o] \in Loads /\ "none" \notin Loads BY <1>0, Stands DEF ColorTypes
  <2>2. \A p : LET m == Colour!Message("device", p, "none")
               IN  m # Create(o) /\ m \notin Removal(o) /\ m \notin ProfileOf(o) /\ m \notin Bad(o, default[o])
    BY <2>1 DEF Create, Removal, ProfileOf, Bad, Stale, Colour!Message
  <2>3. Colour!Message("device", o, "none") \in DeviceOf(o) /\ Colour!Message("device", o, "none") \in Good(o, default[o])
    BY DEF DeviceOf, Good, Colour!Message
  <2>4. NoneOf(r, {Create(o)}) /\ NoneOf(r, Removal(o)) /\ NoneOf(r, ProfileOf(o)) /\ NoneOf(r, Bad(o, default[o]))
    BY <1>6, <2>2
  <2>5. o \in t => ~NoneOf(r, DeviceOf(o)) /\ ~NoneOf(r, Good(o, default[o])) BY <1>6, <2>3
  <2> QED BY <2>4, <2>5, Present
<1>9. ASSUME NEW o \in Connector
      PROVE  /\ calls' \in Seq(Request) /\ news' \in Seq(Reply)
             /\ Gone(o)' /\ Known(o)' /\ Noticed(o)'
             /\ Queued(news, calls, DeviceOf(o), ProfileOf(o)) \/ LastIs(r, DeviceOf(o), ProfileOf(o)) =>
                  Queued(news', calls', DeviceOf(o), ProfileOf(o))
  <2>1. NoneOf(r, {Create(o)}) /\ (h \in Removal(o) <=> ~NoneOf(r, Removal(o))) BY <1>4, <1>8
  <2>2. UNCHANGED <<crtcs, primary, changed, screen, devices, default>> BY <1>1
  <2>3. h = Head(news) /\ news # <<>> /\ news' = Tail(news) /\ calls' = calls \o r BY <1>1 DEF h
  <2> QED BY <1>4, <1>7, <1>8, <2>1, <2>2, <2>3, Handling
<1>10. ASSUME NEW o \in Connector PROVE InProgress(o)'
  <2>1. o \in device_assign_hash => Queued(news, calls, DeviceOf(o), ProfileOf(o)) BY DEF ColorInv, Accounted, InProgress
  <2>2. o \in device_assign_hash' => o \in device_assign_hash \/ o \in t BY <1>1 DEF t
  <2> QED BY <1>8, <1>9, <2>1, <2>2 DEF InProgress, Queued, DeviceOf, ProfileOf
<1>11. ASSUME NEW o \in Connector, o \in screen.outputs, NEW v, Shows(news, calls, o, default[o], v)
       PROVE  Shows(news', calls', o, default[o], v)
  <2> DEFINE d == default[o]
  <2>1. h = Head(news) /\ news # <<>> /\ news' = Tail(news) /\ calls' = calls \o r BY <1>1 DEF h
  <2>2. /\ h \notin Replies(o) /\ h \notin Good(o, d) /\ NoneOf(r, Bad(o, d)) =>
             Shows(news', calls', o, d, v)
        /\ LastIs(r, Good(o, d), Bad(o, d)) => Shows(news', calls', o, d, v)
    BY <1>7, <1>11, <2>1, HandlingShows
  <2>3. CASE o \in t BY <1>8, <2>2, <2>3
  <2>4. CASE o \notin s BY <1>4, <1>8, <2>2, <2>4
  <2>5. CASE o \in device_assign_hash
    <3>1. Queued(news', calls', DeviceOf(o), ProfileOf(o)) BY <1>10, <2>5, <1>1 DEF InProgress, Queued, DeviceOf, ProfileOf
    <3>2. Noticed(o)' BY <1>9
    <3>3. LastIs(news', Tells(o), Stale(o, d)) \/ NoneOf(news', Stale(o, d)) \/ ~NoneOf(calls', {Create(o)})
      BY <1>1, <1>11, <3>2 DEF Noticed, Created, Create, Tells, Stale
    <3>4. CASE LastIs(news', Tells(o), Stale(o, d)) BY <3>4, HasLast, Includes, ColorFacts DEF Shows
    <3>5. CASE ~NoneOf(calls', {Create(o)})
      <4>1. {Create(o)} \subseteq Asks(o) BY ColorFacts
      <4> QED BY <3>5, <4>1, Includes DEF Shows
    <3>6. CASE NoneOf(news', Stale(o, d))
      <4>1. calls' \in Seq(Request) /\ news' \in Seq(Reply) BY <1>9
      <4>2. d \in Loads BY <1>0 DEF ColorTypes
      <4> QED BY <3>1, <3>6, <4>1, <4>2, OnlyGood DEF Shows
    <3> QED BY <3>3, <3>4, <3>5, <3>6
  <2> QED BY <2>3, <2>4, <2>5 DEF t
<1>12. Loaded'
  <2> SUFFICES ASSUME ~changed' PROVE Loaded' BY DEF Loaded
  <2>1. /\ screen = [outputs |-> crtcs, primary |-> primary]
        /\ \A o \in crtcs : Shows(news, calls, o, default[o], gamma[o])
        /\ primary \in crtcs => Shows(news, calls, primary, default[primary], icc)
    BY <1>1 DEF ColorInv, Loaded
  <2>2. \A o \in crtcs : o \in Connector /\ o \in screen.outputs BY <1>0, <2>1 DEF ColorTypes
  <2> QED BY <1>1, <1>11, <2>1, <2>2 DEF Loaded
<1>13. ColorTypes'
  <2>1. \E o : o \in Connector BY <1>0 DEF ColorTypes
  <2>2. calls' \in Seq(Request) /\ news' \in Seq(Reply) BY <1>9, <2>1
  <2>3. device_assign_hash' \subseteq Connector BY <1>0, <1>1, <1>3 DEF ColorTypes
  <2> QED BY <1>0, <1>1, <2>2, <2>3, TypesKept DEF ColorTypes
<1> QED BY <1>9, <1>10, <1>12, <1>13 DEF ColorInv, Accounted

LEMMA FoundStep == ColorInv /\ Colour!DeviceFound => ColorInv'
<1> SUFFICES ASSUME ColorInv, Colour!DeviceFound PROVE ColorInv' OBVIOUS
<1> DEFINE h == Head(news)
           m == Colour!Message(IF h.why = "remove" THEN "delete" ELSE "device", h.output,
                               IF h.why = "remove" THEN "delete" ELSE "none")
<1>0. ColorTypes /\ calls \in Seq(Request) /\ news \in Seq(Reply) BY DEF ColorInv, ColorTypes
<1>1. /\ news # <<>> /\ news' = Tail(news) /\ h.is = "found" /\ calls' = Append(calls, m)
      /\ UNCHANGED <<crtcs, primary, changed, screen, devices, default, device_assign_hash, gamma, icc>>
  BY DEF Colour!DeviceFound, Colour!Handled, Colour!x, Colour!colord
<1>2. h \in Reply BY <1>0, <1>1, Serving
<1>3. h = Head(news) OBVIOUS
<1> HIDE DEF h
<1>4. h.output \in Connector /\ h.why \in {"remove", "gamma"} BY <1>1, <1>2 DEF Reply
<1>5. m \in Request BY <1>4 DEF Request, Colour!Message
<1>6. ASSUME NEW o \in Connector, NEW d \in Loads
      PROVE  /\ m # Create(o) /\ (h \in Removal(o) <=> m \in Removal(o)) /\ h \notin DeviceOf(o)
             /\ m \notin ProfileOf(o) /\ m \notin Bad(o, d) /\ h \notin Good(o, d)
             /\ h \in Replies(o) => m \in Good(o, d)
  BY <1>1, <1>4, <1>2, Stands
     DEF Reply, Create, Removal, DeviceOf, ProfileOf, Bad, Stale, Good, Replies, Tells, Colour!Message
<1> HIDE DEF m
<1>7. /\ calls' = calls \o <<m>> /\ <<m>> \in Seq(Request)
      /\ \A B : NoneOf(<<m>>, B) <=> m \notin B
      /\ \A G, B : m \in G => LastIs(<<m>>, G, B)
  BY <1>0, <1>1, <1>5, RequestOf
<1>8. ASSUME NEW o \in Connector
      PROVE  calls' \in Seq(Request) /\ news' \in Seq(Reply) /\ Accounted(o)'
  <2>1. default[o] \in Loads BY <1>0 DEF ColorTypes
  <2>2. NoneOf(<<m>>, {Create(o)}) /\ (h \in Removal(o) <=> ~NoneOf(<<m>>, Removal(o))) BY <1>6, <1>7, <2>1
  <2>3. h \notin DeviceOf(o) /\ NoneOf(<<m>>, ProfileOf(o)) BY <1>6, <1>7, <2>1
  <2>4. UNCHANGED <<crtcs, primary, changed, screen, devices, default>> BY <1>1
  <2>5. /\ calls' \in Seq(Request) /\ news' \in Seq(Reply) /\ Gone(o)' /\ Known(o)' /\ Noticed(o)'
        /\ Queued(news, calls, DeviceOf(o), ProfileOf(o)) => Queued(news', calls', DeviceOf(o), ProfileOf(o))
    BY <1>1, <1>3, <1>7, <2>2, <2>3, <2>4, Handling
  <2>6. InProgress(o)' BY <1>1, <2>5 DEF ColorInv, Accounted, InProgress, Queued, DeviceOf, ProfileOf
  <2> QED BY <2>5, <2>6 DEF Accounted
<1>9. ASSUME NEW o \in Connector, NEW v, Shows(news, calls, o, default[o], v)
      PROVE  Shows(news', calls', o, default[o], v)
  <2>1. default[o] \in Loads BY <1>0 DEF ColorTypes
  <2>2. /\ h \notin Replies(o) /\ h \notin Good(o, default[o]) /\ NoneOf(<<m>>, Bad(o, default[o])) =>
             Shows(news', calls', o, default[o], v)
        /\ LastIs(<<m>>, Good(o, default[o]), Bad(o, default[o])) => Shows(news', calls', o, default[o], v)
    BY <1>1, <1>3, <1>7, <1>9, HandlingShows
  <2> QED BY <1>6, <1>7, <2>1, <2>2
<1>10. Loaded' BY <1>0, <1>1, <1>9 DEF ColorInv, ColorTypes, Loaded
<1>11. ColorTypes'
  <2>1. \E o : o \in Connector BY <1>0 DEF ColorTypes
  <2>2. calls' \in Seq(Request) /\ news' \in Seq(Reply) BY <1>8, <2>1
  <2> QED BY <1>0, <1>1, <2>2, TypesKept DEF ColorTypes
<1> QED BY <1>8, <1>10, <1>11 DEF ColorInv

LEMMA ConnectedStep == ColorInv /\ Colour!DeviceConnected => ColorInv'
<1> SUFFICES ASSUME ColorInv, Colour!DeviceConnected PROVE ColorInv' OBVIOUS
<1> DEFINE h == Head(news)
           p == h.output
           w == h.why
           known == w # "gone" /\ p \in screen.outputs
           m == Colour!Message("profile", p, w)
           r == IF known /\ w # NoProfile THEN <<m>> ELSE <<>>
<1>0. ColorTypes /\ calls \in Seq(Request) /\ news \in Seq(Reply) BY DEF ColorInv, ColorTypes
<1>1. /\ news # <<>> /\ news' = Tail(news) /\ h.is = "device"
      /\ calls' = IF known /\ w # NoProfile THEN Append(calls, m) ELSE calls
      /\ device_assign_hash' = device_assign_hash \ {p}
      /\ icc' = IF known /\ w = NoProfile /\ screen.primary = p THEN NoProfile ELSE icc
      /\ gamma' = IF known /\ w = NoProfile /\ p \in crtcs THEN [gamma EXCEPT ![p] = NoProfile] ELSE gamma
      /\ UNCHANGED <<crtcs, primary, changed, screen, devices, default>>
  BY DEF Colour!DeviceConnected, Colour!Handled, Colour!x, Colour!colord
<1>2. h \in Reply BY <1>0, <1>1, Serving
<1>3. h = Head(news) OBVIOUS
<1> HIDE DEF h
<1>4. p \in Connector /\ w \in Loads \cup {"gone"} BY <1>1, <1>2 DEF Reply
<1>5. w # "gone" => m \in Request BY <1>4 DEF Request, Colour!Message
<1>6. ASSUME NEW o \in Connector, NEW d \in Loads
      PROVE  /\ m # Create(o) /\ m \notin Removal(o) /\ h \notin Removal(o) /\ h \notin Replies(o)
             /\ o # p => /\ h \notin DeviceOf(o) /\ m \notin ProfileOf(o) /\ m \notin Bad(o, d) /\ h \notin Good(o, d)
             /\ o = p /\ w # d => h \in Stale(o, d)
             /\ o = p /\ w = d => h \in Good(o, d) /\ m \in Good(o, d)
  BY <1>1, <1>4, <1>2, Stands
     DEF Reply, Create, Removal, DeviceOf, ProfileOf, Bad, Stale, Good, Replies, Tells, Colour!Message
<1> HIDE DEF m, w, p
<1>7. /\ calls' = calls \o r /\ r \in Seq(Request)
      /\ \A B : m \notin B => NoneOf(r, B)
      /\ known /\ w # NoProfile => \A G, B : m \in G => LastIs(r, G, B)
      /\ ~(known /\ w # NoProfile) => \A B : NoneOf(r, B)
  <2>1. CASE known /\ w # NoProfile
    <3>1. m \in Request /\ r = <<m>> BY <1>5, <2>1
    <3> QED BY <1>0, <1>1, <2>1, <3>1, RequestOf
  <2>2. CASE ~(known /\ w # NoProfile)
    <3>1. r = <<>> /\ calls' = calls BY <1>1, <2>2
    <3> QED BY <1>0, <2>2, <3>1, NoRequest
  <2> QED BY <2>1, <2>2
<1> HIDE DEF r
<1>8. ASSUME NEW o \in Connector
      PROVE  calls' \in Seq(Request) /\ news' \in Seq(Reply) /\ Accounted(o)'
  <2>1. default[o] \in Loads BY <1>0 DEF ColorTypes
  <2>2. NoneOf(r, {Create(o)}) /\ NoneOf(r, Removal(o)) /\ h \notin Removal(o) BY <1>6, <1>7, <2>1
  <2>3. o # p => h \notin DeviceOf(o) /\ NoneOf(r, ProfileOf(o)) BY <1>6, <1>7, <2>1
  <2>4. UNCHANGED <<crtcs, primary, changed, screen, devices, default>> BY <1>1
  <2>5. /\ calls' \in Seq(Request) /\ news' \in Seq(Reply) /\ Gone(o)' /\ Known(o)' /\ Noticed(o)'
        /\ o # p /\ Queued(news, calls, DeviceOf(o), ProfileOf(o)) => Queued(news', calls', DeviceOf(o), ProfileOf(o))
    BY <1>1, <1>3, <1>7, <2>2, <2>3, <2>4, Handling
  <2>6. InProgress(o)' BY <1>1, <2>5 DEF ColorInv, Accounted, InProgress, Queued, DeviceOf, ProfileOf
  <2> QED BY <2>5, <2>6 DEF Accounted
<1>9. ASSUME NEW o \in Connector, o \in screen.outputs,
             NEW v, Shows(news, calls, o, default[o], v),
             NEW u, u = v \/ (o = p /\ known /\ w = NoProfile /\ u = NoProfile),
             o = p /\ known /\ w = NoProfile => u = NoProfile
      PROVE  Shows(news', calls', o, default[o], u)
  <2> DEFINE d == default[o]
  <2>1. d \in Loads /\ d # "gone" BY <1>0, Stands DEF ColorTypes
  <2>2. /\ h \notin Replies(o) /\ h \notin Good(o, d) /\ NoneOf(r, Bad(o, d)) => Shows(news', calls', o, d, v)
        /\ LastIs(r, Good(o, d), Bad(o, d)) => Shows(news', calls', o, d, u)
        /\ h \in Good(o, d) /\ h \notin Replies(o) /\ NoneOf(r, Bad(o, d)) => Shows(news', calls', o, d, d)
        /\ h \in Stale(o, d) => Shows(news', calls', o, d, u)
    BY <1>1, <1>3, <1>7, <1>9, HandlingShows
  <2> HIDE DEF d
  <2>3. CASE o # p
    <3>1. h \notin Replies(o) /\ h \notin Good(o, d) /\ NoneOf(r, Bad(o, d)) BY <1>6, <1>7, <2>1, <2>3
    <3> QED BY <1>9, <2>2, <2>3, <3>1 DEF d
  <2>4. CASE o = p /\ w # d BY <1>6, <2>1, <2>2, <2>4 DEF d
  <2>5. CASE o = p /\ w = d
    <3>1. known BY <1>9, <2>1, <2>5
    <3>2. h \notin Replies(o) /\ h \in Good(o, d) /\ m \in Good(o, d) BY <1>6, <2>1, <2>5
    <3>3. CASE w # NoProfile BY <1>7, <2>2, <3>1, <3>2, <3>3 DEF d
    <3>4. CASE w = NoProfile
      <4>1. NoneOf(r, Bad(o, d)) BY <1>7, <3>4
      <4>2. u = d BY <1>9, <2>5, <3>1, <3>4
      <4> QED BY <2>2, <3>2, <4>1, <4>2 DEF d
    <3> QED BY <3>3, <3>4
  <2> QED BY <2>3, <2>4, <2>5
<1>10. Loaded'
  <2> SUFFICES ASSUME ~changed' PROVE Loaded' BY DEF Loaded
  <2>1. /\ screen = [outputs |-> crtcs, primary |-> primary]
        /\ \A o \in crtcs : Shows(news, calls, o, default[o], gamma[o])
        /\ primary \in crtcs => Shows(news, calls, primary, default[primary], icc)
    BY <1>1 DEF ColorInv, Loaded
  <2>2. \A o \in crtcs : o \in Connector /\ o \in screen.outputs BY <1>0, <2>1 DEF ColorTypes
  <2>3. ASSUME NEW o \in crtcs PROVE Shows(news', calls', o, default[o], gamma'[o])
    <3>1. o \in Connector /\ o \in screen.outputs /\ gamma \in [Connector -> Loads] BY <1>0, <2>2 DEF ColorTypes
    <3>2. gamma'[o] = IF o = p /\ known /\ w = NoProfile THEN NoProfile ELSE gamma[o] BY <1>1, <3>1
    <3> QED BY <1>9, <2>1, <3>1, <3>2
  <2>4. ASSUME primary \in crtcs PROVE Shows(news', calls', primary, default[primary], icc')
    <3>1. icc' = IF primary = p /\ known /\ w = NoProfile THEN NoProfile ELSE icc BY <1>1, <2>1
    <3> QED BY <1>9, <2>1, <2>2, <2>4, <3>1
  <2> QED BY <1>1, <2>1, <2>3, <2>4 DEF Loaded
<1>11. ColorTypes'
  <2>1. calls' \in Seq(Request) /\ news' \in Seq(Reply) BY <1>4, <1>8
  <2>2. gamma' \in [Connector -> Loads] BY <1>0, <1>1, Stands DEF ColorTypes
  <2> QED BY <1>0, <1>1, <2>1, <2>2, TypesKept DEF ColorTypes
<1> QED BY <1>8, <1>10, <1>11 DEF ColorInv

LEMMA LoadedStep == ColorInv /\ Colour!ProfileConnected => ColorInv'
<1> SUFFICES ASSUME ColorInv, Colour!ProfileConnected PROVE ColorInv' OBVIOUS
<1> DEFINE h == Head(news)
           p == h.output
           w == h.why
<1>0. ColorTypes /\ calls \in Seq(Request) /\ news \in Seq(Reply) BY DEF ColorInv, ColorTypes
<1>1. /\ news # <<>> /\ news' = Tail(news) /\ h.is = "profile"
      /\ icc' = IF screen.primary = p THEN w ELSE icc
      /\ gamma' = IF p \in crtcs THEN [gamma EXCEPT ![p] = w] ELSE gamma
      /\ UNCHANGED <<crtcs, primary, changed, screen, devices, default, calls, device_assign_hash>>
  BY DEF Colour!ProfileConnected, Colour!Handled, Colour!UsesScreenProfile, Colour!x, Colour!colord
<1>2. h \in Reply BY <1>0, <1>1, Serving
<1>3. h = Head(news) OBVIOUS
<1> HIDE DEF h
<1>4. p \in Connector /\ w \in Loads BY <1>1, <1>2 DEF Reply
<1>6. ASSUME NEW o \in Connector, NEW d \in Loads
      PROVE  /\ h \notin Removal(o) /\ h \notin Replies(o) /\ h \notin DeviceOf(o)
             /\ o # p => h \notin Good(o, d)
             /\ o = p /\ w # d => h \in Bad(o, d) /\ h \notin Good(o, d)
             /\ o = p /\ w = d => h \in Good(o, d)
  BY <1>1, <1>4, <1>2, Stands DEF Reply, Removal, DeviceOf, Bad, Stale, Good, Replies, Tells
<1> HIDE DEF w, p
<1>7. calls' = calls \o <<>> /\ <<>> \in Seq(Request) /\ \A B : NoneOf(<<>>, B) BY <1>0, <1>1, NoRequest
<1>8. ASSUME NEW o \in Connector
      PROVE  calls' \in Seq(Request) /\ news' \in Seq(Reply) /\ Accounted(o)'
  <2>1. default[o] \in Loads BY <1>0 DEF ColorTypes
  <2>2. NoneOf(<<>>, {Create(o)}) /\ NoneOf(<<>>, Removal(o)) /\ h \notin Removal(o) /\ h \notin DeviceOf(o)
    BY <1>6, <1>7, <2>1
  <2>3. NoneOf(<<>>, ProfileOf(o)) BY <1>7
  <2>4. UNCHANGED <<crtcs, primary, changed, screen, devices, default>> BY <1>1
  <2>5. /\ calls' \in Seq(Request) /\ news' \in Seq(Reply) /\ Gone(o)' /\ Known(o)' /\ Noticed(o)'
        /\ Queued(news, calls, DeviceOf(o), ProfileOf(o)) => Queued(news', calls', DeviceOf(o), ProfileOf(o))
    BY <1>1, <1>3, <1>7, <2>2, <2>3, <2>4, Handling
  <2>6. InProgress(o)' BY <1>1, <2>5 DEF ColorInv, Accounted, InProgress, Queued, DeviceOf, ProfileOf
  <2> QED BY <2>5, <2>6 DEF Accounted
<1>9. ASSUME NEW o \in Connector,
             NEW v, Shows(news, calls, o, default[o], v), NEW u, u = IF o = p THEN w ELSE v
      PROVE  Shows(news', calls', o, default[o], u)
  <2> DEFINE d == default[o]
  <2>1. d \in Loads BY <1>0 DEF ColorTypes
  <2>2. \A q : /\ h \notin Replies(o) /\ h \notin Good(o, d) /\ NoneOf(<<>>, Bad(o, d)) =>
                    (Shows(news, calls, o, d, q) => Shows(news', calls', o, d, q))
               /\ h \in Good(o, d) /\ h \notin Replies(o) /\ NoneOf(<<>>, Bad(o, d)) =>
                    (Shows(news, calls, o, d, q) => Shows(news', calls', o, d, d))
    BY <1>1, <1>3, <1>7, <1>9, HandlingShows
  <2> HIDE DEF d
  <2>3. h \notin Replies(o) /\ NoneOf(<<>>, Bad(o, d)) BY <1>6, <1>7, <2>1
  <2>4. CASE o # p
    <3>1. h \notin Good(o, d) BY <1>6, <2>1, <2>4
    <3> QED BY <1>9, <2>2, <2>3, <2>4, <3>1 DEF d
  <2>5. CASE o = p /\ w = d
    <3>1. h \in Good(o, d) BY <1>6, <2>1, <2>5
    <3> QED BY <1>9, <2>2, <2>3, <2>5, <3>1 DEF d
  <2>6. CASE o = p /\ w # d
    <3>1. h \in Bad(o, d) /\ h \notin Good(o, d) BY <1>6, <2>1, <2>6
    <3>2. ~NoneOf(news, Bad(o, d)) BY <1>0, <1>1, <1>3, <3>1, Serving
    <3>3. Shows(news, calls, o, d, u) BY <1>9, <3>2 DEF Shows, d
    <3> QED BY <2>2, <2>3, <3>1, <3>3 DEF d
  <2> QED BY <2>4, <2>5, <2>6
<1>10. Loaded'
  <2> SUFFICES ASSUME ~changed' PROVE Loaded' BY DEF Loaded
  <2>1. /\ screen = [outputs |-> crtcs, primary |-> primary]
        /\ \A o \in crtcs : Shows(news, calls, o, default[o], gamma[o])
        /\ primary \in crtcs => Shows(news, calls, primary, default[primary], icc)
    BY <1>1 DEF ColorInv, Loaded
  <2>2. ASSUME NEW o \in crtcs PROVE Shows(news', calls', o, default[o], gamma'[o])
    <3>1. o \in Connector /\ gamma \in [Connector -> Loads] BY <1>0 DEF ColorTypes
    <3>2. gamma'[o] = IF o = p THEN w ELSE gamma[o] BY <1>1, <3>1
    <3> QED BY <1>9, <2>1, <3>1, <3>2
  <2>3. ASSUME primary \in crtcs PROVE Shows(news', calls', primary, default[primary], icc')
    <3>1. icc' = IF primary = p THEN w ELSE icc BY <1>1, <2>1
    <3>2. primary \in Connector BY <1>0 DEF ColorTypes
    <3> QED BY <1>9, <2>1, <2>3, <3>1, <3>2
  <2> QED BY <1>1, <2>1, <2>2, <2>3 DEF Loaded
<1>11. ColorTypes'
  <2>1. calls' \in Seq(Request) /\ news' \in Seq(Reply) BY <1>4, <1>8
  <2>2. gamma' \in [Connector -> Loads] BY <1>0, <1>1, <1>4 DEF ColorTypes
  <2> QED BY <1>0, <1>1, <2>1, <2>2, TypesKept DEF ColorTypes
<1> QED BY <1>8, <1>10, <1>11 DEF ColorInv

LEMMA RequestsAbout ==
  ASSUME NEW T, T \subseteq Connector, NEW is, NEW why, [is : {is}, output : T, why : {why}] \subseteq Request,
         NEW q, q = Colour!Of(T, is, why)
  PROVE  /\ q \in Seq(Request)
         /\ \A B : NoneOf(q, B) <=> \A o \in T : Colour!Message(is, o, why) \notin B
<1>1. IsFiniteSet(T) BY ConnectorAssumption, FS_Subset
<1>2. /\ q \in Seq([is : {is}, output : T, why : {why}])
      /\ \A B : NoneOf(q, B) <=> \A o \in T : Colour!Message(is, o, why) \notin B
  BY <1>1, AboutEach
<1>3. q \in Seq(Request) BY <1>2, Widened
<1> QED BY <1>2, <1>3

LEMMA NoneOnce == ASSUME NEW q, NEW m, NoneOf(q, {m}) PROVE Once(q, m)
<1>1. \A i \in 1 .. Len(q) : q[i] # m BY DEF NoneOf, Beyond
<1> QED BY <1>1 DEF Once

LEMMA ScreenStep == ColorInv /\ Colour!ScreenChanged => ColorInv'
<1> SUFFICES ASSUME ColorInv, Colour!ScreenChanged PROVE ColorInv' OBVIOUS
<1> DEFINE gone == screen.outputs \ crtcs
           new == crtcs \ screen.outputs
           r == Colour!Of(gone, "find", "remove")
           s == Colour!Of(new, "create", "none")
           t == Colour!Of(crtcs, "find", "gamma")
<1>0. ColorTypes /\ calls \in Seq(Request) /\ crtcs \subseteq Connector /\ screen.outputs \subseteq Connector
  BY DEF ColorInv, ColorTypes
<1>1. /\ changed' = FALSE /\ screen' = [outputs |-> crtcs, primary |-> primary]
      /\ calls' = calls \o r \o s \o t
      /\ UNCHANGED <<crtcs, primary, news, devices, default, device_assign_hash, gamma, icc>>
  BY DEF Colour!ScreenChanged, Colour!x, Colour!colord
<1>2. gone \subseteq Connector /\ new \subseteq Connector BY <1>0
<1>13. gone \subseteq Connector /\ r = Colour!Of(gone, "find", "remove") /\ [is : {"find"}, output : gone, why : {"remove"}] \subseteq Request
  BY <1>2 DEF Request
<1>14. new \subseteq Connector /\ s = Colour!Of(new, "create", "none") /\ [is : {"create"}, output : new, why : {"none"}] \subseteq Request
  BY <1>2 DEF Request
<1>16. crtcs \subseteq Connector /\ t = Colour!Of(crtcs, "find", "gamma") /\ [is : {"find"}, output : crtcs, why : {"gamma"}] \subseteq Request
  BY <1>0 DEF Request
<1> HIDE DEF r, s, t, gone, new
<1>3. /\ r \in Seq(Request) /\ \A B : NoneOf(r, B) <=> \A o \in gone : Colour!Message("find", o, "remove") \notin B
  <2>1. r \in Seq(Request) BY <1>13, RequestsAbout
  <2>2. \A B : NoneOf(r, B) <=> \A o \in gone : Colour!Message("find", o, "remove") \notin B BY <1>13, RequestsAbout
  <2> QED BY <2>1, <2>2
<1>4. /\ s \in Seq(Request) /\ \A B : NoneOf(s, B) <=> \A o \in new : Colour!Message("create", o, "none") \notin B
      /\ \A o : Once(s, Colour!Message("create", o, "none"))
  <2>1. s \in Seq(Request) BY <1>14, RequestsAbout
  <2>2. ASSUME NEW B PROVE NoneOf(s, B) <=> \A o \in new : Colour!Message("create", o, "none") \notin B
    BY <1>14, RequestsAbout
  <2>3. IsFiniteSet(new) BY <1>14, ConnectorAssumption, FS_Subset
  <2>4. \A o : Once(s, Colour!Message("create", o, "none")) BY <1>14, <2>3, AboutEach
  <2> QED BY <2>1, <2>2, <2>4
<1>5. /\ t \in Seq(Request) /\ \A B : NoneOf(t, B) <=> \A o \in crtcs : Colour!Message("find", o, "gamma") \notin B
  <2>1. t \in Seq(Request) BY <1>16, RequestsAbout
  <2>2. \A B : NoneOf(t, B) <=> \A o \in crtcs : Colour!Message("find", o, "gamma") \notin B BY <1>16, RequestsAbout
  <2> QED BY <2>1, <2>2
<1> USE DEF gone, new
<1>6. ASSUME NEW o \in Connector
      PROVE  /\ NoneOf(r, {Create(o)}) /\ NoneOf(r, ProfileOf(o)) /\ (o \in gone <=> ~NoneOf(r, Removal(o)))
             /\ o \in gone => LastIs(r, {FindRemoved(o)}, {Create(o)})
             /\ (o \in new <=> ~NoneOf(s, {Create(o)})) /\ NoneOf(s, ProfileOf(o)) /\ NoneOf(s, Removal(o))
             /\ Once(s, Create(o))
             /\ NoneOf(t, {Create(o)}) /\ NoneOf(t, ProfileOf(o)) /\ NoneOf(t, Removal(o))
             /\ o \in crtcs => ~NoneOf(t, Asks(o))
  <2>0. \A p : /\ FindRemoved(p) # Create(o) /\ FindRemoved(p) \notin ProfileOf(o)
               /\ FindRemoved(p) \in Removal(o) <=> p = o
               /\ Create(p) = Create(o) <=> p = o
               /\ Create(p) \notin ProfileOf(o) /\ Create(p) \notin Removal(o)
               /\ Colour!Message("find", p, "gamma") # Create(o) /\ Colour!Message("find", p, "gamma") \notin ProfileOf(o)
               /\ Colour!Message("find", p, "gamma") \notin Removal(o)
               /\ Colour!Message("find", o, "gamma") \in Asks(o)
    BY DEF Create, FindRemoved, ProfileOf, Removal, Asks, Colour!Message
  <2>1. /\ NoneOf(r, {Create(o)}) /\ NoneOf(r, ProfileOf(o)) /\ (o \in gone <=> ~NoneOf(r, Removal(o)))
        /\ o \in gone => ~NoneOf(r, {FindRemoved(o)})
    <3>1. \A B : NoneOf(r, B) <=> \A p \in gone : FindRemoved(p) \notin B BY <1>3 DEF FindRemoved
    <3> QED BY <2>0, <3>1
  <2>2. (o \in new <=> ~NoneOf(s, {Create(o)})) /\ NoneOf(s, ProfileOf(o)) /\ NoneOf(s, Removal(o))
    <3>1. \A B : NoneOf(s, B) <=> \A p \in new : Create(p) \notin B BY <1>4 DEF Create
    <3> QED BY <2>0, <3>1
  <2>3. NoneOf(t, {Create(o)}) /\ NoneOf(t, ProfileOf(o)) /\ NoneOf(t, Removal(o)) /\ (o \in crtcs => ~NoneOf(t, Asks(o)))
    BY <1>5, <2>0
  <2>4. o \in gone => LastIs(r, {FindRemoved(o)}, {Create(o)}) BY <2>1, Present
  <2>5. Once(s, Create(o)) BY <1>4 DEF Create
  <2> QED BY <2>1, <2>2, <2>3, <2>4, <2>5
<1> DEFINE c == calls \o r
           e == c \o s
<1>7. c \in Seq(Request) /\ e \in Seq(Request) /\ calls' = e \o t /\ calls' \in Seq(Request)
  BY <1>0, <1>1, <1>3, <1>4, <1>5
<1>8. /\ \A B : NoneOf(c, B) <=> NoneOf(calls, B) /\ NoneOf(r, B)
      /\ \A G, B : LastIs(calls, G, B) /\ NoneOf(r, B) => LastIs(c, G, B)
      /\ \A G, B : LastIs(r, G, B) => LastIs(c, G, B)
      /\ \A m : Once(calls, m) /\ Once(r, m) /\ (NoneOf(calls, {m}) \/ NoneOf(r, {m})) => Once(c, m)
  BY <1>0, <1>3, Joining
<1> HIDE DEF c
<1>9. /\ \A B : NoneOf(e, B) <=> NoneOf(c, B) /\ NoneOf(s, B)
      /\ \A G, B : LastIs(c, G, B) /\ NoneOf(s, B) => LastIs(e, G, B)
      /\ \A m : Once(c, m) /\ Once(s, m) /\ (NoneOf(c, {m}) \/ NoneOf(s, {m})) => Once(e, m)
  BY <1>4, <1>7, Joining
<1> HIDE DEF e
<1>10. /\ \A B : NoneOf(calls', B) <=> NoneOf(e, B) /\ NoneOf(t, B)
       /\ \A G, B : LastIs(e, G, B) /\ NoneOf(t, B) => LastIs(calls', G, B)
       /\ \A m : Once(e, m) /\ Once(t, m) /\ (NoneOf(e, {m}) \/ NoneOf(t, {m})) => Once(calls', m)
  BY <1>5, <1>7, Joining
<1>11. ASSUME NEW o \in Connector PROVE Accounted(o)'
  <2>0. Accounted(o) BY DEF ColorInv
  <2>1. Removed(o)' <=> Removed(o) \/ o \in gone BY <1>1, <1>6, <1>8, <1>9, <1>10 DEF Removed, Removal
  <2>2. Created(o)' <=> Created(o) \/ o \in new BY <1>6, <1>8, <1>9, <1>10 DEF Created, Create
  <2>3. o \notin crtcs \/ ~Removed(o) BY <2>0 DEF Accounted, Gone
  <2>4. Gone(o)' BY <1>1, <2>1, <2>3 DEF Gone
  <2>5. /\ o \in screen.outputs /\ o \notin devices => Created(o)
        /\ o \in devices => ~Created(o) /\ (o \in screen.outputs \/ Removed(o))
        /\ Once(calls, Create(o))
        /\ o \in screen.outputs \/ LastIs(calls, {FindRemoved(o)}, {Create(o)}) \/ ~Created(o)
    BY <2>0 DEF Accounted, Known
  <2>6. LastIs(calls, {FindRemoved(o)}, {Create(o)}) => Removed(o)
    <3>1. {FindRemoved(o)} \subseteq Removal(o) BY ColorFacts
    <3> QED BY <3>1, HasLast, Includes DEF Removed
  <2>7. Once(calls', Create(o))
    <3>1. Once(r, Create(o)) /\ Once(t, Create(o)) BY <1>6, NoneOnce
    <3>2. o \in new => NoneOf(calls, {Create(o)}) BY <2>3, <2>5, <2>6 DEF Created
    <3>3. Once(c, Create(o)) BY <1>6, <1>8, <2>5, <3>1
    <3>4. Once(e, Create(o)) BY <1>6, <1>8, <1>9, <3>2, <3>3
    <3> QED BY <1>6, <1>10, <3>1, <3>4
  <2>8. o \in crtcs \/ LastIs(calls', {FindRemoved(o)}, {Create(o)}) \/ ~Created(o)'
    <3> SUFFICES ASSUME o \notin crtcs, Created(o) PROVE LastIs(calls', {FindRemoved(o)}, {Create(o)}) BY <2>2
    <3>1. LastIs(c, {FindRemoved(o)}, {Create(o)}) BY <1>6, <1>8, <2>5
    <3> QED BY <1>6, <1>9, <1>10, <3>1
  <2>9. Known(o)' BY <1>1, <2>1, <2>2, <2>3, <2>5, <2>7, <2>8 DEF Known, Create, FindRemoved
  <2>10. Noticed(o)' BY <1>1, <2>0, <2>2 DEF Accounted, Noticed, Tells, Stale
  <2>11. InProgress(o)' BY <1>1, <1>6, <1>8, <1>9, <1>10, <2>0 DEF Accounted, InProgress, Queued, DeviceOf, ProfileOf
  <2> QED BY <2>4, <2>9, <2>10, <2>11 DEF Accounted
<1>12. Loaded'
  <2>1. \A o \in crtcs : ~NoneOf(calls', Asks(o)) BY <1>0, <1>6, <1>10
  <2> QED BY <1>1, <2>1 DEF Loaded, Shows
<1>15. ColorTypes'
  <2>1. screen' \in [outputs : SUBSET Connector, primary : Connector] BY <1>0, <1>1 DEF ColorTypes
  <2> QED BY <1>0, <1>1, <1>7, <2>1, TypesKept DEF ColorTypes
<1> QED BY <1>11, <1>12, <1>15 DEF ColorInv

LEMMA ColorInit == Colour!Init => ColorInv
<1> SUFFICES ASSUME Colour!Init PROVE ColorInv OBVIOUS
<1> DEFINE m == Colour!Message("list", primary, "none")
           r == Colour!Of(crtcs, "create", "none")
<1>1. crtcs \subseteq Connector /\ primary \in Connector BY DEF Colour!Init
<1>2. /\ calls = r \o <<m>> /\ news = <<>> /\ devices = {} /\ device_assign_hash = {}
      /\ changed = FALSE /\ screen = [outputs |-> crtcs, primary |-> primary]
      /\ default \in [Connector -> Loads] /\ gamma = [o \in Connector |-> NoProfile]
  <2>0. IsFiniteSet(crtcs) BY <1>1, ConnectorAssumption, FS_Subset
  <2>1. DOMAIN Colour!SetToSeq(crtcs) = 1 .. Colour!Cardinality(crtcs) BY <2>0, Enumerated
  <2> QED BY <2>1 DEF Colour!Init, Colour!Of, Loads
<1>3. /\ m \in Request
      /\ \A o : m # Create(o) /\ m \notin Removal(o) /\ m \in Asks(o)
  BY <1>1 DEF Request, Create, Removal, Asks, Colour!Message
<1> HIDE DEF m
<1>4. /\ r \in Seq(Request) /\ \A B : NoneOf(r, B) <=> \A o \in crtcs : Colour!Message("create", o, "none") \notin B
      /\ \A o : Once(r, Colour!Message("create", o, "none"))
  <2>1. [is : {"create"}, output : crtcs, why : {"none"}] \subseteq Request BY <1>1 DEF Request
  <2>2. IsFiniteSet(crtcs) BY <1>1, ConnectorAssumption, FS_Subset
  <2>3. r \in Seq(Request) /\ \A B : NoneOf(r, B) <=> \A o \in crtcs : Colour!Message("create", o, "none") \notin B
    BY <1>1, <2>1, RequestsAbout
  <2>4. \A o : Once(r, Colour!Message("create", o, "none")) BY <2>2, AboutEach
  <2> QED BY <2>3, <2>4
<1> HIDE DEF r
<1>5. <<m>> \in Seq(Request) /\ \A B : NoneOf(<<m>>, B) <=> m \notin B BY <1>3, RequestOf
<1>6. /\ \A B : NoneOf(calls, B) <=> NoneOf(r, B) /\ m \notin B
      /\ \A z : Once(r, z) /\ Once(<<m>>, z) /\ (NoneOf(r, {z}) \/ NoneOf(<<m>>, {z})) => Once(calls, z)
  BY <1>2, <1>4, <1>5, Joining
<1>7. calls \in Seq(Request) BY <1>2, <1>4, <1>5
<1>8. ASSUME NEW o \in Connector PROVE Accounted(o)
  <2>1. \A B : NoneOf(news, B) BY <1>2, NoneOfEmpty
  <2>2. ~Removed(o)
    <3>1. NoneOf(r, Removal(o)) BY <1>4 DEF Removal, Colour!Message
    <3> QED BY <1>3, <1>6, <2>1, <3>1 DEF Removed
  <2>3. Created(o) <=> o \in crtcs
    <3>1. NoneOf(r, {Create(o)}) <=> o \notin crtcs BY <1>4 DEF Create, Colour!Message
    <3> QED BY <1>3, <1>6, <3>1 DEF Created
  <2>4. Once(calls, Create(o))
    <3>1. Once(<<m>>, Create(o)) /\ NoneOf(<<m>>, {Create(o)}) BY <1>3, <1>5 DEF NoneOf, Beyond, Once
    <3> QED BY <1>4, <1>6, <3>1 DEF Create
  <2> QED BY <1>2, <2>1, <2>2, <2>3, <2>4 DEF Accounted, Gone, Known, Noticed, InProgress
<1>9. Loaded
  <2>1. \A o : ~NoneOf(calls, Asks(o)) BY <1>3, <1>6
  <2> QED BY <1>2, <2>1 DEF Loaded, Shows
<1>10. ColorTypes
  <2>1. news \in Seq(Reply) BY <1>2
  <2> QED BY <1>1, <1>2, <1>7, <2>1, Stands DEF ColorTypes
<1> QED BY <1>8, <1>9, <1>10 DEF ColorInv

LEMMA ColorStep == ASSUME ColorInv, ~Flaps, [Colour!Next]_(Colour!vars) PROVE ColorInv'
<1>1. CASE UNCHANGED Colour!vars
  <2>1. UNCHANGED <<crtcs, primary, changed, screen, devices, default, calls, news, device_assign_hash, gamma, icc>>
    BY <1>1 DEF Colour!vars, Colour!x, Colour!colord
  <2>2. ColorTypes' BY <2>1 DEF ColorInv, ColorTypes
  <2>3. ASSUME NEW o \in Connector PROVE Accounted(o)'
    <3>1. Accounted(o) BY DEF ColorInv
    <3> QED BY <2>1, <3>1 DEF Accounted, Gone, Known, Noticed, InProgress, Removed, Created, Queued, Removal, Create,
      FindRemoved, Tells, Stale, DeviceOf, ProfileOf
  <2>4. Loaded' BY <2>1 DEF ColorInv, Loaded
  <2> QED BY <2>2, <2>3, <2>4 DEF ColorInv
<1>2. ASSUME NEW o \in Connector, Colour!PlugOrUnplug(o) \/ Colour!SetPrimary(o) PROVE ColorInv'
  BY <1>2, OutputsStep
<1>3. ASSUME NEW o \in Connector, NEW p \in Loads, Colour!SetDefault(o, p) PROVE ColorInv'
  BY <1>3, DefaultStep
<1> QED
  BY <1>1, <1>2, <1>3, ServeStep, ScreenStep, NewsStep, FoundStep, ConnectedStep, LoadedStep, ActiveStep
  DEF Colour!Next, Loads

LEMMA PartIsColour == AllSpec => Colour!Spec
<1>1. AllInit => Colour!Init BY DEF AllInit
<1>2. [AllNext]_allVars => [Colour!Next]_(Colour!vars)
  BY DEF AllNext, allVars, colorVars, Colour!vars, Colour!x, Colour!colord
<1> QED BY <1>1, <1>2, PTL DEF AllSpec, Colour!Spec

\* Nothing that happens to outputs, defaults and sessions is lost to "assign
\* already in progress" (csd-color-manager.c:1303-1323): once all is answered the
\* default profile of each connected output is the one that is loaded, for any
\* outputs, profiles and number of changes, where no output is replugged before
\* its removal is dealt with.
THEOREM DefaultsShown == ASSUME ~Flaps PROVE AllSpec => []ShowsDefaults
<1>1. ColorInv => ShowsDefaults
  <2> SUFFICES ASSUME ColorInv, Colour!Quiet
               PROVE  /\ devices = crtcs
                      /\ \A o \in crtcs : gamma[o] = default[o]
                      /\ primary \in crtcs => icc = default[primary]
    BY DEF ShowsDefaults, Colour!ShowsDefaults
  <2>1. calls = <<>> /\ news = <<>> /\ ~changed BY DEF Colour!Quiet
  <2>2. \A B : NoneOf(calls, B) /\ NoneOf(news, B) BY <2>1, NoneOfEmpty
  <2>3. \A G, B : ~LastIs(calls, G, B) /\ ~LastIs(news, G, B) BY <2>2, HasLast
  <2>4. screen.outputs = crtcs /\ crtcs \subseteq Connector /\ devices \subseteq Connector
    BY <2>1 DEF ColorInv, Loaded, ColorTypes
  <2>5. \A o \in Connector : o \in devices <=> o \in crtcs
    BY <2>2, <2>4 DEF ColorInv, Accounted, Known, Created, Removed
  <2>6. \A o, d, v : Shows(news, calls, o, d, v) => v = d BY <2>2, <2>3 DEF Shows, Queued
  <2> QED BY <2>1, <2>4, <2>5, <2>6 DEF ColorInv, Loaded
<1>2. Colour!Spec => []ColorInv BY ColorInit, ColorStep, PTL DEF Colour!Spec
<1> QED BY <1>1, <1>2, PartIsColour, PTL

-----------------------------------------------------------------------------
(* The types of the four parts.                                            *)

\* What is reported is a percentage, and what the user chose is a level.
KbdTypes ==
  /\ lidClosed \in BOOLEAN /\ user \in Level /\ reply \in {None} \cup 0 .. 100 /\ upsets \in Scenarios
KbdInv == CacheInv /\ ModeOK /\ KbdTypes

LEMMA PercentageOf == \A v : AbsToPercentage(v) \in {None} \cup 0 .. 100
<1> SUFFICES ASSUME NEW v \in Level PROVE (v * 100) \div KMax \in 0 .. 100 BY DEF AbsToPercentage
<1>1. KMax \in Nat /\ KMax > 0 BY KMaxAssumption
<1>2. v \in Nat /\ v <= KMax BY <1>1 DEF Level
<1>3. ASSUME NEW a \in Nat, NEW k \in Nat, k > 0, a <= 100 * k PROVE a \div k \in 0 .. 100
  <2>1. a \div k \in Int /\ a \div k >= 0 BY <1>3
  <2>2. k * (a \div k) <= a BY <1>3
  <2>3. ~(a \div k >= 101)
    <3> SUFFICES ASSUME a \div k >= 101 PROVE FALSE OBVIOUS
    <3> DEFINE d == a \div k
    <3>1. d \in Int /\ d >= 101 /\ k * d <= a BY <2>1, <2>2
    <3> HIDE DEF d
    <3>2. k * d >= k * 101 BY <1>3, <3>1
    <3>3. k * 101 > 100 * k BY <1>3
    <3> QED BY <1>3, <3>1, <3>2, <3>3
  <2> QED BY <2>1, <2>3
<1>4. v * 100 \in Nat /\ v * 100 <= 100 * KMax BY <1>1, <1>2
<1> QED BY <1>1, <1>3, <1>4

LEMMA KbdStep == KbdInv /\ [Next]_vars => KbdInv'
<1> SUFFICES ASSUME KbdInv, [Next]_vars PROVE KbdInv' OBVIOUS
<1>1. CacheInv' BY CacheStep DEF KbdInv
<1>2. kbd \in Kbd /\ kbd.old \in {None} \cup Level BY DEF KbdInv, CacheInv, Kbd
<1>3. upsets' = upsets BY DEF Next, vars
<1>4. ASSUME mode' \in {mode, DIM, BLANK, SLEEP, NORMAL}, lidClosed' \in {lidClosed, TRUE, FALSE},
             user' = user \/ user' \in Level, reply' = reply \/ reply' \in {None} \cup 0 .. 100
      PROVE  ModeOK' /\ KbdTypes'
  <2>1. ModeOK' BY <1>4 DEF KbdInv, ModeOK, NORMAL, DIM, BLANK, SLEEP
  <2>2. lidClosed' \in BOOLEAN BY <1>4 DEF KbdInv, KbdTypes
  <2> QED BY <1>3, <1>4, <2>1, <2>2 DEF KbdInv, KbdTypes
<1>5. CASE GoDim \/ GoBlank \/ GoSleep \/ GoNormal
  <2>1. mode' \in {DIM, BLANK, SLEEP, NORMAL} /\ UNCHANGED <<lidClosed, user, reply>>
    BY <1>5 DEF GoDim, GoBlank, GoSleep, GoNormal
  <2> QED BY <1>1, <1>4, <2>1 DEF KbdInv
<1>6. CASE SuspendWithLidClosed \/ DoLidOpenAction
  <2>1. mode' = mode /\ lidClosed' \in {TRUE, FALSE} /\ UNCHANGED <<user, reply>>
    BY <1>6 DEF SuspendWithLidClosed, DoLidOpenAction
  <2> QED BY <1>1, <1>4, <2>1 DEF KbdInv
<1>7. ASSUME NEW v \in Level, NEW r, MethodSets(v, r) PROVE KbdInv'
  <2>1. /\ UNCHANGED <<mode, lidClosed>>
        /\ user' = user \/ user' = v
        /\ reply' = reply \/ reply' = AbsToPercentage(r)
    BY <1>7 DEF MethodSets
  <2> QED BY <1>1, <1>4, <1>7, <2>1, PercentageOf DEF KbdInv
<1>8. CASE SetPercentage
  <2>1. PICK p \in 0 .. 100 : MethodSets(PercentageToAbs(p), p) BY <1>8 DEF SetPercentage
  <2>2. PercentageToAbs(p) \in Level
    <3>1. KMax \in Nat /\ p \in Nat /\ p <= 100 BY KMaxAssumption
    <3>2. KMax * p \in Nat /\ KMax * p <= KMax * 100 BY <3>1
    <3> DEFINE a == KMax * p
    <3>3. a \in Nat /\ a <= 100 * KMax BY <3>1, <3>2
    <3> HIDE DEF a
    <3>4. a \div 100 \in 0 .. KMax BY <3>1, <3>3
    <3> QED BY <3>4 DEF PercentageToAbs, Level, a
  <2> QED BY <1>7, <2>1, <2>2
<1>9. CASE StepUp \/ StepDown
  <2>1. KMax \in Nat /\ kbd.now \in 0 .. KMax BY <1>2, KMaxAssumption DEF Kbd, Level
  <2>2. StepAmount \in Nat BY <2>1 DEF StepAmount
  <2>3. (IF kbd.now + StepAmount < KMax THEN kbd.now + StepAmount ELSE KMax) \in Level BY <2>1, <2>2 DEF Level
  <2>4. (IF kbd.now - StepAmount > 0 THEN kbd.now - StepAmount ELSE 0) \in Level BY <2>1, <2>2 DEF Level
  <2> QED BY <1>7, <1>9, <2>3, <2>4 DEF StepUp, StepDown
<1>10. CASE GetPercentage
  <2>1. UNCHANGED <<mode, lidClosed, user>> /\ reply' = AbsToPercentage(kbd.hw) BY <1>10 DEF GetPercentage
  <2> QED BY <1>1, <1>4, <2>1, PercentageOf DEF KbdInv
<1>11. CASE ToggleMethod
  <2> DEFINE v == IF kbd.old >= 0 THEN kbd.old ELSE 0
  <2>1. v \in Level BY <1>2, KMaxAssumption DEF None, Level
  <2>2. /\ UNCHANGED <<mode, lidClosed>>
        /\ user' = user \/ user' = v
        /\ reply' = reply \/ reply' = AbsToPercentage(None)
    BY <1>11 DEF ToggleMethod
  <2> HIDE DEF v
  <2> QED BY <1>1, <1>4, <2>1, <2>2, PercentageOf DEF KbdInv
<1>12. ASSUME NEW v \in Level, FirmwareKey(v) PROVE KbdInv'
  <2>1. UNCHANGED <<mode, lidClosed, reply>> /\ user' = v BY <1>12 DEF FirmwareKey
  <2> QED BY <1>1, <1>4, <1>12, <2>1 DEF KbdInv
<1>13. CASE HandleChanged \/ UNCHANGED vars
  <2>1. UNCHANGED <<mode, lidClosed, reply, user>> BY <1>13 DEF HandleChanged, vars
  <2> QED BY <1>1, <1>4, <2>1 DEF KbdInv
<1> QED BY <1>5, <1>6, <1>8, <1>9, <1>10, <1>11, <1>12, <1>13 DEF Next, Step

LEMMA KbdStart == Init => KbdInv
<1> SUFFICES ASSUME Init PROVE KbdInv OBVIOUS
<1>1. CacheInv BY CacheStep
<1>2. mode = 0 /\ lidClosed = FALSE /\ user \in Level /\ reply = 0 /\ upsets \in Scenarios BY DEF Init, NORMAL
<1>3. ModeOK BY <1>2 DEF ModeOK, NORMAL, SLEEP
<1>4. lidClosed \in BOOLEAN BY <1>2
<1>5. reply \in {None} \cup 0 .. 100 BY <1>2
<1> QED BY <1>1, <1>2, <1>3, <1>4, <1>5 DEF KbdInv, KbdTypes

LEMMA PartIsKeyboard == AllSpec => Spec
<1>1. AllInit => Init BY DEF AllInit
<1>2. [AllNext]_allVars => [Next]_vars BY DEF AllNext, allVars, kbdVars
<1> QED BY <1>1, <1>2, PTL DEF AllSpec, Spec

\* The timers and the events of a tablet stay within their bounds: the first
\* timer is the only one that is added without looking.
TabletBounds == timers \in 0 .. MaxTimers /\ Len(uevents) <= MaxEvents /\ (started = "idle" => timers = 0)

LEMMA BoundsStep == TabletInv /\ TabletBounds /\ [Tablet!Next]_Tablet!vars => TabletBounds'
<1> SUFFICES ASSUME TabletInv, TabletBounds, [Tablet!Next]_Tablet!vars PROVE TabletBounds' OBVIOUS
<1>1. uevents \in Seq(Turn) /\ Len(uevents) \in Nat /\ timers \in Nat
  <2>1. uevents \in Seq(Turn) BY DEF TabletInv, TabletTypes
  <2>2. timers \in Nat BY BoundsAssumption DEF TabletBounds
  <2> QED BY <2>1, <2>2
<1>2. MaxTimers \in Nat \ {0} /\ MaxEvents \in Nat BY BoundsAssumption
<1>3. ASSUME NEW o \in Turn, Tablet!Turn(o) PROVE TabletBounds'
  <2>1. Len(uevents) < MaxEvents /\ (uevents' = uevents \/ uevents' = Append(uevents, o))
        /\ UNCHANGED <<started, timers>>
    BY <1>3 DEF Tablet!Turn
  <2>2. Len(Append(uevents, o)) = Len(uevents) + 1 BY <1>1
  <2>3. Len(uevents') <= MaxEvents BY <1>1, <1>2, <2>1, <2>2
  <2> QED BY <2>1, <2>3 DEF TabletBounds
<1>4. CASE Tablet!StartIdle
  <2>1. started = "idle" /\ started' = "bus" /\ timers' \in {timers, timers + 1} /\ uevents' = uevents
    BY <1>4 DEF Tablet!StartIdle, Tablet!held
  <2>2. timers = 0 BY <2>1 DEF TabletBounds
  <2>3. timers' \in 0 .. MaxTimers BY <1>2, <2>1, <2>2
  <2> QED BY <2>1, <2>3 DEF TabletBounds
<1>5. CASE Tablet!BusGotten \/ Tablet!XrandrReady
  <2>1. started' # "idle" /\ UNCHANGED <<timers, uevents>>
    BY <1>5 DEF Tablet!BusGotten, Tablet!XrandrReady, Tablet!held
  <2> QED BY <2>1 DEF TabletBounds
<1>6. CASE Tablet!ClientUevent
  <2>1. uevents # <<>> /\ uevents' = Tail(uevents) /\ UNCHANGED <<started, timers>> BY <1>6 DEF Tablet!ClientUevent
  <2>2. Len(uevents') = Len(uevents) - 1 BY <1>1, <2>1
  <2>3. Len(uevents') <= MaxEvents BY <1>1, <1>2, <2>2 DEF TabletBounds
  <2> QED BY <2>1, <2>3 DEF TabletBounds
<1>7. CASE Tablet!MpuTimer
  <2>1. /\ timers > 0 /\ started \in {"ready", "off"} /\ started' = started
        /\ timers' \in {timers, timers - 1} /\ uevents' = uevents
    BY <1>7 DEF Tablet!MpuTimer, Tablet!HasProxy, Tablet!held
  <2>2. timers' \in 0 .. MaxTimers BY <1>1, <1>2, <2>1 DEF TabletBounds
  <2> QED BY <2>1, <2>2 DEF TabletBounds
<1>8. CASE Tablet!OrientationLockChanged
  <2>1. timers < MaxTimers /\ timers' \in {timers, timers + 1} /\ (started = "idle" => timers' = timers)
        /\ UNCHANGED <<started, uevents>>
    BY <1>8 DEF Tablet!OrientationLockChanged, Tablet!held
  <2>2. timers' \in 0 .. MaxTimers BY <1>1, <1>2, <2>1
  <2> QED BY <2>1, <2>2 DEF TabletBounds
<1>9. CASE Tablet!ActionFinished \/ Tablet!DoVideoRotate \/ Tablet!RotateFinished \/ Tablet!RotateTo \/ Tablet!Rotate
  <2>1. UNCHANGED <<started, timers, uevents>>
    BY <1>9 DEF Tablet!ActionFinished, Tablet!DoVideoRotate, Tablet!RotateFinished, Tablet!RotateTo, Tablet!Rotate, Tablet!held
  <2> QED BY <2>1 DEF TabletBounds
<1>10. CASE Tablet!Stop
  <2>1. started' = "off" /\ timers' = timers /\ uevents' = <<>> BY <1>10 DEF Tablet!Stop
  <2>2. Len(uevents') <= MaxEvents BY <1>2, <2>1
  <2> QED BY <2>1, <2>2 DEF TabletBounds
<1>11. CASE UNCHANGED Tablet!vars
  <2>1. UNCHANGED <<started, timers, uevents>> BY <1>11 DEF Tablet!vars
  <2> QED BY <2>1 DEF TabletBounds
<1>12. Tablet!Rotation = Turn BY DEF Tablet!Rotation, Turn
<1> QED BY <1>3, <1>4, <1>5, <1>6, <1>7, <1>8, <1>9, <1>10, <1>11, <1>12 DEF Tablet!Next

LEMMA TabletTyped == TabletInv /\ TabletBounds => Tablet!TypeOK
<1> SUFFICES ASSUME TabletInv, TabletBounds PROVE Tablet!TypeOK OBVIOUS
<1>1. TabletTypes /\ touch = rotation BY DEF TabletInv
<1>2. call.at \in {"nowhere", "sent", "answered"}
  <2>1. CASE call = Tablet!None BY <2>1 DEF Tablet!None
  <2>2. CASE call \in [to : Turn, at : {"sent", "answered"}] BY <2>2
  <2> QED BY <1>1, <2>1, <2>2 DEF TabletTypes
<1> QED BY <1>1, <1>2 DEF TabletTypes, TabletBounds, Tablet!TypeOK, Tablet!Rotation, Tablet!Orientation,
  Tablet!Undefined, Turn

\* What happens to the outputs of colord is bounded.
ChangesBound == changes \in 0 .. MaxChanges

LEMMA ChangesStep == ChangesBound /\ [Colour!Next]_(Colour!vars) => ChangesBound'
<1> SUFFICES ASSUME ChangesBound, [Colour!Next]_(Colour!vars) PROVE ChangesBound' OBVIOUS
<1>1. CASE Colour!Change BY <1>1, BoundsAssumption DEF Colour!Change, ChangesBound
<1>2. CASE changes' = changes BY <1>2 DEF ChangesBound
<1>3. Colour!Change \/ changes' = changes
  <2>1. ASSUME NEW o, Colour!PlugOrUnplug(o) \/ Colour!SetPrimary(o) PROVE Colour!Change
    BY <2>1 DEF Colour!PlugOrUnplug, Colour!SetPrimary
  <2>2. ASSUME NEW o, NEW p, Colour!SetDefault(o, p) PROVE Colour!Change BY <2>2 DEF Colour!SetDefault
  <2>3. Colour!SessionActive => Colour!Change BY DEF Colour!SessionActive
  <2>4. Colour!Serve \/ Colour!ScreenChanged \/ Colour!DeviceNews \/ Colour!DeviceFound \/ Colour!DeviceConnected
          \/ Colour!ProfileConnected \/ UNCHANGED Colour!vars => changes' = changes
    BY DEF Colour!Serve, Colour!ScreenChanged, Colour!DeviceNews, Colour!DeviceFound, Colour!DeviceConnected,
      Colour!ProfileConnected, Colour!vars
  <2> QED BY <2>1, <2>2, <2>3, <2>4 DEF Colour!Next
<1> QED BY <1>1, <1>2, <1>3

\* The variables of the four parts have their types: no level outside the
\* keyboard's range is written, saved or reported (csd-power-manager.c:180-240),
\* and the cycle of fn-F7 points at a configuration (csd-xrandr-manager.c:1085),
\* for any levels, monitors, scenes, settings, outputs and profiles.
THEOREM PartsTyped == ASSUME ~Flaps PROVE AllSpec => []PartsTypeOK
<1>1. AllSpec => []TypeOK
  <2>1. KbdInv => TypeOK BY DEF KbdInv, KbdTypes, CacheInv, ModeOK, TypeOK
  <2> QED BY <2>1, KbdStart, KbdStep, PartIsKeyboard, PTL DEF Spec
<1>2. AllSpec => [](Monitors!TypeOK)
  <2>1. Monitors!Init => SeenInv /\ SceneInv BY SeenStart
  <2>2. (SeenInv /\ SceneInv) /\ [Monitors!Next]_(Monitors!vars) => (SeenInv /\ SceneInv)' BY SeenStep
  <2>3. SeenInv /\ SceneInv => Monitors!TypeOK BY MonitorsTyped
  <2> QED BY <2>1, <2>2, <2>3, PartIsMonitors, PTL DEF Monitors!Spec
<1>3. AllSpec => [](Tablet!TypeOK)
  <2>1. Tablet!Init => TabletInv /\ TabletBounds
    <3>1. Tablet!Init => TabletBounds
      <4> SUFFICES ASSUME Tablet!Init PROVE TabletBounds OBVIOUS
      <4>1. timers = 0 /\ uevents = <<>> BY DEF Tablet!Init
      <4>2. Len(uevents) <= MaxEvents /\ timers \in 0 .. MaxTimers BY <4>1, BoundsAssumption
      <4> QED BY <4>1, <4>2 DEF TabletBounds
    <3> QED BY <3>1, TabletStart
  <2>2. (TabletInv /\ TabletBounds) /\ [Tablet!Next]_(Tablet!vars) => (TabletInv /\ TabletBounds)'
    BY TabletStep, BoundsStep
  <2> QED BY <2>1, <2>2, TabletTyped, PartIsTablet, PTL DEF Tablet!Spec
<1>4. AllSpec => [](Colour!TypeOK)
  <2>1. Colour!Init => ColorInv /\ ChangesBound
    <3>1. Colour!Init => ChangesBound BY BoundsAssumption DEF Colour!Init, ChangesBound
    <3> QED BY <3>1, ColorInit
  <2>2. (ColorInv /\ ChangesBound) /\ [Colour!Next]_(Colour!vars) => (ColorInv /\ ChangesBound)'
    BY ColorStep, ChangesStep
  <2>3. ColorInv /\ ChangesBound => Colour!TypeOK
    BY DEF ColorInv, ColorTypes, ChangesBound, Colour!TypeOK, Loads
  <2> QED BY <2>1, <2>2, <2>3, PartIsColour, PTL DEF Colour!Spec
<1> QED BY <1>1, <1>2, <1>3, <1>4, PTL DEF PartsTypeOK

==============================================================================
