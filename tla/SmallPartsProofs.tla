--------------------------- MODULE SmallPartsProofs --------------------------
(***************************************************************************)
(* Proofs about the parts of SmallParts.  A behaviour of SmallParts is one *)
(* of every part, so that what a part's specification implies holds of it; *)
(* each part is proved on its own and lifted by that lemma.                *)
(***************************************************************************)
EXTENDS SmallParts, Sequences, FiniteSetTheorems, WellFoundedInduction, TLAPS

SX == INSTANCE SequencesExt

-----------------------------------------------------------------------------
(* The screen, for any backlight range, dim percentage and kind of         *)
(* machine.  UserLevelKept is not inductive: it must also be known which   *)
(* of level and preDim holds the user's level, and that NORMAL has nothing *)
(* saved, so that DIM saves the user's level and nothing else.             *)


\* The type invariant is inductive by itself, whatever goes wrong.
LEMMA TypeOKStep == TypeOK /\ [Next]_vars => TypeOK'
  <1> SUFFICES ASSUME TypeOK, [Next]_vars PROVE TypeOK'
    OBVIOUS
  <1>0. upsets' \in Scenarios
    BY DEF TypeOK, Next, vars
  <1> USE <1>0, RangeAssumption DEF TypeOK, Mode, NORMAL, DIM, BLANK, SLEEP, None
  <1>1. ASSUME NEW m \in Mode, NEW act \in BOOLEAN, IdleSetMode(m, act)
        PROVE  /\ mode' \in Mode
               /\ level' \in Min .. Max
               /\ preDim' \in {None} \cup Min .. Max
               /\ panelOn' \in BOOLEAN
    <2> USE DEF PanelSet, BacklightSet, Outcome
    <2>1. CASE ~(Deeper(m) /\ act) \/ IsVM
      BY <1>1, <2>1 DEF IdleSetMode
    <2>2. CASE EnterNormal /\ mode' = m
      BY <1>1, <2>2 DEF EnterNormal, RestoreLevel
    <2>3. CASE EnterDim /\ mode' = m
      BY <1>1, <2>3 DEF EnterDim, DisplayBacklightDim
    <2>4. CASE EnterBlank /\ mode' = m
      BY <1>1, <2>4 DEF EnterBlank
    <2>5. CASE EnterSleep /\ mode' = m
      BY <1>1, <2>5 DEF EnterSleep
    <2>6. QED
      BY <1>1, <2>1, <2>2, <2>3, <2>4, <2>5 DEF IdleSetMode
  <1>2. ASSUME NEW m \in Mode, AlarmExpired(m) PROVE TypeOK'
    BY <1>1, <1>2 DEF AlarmExpired
  <1>3. CASE Reset
    <2>1. IdleSetMode(NORMAL, active) /\ NORMAL \in Mode
      BY <1>3 DEF Reset
    <2>2. QED
      BY <1>1, <1>3, <2>1 DEF Reset
  <1>4. CASE SessionActiveChanged
    <2>1. IdleSetMode(NORMAL, active') /\ NORMAL \in Mode /\ active' \in BOOLEAN
      BY <1>4 DEF SessionActiveChanged
    <2>2. QED
      BY <1>1, <1>4, <2>1 DEF SessionActiveChanged
  <1>5. ASSUME NEW v, UserSets(v) PROVE TypeOK'
    BY <1>5 DEF UserSets, BacklightSet
  <1>6. CASE SetPercentage \/ StepUp \/ StepDown
    BY <1>5, <1>6 DEF SetPercentage, StepUp, StepDown
  <1>7. CASE SuspendWithLidClosed \/ LidClosedExternalMonitor \/ LidOpen
    BY <1>7 DEF SuspendWithLidClosed, LidClosedExternalMonitor, LidOpen, PanelSet,
                Outcome
  <1>8. CASE UNCHANGED vars
    BY <1>8 DEF vars
  <1>9. QED
    BY <1>2, <1>3, <1>4, <1>6, <1>7, <1>8 DEF Next, Step

\* Type correctness, whatever goes wrong: the backlight is never sent out of
\* its range, and what is saved for undim is a level of that range.
THEOREM TypeCorrect == Spec => []TypeOK
  <1>1. Init => TypeOK
    <2>1. Init => panelOn \in BOOLEAN /\ active \in BOOLEAN /\ lidClosed \in BOOLEAN
      BY DEF Init
    <2>2. Init => /\ mode \in Mode /\ level \in Min .. Max /\ user \in Min .. Max
                  /\ preDim \in {None} \cup Min .. Max
      BY RangeAssumption DEF Init, Mode, NORMAL, SLEEP
    <2>3. Init => upsets \in Scenarios
      BY DEF Init
    <2>4. QED
      BY <2>1, <2>2, <2>3 DEF TypeOK
  <1>2. QED
    BY <1>1, TypeOKStep, PTL DEF Spec

-----------------------------------------------------------------------------
Saved ==
  /\ preDim # None => preDim = user
  /\ preDim = None => level = user
  /\ mode = NORMAL \/ IsVM => preDim = None

\* In a calm behaviour every step keeps track of the user's level.
LEMMA SavedStep ==
  ASSUME upsets = {}, TypeOK, Saved, [Next]_vars
  PROVE  Saved'
  <1> USE RangeAssumption DEF TypeOK, Saved, Mode, NORMAL, DIM, BLANK, SLEEP, None
  <1>1. Outcome = {TRUE}
    BY DEF Outcome
  <1>2. ASSUME NEW m \in Mode, NEW act \in BOOLEAN, IdleSetMode(m, act), user' = user
        PROVE  Saved'
    <2> USE DEF BacklightSet
    <2>1. CASE ~(Deeper(m) /\ act)
      BY <1>2, <2>1 DEF IdleSetMode
    <2>2. CASE Deeper(m) /\ act /\ IsVM
      BY <1>2, <2>2 DEF IdleSetMode, Deeper
    <2>3. CASE m = NORMAL /\ EnterNormal /\ mode' = m
      BY <1>1, <1>2, <2>3 DEF EnterNormal, RestoreLevel
    <2>4. CASE m = DIM /\ EnterDim /\ mode' = m /\ Deeper(m) /\ ~IsVM
      <3>1. preDim = None /\ level = user
        BY <2>4 DEF Deeper
      <3>2. preDim' = level \/ UNCHANGED <<level, preDim>>
        BY <1>1, <2>4 DEF EnterDim, DisplayBacklightDim
      <3>3. QED
        BY <1>2, <2>4, <3>1, <3>2
    <2>5. CASE m \in {BLANK, SLEEP} /\ (EnterBlank \/ EnterSleep) /\ mode' = m
      <3>1. UNCHANGED <<level, preDim>>
        BY <2>5 DEF EnterBlank, EnterSleep
      <3>2. QED
        BY <1>2, <2>5, <3>1
    <2>6. CASE Deeper(m) /\ act /\ ~IsVM
      <3>1. /\ mode' = m
            /\ \/ m = NORMAL /\ EnterNormal
               \/ m = DIM /\ EnterDim
               \/ m = BLANK /\ EnterBlank
               \/ m = SLEEP /\ EnterSleep
        BY <1>2, <2>6, Zenon DEF IdleSetMode
      <3>2. QED
        BY <2>3, <2>4, <2>5, <2>6, <3>1
    <2>7. QED
      BY <2>1, <2>2, <2>6
  <1>3. ASSUME NEW m \in Mode, AlarmExpired(m) PROVE Saved'
    BY <1>2, <1>3 DEF AlarmExpired
  <1>4. CASE Reset
    <2>1. IdleSetMode(NORMAL, active) /\ NORMAL \in Mode /\ user' = user
      BY <1>4 DEF Reset
    <2>2. QED
      BY <1>2, <2>1
  <1>5. CASE SessionActiveChanged
    <2>1. /\ IdleSetMode(NORMAL, active') /\ NORMAL \in Mode
          /\ active' \in BOOLEAN /\ user' = user
      BY <1>5 DEF SessionActiveChanged
    <2>2. QED
      BY <1>2, <2>1
  <1>6. ASSUME NEW v, UserSets(v) PROVE Saved'
    <2>1. mode = NORMAL /\ UNCHANGED <<mode, preDim>>
      BY <1>6 DEF UserSets, MayAdjust
    <2>2. level' = user'
      BY <1>1, <1>6, <2>1 DEF UserSets, BacklightSet
    <2>3. QED
      BY <2>1, <2>2
  <1>7. CASE SetPercentage \/ StepUp \/ StepDown
    BY <1>6, <1>7 DEF SetPercentage, StepUp, StepDown
  <1>8. CASE \/ SuspendWithLidClosed \/ LidClosedExternalMonitor \/ LidOpen
             \/ UNCHANGED vars
    BY <1>8 DEF SuspendWithLidClosed, LidClosedExternalMonitor, LidOpen, vars
  <1>9. QED
    BY <1>3, <1>4, <1>5, <1>7, <1>8 DEF Next, Step

\* When no call fails and nobody else touches the backlight while it is
\* dimmed, the level the user chose is never lost: it is on the screen or it
\* is what idle_set_mode(NORMAL) writes back.
THEOREM BrightnessKept == Spec => []UserLevelKept
  <1> DEFINE CalmSaved == upsets = {} => Saved
  <1>1. Init => CalmSaved
    BY DEF Init, Saved
  <1>2. TypeOK /\ CalmSaved /\ [Next]_vars => CalmSaved'
    BY SavedStep DEF Next, vars
  <1>3. CalmSaved => UserLevelKept
    BY DEF Saved, UserLevelKept
  <1> HIDE DEF CalmSaved
  <1>4. QED
    BY <1>1, <1>2, <1>3, TypeCorrect, PTL DEF Spec

\* A virtual machine never has its panel turned off by an idle mode.
Visible == ~lidClosed /\ (mode = NORMAL \/ IsVM) => panelOn

\* If no call fails no step leaves a session in NORMAL mode in the dark.
LEMMA VisibleStep ==
  ASSUME "fault" \notin upsets, Visible, [Next]_vars
  PROVE  Visible'
  <1> USE DEF Visible
  <1>1. Outcome = {TRUE}
    BY DEF Outcome
  <1>2. ASSUME NEW m \in Mode, NEW act, IdleSetMode(m, act), lidClosed' = lidClosed
        PROVE  Visible'
    <2>1. CASE ~(Deeper(m) /\ act)
      BY <1>2, <2>1 DEF IdleSetMode
    <2>2. CASE IsVM
      BY <1>2, <2>2 DEF IdleSetMode
    <2>3. CASE ~IsVM /\ mode' = m /\ m = NORMAL
      <3>1. EnterNormal \/ UNCHANGED <<mode, panelOn>>
        BY <1>2, <2>3 DEF IdleSetMode, NORMAL, DIM, BLANK, SLEEP
      <3>2. CASE EnterNormal
        <4>1. PanelSet(TRUE)
          BY <3>2 DEF EnterNormal
        <4>2. panelOn' = TRUE
          BY <1>1, <4>1, Zenon DEF PanelSet
        <4>3. QED
          BY <4>2
      <3>3. QED
        BY <1>2, <3>1, <3>2
    <2>4. CASE ~IsVM /\ mode' = m /\ m # NORMAL
      BY <1>2, <2>4
    <2>5. QED
      BY <1>2, <2>1, <2>2, <2>3, <2>4 DEF IdleSetMode
  <1>3. ASSUME NEW m \in Mode, AlarmExpired(m) PROVE Visible'
    BY <1>2, <1>3 DEF AlarmExpired
  <1>4. NORMAL \in Mode
    BY DEF NORMAL, SLEEP, Mode
  <1>5. CASE Reset
    BY <1>2, <1>4, <1>5 DEF Reset
  <1>6. CASE SessionActiveChanged
    BY <1>2, <1>4, <1>6 DEF SessionActiveChanged
  <1>7. CASE SetPercentage \/ StepUp \/ StepDown
    BY <1>7 DEF SetPercentage, StepUp, StepDown, UserSets
  <1>8. CASE SuspendWithLidClosed \/ LidClosedExternalMonitor
    BY <1>8 DEF SuspendWithLidClosed, LidClosedExternalMonitor
  <1>9. CASE LidOpen
    BY <1>1, <1>9 DEF LidOpen, PanelSet
  <1>10. CASE UNCHANGED vars
    BY <1>10 DEF vars
  <1>11. QED
    BY <1>3, <1>5, <1>6, <1>7, <1>8, <1>9, <1>10 DEF Next, Step

\* When no call fails, a session in NORMAL mode with the lid open has its
\* panel on, whatever order lid, idle and session events came in.
THEOREM PanelOn == Spec => []NormalIsVisible
  <1> DEFINE SureVisible == "fault" \notin upsets => Visible
  <1>1. Init => SureVisible
    BY DEF Init, Visible
  <1>2. SureVisible /\ [Next]_vars => SureVisible'
    BY VisibleStep DEF Next, vars
  <1>3. SureVisible => NormalIsVisible
    BY DEF Visible, NormalIsVisible
  <1> HIDE DEF SureVisible
  <1>4. QED
    BY <1>1, <1>2, <1>3, PTL DEF Spec

-----------------------------------------------------------------------------
(* Every behaviour of SmallParts is one of each of its parts.              *)

LEMMA PartIsNotice == AllSpec => Notification!Spec
  <1>1. AllInit => Notification!Init
    BY DEF AllInit
  <1>2. [AllNext]_allVars => [Notification!Next]_Notification!vars
    BY DEF AllNext, allVars, noticeVars, Notification!vars
  <1>3. QED
    BY <1>1, <1>2, PTL DEF AllSpec, Notification!Spec

LEMMA PartIsMounter == AllSpec => Mounter!Spec
  <1>1. AllInit => Mounter!Init
    BY DEF AllInit
  <1>2. [AllNext]_allVars => [Mounter!Next]_Mounter!vars
    BY DEF AllNext, allVars, mountVars, Mounter!vars, Mounter!volumes, Mounter!saver, Mounter!proxies
  <1>3. QED
    BY <1>1, <1>2, PTL DEF AllSpec, Mounter!Spec

LEMMA PartIsSession == AllSpec => Session!Spec
  <1>1. AllInit => Session!Init
    BY DEF AllInit
  <1>2. [AllNext]_allVars => [Session!Next]_Session!vars
    BY DEF AllNext, allVars, sessionVars, Session!vars
  <1>3. QED
    BY <1>1, <1>2, PTL DEF AllSpec, Session!Spec

LEMMA PartIsNames == AllSpec => Names!Spec
  <1>1. AllInit => Names!Init
    BY DEF AllInit
  <1>2. [AllNext]_allVars => [Names!Next]_Names!vars
    BY DEF AllNext, allVars, nameVars, Names!vars
  <1>3. QED
    BY <1>1, <1>2, PTL DEF AllSpec, Names!Spec

LEMMA PartIsAccess == AllSpec => Access!Spec
  <1>1. AllInit => Access!Init
    BY DEF AllInit
  <1>2. [AllNext]_allVars => [Access!Next]_Access!vars
    BY DEF AllNext, allVars, accessVars, Access!vars
  <1>3. QED
    BY <1>1, <1>2, PTL DEF AllSpec, Access!Spec

LEMMA PartIsDatetime == AllSpec => Datetime!Spec
  <1>1. AllInit => Datetime!Init
    BY DEF AllInit
  <1>2. [AllNext]_allVars => [Datetime!Next]_Datetime!vars
    BY DEF AllNext, allVars, timeVars, Datetime!vars
  <1>3. QED
    BY <1>1, <1>2, PTL DEF AllSpec, Datetime!Spec

LEMMA PartIsPointer == AllSpec => Pointer!Spec
  <1>1. AllInit => Pointer!Init
    BY DEF AllInit
  <1>2. [AllNext]_allVars => [Pointer!Next]_Pointer!vars
    BY DEF AllNext, allVars, mouseVars, Pointer!vars
  <1>3. QED
    BY <1>1, <1>2, PTL DEF AllSpec, Pointer!Spec

LEMMA PartIsPublished == AllSpec => Published!Spec
  <1>1. AllInit => Published!Init
    BY DEF AllInit
  <1>2. [AllNext]_allVars => [Published!Next]_Published!vars
    BY DEF AllNext, allVars, xsettingsVars, Published!vars
  <1>3. QED
    BY <1>1, <1>2, PTL DEF AllSpec, Published!Spec

LEMMA PartIsScreen == AllSpec => Spec
  <1>1. AllInit => Init
    BY DEF AllInit
  <1>2. [AllNext]_allVars => [Next]_vars
    BY DEF AllNext, allVars, screenVars
  <1>3. QED
    BY <1>1, <1>2, PTL DEF AllSpec, Spec

-----------------------------------------------------------------------------
(* Queues of messages.                                                     *)

LEMMA AppendAt ==
  ASSUME NEW S, NEW q \in Seq(S), NEW e \in S
  PROVE  /\ Append(q, e) \in Seq(S) /\ Append(q, e) # <<>> /\ Len(Append(q, e)) = Len(q) + 1
         /\ \A i \in 1 .. Len(q) : Append(q, e)[i] = q[i]
         /\ Append(q, e)[Len(q) + 1] = e
         /\ Len(q) \in Nat
  OBVIOUS

LEMMA TailAt ==
  ASSUME NEW S, NEW q \in Seq(S), q # <<>>
  PROVE  /\ Tail(q) \in Seq(S) /\ Len(Tail(q)) = Len(q) - 1 /\ Len(q) \in Nat /\ Len(q) >= 1
         /\ \A i \in 1 .. Len(q) - 1 : Tail(q)[i] = q[i + 1]
         /\ Head(q) = q[1] /\ Head(q) \in S
         /\ Tail(q) = <<>> <=> Len(q) = 1
  <1>1. /\ Tail(q) \in Seq(S) /\ Len(Tail(q)) = Len(q) - 1 /\ Len(q) \in Nat /\ Len(q) >= 1
        /\ \A i \in 1 .. Len(q) - 1 : Tail(q)[i] = q[i + 1]
        /\ Head(q) = q[1] /\ Head(q) \in S
    OBVIOUS
  <1>2. ASSUME NEW r \in Seq(S) PROVE r = <<>> <=> Len(r) = 0
    OBVIOUS
  <1>3. QED
    BY <1>1, <1>2

\* Every set of naturals that is not empty has a least element.
LEMMA Least ==
  ASSUME NEW T \in SUBSET Nat, T # {}
  PROVE  \E x \in T : \A y \in T : x <= y
  <1> DEFINE R == OpToRel(<, Nat)
  <1>1. IsWellFoundedOn(R, Nat)
    BY NatLessThanWellFounded
  <1>2. \A x, y \in Nat : x < y => <<x, y>> \in R
    BY DEF OpToRel
  <1> HIDE DEF R
  <1>3. PICK x \in T : \A y \in T : ~ (<<y, x>> \in R)
    BY <1>1, WFMin
  <1>4. \A y \in T : ~(y < x)
    BY <1>2, <1>3
  <1>5. QED
    BY <1>4

LEMMA FirstAt ==
  ASSUME NEW S, NEW q \in Seq(S), NEW d, NEW k \in 1 .. Len(q), q[k] = d
  PROVE  \E n \in 1 .. Len(q) :
           /\ q[n] = d
           /\ SX!RemoveFirst(q, d) = SubSeq(q, 1, n - 1) \o SubSeq(q, n + 1, Len(q))
  <1> DEFINE I == {i \in 1 .. Len(q) : q[i] = d}
             n == CHOOSE x \in I : \A y \in I : x <= y
  <1>1. I \in SUBSET Nat /\ I # {}
    OBVIOUS
  <1>2. SX!SelectInSeq(q, LAMBDA v : v = d) = SX!Min(I)
    BY <1>1 DEF SX!SelectInSeq
  <1>3. SX!Min(I) = n
    BY DEF SX!Min
  <1> HIDE DEF I
  <1>4. n \in I
    BY <1>1, Least
  <1> HIDE DEF n
  <1>5. SX!RemoveFirst(q, d) = SubSeq(q, 1, n - 1) \o SubSeq(q, n + 1, Len(q))
    BY <1>2, <1>3 DEF SX!RemoveFirst, SX!RemoveAt
  <1>6. QED
    BY <1>4, <1>5 DEF I

LEMMA Cut ==
  ASSUME NEW S, NEW q \in Seq(S), NEW n \in 1 .. Len(q),
         NEW r, r = SubSeq(q, 1, n - 1) \o SubSeq(q, n + 1, Len(q))
  PROVE  /\ r \in Seq(S) /\ Len(r) = Len(q) - 1
         /\ \A i \in 1 .. Len(q) - 1 : r[i] = IF i < n THEN q[i] ELSE q[i + 1]
  <1> DEFINE a == SubSeq(q, 1, n - 1)
             b == SubSeq(q, n + 1, Len(q))
  <1>1. a \in Seq(S) /\ Len(a) = n - 1
    OBVIOUS
  <1>2. b \in Seq(S) /\ Len(b) = Len(q) - n
    OBVIOUS
  <1>3. \A i \in 1 .. n - 1 : a[i] = q[i]
    OBVIOUS
  <1>4. \A i \in 1 .. Len(q) - n : b[i] = q[n + i]
    OBVIOUS
  <1> HIDE DEF a, b
  <1>5. a \o b \in Seq(S) /\ Len(a \o b) = Len(q) - 1
    BY <1>1, <1>2
  <1>6. ASSUME NEW i \in 1 .. Len(q) - 1
        PROVE  (a \o b)[i] = IF i < n THEN q[i] ELSE q[i + 1]
    <2>1. CASE i < n
      BY <1>1, <1>2, <1>3, <2>1
    <2>2. CASE i >= n
      <3>1. i - n + 1 \in 1 .. Len(q) - n /\ n + (i - n + 1) = i + 1 /\ ~(i < n)
        BY <2>2
      <3>2. i - (n - 1) = i - n + 1
        OBVIOUS
      <3>3. (a \o b)[i] = b[i - (n - 1)]
        <4>1. i \in 1 .. Len(a) + Len(b) /\ ~(i <= Len(a))
          BY <1>1, <1>2, <2>2
        <4>2. (a \o b)[i] = b[i - Len(a)]
          BY <1>1, <1>2, <4>1, SMTT(30)
        <4>3. QED
          BY <1>1, <4>2
      <3>4. QED
        BY <1>4, <3>1, <3>2, <3>3
    <2>3. i < n \/ i >= n
      OBVIOUS
    <2>4. QED
      BY <2>1, <2>2, <2>3
  <1>7. QED
    BY <1>5, <1>6 DEF a, b

NoRepeats(q) == \A i, j \in 1 .. Len(q) : q[i] = q[j] => i = j

\* RemoveFirst takes an element out of a sequence without repetitions, and
\* leaves the first one where it is if it is another.
LEMMA Removed ==
  ASSUME NEW S, NEW q \in Seq(S), NoRepeats(q), NEW d
  PROVE  LET r == SX!RemoveFirst(q, d) IN
         /\ r \in Seq(S) /\ NoRepeats(r)
         /\ SX!ToSet(r) = SX!ToSet(q) \ {d}
         /\ q # <<>> /\ Head(q) # d => r # <<>> /\ Head(r) = Head(q)
  <1>1. CASE \A k \in 1 .. Len(q) : q[k] # d
    <2>1. SX!RemoveFirst(q, d) = q
      BY <1>1 DEF SX!RemoveFirst
    <2>2. QED
      BY <1>1, <2>1 DEF SX!ToSet
  <1>2. ASSUME NEW k \in 1 .. Len(q), q[k] = d
        PROVE  LET r == SX!RemoveFirst(q, d) IN
               /\ r \in Seq(S) /\ NoRepeats(r)
               /\ SX!ToSet(r) = SX!ToSet(q) \ {d}
               /\ q # <<>> /\ Head(q) # d => r # <<>> /\ Head(r) = Head(q)
    <2>1. PICK n \in 1 .. Len(q) :
            /\ q[n] = d
            /\ SX!RemoveFirst(q, d) = SubSeq(q, 1, n - 1) \o SubSeq(q, n + 1, Len(q))
      BY <1>2, FirstAt
    <2> DEFINE r == SX!RemoveFirst(q, d)
    <2>2. /\ r \in Seq(S) /\ Len(r) = Len(q) - 1 /\ Len(q) \in Nat
          /\ \A i \in 1 .. Len(q) - 1 : r[i] = IF i < n THEN q[i] ELSE q[i + 1]
      <3>1. r = SubSeq(q, 1, n - 1) \o SubSeq(q, n + 1, Len(q))
        BY <2>1
      <3>2. Len(q) \in Nat
        OBVIOUS
      <3> HIDE DEF r
      <3>3. QED
        BY <3>1, <3>2, Cut
    <2> HIDE DEF r
    <2> DEFINE At(i) == IF i < n THEN i ELSE i + 1
    <2>3. ASSUME NEW i \in 1 .. Len(r)
          PROVE  At(i) \in 1 .. Len(q) /\ At(i) # n /\ r[i] = q[At(i)]
      BY <2>2
    <2>4. /\ NoRepeats(r)
          /\ \A i \in 1 .. Len(r) : r[i] # d /\ \E j \in 1 .. Len(q) : r[i] = q[j]
      <3>1. ASSUME NEW i \in 1 .. Len(r), NEW j \in 1 .. Len(r), r[i] = r[j] PROVE i = j
        <4>1. At(i) = At(j)
          BY <2>3, <3>1 DEF NoRepeats
        <4>2. QED
          BY <2>2, <4>1
      <3>2. ASSUME NEW i \in 1 .. Len(r) PROVE r[i] # d
        BY <2>1, <2>3, <3>2 DEF NoRepeats
      <3>3. QED
        BY <2>3, <3>1, <3>2 DEF NoRepeats
    <2>5. ASSUME NEW j \in 1 .. Len(q), q[j] # d PROVE \E i \in 1 .. Len(r) : r[i] = q[j]
      <3>1. CASE j < n
        BY <2>2, <3>1
      <3>2. CASE j > n
        <4>1. j - 1 \in 1 .. Len(r) /\ r[j - 1] = q[j]
          BY <2>2, <3>2
        <4>2. QED
          BY <4>1
      <3>3. QED
        BY <2>1, <2>5, <3>1, <3>2
    <2>6. SX!ToSet(r) = SX!ToSet(q) \ {d}
      <3>1. DOMAIN r = 1 .. Len(r) /\ DOMAIN q = 1 .. Len(q)
        BY <2>2
      <3>2. \A e \in SX!ToSet(r) : e \in SX!ToSet(q) /\ e # d
        BY <2>4, <3>1 DEF SX!ToSet
      <3>3. \A e \in SX!ToSet(q) : e # d => e \in SX!ToSet(r)
        BY <2>5, <3>1 DEF SX!ToSet
      <3>4. d \notin SX!ToSet(r)
        BY <3>2
      <3>5. QED
        BY <3>2, <3>3, <3>4
    <2>7. ASSUME Head(q) # d PROVE r # <<>> /\ Head(r) = Head(q)
      <3>1. n # 1 /\ Len(r) >= 1 /\ r[1] = q[1]
        BY <2>1, <2>2, <2>7
      <3>2. QED
        BY <2>2, <3>1
    <2>8. QED
      BY <2>2, <2>4, <2>6, <2>7 DEF r
  <1>3. QED
    BY <1>1, <1>2

-----------------------------------------------------------------------------
(* The battery notification.                                               *)

\* Notifications are numbered as they are made, and every object there is
\* belongs to one that is shown or whose closing is not dispatched yet.
NoticeInv ==
  /\ made \in Nat
  /\ shown \cup closing \subseteq 1 .. made
  /\ current \in 0 .. made
  /\ Notification!NoDangling
  /\ Notification!AliveAccounted

LEMMA NoticeStep == NoticeInv /\ [Notification!Next]_Notification!vars => NoticeInv'
  <1> SUFFICES ASSUME NoticeInv, [Notification!Next]_Notification!vars PROVE NoticeInv'
    OBVIOUS
  <1> USE DEF NoticeInv, Notification!NoDangling, Notification!AliveAccounted, Notification!None
  <1>1. CASE Notification!Warn
    <2>1. made + 1 \notin shown \cup closing
      OBVIOUS
    <2>2. PICK ok \in BOOLEAN : Notification!Create(made + 1, ok)
      BY <1>1 DEF Notification!Warn
    <2>3. made' = made + 1 /\ closing' = closing \cup Notification!Closes
      BY <1>1 DEF Notification!Warn
    <2>4. Notification!Closes \subseteq shown
      BY DEF Notification!Closes
    <2>5. CASE ok
      BY <2>1, <2>2, <2>3, <2>4, <2>5 DEF Notification!Create
    <2>6. CASE ~ok
      BY <2>1, <2>2, <2>3, <2>4, <2>6 DEF Notification!Create
    <2>7. QED
      BY <2>5, <2>6
  <1>2. CASE Notification!Hide
    BY <1>2 DEF Notification!Hide, Notification!Closes
  <1>3. ASSUME NEW n \in Notification!Notice, Notification!Dismiss(n)
        PROVE  NoticeInv'
    BY <1>3 DEF Notification!Dismiss
  <1>4. ASSUME NEW n \in Notification!Notice, Notification!Closed(n)
        PROVE  NoticeInv'
    BY <1>4 DEF Notification!Closed
  <1>5. CASE UNCHANGED Notification!vars
    BY <1>5 DEF Notification!vars
  <1>6. QED
    BY <1>1, <1>2, <1>3, <1>4, <1>5 DEF Notification!Next, Notification!Rest

\* The pointer to the battery notification never dangles and no object is
\* leaked, however many notifications there are and however their closings,
\* dismissals and failures cross.
THEOREM NoticesAccounted == AllSpec => []NoticeAccounted
  <1>1. Notification!Init => NoticeInv
    BY DEF Notification!Init, NoticeInv, Notification!NoDangling, Notification!AliveAccounted,
       Notification!None
  <1>2. Notification!Spec => []NoticeInv
    BY <1>1, NoticeStep, PTL DEF Notification!Spec
  <1>3. NoticeInv => NoticeAccounted
    BY DEF NoticeInv, NoticeAccounted
  <1>4. QED
    BY <1>2, <1>3, PartIsNotice, PTL

-----------------------------------------------------------------------------
(* The state of the session.                                               *)

Message == [kind : {"reply", "ActiveChanged"}, active : BOOLEAN] \cup [kind : {"error"}]
IsSignal(m) == m.kind = "ActiveChanged"
Signals == \A i \in 1 .. Len(messages) : IsSignal(messages[i])

\* The answer to IsActive is one of the messages, the others are signals.
Answered ==
  \E i \in 1 .. Len(messages) :
    /\ ~IsSignal(messages[i])
    /\ \A j \in 1 .. Len(messages) : j # i => IsSignal(messages[j])

Knows == state = Session!State(isActive)

\* The last message under way tells how the session is, and if there is none a
\* manager that listens to the signals knows it.  With logind the manager knows
\* from the read on, unless a switch fell before the flush.
SessionInv ==
  /\ isActive \in BOOLEAN /\ missed \in BOOLEAN /\ asked \in BOOLEAN /\ readable \in BOOLEAN
  /\ messages \in Seq(Message)
  /\ source = "logind" <=> at \in {"poll", "flush"}
  /\ at \in {"poll", "flush", "manager", "path", "session", "IsActive", "connected", "failed"}
  /\ at \in {"poll", "flush", "manager", "path", "session"} => ~asked /\ messages = <<>>
  /\ at = "flush" \/ (at = "poll" /\ ~readable) => Knows \/ missed
  /\ at \in {"connected", "failed"} => ~asked /\ Signals
  /\ at = "IsActive" => IF asked THEN Signals ELSE Answered
  /\ at # "failed" /\ messages # <<>> =>
       \/ messages[Len(messages)].kind = "error"
       \/ messages[Len(messages)].active = isActive
  /\ at = "connected" /\ messages = <<>> => Knows

LEMMA SessionStep == SessionInv /\ [Session!Next]_Session!vars => SessionInv'
  <1> SUFFICES ASSUME SessionInv, [Session!Next]_Session!vars PROVE SessionInv'
    OBVIOUS
  <1> USE DEF SessionInv
  <1>1. CASE Session!Switch
    <2>1. /\ isActive' = ~isActive /\ readable' = (source = "logind")
          /\ missed' = (missed \/ at = "flush") /\ UNCHANGED <<source, state, at, asked>>
      BY <1>1 DEF Session!Switch
    <2>2. CASE at \in {"IsActive", "connected"}
      <3> DEFINE m == Session!ActiveChanged(isActive')
      <3>1. messages' = Append(messages, m)
        BY <1>1, <2>2 DEF Session!Switch
      <3>2. m \in Message /\ IsSignal(m) /\ m.active = isActive'
        BY <2>1 DEF Message, Session!ActiveChanged, IsSignal
      <3> HIDE DEF m
      <3>3. /\ messages' \in Seq(Message) /\ messages' # <<>> /\ Len(messages') = Len(messages) + 1
            /\ \A i \in 1 .. Len(messages) : messages'[i] = messages[i]
            /\ messages'[Len(messages')] = m /\ Len(messages) \in Nat
        BY <3>1, <3>2, AppendAt
      <3>4. Signals => Signals'
        BY <3>2, <3>3 DEF Signals
      <3>5. Answered => Answered'
        BY <3>2, <3>3 DEF Answered
      <3>6. QED
        BY <2>1, <2>2, <3>2, <3>3, <3>4, <3>5
    <2>3. CASE at \notin {"IsActive", "connected"}
      <3>1. messages' = messages
        BY <1>1, <2>3 DEF Session!Switch
      <3>2. QED
        BY <2>1, <2>3, <3>1 DEF Signals, Answered
    <2>4. QED
      BY <2>2, <2>3
  <1>2. CASE Session!SessionsChanged
    BY <1>2 DEF Session!SessionsChanged, Session!SetState, Signals, Answered, Knows
  <1>3. CASE Session!MonitorFlush
    BY <1>3 DEF Session!MonitorFlush, Signals, Answered, Knows
  <1>4. CASE Session!GotManagerProxy \/ Session!GotSessionPath \/ Session!GotSessionProxy
    <2>1. /\ UNCHANGED <<source, isActive, state, readable, missed, messages>>
          /\ at \in {"manager", "path", "session"}
          /\ \/ at' = "failed" /\ asked' = asked
             \/ at' \in {"path", "session"} /\ asked' = FALSE
             \/ at' = "IsActive" /\ asked' = TRUE
      BY <1>4 DEF Session!GotManagerProxy, Session!GotSessionPath, Session!GotSessionProxy,
         Session!Proceed
    <2>2. messages' = <<>> /\ asked = FALSE /\ source # "logind" /\ messages' \in Seq(Message)
      BY <2>1
    <2>3. Signals'
      BY <2>2 DEF Signals
    <2>4. \/ at' \in {"failed", "path", "session"} /\ asked' = FALSE
          \/ at' = "IsActive" /\ asked' = TRUE
      BY <2>1, <2>2
    <2>5. isActive' \in BOOLEAN /\ missed' \in BOOLEAN /\ readable' \in BOOLEAN /\ source' # "logind"
      BY <2>1, <2>2
    <2>6. QED
      BY <2>2, <2>3, <2>4, <2>5
  <1>5. CASE Session!AnswerIsActive
    <2>1. asked /\ asked' = FALSE /\ UNCHANGED <<source, isActive, state, at, readable, missed>>
      BY <1>5 DEF Session!AnswerIsActive
    <2>2. at = "IsActive" /\ Signals
      BY <2>1
    <2>3. PICK m \in Message :
            /\ messages' = Append(messages, m) /\ ~IsSignal(m)
            /\ m.kind = "error" \/ m.active = isActive
      BY <1>5 DEF Session!AnswerIsActive, Session!Reply, Message, IsSignal
    <2>4. /\ messages' \in Seq(Message) /\ messages' # <<>> /\ Len(messages') = Len(messages) + 1
          /\ \A i \in 1 .. Len(messages) : messages'[i] = messages[i]
          /\ messages'[Len(messages')] = m /\ Len(messages) \in Nat
      BY <2>3, AppendAt
    <2>5. Answered'
      BY <2>2, <2>3, <2>4 DEF Answered, Signals
    <2>6. messages'[Len(messages')].kind = "error" \/ messages'[Len(messages')].active = isActive'
      BY <2>1, <2>3, <2>4
    <2>7. QED
      BY <2>1, <2>2, <2>4, <2>5, <2>6
  <1>6. ASSUME messages # <<>>, messages' = Tail(messages)
        PROVE  /\ messages' \in Seq(Message) /\ Head(messages) = messages[1] /\ Head(messages) \in Message
               /\ Len(messages') = Len(messages) - 1 /\ Len(messages) \in Nat /\ Len(messages) >= 1
               /\ \A i \in 1 .. Len(messages') : messages'[i] = messages[i + 1]
               /\ messages' # <<>> => messages'[Len(messages')] = messages[Len(messages)]
               /\ messages' = <<>> => Len(messages) = 1
               /\ Signals => Signals'
               /\ Answered /\ ~IsSignal(Head(messages)) => Signals'
               /\ Answered /\ IsSignal(Head(messages)) => Answered' /\ messages' # <<>>
    <2>1. /\ messages' \in Seq(Message) /\ Len(messages') = Len(messages) - 1
          /\ Len(messages) \in Nat /\ Len(messages) >= 1
          /\ \A i \in 1 .. Len(messages) - 1 : messages'[i] = messages[i + 1]
          /\ Head(messages) = messages[1] /\ Head(messages) \in Message
          /\ messages' = <<>> <=> Len(messages) = 1
      BY <1>6, TailAt
    <2>2. Signals => Signals'
      BY <2>1 DEF Signals
    <2>3. ASSUME Answered, ~IsSignal(Head(messages)) PROVE Signals'
      BY <2>1, <2>3 DEF Answered, Signals
    <2>4. ASSUME Answered, IsSignal(Head(messages)) PROVE Answered' /\ messages' # <<>>
      <3>1. PICK i \in 1 .. Len(messages) :
              /\ ~IsSignal(messages[i])
              /\ \A j \in 1 .. Len(messages) : j # i => IsSignal(messages[j])
        BY <2>4 DEF Answered
      <3>2. i # 1 /\ i - 1 \in 1 .. Len(messages')
        BY <2>1, <2>4, <3>1
      <3>3. ~IsSignal(messages'[i - 1])
        BY <2>1, <3>1, <3>2
      <3>4. \A j \in 1 .. Len(messages') : j # i - 1 => IsSignal(messages'[j])
        BY <2>1, <3>1, <3>2
      <3>5. QED
        BY <2>1, <3>2, <3>3, <3>4 DEF Answered
    <2>5. QED
      BY <2>1, <2>2, <2>3, <2>4
  <1>7. CASE Session!IsActiveCb
    <2>1. /\ at = "IsActive" /\ messages # <<>> /\ Head(messages).kind \in {"reply", "error"}
          /\ messages' = Tail(messages) /\ UNCHANGED <<source, isActive, readable, missed, asked>>
      BY <1>7 DEF Session!IsActiveCb
    <2>2. ~IsSignal(Head(messages))
      BY <2>1 DEF IsSignal
    <2>3. ~asked /\ Answered
      BY <1>6, <2>1, <2>2 DEF Signals
    <2>4. Signals'
      BY <1>6, <2>1, <2>2, <2>3
    <2>5. CASE Head(messages).kind = "reply"
      <3>1. state' = Session!State(Head(messages).active) /\ at' = "connected"
        BY <1>7, <2>5 DEF Session!IsActiveCb, Session!SetState
      <3>2. messages' = <<>> => state' = Session!State(isActive)
        BY <1>6, <2>1, <2>5, <3>1
      <3>3. QED
        BY <1>6, <2>1, <2>3, <2>4, <3>1, <3>2 DEF Knows, Session!State
    <2>6. CASE Head(messages).kind = "error"
      BY <1>6, <1>7, <2>1, <2>3, <2>4, <2>6 DEF Session!IsActiveCb
    <2>7. QED
      BY <2>1, <2>5, <2>6
  <1>8. CASE Session!SessionProxySignalCb
    <2>1. /\ messages # <<>> /\ IsSignal(Head(messages)) /\ messages' = Tail(messages)
          /\ UNCHANGED <<source, isActive, at, readable, missed, asked>>
      BY <1>8 DEF Session!SessionProxySignalCb, IsSignal
    <2>2. CASE at = "connected"
      <3>1. state' = Session!State(Head(messages).active)
        BY <1>8, <2>2 DEF Session!SessionProxySignalCb, Session!SetState
      <3>2. messages' = <<>> => state' = Session!State(isActive)
        BY <1>6, <2>1, <2>2, <3>1 DEF IsSignal
      <3>3. QED
        BY <1>6, <2>1, <2>2, <3>1, <3>2 DEF Knows, Session!State
    <2>3. CASE at # "connected"
      <3>1. state' = state
        BY <1>8, <2>3 DEF Session!SessionProxySignalCb
      <3>2. QED
        BY <1>6, <2>1, <2>3, <3>1
    <2>4. QED
      BY <2>2, <2>3
  <1>9. CASE UNCHANGED Session!vars
    BY <1>9 DEF Session!vars, Signals, Answered, Knows
  <1>10. QED
    BY <1>1, <1>2, <1>3, <1>4, <1>5, <1>7, <1>8, <1>9 DEF Session!Next

LEMMA SessionKept == AllSpec => []SessionInv
  <1>1. Session!Init => SessionInv
    <2> SUFFICES ASSUME Session!Init PROVE SessionInv
      OBVIOUS
    <2>1. /\ isActive \in BOOLEAN /\ missed = FALSE /\ asked = FALSE /\ readable = FALSE
          /\ messages = <<>> /\ messages \in Seq(Message)
      BY DEF Session!Init
    <2>2. CASE source = "logind"
      <3>1. at = "poll" /\ Knows
        BY <2>2 DEF Session!Init, Knows
      <3>2. QED
        BY <2>1, <2>2, <3>1 DEF SessionInv
    <2>3. CASE source # "logind"
      <3>1. at = "manager"
        BY <2>3 DEF Session!Init
      <3>2. QED
        BY <2>1, <2>3, <3>1 DEF SessionInv
    <2>4. QED
      BY <2>2, <2>3
  <1>2. Session!Spec => []SessionInv
    BY <1>1, SessionStep, PTL DEF Session!Spec
  <1>3. QED
    BY <1>2, PartIsSession, PTL

LEMMA SessionAgrees == AllSpec => []Session!Agrees
  <1>1. SessionInv => Session!Agrees
    BY DEF SessionInv, Session!Agrees, Session!Quiet, Knows
  <1>2. QED
    BY <1>1, SessionKept, PTL

-----------------------------------------------------------------------------
(* The names of the daemons.                                               *)

Told == {"acquired", "lost", "stop"}
BusOK(x) ==
  /\ x.queue \in [Names!Name -> Seq(Daemon \cup {Foreign})]
  /\ x.inbox \in [Daemon -> Seq(Told)]
  /\ \A n \in Names!Name : NoRepeats(x.queue[n])

\* From x to y at most d has left queues: the others own what they owned, and
\* nobody is told anything but that it owns a name now.
Left(d, x, y) ==
  /\ \A n \in Names!Name :
       /\ SX!ToSet(y.queue[n]) \subseteq SX!ToSet(x.queue[n])
       /\ x.queue[n] # <<>> /\ Head(x.queue[n]) # d =>
            y.queue[n] # <<>> /\ Head(y.queue[n]) = Head(x.queue[n])
  /\ \A e \in Daemon :
       /\ SX!ToSet(x.inbox[e]) \subseteq SX!ToSet(y.inbox[e])
       /\ SX!ToSet(y.inbox[e]) \subseteq SX!ToSet(x.inbox[e]) \cup {"acquired"}

LEMMA InAppend ==
  ASSUME NEW S, NEW q \in Seq(S), NEW e
  PROVE  SX!ToSet(Append(q, e)) = SX!ToSet(q) \cup {e}
  <1>1. /\ DOMAIN q = 1 .. Len(q) /\ Len(q) \in Nat
        /\ DOMAIN Append(q, e) = 1 .. Len(q) + 1
        /\ \A i \in 1 .. Len(q) : Append(q, e)[i] = q[i]
        /\ Append(q, e)[Len(q) + 1] = e
    OBVIOUS
  <1>2. SX!ToSet(q) \subseteq SX!ToSet(Append(q, e))
    BY <1>1 DEF SX!ToSet
  <1>3. e \in SX!ToSet(Append(q, e))
    BY <1>1 DEF SX!ToSet
  <1>4. ASSUME NEW i \in 1 .. Len(q) + 1 PROVE Append(q, e)[i] \in SX!ToSet(q) \cup {e}
    <2>1. i \in 1 .. Len(q) \/ i = Len(q) + 1
      BY <1>1
    <2>2. QED
      BY <1>1, <2>1 DEF SX!ToSet
  <1>5. QED
    BY <1>1, <1>2, <1>3, <1>4 DEF SX!ToSet

LEMMA InTail ==
  ASSUME NEW S, NEW q \in Seq(S), q # <<>>
  PROVE  /\ SX!ToSet(Tail(q)) \subseteq SX!ToSet(q)
         /\ SX!ToSet(q) \subseteq SX!ToSet(Tail(q)) \cup {Head(q)}
         /\ Tail(q) \in Seq(S) /\ Head(q) \in SX!ToSet(q)
  <1>1. /\ DOMAIN q = 1 .. Len(q) /\ Len(q) \in Nat /\ Len(q) >= 1 /\ Head(q) = q[1]
        /\ DOMAIN Tail(q) = 1 .. Len(q) - 1 /\ Tail(q) \in Seq(S)
        /\ \A i \in 1 .. Len(q) - 1 : Tail(q)[i] = q[i + 1]
    OBVIOUS
  <1>2. SX!ToSet(Tail(q)) \subseteq SX!ToSet(q)
    BY <1>1 DEF SX!ToSet
  <1>3. ASSUME NEW i \in 1 .. Len(q) PROVE q[i] \in SX!ToSet(Tail(q)) \cup {Head(q)}
    <2>1. i = 1 \/ (i - 1 \in 1 .. Len(q) - 1 /\ (i - 1) + 1 = i)
      BY <1>1
    <2>2. QED
      BY <1>1, <2>1 DEF SX!ToSet
  <1>4. QED
    BY <1>1, <1>2, <1>3 DEF SX!ToSet

LEMMA OneLeft ==
  ASSUME ForeignAssumption, NEW d, NEW n \in Names!Name, NEW x, BusOK(x),
         NEW y, y = Names!Unown(d, n, x)
  PROVE  /\ BusOK(y) /\ Left(d, x, y)
         /\ d \notin SX!ToSet(y.queue[n])
         /\ \A m \in Names!Name : m # n => y.queue[m] = x.queue[m]
  <1> DEFINE rest == SX!RemoveFirst(x.queue[n], d)
  <1>1. Names!RemoveFirst(x.queue[n], d) = rest
    BY DEF Names!RemoveFirst, SX!RemoveFirst, Names!RemoveAt, SX!RemoveAt,
       Names!SelectInSeq, SX!SelectInSeq, Names!Min, SX!Min
  <1>2. PICK next : y = [queue |-> [x.queue EXCEPT ![n] = rest],
                         inbox |-> [e \in Daemon |-> IF e = next THEN Append(x.inbox[e], "acquired")
                                                     ELSE x.inbox[e]]]
    BY <1>1 DEF Names!Unown
  <1>3. x.queue[n] \in Seq(Daemon \cup {Foreign}) /\ NoRepeats(x.queue[n])
    BY DEF BusOK
  <1>4. /\ rest \in Seq(Daemon \cup {Foreign}) /\ NoRepeats(rest)
        /\ SX!ToSet(rest) = SX!ToSet(x.queue[n]) \ {d}
        /\ x.queue[n] # <<>> /\ Head(x.queue[n]) # d => rest # <<>> /\ Head(rest) = Head(x.queue[n])
    <2> HIDE DEF rest
    <2>1. QED
      BY <1>3, Removed DEF rest
  <1> HIDE DEF rest
  <1>5. /\ y.queue \in [Names!Name -> Seq(Daemon \cup {Foreign})]
        /\ y.queue[n] = rest /\ \A m \in Names!Name : m # n => y.queue[m] = x.queue[m]
    BY <1>2, <1>4 DEF BusOK
  <1>6. ASSUME NEW e \in Daemon
        PROVE  /\ y.inbox[e] \in Seq(Told)
               /\ SX!ToSet(x.inbox[e]) \subseteq SX!ToSet(y.inbox[e])
               /\ SX!ToSet(y.inbox[e]) \subseteq SX!ToSet(x.inbox[e]) \cup {"acquired"}
    <2>1. x.inbox[e] \in Seq(Told) /\ "acquired" \in Told
      BY DEF BusOK, Told
    <2>2. y.inbox[e] = IF e = next THEN Append(x.inbox[e], "acquired") ELSE x.inbox[e]
      BY <1>2
    <2>3. SX!ToSet(Append(x.inbox[e], "acquired")) = SX!ToSet(x.inbox[e]) \cup {"acquired"}
      BY <2>1, InAppend
    <2>4. Append(x.inbox[e], "acquired") \in Seq(Told)
      BY <2>1
    <2>5. QED
      BY <2>1, <2>2, <2>3, <2>4
  <1>7. y.inbox \in [Daemon -> Seq(Told)]
    <2>1. y.inbox = [e \in Daemon |-> y.inbox[e]]
      BY <1>2
    <2>2. QED
      BY <1>6, <2>1
  <1>8. BusOK(y)
    BY <1>4, <1>5, <1>7 DEF BusOK
  <1>9. Left(d, x, y)
    BY <1>4, <1>5, <1>6 DEF Left
  <1>10. QED
    BY <1>4, <1>5, <1>8, <1>9

LEMMA BothLeft ==
  ASSUME ForeignAssumption, NEW d, NEW x, BusOK(x),
         NEW z, z = Names!Unown(d, "GSD", Names!Unown(d, "CSD", x))
  PROVE  /\ BusOK(z) /\ Left(d, x, z)
         /\ \A n \in Names!Name : d \notin SX!ToSet(z.queue[n])
  <1> DEFINE y == Names!Unown(d, "CSD", x)
  <1>1. z = Names!Unown(d, "GSD", y)
    OBVIOUS
  <1>2. "CSD" \in Names!Name /\ "GSD" \in Names!Name
    BY DEF Names!Name
  <1>3. /\ BusOK(y) /\ Left(d, x, y) /\ d \notin SX!ToSet(y.queue["CSD"])
    <2>1. PICK t : t = y
      OBVIOUS
    <2> HIDE DEF y
    <2>2. QED
      BY <1>2, OneLeft DEF y
  <1> HIDE DEF y
  <1>4. /\ BusOK(z) /\ Left(d, y, z) /\ d \notin SX!ToSet(z.queue["GSD"])
        /\ z.queue["CSD"] = y.queue["CSD"]
    BY <1>1, <1>2, <1>3, OneLeft
  <1>5. Left(d, x, z)
    <2>1. \A n \in Names!Name :
            /\ SX!ToSet(z.queue[n]) \subseteq SX!ToSet(x.queue[n])
            /\ x.queue[n] # <<>> /\ Head(x.queue[n]) # d =>
                 z.queue[n] # <<>> /\ Head(z.queue[n]) = Head(x.queue[n])
      BY <1>3, <1>4 DEF Left
    <2>2. \A e \in Daemon :
            /\ SX!ToSet(x.inbox[e]) \subseteq SX!ToSet(z.inbox[e])
            /\ SX!ToSet(z.inbox[e]) \subseteq SX!ToSet(x.inbox[e]) \cup {"acquired"}
      BY <1>3, <1>4 DEF Left
    <2>3. QED
      BY <2>1, <2>2 DEF Left
  <1>6. QED
    BY <1>3, <1>4, <1>5 DEF Names!Name

\* A daemon waits for names it has asked for, and only until it is told to stop
\* or ends; each of them it owns unless it will be told that it lost it.  The
\* session manager knows it only after it has asked for both.
DaemonInv(d) ==
  /\ \A n \in Names!Name :
       d \in SX!ToSet(name_queue[n]) =>
         n \in names_asked[d] /\ ~ignore_name_lost[d] /\ main_stage[d] \in {"main", "quit"}
  /\ \A n \in names_asked[d] :
       ~ignore_name_lost[d] /\ main_stage[d] = "main" =>
         \/ name_queue[n] # <<>> /\ Head(name_queue[n]) = d
         \/ "lost" \in SX!ToSet(bus_messages[d])
  /\ main_stage[d] \in {"off", "start"} => names_asked[d] = {}
  /\ \/ "stop" \in SX!ToSet(bus_messages[d])
     \/ ignore_name_lost[d]
     \/ registered[d] = "connected"
     => names_asked[d] = Names!Name

NamesTypes ==
  /\ main_stage \in [Daemon -> Names!Stage]
  /\ names_asked \in [Daemon -> SUBSET Names!Name]
  /\ ignore_name_lost \in [Daemon -> BOOLEAN]
  /\ registered \in [Daemon -> {"no", "asked", "connected"}]
  /\ BusOK(Names!Bus)

NamesInv == NamesTypes /\ \A d \in Daemon : DaemonInv(d)

\* A daemon that leaves its queues, as it ends or is told to stop.
LEMMA LeftStep ==
  ASSUME ForeignAssumption, NamesInv, NEW d \in Daemon \cup {Foreign},
         NEW x, BusOK(x), BusOK(Names!Bus'), Left(d, x, Names!Bus'),
         x.queue = name_queue,
         \A e \in Daemon : e # d => x.inbox[e] = bus_messages[e],
         \A e \in Daemon : e # d => main_stage'[e] = main_stage[e]
                                    /\ ignore_name_lost'[e] = ignore_name_lost[e],
         UNCHANGED <<names_asked, registered>>
  PROVE  \A e \in Daemon : e # d => DaemonInv(e)'
  <1> SUFFICES ASSUME NEW e \in Daemon, e # d PROVE DaemonInv(e)'
    OBVIOUS
  <1>1. Names!Bus'.queue = name_queue' /\ Names!Bus'.inbox = bus_messages'
    BY DEF Names!Bus
  <1>2. DaemonInv(e)
    BY DEF NamesInv
  <1>3. \A n \in Names!Name :
          /\ SX!ToSet(name_queue'[n]) \subseteq SX!ToSet(name_queue[n])
          /\ name_queue[n] # <<>> /\ Head(name_queue[n]) # d =>
               name_queue'[n] # <<>> /\ Head(name_queue'[n]) = Head(name_queue[n])
    BY <1>1 DEF Left
  <1>4. /\ SX!ToSet(bus_messages[e]) \subseteq SX!ToSet(bus_messages'[e])
        /\ SX!ToSet(bus_messages'[e]) \subseteq SX!ToSet(bus_messages[e]) \cup {"acquired"}
    BY <1>1 DEF Left
  <1>5. names_asked[e] \subseteq Names!Name
    BY DEF NamesInv, NamesTypes
  <1>6. \A n \in Names!Name :
          e \in SX!ToSet(name_queue'[n]) =>
            n \in names_asked'[e] /\ ~ignore_name_lost'[e] /\ main_stage'[e] \in {"main", "quit"}
    BY <1>2, <1>3 DEF DaemonInv
  <1>7. \A n \in names_asked'[e] :
          ~ignore_name_lost'[e] /\ main_stage'[e] = "main" =>
            \/ name_queue'[n] # <<>> /\ Head(name_queue'[n]) = e
            \/ "lost" \in SX!ToSet(bus_messages'[e])
    BY <1>2, <1>3, <1>4, <1>5 DEF DaemonInv
  <1>8. /\ main_stage'[e] \in {"off", "start"} => names_asked'[e] = {}
        /\ \/ "stop" \in SX!ToSet(bus_messages'[e])
           \/ ignore_name_lost'[e]
           \/ registered'[e] = "connected"
           => names_asked'[e] = Names!Name
    BY <1>2, <1>4 DEF DaemonInv
  <1>9. QED
    BY <1>6, <1>7, <1>8 DEF DaemonInv

\* What a daemon takes from its own messages.
LEMMA Dispatched ==
  ASSUME NamesTypes, NEW d \in Daemon, bus_messages[d] # <<>>,
         NEW f, f = [bus_messages EXCEPT ![d] = Tail(@)]
  PROVE  /\ f \in [Daemon -> Seq(Told)]
         /\ \A e \in Daemon : e # d => f[e] = bus_messages[e]
         /\ SX!ToSet(f[d]) \subseteq SX!ToSet(bus_messages[d])
         /\ SX!ToSet(bus_messages[d]) \subseteq SX!ToSet(f[d]) \cup {Head(bus_messages[d])}
         /\ Head(bus_messages[d]) \in SX!ToSet(bus_messages[d])
  <1>1. bus_messages \in [Daemon -> Seq(Told)]
    BY DEF NamesTypes, BusOK, Names!Bus
  <1>2. bus_messages[d] \in Seq(Told) /\ f[d] = Tail(bus_messages[d])
    BY <1>1
  <1>3. /\ SX!ToSet(Tail(bus_messages[d])) \subseteq SX!ToSet(bus_messages[d])
        /\ SX!ToSet(bus_messages[d]) \subseteq SX!ToSet(Tail(bus_messages[d])) \cup {Head(bus_messages[d])}
        /\ Tail(bus_messages[d]) \in Seq(Told) /\ Head(bus_messages[d]) \in SX!ToSet(bus_messages[d])
    BY <1>2, InTail
  <1>4. QED
    BY <1>1, <1>2, <1>3

LEMMA NamesStep ==
  ASSUME ForeignAssumption, NamesInv, [Names!Next]_Names!vars
  PROVE  NamesInv'
  <1>1. /\ NamesTypes
        /\ name_queue \in [Names!Name -> Seq(Daemon \cup {Foreign})]
        /\ bus_messages \in [Daemon -> Seq(Told)]
        /\ \A n \in Names!Name : NoRepeats(name_queue[n])
    BY DEF NamesInv, NamesTypes, BusOK, Names!Bus
  <1>2. ASSUME name_queue' \in [Names!Name -> Seq(Daemon \cup {Foreign})],
               bus_messages' \in [Daemon -> Seq(Told)],
               \A n \in Names!Name : NoRepeats(name_queue'[n])
        PROVE  BusOK(Names!Bus')
    BY <1>2 DEF BusOK, Names!Bus
  <1>3. Names!Bus.queue = name_queue /\ Names!Bus.inbox = bus_messages /\ BusOK(Names!Bus)
    BY DEF Names!Bus, NamesInv, NamesTypes
  <1>4. CASE Names!ForeignLeaves
    <2>1. /\ name_queue' = Names!Unown(Foreign, "GSD", Names!Bus).queue
          /\ bus_messages' = Names!Unown(Foreign, "GSD", Names!Bus).inbox
          /\ UNCHANGED <<main_stage, names_asked, ignore_name_lost, handler, registered>>
      BY <1>4 DEF Names!ForeignLeaves, Names!BusIs
    <2>2. PICK y : y = Names!Unown(Foreign, "GSD", Names!Bus)
      OBVIOUS
    <2>3. BusOK(y) /\ Left(Foreign, Names!Bus, y)
      BY <1>3, <2>2, OneLeft DEF Names!Name
    <2>4. y.queue = Names!Bus'.queue /\ y.inbox = Names!Bus'.inbox
      BY <2>1, <2>2 DEF Names!Bus
    <2>5. BusOK(Names!Bus') /\ Left(Foreign, Names!Bus, Names!Bus')
      BY <2>3, <2>4 DEF BusOK, Left
    <2>6. \A e \in Daemon : e # Foreign => DaemonInv(e)'
      BY <1>3, <2>1, <2>5, LeftStep
    <2>7. \A e \in Daemon : e # Foreign
      BY DEF ForeignAssumption
    <2>8. QED
      BY <1>1, <2>1, <2>5, <2>6, <2>7 DEF NamesInv, NamesTypes
  <1>5. ASSUME NEW d \in Daemon, NEW x, BusOK(x), x.queue = name_queue,
               \A e \in Daemon : e # d => x.inbox[e] = bus_messages[e],
               SX!ToSet(x.inbox[d]) \subseteq SX!ToSet(bus_messages[d]),
               Names!BusIs(Names!Unown(d, "GSD", Names!Unown(d, "CSD", x))),
               main_stage' \in [Daemon -> Names!Stage], ignore_name_lost' \in [Daemon -> BOOLEAN],
               \A e \in Daemon : e # d => main_stage'[e] = main_stage[e]
                                          /\ ignore_name_lost'[e] = ignore_name_lost[e],
               UNCHANGED <<names_asked, registered>>,
               \/ main_stage'[d] \in {"done", "killed"} /\ ignore_name_lost'[d] = ignore_name_lost[d]
               \/ main_stage'[d] = "main" /\ ignore_name_lost'[d] /\ names_asked[d] = Names!Name
        PROVE  NamesInv'
    <2>1. PICK z : z = Names!Unown(d, "GSD", Names!Unown(d, "CSD", x))
      OBVIOUS
    <2>2. /\ BusOK(z) /\ Left(d, x, z)
          /\ \A n \in Names!Name : d \notin SX!ToSet(z.queue[n])
      BY <1>5, <2>1, BothLeft
    <2>3. z.queue = name_queue' /\ z.inbox = bus_messages'
      BY <1>5, <2>1 DEF Names!BusIs
    <2>4. z.queue = Names!Bus'.queue /\ z.inbox = Names!Bus'.inbox
      BY <2>3 DEF Names!Bus
    <2>5. BusOK(Names!Bus') /\ Left(d, x, Names!Bus')
      BY <2>2, <2>4 DEF BusOK, Left
    <2>6. \A e \in Daemon : e # d => DaemonInv(e)'
      BY <1>5, <2>5, LeftStep
    <2>7. DaemonInv(d)'
      <3>1. \A n \in Names!Name : d \notin SX!ToSet(name_queue'[n])
        BY <2>2, <2>3
      <3>2. SX!ToSet(bus_messages'[d]) \subseteq SX!ToSet(bus_messages[d]) \cup {"acquired"}
        BY <1>5, <2>2, <2>3 DEF Left
      <3>3. \/ "stop" \in SX!ToSet(bus_messages'[d])
            \/ ignore_name_lost'[d]
            \/ registered'[d] = "connected"
            => names_asked'[d] = Names!Name
        BY <1>5, <3>2 DEF NamesInv, DaemonInv
      <3>4. QED
        BY <1>5, <3>1, <3>3 DEF DaemonInv
    <2>8. QED
      BY <1>1, <1>5, <2>5, <2>6, <2>7 DEF NamesInv, NamesTypes
  <1>6. ASSUME NEW d \in Daemon, Names!Start(d) \/ Names!EnterMain(d)
        PROVE  NamesInv'
    <2>1. /\ main_stage[d] \in {"off", "start"}
          /\ \/ main_stage' = [main_stage EXCEPT ![d] = "start"]
             \/ main_stage' = [main_stage EXCEPT ![d] = "main"]
          /\ UNCHANGED <<names_asked, name_queue, bus_messages, ignore_name_lost, registered>>
      BY <1>6 DEF Names!Start, Names!EnterMain, Names!Goes
    <2>2. main_stage' \in [Daemon -> Names!Stage]
      BY <1>1, <2>1 DEF NamesTypes, Names!Stage
    <2>3. main_stage \in [Daemon -> Names!Stage]
      BY <1>1 DEF NamesTypes
    <2>4. \A e \in Daemon : e # d => main_stage'[e] = main_stage[e]
      BY <2>1, <2>3
    <2>5. main_stage'[d] \in {"start", "main"}
      BY <2>1, <2>3
    <2>6. ASSUME NEW e \in Daemon PROVE DaemonInv(e)'
      <3>1. DaemonInv(e)
        BY DEF NamesInv
      <3>2. CASE e = d
        BY <2>1, <2>5, <3>1, <3>2 DEF DaemonInv
      <3>3. CASE e # d
        BY <2>1, <2>4, <3>1, <3>3 DEF DaemonInv
      <3>4. QED
        BY <3>2, <3>3
    <2>7. QED
      BY <1>1, <1>2, <2>1, <2>2, <2>6 DEF NamesInv, NamesTypes
  <1>7. ASSUME NEW d \in Daemon, Names!RequestName(d)
        PROVE  NamesInv'
    <2>1. PICK n \in Names!Name : n = IF "CSD" \in names_asked[d] THEN "GSD" ELSE "CSD"
      BY DEF Names!Name
    <2>2. PICK m \in {"acquired", "lost"} : m = IF name_queue[n] = <<>> THEN "acquired" ELSE "lost"
      OBVIOUS
    <2>3. /\ main_stage[d] = "main" /\ names_asked[d] # Names!Name
          /\ names_asked' = [names_asked EXCEPT ![d] = @ \cup {n}]
          /\ name_queue' = [name_queue EXCEPT ![n] = Append(@, d)]
          /\ bus_messages' = [bus_messages EXCEPT ![d] = Append(@, m)]
          /\ UNCHANGED <<main_stage, ignore_name_lost, registered>>
      BY <1>7, <2>1, <2>2 DEF Names!RequestName
    <2>4. n \notin names_asked[d] /\ names_asked[d] \subseteq Names!Name
      BY <1>1, <2>1, <2>3 DEF NamesTypes, Names!Name
    <2>5. /\ DaemonInv(d) /\ d \notin SX!ToSet(name_queue[n])
          /\ ~ignore_name_lost[d] /\ registered[d] # "connected"
          /\ "stop" \notin SX!ToSet(bus_messages[d])
      BY <2>3, <2>4 DEF NamesInv, DaemonInv
    <2>6. name_queue[n] \in Seq(Daemon \cup {Foreign}) /\ name_queue'[n] = Append(name_queue[n], d)
      BY <1>1, <2>3
    <2>7. /\ SX!ToSet(name_queue'[n]) = SX!ToSet(name_queue[n]) \cup {d}
          /\ name_queue'[n] \in Seq(Daemon \cup {Foreign})
      BY <2>6, InAppend
    <2>8. NoRepeats(name_queue'[n])
      <3>1. \A i \in 1 .. Len(name_queue[n]) : name_queue[n][i] # d
        BY <2>5, <2>6 DEF SX!ToSet
      <3>2. NoRepeats(name_queue[n])
        BY <1>1
      <3>3. QED
        BY <2>6, <3>1, <3>2 DEF NoRepeats
    <2>9. /\ bus_messages' \in [Daemon -> Seq(Told)]
          /\ SX!ToSet(bus_messages'[d]) = SX!ToSet(bus_messages[d]) \cup {m}
          /\ \A e \in Daemon : e # d => bus_messages'[e] = bus_messages[e]
      <3>1. bus_messages[d] \in Seq(Told) /\ m \in Told
        BY <1>1 DEF Told
      <3>2. /\ SX!ToSet(Append(bus_messages[d], m)) = SX!ToSet(bus_messages[d]) \cup {m}
            /\ Append(bus_messages[d], m) \in Seq(Told)
        BY <3>1, InAppend
      <3>3. QED
        BY <1>1, <2>3, <3>2
    <2>10. /\ name_queue' \in [Names!Name -> Seq(Daemon \cup {Foreign})]
           /\ \A k \in Names!Name : k # n => name_queue'[k] = name_queue[k]
      BY <1>1, <2>3, <2>7
    <2>11. /\ names_asked' \in [Daemon -> SUBSET Names!Name]
           /\ names_asked'[d] = names_asked[d] \cup {n}
           /\ \A e \in Daemon : e # d => names_asked'[e] = names_asked[e]
      BY <1>1, <2>3 DEF NamesTypes
    <2>12. ASSUME NEW k \in Names!Name, name_queue[k] # <<>>
           PROVE  name_queue'[k] # <<>> /\ Head(name_queue'[k]) = Head(name_queue[k])
      <3>1. CASE k = n
        BY <2>6, <2>12, <3>1
      <3>2. CASE k # n
        BY <2>10, <2>12, <3>2
      <3>3. QED
        BY <3>1, <3>2
    <2>13. ASSUME NEW e \in Daemon, e # d PROVE DaemonInv(e)'
      <3>1. DaemonInv(e) /\ names_asked[e] \subseteq Names!Name
        BY <1>1 DEF NamesInv, NamesTypes
      <3>2. \A k \in Names!Name : e \in SX!ToSet(name_queue'[k]) => e \in SX!ToSet(name_queue[k])
        BY <2>7, <2>10, <2>13
      <3>3. \A k \in names_asked'[e] :
              ~ignore_name_lost'[e] /\ main_stage'[e] = "main" =>
                \/ name_queue'[k] # <<>> /\ Head(name_queue'[k]) = e
                \/ "lost" \in SX!ToSet(bus_messages'[e])
        BY <2>3, <2>9, <2>11, <2>12, <2>13, <3>1 DEF DaemonInv
      <3>4. QED
        BY <2>3, <2>9, <2>11, <2>13, <3>1, <3>2, <3>3 DEF DaemonInv
    <2>14. DaemonInv(d)'
      <3>1. \A k \in Names!Name :
              d \in SX!ToSet(name_queue'[k]) =>
                k \in names_asked'[d] /\ ~ignore_name_lost'[d] /\ main_stage'[d] \in {"main", "quit"}
        BY <2>3, <2>5, <2>7, <2>10, <2>11 DEF DaemonInv
      <3>2. \/ name_queue'[n] # <<>> /\ Head(name_queue'[n]) = d
            \/ "lost" \in SX!ToSet(bus_messages'[d])
        <4>1. CASE name_queue[n] = <<>>
          BY <2>6, <4>1
        <4>2. CASE name_queue[n] # <<>>
          BY <2>2, <2>9, <4>2
        <4>3. QED
          BY <4>1, <4>2
      <3>3. ASSUME NEW k \in names_asked[d]
            PROVE  \/ name_queue'[k] # <<>> /\ Head(name_queue'[k]) = d
                   \/ "lost" \in SX!ToSet(bus_messages'[d])
        <4>1. \/ name_queue[k] # <<>> /\ Head(name_queue[k]) = d
              \/ "lost" \in SX!ToSet(bus_messages[d])
          BY <2>3, <2>5 DEF DaemonInv
        <4>2. k \in Names!Name
          BY <2>4
        <4>3. QED
          BY <2>9, <2>12, <4>1, <4>2
      <3>4. "stop" \notin SX!ToSet(bus_messages'[d])
        BY <2>5, <2>9
      <3>5. QED
        BY <2>3, <2>5, <2>11, <3>1, <3>2, <3>3, <3>4 DEF DaemonInv
    <2>15. QED
      <3>1. BusOK(Names!Bus')
        BY <1>1, <1>2, <2>8, <2>9, <2>10
      <3>2. QED
        BY <1>1, <2>3, <2>11, <2>13, <2>14, <3>1 DEF NamesInv, NamesTypes
  <1>8. ASSUME NEW d \in Daemon, Names!NameAcquired(d) \/ Names!NameLost(d)
        PROVE  NamesInv'
    <2>1. /\ bus_messages[d] # <<>> /\ bus_messages' = [bus_messages EXCEPT ![d] = Tail(@)]
          /\ UNCHANGED <<names_asked, name_queue, ignore_name_lost, registered>>
          /\ \/ main_stage' = main_stage /\ Head(bus_messages[d]) = "acquired"
             \/ main_stage' = main_stage /\ ignore_name_lost[d]
             \/ main_stage' = [main_stage EXCEPT ![d] = "quit"]
          /\ main_stage[d] = "main"
      BY <1>8 DEF Names!NameAcquired, Names!NameLost, Names!Dispatch, Names!Goes
    <2>2. /\ bus_messages' \in [Daemon -> Seq(Told)]
          /\ \A e \in Daemon : e # d => bus_messages'[e] = bus_messages[e]
          /\ SX!ToSet(bus_messages'[d]) \subseteq SX!ToSet(bus_messages[d])
          /\ SX!ToSet(bus_messages[d]) \subseteq SX!ToSet(bus_messages'[d]) \cup {Head(bus_messages[d])}
      BY <1>1, <2>1, Dispatched
    <2>3. main_stage \in [Daemon -> Names!Stage]
      BY <1>1 DEF NamesTypes
    <2>4. /\ main_stage' \in [Daemon -> Names!Stage]
          /\ \A e \in Daemon : e # d => main_stage'[e] = main_stage[e]
          /\ main_stage'[d] \in {"main", "quit"}
          /\ main_stage'[d] = "main" => Head(bus_messages[d]) = "acquired" \/ ignore_name_lost[d]
      BY <2>1, <2>3 DEF Names!Stage
    <2>5. ASSUME NEW e \in Daemon, e # d PROVE DaemonInv(e)'
      BY <2>1, <2>2, <2>4, <2>5 DEF NamesInv, DaemonInv
    <2>6. DaemonInv(d)'
      <3>1. DaemonInv(d)
        BY DEF NamesInv
      <3>2. QED
        BY <2>1, <2>2, <2>4, <3>1 DEF DaemonInv
    <2>7. QED
      <3>1. BusOK(Names!Bus')
        BY <1>1, <1>2, <2>1, <2>2
      <3>2. QED
        BY <1>1, <2>1, <2>4, <2>5, <2>6, <3>1 DEF NamesInv, NamesTypes
  <1>9. ASSUME NEW d \in Daemon, Names!RegisterClient(d) \/ Names!GotClientProxy(d)
        PROVE  NamesInv'
    <2>1. /\ UNCHANGED <<main_stage, names_asked, name_queue, bus_messages, ignore_name_lost>>
          /\ \/ registered' = [registered EXCEPT ![d] = "asked"]
             \/ /\ registered' = [registered EXCEPT ![d] = "connected"]
                /\ names_asked[d] = Names!Name
      BY <1>9 DEF Names!RegisterClient, Names!GotClientProxy
    <2>2. registered \in [Daemon -> {"no", "asked", "connected"}]
      BY <1>1 DEF NamesTypes
    <2>3. /\ registered' \in [Daemon -> {"no", "asked", "connected"}]
          /\ \A e \in Daemon : registered'[e] = "connected" =>
               registered[e] = "connected" \/ names_asked[e] = Names!Name
      BY <2>1, <2>2
    <2>4. \A e \in Daemon : DaemonInv(e)'
      BY <2>1, <2>3 DEF NamesInv, DaemonInv
    <2>5. QED
      BY <1>1, <1>2, <2>1, <2>3, <2>4 DEF NamesInv, NamesTypes
  <1>10. ASSUME NEW d \in Daemon, Names!SessionStops(d)
         PROVE  NamesInv'
    <2>1. /\ UNCHANGED <<main_stage, names_asked, name_queue, ignore_name_lost, registered>>
          /\ bus_messages' = [bus_messages EXCEPT ![d] = Append(@, "stop")]
          /\ registered[d] = "connected"
      BY <1>10 DEF Names!SessionStops
    <2>2. bus_messages[d] \in Seq(Told) /\ "stop" \in Told
      BY <1>1 DEF Told
    <2>3. /\ SX!ToSet(Append(bus_messages[d], "stop")) = SX!ToSet(bus_messages[d]) \cup {"stop"}
          /\ Append(bus_messages[d], "stop") \in Seq(Told)
      BY <2>2, InAppend
    <2>4. /\ bus_messages' \in [Daemon -> Seq(Told)]
          /\ \A e \in Daemon : e # d => bus_messages'[e] = bus_messages[e]
          /\ SX!ToSet(bus_messages'[d]) = SX!ToSet(bus_messages[d]) \cup {"stop"}
      BY <1>1, <2>1, <2>3
    <2>5. ASSUME NEW e \in Daemon, e # d PROVE DaemonInv(e)'
      BY <2>1, <2>4, <2>5 DEF NamesInv, DaemonInv
    <2>6. DaemonInv(d)'
      <3>1. DaemonInv(d)
        BY DEF NamesInv
      <3>2. QED
        BY <2>1, <2>4, <3>1 DEF DaemonInv
    <2>7. QED
      <3>1. BusOK(Names!Bus')
        BY <1>1, <1>2, <2>1, <2>4
      <3>2. QED
        BY <1>1, <2>1, <2>5, <2>6, <3>1 DEF NamesInv, NamesTypes
  <1>11. ASSUME NEW d \in Daemon, Names!DoStop(d)
         PROVE  NamesInv'
    <2>1. PICK f : f = [bus_messages EXCEPT ![d] = Tail(@)]
      OBVIOUS
    <2>2. PICK x : x = [Names!Bus EXCEPT !.inbox[d] = Tail(@)]
      OBVIOUS
    <2>3. x.queue = name_queue /\ x.inbox = f
      BY <2>1, <2>2 DEF Names!Bus
    <2>4. /\ bus_messages[d] # <<>> /\ Head(bus_messages[d]) = "stop" /\ main_stage[d] = "main"
          /\ Names!BusIs(Names!Unown(d, "GSD", Names!Unown(d, "CSD", x)))
          /\ ignore_name_lost' = [ignore_name_lost EXCEPT ![d] = TRUE]
          /\ UNCHANGED <<main_stage, names_asked, registered>>
      BY <1>11, <2>2 DEF Names!DoStop
    <2>5. /\ f \in [Daemon -> Seq(Told)]
          /\ \A e \in Daemon : e # d => f[e] = bus_messages[e]
          /\ SX!ToSet(f[d]) \subseteq SX!ToSet(bus_messages[d])
          /\ "stop" \in SX!ToSet(bus_messages[d])
      BY <1>1, <2>1, <2>4, Dispatched
    <2>6. BusOK(x)
      BY <1>1, <2>3, <2>5 DEF BusOK
    <2>7. names_asked[d] = Names!Name
      BY <2>5 DEF NamesInv, DaemonInv
    <2>8. main_stage \in [Daemon -> Names!Stage] /\ ignore_name_lost \in [Daemon -> BOOLEAN]
      BY <1>1 DEF NamesTypes
    <2>9. /\ ignore_name_lost' \in [Daemon -> BOOLEAN] /\ ignore_name_lost'[d]
          /\ \A e \in Daemon : e # d => ignore_name_lost'[e] = ignore_name_lost[e]
      BY <2>4, <2>8
    <2>10. QED
      BY <1>5, <2>3, <2>4, <2>5, <2>6, <2>7, <2>8, <2>9
  <1>12. ASSUME NEW d \in Daemon, Names!Terminate(d), main_stage' = [main_stage EXCEPT ![d] = "quit"],
                UNCHANGED <<name_queue, bus_messages>>
         PROVE  NamesInv'
    <2>1. /\ main_stage[d] \in {"start", "main"}
          /\ UNCHANGED <<names_asked, name_queue, bus_messages, ignore_name_lost, registered>>
      BY <1>12 DEF Names!Terminate
    <2>2. main_stage \in [Daemon -> Names!Stage]
      BY <1>1 DEF NamesTypes
    <2>3. /\ main_stage' \in [Daemon -> Names!Stage] /\ main_stage'[d] = "quit"
          /\ \A e \in Daemon : e # d => main_stage'[e] = main_stage[e]
      BY <1>12, <2>2 DEF Names!Stage
    <2>4. ASSUME NEW e \in Daemon, e # d PROVE DaemonInv(e)'
      BY <2>1, <2>3, <2>4 DEF NamesInv, DaemonInv
    <2>5. DaemonInv(d)'
      <3>1. DaemonInv(d)
        BY DEF NamesInv
      <3>2. QED
        BY <2>1, <2>3, <3>1 DEF DaemonInv
    <2>6. QED
      BY <1>1, <1>2, <2>1, <2>3, <2>4, <2>5 DEF NamesInv, NamesTypes
  <1>13. ASSUME NEW d \in Daemon, NEW to \in {"done", "killed"},
                main_stage' = [main_stage EXCEPT ![d] = to],
                Names!BusIs(Names!Unown(d, "GSD", Names!Unown(d, "CSD", Names!Bus))),
                UNCHANGED <<names_asked, ignore_name_lost, registered>>
         PROVE  NamesInv'
    <2>1. main_stage \in [Daemon -> Names!Stage] /\ ignore_name_lost \in [Daemon -> BOOLEAN]
      BY <1>1 DEF NamesTypes
    <2>2. /\ main_stage' \in [Daemon -> Names!Stage] /\ main_stage'[d] \in {"done", "killed"}
          /\ \A e \in Daemon : e # d => main_stage'[e] = main_stage[e]
      BY <1>13, <2>1 DEF Names!Stage
    <2>3. QED
      BY <1>3, <1>5, <1>13, <2>1, <2>2
  <1>14. ASSUME NEW d \in Daemon, Names!Terminate(d) \/ Names!Finish(d)
         PROVE  NamesInv'
    <2>1. \/ /\ Names!Terminate(d) /\ main_stage' = [main_stage EXCEPT ![d] = "quit"]
             /\ UNCHANGED <<name_queue, bus_messages>>
          \/ /\ \/ main_stage' = [main_stage EXCEPT ![d] = "killed"]
                \/ main_stage' = [main_stage EXCEPT ![d] = "done"]
             /\ Names!BusIs(Names!Unown(d, "GSD", Names!Unown(d, "CSD", Names!Bus)))
             /\ UNCHANGED <<names_asked, ignore_name_lost, registered>>
      BY <1>14 DEF Names!Terminate, Names!Finish, Names!Goes
    <2>2. QED
      BY <1>12, <1>13, <2>1
  <1>15. CASE UNCHANGED Names!vars
    BY <1>1, <1>2, <1>15 DEF Names!vars, NamesInv, NamesTypes, DaemonInv
  <1>16. QED
    BY <1>4, <1>6, <1>7, <1>8, <1>9, <1>10, <1>11, <1>14, <1>15 DEF Names!Next

LEMMA NamesKept == AllSpec => []NamesInv
  <1>1. Names!Init => NamesInv
    <2> SUFFICES ASSUME Names!Init PROVE NamesInv
      OBVIOUS
    <2>1. /\ main_stage = [d \in Daemon |-> "off"] /\ names_asked = [d \in Daemon |-> {}]
          /\ bus_messages = [d \in Daemon |-> <<>>]
          /\ ignore_name_lost = [d \in Daemon |-> FALSE] /\ registered = [d \in Daemon |-> "no"]
      BY DEF Names!Init
    <2>2. PICK q \in {<<>>, <<Foreign>>} :
            name_queue = [n \in Names!Name |-> IF n = "GSD" THEN q ELSE <<>>]
      BY DEF Names!Init
    <2>3. /\ <<>> \in Seq(Daemon \cup {Foreign}) /\ <<Foreign>> \in Seq(Daemon \cup {Foreign})
          /\ <<>> \in Seq(Told)
      OBVIOUS
    <2>4. NoRepeats(<<>>) /\ NoRepeats(<<Foreign>>)
      BY DEF NoRepeats
    <2>5. BusOK(Names!Bus)
      BY <2>1, <2>2, <2>3, <2>4 DEF BusOK, Names!Bus
    <2>6. NamesTypes
      BY <2>1, <2>5 DEF NamesTypes, Names!Stage
    <2>7. SX!ToSet(<<>>) = {} /\ SX!ToSet(<<Foreign>>) = {Foreign}
      BY DEF SX!ToSet
    <2>8. \A d \in Daemon, n \in Names!Name : d \notin SX!ToSet(name_queue[n])
      BY <2>2, <2>7, ForeignAssumption DEF ForeignAssumption
    <2>9. \A d \in Daemon : DaemonInv(d)
      BY <2>1, <2>7, <2>8 DEF DaemonInv
    <2>10. QED
      BY <2>6, <2>9 DEF NamesInv
  <1>2. NamesInv /\ [Names!Next]_Names!vars => NamesInv'
    BY NamesStep, ForeignAssumption
  <1>3. Names!Spec => []NamesInv
    BY <1>1, <1>2, PTL DEF Names!Spec
  <1>4. QED
    BY <1>3, PartIsNames, PTL

LEMMA NamesAgree == AllSpec => []Names!OneDaemon
  <1>1. NamesInv => Names!OneDaemon
    <2> SUFFICES ASSUME NamesInv, NEW d \in Daemon, NEW n \in Names!Name
                 PROVE  /\ Names!Settled(d) => IF ignore_name_lost[d] THEN d \notin SX!ToSet(name_queue[n])
                                               ELSE Names!Owns(d, n)
                        /\ main_stage[d] \in {"done", "killed"} => d \notin SX!ToSet(name_queue[n])
      BY DEF Names!OneDaemon, Names!ToSet, SX!ToSet
    <2>1. SX!ToSet(<<>>) = {}
      BY DEF SX!ToSet
    <2>2. QED
      BY <2>1 DEF NamesInv, DaemonInv, Names!Settled, Names!Owns
  <1>2. QED
    BY <1>1, NamesKept, PTL

\* However the daemons of a session race for their names and are told of it, a
\* daemon that has settled owns both, or none if it was told to stop, and one
\* that has ended waits for none; and it knows whether its session is active.
THEOREM DaemonsSettle == AllSpec => []DaemonSettled
  BY SessionAgrees, NamesAgree, PTL DEF DaemonSettled

-----------------------------------------------------------------------------
(* What the automounter knows of the screen.                               *)

News ==
  {Mounter!Named(k) : k \in {"appeared", "vanished", "error"}}
    \cup {Mounter!ActiveChanged(b) : b \in BOOLEAN} \cup {Mounter!Reply(b) : b \in BOOLEAN}

\* Before position i of q every message of N is followed by one of C, and there
\* is one of C if b holds: b is the effect of one of N that was dispatched.
Followed(q, i, N, C, b) ==
  /\ b => \E j \in 1 .. i - 1 : q[j] \in C
  /\ \A k \in 1 .. i - 1 : q[k] \in N => \E j \in k + 1 .. i - 1 : q[j] \in C

LEMMA FollowedKept ==
  ASSUME NEW q \in Seq(News), NEW m \in News, NEW N, NEW C, NEW b,
         NEW i \in 1 .. Len(q) + 1, Followed(q, i, N, C, b)
  PROVE  Followed(Append(q, m), i, N, C, b)
  <1> DEFINE r == Append(q, m)
  <1>1. Len(q) \in Nat /\ \A j \in 1 .. Len(q) : r[j] = q[j]
    OBVIOUS
  <1> HIDE DEF r
  <1>2. \A j \in 1 .. i - 1 : r[j] = q[j]
    BY <1>1
  <1>3. \A k \in 1 .. i - 1 : \A j \in k + 1 .. i - 1 : j \in 1 .. i - 1
    BY <1>1
  <1>4. Followed(r, i, N, C, b)
    BY <1>2, <1>3 DEF Followed
  <1>5. QED
    BY <1>4 DEF r

LEMMA FollowedOn ==
  ASSUME NEW q \in Seq(News), NEW m \in News, NEW N, NEW C, NEW b, m \notin N,
         Followed(q, Len(q) + 1, N, C, b) \/ m \in C
  PROVE  Followed(Append(q, m), Len(q) + 2, N, C, b)
  <1> DEFINE r == Append(q, m)
             n == Len(q)
  <1>1. n \in Nat /\ r[n + 1] = m /\ \A j \in 1 .. n : r[j] = q[j]
    OBVIOUS
  <1> HIDE DEF r, n
  <1>2. n + 2 - 1 = n + 1 /\ n + 1 - 1 = n
    BY <1>1
  <1>3. ASSUME Followed(q, n + 1, N, C, b) PROVE Followed(r, n + 2, N, C, b)
    <2>1. /\ b => \E j \in 1 .. n : q[j] \in C
          /\ \A k \in 1 .. n : q[k] \in N => \E j \in k + 1 .. n : q[j] \in C
      BY <1>1, <1>2, <1>3 DEF Followed
    <2>2. ASSUME NEW k \in 1 .. n + 1, r[k] \in N PROVE \E j \in k + 1 .. n + 1 : r[j] \in C
      <3>1. k # n + 1
        BY <1>1, <2>2
      <3>2. k \in 1 .. n /\ q[k] \in N
        BY <1>1, <2>2, <3>1
      <3>3. PICK j \in k + 1 .. n : q[j] \in C
        BY <2>1, <3>2
      <3>4. j \in k + 1 .. n + 1 /\ r[j] = q[j]
        BY <1>1, <3>2, <3>3
      <3>5. QED
        BY <3>3, <3>4
    <2>3. b => \E j \in 1 .. n + 1 : r[j] \in C
      BY <1>1, <2>1
    <2>4. QED
      BY <1>1, <1>2, <2>2, <2>3 DEF Followed
  <1>4. ASSUME m \in C PROVE Followed(r, n + 2, N, C, b)
    <2>1. n + 1 \in 1 .. n + 1 /\ r[n + 1] \in C
      BY <1>1, <1>4
    <2>2. ASSUME NEW k \in 1 .. n + 1, r[k] \in N PROVE \E j \in k + 1 .. n + 1 : r[j] \in C
      <3>1. k # n + 1
        BY <1>1, <2>2
      <3>2. n + 1 \in k + 1 .. n + 1
        BY <1>1, <3>1
      <3>3. QED
        BY <2>1, <3>2
    <2>3. QED
      BY <1>1, <1>2, <2>1, <2>2 DEF Followed
  <1>5. QED
    BY <1>3, <1>4 DEF r, n

LEMMA FollowedTail ==
  ASSUME NEW q \in Seq(News), q # <<>>, NEW N, NEW C, NEW b \in BOOLEAN, NEW c \in BOOLEAN,
         c => (b /\ Head(q) \notin C) \/ Head(q) \in N
  PROVE  /\ Tail(q) \in Seq(News) /\ Len(q) = Len(Tail(q)) + 1 /\ \A i \in 1 .. Len(Tail(q)) : Tail(q)[i] = q[i + 1]
         /\ \A i \in 1 .. Len(Tail(q)) + 1 : Followed(q, i + 1, N, C, b) => Followed(Tail(q), i, N, C, c)
  <1> DEFINE r == Tail(q)
  <1>1. /\ r \in Seq(News) /\ Len(q) = Len(r) + 1 /\ Len(r) \in Nat /\ Head(q) = q[1]
        /\ \A i \in 1 .. Len(r) : r[i] = q[i + 1]
    OBVIOUS
  <1> HIDE DEF r
  <1>2. ASSUME NEW i \in 1 .. Len(r) + 1, Followed(q, i + 1, N, C, b) PROVE Followed(r, i, N, C, c)
    <2>1. /\ b => \E j \in 1 .. i : q[j] \in C
          /\ \A k \in 1 .. i : q[k] \in N => \E j \in k + 1 .. i : q[j] \in C
      <3>1. i + 1 - 1 = i
        BY <1>1
      <3>2. QED
        BY <1>2, <3>1 DEF Followed
    <2>2. ASSUME NEW j \in 2 .. i PROVE j - 1 \in 1 .. i - 1 /\ r[j - 1] = q[j]
      BY <1>1
    <2>3. ASSUME c PROVE \E j \in 1 .. i - 1 : r[j] \in C
      <3>1. CASE Head(q) \in N
        <4>1. 1 \in 1 .. i /\ q[1] \in N
          BY <1>1, <3>1
        <4>2. PICK j \in 1 + 1 .. i : q[j] \in C
          BY <2>1, <4>1
        <4>3. j \in 2 .. i
          OBVIOUS
        <4>4. QED
          BY <2>2, <4>2, <4>3
      <3>2. CASE b /\ Head(q) \notin C
        <4>1. PICK j \in 1 .. i : q[j] \in C
          BY <2>1, <3>2
        <4>2. j \in 2 .. i
          BY <1>1, <3>2, <4>1
        <4>3. QED
          BY <2>2, <4>1, <4>2
      <3>3. QED
        BY <2>3, <3>1, <3>2
    <2>4. ASSUME NEW k \in 1 .. i - 1, r[k] \in N PROVE \E j \in k + 1 .. i - 1 : r[j] \in C
      <3>1. k + 1 \in 1 .. i /\ q[k + 1] \in N
        BY <1>1, <2>4
      <3>2. PICK j \in k + 1 + 1 .. i : q[j] \in C
        BY <2>1, <3>1
      <3>3. j \in 2 .. i /\ j - 1 \in k + 1 .. i - 1
        BY <1>1
      <3>4. QED
        BY <2>2, <3>2, <3>3
    <2>5. QED
      BY <2>3, <2>4 DEF Followed
  <1>3. QED
    BY <1>1, <1>2 DEF r

Comes == {m \in News : m.kind = "appeared"}
Leaves == {m \in News : m.kind = "vanished"}
SaysLocked == {m \in News : m.kind \in {"ActiveChanged", "GetActive"} /\ m.active = TRUE}
SaysUnlocked == {m \in News : m.kind \in {"ActiveChanged", "GetActive"} /\ m.active = FALSE}

\* What ends a wait, with the queue and without looking at it.
Clears == Comes \cup Leaves \cup {m \in News : m.kind = "ActiveChanged" /\ m.active = FALSE}
Forgets == Comes \cup {m \in News : m.kind = "GetActive" /\ m.active = FALSE}

\* By position i the manager will take the screen for unlocked; at the end of
\* the messages it will take it for locked; an appearance follows the last
\* time the screensaver vanished.
Quieted(i) == Followed(inbox, i, SaysLocked, Clears, screensaver_active)
Settling == Followed(inbox, Len(inbox) + 1, SaysUnlocked, SaysLocked, ~screensaver_active)
Back == Followed(inbox, Len(inbox) + 1, Leaves, Comes, FALSE)
NoneAppears == \A i \in 1 .. Len(inbox) : inbox[i] \notin Comes

LockTypes ==
  /\ inbox \in Seq(News)
  /\ owner \in BOOLEAN /\ locked \in BOOLEAN /\ ss_proxy \in BOOLEAN /\ screensaver_active \in BOOLEAN
  /\ making \in Nat /\ connected \in Nat /\ asking \in Nat

\* While the screen is unlocked what the messages say of a locked one is taken
\* back; it was so when the screensaver appeared or answered that it is
\* unlocked, so that neither of these ends a wait.  A manager with the proxy of
\* a locked screen hears of the lock.
LockInv ==
  /\ LockTypes
  /\ locked => owner
  /\ screensaver_active \/ ss_proxy => connected > 0
  /\ \A i \in 1 .. Len(inbox) : inbox[i] \in Forgets => Quieted(i)
  /\ ~locked => Quieted(Len(inbox) + 1)
  /\ owner => Back
  /\ owner /\ making = 0 /\ NoneAppears =>
       /\ ss_proxy
       /\ locked /\ asking = 0 => Settling

lockVars == <<owner, locked, inbox, making, ss_proxy, connected, asking, screensaver_active>>

LEMMA Kinds ==
  /\ \A k \in {"appeared", "vanished", "error"} : Mounter!Named(k) \in News /\ Mounter!Named(k).kind = k
  /\ \A b \in BOOLEAN :
       /\ Mounter!ActiveChanged(b) \in News /\ Mounter!Reply(b) \in News
       /\ Mounter!ActiveChanged(b).kind = "ActiveChanged" /\ Mounter!ActiveChanged(b).active = b
       /\ Mounter!Reply(b).kind = "GetActive" /\ Mounter!Reply(b).active = b
  /\ \A m \in News : m.kind \in {"ActiveChanged", "GetActive"} => m.active \in BOOLEAN
  /\ Clears \cap SaysLocked = {}
  <1>1. \A k : Mounter!Named(k).kind = k
    BY DEF Mounter!Named
  <1>2. \A b : /\ Mounter!ActiveChanged(b).kind = "ActiveChanged" /\ Mounter!ActiveChanged(b).active = b
               /\ Mounter!Reply(b).kind = "GetActive" /\ Mounter!Reply(b).active = b
    BY DEF Mounter!ActiveChanged, Mounter!Reply
  <1>3. /\ \A k \in {"appeared", "vanished", "error"} : Mounter!Named(k) \in News
        /\ \A b \in BOOLEAN : Mounter!ActiveChanged(b) \in News /\ Mounter!Reply(b) \in News
    BY DEF News
  <1>4. \A m \in News : m.kind \in {"ActiveChanged", "GetActive"} => m.active \in BOOLEAN
    BY <1>1, <1>2 DEF News
  <1>5. Clears \cap SaysLocked = {}
    BY DEF Clears, SaysLocked, Comes, Leaves
  <1>6. QED
    BY <1>1, <1>2, <1>3, <1>4, <1>5

LEMMA Sent ==
  ASSUME LockTypes, UNCHANGED screensaver_active, NEW m \in News, inbox' = Append(inbox, m)
  PROVE  /\ inbox' \in Seq(News) /\ Len(inbox') = Len(inbox) + 1 /\ inbox'[Len(inbox) + 1] = m
         /\ \A i \in 1 .. Len(inbox) : inbox'[i] = inbox[i]
         /\ NoneAppears' => NoneAppears /\ m \notin Comes
         /\ \A i \in 1 .. Len(inbox) + 1 : Quieted(i) => Quieted(i)'
         /\ m \notin SaysLocked /\ (Quieted(Len(inbox) + 1) \/ m \in Clears) => Quieted(Len(inbox) + 1)'
         /\ m \notin Leaves /\ (Back \/ m \in Comes) => Back'
         /\ m \notin SaysUnlocked /\ (Settling \/ m \in SaysLocked) => Settling'
  <1> USE DEF LockTypes
  <1>1. /\ inbox' \in Seq(News) /\ Len(inbox') = Len(inbox) + 1 /\ inbox'[Len(inbox) + 1] = m
        /\ \A i \in 1 .. Len(inbox) : inbox'[i] = inbox[i]
        /\ \A i \in 1 .. Len(inbox) + 1 : Quieted(i) => Quieted(i)'
        /\ m \notin SaysLocked /\ (Quieted(Len(inbox) + 1) \/ m \in Clears) => Quieted(Len(inbox) + 1)'
    <2>1. PICK b \in BOOLEAN : b = screensaver_active
      OBVIOUS
    <2>2. Clears \cap SaysLocked = {}
      BY Kinds
    <2>3. /\ inbox' \in Seq(News) /\ Len(inbox') = Len(inbox) + 1 /\ inbox'[Len(inbox) + 1] = m
          /\ \A i \in 1 .. Len(inbox) : inbox'[i] = inbox[i]
          /\ Len(inbox) \in Nat
      BY AppendAt
    <2>4. \A i \in 1 .. Len(inbox) + 1 :
            Followed(inbox, i, SaysLocked, Clears, b) =>
            Followed(Append(inbox, m), i, SaysLocked, Clears, b)
      BY FollowedKept
    <2>5. m \notin SaysLocked /\ (Followed(inbox, Len(inbox) + 1, SaysLocked, Clears, b) \/ m \in Clears) =>
            Followed(Append(inbox, m), Len(inbox) + 2, SaysLocked, Clears, b)
      BY FollowedOn
    <2>6. Len(inbox') + 1 = Len(inbox) + 2
      BY <2>3
    <2>7. \A i \in 1 .. Len(inbox) + 1 : Quieted(i) => Quieted(i)'
      BY <2>1, <2>4 DEF Quieted
    <2>8. m \notin SaysLocked /\ (Quieted(Len(inbox) + 1) \/ m \in Clears) => Quieted(Len(inbox) + 1)'
      BY <2>1, <2>5, <2>6 DEF Quieted
    <2>9. QED
      BY <2>3, <2>6, <2>7, <2>8
  <1>2. m \notin Leaves /\ (Back \/ m \in Comes) => Back'
    <2>1. PICK b \in BOOLEAN : b = FALSE
      OBVIOUS
    <2>2. m \notin Leaves /\ (Followed(inbox, Len(inbox) + 1, Leaves, Comes, b) \/ m \in Comes)
          => Followed(Append(inbox, m), Len(inbox) + 2, Leaves, Comes, b)
      BY FollowedOn
    <2>3. Len(inbox') + 1 = Len(inbox) + 2
      BY <1>1
    <2>4. QED
      BY <2>1, <2>2, <2>3 DEF Back
  <1>3. m \notin SaysUnlocked /\ (Settling \/ m \in SaysLocked) => Settling'
    <2>1. PICK b \in BOOLEAN : b = ~screensaver_active
      OBVIOUS
    <2>2. b = ~screensaver_active'
      BY <2>1
    <2>3. m \notin SaysUnlocked /\
            (Followed(inbox, Len(inbox) + 1, SaysUnlocked, SaysLocked, b) \/ m \in SaysLocked)
          => Followed(Append(inbox, m), Len(inbox) + 2, SaysUnlocked, SaysLocked, b)
      BY FollowedOn
    <2>4. Len(inbox') + 1 = Len(inbox) + 2
      BY <1>1
    <2>5. QED
      BY <2>1, <2>2, <2>3, <2>4 DEF Settling
  <1>4. NoneAppears' => NoneAppears /\ m \notin Comes
    <2>1. Len(inbox) \in Nat
      OBVIOUS
    <2>2. QED
      BY <1>1, <2>1 DEF NoneAppears
  <1>5. QED
    BY <1>1, <1>2, <1>3, <1>4

LEMMA Heard ==
  ASSUME LockTypes, inbox # <<>>, inbox' = Tail(inbox), screensaver_active' \in BOOLEAN
  PROVE  /\ inbox' \in Seq(News) /\ Len(inbox) = Len(inbox') + 1 /\ Len(inbox') \in Nat
         /\ \A i \in 1 .. Len(inbox') : inbox'[i] = inbox[i + 1]
         /\ inbox[1] = Head(inbox) /\ Head(inbox) \in News
         /\ NoneAppears' /\ Head(inbox) \notin Comes => NoneAppears
         /\ (screensaver_active' => (screensaver_active /\ Head(inbox) \notin Clears)
                                    \/ Head(inbox) \in SaysLocked) =>
              \A i \in 1 .. Len(inbox') + 1 : Quieted(i + 1) => Quieted(i)'
         /\ Back => Back'
         /\ (~screensaver_active' => (~screensaver_active /\ Head(inbox) \notin SaysLocked)
                                     \/ Head(inbox) \in SaysUnlocked) =>
              (Settling => Settling')
  <1> USE DEF LockTypes
  <1>1. /\ inbox' \in Seq(News) /\ Len(inbox) = Len(inbox') + 1 /\ Len(inbox') \in Nat
        /\ \A i \in 1 .. Len(inbox') : inbox'[i] = inbox[i + 1]
        /\ inbox[1] = Head(inbox) /\ Head(inbox) \in News
    OBVIOUS
  <1>2. (screensaver_active' => (screensaver_active /\ Head(inbox) \notin Clears)
                                    \/ Head(inbox) \in SaysLocked) =>
              \A i \in 1 .. Len(inbox') + 1 : Quieted(i + 1) => Quieted(i)'
    <2>1. PICK b \in BOOLEAN, c \in BOOLEAN : b = screensaver_active /\ c = screensaver_active'
      OBVIOUS
    <2>2. (c => (b /\ Head(inbox) \notin Clears) \/ Head(inbox) \in SaysLocked) =>
            \A i \in 1 .. Len(inbox') + 1 :
              Followed(inbox, i + 1, SaysLocked, Clears, b) => Followed(inbox', i, SaysLocked, Clears, c)
      BY FollowedTail
    <2>3. QED
      BY <2>1, <2>2 DEF Quieted
  <1>3. Back => Back'
    <2>1. Len(inbox') + 1 \in 1 .. Len(inbox') + 1
      BY <1>1
    <2>2. QED
      <3>1. PICK b \in BOOLEAN : b = FALSE
        OBVIOUS
      <3>2. \A i \in 1 .. Len(inbox') + 1 :
              Followed(inbox, i + 1, Leaves, Comes, b) => Followed(inbox', i, Leaves, Comes, b)
        BY <3>1, FollowedTail
      <3>3. Len(inbox') + 1 + 1 = Len(inbox) + 1
        BY <1>1
      <3>4. QED
        BY <1>1, <2>1, <3>1, <3>2, <3>3 DEF Back
  <1>4. (~screensaver_active' => (~screensaver_active /\ Head(inbox) \notin SaysLocked)
                                     \/ Head(inbox) \in SaysUnlocked) =>
              (Settling => Settling')
    <2>1. Len(inbox') + 1 \in 1 .. Len(inbox') + 1
      BY <1>1
    <2>2. QED
      <3> PICK b \in BOOLEAN : b = ~screensaver_active
        OBVIOUS
      <3> PICK c \in BOOLEAN : c = ~screensaver_active'
        OBVIOUS
      <3>2. (c => (b /\ Head(inbox) \notin SaysLocked) \/ Head(inbox) \in SaysUnlocked) =>
            \A i \in 1 .. Len(inbox') + 1 :
              Followed(inbox, i + 1, SaysUnlocked, SaysLocked, b) =>
              Followed(inbox', i, SaysUnlocked, SaysLocked, c)
        BY FollowedTail
      <3>3. Len(inbox') + 1 + 1 = Len(inbox) + 1
        BY <1>1
      <3>4. QED
        BY <1>1, <2>1, <3>2, <3>3 DEF Settling
  <1>5. NoneAppears' /\ Head(inbox) \notin Comes => NoneAppears
    <2>1. \A i \in 1 .. Len(inbox) : i = 1 \/ (i - 1 \in 1 .. Len(inbox') /\ (i - 1) + 1 = i)
      BY <1>1
    <2>2. QED
      BY <1>1, <2>1 DEF NoneAppears
  <1>6. QED
    BY <1>1, <1>2, <1>3, <1>4, <1>5

\* News that makes the manager forget a lock finds none to forget.
LEMMA Unforgotten ==
  ASSUME LockInv, inbox # <<>>, Head(inbox) \in Forgets
  PROVE  ~screensaver_active
  <1>1. 1 \in 1 .. Len(inbox) /\ inbox[1] = Head(inbox)
    BY DEF LockInv, LockTypes
  <1>2. Quieted(1)
    BY <1>1 DEF LockInv
  <1>3. QED
    BY <1>2 DEF Quieted, Followed, LockInv, LockTypes

LEMMA LockStep ==
  ASSUME LockInv, [Mounter!Next]_Mounter!vars
  PROVE  LockInv'
  <1> USE DEF Mounter!saver, Mounter!proxies, Mounter!volumes
  <1>1. /\ LockTypes
        /\ locked => owner
        /\ screensaver_active \/ ss_proxy => connected > 0
        /\ \A i \in 1 .. Len(inbox) : inbox[i] \in Forgets => Quieted(i)
        /\ ~locked => Quieted(Len(inbox) + 1)
        /\ owner => Back
        /\ owner /\ making = 0 /\ NoneAppears =>
             /\ ss_proxy
             /\ locked /\ asking = 0 => Settling
    BY DEF LockInv
  <1>2. ASSUME UNCHANGED lockVars PROVE LockInv'
    BY <1>1, <1>2 DEF lockVars, LockInv, LockTypes, Quieted, Settling, Back, NoneAppears
  <1>3. ASSUME NEW m \in News, inbox' = Append(inbox, m), UNCHANGED screensaver_active
        PROVE  /\ inbox' \in Seq(News) /\ Len(inbox') = Len(inbox) + 1
               /\ NoneAppears' => NoneAppears /\ m \notin Comes
               /\ m \notin SaysLocked /\ (Quieted(Len(inbox) + 1) \/ m \in Clears) => Quieted(Len(inbox) + 1)'
               /\ m \notin Leaves /\ (Back \/ m \in Comes) => Back'
               /\ m \notin SaysUnlocked /\ (Settling \/ m \in SaysLocked) => Settling'
               /\ (m \in Forgets => Quieted(Len(inbox) + 1)) =>
                    \A i \in 1 .. Len(inbox') : inbox'[i] \in Forgets => Quieted(i)'
    <2>1. /\ inbox' \in Seq(News) /\ Len(inbox') = Len(inbox) + 1 /\ inbox'[Len(inbox) + 1] = m
          /\ \A i \in 1 .. Len(inbox) : inbox'[i] = inbox[i]
          /\ NoneAppears' => NoneAppears /\ m \notin Comes
          /\ \A i \in 1 .. Len(inbox) + 1 : Quieted(i) => Quieted(i)'
          /\ m \notin SaysLocked /\ (Quieted(Len(inbox) + 1) \/ m \in Clears) => Quieted(Len(inbox) + 1)'
          /\ m \notin Leaves /\ (Back \/ m \in Comes) => Back'
          /\ m \notin SaysUnlocked /\ (Settling \/ m \in SaysLocked) => Settling'
      BY <1>1, <1>3, Sent
    <2>2. ASSUME m \in Forgets => Quieted(Len(inbox) + 1), NEW i \in 1 .. Len(inbox'), inbox'[i] \in Forgets
          PROVE  Quieted(i)'
      <3>1. Len(inbox) \in Nat /\ i \in 1 .. Len(inbox) + 1
        BY <1>1, <2>1 DEF LockTypes
      <3>2. Quieted(i)
        BY <1>1, <2>1, <2>2, <3>1
      <3>3. QED
        BY <2>1, <3>1, <3>2
    <2>3. QED
      BY <2>1, <2>2
  <1>4. CASE Mounter!SaverAppears
    <2>1. PICK m : m = Mounter!Named("appeared")
      OBVIOUS
    <2>2. m \in News /\ m.kind = "appeared"
      BY <2>1, Kinds
    <2>3. m \in Comes /\ m \notin SaysLocked /\ m \notin Leaves /\ m \notin SaysUnlocked
      BY <2>2 DEF Comes, Leaves, SaysLocked, SaysUnlocked
    <2>4. /\ ~owner /\ owner' = TRUE /\ inbox' = Append(inbox, m)
          /\ UNCHANGED <<locked, screensaver_active, making, ss_proxy, connected, asking>>
      BY <1>4, <2>1 DEF Mounter!SaverAppears, Mounter!Sends
    <2>5. /\ inbox' \in Seq(News) /\ ~NoneAppears' /\ Back' /\ Quieted(Len(inbox) + 1)'
          /\ \A i \in 1 .. Len(inbox') : inbox'[i] \in Forgets => Quieted(i)'
      BY <1>1, <1>3, <2>2, <2>3, <2>4
    <2>6. QED
      BY <1>1, <2>4, <2>5 DEF LockInv, LockTypes
  <1>5. CASE Mounter!SaverVanishes
    <2>1. PICK m : m = Mounter!Named("vanished")
      OBVIOUS
    <2>2. m \in News /\ m.kind = "vanished"
      BY <2>1, Kinds
    <2>3. m \notin Forgets /\ m \notin SaysLocked /\ m \in Clears
      BY <2>2 DEF Comes, Leaves, SaysLocked, Clears, Forgets
    <2>4. /\ owner' = FALSE /\ locked' = FALSE /\ inbox' = Append(inbox, m)
          /\ UNCHANGED <<screensaver_active, making, ss_proxy, connected, asking>>
      BY <1>5, <2>1 DEF Mounter!SaverVanishes, Mounter!Sends
    <2>5. /\ inbox' \in Seq(News) /\ Quieted(Len(inbox) + 1)'
          /\ \A i \in 1 .. Len(inbox') : inbox'[i] \in Forgets => Quieted(i)'
      BY <1>1, <1>3, <2>2, <2>3, <2>4
    <2>6. QED
      BY <1>1, <2>4, <2>5 DEF LockInv, LockTypes
  <1>6. CASE Mounter!SaverSwitches
    <2>1. /\ owner /\ locked' = ~locked /\ UNCHANGED <<owner, screensaver_active, making, ss_proxy, connected, asking>>
          /\ inbox' = Append(inbox, Mounter!ActiveChanged(locked'))
      BY <1>6 DEF Mounter!SaverSwitches, Mounter!Sends
    <2>2. locked' \in BOOLEAN
      BY <2>1
    <2>3. PICK m : m = Mounter!ActiveChanged(locked')
      OBVIOUS
    <2>4. m \in News /\ m.kind = "ActiveChanged" /\ m.active = locked'
      BY <2>2, <2>3, Kinds
    <2>5. /\ m \notin Forgets /\ m \notin Leaves
          /\ locked' = TRUE => m \in SaysLocked /\ m \notin SaysUnlocked
          /\ locked' = FALSE => m \in Clears /\ m \notin SaysLocked
      BY <2>4 DEF Comes, Leaves, SaysLocked, SaysUnlocked, Clears, Forgets
    <2>6. /\ inbox' \in Seq(News) /\ Back'
          /\ NoneAppears' => NoneAppears
          /\ \A i \in 1 .. Len(inbox') : inbox'[i] \in Forgets => Quieted(i)'
          /\ ~locked' => Quieted(Len(inbox) + 1)'
          /\ locked' => Settling'
      BY <1>1, <1>3, <2>1, <2>2, <2>3, <2>4, <2>5
    <2>7. QED
      BY <1>1, <2>1, <2>2, <2>6 DEF LockInv, LockTypes
  <1>7. CASE Mounter!AnswerGetActive
    <2>1. /\ asking > 0 /\ asking' = asking - 1
          /\ UNCHANGED <<owner, locked, screensaver_active, making, ss_proxy, connected>>
          /\ inbox' = Append(inbox, IF owner THEN Mounter!Reply(locked) ELSE Mounter!Named("error"))
      BY <1>7 DEF Mounter!AnswerGetActive, Mounter!Sends
    <2>2. PICK m : m = IF owner THEN Mounter!Reply(locked) ELSE Mounter!Named("error")
      OBVIOUS
    <2>3. /\ m \in News
          /\ owner => m.kind = "GetActive" /\ m.active = locked
          /\ ~owner => m.kind = "error"
      <3>1. locked \in BOOLEAN
        BY <1>1 DEF LockTypes
      <3>2. QED
        BY <2>2, <3>1, Kinds
    <2>4. /\ m \notin Leaves /\ m \notin Comes
          /\ ~owner \/ locked = FALSE => m \notin SaysLocked
          /\ ~owner \/ locked = TRUE => m \notin Forgets
          /\ owner /\ locked = TRUE => m \in SaysLocked /\ m \notin SaysUnlocked
      BY <2>3 DEF Comes, Leaves, SaysLocked, SaysUnlocked, Forgets
    <2>5. locked = TRUE \/ locked = FALSE
      BY <1>1 DEF LockTypes
    <2>6. /\ inbox' \in Seq(News) /\ (owner => Back')
          /\ NoneAppears' => NoneAppears
      BY <1>1, <1>3, <2>1, <2>2, <2>3, <2>4
    <2>7. \A i \in 1 .. Len(inbox') : inbox'[i] \in Forgets => Quieted(i)'
      <3>1. m \in Forgets => Quieted(Len(inbox) + 1)
        BY <1>1, <2>4, <2>5
      <3>2. QED
        BY <1>3, <2>1, <2>2, <2>3, <3>1
    <2>8. ~locked' => Quieted(Len(inbox) + 1)'
      BY <1>1, <1>3, <2>1, <2>2, <2>3, <2>4, <2>5
    <2>9. locked' => Settling'
      BY <1>1, <1>3, <2>1, <2>2, <2>3, <2>4, <2>5
    <2>10. QED
      BY <1>1, <2>1, <2>6, <2>7, <2>8, <2>9 DEF LockInv, LockTypes
  <1>8. CASE Mounter!ScreensaverProxyReady
    <2>1. /\ making > 0 /\ making' = making - 1 /\ ss_proxy' = TRUE /\ connected' = connected + 1
          /\ asking' = asking + 1 /\ UNCHANGED <<owner, locked, inbox, screensaver_active>>
      BY <1>8 DEF Mounter!ScreensaverProxyReady
    <2>2. LockTypes' /\ connected' > 0 /\ asking' # 0
      BY <1>1, <2>1 DEF LockTypes
    <2>3. QED
      BY <1>1, <2>1, <2>2 DEF LockInv, Quieted, Settling, Back, NoneAppears
  <1>9. ASSUME inbox # <<>>, inbox' = Tail(inbox)
        PROVE  /\ Head(inbox) \in News
               /\ Head(inbox) \in Forgets => ~screensaver_active
               /\ owner /\ NoneAppears' => Head(inbox) \notin Leaves
    <2>1. /\ inbox[1] = Head(inbox) /\ Head(inbox) \in News /\ Len(inbox) = Len(inbox') + 1
          /\ Len(inbox') \in Nat /\ \A i \in 1 .. Len(inbox') : inbox'[i] = inbox[i + 1]
      BY <1>1, <1>9 DEF LockTypes
    <2>2. Head(inbox) \in Forgets => ~screensaver_active
      BY <1>9, Unforgotten
    <2>3. ASSUME owner, Head(inbox) \in Leaves PROVE ~NoneAppears'
      <3>1. PICK j \in 1 + 1 .. Len(inbox) + 1 - 1 : inbox[j] \in Comes
        <4>1. 1 \in 1 .. Len(inbox) + 1 - 1 /\ inbox[1] \in Leaves
          BY <2>1, <2>3
        <4>2. QED
          BY <1>1, <2>3, <4>1 DEF Back, Followed
      <3>2. j - 1 \in 1 .. Len(inbox') /\ inbox'[j - 1] = inbox[j]
        BY <2>1
      <3>3. QED
        BY <3>1, <3>2 DEF NoneAppears
    <2>4. QED
      BY <2>1, <2>2, <2>3
  <1>10. ASSUME inbox # <<>>, inbox' = Tail(inbox), screensaver_active' \in BOOLEAN,
                screensaver_active' => (screensaver_active /\ Head(inbox) \notin Clears)
                                       \/ Head(inbox) \in SaysLocked,
                UNCHANGED <<owner, locked>>
         PROVE  /\ inbox' \in Seq(News)
                /\ \A i \in 1 .. Len(inbox') : inbox'[i] \in Forgets => Quieted(i)'
                /\ ~locked' => Quieted(Len(inbox) + 1)'
                /\ owner' => Back'
                /\ Head(inbox) \notin Comes /\ NoneAppears' => NoneAppears
                /\ (~screensaver_active' => (~screensaver_active /\ Head(inbox) \notin SaysLocked)
                                            \/ Head(inbox) \in SaysUnlocked)
                   /\ Settling => Settling'
    <2>1. /\ inbox' \in Seq(News) /\ Len(inbox) = Len(inbox') + 1 /\ Len(inbox') \in Nat
          /\ \A i \in 1 .. Len(inbox') : inbox'[i] = inbox[i + 1]
          /\ NoneAppears' /\ Head(inbox) \notin Comes => NoneAppears
          /\ \A i \in 1 .. Len(inbox') + 1 : Quieted(i + 1) => Quieted(i)'
          /\ Back => Back'
          /\ (~screensaver_active' => (~screensaver_active /\ Head(inbox) \notin SaysLocked)
                                      \/ Head(inbox) \in SaysUnlocked) =>
               (Settling => Settling')
      BY <1>1, <1>10, Heard
    <2>2. ASSUME NEW i \in 1 .. Len(inbox'), inbox'[i] \in Forgets PROVE Quieted(i)'
      <3>1. i + 1 \in 1 .. Len(inbox) /\ i \in 1 .. Len(inbox') + 1
        BY <2>1
      <3>2. Quieted(i + 1)
        BY <1>1, <2>1, <2>2, <3>1
      <3>3. QED
        BY <2>1, <3>1, <3>2
    <2>3. ~locked' => Quieted(Len(inbox) + 1)'
      <3>1. PICK n \in Nat : n = Len(inbox') + 1
        BY <2>1
      <3>2. n \in 1 .. Len(inbox') + 1 /\ n + 1 = Len(inbox) + 1
        BY <2>1, <3>1
      <3>3. Quieted(n + 1) => Quieted(n)'
        BY <2>1, <3>2
      <3>4. QED
        BY <1>1, <1>10, <3>1, <3>2, <3>3 DEF Quieted
    <2>4. QED
      BY <1>1, <1>10, <2>1, <2>2, <2>3
  <1>11. CASE Mounter!ScreensaverAppeared
    <2>1. /\ inbox # <<>> /\ inbox' = Tail(inbox) /\ screensaver_active' = FALSE
          /\ making' = making + 1 /\ UNCHANGED <<owner, locked, ss_proxy, connected, asking>>
      BY <1>11 DEF Mounter!ScreensaverAppeared, Mounter!Dispatch
    <2>2. LockTypes' /\ making' # 0
      <3>1. inbox' \in Seq(News)
        BY <1>10, <2>1
      <3>2. making' \in Nat /\ making' # 0
        BY <1>1, <2>1 DEF LockTypes
      <3>3. QED
        BY <1>1, <2>1, <3>1, <3>2 DEF LockTypes
    <2>3. QED
      BY <1>1, <1>10, <2>1, <2>2 DEF LockInv
  <1>12. CASE Mounter!GetActiveReady
    <2>1. /\ inbox # <<>> /\ inbox' = Tail(inbox)
          /\ UNCHANGED <<owner, locked, making, ss_proxy, connected, asking>>
          /\ \/ /\ Head(inbox).kind = "GetActive"
                /\ screensaver_active' = IF ss_proxy THEN Head(inbox).active ELSE screensaver_active
             \/ Head(inbox).kind = "error" /\ screensaver_active' = screensaver_active
      BY <1>12 DEF Mounter!GetActiveReady, Mounter!Dispatch
    <2>2. Head(inbox) \in News /\ (Head(inbox).kind = "GetActive" => Head(inbox).active \in BOOLEAN)
      BY <1>9, <2>1, Kinds
    <2>3. screensaver_active' \in BOOLEAN
      BY <1>1, <2>1, <2>2 DEF LockTypes
    <2>4. /\ Head(inbox) \notin Clears /\ Head(inbox) \notin Comes
          /\ Head(inbox).kind = "GetActive" /\ Head(inbox).active = TRUE => Head(inbox) \in SaysLocked
          /\ Head(inbox).kind = "GetActive" /\ Head(inbox).active = FALSE => Head(inbox) \in SaysUnlocked
          /\ Head(inbox).kind = "error" => Head(inbox) \notin SaysLocked
      BY <2>1, <2>2 DEF Clears, Comes, Leaves, SaysLocked, SaysUnlocked
    <2>5. screensaver_active' => screensaver_active \/ Head(inbox) \in SaysLocked
      BY <2>1, <2>2, <2>4
    <2>6. screensaver_active' => screensaver_active \/ ss_proxy
      BY <2>1
    <2>7. ss_proxy /\ ~screensaver_active' =>
            (~screensaver_active /\ Head(inbox) \notin SaysLocked) \/ Head(inbox) \in SaysUnlocked
      BY <2>1, <2>2, <2>4
    <2>8. LockTypes'
      BY <1>1, <1>10, <2>1, <2>3, <2>4, <2>5 DEF LockTypes
    <2>9. screensaver_active' \/ ss_proxy' => connected' > 0
      BY <1>1, <2>1, <2>6
    <2>10. /\ \A i \in 1 .. Len(inbox') : inbox'[i] \in Forgets => Quieted(i)'
           /\ ~locked' => Quieted(Len(inbox) + 1)'
           /\ owner' => Back'
      BY <1>10, <2>1, <2>3, <2>4, <2>5
    <2>11. owner' /\ making' = 0 /\ NoneAppears' => ss_proxy' /\ (locked' /\ asking' = 0 => Settling')
      BY <1>1, <1>10, <2>1, <2>3, <2>4, <2>5, <2>7
    <2>12. QED
      BY <1>1, <2>1, <2>8, <2>9, <2>10, <2>11 DEF LockInv
  <1>13. CASE Mounter!ScreensaverSignal
    <2>1. /\ inbox # <<>> /\ inbox' = Tail(inbox) /\ Head(inbox).kind = "ActiveChanged"
          /\ UNCHANGED <<owner, locked, making, ss_proxy, connected, asking>>
          /\ screensaver_active' = IF connected > 0 THEN Head(inbox).active ELSE screensaver_active
      BY <1>13 DEF Mounter!ScreensaverSignal, Mounter!Dispatch
    <2>2. Head(inbox) \in News /\ Head(inbox).active \in BOOLEAN
      BY <1>9, <2>1, Kinds
    <2>3. screensaver_active' \in BOOLEAN
      BY <1>1, <2>1, <2>2 DEF LockTypes
    <2>4. /\ Head(inbox) \notin Comes
          /\ Head(inbox).active = TRUE => Head(inbox) \in SaysLocked
          /\ Head(inbox).active = FALSE => Head(inbox) \in SaysUnlocked
      BY <2>1, <2>2 DEF Comes, SaysLocked, SaysUnlocked
    <2>5. screensaver_active' => Head(inbox) \in SaysLocked
      BY <1>1, <2>1, <2>2, <2>4
    <2>6. ss_proxy /\ ~screensaver_active' => Head(inbox) \in SaysUnlocked
      BY <1>1, <2>1, <2>2, <2>4
    <2>7. LockTypes'
      BY <1>1, <1>10, <2>1, <2>3, <2>5 DEF LockTypes
    <2>8. screensaver_active' \/ ss_proxy' => connected' > 0
      BY <1>1, <2>1
    <2>9. /\ \A i \in 1 .. Len(inbox') : inbox'[i] \in Forgets => Quieted(i)'
          /\ ~locked' => Quieted(Len(inbox) + 1)'
          /\ owner' => Back'
      BY <1>10, <2>1, <2>3, <2>5
    <2>10. owner' /\ making' = 0 /\ NoneAppears' => ss_proxy' /\ (locked' /\ asking' = 0 => Settling')
      BY <1>1, <1>10, <2>1, <2>3, <2>4, <2>5, <2>6
    <2>11. QED
      BY <1>1, <2>1, <2>7, <2>8, <2>9, <2>10 DEF LockInv
  <1>14. CASE Mounter!ScreensaverVanished
    <2>1. /\ inbox # <<>> /\ inbox' = Tail(inbox) /\ Head(inbox).kind = "vanished"
          /\ screensaver_active' = FALSE /\ ss_proxy' = FALSE
          /\ connected' = IF ss_proxy THEN connected - 1 ELSE connected
          /\ UNCHANGED <<owner, locked, making, asking>>
      BY <1>14 DEF Mounter!ScreensaverVanished, Mounter!Dispatch
    <2>2. Head(inbox) \in Leaves
      BY <1>9, <2>1 DEF Leaves
    <2>3. LockTypes'
      <3>1. inbox' \in Seq(News)
        BY <1>10, <2>1
      <3>2. connected' \in Nat
        BY <1>1, <2>1 DEF LockTypes
      <3>3. QED
        BY <1>1, <2>1, <3>1, <3>2 DEF LockTypes
    <2>4. owner' => ~NoneAppears'
      BY <1>9, <2>1, <2>2
    <2>5. QED
      BY <1>1, <1>10, <2>1, <2>3, <2>4 DEF LockInv
  <1>15. CASE \/ Mounter!AutomountAll \/ Mounter!SessionStateChanged \/ UNCHANGED Mounter!vars
              \/ \E v \in Volume : Mounter!VolumeAdded(v) \/ Mounter!VolumeRemoved(v)
    <2>1. UNCHANGED lockVars
      BY <1>15 DEF Mounter!AutomountAll, Mounter!SessionStateChanged, Mounter!VolumeAdded,
         Mounter!VolumeRemoved, Mounter!vars, lockVars
    <2>2. QED
      BY <1>2, <2>1
  <1>16. QED
    BY <1>4, <1>5, <1>6, <1>7, <1>8, <1>11, <1>12, <1>13, <1>14, <1>15 DEF Mounter!Next

-----------------------------------------------------------------------------
(* The volumes that wait.                                                  *)

QueueInv ==
  /\ plugged \subseteq Volume /\ asked_to_mount \subseteq plugged
  /\ idle \in BOOLEAN /\ session_is_active \in BOOLEAN
  /\ volume_queue \in Seq(Volume) /\ NoRepeats(volume_queue)
  /\ SX!ToSet(volume_queue) \subseteq plugged
  /\ volume_queue # <<>> => session_is_active /\ screensaver_active

LEMMA Prepended ==
  ASSUME NEW S, NEW q \in Seq(S), NEW v \in S, NoRepeats(q), v \notin SX!ToSet(q)
  PROVE  /\ <<v>> \o q \in Seq(S) /\ NoRepeats(<<v>> \o q)
         /\ SX!ToSet(<<v>> \o q) = SX!ToSet(q) \cup {v}
  <1> DEFINE r == <<v>> \o q
  <1>1. /\ r \in Seq(S) /\ Len(r) = Len(q) + 1 /\ Len(q) \in Nat /\ r[1] = v
        /\ DOMAIN r = 1 .. Len(q) + 1 /\ DOMAIN q = 1 .. Len(q)
    OBVIOUS
  <1>2. \A i \in 1 .. Len(q) : r[i + 1] = q[i]
    OBVIOUS
  <1> HIDE DEF r
  <1>3. \A i \in 1 .. Len(q) + 1 : i = 1 \/ (i - 1 \in 1 .. Len(q) /\ r[i] = q[i - 1])
    <2> SUFFICES ASSUME NEW i \in 1 .. Len(q) + 1, i # 1 PROVE i - 1 \in 1 .. Len(q) /\ r[i] = q[i - 1]
      OBVIOUS
    <2>1. i - 1 \in 1 .. Len(q) /\ (i - 1) + 1 = i
      BY <1>1
    <2>2. QED
      BY <1>2, <2>1
  <1>4. \A i \in 1 .. Len(q) : q[i] # v
    BY <1>1 DEF SX!ToSet
  <1>5. NoRepeats(r)
    <2> SUFFICES ASSUME NEW i \in 1 .. Len(q) + 1, NEW j \in 1 .. Len(q) + 1, r[i] = r[j] PROVE i = j
      BY <1>1 DEF NoRepeats
    <2>1. CASE i = 1 \/ j = 1
      BY <1>1, <1>3, <1>4, <2>1
    <2>2. CASE i # 1 /\ j # 1
      <3>1. i - 1 = j - 1
        BY <1>3, <2>2 DEF NoRepeats
      <3>2. QED
        BY <1>1, <3>1
    <2>3. QED
      BY <2>1, <2>2
  <1>6. SX!ToSet(r) = SX!ToSet(q) \cup {v}
    <2>1. \A i \in 1 .. Len(q) : i + 1 \in 1 .. Len(q) + 1
      BY <1>1
    <2>2. SX!ToSet(q) \subseteq SX!ToSet(r)
      BY <1>1, <1>2, <2>1 DEF SX!ToSet
    <2>3. SX!ToSet(r) \subseteq SX!ToSet(q) \cup {v}
      BY <1>1, <1>3 DEF SX!ToSet
    <2>4. v \in SX!ToSet(r)
      <3>1. 1 \in 1 .. Len(q) + 1
        BY <1>1
      <3>2. QED
        BY <1>1, <3>1 DEF SX!ToSet
    <2>5. QED
      BY <2>2, <2>3, <2>4
  <1>7. QED
    BY <1>1, <1>5, <1>6 DEF r

LEMMA QueueStep ==
  ASSUME LockInv, QueueInv, [Mounter!Next]_Mounter!vars
  PROVE  QueueInv'
  <1> USE DEF QueueInv, Mounter!volumes
  <1>1. <<>> \in Seq(Volume) /\ NoRepeats(<<>>) /\ SX!ToSet(<<>>) = {}
    BY DEF NoRepeats, SX!ToSet
  <1>2. ASSUME inbox # <<>>
        PROVE  /\ Head(inbox) \in News
               /\ Head(inbox) \in Forgets => ~screensaver_active
    BY <1>2, Unforgotten DEF LockInv, LockTypes
  <1>3. CASE Mounter!AutomountAll
    BY <1>3 DEF Mounter!AutomountAll
  <1>4. CASE Mounter!SessionStateChanged
    <2>1. /\ session_is_active' = ~session_is_active
          /\ volume_queue' = IF session_is_active' THEN volume_queue ELSE <<>>
          /\ UNCHANGED <<plugged, asked_to_mount, idle, screensaver_active>>
      BY <1>4 DEF Mounter!SessionStateChanged
    <2>2. session_is_active' => volume_queue' = <<>>
      BY <2>1
    <2>3. volume_queue' = <<>>
      BY <2>1, <2>2
    <2>4. QED
      BY <1>1, <2>1, <2>3
  <1>5. ASSUME NEW v \in Volume, Mounter!VolumeAdded(v)
        PROVE  QueueInv'
    <2>1. /\ v \notin plugged /\ plugged' = plugged \cup {v}
          /\ UNCHANGED <<idle, session_is_active, screensaver_active>>
          /\ \/ asked_to_mount' = asked_to_mount /\ volume_queue' = volume_queue
             \/ /\ session_is_active /\ screensaver_active
                /\ asked_to_mount' = asked_to_mount /\ volume_queue' = <<v>> \o volume_queue
             \/ asked_to_mount' = asked_to_mount \cup {v} /\ volume_queue' = volume_queue
      BY <1>5 DEF Mounter!VolumeAdded, Mounter!MountOrQueue
    <2>2. CASE volume_queue' = volume_queue
      BY <2>1, <2>2
    <2>3. CASE /\ session_is_active /\ screensaver_active
               /\ asked_to_mount' = asked_to_mount /\ volume_queue' = <<v>> \o volume_queue
      <3>1. v \notin SX!ToSet(volume_queue)
        BY <2>1
      <3>2. /\ volume_queue' \in Seq(Volume) /\ NoRepeats(volume_queue')
            /\ SX!ToSet(volume_queue') = SX!ToSet(volume_queue) \cup {v}
        BY <2>3, <3>1, Prepended
      <3>3. QED
        BY <2>1, <2>3, <3>2
    <2>4. QED
      BY <2>1, <2>2, <2>3
  <1>6. ASSUME NEW v \in Volume, Mounter!VolumeRemoved(v)
        PROVE  QueueInv'
    <2>1. /\ plugged' = plugged \ {v} /\ asked_to_mount' = asked_to_mount \ {v}
          /\ UNCHANGED <<idle, session_is_active, screensaver_active>>
          /\ volume_queue' = Mounter!RemoveFirst(volume_queue, v)
      BY <1>6 DEF Mounter!VolumeRemoved
    <2>2. volume_queue' = SX!RemoveFirst(volume_queue, v)
      BY <2>1 DEF Mounter!RemoveFirst, SX!RemoveFirst, Mounter!RemoveAt, SX!RemoveAt,
         Mounter!SelectInSeq, SX!SelectInSeq, Mounter!Min, SX!Min
    <2>3. /\ volume_queue' \in Seq(Volume) /\ NoRepeats(volume_queue')
          /\ SX!ToSet(volume_queue') = SX!ToSet(volume_queue) \ {v}
      BY <2>2, Removed
    <2>4. volume_queue = <<>> => volume_queue' = <<>>
      <3>1. volume_queue' # <<>> => Head(volume_queue') \in SX!ToSet(volume_queue')
        BY <2>3, InTail
      <3>2. QED
        BY <1>1, <2>3, <3>1
    <2>5. QED
      BY <2>1, <2>3, <2>4
  <1>7. CASE Mounter!ScreensaverAppeared
    <2>1. /\ inbox # <<>> /\ Head(inbox).kind = "appeared"
          /\ UNCHANGED <<plugged, asked_to_mount, volume_queue, idle, session_is_active>>
      BY <1>7 DEF Mounter!ScreensaverAppeared, Mounter!Dispatch
    <2>2. Head(inbox) \in Forgets
      BY <1>2, <2>1 DEF Forgets, Comes
    <2>3. volume_queue = <<>>
      BY <1>2, <2>1, <2>2
    <2>4. QED
      BY <2>1, <2>3
  <1>8. CASE Mounter!GetActiveReady
    <2>1. /\ inbox # <<>>
          /\ UNCHANGED <<plugged, asked_to_mount, volume_queue, idle, session_is_active>>
          /\ \/ /\ Head(inbox).kind = "GetActive"
                /\ screensaver_active' = IF ss_proxy THEN Head(inbox).active ELSE screensaver_active
             \/ screensaver_active' = screensaver_active
      BY <1>8 DEF Mounter!GetActiveReady, Mounter!Dispatch
    <2>2. Head(inbox).kind = "GetActive" /\ Head(inbox).active = FALSE => volume_queue = <<>>
      <3>1. Head(inbox).kind = "GetActive" /\ Head(inbox).active = FALSE => Head(inbox) \in Forgets
        BY <1>2, <2>1 DEF Forgets
      <3>2. QED
        BY <1>2, <2>1, <3>1
    <2>3. Head(inbox).kind = "GetActive" => Head(inbox).active \in BOOLEAN
      BY <1>2, <2>1, Kinds
    <2>4. ASSUME volume_queue # <<>> PROVE screensaver_active'
      <3>1. screensaver_active
        BY <2>4
      <3>2. Head(inbox).kind = "GetActive" => Head(inbox).active = TRUE
        BY <2>2, <2>3, <2>4
      <3>3. QED
        BY <2>1, <3>1, <3>2
    <2>5. QED
      BY <2>1, <2>4
  <1>9. CASE Mounter!ScreensaverSignal
    <2>1. /\ inbox # <<>> /\ UNCHANGED <<plugged, idle, session_is_active>>
          /\ \/ screensaver_active' = screensaver_active /\ UNCHANGED <<asked_to_mount, volume_queue>>
             \/ screensaver_active' /\ UNCHANGED <<asked_to_mount, volume_queue>>
             \/ Mounter!CheckVolumeQueue
      BY <1>9 DEF Mounter!ScreensaverSignal, Mounter!Dispatch
    <2>2. CASE Mounter!CheckVolumeQueue
      <3>1. volume_queue' = <<>>
        BY <2>2 DEF Mounter!CheckVolumeQueue
      <3>2. volume_queue # <<>> => Head(volume_queue) \in plugged
        BY InTail
      <3>3. asked_to_mount' \subseteq plugged
        BY <2>2, <3>2 DEF Mounter!CheckVolumeQueue
      <3>4. QED
        BY <1>1, <2>1, <3>1, <3>3
    <2>3. QED
      BY <2>1, <2>2
  <1>10. CASE Mounter!ScreensaverVanished
    BY <1>1, <1>10 DEF Mounter!ScreensaverVanished
  <1>11. CASE \/ Mounter!SaverAppears \/ Mounter!SaverVanishes \/ Mounter!SaverSwitches
              \/ Mounter!AnswerGetActive \/ Mounter!ScreensaverProxyReady \/ UNCHANGED Mounter!vars
    <2>1. UNCHANGED <<plugged, asked_to_mount, volume_queue, idle, session_is_active, screensaver_active>>
      BY <1>11 DEF Mounter!SaverAppears, Mounter!SaverVanishes, Mounter!SaverSwitches,
         Mounter!AnswerGetActive, Mounter!ScreensaverProxyReady, Mounter!vars
    <2>2. QED
      BY <2>1
  <1>12. QED
    BY <1>3, <1>4, <1>5, <1>6, <1>7, <1>8, <1>9, <1>10, <1>11 DEF Mounter!Next

MounterInv == LockInv /\ QueueInv

LEMMA MounterKept == AllSpec => []MounterInv
  <1>1. Mounter!Init => MounterInv
    <2> SUFFICES ASSUME Mounter!Init PROVE MounterInv
      OBVIOUS
    <2> owner \in BOOLEAN /\ locked \in BOOLEAN /\ (locked => owner)
      <3>1. owner \in BOOLEAN /\ locked \in {FALSE, owner}
        BY DEF Mounter!Init
      <3>2. CASE locked = FALSE
        BY <3>1, <3>2
      <3>3. CASE locked = owner
        BY <3>1, <3>3
      <3>4. QED
        BY <3>1, <3>2, <3>3
    <2>1. /\ making = 0 /\ ss_proxy = FALSE /\ connected = 0 /\ asking = 0 /\ screensaver_active = FALSE
          /\ inbox = IF owner THEN <<Mounter!Named("appeared")>> ELSE <<>>
          /\ plugged \subseteq Volume /\ asked_to_mount = {} /\ volume_queue = <<>> /\ idle = TRUE
          /\ session_is_active \in BOOLEAN
      BY DEF Mounter!Init
    <2>2. PICK m : m = Mounter!Named("appeared")
      OBVIOUS
    <2>3. m \in News /\ m.kind = "appeared"
      BY <2>2, Kinds
    <2>4. m \in Comes /\ m \notin SaysLocked /\ m \notin Leaves
      BY <2>3 DEF Comes, SaysLocked, Leaves
    <2>5. /\ inbox \in Seq(News) /\ Len(inbox) \in {0, 1} /\ \A i \in 1 .. Len(inbox) : inbox[i] = m
          /\ owner => Len(inbox) = 1
      <3>1. <<>> \in Seq(News) /\ <<m>> \in Seq(News) /\ Len(<<m>>) = 1 /\ <<m>>[1] = m
        BY <2>3
      <3>2. QED
        BY <2>1, <2>2, <3>1
    <2>6. LockTypes
      BY <2>1, <2>5 DEF LockTypes
    <2>7. \A i \in 1 .. Len(inbox) + 1 : Quieted(i)
      BY <2>1, <2>4, <2>5 DEF Quieted, Followed
    <2>8. Back
      BY <2>1, <2>4, <2>5 DEF Back, Followed
    <2>9. owner => ~NoneAppears
      BY <2>4, <2>5 DEF NoneAppears
    <2>10. LockInv
      BY <2>1, <2>5, <2>6, <2>7, <2>8, <2>9 DEF LockInv
    <2>11. QueueInv
      BY <2>1 DEF QueueInv, NoRepeats, SX!ToSet
    <2>12. QED
      BY <2>10, <2>11 DEF MounterInv
  <1>2. MounterInv /\ [Mounter!Next]_Mounter!vars => MounterInv'
    BY LockStep, QueueStep DEF MounterInv
  <1>3. Mounter!Spec => []MounterInv
    BY <1>1, <1>2, PTL DEF Mounter!Spec
  <1>4. QED
    BY <1>3, PartIsMounter, PTL

\* However the screensaver comes, goes and answers, and whatever is plugged in
\* and pulled out meanwhile: no volume waits in the queue of a session that is
\* not locked or not active, and once all is dispatched the manager knows
\* whether the screen is locked.
THEOREM VolumesWait == AllSpec => []VolumesWaitForUnlock
  <1>1. MounterInv => Mounter!QueueWaits
    BY DEF MounterInv, QueueInv, Mounter!QueueWaits, Mounter!Queued, Mounter!Range, SX!ToSet
  <1>2. MounterInv => Mounter!KnowsLock
    <2> SUFFICES ASSUME MounterInv, inbox = <<>>, making = 0, asking = 0
                 PROVE  screensaver_active = locked
      BY DEF Mounter!KnowsLock
    <2>1. LockInv /\ LockTypes /\ Len(inbox) = 0
      BY DEF MounterInv, LockInv
    <2>2. ~locked => ~screensaver_active
      BY <2>1 DEF LockInv, Quieted, Followed
    <2>3. NoneAppears
      BY <2>1 DEF NoneAppears
    <2>4. locked => screensaver_active
      BY <2>1, <2>3 DEF LockInv, Settling, Followed
    <2>5. QED
      BY <2>1, <2>2, <2>4 DEF LockTypes
  <1>3. QED
    BY <1>1, <1>2, MounterKept, PTL DEF VolumesWaitForUnlock

-----------------------------------------------------------------------------
(* The controls of the keyboard.                                           *)

\* The delay the server is given for slow keys.
Cap(d) == IF d > MaxDelay THEN MaxDelay ELSE d

\* What is going to be written is what the settings are, or what the controls
\* were; a change that was not dispatched, or an event, excuses the difference.
AccessInv ==
  /\ keys \in Nat /\ (keys # 0 => stage = "running")
  /\ doing \in {"idle", "set", "apply"}
  /\ stage \in {"setting", "running"} /\ ~changed /\ doing = "set" => desc = settings
  /\ doing = "apply" => stage = "running" /\ (keys = 0 => desc = controls)
  /\ stage \in {"setting", "running"} /\ ~changed /\ doing # "set" /\ "slow" \in settings.on
       => controls.delay = Cap(settings.delay)
  /\ stage \in {"setting", "running"} /\ ~changed /\ ~slipped /\ keys = 0 /\ doing = "idle"
       => controls.on = settings.on

LEMMA AccessInit == Access!Init => AccessInv
BY DEF Access!Init, AccessInv

\* An answer leaves everything, or reads the settings it has written.
LEMMA Responded ==
  ASSUME NEW f, NEW answer, Access!Response(f, answer)
  PROVE \/ settings' = settings /\ doing' = doing /\ desc' = desc
        \/ doing' = "set" /\ (stage = "off" \/ desc' = settings')
BY DEF Access!Response, Access!Reads

LEMMA AccessStep == AccessInv /\ [Access!Next]_Access!vars => AccessInv'
<1> SUFFICES ASSUME AccessInv, [Access!Next]_Access!vars PROVE AccessInv' OBVIOUS
<1> USE DEF AccessInv
<1>1. CASE Access!WriteSetting
  BY <1>1 DEF Access!WriteSetting, Access!asks
<1>2. ASSUME NEW c \in Access!Control, Access!Press(c) PROVE AccessInv'
  <2>1. controls'.delay = controls.delay
    BY <1>2 DEF Access!Press
  <2>2. /\ stage' = stage /\ settings' = settings /\ changed' = changed /\ doing' = doing /\ desc' = desc
        /\ slipped' = (slipped \/ stage = "setting")
    BY <1>2 DEF Access!Press
  <2>3. CASE stage = "running"
    <3>1. keys' = keys + 1 BY <1>2, <2>3 DEF Access!Press
    <3>2. keys' \in Nat /\ keys' # 0 BY <3>1
    <3> QED BY <2>1, <2>2, <2>3, <3>2
  <2>4. CASE stage # "running"
    <3>1. keys' = keys BY <1>2, <2>4 DEF Access!Press
    <3>2. stage = "setting" => slipped' BY <2>2
    <3> QED BY <2>1, <2>2, <2>4, <3>1, <3>2
  <2> QED BY <2>3, <2>4
<1>3. CASE Access!SetServer
  <2>1. controls'.on = desc.on /\ ("slow" \in desc.on => controls'.delay = Cap(desc.delay))
    BY <1>3 DEF Access!SetServer, Access!ForServer, Cap
  <2> QED BY <1>3, <2>1 DEF Access!SetServer, Access!asks
<1>4. CASE Access!KeyboardCallback
  BY <1>4 DEF Access!KeyboardCallback, Access!Reads, Access!both, Access!asks
<1>5. CASE Access!KeyboardAdded
  BY <1>5 DEF Access!KeyboardAdded, Access!Reads, Access!both, Access!asks
<1>6. CASE Access!XkbEvent
  BY <1>6 DEF Access!XkbEvent, Access!both, Access!asks
<1>7. CASE Access!ApplySettings
  <2>1. \/ desc = settings /\ doing' = "idle"
        \/ doing' = "set" /\ desc' = desc
    BY <1>7 DEF Access!ApplySettings, Access!Reads
  <2>2. /\ doing = "apply" /\ settings' = desc
        /\ stage' = stage /\ controls' = controls /\ changed' = changed /\ keys' = keys /\ slipped' = slipped
    BY <1>7 DEF Access!ApplySettings
  <2> QED BY <2>1, <2>2
<1>8. ASSUME NEW f, NEW answer, Access!DialogResponse(f, answer) PROVE AccessInv'
  <2>1. \/ settings' = settings /\ doing' = doing /\ desc' = desc
        \/ doing' = "set" /\ (stage = "off" \/ desc' = settings')
    BY <1>8, Responded DEF Access!DialogResponse
  <2>2. /\ doing = "idle"
        /\ stage' = stage /\ controls' = controls /\ changed' = changed /\ keys' = keys /\ slipped' = slipped
    BY <1>8 DEF Access!DialogResponse
  <2> QED BY <2>1, <2>2
<1>9. ASSUME NEW n, NEW answer, Access!Action(n, answer) PROVE AccessInv'
  <2>1. \/ settings' = settings /\ doing' = doing /\ desc' = desc
        \/ doing' = "set" /\ (stage = "off" \/ desc' = settings')
    BY <1>9, Responded DEF Access!Action
  <2>2. /\ doing = "idle"
        /\ stage' = stage /\ controls' = controls /\ changed' = changed /\ keys' = keys /\ slipped' = slipped
    BY <1>9 DEF Access!Action
  <2> QED BY <2>1, <2>2
<1>10. ASSUME NEW n, Access!Expire(n) PROVE AccessInv'
  BY <1>10 DEF Access!Expire, Access!both
<1>11. CASE Access!NotificationClosed
  BY <1>11 DEF Access!NotificationClosed, Access!both
<1>12. CASE Access!Start
  BY <1>12 DEF Access!Start, Access!both
<1>13. CASE Access!StartIdle
  BY <1>13 DEF Access!StartIdle, Access!Reads, Access!both
<1>14. CASE Access!Monitor
  BY <1>14 DEF Access!Monitor, Access!both
<1>15. CASE Access!Stop
  BY <1>15 DEF Access!Stop, Access!both
<1>16. CASE UNCHANGED Access!vars
  BY <1>16 DEF Access!vars
<1> QED
  BY <1>1, <1>2, <1>3, <1>4, <1>5, <1>6, <1>7, <1>8, <1>9, <1>10, <1>11, <1>12, <1>13, <1>14, <1>15, <1>16
     DEF Access!Next

LEMMA AccessAgrees == AllSpec => []Access!Agrees
<1>1. Access!Spec => []AccessInv
  BY AccessInit, AccessStep, PTL DEF Access!Spec
<1>2. AccessInv => Access!Agrees
  BY DEF AccessInv, Cap, Access!Agrees, Access!Quiet, Access!ForServer
<1> QED BY <1>1, <1>2, PartIsAccess, PTL

-----------------------------------------------------------------------------
(* The published settings.                                                 *)

Content == Value \cup Unknown \cup {Unset, "module", "empty"} \cup Nat
Setting == [lower : Content, upper : Content, last_change : Int]

PubTypes ==
  /\ serial \in Nat /\ notify_idle_id \in BOOLEAN /\ unseen \in BOOLEAN
  /\ gsettings \in [values : [Translated -> Value], override : [Published!Overridable -> Value \cup Unknown \cup {Unset}],
                    enabled : BOOLEAN, disabled : BOOLEAN]
  /\ gtk.modules \in {"module", "empty"}
  /\ fonts \in [now : Nat, loaded : Nat, monitor : {"idle", "on", "off"}, timer : BOOLEAN]
  /\ published \in [Published!Name -> Setting]

\* Whatever differs from the property is stamped later than it, and waits for
\* the idle.
Relayed ==
  /\ property.serial = serial - 1
  /\ ~notify_idle_id => \A n \in Published!Name : Published!Get(property.settings[n]) = Published!Get(published[n])
  /\ \A n \in Published!Name :
       Published!Get(property.settings[n]) # Published!Get(published[n]) => published[n].last_change = serial

FromSettings ==
  manager = "running" =>
    /\ overrides = gsettings.override
    /\ \A n \in Translated : published[n].lower = gsettings.values[n]
    /\ \A n \in Published!Overridable :
         gsettings.override[n] \in Value \cup {Unset} => published[n].upper = gsettings.override[n]
    /\ published[Published!Modules].lower = gtk.modules

FromFonts ==
  manager = "running" =>
    /\ fonts.monitor # "off"
    /\ ~fonts.timer /\ ~unseen => fonts.loaded = fonts.now
    /\ fonts.loaded > 0 => published[Published!Stamp].lower = fonts.loaded

PubInv == PubTypes /\ Relayed /\ FromSettings /\ FromFonts

\* A tier that is set is what it is set to, the other stays, and a setting that
\* reads differently is stamped.
LEMMA SetLower ==
  ASSUME NEW s \in Setting, NEW v \in Content, NEW t \in Nat, NEW r, r = Published!SetLower(s, v, t)
  PROVE  /\ r \in Setting /\ r.lower = v /\ r.upper = s.upper
         /\ IF Published!Get(r) = Published!Get(s) THEN r.last_change = s.last_change ELSE r.last_change = t
<1> DEFINE m == [s EXCEPT !.lower = v]
<1>1. m \in Setting /\ m.lower = v /\ m.upper = s.upper /\ m.last_change = s.last_change
  BY DEF Setting
<1>2. r = [m EXCEPT !.last_change = IF Published!Get(m) # Published!Get(s) THEN t ELSE @]
  BY DEF Published!SetLower, Published!Set
<1> HIDE DEF m
<1>3. r \in Setting /\ r.lower = v /\ r.upper = s.upper
  BY <1>1, <1>2 DEF Setting
<1>4. r.last_change = IF Published!Get(m) # Published!Get(s) THEN t ELSE s.last_change
  BY <1>1, <1>2 DEF Setting
<1>5. Published!Get(r) = Published!Get(m)
  BY <1>1, <1>3 DEF Published!Get
<1> QED BY <1>3, <1>4, <1>5

LEMMA SetUpper ==
  ASSUME NEW s \in Setting, NEW v \in Content, NEW t \in Nat, NEW r, r = Published!SetUpper(s, v, t)
  PROVE  /\ r \in Setting /\ r.upper = v /\ r.lower = s.lower
         /\ IF Published!Get(r) = Published!Get(s) THEN r.last_change = s.last_change ELSE r.last_change = t
<1> DEFINE m == [s EXCEPT !.upper = v]
<1>1. m \in Setting /\ m.upper = v /\ m.lower = s.lower /\ m.last_change = s.last_change
  BY DEF Setting
<1>2. r = [m EXCEPT !.last_change = IF Published!Get(m) # Published!Get(s) THEN t ELSE @]
  BY DEF Published!SetUpper, Published!Set
<1> HIDE DEF m
<1>3. r \in Setting /\ r.upper = v /\ r.lower = s.lower
  BY <1>1, <1>2 DEF Setting
<1>4. r.last_change = IF Published!Get(m) # Published!Get(s) THEN t ELSE s.last_change
  BY <1>1, <1>2 DEF Setting
<1>5. Published!Get(r) = Published!Get(m)
  BY <1>1, <1>3 DEF Published!Get
<1> QED BY <1>3, <1>4, <1>5

LEMMA PubInit == Published!Init => PubInv
<1> SUFFICES ASSUME Published!Init PROVE PubInv OBVIOUS
<1>1. PubTypes
  <2>1. gtk.modules \in {"module", "empty"}
    BY DEF Published!Init, Published!Answer
  <2>2. published \in [Published!Name -> Setting]
    <3>1. ASSUME NEW n \in Published!Name PROVE published[n] \in Setting
      <4> DEFINE low == CASE n \in Translated -> gsettings.values[n] [] n = Published!Modules -> gtk.modules [] OTHER -> Unset
      <4> DEFINE up == IF n \in Published!Overridable THEN gsettings.override[n] ELSE Unset
      <4>1. published[n] = [lower |-> low, upper |-> up, last_change |-> 0]
        BY DEF Published!Init
      <4>2. low \in Content
        <5>1. CASE n \in Translated
          <6>1. gsettings.values[n] \in Value BY <5>1 DEF Published!Init
          <6>2. low = gsettings.values[n]
            BY <5>1, TranslatedAssumption DEF Published!Modules
          <6> QED BY <6>1, <6>2 DEF Content
        <5>2. CASE n \notin Translated
          BY <5>2, <2>1 DEF Content
        <5> QED BY <5>1, <5>2
      <4>3. up \in Content
        BY DEF Content, Published!Init
      <4> HIDE DEF low, up
      <4> QED BY <4>1, <4>2, <4>3 DEF Setting
    <3> QED BY <3>1 DEF Published!Init
  <2> QED BY <2>1, <2>2 DEF Published!Init, PubTypes
<1>2. Relayed
  BY DEF Published!Init, Relayed
<1>3. FromSettings
  BY TranslatedAssumption DEF Published!Init, FromSettings, Published!Name, Published!Overridable, Published!Modules
<1>4. FromFonts
  BY DEF Published!Init, FromFonts
<1> QED BY <1>1, <1>2, <1>3, <1>4 DEF PubInv

\* What is changed is stamped with the serial, and the idle follows.
LEMMA Retold ==
  ASSUME Relayed, serial' = serial, property' = property, notify_idle_id',
         \A n \in Published!Name :
           \/ /\ Published!Get(published'[n]) = Published!Get(published[n])
              /\ published'[n].last_change = published[n].last_change
           \/ published'[n].last_change = serial
  PROVE  Relayed'
BY DEF Relayed

LEMMA PubStep == PubInv /\ [Published!Next]_Published!vars => PubInv'
<1> SUFFICES ASSUME PubInv, [Published!Next]_Published!vars PROVE PubInv' OBVIOUS
<1> USE DEF PubInv
<1>1. ASSUME NEW n \in Translated, NEW v \in Value, Published!WriteValue(n, v) PROVE PubInv'
  <2>0. n \in Published!Name /\ n \in Published!Overridable /\ v \in Content
        /\ n # Published!Modules /\ n # Published!Stamp
    BY TranslatedAssumption DEF Published!Name, Published!Overridable, Content, Published!Modules, Published!Stamp
  <2>1. /\ gsettings' = [gsettings EXCEPT !.values[n] = v]
        /\ UNCHANGED <<manager, directory, gtk, fonts, unseen, serial, overrides, property>>
    BY <1>1 DEF Published!WriteValue
  <2>2. CASE manager = "running"
    <3> DEFINE r == Published!SetLower(published[n], v, serial)
    <3>1. published' = [published EXCEPT ![n] = r] /\ notify_idle_id' = TRUE
      BY <1>1, <2>2 DEF Published!WriteValue
    <3>2. published[n] \in Setting /\ serial \in Nat
      BY <2>0 DEF PubTypes
    <3>3. /\ r \in Setting /\ r.lower = v /\ r.upper = published[n].upper
          /\ IF Published!Get(r) = Published!Get(published[n]) THEN r.last_change = published[n].last_change ELSE r.last_change = serial
      BY <2>0, <3>2, SetLower
    <3> HIDE DEF r
    <3>4. PubTypes'
      BY <2>0, <2>1, <3>1, <3>3 DEF PubTypes
    <3>5. \A m \in Published!Name : published'[m] = IF m = n THEN r ELSE published[m]
      BY <3>1 DEF PubTypes
    <3>6. Relayed'
      BY <2>1, <3>1, <3>3, <3>5, Retold
    <3>7. FromSettings'
      <4>1. \A m \in Translated : gsettings'.values[m] = IF m = n THEN v ELSE gsettings.values[m]
        BY <2>1 DEF PubTypes
      <4>2. gsettings'.override = gsettings.override
        BY <2>1 DEF PubTypes
      <4>3. \A m \in Published!Overridable : m \in Published!Name
        BY DEF Published!Name
      <4>4. \A m \in Translated : m \in Published!Name
        BY DEF Published!Name, Published!Overridable
      <4>5. Published!Modules \in Published!Name BY DEF Published!Name
      <4> QED BY <2>0, <2>1, <2>2, <3>3, <3>5, <4>1, <4>2, <4>3, <4>4, <4>5 DEF FromSettings
    <3>8. FromFonts'
      <4>1. Published!Stamp \in Published!Name BY DEF Published!Name
      <4> QED BY <2>0, <2>1, <3>5, <4>1 DEF FromFonts
    <3> QED BY <3>4, <3>6, <3>7, <3>8
  <2>3. CASE manager # "running"
    <3>1. UNCHANGED <<published, notify_idle_id>>
      BY <1>1, <2>3 DEF Published!WriteValue
    <3> QED BY <2>0, <2>1, <2>3, <3>1 DEF PubTypes, Relayed, FromSettings, FromFonts
  <2> QED BY <2>2, <2>3
<1>2. ASSUME NEW n \in Published!Overridable, NEW v \in Value \cup Unknown \cup {Unset}, Published!WriteOverride(n, v)
      PROVE PubInv'
  <2>1. /\ gsettings' = [gsettings EXCEPT !.override[n] = v]
        /\ UNCHANGED <<manager, directory, gtk, fonts, unseen, serial, property>>
    BY <1>2 DEF Published!WriteOverride
  <2>2. /\ gsettings'.override = [gsettings.override EXCEPT ![n] = v] /\ gsettings'.values = gsettings.values
        /\ gsettings' \in [values : [Translated -> Value], override : [Published!Overridable -> Value \cup Unknown \cup {Unset}],
                           enabled : BOOLEAN, disabled : BOOLEAN]
    BY <2>1 DEF PubTypes
  <2>3. CASE manager = "running"
    <3> DEFINE o == gsettings'.override
    <3>1. /\ published' = Published!Overridden(published, o)
          /\ overrides' = o /\ notify_idle_id' = TRUE
      BY <1>2, <2>3 DEF Published!WriteOverride
    <3>2. o \in [Published!Overridable -> Value \cup Unknown \cup {Unset}]
      BY <2>2
    <3>a. overrides \in [Published!Overridable -> Value \cup Unknown \cup {Unset}] /\ overrides = gsettings.override
      BY <2>3 DEF PubTypes, FromSettings
    <3> HIDE DEF o
    <3>3. ASSUME NEW m \in Published!Name
          PROVE /\ published'[m] \in Setting /\ published'[m].lower = published[m].lower
                /\ \/ /\ Published!Get(published'[m]) = Published!Get(published[m])
                      /\ published'[m].last_change = published[m].last_change
                   \/ published'[m].last_change = serial
                /\ m \in Published!Overridable /\ o[m] \in Value \cup {Unset} => published'[m].upper = o[m]
      <4>1. published[m] \in Setting /\ serial \in Nat
        BY DEF PubTypes
      <4>2. CASE m \in Published!Overridable /\ o[m] \in Value
        <5>1. published'[m] = Published!SetUpper(published[m], o[m], serial)
          BY <3>1, <4>2 DEF Published!Overridden
        <5>2. o[m] \in Content BY <4>2 DEF Content
        <5> QED BY <4>1, <5>1, <5>2, SetUpper
      <4>3. CASE m \in Published!Overridable /\ o[m] = Unset /\ overrides[m] # Unset /\ o[m] \notin Value
        <5>1. published'[m] = Published!SetUpper(published[m], Unset, serial)
          BY <3>1, <4>3 DEF Published!Overridden
        <5>2. Unset \in Content BY DEF Content
        <5> QED BY <4>1, <4>3, <5>1, <5>2, SetUpper
      <4>4. CASE ~(m \in Published!Overridable /\ (o[m] \in Value \/ (o[m] = Unset /\ overrides[m] # Unset)))
        <5>1. published'[m] = published[m]
          BY <3>1, <4>4 DEF Published!Overridden
        <5>2. m \in Published!Overridable /\ o[m] \in Value \cup {Unset} => published[m].upper = o[m]
          BY <2>3, <3>a, <4>4 DEF FromSettings
        <5> QED BY <4>1, <5>1, <5>2
      <4> QED BY <4>2, <4>3, <4>4
    <3>4. PubTypes'
      <4>1. published' \in [Published!Name -> Setting]
        BY <3>1, <3>3 DEF Published!Overridden
      <4> QED BY <2>1, <2>2, <3>1, <4>1 DEF PubTypes
    <3>6. Relayed'
      BY <2>1, <3>1, <3>3, Retold
    <3>7. FromSettings'
      <4>3. \A m \in Published!Overridable : m \in Published!Name
        BY DEF Published!Name
      <4>4. \A m \in Translated : m \in Published!Name
        BY DEF Published!Name, Published!Overridable
      <4>5. Published!Modules \in Published!Name BY DEF Published!Name
      <4>6. o = gsettings'.override BY DEF o
      <4> QED BY <2>1, <2>2, <2>3, <3>1, <3>3, <4>3, <4>4, <4>5, <4>6 DEF FromSettings
    <3>8. FromFonts'
      <4>1. Published!Stamp \in Published!Name BY DEF Published!Name
      <4> QED BY <2>1, <3>3, <4>1 DEF FromFonts
    <3> QED BY <3>4, <3>6, <3>7, <3>8
  <2>4. CASE manager # "running"
    <3>1. UNCHANGED <<published, notify_idle_id, overrides>>
      BY <1>2, <2>4 DEF Published!WriteOverride
    <3> QED BY <2>1, <2>2, <2>4, <3>1 DEF PubTypes, Relayed, FromSettings, FromFonts
  <2> QED BY <2>3, <2>4
<1>3. ASSUME NEW key \in {"enabled", "disabled"}, Published!WriteModules(key) PROVE PubInv'
  <2>1. /\ gsettings' = [gsettings EXCEPT ![key] = ~@]
        /\ UNCHANGED <<manager, directory, gtk, fonts, unseen, property, published, serial, overrides, notify_idle_id>>
    BY <1>3 DEF Published!WriteModules, Published!published
  <2>2. gsettings'.values = gsettings.values /\ gsettings'.override = gsettings.override
    BY <2>1 DEF PubTypes
  <2>3. PubTypes'
    BY <2>1 DEF PubTypes
  <2> QED BY <2>1, <2>2, <2>3 DEF Relayed, FromSettings, FromFonts
<1>4. ASSUME NEW later \in {0, 1}, Published!ChangeDirectory(later) PROVE PubInv'
  <2>0. /\ Published!Modules \in Published!Name /\ Published!Modules \notin Translated
        /\ Published!Modules # Published!Stamp
    BY TranslatedAssumption DEF Published!Name, Published!Modules, Published!Stamp
  <2>1. UNCHANGED <<manager, gsettings, fonts, serial, overrides, property>>
    BY <1>4 DEF Published!ChangeDirectory
  <2>2. CASE manager = "running"
    <3>1. \E w : /\ w \in {"module", "empty"} /\ gtk'.modules = w
                /\ IF w # gtk.modules
                   THEN /\ published' = [published EXCEPT ![Published!Modules] =
                                          Published!SetLower(published[Published!Modules], w, serial)]
                        /\ notify_idle_id' = TRUE
                   ELSE published' = published /\ notify_idle_id' = notify_idle_id
      <4> DEFINE seen == Published!Look(directory')
                 w == Published!Answer(seen.dir)
      <4>1. w \in {"module", "empty"}
        BY DEF Published!Answer
      <4>2. /\ gtk' = [time |-> seen.time, dir |-> seen.dir, modules |-> w]
            /\ published' = IF w # gtk.modules
                            THEN [published EXCEPT ![Published!Modules] =
                                    Published!SetLower(published[Published!Modules], w, serial)]
                            ELSE published
        BY <1>4, <2>2, Zenon DEF Published!ChangeDirectory
      <4>3. notify_idle_id' = (notify_idle_id \/ w # gtk.modules)
        BY <1>4, <2>2, Zenon DEF Published!ChangeDirectory
      <4>4. notify_idle_id \in BOOLEAN
        BY DEF PubTypes
      <4>5. gtk'.modules = w
        BY <4>2
      <4>6. IF w # gtk.modules THEN notify_idle_id' = TRUE ELSE notify_idle_id' = notify_idle_id
        BY <4>3, <4>4, Zenon
      <4> HIDE DEF w, seen
      <4> QED BY <4>1, <4>2, <4>5, <4>6, Zenon
    <3>2. unseen' \in BOOLEAN /\ (unseen => unseen')
      BY <1>4, <2>2, Zenon DEF Published!ChangeDirectory
    <3>3. PICK w : /\ w \in {"module", "empty"} /\ gtk'.modules = w
                   /\ IF w # gtk.modules
                      THEN /\ published' = [published EXCEPT ![Published!Modules] =
                                             Published!SetLower(published[Published!Modules], w, serial)]
                           /\ notify_idle_id' = TRUE
                      ELSE published' = published /\ notify_idle_id' = notify_idle_id
      BY <3>1
    <3>4. CASE w = gtk.modules
      <4>1. PubTypes' BY <2>1, <3>2, <3>3, <3>4 DEF PubTypes
      <4> QED BY <2>1, <3>2, <3>3, <3>4, <4>1 DEF Relayed, FromSettings, FromFonts
    <3>5. CASE w # gtk.modules
      <4> DEFINE s == published[Published!Modules]
                 r == Published!SetLower(s, w, serial)
      <4>1. w \in Content BY <3>3 DEF Content
      <4>2. s \in Setting /\ serial \in Nat BY <2>0 DEF PubTypes
      <4>3. r = Published!SetLower(s, w, serial) OBVIOUS
      <4>4. published' = [published EXCEPT ![Published!Modules] = r] /\ notify_idle_id' = TRUE
        BY <3>3, <3>5
      <4>5. \A m \in Published!Name : published'[m] = IF m = Published!Modules THEN r ELSE published[m]
        BY <4>4 DEF PubTypes
      <4>6. s = published[Published!Modules] OBVIOUS
      <4> HIDE DEF s, r
      <4>7. /\ r \in Setting /\ r.lower = w /\ r.upper = s.upper
            /\ IF Published!Get(r) = Published!Get(s) THEN r.last_change = s.last_change ELSE r.last_change = serial
        BY <4>1, <4>2, <4>3, SetLower
      <4>8. PubTypes'
        <5>1. published' \in [Published!Name -> Setting]
          BY <4>4, <4>7 DEF PubTypes
        <5> QED BY <2>1, <3>2, <3>3, <4>4, <5>1 DEF PubTypes
      <4>9. Relayed'
        BY <2>1, <4>4, <4>5, <4>6, <4>7, Retold
      <4>10. FromSettings'
        <5>1. \A m \in Published!Overridable : m \in Published!Name
          BY DEF Published!Name
        <5>2. \A m \in Translated : m \in Published!Name
          BY DEF Published!Name, Published!Overridable
        <5>3. \A m \in Translated : m # Published!Modules
          BY <2>0
        <5>4. \A m \in Translated : published'[m] = published[m]
          BY <4>5, <5>2, <5>3
        <5>5. \A m \in Published!Overridable : published'[m].upper = published[m].upper
          BY <4>5, <4>6, <4>7, <5>1
        <5>6. published'[Published!Modules].lower = gtk'.modules
          BY <2>0, <3>3, <4>5, <4>7
        <5> QED BY <2>1, <2>2, <5>4, <5>5, <5>6 DEF FromSettings
      <4>11. FromFonts'
        <5>1. published'[Published!Stamp] = published[Published!Stamp]
          BY <2>0, <4>5 DEF Published!Name
        <5> QED BY <2>1, <3>2, <5>1 DEF FromFonts
      <4> QED BY <4>8, <4>9, <4>10, <4>11
    <3> QED BY <3>4, <3>5
  <2>3. CASE manager # "running"
    <3>1. UNCHANGED <<gtk, published, notify_idle_id, unseen>>
      BY <1>4, <2>3 DEF Published!ChangeDirectory
    <3> QED BY <2>1, <2>3, <3>1 DEF PubTypes, Relayed, FromSettings, FromFonts
  <2> QED BY <2>2, <2>3
<1>5. CASE Published!ChangeFonts
  <2>1. /\ fonts' = [fonts EXCEPT !.now = @ + 1, !.timer = @ \/ fonts.monitor = "on"]
        /\ unseen' = (unseen \/ fonts.monitor # "on")
        /\ UNCHANGED <<manager, gsettings, gtk, property, published, serial, overrides, notify_idle_id>>
    BY <1>5 DEF Published!ChangeFonts, Published!published
  <2>2. /\ fonts'.monitor = fonts.monitor /\ fonts'.loaded = fonts.loaded /\ fonts'.now = fonts.now + 1
        /\ fonts'.timer = (fonts.timer \/ fonts.monitor = "on")
    BY <2>1 DEF PubTypes
  <2>3. PubTypes'
    <3>0. fonts.now \in Nat BY DEF PubTypes
    <3>1. fonts.now + 1 \in Nat BY <3>0
    <3>2. fonts' \in [now : Nat, loaded : Nat, monitor : {"idle", "on", "off"}, timer : BOOLEAN]
      BY <2>1, <3>1 DEF PubTypes
    <3>3. unseen' \in BOOLEAN BY <2>1 DEF PubTypes
    <3> QED BY <2>1, <3>2, <3>3 DEF PubTypes
  <2> QED BY <2>1, <2>2, <2>3 DEF Relayed, FromSettings, FromFonts
<1>6. CASE Published!StartMonitor
  <2>1. /\ fonts' = [fonts EXCEPT !.monitor = "on"] /\ fonts.monitor = "idle"
        /\ UNCHANGED <<manager, gsettings, gtk, unseen, property, published, serial, overrides, notify_idle_id>>
    BY <1>6 DEF Published!StartMonitor, Published!published
  <2>3. PubTypes'
    BY <2>1 DEF PubTypes
  <2>4. fonts'.monitor = "on" /\ fonts'.timer = fonts.timer /\ fonts'.loaded = fonts.loaded /\ fonts'.now = fonts.now
    BY <2>1 DEF PubTypes
  <2>5. FromFonts'
    BY <2>1, <2>4 DEF FromFonts
  <2> QED BY <2>1, <2>3, <2>5 DEF Relayed, FromSettings
<1>7. CASE Published!Update
  <2>1. /\ fonts.timer /\ fonts' = [fonts EXCEPT !.timer = FALSE, !.loaded = fonts.now]
        /\ UNCHANGED <<gsettings, gtk, unseen, property>>
    BY <1>7 DEF Published!Update
  <2>2. fonts'.monitor = fonts.monitor /\ fonts'.loaded = fonts.now /\ fonts'.now = fonts.now
    BY <2>1 DEF PubTypes
  <2>3. CASE manager = "stopped"
    <3>1. UNCHANGED <<published, serial, overrides, notify_idle_id>> /\ manager' # "running"
      BY <1>7, <2>3 DEF Published!Update, Published!published
    <3>2. PubTypes' BY <2>1, <3>1 DEF PubTypes
    <3> QED BY <2>1, <3>1, <3>2 DEF Relayed, FromSettings, FromFonts
  <2>4. CASE manager # "stopped" /\ fonts.loaded = fonts.now
    <3>1. UNCHANGED <<published, serial, overrides, manager>>
      BY <1>7, <2>4 DEF Published!Update
    <3>2. notify_idle_id' = notify_idle_id
      BY <1>7, <2>4, Zenon DEF Published!Update, PubTypes
    <3>3. PubTypes' BY <2>1, <3>1, <3>2 DEF PubTypes
    <3> QED BY <2>1, <2>2, <2>4, <3>1, <3>2, <3>3 DEF Relayed, FromSettings, FromFonts
  <2>5. CASE manager # "stopped" /\ fonts.loaded # fonts.now
    <3> DEFINE r == Published!SetLower(published[Published!Stamp], fonts.now, serial)
    <3>0. /\ Published!Stamp \in Published!Name /\ Published!Modules \in Published!Name
          /\ Published!Stamp \notin Translated /\ Published!Stamp # Published!Modules
          /\ fonts.now \in Content
      BY TranslatedAssumption DEF Published!Name, Published!Stamp, Published!Modules, Content, PubTypes
    <3>1. /\ published' = [published EXCEPT ![Published!Stamp] = r]
          /\ notify_idle_id' = TRUE /\ UNCHANGED <<serial, overrides, manager>>
      BY <1>7, <2>5 DEF Published!Update
    <3>2. published[Published!Stamp] \in Setting /\ serial \in Nat
      BY <3>0 DEF PubTypes
    <3>3. /\ r \in Setting /\ r.lower = fonts.now /\ r.upper = published[Published!Stamp].upper
          /\ IF Published!Get(r) = Published!Get(published[Published!Stamp])
             THEN r.last_change = published[Published!Stamp].last_change ELSE r.last_change = serial
      BY <3>0, <3>2, SetLower
    <3> HIDE DEF r
    <3>4. PubTypes'
      BY <2>1, <3>0, <3>1, <3>3 DEF PubTypes
    <3>5. \A m \in Published!Name : published'[m] = IF m = Published!Stamp THEN r ELSE published[m]
      BY <3>1 DEF PubTypes
    <3>6. Relayed'
      BY <2>1, <3>1, <3>3, <3>5, Retold
    <3>7. FromSettings'
      <4>3. \A m \in Published!Overridable : m \in Published!Name
        BY DEF Published!Name
      <4>4. \A m \in Translated : m \in Published!Name
        BY DEF Published!Name, Published!Overridable
      <4> QED BY <2>1, <3>0, <3>1, <3>3, <3>5, <4>3, <4>4 DEF FromSettings
    <3>8. FromFonts'
      BY <2>2, <3>0, <3>1, <3>3, <3>5 DEF FromFonts
    <3> QED BY <3>4, <3>6, <3>7, <3>8
  <2> QED BY <2>3, <2>4, <2>5
<1>8. CASE Published!NotifyIdle
  <2>1. UNCHANGED <<gsettings, gtk, fonts, unseen, published, overrides>>
    BY <1>8 DEF Published!NotifyIdle
  <2>2. CASE manager = "stopped"
    <3>1. manager' = "crashed" /\ UNCHANGED <<serial, notify_idle_id, property>>
      BY <1>8, <2>2 DEF Published!NotifyIdle
    <3> QED BY <2>1, <3>1 DEF PubTypes, Relayed, FromSettings, FromFonts
  <2>3. CASE manager # "stopped"
    <3>1. property' = [serial |-> serial, settings |-> published] /\ serial' = serial + 1 /\ notify_idle_id' = FALSE /\ manager' = manager
      BY <1>8, <2>3 DEF Published!NotifyIdle, Published!Published
    <3>a. serial \in Nat BY DEF PubTypes
    <3>b. serial + 1 \in Nat /\ serial = (serial + 1) - 1
      BY <3>a
    <3>0. serial + 1 \in Nat /\ serial = (serial + 1) - 1 /\ notify_idle_id' \in BOOLEAN
      BY <3>1, <3>b
    <3>2. PubTypes' BY <2>1, <3>0, <3>1 DEF PubTypes
    <3>4. property'.serial = serial /\ property'.settings = published' BY <2>1, <3>1
    <3>3. Relayed' BY <3>0, <3>1, <3>4 DEF Relayed
    <3> QED BY <2>1, <3>1, <3>2, <3>3 DEF FromSettings, FromFonts
  <2> QED BY <2>2, <2>3
<1>9. CASE Published!Stop
  <2>1. /\ manager' = "stopped"
        /\ UNCHANGED <<gsettings, gtk, unseen, property, published, serial, overrides, notify_idle_id>>
    BY <1>9 DEF Published!Stop, Published!published
  <2>2. PubTypes' BY <1>9, <2>1 DEF Published!Stop, PubTypes
  <2> QED BY <2>1, <2>2 DEF Relayed, FromSettings, FromFonts
<1>10. CASE UNCHANGED Published!vars
  BY <1>10 DEF Published!vars, PubTypes, Relayed, FromSettings, FromFonts
<1> QED BY <1>1, <1>2, <1>3, <1>4, <1>5, <1>6, <1>7, <1>8, <1>9, <1>10 DEF Published!Next

LEMMA PublishedKept == AllSpec => []PubInv
<1>1. Published!Spec => []PubInv
  BY PubInit, PubStep, PTL DEF Published!Spec
<1> QED BY <1>1, PartIsPublished, PTL

LEMMA PublishedAgrees == AllSpec => []Published!Agrees
<1>1. PubInv => Published!Agrees
  <2> SUFFICES ASSUME PubInv, manager = "running" PROVE Published!Agrees
    BY DEF Published!Agrees
  <2>1. \A n \in Published!Name :
          Published!Get(property.settings[n]) # Published!Get(published[n]) => published[n].last_change > property.serial
    <3>0. serial \in Nat /\ property.serial = serial - 1
      BY DEF PubInv, Relayed, PubTypes
    <3>1. serial > property.serial
      BY <3>0
    <3> QED BY <3>1 DEF PubInv, Relayed
  <2> QED BY <2>1 DEF PubInv, FromSettings, FromFonts, Relayed, Published!Agrees
<1> QED BY <1>1, PublishedKept, PTL

-----------------------------------------------------------------------------
(* Sequences of news.                                                      *)

LEMMA CardSame == \A S : Pointer!Cardinality(S) = Cardinality(S)
BY DEF Pointer!Cardinality, Cardinality

\* A sequence of a finite set has each of its elements, and no other.
LEMMA Enumerated ==
  ASSUME NEW S, IsFiniteSet(S)
  PROVE  /\ Pointer!Cardinality(S) \in Nat
         /\ Pointer!SetToSeq(S) \in [1 .. Pointer!Cardinality(S) -> S]
         /\ \A x \in S : \E i \in 1 .. Pointer!Cardinality(S) : Pointer!SetToSeq(S)[i] = x
<1> DEFINE n == Cardinality(S)
<1>1. n \in Nat /\ ExistsBijection(1 .. n, S)
  BY FS_CardinalityType
<1>2. PICK g \in Bijection(1 .. n, S) : TRUE
  BY <1>1 DEF ExistsBijection
<1>3. g \in [1 .. n -> S] /\ Pointer!IsInjective(g)
  BY <1>2 DEF Bijection, Injection, IsInjective, Pointer!IsInjective
<1>4. Pointer!Cardinality(S) = n BY CardSame
<1> DEFINE f == Pointer!SetToSeq(S)
<1>5. f \in [1 .. n -> S] /\ Pointer!IsInjective(f)
  BY <1>3, <1>4 DEF Pointer!SetToSeq
<1> HIDE DEF f, n
<1>6. f \in Injection(1 .. n, S)
  BY <1>5 DEF Injection, IsInjective, Pointer!IsInjective
<1>7. f \in Surjection(1 .. n, S)
  <2>1. Cardinality(1 .. n) = n BY <1>1, FS_Interval
  <2> QED BY <1>6, <2>1, FS_Injection DEF n
<1> QED BY <1>1, <1>4, <1>5, <1>7 DEF f, Surjection

-----------------------------------------------------------------------------
(* The touchpads.                                                          *)
PadNews == [kind : {"added", "removed"}, id : Pad]

\* The last news of a touchpad says whether it is on; of one without news GDK
\* knows.
Newest(ev, s) ==
  \A i \in 1 .. Len(ev) :
    (\A j \in 1 .. Len(ev) : j > i => ev[j].id # ev[i].id) => (ev[i].kind = "added" <=> ev[i].id \in s)
Has(ev, id) == \E i \in 1 .. Len(ev) : ev[i].id = id
Unreported(ev, s, k) == \A id : ~Has(ev, id) => (id \in k <=> id \in s)

\* The touchpads of S are switched, and the news of it is appended.
Swapped(s, s2, S, kind) ==
  (\A x : x \notin S => (x \in s2 <=> x \in s)) /\ (\A x \in S : x \in s2 <=> kind = "added")
NewsOf(S, kind) == [i \in 1 .. Pointer!Cardinality(S) |-> Pointer!Event(kind, Pointer!SetToSeq(S)[i])]
Tells(e2, ev, m, S, kind) ==
  /\ Len(e2) = Len(ev) + m
  /\ \A i \in 1 .. Len(ev) : e2[i] = ev[i]
  /\ \A i \in 1 .. m : e2[Len(ev) + i].kind = kind /\ e2[Len(ev) + i].id \in S
  /\ \A x \in S : \E i \in 1 .. m : e2[Len(ev) + i].id = x
NowHas(e2, ev, S) == \A id : Has(e2, id) <=> (Has(ev, id) \/ id \in S)

LEMMA NewsAppended ==
  ASSUME NEW ev \in Seq(PadNews), NEW s, NEW k, Newest(ev, s), Unreported(ev, s, k),
         NEW e2 \in Seq(PadNews), NEW m \in Nat, NEW kind, NEW ids, Tells(e2, ev, m, ids, kind),
         NEW s2, Swapped(s, s2, ids, kind)
  PROVE  Newest(e2, s2) /\ Unreported(e2, s2, k) /\ NowHas(e2, ev, ids)
<1> DEFINE n == Len(ev)
<1>a. n \in Nat OBVIOUS
<1>b. Len(e2) = n + m /\ (\A i \in 1 .. n : e2[i] = ev[i])
  BY DEF Tells
<1>c. \A i \in 1 .. m : e2[n + i].kind = kind /\ e2[n + i].id \in ids
  BY DEF Tells
<1>d. \A x \in ids : \E i \in 1 .. m : e2[n + i].id = x
  BY DEF Tells
<1>e. \A x : x \notin ids => (x \in s2 <=> x \in s)
  BY DEF Swapped
<1>f. \A x \in ids : x \in s2 <=> kind = "added"
  BY DEF Swapped
<1>g. n = Len(ev) OBVIOUS
<1> HIDE DEF n
<1>1. \A i \in 1 .. n : i \in 1 .. n + m
  BY <1>a
<1>2. \A i \in 1 .. m : n + i \in 1 .. n + m /\ n + i > n
  BY <1>a
<1>3. \A i \in 1 .. n + m : i \in 1 .. n \/ \E j \in 1 .. m : i = n + j
  <2> TAKE i \in 1 .. n + m
  <2>1. CASE i <= n BY <1>a, <2>1
  <2>2. CASE i > n
    <3>1. i - n \in 1 .. m /\ i = n + (i - n) BY <1>a, <2>2
    <3> QED BY <3>1
  <2> QED BY <1>a, <2>1, <2>2
<1>4. ASSUME NEW i \in 1 .. n + m, \A j \in 1 .. n + m : j > i => e2[j].id # e2[i].id
      PROVE e2[i].kind = "added" <=> e2[i].id \in s2
  <2>1. CASE i \in 1 .. n
    <3>1. e2[i] = ev[i] BY <1>b, <2>1
    <3>2. ev[i].id \notin ids
      <4> SUFFICES ASSUME ev[i].id \in ids PROVE FALSE OBVIOUS
      <4>1. PICK j \in 1 .. m : e2[n + j].id = ev[i].id BY <1>d
      <4>2. n + j \in 1 .. n + m /\ n + j > i BY <1>a, <2>1
      <4> QED BY <1>4, <3>1, <4>1, <4>2
    <3>3. \A j \in 1 .. n : j > i => ev[j].id # ev[i].id
      BY <1>1, <1>b, <1>4, <3>1
    <3> QED BY <1>e, <1>g, <2>1, <3>1, <3>2, <3>3 DEF Newest
  <2>2. CASE i \notin 1 .. n
    <3>1. PICK j \in 1 .. m : i = n + j
      BY <1>3, <2>2
    <3>2. e2[i].kind = kind /\ e2[i].id \in ids
      BY <1>c, <3>1
    <3> QED BY <1>f, <3>2
  <2> QED BY <2>1, <2>2
<1>5. ASSUME NEW id PROVE Has(e2, id) <=> (Has(ev, id) \/ id \in ids)
  <2>1. ASSUME NEW i \in 1 .. n + m, e2[i].id = id PROVE Has(ev, id) \/ id \in ids
    <3>1. CASE i \in 1 .. n BY <1>b, <1>g, <2>1, <3>1 DEF Has
    <3>2. CASE i \notin 1 .. n
      <4>1. PICK j \in 1 .. m : i = n + j BY <1>3, <3>2
      <4> QED BY <1>c, <2>1, <4>1
    <3> QED BY <3>1, <3>2
  <2>2. ASSUME NEW i \in 1 .. n, ev[i].id = id PROVE Has(e2, id)
    BY <1>1, <1>b, <2>2 DEF Has
  <2>3. ASSUME id \in ids PROVE Has(e2, id)
    <3>1. PICK i \in 1 .. m : e2[n + i].id = id BY <1>d, <2>3
    <3>2. n + i \in 1 .. n + m BY <1>2
    <3> QED BY <1>b, <3>1, <3>2 DEF Has
  <2> QED BY <1>b, <1>g, <2>1, <2>2, <2>3 DEF Has
<1>6. ASSUME NEW id, ~Has(e2, id) PROVE id \in k <=> id \in s2
  BY <1>e, <1>5, <1>6 DEF Unreported
<1>7. Newest(e2, s2) BY <1>b, <1>4 DEF Newest
<1>8. Unreported(e2, s2, k) BY <1>6 DEF Unreported
<1> QED BY <1>5, <1>7, <1>8 DEF NowHas

LEMMA NewsDispatched ==
  ASSUME NEW ev \in Seq(PadNews), ev # <<>>, NEW s, NEW k, Newest(ev, s), Unreported(ev, s, k),
         NEW k2, \A x : x # Head(ev).id => (x \in k2 <=> x \in k),
         Head(ev).id \in k2 <=> Head(ev).kind = "added"
  PROVE  /\ Newest(Tail(ev), s) /\ Unreported(Tail(ev), s, k2)
         /\ \A id : Has(Tail(ev), id) => Has(ev, id)
         /\ \A id : id # Head(ev).id /\ Has(ev, id) => Has(Tail(ev), id)
         /\ Has(ev, Head(ev).id)
<1> DEFINE n == Len(ev)
<1>1. n \in Nat /\ n > 0 /\ Len(Tail(ev)) = n - 1 /\ Head(ev) = ev[1]
      /\ \A i \in 1 .. n - 1 : Tail(ev)[i] = ev[i + 1]
  OBVIOUS
<1> HIDE DEF n
<1>2. \A i \in 1 .. n - 1 : i + 1 \in 1 .. n /\ i + 1 > 1
  BY <1>1
<1>3. \A j \in 1 .. n : j > 1 => j - 1 \in 1 .. n - 1 /\ Tail(ev)[j - 1] = ev[j]
  <2> TAKE j \in 1 .. n
  <2> HAVE j > 1
  <2>1. j - 1 \in 1 .. n - 1 /\ (j - 1) + 1 = j BY <1>1
  <2> QED BY <1>1, <2>1
<1>4. ASSUME NEW i \in 1 .. n - 1, \A j \in 1 .. n - 1 : j > i => Tail(ev)[j].id # Tail(ev)[i].id
      PROVE Tail(ev)[i].kind = "added" <=> Tail(ev)[i].id \in s
  <2>1. Tail(ev)[i] = ev[i + 1] /\ i + 1 \in 1 .. n BY <1>1, <1>2
  <2>2. ASSUME NEW j \in 1 .. n, j > i + 1 PROVE ev[j].id # ev[i + 1].id
    <3>1. j > 1 /\ j - 1 > i BY <1>1, <2>2
    <3> QED BY <1>3, <1>4, <2>1, <3>1
  <2> QED BY <2>1, <2>2 DEF Newest, n
<1>5. ASSUME NEW id, Has(Tail(ev), id) PROVE Has(ev, id)
  <2>1. PICK i \in 1 .. n - 1 : Tail(ev)[i].id = id BY <1>1, <1>5 DEF Has
  <2>2. i + 1 \in 1 .. n /\ ev[i + 1].id = id BY <1>1, <1>2, <2>1
  <2> QED BY <2>2 DEF Has, n
<1>6. ASSUME NEW id, id # Head(ev).id, Has(ev, id) PROVE Has(Tail(ev), id)
  <2>1. PICK j \in 1 .. n : ev[j].id = id BY <1>6 DEF Has, n
  <2>2. j > 1 BY <1>1, <1>6, <2>1
  <2> QED BY <1>1, <1>3, <2>1, <2>2 DEF Has
<1>7. Has(ev, Head(ev).id)
  <2>1. 1 \in 1 .. n BY <1>1
  <2> QED BY <1>1, <2>1 DEF Has, n
<1>8. ASSUME NEW id, ~Has(Tail(ev), id) PROVE id \in k2 <=> id \in s
  <2>2. CASE id = Head(ev).id
    <3>1. 1 \in 1 .. n BY <1>1
    <3>3. \A j \in 1 .. n : j > 1 => ev[j].id # id
      BY <1>1, <1>3, <1>8 DEF Has
    <3>2. ev[1].kind = "added" <=> ev[1].id \in s
      BY <1>1, <2>2, <3>1, <3>3 DEF Newest, n
    <3> QED BY <1>1, <2>2, <3>2
  <2>3. CASE id # Head(ev).id
    BY <1>6, <1>8, <2>3 DEF Unreported
  <2> QED BY <2>2, <2>3
<1>9. Newest(Tail(ev), s) BY <1>1, <1>4 DEF Newest
<1>10. Unreported(Tail(ev), s, k2) BY <1>8 DEF Unreported
<1> QED BY <1>5, <1>6, <1>7, <1>9, <1>10


LEMMA Joined ==
  ASSUME NEW T, NEW a \in Seq(T), NEW b \in Seq(T), NEW m \in Nat, Len(b) = m
  PROVE  /\ a \o b \in Seq(T) /\ Len(a \o b) = Len(a) + m /\ Len(a) \in Nat
         /\ \A i \in 1 .. Len(a) : (a \o b)[i] = a[i]
         /\ \A i \in 1 .. m : (a \o b)[Len(a) + i] = b[i]
<1>1. a \o b \in Seq(T) /\ Len(a \o b) = Len(a) + m /\ Len(a) \in Nat
  OBVIOUS
<1>2. \A i \in 1 .. Len(a) : (a \o b)[i] = a[i]
  OBVIOUS
<1>3. ASSUME NEW i \in 1 .. m PROVE (a \o b)[Len(a) + i] = b[i]
  <2>1. Len(a) + i \in 1 .. Len(a) + m /\ ~(Len(a) + i <= Len(a)) /\ (Len(a) + i) - Len(a) = i
    BY <1>1
  <2> QED BY <2>1
<1> QED BY <1>1, <1>2, <1>3

\* PadNews of a set of touchpads that the server has switched.
LEMMA SetAppended ==
  ASSUME NEW ev \in Seq(PadNews), NEW s, NEW k, Newest(ev, s), Unreported(ev, s, k),
         NEW S \in SUBSET Pad, NEW kind \in {"added", "removed"}, NEW e2, e2 = ev \o NewsOf(S, kind),
         NEW s2, Swapped(s, s2, S, kind)
  PROVE  e2 \in Seq(PadNews) /\ Newest(e2, s2) /\ Unreported(e2, s2, k) /\ NowHas(e2, ev, S)
<1> DEFINE m == Pointer!Cardinality(S)
           q == Pointer!SetToSeq(S)
           n == Len(ev)
           more == [i \in 1 .. m |-> Pointer!Event(kind, q[i])]
<1>1. IsFiniteSet(S) BY PadAssumption, FS_Subset
<1>2. m \in Nat /\ q \in [1 .. m -> S] /\ \A x \in S : \E i \in 1 .. m : q[i] = x
  BY <1>1, Enumerated
<1> HIDE DEF m, q
<1>3. \A i \in 1 .. m : more[i] \in PadNews /\ more[i].kind = kind /\ more[i].id = q[i] /\ q[i] \in S
  BY <1>2 DEF Pointer!Event, PadNews
<1>4. more \in Seq(PadNews) /\ Len(more) = m
  BY <1>2, <1>3
<1>5. e2 = ev \o more BY DEF m, q, NewsOf
<1> HIDE DEF more
<1>6. /\ e2 \in Seq(PadNews) /\ Len(e2) = n + m /\ n \in Nat
      /\ \A i \in 1 .. n : e2[i] = ev[i]
      /\ \A i \in 1 .. m : e2[n + i] = more[i]
  <2>1. m \in Nat /\ ev \in Seq(PadNews) /\ more \in Seq(PadNews) /\ Len(more) = m BY <1>2, <1>4
  <2>2. /\ ev \o more \in Seq(PadNews) /\ Len(ev \o more) = Len(ev) + m /\ Len(ev) \in Nat
        /\ \A i \in 1 .. Len(ev) : (ev \o more)[i] = ev[i]
        /\ \A i \in 1 .. m : (ev \o more)[Len(ev) + i] = more[i]
    BY ONLY <2>1, Joined
  <2> QED BY <1>5, <2>2
<1>7. n = Len(ev) OBVIOUS
<1> HIDE DEF n
<1>8. \A i \in 1 .. m : e2[n + i].kind = kind /\ e2[n + i].id \in S
  BY <1>3, <1>6
<1>9. \A x \in S : \E i \in 1 .. m : e2[n + i].id = x
  <2> TAKE x \in S
  <2>1. PICK i \in 1 .. m : q[i] = x BY <1>2
  <2>2. e2[n + i].id = x BY <1>3, <1>6, <2>1
  <2> QED BY <2>2
<1>a. m \in Nat /\ n \in Nat /\ e2 \in Seq(PadNews) /\ Len(e2) = n + m /\ \A i \in 1 .. n : e2[i] = ev[i]
  BY <1>2, <1>6
<1>10. Tells(e2, ev, m, S, kind)
  BY <1>a, <1>7, <1>8, <1>9 DEF Tells
<1> QED BY <1>a, <1>10, NewsAppended

-----------------------------------------------------------------------------
(* The invariant.                                                          *)

\* With one helper at a time whose end is noticed before anything else.
Helped ==
  /\ ~started => helpers = {} /\ dead = <<>> /\ ~syndaemon.spawned
  /\ ~Lingers => /\ dead = <<>> => helpers = IF syndaemon.spawned THEN {syndaemon.pid} ELSE {}
                 /\ dead # <<>> => helpers = {} /\ Tail(dead) = <<>>
                 /\ helpers # {} => typing

MouseTypes ==
  /\ events \in Seq(PadNews) /\ on \subseteq pads /\ pads \subseteq Pad
  /\ started \in BOOLEAN /\ enabled \in BOOLEAN /\ typing \in BOOLEAN
  /\ syndaemon \in [spawned : BOOLEAN, pid : Nat] /\ last \in Nat /\ dead \in Seq(Nat)
  /\ helpers \subseteq Nat

Reported == Newest(events, on) /\ Unreported(events, on, known)

\* One that was off from the start, or that a custom command takes care of, is
\* off only as long as nothing was heard of it.
Untouched ==
  \A id \in pads \ on : id \in Custom \/ ~started => id \notin known /\ ~Has(events, id)

PadsFollowed ==
  started =>
    /\ blacklist = known \cap Custom
    /\ enabled => pads \subseteq on
    /\ ~enabled => \A id \in on \ Custom : Has(events, id)

MouseInv == MouseTypes /\ Helped /\ Reported /\ Untouched /\ PadsFollowed

LEMMA MouseInit == Pointer!Init => MouseInv
<1> SUFFICES ASSUME Pointer!Init PROVE MouseInv OBVIOUS
<1> USE DEF Pointer!Init
<1>1. \A id : ~Has(<<>>, id)
  BY DEF Has
<1>2. <<>> \in Seq(PadNews) /\ <<>> \in Seq(Nat) OBVIOUS
<1>3. MouseTypes BY <1>2 DEF MouseTypes
<1>4. Reported BY <1>1 DEF Reported, Newest, Unreported
<1>5. Helped /\ PadsFollowed BY DEF Helped, PadsFollowed
<1>6. Untouched BY <1>1 DEF Untouched
<1> QED BY <1>3, <1>4, <1>5, <1>6 DEF MouseInv

LEMMA SwitchedOn ==
  ASSUME MouseTypes, Reported, NEW ids, Pointer!Enable(ids), NEW S, S = (ids \cap pads) \ on
  PROVE  /\ on' = on \cup S /\ pads' = pads /\ events' \in Seq(PadNews)
         /\ Newest(events', on') /\ Unreported(events', on', known)
         /\ NowHas(events', events, S)
<1>1. S \in SUBSET Pad BY DEF MouseTypes
<1>2. /\ on' = on \cup S /\ pads' = pads
      /\ events' = events \o NewsOf(S, "added")
  BY DEF Pointer!Enable, NewsOf
<1> DEFINE e2 == events'
           s2 == on'
<1>3. Swapped(on, s2, S, "added") BY <1>1, <1>2 DEF Swapped
<1>4. e2 = events \o NewsOf(S, "added") BY <1>2
<1> HIDE DEF e2, s2
<1>5. events \in Seq(PadNews) /\ Newest(events, on) /\ Unreported(events, on, known) BY DEF MouseTypes, Reported
<1>6. e2 \in Seq(PadNews) /\ Newest(e2, s2) /\ Unreported(e2, s2, known) /\ NowHas(e2, events, S)
  BY <1>1, <1>3, <1>4, <1>5, SetAppended
<1> QED BY <1>2, <1>6 DEF e2, s2

LEMMA SwitchedOff ==
  ASSUME MouseTypes, Reported, NEW ids, Pointer!Disable(ids), NEW S, S = ids \cap on
  PROVE  /\ on' = on \ S /\ pads' = pads /\ events' \in Seq(PadNews)
         /\ Newest(events', on') /\ Unreported(events', on', known)
         /\ NowHas(events', events, S)
<1>1. S \in SUBSET Pad BY DEF MouseTypes
<1>2. /\ on' = on \ S /\ pads' = pads
      /\ events' = events \o NewsOf(S, "removed")
  BY DEF Pointer!Disable, NewsOf
<1> DEFINE e2 == events'
           s2 == on'
<1>3. Swapped(on, s2, S, "removed") BY <1>1, <1>2 DEF Swapped
<1>4. e2 = events \o NewsOf(S, "removed") BY <1>2
<1> HIDE DEF e2, s2
<1>5. events \in Seq(PadNews) /\ Newest(events, on) /\ Unreported(events, on, known) BY DEF MouseTypes, Reported
<1>6. e2 \in Seq(PadNews) /\ Newest(e2, s2) /\ Unreported(e2, s2, known) /\ NowHas(e2, events, S)
  BY <1>1, <1>3, <1>4, <1>5, SetAppended
<1> QED BY <1>2, <1>6 DEF e2, s2

\* set_disable_w_typing, with no helper's end unnoticed.
LEMMA Supervised ==
  ASSUME MouseTypes, Helped, ~Lingers => dead = <<>>, NEW wanted \in BOOLEAN,
         Pointer!SetDisableWTyping(wanted)
  PROVE  /\ typing' \in BOOLEAN /\ syndaemon' \in [spawned : BOOLEAN, pid : Nat] /\ last' \in Nat
         /\ dead' \in Seq(Nat) /\ helpers' \subseteq Nat
         /\ ~Lingers => /\ dead' = <<>> => helpers' = IF syndaemon'.spawned THEN {syndaemon'.pid} ELSE {}
                        /\ dead' # <<>> => helpers' = {} /\ Tail(dead') = <<>>
                        /\ helpers' # {} => typing'
<1> USE DEF MouseTypes, Helped
<1>1. CASE wanted /\ pads # {} /\ ~syndaemon.spawned
  <2>1. \/ /\ last' = last + 1 /\ helpers' = helpers \cup {last'}
           /\ syndaemon' = [spawned |-> TRUE, pid |-> last'] /\ typing' = wanted /\ dead' = dead
        \/ typing' \in {wanted, FALSE} /\ UNCHANGED <<helpers, last, syndaemon, dead>>
    BY <1>1 DEF Pointer!SetDisableWTyping, Pointer!processes
  <2>2. CASE typing' \in {wanted, FALSE} /\ UNCHANGED <<helpers, last, syndaemon, dead>>
    BY <1>1, <2>2
  <2>3. CASE last' = last + 1 /\ helpers' = helpers \cup {last'} /\ syndaemon' = [spawned |-> TRUE, pid |-> last']
             /\ typing' = wanted /\ dead' = dead
    <3>1. last' \in Nat BY <2>3
    <3>2. syndaemon'.spawned = TRUE /\ syndaemon'.pid = last' BY <2>3
    <3>3. ~Lingers => helpers = {} BY <1>1
    <3>4. typing' = TRUE BY <1>1, <2>3
    <3> QED BY <2>3, <3>1, <3>2, <3>3, <3>4
  <2> QED BY <2>1, <2>2, <2>3
<1>2. CASE ~(wanted /\ pads # {}) /\ syndaemon.spawned
  <2>1. /\ helpers' = helpers \ {syndaemon.pid} /\ dead' = Append(dead, syndaemon.pid)
        /\ syndaemon' = [syndaemon EXCEPT !.spawned = FALSE] /\ typing' = wanted /\ last' = last
    BY <1>2 DEF Pointer!SetDisableWTyping
  <2>2. syndaemon' \in [spawned : BOOLEAN, pid : Nat] /\ syndaemon.pid \in Nat BY <2>1
  <2>3. dead' \in Seq(Nat) /\ dead' # <<>>
    <3>1. dead \in Seq(Nat) OBVIOUS
    <3>2. dead' \in Seq(Nat) /\ Len(dead') = Len(dead) + 1 /\ Len(dead) \in Nat
      BY <2>1, <2>2, <3>1
    <3>3. Len(<<>>) = 0 OBVIOUS
    <3> QED BY <3>2, <3>3
  <2>4. ~Lingers => helpers' = {} BY <1>2, <2>1
  <2>5. ~Lingers => Tail(dead') = <<>>
    <3> SUFFICES ASSUME ~Lingers PROVE Tail(dead') = <<>> OBVIOUS
    <3>1. dead' = <<syndaemon.pid>> BY <2>1
    <3> QED BY <3>1
  <2> QED BY <2>1, <2>2, <2>3, <2>4, <2>5
<1>3. CASE ~(wanted /\ pads # {} /\ ~syndaemon.spawned) /\ ~(~(wanted /\ pads # {}) /\ syndaemon.spawned)
  <2>1. typing' = wanted /\ UNCHANGED <<helpers, last, syndaemon, dead>>
    BY <1>3 DEF Pointer!SetDisableWTyping, Pointer!processes
  <2> QED BY <1>3, <2>1
<1> QED BY <1>1, <1>2, <1>3

LEMMA SupervisedStep ==
  ASSUME MouseTypes, Helped, ~Lingers => dead = <<>>, NEW wanted \in BOOLEAN,
         Pointer!SetDisableWTyping(wanted),
         started' = TRUE, pads' = pads, on' \subseteq pads, events' \in Seq(PadNews), enabled' \in BOOLEAN
  PROVE  MouseTypes' /\ Helped'
<1>1. /\ typing' \in BOOLEAN /\ syndaemon' \in [spawned : BOOLEAN, pid : Nat] /\ last' \in Nat
      /\ dead' \in Seq(Nat) /\ helpers' \subseteq Nat
      /\ ~Lingers => /\ dead' = <<>> => helpers' = IF syndaemon'.spawned THEN {syndaemon'.pid} ELSE {}
                     /\ dead' # <<>> => helpers' = {} /\ Tail(dead') = <<>>
                     /\ helpers' # {} => typing'
  BY Supervised
<1>2. started' \in BOOLEAN /\ on' \subseteq pads' /\ pads' \subseteq Pad BY DEF MouseTypes
<1>3. MouseTypes' BY <1>1, <1>2 DEF MouseTypes
<1>4. Helped' BY <1>1 DEF Helped
<1> QED BY <1>3, <1>4

LEMMA MouseStep == MouseInv /\ [Pointer!Next]_Pointer!vars => MouseInv'
<1> SUFFICES ASSUME MouseInv, [Pointer!Next]_Pointer!vars PROVE MouseInv' OBVIOUS
<1> USE DEF MouseInv
<1>0. /\ started \in BOOLEAN /\ enabled \in BOOLEAN /\ typing \in BOOLEAN
      /\ events \in Seq(PadNews) /\ on \subseteq pads
  BY DEF MouseTypes
<1>1. CASE Pointer!Start
  <2>1. ~started /\ started' = TRUE /\ known' = known /\ enabled' = enabled /\ blacklist' = known \cap Custom
        /\ Pointer!SetDisableWTyping(typing)
    BY <1>1 DEF Pointer!Start
  <2>2. dead = <<>> BY <2>1 DEF Helped
  <2>3. CASE enabled = TRUE
    <3>1. Pointer!Enable(pads \ known) BY <1>1, <2>3 DEF Pointer!Start
    <3> DEFINE S == ((pads \ known) \cap pads) \ on
    <3>2. /\ on' = on \cup S /\ pads' = pads /\ events' \in Seq(PadNews)
          /\ Newest(events', on') /\ Unreported(events', on', known)
          /\ NowHas(events', events, S)
      BY <3>1, SwitchedOn
    <3>3. pads \subseteq on' BY <2>1, <3>2 DEF Untouched
    <3>4. MouseTypes' /\ Helped'
      <4>1. on' \subseteq pads /\ enabled' \in BOOLEAN /\ started' = TRUE /\ typing \in BOOLEAN BY <1>0, <2>1, <3>2
      <4> QED BY <2>1, <2>2, <3>2, <4>1, SupervisedStep
    <3>5. Reported' BY <2>1, <3>2 DEF Reported
    <3>6. Untouched' BY <3>2, <3>3 DEF Untouched
    <3>7. PadsFollowed' BY <2>1, <2>3, <3>2, <3>3 DEF PadsFollowed
    <3> QED BY <3>4, <3>5, <3>6, <3>7
  <2>4. CASE enabled = FALSE
    <3>1. Pointer!Disable(known \ Custom) BY <1>1, <2>4 DEF Pointer!Start
    <3> DEFINE S == (known \ Custom) \cap on
    <3>2. /\ on' = on \ S /\ pads' = pads /\ events' \in Seq(PadNews)
          /\ Newest(events', on') /\ Unreported(events', on', known)
          /\ NowHas(events', events, S)
      BY <3>1, SwitchedOff
    <3>4. MouseTypes' /\ Helped'
      <4>1. on' \subseteq pads /\ enabled' \in BOOLEAN /\ started' = TRUE /\ typing \in BOOLEAN BY <1>0, <2>1, <3>2
      <4> QED BY <2>1, <2>2, <3>2, <4>1, SupervisedStep
    <3>5. Reported' BY <2>1, <3>2 DEF Reported
    <3>6. Untouched' BY <2>1, <3>2 DEF Untouched, NowHas
    <3>7. \A id \in on' \ Custom : Has(events', id)
      BY <2>1, <3>2 DEF Unreported
    <3>8. PadsFollowed' BY <2>1, <2>4, <3>7 DEF PadsFollowed
    <3> QED BY <3>4, <3>5, <3>6, <3>8
  <2>5. enabled = TRUE \/ enabled = FALSE BY <1>0
  <2> QED BY <2>3, <2>4, <2>5
<1>2. CASE Pointer!TouchpadEnabled
  <2>1. /\ enabled' = ~enabled
        /\ UNCHANGED <<started, known, typing, blacklist, helpers, last, syndaemon, dead>>
    BY <1>2 DEF Pointer!TouchpadEnabled, Pointer!processes
  <2>2. enabled' \in BOOLEAN BY <2>1
  <2>3. CASE ~started
    <3>1. UNCHANGED <<pads, on, events>> BY <1>2, <2>3 DEF Pointer!TouchpadEnabled, Pointer!server
    <3>2. MouseTypes' BY <2>1, <2>2, <3>1 DEF MouseTypes
    <3> QED BY <2>1, <2>3, <3>1, <3>2 DEF Helped, Reported, Untouched, PadsFollowed
  <2>4. CASE started /\ enabled'
    <3>1. Pointer!Enable((known \ blacklist) \cup (pads \ known)) BY <1>2, <2>4 DEF Pointer!TouchpadEnabled
    <3> DEFINE S == (((known \ blacklist) \cup (pads \ known)) \cap pads) \ on
    <3>2. /\ on' = on \cup S /\ pads' = pads /\ events' \in Seq(PadNews)
          /\ Newest(events', on') /\ Unreported(events', on', known)
          /\ NowHas(events', events, S)
      BY <3>1, SwitchedOn
    <3>3. pads \subseteq on'
      BY <2>4, <3>2 DEF Untouched, PadsFollowed
    <3>4. MouseTypes' BY <2>1, <2>2, <3>2, <1>0 DEF MouseTypes
    <3>5. Reported' BY <2>1, <3>2 DEF Reported
    <3>6. Untouched' BY <3>2, <3>3 DEF Untouched
    <3>7. PadsFollowed' BY <2>1, <2>4, <3>2, <3>3 DEF PadsFollowed
    <3> QED BY <2>1, <3>4, <3>5, <3>6, <3>7 DEF Helped
  <2>5. CASE started /\ ~enabled'
    <3>1. Pointer!Disable(known \ blacklist) BY <1>2, <2>5 DEF Pointer!TouchpadEnabled
    <3> DEFINE S == (known \ blacklist) \cap on
    <3>2. /\ on' = on \ S /\ pads' = pads /\ events' \in Seq(PadNews)
          /\ Newest(events', on') /\ Unreported(events', on', known)
          /\ NowHas(events', events, S)
      BY <3>1, SwitchedOff
    <3>3. blacklist = known \cap Custom BY <2>5 DEF PadsFollowed
    <3>4. MouseTypes' BY <2>1, <2>2, <3>2, <1>0 DEF MouseTypes
    <3>5. Reported' BY <2>1, <3>2 DEF Reported
    <3>6. Untouched' BY <2>1, <2>5, <3>2, <3>3 DEF Untouched, NowHas
    <3>7. \A id \in on' \ Custom : Has(events', id)
      BY <2>1, <3>2, <3>3 DEF Unreported
    <3>8. PadsFollowed' BY <2>1, <2>5, <3>3, <3>7 DEF PadsFollowed
    <3> QED BY <2>1, <3>4, <3>5, <3>6, <3>8 DEF Helped
  <2> QED BY <2>3, <2>4, <2>5
<1>3. CASE Pointer!DisableWTyping
  <2>1. UNCHANGED <<started, pads, on, events, known, enabled, blacklist>> /\ (~Lingers => dead = <<>>)
    BY <1>3 DEF Pointer!DisableWTyping, Pointer!server, Pointer!Attended
  <2>2. Reported' /\ Untouched' /\ PadsFollowed' BY <2>1 DEF Reported, Untouched, PadsFollowed
  <2>3. CASE started
    <3>1. PICK wanted : wanted = ~typing OBVIOUS
    <3>2. Pointer!SetDisableWTyping(wanted) BY <1>3, <2>3, <3>1, Zenon DEF Pointer!DisableWTyping
    <3>3. wanted \in BOOLEAN BY <3>1
    <3>4. MouseTypes' /\ Helped'
      <4>1. on' \subseteq pads /\ enabled' \in BOOLEAN /\ started' = TRUE /\ events' \in Seq(PadNews) /\ pads' = pads
        BY <1>0, <2>1, <2>3
      <4> QED BY <2>1, <3>2, <3>3, <4>1, SupervisedStep
    <3> QED BY <2>2, <3>4
  <2>4. CASE ~started
    <3>1. typing' = ~typing /\ UNCHANGED <<helpers, last, syndaemon, dead>>
      BY <1>3, <2>4 DEF Pointer!DisableWTyping, Pointer!processes
    <3>2. typing' \in BOOLEAN BY <3>1
    <3>3. MouseTypes' BY <2>1, <3>1, <3>2 DEF MouseTypes
    <3>4. Helped' BY <2>1, <2>4, <3>1 DEF Helped
    <3> QED BY <2>2, <3>3, <3>4
  <2> QED BY <2>3, <2>4
<1>4. CASE Pointer!DeviceAdded
  <2> DEFINE id == Head(events).id
  <2>1. /\ events # <<>> /\ Head(events).kind = "added" /\ known' = known \cup {id}
        /\ started' = started /\ enabled' = enabled /\ (~Lingers => dead = <<>>)
    BY <1>4 DEF Pointer!DeviceAdded, Pointer!Attended
  <2>2. id \in Pad /\ Tail(events) \in Seq(PadNews)
    <3>1. Head(events) \in PadNews /\ Tail(events) \in Seq(PadNews) BY <1>0, <2>1, TailAt
    <3> QED BY <3>1 DEF PadNews
  <2>3. /\ Newest(Tail(events), on) /\ Unreported(Tail(events), on, known')
        /\ \A x : Has(Tail(events), x) => Has(events, x)
        /\ \A x : x # id /\ Has(events, x) => Has(Tail(events), x)
        /\ Has(events, id)
    <3> DEFINE k2 == known'
    <3>1. /\ \A x : x # Head(events).id => (x \in k2 <=> x \in known)
          /\ Head(events).id \in k2 <=> Head(events).kind = "added"
      BY <2>1
    <3>2. Newest(events, on) /\ Unreported(events, on, known) BY DEF Reported
    <3> HIDE DEF k2
    <3>3. /\ Newest(Tail(events), on) /\ Unreported(Tail(events), on, k2)
          /\ \A x : Has(Tail(events), x) => Has(events, x)
          /\ \A x : x # Head(events).id /\ Has(events, x) => Has(Tail(events), x)
          /\ Has(events, Head(events).id)
      BY <1>0, <2>1, <3>1, <3>2, NewsDispatched
    <3> QED BY <3>3 DEF k2
  <2>4. CASE ~started \/ id \in blacklist
    <3>1. events' = Tail(events) /\ UNCHANGED <<pads, on, typing, blacklist, helpers, last, syndaemon, dead>>
      BY <1>4, <2>4 DEF Pointer!DeviceAdded, Pointer!processes
    <3>2. MouseTypes' /\ Helped' BY <2>1, <2>2, <3>1 DEF MouseTypes, Helped
    <3>3. Reported' BY <2>3, <3>1 DEF Reported
    <3>4. Untouched' BY <2>1, <2>3, <3>1 DEF Untouched
    <3>5. PadsFollowed'
      <4> SUFFICES ASSUME started PROVE PadsFollowed' BY <2>1 DEF PadsFollowed
      <4>1. id \in blacklist /\ blacklist = known \cap Custom BY <2>4 DEF PadsFollowed
      <4> QED BY <2>1, <2>3, <3>1, <4>1 DEF PadsFollowed
    <3> QED BY <3>2, <3>3, <3>4, <3>5
  <2>5. CASE started /\ id \notin blacklist
    <3> DEFINE off == IF enabled THEN {} ELSE ({id} \ Custom) \cap on
    <3>1. /\ blacklist' = blacklist \cup ({id} \cap Custom) /\ on' = on \ off
          /\ events' = Tail(events) \o [i \in 1 .. Pointer!Cardinality(off) |-> Pointer!Event("removed", id)]
          /\ Pointer!SetDisableWTyping(typing) /\ pads' = pads
      BY <1>4, <2>5 DEF Pointer!DeviceAdded
    <3>2. /\ events' \in Seq(PadNews) /\ Newest(events', on') /\ Unreported(events', on', known')
          /\ NowHas(events', Tail(events), off)
      <4>1. CASE off = {}
        <5>1. Pointer!Cardinality(off) = 0 BY <4>1, CardSame, FS_EmptySet
        <5>2. 1 .. 0 = {} OBVIOUS
        <5>3. Tail(events) \o <<>> = Tail(events) BY <2>2
        <5>4. [i \in 1 .. 0 |-> Pointer!Event("removed", id)] = <<>>
          OBVIOUS
        <5>5. events' = Tail(events) /\ on' = on
          BY <3>1, <4>1, <5>1, <5>3, <5>4
        <5> QED BY <2>2, <2>3, <4>1, <5>5 DEF NowHas
      <4>2. CASE off # {}
        <5>1. off = {id} BY <4>2
        <5>2. Pointer!Cardinality(off) = 1 BY <5>1, CardSame, FS_Singleton
        <5> DEFINE e2 == events'
                   s2 == on'
                   ev == Tail(events)
                   more == [i \in 1 .. 1 |-> Pointer!Event("removed", id)]
        <5>3. e2 = ev \o more BY <3>1, <5>2
        <5>4. more \in Seq(PadNews) /\ Len(more) = 1 /\ more[1].kind = "removed" /\ more[1].id = id
          BY <2>2 DEF Pointer!Event, PadNews
        <5>5. ev \in Seq(PadNews) /\ 1 \in Nat BY <2>2
        <5>6. Swapped(on, s2, {id}, "removed") BY <3>1, <5>1 DEF Swapped
        <5>7. Newest(ev, on) /\ Unreported(ev, on, known') BY <2>3
        <5> HIDE DEF e2, s2, ev, more, id, off
        <5>m. PICK m \in Nat : m = 1 OBVIOUS
        <5>n. Len(more) = m BY <5>4, <5>m
        <5>8. /\ ev \o more \in Seq(PadNews) /\ Len(ev \o more) = Len(ev) + m
              /\ \A i \in 1 .. Len(ev) : (ev \o more)[i] = ev[i]
              /\ \A i \in 1 .. m : (ev \o more)[Len(ev) + i] = more[i]
          BY <5>4, <5>5, <5>n, Joined
        <5>9. Tells(e2, ev, m, {id}, "removed")
          BY <5>3, <5>4, <5>8, <5>m DEF Tells
        <5>10. Newest(e2, s2) /\ Unreported(e2, s2, known') /\ NowHas(e2, ev, {id})
          BY <5>3, <5>5, <5>6, <5>7, <5>8, <5>9, NewsAppended
        <5> QED BY <5>1, <5>3, <5>8, <5>10 DEF e2, s2, ev
      <4> QED BY <4>1, <4>2
    <3>3. on' \subseteq on BY <3>1
    <3>4. MouseTypes' /\ Helped'
      <4>1. on' \subseteq pads /\ enabled' \in BOOLEAN /\ started' = TRUE /\ typing \in BOOLEAN
        BY <1>0, <2>1, <2>5, <3>3
      <4> QED BY <2>1, <3>1, <3>2, <4>1, SupervisedStep
    <3>5. Reported' BY <3>2 DEF Reported
    <3>6. \A x \in off : x = id /\ x \notin Custom OBVIOUS
    <3>7. \A x : x \in on \/ x \in off => x \in on OBVIOUS
    <3>8. Untouched'
      <4> SUFFICES ASSUME NEW x \in pads \ on', x \in Custom PROVE x \notin known' /\ ~Has(events', x)
        BY <2>1, <2>5, <3>1 DEF Untouched
      <4>1. x \in pads \ on /\ x \notin off BY <3>1, <3>6
      <4>2. x \notin known /\ ~Has(events, x) BY <4>1 DEF Untouched
      <4> QED BY <2>1, <2>3, <3>2, <4>1, <4>2 DEF NowHas
    <3>9. PadsFollowed'
      <4>1. blacklist' = known' \cap Custom BY <2>1, <2>5, <3>1 DEF PadsFollowed
      <4>2. enabled => pads' \subseteq on' BY <2>5, <3>1 DEF PadsFollowed
      <4>3. ~enabled => \A x \in on' \ Custom : Has(events', x)
        BY <2>3, <2>5, <3>1, <3>2 DEF PadsFollowed, NowHas
      <4> QED BY <2>1, <4>1, <4>2, <4>3 DEF PadsFollowed
    <3> QED BY <3>4, <3>5, <3>8, <3>9
  <2> QED BY <2>4, <2>5
<1>5. CASE Pointer!DeviceRemoved
  <2> DEFINE id == Head(events).id
  <2>1. /\ events # <<>> /\ Head(events).kind = "removed" /\ known' = known \ {id} /\ events' = Tail(events)
        /\ UNCHANGED <<started, pads, on, enabled>> /\ (~Lingers => dead = <<>>)
    BY <1>5 DEF Pointer!DeviceRemoved, Pointer!Attended
  <2>2. Tail(events) \in Seq(PadNews) BY <1>0, <2>1
  <2>3. /\ Newest(Tail(events), on) /\ Unreported(Tail(events), on, known')
        /\ \A x : Has(Tail(events), x) => Has(events, x)
        /\ \A x : x # id /\ Has(events, x) => Has(Tail(events), x)
    <3> DEFINE k2 == known'
    <3>1. /\ \A x : x # Head(events).id => (x \in k2 <=> x \in known)
          /\ Head(events).id \in k2 <=> Head(events).kind = "added"
      BY <2>1
    <3>2. Newest(events, on) /\ Unreported(events, on, known) BY DEF Reported
    <3> HIDE DEF k2
    <3>3. /\ Newest(Tail(events), on) /\ Unreported(Tail(events), on, k2)
          /\ \A x : Has(Tail(events), x) => Has(events, x)
          /\ \A x : x # Head(events).id /\ Has(events, x) => Has(Tail(events), x)
      BY <1>0, <2>1, <3>1, <3>2, NewsDispatched
    <3> QED BY <3>3 DEF k2
  <2>4. Reported' BY <2>1, <2>3 DEF Reported
  <2>5. Untouched' BY <2>1, <2>3 DEF Untouched
  <2>6. ASSUME started, ~enabled PROVE \A x \in on' \ Custom : Has(events', x)
    <3> SUFFICES ASSUME NEW x \in on \ Custom PROVE Has(Tail(events), x) BY <2>1
    <3>1. CASE x = id
      <4>1. x \notin known' BY <2>1, <3>1
      <4> QED BY <2>3, <4>1 DEF Unreported
    <3>2. CASE x # id BY <2>3, <2>6, <3>2 DEF PadsFollowed
    <3> QED BY <3>1, <3>2
  <2>7. CASE started /\ id \in known
    <3>1. blacklist' = blacklist \ {id} /\ Pointer!SetDisableWTyping(typing)
      BY <1>5, <2>7 DEF Pointer!DeviceRemoved
    <3>2. MouseTypes' /\ Helped'
      <4>1. /\ on' \subseteq pads /\ enabled' \in BOOLEAN /\ started' = TRUE /\ typing \in BOOLEAN
            /\ events' \in Seq(PadNews) /\ pads' = pads
        BY <1>0, <2>1, <2>2, <2>7
      <4> QED BY <2>1, <3>1, <4>1, SupervisedStep
    <3>3. PadsFollowed' BY <2>1, <2>6, <2>7, <3>1 DEF PadsFollowed
    <3> QED BY <2>4, <2>5, <3>2, <3>3
  <2>8. CASE ~(started /\ id \in known)
    <3>1. UNCHANGED <<blacklist, typing, helpers, last, syndaemon, dead>>
      BY <1>5, <2>8 DEF Pointer!DeviceRemoved, Pointer!processes
    <3>2. MouseTypes' /\ Helped' BY <2>1, <2>2, <3>1 DEF MouseTypes, Helped
    <3>3. PadsFollowed' BY <2>1, <2>6, <2>8, <3>1 DEF PadsFollowed
    <3> QED BY <2>4, <2>5, <3>2, <3>3
  <2> QED BY <2>7, <2>8
<1>6. CASE Pointer!SyndaemonDied
  <2>1. /\ dead # <<>> /\ dead' = Tail(dead) /\ syndaemon' = [syndaemon EXCEPT !.spawned = FALSE]
        /\ UNCHANGED <<started, pads, on, events, known, enabled, typing, blacklist, helpers, last>>
    BY <1>6 DEF Pointer!SyndaemonDied, Pointer!server
  <2>2. syndaemon' \in [spawned : BOOLEAN, pid : Nat] /\ syndaemon'.spawned = FALSE BY <2>1 DEF MouseTypes
  <2>3. dead' \in Seq(Nat) BY <2>1 DEF MouseTypes
  <2>4. MouseTypes' BY <2>1, <2>2, <2>3 DEF MouseTypes
  <2>5. Helped' BY <2>1, <2>2 DEF Helped
  <2> QED BY <2>1, <2>4, <2>5 DEF Reported, Untouched, PadsFollowed
<1>7. ASSUME NEW x \in Pad, Pointer!Plug(x) PROVE MouseInv'
  <2>1. /\ x \notin pads /\ pads' = pads \cup {x} /\ on' = on \cup {x} /\ events' = Append(events, Pointer!Event("added", x))
        /\ UNCHANGED <<started, known, enabled, typing, blacklist, helpers, last, syndaemon, dead>>
    BY <1>7 DEF Pointer!Plug, Pointer!processes
  <2> DEFINE n == Pointer!Event("added", x)
  <2>2. n \in PadNews /\ n.kind = "added" /\ n.id = x BY DEF Pointer!Event, PadNews
  <2>3. /\ events' \in Seq(PadNews) /\ Newest(events', on') /\ Unreported(events', on', known')
        /\ NowHas(events', events, {x})
    <3>1. Swapped(on, on', {x}, "added") BY <2>1 DEF Swapped
    <3> HIDE DEF n
    <3>2. Append(events, n) \in Seq(PadNews) /\ Tells(Append(events, n), events, 1, {x}, "added")
      <4>1. /\ Append(events, n) \in Seq(PadNews) /\ Len(Append(events, n)) = Len(events) + 1
            /\ \A i \in 1 .. Len(events) : Append(events, n)[i] = events[i]
            /\ Append(events, n)[Len(events) + 1] = n
        BY <1>0, <2>2, AppendAt
      <4> QED BY <2>2, <4>1 DEF Tells
    <3> DEFINE e2 == events'
               s2 == on'
    <3>3. e2 \in Seq(PadNews) /\ Tells(e2, events, 1, {x}, "added") BY <2>1, <3>2 DEF n
    <3>4. Swapped(on, s2, {x}, "added") /\ Newest(events, on) /\ Unreported(events, on, known) /\ 1 \in Nat
      BY <3>1 DEF Reported
    <3> HIDE DEF e2, s2
    <3>5. Newest(e2, s2) /\ Unreported(e2, s2, known) /\ NowHas(e2, events, {x})
      BY <1>0, <3>3, <3>4, NewsAppended
    <3> QED BY <2>1, <3>3, <3>5 DEF e2, s2
  <2>4. MouseTypes' BY <2>1, <2>3 DEF MouseTypes
  <2>5. Reported' BY <2>3 DEF Reported
  <2>6. Untouched' BY <2>1, <2>3 DEF Untouched, NowHas
  <2>7. PadsFollowed' BY <2>1, <2>3 DEF PadsFollowed, NowHas
  <2> QED BY <2>1, <2>4, <2>5, <2>6, <2>7 DEF Helped
<1>8. ASSUME NEW x \in Pad, Pointer!Unplug(x) PROVE MouseInv'
  <2>1. /\ x \in pads /\ pads' = pads \ {x} /\ on' = on \ {x}
        /\ events' = IF x \in on THEN Append(events, Pointer!Event("removed", x)) ELSE events
        /\ UNCHANGED <<started, known, enabled, typing, blacklist, helpers, last, syndaemon, dead>>
    BY <1>8 DEF Pointer!Unplug, Pointer!processes
  <2> DEFINE n == Pointer!Event("removed", x)
             S == {x} \cap on
  <2>2. n \in PadNews /\ n.kind = "removed" /\ n.id = x BY DEF Pointer!Event, PadNews
  <2>3. /\ events' \in Seq(PadNews) /\ Newest(events', on') /\ Unreported(events', on', known')
        /\ NowHas(events', events, S)
    <3>1. CASE x \in on
      <4>1. Swapped(on, on', {x}, "removed") BY <2>1 DEF Swapped
      <4> HIDE DEF n
      <4>2. Append(events, n) \in Seq(PadNews) /\ Tells(Append(events, n), events, 1, {x}, "removed")
        <5>1. /\ Append(events, n) \in Seq(PadNews) /\ Len(Append(events, n)) = Len(events) + 1
              /\ \A i \in 1 .. Len(events) : Append(events, n)[i] = events[i]
              /\ Append(events, n)[Len(events) + 1] = n
          BY <1>0, <2>2, AppendAt
        <5> QED BY <2>2, <5>1 DEF Tells
      <4> DEFINE e2 == events'
                 s2 == on'
      <4>3. e2 \in Seq(PadNews) /\ Tells(e2, events, 1, {x}, "removed") BY <2>1, <3>1, <4>2 DEF n
      <4>4. Swapped(on, s2, {x}, "removed") /\ Newest(events, on) /\ Unreported(events, on, known) /\ 1 \in Nat
        BY <4>1 DEF Reported
      <4> HIDE DEF e2, s2
      <4>5. Newest(e2, s2) /\ Unreported(e2, s2, known) /\ NowHas(e2, events, {x})
        BY <1>0, <4>3, <4>4, NewsAppended
      <4>6. S = {x} BY <3>1
      <4> QED BY <2>1, <4>3, <4>5, <4>6 DEF e2, s2
    <3>2. CASE x \notin on
      <4>1. events' = events /\ on' = on /\ S = {} BY <2>1, <3>2
      <4> QED BY <1>0, <2>1, <4>1 DEF Reported, NowHas
    <3> QED BY <3>1, <3>2
  <2>4. MouseTypes' BY <2>1, <2>3 DEF MouseTypes
  <2>5. Reported' BY <2>3 DEF Reported
  <2>6. Untouched' BY <2>1, <2>3 DEF Untouched, NowHas
  <2>7. PadsFollowed' BY <2>1, <2>3 DEF PadsFollowed, NowHas
  <2> QED BY <2>1, <2>4, <2>5, <2>6, <2>7 DEF Helped
<1>9. ASSUME NEW h \in 1 .. MaxHelpers, Pointer!End(h) PROVE MouseInv'
  <2>1. /\ h \in helpers /\ helpers' = helpers \ {h} /\ dead' = Append(dead, h)
        /\ UNCHANGED <<started, pads, on, events, known, enabled, typing, blacklist, last, syndaemon>>
    BY <1>9 DEF Pointer!End, Pointer!server
  <2>2. h \in Nat /\ dead \in Seq(Nat) /\ helpers' \subseteq Nat BY <2>1 DEF MouseTypes
  <2>3. dead' \in Seq(Nat) /\ dead' # <<>> BY <2>1, <2>2, AppendAt
  <2>4. MouseTypes' BY <2>1, <2>2, <2>3 DEF MouseTypes
  <2>5. started BY <2>1 DEF Helped
  <2>6. ~Lingers => dead = <<>> /\ helpers = {h} BY <2>1 DEF Helped
  <2>7. ~Lingers => Tail(dead') = <<>>
    <3> SUFFICES ASSUME ~Lingers PROVE Tail(dead') = <<>> OBVIOUS
    <3>1. dead' = <<h>> BY <2>1, <2>6
    <3> QED BY <3>1
  <2>8. Helped' BY <2>1, <2>3, <2>5, <2>6, <2>7 DEF Helped
  <2> QED BY <2>1, <2>4, <2>8 DEF Reported, Untouched, PadsFollowed
<1>10. CASE UNCHANGED Pointer!vars
  <2>1. UNCHANGED <<started, pads, on, known, events, enabled, typing, blacklist, helpers, last, syndaemon, dead>>
    BY <1>10 DEF Pointer!vars
  <2> QED BY <2>1 DEF MouseTypes, Helped, Reported, Untouched, PadsFollowed
<1> QED BY <1>1, <1>2, <1>3, <1>4, <1>5, <1>6, <1>7, <1>8, <1>9, <1>10 DEF Pointer!Next

LEMMA PointerKept == AllSpec => []MouseInv
<1>1. Pointer!Spec => []MouseInv
  BY MouseInit, MouseStep, PTL DEF Pointer!Spec
<1> QED BY <1>1, PartIsPointer, PTL

LEMMA PointerAgrees == AllSpec => []Pointer!Agrees
<1>1. MouseInv => Pointer!Agrees
  <2> SUFFICES ASSUME MouseInv, started, events = <<>> PROVE Pointer!Agrees
    BY DEF Pointer!Agrees
  <2> USE DEF MouseInv
  <2>1. \A id : ~Has(events, id)
    BY DEF Has
  <2>2. known = on BY <2>1 DEF Reported, Unreported
  <2>3. on \ blacklist = IF enabled THEN pads \ blacklist ELSE {}
    BY <2>1, <2>2 DEF PadsFollowed, MouseTypes
  <2>4. ASSUME ~Lingers, dead = <<>>
        PROVE Pointer!Cardinality(helpers) <= 1 /\ (syndaemon.spawned <=> helpers # {}) /\ (helpers # {} => typing)
    <3>1. helpers = {} \/ \E p : helpers = {p} BY <2>4 DEF Helped
    <3>2. Cardinality(helpers) = 0 \/ Cardinality(helpers) = 1 BY <3>1, FS_EmptySet, FS_Singleton
    <3>3. Pointer!Cardinality(helpers) <= 1 BY <3>2, CardSame
    <3> QED BY <2>4, <3>3 DEF Helped, MouseTypes
  <2> QED BY <2>2, <2>3, <2>4 DEF Pointer!Agrees
<1> QED BY <1>1, PointerKept, PTL

\* However writes of the settings, shortcuts, answers and hotplug cross each
\* other, the X server has what the settings say once all is dispatched: the
\* controls of the keyboard, the touchpads and the published property
\* (csd-a11y-keyboard-manager.c:211-336, csd-mouse-manager.c:565-625,
\* xsettings-common.c:69-91).
THEOREM SettingsArrive == AllSpec => []SettingsReachServer
<1>1. Access!Agrees /\ Pointer!Agrees /\ Published!Agrees => SettingsReachServer
  BY DEF SettingsReachServer
<1> QED BY <1>1, AccessAgrees, PointerAgrees, PublishedAgrees, PTL

-----------------------------------------------------------------------------
(* The date and time service.  Each promise is kept in the files and       *)
(* clocks it is about; that the zone is found again needs all of them.     *)

NoZone == Datetime!None
World ==
  [localtime : [kind : {"link", "relative", "file", NoZone}, zone : Zone \cup {NoZone}],
   config : [Datetime!ToSet(Files) -> Zone \cup {NoZone}],
   inStep : BOOLEAN, utc : {"yes", "no"}, ntpd : {"yes", "no"}, started : {"yes", "no"}, ntpdate : {"yes", "no"}]

DateTypes ==
  /\ world \in World /\ calls \in Seq(Datetime!Call)
  /\ told \in [zone : Zone \cup {NoZone}, clock : {NoZone, "set"},
               utc : {NoZone, "yes", "no"}, ntp : {NoZone, "yes", "no"}]

ZoneKept(w, z) ==
  z # NoZone => /\ w.localtime.zone = z /\ w.localtime.kind \in {"link", "file"}
                /\ \A f \in Datetime!ToSet(Files) : w.config[f] \in {NoZone, z}
ClockKept(w, c) == "hwclock" \in machine.tools => (c = "set" => w.inStep)
UtcKept(w, u) == "hwclock" \in machine.tools => (u # NoZone => w.utc = u)
NtpKept(w, n) ==
  n # NoZone =>
    /\ "ntpd" \in machine.tools => w.ntpd = n /\ w.started = n
    /\ machine.distribution = "debian" /\ "ntpdate" \in machine.tools => w.ntpdate = n

DateInv ==
  /\ DateTypes
  /\ ZoneKept(world, told.zone) /\ ClockKept(world, told.clock)
  /\ UtcKept(world, told.utc) /\ NtpKept(world, told.ntp)

LEMMA NoNames ==
  /\ NoZone = "none" /\ NoZone \notin Zone /\ Outside \notin Zone /\ Missing \notin Zone
  /\ Outside # Missing /\ Outside # "yes" /\ Outside # "no" /\ Outside # NoZone
BY ZonesAssumption DEF NoZone, Datetime!None

LEMMA OfCall ==
  ASSUME NEW c \in Datetime!Call
  PROVE  /\ c.method \in Datetime!Methods
         /\ c.method = "SetTimezone" => c.argument \in Zone \cup {Outside, Missing}
         /\ c.method \in {"SetHardwareClockUsingUtc", "SetUsingNtp"} => c.argument \in {"yes", "no"}
         /\ c.method \notin {"SetTimezone", "SetHardwareClockUsingUtc", "SetUsingNtp"} => c.argument = NoZone
<1>1. PICK m \in Datetime!Methods : c \in [method : {m}, argument : Datetime!Arguments(m)] BY DEF Datetime!Call
<1>2. c.method = m /\ c.argument \in Datetime!Arguments(m) BY <1>1
<1> QED BY <1>2 DEF Datetime!Arguments, NoZone

\* What becomes of the zone.
LEMMA ZoneSet ==
  ASSUME NEW w \in World, NEW z \in Zone \cup {Outside, Missing}, NEW r \in Datetime!SetTimezone(z, w)
  PROVE  /\ r.world \in World /\ r.world.inStep = w.inStep /\ r.world.utc = w.utc
         /\ r.world.ntpd = w.ntpd /\ r.world.started = w.started /\ r.world.ntpdate = w.ntpdate
         /\ \/ z = Outside /\ r.world = w /\ r.answer = NoZone
            \/ r.answer = "error"
            \/ z \in Zone /\ r.answer = "done" /\ ZoneKept(r.world, z)
<1>1. CASE z = Outside
  <2>1. r = Datetime!Result(w, NoZone) BY <1>1, NoNames DEF Datetime!SetTimezone, NoZone
  <2> QED BY <1>1, <2>1 DEF Datetime!Result
<1>2. CASE z = Missing
  <2>1. r = Datetime!Result(w, "error") BY <1>2, NoNames DEF Datetime!SetTimezone
  <2> QED BY <2>1 DEF Datetime!Result
<1>3. CASE z \in Zone
  <2> DEFINE made_in(l) == {Datetime!Result([w EXCEPT !.localtime = l.is, !.config = c.is], IF c.ok THEN "done" ELSE "error") :
                              c \in Datetime!Configs(z, w.config)}
  <2>1. PICK l \in Datetime!Localtimes(z, w.localtime) :
          r \in IF l.ok THEN made_in(l) ELSE {Datetime!Result([w EXCEPT !.localtime = l.is], "error")}
    BY <1>3, NoNames DEF Datetime!SetTimezone
  <2>2. /\ l.is \in [kind : {"link", "relative", "file", NoZone}, zone : Zone \cup {NoZone}]
        /\ l.ok => l.is.zone = z /\ l.is.kind \in {"link", "file"}
    <3>1. w.localtime \in [kind : {"link", "relative", "file", NoZone}, zone : Zone \cup {NoZone}] BY DEF World
    <3> DEFINE lt == w.localtime
               Place == [kind : {"link", "relative", "file", NoZone}, zone : Zone \cup {NoZone}]
    <3>2. \/ l \in [ok : {TRUE}, is : {[kind |-> "link", zone |-> z], [kind |-> "file", zone |-> z]}]
          \/ l \in [ok : {FALSE}, is : {lt, [kind |-> NoZone, zone |-> NoZone]}]
      BY DEF Datetime!Localtimes, NoZone
    <3>3. /\ [kind |-> "link", zone |-> z] \in Place /\ [kind |-> "file", zone |-> z] \in Place
          /\ [kind |-> NoZone, zone |-> NoZone] \in Place
      BY <1>3
    <3>4. CASE l \in [ok : {TRUE}, is : {[kind |-> "link", zone |-> z], [kind |-> "file", zone |-> z]}]
      <4>1. l.is = [kind |-> "link", zone |-> z] \/ l.is = [kind |-> "file", zone |-> z] BY <3>4
      <4> QED BY <3>3, <4>1
    <3>5. CASE l \in [ok : {FALSE}, is : {lt, [kind |-> NoZone, zone |-> NoZone]}]
      <4>1. l.ok = FALSE /\ (l.is = lt \/ l.is = [kind |-> NoZone, zone |-> NoZone]) BY <3>5
      <4> QED BY <3>1, <3>3, <4>1
    <3> QED BY <3>2, <3>4, <3>5
  <2>3. CASE ~l.ok
    <3>1. r.world = [w EXCEPT !.localtime = l.is] /\ r.answer = "error" BY <2>1, <2>3 DEF Datetime!Result
    <3> QED BY <2>2, <3>1 DEF World
  <2>4. CASE l.ok
    <3>1. PICK c \in Datetime!Configs(z, w.config) :
            r = Datetime!Result([w EXCEPT !.localtime = l.is, !.config = c.is], IF c.ok THEN "done" ELSE "error")
      BY <2>1, <2>4
    <3> DEFINE Having(i) == w.config[Files[i]] \in Zone
               Written(n) == [f \in DOMAIN w.config |-> IF \E i \in 1 .. n : Files[i] = f /\ Having(i) THEN z ELSE w.config[f]]
    <3>2. \/ c = [ok |-> TRUE, is |-> Written(Len(Files))]
          \/ \E n \in {i \in DOMAIN Files : Having(i)} : c = [ok |-> FALSE, is |-> Written(n - 1)]
      BY DEF Datetime!Configs
    <3>3. w.config \in [Datetime!ToSet(Files) -> Zone \cup {NoZone}] BY DEF World
    <3>4. \A n : Written(n) \in [Datetime!ToSet(Files) -> Zone \cup {NoZone}]
      BY <1>3, <3>3
    <3>5. c.is \in [Datetime!ToSet(Files) -> Zone \cup {NoZone}]
      <4> HIDE DEF Written
      <4> QED BY <3>2, <3>4
    <3>6. c.ok => \A f \in Datetime!ToSet(Files) : c.is[f] \in {NoZone, z}
      <4> SUFFICES ASSUME c.ok, NEW f \in Datetime!ToSet(Files) PROVE c.is[f] \in {NoZone, z} OBVIOUS
      <4>1. c.is = Written(Len(Files))
        <5> HIDE DEF Written
        <5> QED BY <3>2
      <4>2. PICK i \in DOMAIN Files : f = Files[i] BY DEF Datetime!ToSet
      <4>3. i \in 1 .. Len(Files) BY FilesAssumption
      <4>4. c.is[f] = IF \E j \in 1 .. Len(Files) : Files[j] = f /\ Having(j) THEN z ELSE w.config[f]
        BY <3>3, <4>1
      <4>5. CASE w.config[f] \in Zone BY <4>2, <4>3, <4>4, <4>5
      <4>6. CASE w.config[f] \notin Zone BY <3>3, <4>4, <4>6
      <4> QED BY <4>5, <4>6
    <3>7. r.world = [w EXCEPT !.localtime = l.is, !.config = c.is] /\ r.answer = IF c.ok THEN "done" ELSE "error"
      BY <3>1 DEF Datetime!Result
    <3>8. /\ r.world \in World /\ r.world.localtime = l.is /\ r.world.config = c.is
          /\ r.world.inStep = w.inStep /\ r.world.utc = w.utc
          /\ r.world.ntpd = w.ntpd /\ r.world.started = w.started /\ r.world.ntpdate = w.ntpdate
      BY <2>2, <3>5, <3>7 DEF World
    <3>9. c.ok => ZoneKept(r.world, z) BY <2>2, <2>4, <3>6, <3>8 DEF ZoneKept
    <3> QED BY <1>3, <3>7, <3>8, <3>9
  <2> QED BY <2>3, <2>4
<1> QED BY <1>1, <1>2, <1>3

LEMMA ClockSet ==
  ASSUME NEW w \in World, NEW m \in {"SetTime", "SetDate"}, NEW r \in Datetime!SetClock(m, w)
  PROVE  /\ r.world \in World /\ r.world.localtime = w.localtime /\ r.world.config = w.config
         /\ r.world.utc = w.utc /\ r.world.ntpd = w.ntpd /\ r.world.started = w.started
         /\ r.world.ntpdate = w.ntpdate
         /\ \/ r.answer = "error"
            \/ r.answer \in {NoZone, "done"} /\ ("hwclock" \in machine.tools => r.world.inStep)
<1> DEFINE Set == [w EXCEPT !.inStep = FALSE]
           Now2 == [w EXCEPT !.inStep = TRUE]
           Done == IF m = "SetDate" THEN Datetime!None ELSE "done"
<1>1. /\ Set \in World /\ Set.localtime = w.localtime /\ Set.config = w.config
      /\ Set.utc = w.utc /\ Set.ntpd = w.ntpd /\ Set.started = w.started /\ Set.ntpdate = w.ntpdate
  BY DEF World
<1>2. /\ Now2 \in World /\ Now2.localtime = w.localtime /\ Now2.config = w.config /\ Now2.inStep
      /\ Now2.utc = w.utc /\ Now2.ntpd = w.ntpd /\ Now2.started = w.started /\ Now2.ntpdate = w.ntpdate
  BY DEF World
<1>3. \/ r = Datetime!Result(w, "error") \/ r = Datetime!Result(Set, "error")
      \/ r = Datetime!Result(IF "hwclock" \in machine.tools THEN Now2 ELSE Set, Done)
  BY DEF Datetime!SetClock
<1>4. Done \in {NoZone, "done"} BY DEF NoZone
<1> HIDE DEF Set, Now2, Done
<1> QED BY <1>1, <1>2, <1>3, <1>4 DEF Datetime!Result

LEMMA UtcSet ==
  ASSUME NEW w \in World, NEW u \in {"yes", "no"}, NEW r \in Datetime!SetUtc(u, w)
  PROVE  /\ r.world \in World /\ r.world.localtime = w.localtime /\ r.world.config = w.config
         /\ r.world.ntpd = w.ntpd /\ r.world.started = w.started /\ r.world.ntpdate = w.ntpdate
         /\ w.inStep => r.world.inStep
         /\ \/ r.answer = "error"
            \/ r.answer = "done" /\ ("hwclock" \in machine.tools => r.world.utc = u)
<1> DEFINE Set == [w EXCEPT !.utc = u, !.inStep = TRUE]
<1>1. /\ Set \in World /\ Set.localtime = w.localtime /\ Set.config = w.config /\ Set.inStep
      /\ Set.utc = u /\ Set.ntpd = w.ntpd /\ Set.started = w.started /\ Set.ntpdate = w.ntpdate
  BY DEF World
<1>2. \/ "hwclock" \notin machine.tools /\ r = Datetime!Result(w, "done")
      \/ r = Datetime!Result(w, "error") \/ r = Datetime!Result(Set, "done") \/ r = Datetime!Result(Set, "error")
  BY DEF Datetime!SetUtc
<1> HIDE DEF Set
<1> QED BY <1>1, <1>2 DEF Datetime!Result

\* NTP, if no tool that was started is in vain.
LEMMA NtpSet ==
  ASSUME ~ToolsFail, NEW w \in World, NEW how \in {"yes", "no"}, NEW r \in Datetime!SetUsingNtp(how, w)
  PROVE  /\ r.world \in World /\ r.world.localtime = w.localtime /\ r.world.config = w.config
         /\ r.world.inStep = w.inStep /\ r.world.utc = w.utc
         /\ r.answer = "error" \/ (r.answer = "done" /\ NtpKept(r.world, how))
<1>0. Datetime!Runs = {"unstarted", "works"} BY DEF Datetime!Runs
<1>1. ASSUME NEW s, NEW n
      PROVE  /\ Datetime!Service(how, w, s, n) \in World
             /\ Datetime!Service(how, w, s, n).localtime = w.localtime /\ Datetime!Service(how, w, s, n).config = w.config
             /\ Datetime!Service(how, w, s, n).inStep = w.inStep /\ Datetime!Service(how, w, s, n).utc = w.utc
             /\ s = "works" /\ n = "works" =>
                  Datetime!Service(how, w, s, n).ntpd = how /\ Datetime!Service(how, w, s, n).started = how
  BY DEF Datetime!Service, World
<1>2. CASE machine.distribution = "other"
  <2>1. r = Datetime!Result(w, "error") BY <1>2 DEF Datetime!SetUsingNtp
  <2> QED BY <2>1 DEF Datetime!Result
<1>3. CASE machine.distribution \in {"fedora", "suse"}
  <2>1. PICK s \in Datetime!ServiceRuns, n \in Datetime!ServiceRuns :
          r = Datetime!Result(Datetime!Service(how, w, s, n), Datetime!Told({s, n}))
    BY <1>3 DEF Datetime!SetUsingNtp
  <2>2. r.world = Datetime!Service(how, w, s, n) /\ r.answer = Datetime!Told({s, n}) BY <2>1 DEF Datetime!Result
  <2>3. \/ Datetime!Told({s, n}) = "error"
        \/ Datetime!Told({s, n}) = "done" /\ ("ntpd" \in machine.tools => s = "works" /\ n = "works")
    BY <1>0 DEF Datetime!Told, Datetime!ServiceRuns
  <2> QED BY <1>1, <1>3, <2>2, <2>3 DEF NtpKept
<1>4. CASE machine.distribution \notin {"other", "fedora", "suse"}
  <2>0. r \in Datetime!SetUsingNtpDebian(how, w)
    <3>1. machine.distribution # "other" /\ machine.distribution \notin {"fedora", "suse"} BY <1>4
    <3> QED BY <3>1 DEF Datetime!SetUsingNtp
  <2>1. PICK s \in Datetime!DebianRuns("ntpd", how), n \in Datetime!DebianRuns("ntpd", how),
             d \in Datetime!DebianRuns("ntpdate", how) :
          r = Datetime!DebianSets(how, w, s, n, d)
    BY <2>0 DEF Datetime!SetUsingNtpDebian
  <2>3. Datetime!Told({s, n, d}) = "error" \/ (Datetime!Told({s, n, d}) = "done" /\ {"unstarted", "moved"} \cap {s, n, d} = {})
    BY DEF Datetime!Told
  <2> DEFINE x == Datetime!Service(how, w, s, n)
  <2>4. /\ x \in World /\ x.localtime = w.localtime /\ x.config = w.config
        /\ x.inStep = w.inStep /\ x.utc = w.utc
        /\ s = "works" /\ n = "works" => x.ntpd = how /\ x.started = how
    BY <1>1
  <2>5. /\ r.world = [x EXCEPT !.ntpdate = IF d \in {"works", "moved"} THEN how ELSE @]
        /\ r.answer = Datetime!Told({s, n, d})
    BY <2>1 DEF Datetime!DebianSets, Datetime!Result
  <2> HIDE DEF x
  <2>6. /\ r.world \in World /\ r.world.localtime = w.localtime /\ r.world.config = w.config
        /\ r.world.inStep = w.inStep /\ r.world.utc = w.utc
        /\ r.world.ntpd = x.ntpd /\ r.world.started = x.started
        /\ d = "works" => r.world.ntpdate = how
    BY <2>4, <2>5 DEF World
  <2>7. ASSUME {"unstarted", "moved"} \cap {s, n, d} = {} PROVE NtpKept(r.world, how)
    <3>1. "ntpd" \in machine.tools => s = "works" /\ n = "works"
      BY <1>0, <2>1, <2>7 DEF Datetime!DebianRuns
    <3>2. "ntpdate" \in machine.tools => d = "works"
      <4>1. d # "unstarted" /\ d # "moved" BY <2>7
      <4> QED BY <1>0, <2>1, <4>1 DEF Datetime!DebianRuns
    <3> QED BY <2>4, <2>6, <3>1, <3>2 DEF NtpKept
  <2> QED BY <2>3, <2>5, <2>6, <2>7
<1> QED BY <1>2, <1>3, <1>4

\* A call that was answered.
LEMMA CallAnswered ==
  ASSUME ~ToolsFail, DateInv, NEW c \in Datetime!Call, NEW r,
         r \in {Datetime!Result(world, "refused")} \cup Datetime!Results(c, world),
         world' = r.world, told' = Datetime!Promise(c, r.answer), machine' = machine,
         calls' \in Seq(Datetime!Call)
  PROVE  DateInv'
<1> DEFINE a == r.answer
           Kept(t, methods, is) ==
             IF c.method \notin methods \/ a = "refused" THEN t
             ELSE IF a = "error" THEN Datetime!None
             ELSE IF c.argument = Outside THEN t ELSE is
<1>1. /\ told'.zone = Kept(told.zone, {"SetTimezone"}, c.argument)
      /\ told'.utc = Kept(told.utc, {"SetHardwareClockUsingUtc"}, c.argument)
      /\ told'.ntp = Kept(told.ntp, {"SetUsingNtp"}, c.argument)
      /\ told'.clock = IF c.method = "SetUsingNtp" THEN Datetime!None ELSE Kept(told.clock, {"SetTime", "SetDate"}, "set")
      /\ told' = [zone |-> told'.zone, utc |-> told'.utc, ntp |-> told'.ntp, clock |-> told'.clock]
  BY DEF Datetime!Promise, DateInv, DateTypes
<1>2. /\ world \in World
      /\ told \in [zone : Zone \cup {NoZone}, clock : {NoZone, "set"},
                   utc : {NoZone, "yes", "no"}, ntp : {NoZone, "yes", "no"}]
  BY DEF DateInv, DateTypes
<1> DEFINE TypesOf(z, u, n, k) == /\ z \in Zone \cup {NoZone} /\ u \in {NoZone, "yes", "no"}
                                  /\ n \in {NoZone, "yes", "no"} /\ k \in {NoZone, "set"}
<1>3. ASSUME world' \in World, TypesOf(told'.zone, told'.utc, told'.ntp, told'.clock) PROVE DateTypes'
  BY <1>1, <1>3 DEF DateTypes
<1>4. /\ ZoneKept(world, told.zone) /\ ClockKept(world, told.clock)
      /\ UtcKept(world, told.utc) /\ NtpKept(world, told.ntp)
  BY DEF DateInv
<1>5. /\ told.zone \in Zone \cup {NoZone} /\ told.utc \in {NoZone, "yes", "no"}
      /\ told.ntp \in {NoZone, "yes", "no"} /\ told.clock \in {NoZone, "set"}
  BY <1>2
<1>6. CASE r = Datetime!Result(world, "refused") \/ c.method \in {"GetTimezone", "CanSetTime"}
  <2>1. world' = world /\ (a = "refused" \/ c.method \in {"GetTimezone", "CanSetTime"})
    <3>1. CASE r = Datetime!Result(world, "refused") BY <3>1 DEF Datetime!Result
    <3>2. CASE c.method \in {"GetTimezone", "CanSetTime"} /\ r # Datetime!Result(world, "refused")
      <4>1. r = Datetime!Result(world, "done") BY <3>2 DEF Datetime!Results
      <4> QED BY <3>2, <4>1 DEF Datetime!Result
    <3> QED BY <1>6, <3>1, <3>2
  <2>2. /\ told'.zone = told.zone /\ told'.utc = told.utc /\ told'.ntp = told.ntp
        /\ told'.clock \in {told.clock, NoZone}
    BY <1>1, <2>1 DEF NoZone
  <2>3. told'.clock \in {NoZone, "set"} BY <1>5, <2>2
  <2>4. DateTypes' BY <1>2, <1>3, <1>5, <2>1, <2>2, <2>3
  <2>5. ClockKept(world, told'.clock) BY <1>4, <2>2, NoNames DEF ClockKept
  <2> QED BY <1>4, <2>1, <2>2, <2>4, <2>5 DEF DateInv, ZoneKept, ClockKept, UtcKept, NtpKept
<1>7. CASE r # Datetime!Result(world, "refused") /\ c.method = "SetTimezone"
  <2> DEFINE z == c.argument
  <2>1. r \in Datetime!SetTimezone(z, world) BY <1>7 DEF Datetime!Results
  <2>2. z \in Zone \cup {Outside, Missing} BY <1>7, OfCall
  <2>3. /\ r.world \in World /\ r.world.inStep = world.inStep /\ r.world.utc = world.utc
        /\ r.world.ntpd = world.ntpd /\ r.world.started = world.started /\ r.world.ntpdate = world.ntpdate
        /\ \/ z = Outside /\ r.world = world /\ a = NoZone
           \/ a = "error"
           \/ z \in Zone /\ a = "done" /\ ZoneKept(r.world, z)
    BY <1>2, <2>1, <2>2, ZoneSet
  <2>4. told'.utc = told.utc /\ told'.ntp = told.ntp /\ told'.clock = told.clock BY <1>1, <1>7
  <2>5. \/ told'.zone = told.zone /\ world' = world
        \/ told'.zone = NoZone
        \/ z \in Zone /\ told'.zone = z /\ ZoneKept(world', z)
    BY <1>1, <1>7, <2>3, NoNames DEF NoZone
  <2>6. ZoneKept(world', told'.zone) /\ told'.zone \in Zone \cup {NoZone}
    <3>1. CASE told'.zone = told.zone /\ world' = world BY <1>4, <1>5, <3>1
    <3>2. CASE told'.zone = NoZone BY <3>2 DEF ZoneKept
    <3>3. CASE z \in Zone /\ told'.zone = z /\ ZoneKept(world', z) BY <3>3
    <3> QED BY <2>5, <3>1, <3>2, <3>3
  <2>7. DateTypes' BY <1>3, <1>5, <2>3, <2>4, <2>6
  <2> QED BY <1>4, <2>3, <2>4, <2>6, <2>7 DEF DateInv, ZoneKept, ClockKept, UtcKept, NtpKept
<1>8. CASE r # Datetime!Result(world, "refused") /\ c.method \in {"SetTime", "SetDate"}
  <2>1. r \in Datetime!SetClock(c.method, world) BY <1>8 DEF Datetime!Results
  <2>2. /\ r.world \in World /\ r.world.localtime = world.localtime /\ r.world.config = world.config
        /\ r.world.utc = world.utc /\ r.world.ntpd = world.ntpd /\ r.world.started = world.started
        /\ r.world.ntpdate = world.ntpdate
        /\ \/ a = "error"
           \/ a \in {NoZone, "done"} /\ ("hwclock" \in machine.tools => r.world.inStep)
    BY <1>2, <1>8, <2>1, ClockSet
  <2>3. told'.zone = told.zone /\ told'.utc = told.utc /\ told'.ntp = told.ntp BY <1>1, <1>8
  <2>4. told'.clock = NoZone \/ (told'.clock = "set" /\ ("hwclock" \in machine.tools => r.world.inStep))
    <3>1. c.argument # Outside BY <1>8, OfCall, NoNames
    <3>2. CASE a = "error" BY <1>1, <1>8, <3>2 DEF NoZone
    <3>3. CASE a \in {NoZone, "done"} /\ ("hwclock" \in machine.tools => r.world.inStep)
      <4>1. a # "refused" /\ a # "error" BY <3>3, NoNames
      <4> QED BY <1>1, <1>8, <3>1, <3>3, <4>1
    <3> QED BY <2>2, <3>2, <3>3
  <2>5. DateTypes' BY <1>3, <1>5, <2>2, <2>3, <2>4
  <2>6. ClockKept(world', told'.clock) BY <2>2, <2>4, NoNames DEF ClockKept
  <2> QED BY <1>4, <2>2, <2>3, <2>5, <2>6 DEF DateInv, ZoneKept, ClockKept, UtcKept, NtpKept
<1>9. CASE r # Datetime!Result(world, "refused") /\ c.method = "SetHardwareClockUsingUtc"
  <2>1. r \in Datetime!SetUtc(c.argument, world) BY <1>9 DEF Datetime!Results
  <2>2. c.argument \in {"yes", "no"} BY <1>9, OfCall
  <2>3. /\ r.world \in World /\ r.world.localtime = world.localtime /\ r.world.config = world.config
        /\ r.world.ntpd = world.ntpd /\ r.world.started = world.started /\ r.world.ntpdate = world.ntpdate
        /\ world.inStep => r.world.inStep
        /\ \/ a = "error"
           \/ a = "done" /\ ("hwclock" \in machine.tools => r.world.utc = c.argument)
    BY <1>2, <2>1, <2>2, UtcSet
  <2>4. told'.zone = told.zone /\ told'.clock = told.clock /\ told'.ntp = told.ntp BY <1>1, <1>9
  <2>5. told'.utc = NoZone \/ (told'.utc = c.argument /\ ("hwclock" \in machine.tools => r.world.utc = c.argument))
    <3>1. c.argument # Outside BY <2>2, NoNames
    <3>2. CASE a = "error" BY <1>1, <1>9, <3>2 DEF NoZone
    <3>3. CASE a = "done" /\ ("hwclock" \in machine.tools => r.world.utc = c.argument)
      BY <1>1, <1>9, <3>1, <3>3
    <3> QED BY <2>3, <3>2, <3>3
  <2>6. DateTypes' BY <1>3, <1>5, <2>2, <2>3, <2>4, <2>5
  <2>7. UtcKept(world', told'.utc) BY <2>3, <2>5 DEF UtcKept
  <2> QED BY <1>4, <2>3, <2>4, <2>6, <2>7 DEF DateInv, ZoneKept, ClockKept, UtcKept, NtpKept
<1>10. CASE r # Datetime!Result(world, "refused") /\ c.method = "SetUsingNtp"
  <2>1. r \in Datetime!SetUsingNtp(c.argument, world) BY <1>10 DEF Datetime!Results
  <2>2. c.argument \in {"yes", "no"} BY <1>10, OfCall
  <2>3. /\ r.world \in World /\ r.world.localtime = world.localtime /\ r.world.config = world.config
        /\ r.world.inStep = world.inStep /\ r.world.utc = world.utc
        /\ a = "error" \/ (a = "done" /\ NtpKept(r.world, c.argument))
    BY <1>2, <2>1, <2>2, NtpSet
  <2>4. told'.zone = told.zone /\ told'.utc = told.utc /\ told'.clock = NoZone BY <1>1, <1>10 DEF NoZone
  <2>5. told'.ntp = NoZone \/ (told'.ntp = c.argument /\ NtpKept(r.world, c.argument))
    <3>1. c.argument # Outside BY <2>2, NoNames
    <3>2. CASE a = "error" BY <1>1, <1>10, <3>2 DEF NoZone
    <3>3. CASE a = "done" /\ NtpKept(r.world, c.argument) BY <1>1, <1>10, <3>1, <3>3
    <3> QED BY <2>3, <3>2, <3>3
  <2>6. DateTypes' BY <1>3, <1>5, <2>2, <2>3, <2>4, <2>5
  <2>7. NtpKept(world', told'.ntp) BY <2>5 DEF NtpKept
  <2>8. ClockKept(world', told'.clock) BY <2>4, NoNames DEF ClockKept
  <2> QED BY <1>4, <2>3, <2>4, <2>6, <2>7, <2>8 DEF DateInv, ZoneKept, ClockKept, UtcKept, NtpKept
<1> QED BY <1>6, <1>7, <1>8, <1>9, <1>10, OfCall DEF Datetime!Methods

LEMMA DateInit == Datetime!Init => DateInv
<1> SUFFICES ASSUME Datetime!Init PROVE DateInv OBVIOUS
<1>1. PICK z \in Zone, k \in {"link", "relative", "file"}, having \in SUBSET Datetime!ToSet(Files) :
        world = [localtime |-> [kind |-> k, zone |-> z],
                 config |-> [f \in Datetime!ToSet(Files) |-> IF f \in having THEN z ELSE Datetime!None],
                 inStep |-> FALSE, utc |-> "no", ntpd |-> "no", started |-> "no", ntpdate |-> "no"]
  BY DEF Datetime!Init
<1>2. world \in World BY <1>1 DEF World, NoZone
<1>3. /\ told = [zone |-> NoZone, clock |-> NoZone, utc |-> NoZone, ntp |-> NoZone] /\ calls = <<>>
  BY DEF Datetime!Init, NoZone
<1>4. /\ told.zone = NoZone /\ told.clock = NoZone /\ told.utc = NoZone /\ told.ntp = NoZone BY <1>3
<1>5. DateTypes BY <1>2, <1>3 DEF DateTypes
<1>6. NoZone # "set" BY NoNames
<1> QED BY <1>4, <1>5, <1>6 DEF DateInv, ZoneKept, ClockKept, UtcKept, NtpKept

LEMMA DateStep ==
  ASSUME ~ToolsFail PROVE DateInv /\ [Datetime!Next]_(Datetime!vars) => DateInv'
<1> SUFFICES ASSUME DateInv, [Datetime!Next]_(Datetime!vars) PROVE DateInv' OBVIOUS
<1>0. calls \in Seq(Datetime!Call) BY DEF DateInv, DateTypes
<1>1. ASSUME calls' \in Seq(Datetime!Call), UNCHANGED <<machine, world, told>> PROVE DateInv'
  BY <1>1 DEF DateInv, DateTypes, ZoneKept, ClockKept, UtcKept, NtpKept
<1>2. CASE UNCHANGED Datetime!vars BY <1>0, <1>1, <1>2 DEF Datetime!vars
<1>3. ASSUME NEW c \in Datetime!Call, Datetime!Invoke(c) PROVE DateInv'
  BY <1>0, <1>1, <1>3 DEF Datetime!Invoke
<1>4. CASE Datetime!Tick BY <1>0, <1>1, <1>4 DEF Datetime!Tick
<1>5. CASE Datetime!Exit BY <1>1, <1>5 DEF Datetime!Exit
<1>6. CASE Datetime!Serve
  <2>1. calls # <<>> /\ calls' = Tail(calls) /\ machine' = machine BY <1>6 DEF Datetime!Serve
  <2>2. Tail(calls) \in Seq(Datetime!Call) /\ Head(calls) \in Datetime!Call BY <1>0, <2>1
  <2>3. PICK c \in Datetime!Call : c = Head(calls) BY <2>2
  <2>4. PICK r \in (IF c.method \in Datetime!Free THEN {} ELSE {Datetime!Result(world, "refused")})
                     \cup Datetime!Results(c, world) :
          world' = r.world /\ told' = Datetime!Promise(c, r.answer)
    BY <1>6, <2>3 DEF Datetime!Serve
  <2>5. r \in {Datetime!Result(world, "refused")} \cup Datetime!Results(c, world) BY <2>4
  <2> QED BY <2>1, <2>2, <2>4, <2>5, CallAnswered
<1> QED BY <1>2, <1>3, <1>4, <1>5, <1>6 DEF Datetime!Next

LEMMA MinOf ==
  ASSUME NEW I \in SUBSET Nat, I # {}
  PROVE  Datetime!Min(I) \in I /\ \A y \in I : Datetime!Min(I) <= y
<1>1. Datetime!Min(I) = CHOOSE x \in I : \A y \in I : x <= y BY DEF Datetime!Min
<1>2. ASSUME NEW n, n = Datetime!Min(I) PROVE n \in I /\ \A y \in I : n <= y BY <1>1, <1>2, Least
<1> QED BY <1>2

LEMMA ZoneFound ==
  ASSUME NEW w \in World, NEW z \in Zone \ Odd, ZoneKept(w, z), \A y \in Zone \ Odd : Twin[y] \in Zone \ Odd
  PROVE  \/ Datetime!Find(w) = z
         \/ Datetime!Find(w) = Twin[z] /\ \A f \in Datetime!ToSet(Files) : w.config[f] = Datetime!None
<1> DEFINE V == Zone \ Odd
           N == Zone \cup {NoZone}
           linked == IF w.localtime.kind = "link" THEN <<w.localtime.zone>> ELSE <<>>
           read == [i \in DOMAIN Files |-> w.config[Files[i]]]
           data == CASE w.localtime.kind = "file" -> <<Twin[w.localtime.zone]>>
                     [] w.localtime.kind \in {"link", "relative"} -> <<w.localtime.zone, Twin[w.localtime.zone]>>
                     [] OTHER -> <<>>
           q == linked \o read \o data
           I == {i \in 1 .. Len(q) : q[i] \in V}
           first == Datetime!Min(I)
           valid == IF I # {} THEN first ELSE 0
<1>0. /\ z # NoZone /\ w.localtime.zone = z /\ w.localtime.kind \in {"link", "file"}
      /\ \A f \in Datetime!ToSet(Files) : w.config[f] \in {NoZone, z}
      /\ Twin[z] \in V /\ NoZone \notin V
  BY NoNames DEF ZoneKept
<1>1. DOMAIN Files = 1 .. Len(Files) /\ Len(Files) \in Nat BY FilesAssumption
<1>2. \A i \in 1 .. Len(Files) : Files[i] \in Datetime!ToSet(Files) BY <1>1 DEF Datetime!ToSet
<1>3. /\ read \in Seq(N) /\ Len(read) = Len(Files)
      /\ \A i \in 1 .. Len(Files) : read[i] = w.config[Files[i]]
  <2>1. w.config \in [Datetime!ToSet(Files) -> N] BY DEF World
  <2>2. read \in [1 .. Len(Files) -> N] BY <1>1, <1>2, <2>1
  <2>3. read \in Seq(N) /\ Len(read) = Len(Files)
    <3> HIDE DEF read
    <3> QED BY <1>1, <2>2
  <2> QED BY <1>1, <2>3
<1>4. Datetime!Find(w) = IF valid = 0 THEN "UTC" ELSE q[valid] BY DEF Datetime!Find, Datetime!SelectInSeq
<1>5. CASE w.localtime.kind = "link"
  <2>1. linked = <<z>> /\ data = <<z, Twin[z]>> BY <1>0, <1>5
  <2> HIDE DEF read
  <2>2. /\ <<z>> \in Seq(N) /\ Len(<<z>>) = 1 /\ <<z>>[1] = z
        /\ <<z, Twin[z]>> \in Seq(N) /\ Len(<<z, Twin[z]>>) = 2
    <3>1. Twin[z] \in N BY <1>0
    <3> QED BY <3>1
  <2>3. q \in Seq(N) /\ q[1] = z /\ 1 \in 1 .. Len(q)
    <3> DEFINE rest == <<z, Twin[z]>>
    <3>1. q = (<<z>> \o read) \o rest BY <2>1
    <3>2. rest \in Seq(N) /\ Len(rest) = 2 BY <2>2
    <3> HIDE DEF q, rest
    <3>3. <<z>> \o read \in Seq(N) /\ Len(<<z>> \o read) = 1 + Len(read) /\ (<<z>> \o read)[1] = z
      BY <1>1, <1>3, <2>2
    <3> QED BY <1>1, <1>3, <3>1, <3>2, <3>3
  <2> HIDE DEF q
  <2>4. I \in SUBSET Nat /\ 1 \in I /\ I \subseteq 1 .. Len(q) BY <2>3
  <2> HIDE DEF I
  <2>5. I # {} /\ first \in I /\ first <= 1 BY <2>4, MinOf
  <2>6. first = 1 /\ valid = first
    <3> HIDE DEF first
    <3> QED BY <2>3, <2>4, <2>5
  <2> QED BY <1>4, <2>3, <2>6
<1>6. CASE w.localtime.kind = "file"
  <2>1. linked = <<>> /\ data = <<Twin[z]>> BY <1>0, <1>6
  <2> HIDE DEF read
  <2>2. <<Twin[z]>> \in Seq(N) /\ Len(<<Twin[z]>>) = 1 /\ <<Twin[z]>>[1] = Twin[z]
    <3>1. Twin[z] \in N BY <1>0
    <3> QED BY <3>1
  <2> DEFINE m == Len(Files) + 1
  <2>3. q \in Seq(N) /\ m \in 1 .. Len(q) /\ q[m] = Twin[z] /\ \A i \in 1 .. Len(Files) : q[i] = read[i]
    <3>1. q = (<<>> \o read) \o <<Twin[z]>> BY <2>1
    <3>2. <<>> \o read = read BY <1>3
    <3>3. q = read \o <<Twin[z]>> BY <3>1, <3>2
    <3> HIDE DEF q
    <3>4. /\ read \o <<Twin[z]>> \in Seq(N) /\ Len(read \o <<Twin[z]>>) = Len(read) + 1
          /\ \A i \in 1 .. Len(read) : (read \o <<Twin[z]>>)[i] = read[i]
          /\ \A i \in 1 .. 1 : (read \o <<Twin[z]>>)[Len(read) + i] = <<Twin[z]>>[i]
      BY <1>3, <2>2, Joined
    <3> QED BY <1>1, <1>3, <2>2, <3>3, <3>4
  <2> HIDE DEF q
  <2>04. I \in SUBSET Nat /\ m \in I /\ q[m] \in V BY <1>0, <2>3
  <2>05. I # {} /\ first \in I /\ \A i \in I : first <= i
    <3> HIDE DEF I, m
    <3> QED BY <2>04, MinOf
  <2>06. PICK n : n = first OBVIOUS
  <2>07. valid = n BY <2>05, <2>06
  <2> HIDE DEF first, valid
  <2>08. n \in 1 .. Len(q) /\ q[n] \in V /\ n <= m BY <2>04, <2>05, <2>06
  <2>4. n \in 1 .. m /\ \A i \in 1 .. n - 1 : q[i] \notin V
    <3>1. n \in 1 .. m BY <1>1, <2>08
    <3>2. ASSUME NEW i \in 1 .. n - 1 PROVE q[i] \notin V
      <4>1. i \in 1 .. Len(q) /\ ~(n <= i) BY <2>08
      <4>2. i \notin I BY <2>05, <2>06, <4>1
      <4> QED BY <4>1, <4>2
    <3> QED BY <3>1, <3>2
  <2>5. Datetime!Find(w) = q[n] BY <1>1, <1>4, <2>07, <2>08
  <2>6. CASE n \in 1 .. Len(Files)
    <3>1. q[n] \in {NoZone, z} BY <1>0, <1>2, <1>3, <2>3, <2>6
    <3> QED BY <1>0, <2>08, <2>5, <3>1
  <2>7. CASE n = m
    <3>1. ASSUME NEW f \in Datetime!ToSet(Files) PROVE w.config[f] = NoZone
      <4>1. PICK i \in DOMAIN Files : f = Files[i] BY DEF Datetime!ToSet
      <4>2. i \in 1 .. Len(Files) /\ i \in 1 .. n - 1 BY <1>1, <2>7, <4>1
      <4>3. w.config[f] \notin V BY <1>3, <2>3, <2>4, <4>1, <4>2
      <4> QED BY <1>0, <4>3
    <3> QED BY <2>3, <2>5, <2>7, <3>1 DEF NoZone
  <2> QED BY <1>1, <2>4, <2>6, <2>7
<1> QED BY <1>0, <1>5, <1>6

\* The last promise of the date and time service is kept, whatever failed in
\* between (PromisesKept: csd-datetime-mechanism.c, system-timezone.c), for any
\* zones, configuration files and number of calls: unless a tool that was
\* started is in vain, and if no zone with a valid name is known by its data
\* under a name only that the service's own check refuses.
THEOREM ServiceKeepsPromises ==
  ASSUME ~ToolsFail, \A z \in Zone \ Odd : Twin[z] \in Zone \ Odd
  PROVE  AllSpec => []PromisesKept
<1>1. Datetime!Spec => []DateInv BY DateInit, DateStep, PTL DEF Datetime!Spec
<1>2. DateInv => PromisesKept
  <2> SUFFICES ASSUME DateInv PROVE Datetime!PromisesKept BY DEF PromisesKept
  <2>1. world \in World BY DEF DateInv, DateTypes
  <2>2. ASSUME told.zone \in Zone \ Odd
        PROVE  \/ Datetime!Find(world) = told.zone
               \/ Datetime!Find(world) = Twin[told.zone] /\ \A f \in Datetime!ToSet(Files) : world.config[f] = Datetime!None
    BY <2>1, <2>2, ZoneFound DEF DateInv
  <2>3. "hwclock" \in machine.tools => (told.clock = "set" => world.inStep) BY DEF DateInv, ClockKept
  <2>4. "hwclock" \in machine.tools => (told.utc # Datetime!None => world.utc = told.utc)
    BY DEF DateInv, UtcKept, NoZone
  <2>5. told.ntp # Datetime!None =>
         /\ "ntpd" \in machine.tools => world.ntpd = told.ntp /\ world.started = told.ntp
         /\ machine.distribution = "debian" /\ "ntpdate" \in machine.tools => world.ntpdate = told.ntp
    BY DEF DateInv, NtpKept, NoZone
  <2> QED BY <2>2, <2>3, <2>4, <2>5 DEF Datetime!PromisesKept
<1> QED BY <1>1, <1>2, PartIsDatetime, PTL

-----------------------------------------------------------------------------
(* The types of the parts, which follow from the invariants above but for  *)
(* what these had no use for.                                              *)

LEMMA MounterTypes == MounterInv => Mounter!TypeOK
<1> SUFFICES ASSUME MounterInv PROVE Mounter!TypeOK OBVIOUS
<1>1. LockInv /\ LockTypes /\ QueueInv BY DEF MounterInv, LockInv
<1>2. volume_queue \in Seq(Volume) /\ NoRepeats(volume_queue) BY <1>1 DEF QueueInv
<1>3. DOMAIN volume_queue = 1 .. Len(volume_queue) BY <1>2
<1>4. Mounter!IsInjective(volume_queue) BY <1>2, <1>3 DEF Mounter!IsInjective, NoRepeats
<1>5. locked \in {FALSE, owner}
  <2>1. owner \in BOOLEAN /\ locked \in BOOLEAN /\ (locked => owner) BY <1>1 DEF LockInv, LockTypes
  <2>2. CASE owner = TRUE BY <2>1, <2>2
  <2>3. CASE owner = FALSE BY <2>1, <2>3
  <2> QED BY <2>1, <2>2, <2>3
<1>6. plugged \subseteq Volume /\ asked_to_mount \subseteq plugged /\ session_is_active \in BOOLEAN /\ idle \in BOOLEAN
  BY <1>1 DEF QueueInv
<1>7. /\ owner \in BOOLEAN /\ ss_proxy \in BOOLEAN /\ screensaver_active \in BOOLEAN
      /\ making \in Nat /\ connected \in Nat /\ asking \in Nat
  BY <1>1 DEF LockTypes
<1> QED BY <1>2, <1>4, <1>5, <1>6, <1>7 DEF Mounter!TypeOK

\* What the manager knows, and of which service.
StateTyped == source \in Modes /\ state \in {"unknown", "active", "inactive"}

LEMMA StateStep == SessionInv /\ StateTyped /\ [Session!Next]_Session!vars => StateTyped'
<1> SUFFICES ASSUME SessionInv, StateTyped, [Session!Next]_Session!vars PROVE StateTyped' OBVIOUS
<1>1. source' = source
  BY DEF Session!Next, Session!vars, Session!Switch, Session!SessionsChanged, Session!MonitorFlush,
         Session!GotManagerProxy, Session!GotSessionPath, Session!GotSessionProxy, Session!Proceed,
         Session!AnswerIsActive, Session!IsActiveCb, Session!SessionProxySignalCb
<1>2. state' = state \/ \E b : state' = Session!State(b)
  BY DEF Session!Next, Session!vars, Session!Switch, Session!SessionsChanged, Session!MonitorFlush,
         Session!GotManagerProxy, Session!GotSessionPath, Session!GotSessionProxy, Session!Proceed,
         Session!AnswerIsActive, Session!IsActiveCb, Session!SessionProxySignalCb, Session!SetState
<1> QED BY <1>1, <1>2 DEF StateTyped, Session!State

LEMMA SessionTyped == AllSpec => []Session!TypeOK
<1>1. Session!Init => StateTyped
  BY DEF Session!Init, StateTyped, Session!State
<1>2. Session!Spec /\ []SessionInv => []StateTyped
  BY <1>1, StateStep, PTL DEF Session!Spec
<1>3. SessionInv /\ StateTyped => Session!TypeOK
  <2> SUFFICES ASSUME SessionInv, StateTyped PROVE Session!TypeOK OBVIOUS
  <2>1. /\ isActive \in BOOLEAN /\ missed \in BOOLEAN /\ asked \in BOOLEAN /\ readable \in BOOLEAN
        /\ at \in {"poll", "flush", "manager", "path", "session", "IsActive", "connected", "failed"}
    BY DEF SessionInv
  <2>2. Signals => Session!Answers = {} BY DEF Signals, IsSignal, Session!Answers
  <2>3. Answered => \A m, n \in Session!Answers : m = n BY DEF Answered, IsSignal, Session!Answers
  <2>4. messages = <<>> => Session!Answers = {} BY DEF Session!Answers
  <2>5. CASE at = "IsActive"
    <3>1. CASE asked
      <4>1. Session!Answers = {} BY <2>2, <2>5, <3>1 DEF SessionInv
      <4> QED BY <2>1, <2>5, <3>1, <4>1 DEF Session!TypeOK, Session!Call, StateTyped
    <3>2. CASE ~asked
      <4>1. \A m, n \in Session!Answers : m = n BY <2>3, <2>5, <3>2 DEF SessionInv
      <4> QED BY <2>1, <2>5, <3>2, <4>1 DEF Session!TypeOK, Session!Call, StateTyped
    <3> QED BY <3>1, <3>2
  <2>6. CASE at # "IsActive"
    <3>1. ~asked /\ Session!Answers = {}
      <4>1. CASE at = "failed" \/ at = "connected" BY <2>2, <4>1 DEF SessionInv
      <4>2. CASE at # "failed" /\ at # "connected" BY <2>1, <2>4, <2>6, <4>2 DEF SessionInv
      <4> QED BY <4>1, <4>2
    <3> QED BY <2>1, <3>1 DEF Session!TypeOK, Session!Call, StateTyped
  <2> QED BY <2>5, <2>6
<1> QED BY <1>2, <1>3, PartIsSession, SessionKept, PTL

LEMMA NamesTyped == NamesInv => Names!TypeOK
<1> SUFFICES ASSUME NamesInv PROVE Names!TypeOK OBVIOUS
<1>1. /\ main_stage \in [Daemon -> Names!Stage] /\ names_asked \in [Daemon -> SUBSET Names!Name]
      /\ registered \in [Daemon -> {"no", "asked", "connected"}]
      /\ name_queue \in [Names!Name -> Seq(Daemon \cup {Foreign})] /\ bus_messages \in [Daemon -> Seq(Told)]
  BY DEF NamesInv, NamesTypes, BusOK, Names!Bus
<1>2. ASSUME NEW S, NEW q \in Seq(S) PROVE Names!ToSet(q) \subseteq S
  BY <1>2 DEF Names!ToSet
<1>3. \A n \in Names!Name : Names!ToSet(name_queue[n]) \subseteq Daemon \cup {Foreign} BY <1>1, <1>2
<1>4. \A d \in Daemon : Names!ToSet(bus_messages[d]) \subseteq {"acquired", "lost", "stop"}
  BY <1>1, <1>2 DEF Told
<1> QED BY <1>1, <1>3, <1>4 DEF Names!TypeOK

-----------------------------------------------------------------------------
\* The quiet of the fonts is waited for by a monitor that is up, and no stamp
\* is ahead of the serial.
FontsTyped ==
  /\ manager \in {"running", "stopped", "crashed"} /\ writes \in 0 .. MaxWrites
  /\ fonts.timer => fonts.monitor = "on"
Stamped == \A n \in Published!Name : published[n].last_change <= serial

LEMMA StampOfSet ==
  ASSUME NEW s \in Setting, NEW v, NEW t
  PROVE  /\ Published!SetLower(s, v, t).last_change \in {s.last_change, t}
         /\ Published!SetUpper(s, v, t).last_change \in {s.last_change, t}
BY DEF Setting, Published!SetLower, Published!SetUpper, Published!Set

\* What changes is stamped with the serial, which only grows.
LEMMA StampedStep == PubInv /\ Stamped /\ [Published!Next]_Published!vars => Stamped'
<1> SUFFICES ASSUME PubInv, Stamped, [Published!Next]_Published!vars PROVE Stamped' OBVIOUS
<1>1. /\ serial \in Nat /\ published \in [Published!Name -> Setting]
      /\ \A n \in Published!Name : published[n].last_change \in Int /\ published[n].last_change <= serial
  BY DEF PubInv, PubTypes, Setting, Stamped
<1>2. ASSUME serial' = serial, \A n \in Published!Name : published'[n].last_change \in {published[n].last_change, serial}
      PROVE Stamped'
  <2> SUFFICES ASSUME NEW n \in Published!Name PROVE published'[n].last_change <= serial BY <1>2 DEF Stamped
  <2>1. CASE published'[n].last_change = serial BY <1>1, <2>1
  <2>2. CASE published'[n].last_change = published[n].last_change BY <1>1, <2>2
  <2> QED BY <1>2, <2>1, <2>2
<1>3. ASSUME UNCHANGED <<published, serial>> PROVE Stamped' BY <1>2, <1>3
<1>4. ASSUME serial' = serial, NEW m, NEW v, published' = [published EXCEPT ![m] = Published!SetLower(@, v, serial)]
      PROVE Stamped'
  <2>1. ASSUME NEW n \in Published!Name PROVE published'[n].last_change \in {published[n].last_change, serial}
    <3>1. CASE n = m
      <4>1. published'[n] = Published!SetLower(published[n], v, serial) BY <1>1, <1>4, <3>1
      <4> QED BY <1>1, <4>1, StampOfSet
    <3>2. CASE n # m BY <1>1, <1>4, <3>2
    <3> QED BY <3>1, <3>2
  <2> QED BY <1>2, <1>4, <2>1
<1>5. ASSUME NEW n \in Translated, NEW v \in Value, Published!WriteValue(n, v) PROVE Stamped'
  BY <1>3, <1>4, <1>5 DEF Published!WriteValue
<1>6. ASSUME NEW n, NEW v, Published!WriteOverride(n, v) PROVE Stamped'
  <2>1. serial' = serial BY <1>6 DEF Published!WriteOverride
  <2>2. CASE manager = "running"
    <3>1. published' = Published!Overridden(published, gsettings'.override) BY <1>6, <2>2 DEF Published!WriteOverride
    <3>2. ASSUME NEW m \in Published!Name PROVE published'[m].last_change \in {published[m].last_change, serial}
      <4>1. published'[m] = published[m] \/ \E u : published'[m] = Published!SetUpper(published[m], u, serial)
        BY <3>1 DEF Published!Overridden
      <4> QED BY <1>1, <4>1, StampOfSet
    <3> QED BY <1>2, <2>1, <3>2
  <2>3. CASE manager # "running" BY <1>3, <1>6, <2>3 DEF Published!WriteOverride
  <2> QED BY <2>2, <2>3
<1>7. ASSUME NEW later, Published!ChangeDirectory(later) PROVE Stamped'
  <2>1. serial' = serial BY <1>7 DEF Published!ChangeDirectory
  <2>2. \/ published' = published
        \/ \E v : published' = [published EXCEPT ![Published!Modules] = Published!SetLower(@, v, serial)]
    BY <1>7, Zenon DEF Published!ChangeDirectory
  <2> QED BY <1>3, <1>4, <2>1, <2>2
<1>8. CASE Published!Update
  <2>1. serial' = serial BY <1>8 DEF Published!Update, Published!published
  <2>2. \/ published' = published
        \/ \E v : published' = [published EXCEPT ![Published!Stamp] = Published!SetLower(@, v, serial)]
    BY <1>8, Zenon DEF Published!Update, Published!published
  <2> QED BY <1>3, <1>4, <2>1, <2>2
<1>9. CASE Published!NotifyIdle
  <2>1. published' = published /\ serial' \in {serial, serial + 1} BY <1>9 DEF Published!NotifyIdle
  <2> SUFFICES ASSUME NEW n \in Published!Name PROVE published[n].last_change <= serial' BY <2>1 DEF Stamped
  <2> QED BY <1>1, <2>1
<1>10. ASSUME NEW key, Published!WriteModules(key) PROVE Stamped' BY <1>3, <1>10 DEF Published!WriteModules, Published!published
<1>11. CASE Published!ChangeFonts \/ Published!StartMonitor \/ Published!Stop
  BY <1>3, <1>11 DEF Published!ChangeFonts, Published!StartMonitor, Published!Stop, Published!published
<1>12. CASE UNCHANGED Published!vars BY <1>3, <1>12 DEF Published!vars
<1> QED BY <1>5, <1>6, <1>7, <1>8, <1>9, <1>10, <1>11, <1>12 DEF Published!Next

LEMMA FontsStep == PubInv /\ FontsTyped /\ [Published!Next]_Published!vars => FontsTyped'
<1> SUFFICES ASSUME PubInv, FontsTyped, [Published!Next]_Published!vars PROVE FontsTyped' OBVIOUS
<1>0. /\ MaxWrites \in Nat /\ writes \in 0 .. MaxWrites /\ manager \in {"running", "stopped", "crashed"}
      /\ fonts \in [now : Nat, loaded : Nat, monitor : {"idle", "on", "off"}, timer : BOOLEAN]
      /\ fonts.timer => fonts.monitor = "on"
  BY CountsAssumption DEF PubInv, PubTypes, FontsTyped
<1>1. ASSUME Published!Write PROVE writes' \in 0 .. MaxWrites
  BY <1>0, <1>1 DEF Published!Write
<1>2. ASSUME UNCHANGED <<manager, fonts>>, writes' \in 0 .. MaxWrites PROVE FontsTyped'
  BY <1>0, <1>2 DEF FontsTyped
<1>3. ASSUME NEW n \in Translated, NEW v \in Value, Published!WriteValue(n, v) PROVE FontsTyped'
  BY <1>1, <1>2, <1>3 DEF Published!WriteValue
<1>4. ASSUME NEW n, NEW v, Published!WriteOverride(n, v) PROVE FontsTyped'
  BY <1>1, <1>2, <1>4 DEF Published!WriteOverride
<1>5. ASSUME NEW key, Published!WriteModules(key) PROVE FontsTyped'
  BY <1>1, <1>2, <1>5 DEF Published!WriteModules
<1>6. ASSUME NEW later, Published!ChangeDirectory(later) PROVE FontsTyped'
  BY <1>1, <1>2, <1>6 DEF Published!ChangeDirectory
<1>7. CASE Published!ChangeFonts
  <2>1. writes' \in 0 .. MaxWrites /\ manager' = manager BY <1>1, <1>7 DEF Published!ChangeFonts
  <2>2. fonts'.monitor = fonts.monitor /\ (fonts'.timer => fonts.timer \/ fonts.monitor = "on")
    BY <1>0, <1>7 DEF Published!ChangeFonts
  <2> QED BY <1>0, <2>1, <2>2 DEF FontsTyped
<1>8. CASE Published!StartMonitor
  <2>1. writes' = writes /\ manager' = manager /\ fonts'.monitor = "on" BY <1>0, <1>8 DEF Published!StartMonitor
  <2> QED BY <1>0, <2>1 DEF FontsTyped
<1>9. CASE Published!Update
  <2>1. writes' = writes /\ ~fonts'.timer BY <1>0, <1>9 DEF Published!Update
  <2>2. manager' \in {"running", "stopped", "crashed"} BY <1>0, <1>9 DEF Published!Update
  <2> QED BY <1>0, <2>1, <2>2 DEF FontsTyped
<1>10. CASE Published!NotifyIdle
  <2>1. writes' = writes /\ fonts' = fonts BY <1>10 DEF Published!NotifyIdle
  <2>2. manager' \in {"running", "stopped", "crashed"} BY <1>0, <1>10 DEF Published!NotifyIdle
  <2> QED BY <1>0, <2>1, <2>2 DEF FontsTyped
<1>11. CASE Published!Stop
  <2>1. writes' = writes /\ manager' = "stopped" BY <1>11 DEF Published!Stop
  <2>2. fonts'.timer => fonts'.monitor = "on"
    <3>1. CASE fonts.monitor = "on"
      <4>1. ~fonts'.timer BY <1>0, <1>11, <3>1 DEF Published!Stop
      <4> QED BY <4>1
    <3>2. CASE fonts.monitor # "on" BY <1>0, <1>11, <3>2 DEF Published!Stop
    <3> QED BY <3>1, <3>2
  <2> QED BY <1>0, <2>1, <2>2 DEF FontsTyped
<1>12. CASE UNCHANGED Published!vars BY <1>0, <1>2, <1>12 DEF Published!vars
<1> QED BY <1>3, <1>4, <1>5, <1>6, <1>7, <1>8, <1>9, <1>10, <1>11, <1>12 DEF Published!Next

LEMMA PublishedTyped == AllSpec => []Published!TypeOK
<1>1. Published!Init => FontsTyped /\ Stamped
  BY CountsAssumption DEF Published!Init, FontsTyped, Stamped
<1>2. Published!Spec /\ []PubInv => [](FontsTyped /\ Stamped)
  BY <1>1, FontsStep, StampedStep, PTL DEF Published!Spec
<1>3. PubInv /\ FontsTyped /\ Stamped => Published!TypeOK
  BY DEF PubInv, Relayed, FontsTyped, Stamped, Published!TypeOK
<1> QED BY <1>2, <1>3, PartIsPublished, PublishedKept, PTL

-----------------------------------------------------------------------------
\* Settings and controls, and what is going to be written to either.
Chosen == [on : SUBSET Access!Control, delay : Delays \cup {MaxDelay}]
AccessTypes ==
  /\ settings \in Chosen /\ controls \in Chosen /\ (doing # "idle" => desc \in Chosen)
  /\ alerts \subseteq Access!Feature /\ questions \in Nat
  /\ living \subseteq 1 .. questions /\ visible \subseteq [id : 1 .. questions, of : Access!Feature]

LEMMA ResponseTyped ==
  ASSUME AccessTypes, NEW f \in Access!Feature, NEW answer, Access!Response(f, answer)
  PROVE  settings' \in Chosen /\ (doing' # "idle" => desc' \in Chosen)
<1> DEFINE without == [settings EXCEPT !.on = {}]
           back == [settings EXCEPT !.on = IF shortcut_val[f] THEN @ \ {f} ELSE @ \cup {f}]
<1>1. f \in Access!Control BY DEF Access!Control
<1>2. without \in Chosen /\ back \in Chosen BY <1>1 DEF AccessTypes, Chosen
<1>3. \/ settings' = settings /\ desc' = without
      \/ settings' = back /\ desc' = back
      \/ settings' = settings /\ desc' = desc /\ doing' = doing
  BY DEF Access!Response, Access!Reads
<1> HIDE DEF without, back
<1> QED BY <1>2, <1>3 DEF AccessTypes

LEMMA AccessTypesStep == AccessTypes /\ [Access!Next]_Access!vars => AccessTypes'
<1> SUFFICES ASSUME AccessTypes, [Access!Next]_Access!vars PROVE AccessTypes' OBVIOUS
<1> DEFINE Values(s, c, w, d) == s \in Chosen /\ c \in Chosen /\ (w # "idle" => d \in Chosen)
           Shows(a, q, l, v) == /\ a \subseteq Access!Feature /\ q \in Nat /\ l \subseteq 1 .. q
                                /\ v \subseteq [id : 1 .. q, of : Access!Feature]
<1>0. Values(settings, controls, doing, desc) /\ Shows(alerts, questions, living, visible) BY DEF AccessTypes
<1>a. ASSUME Values(settings', controls', doing', desc'), Shows(alerts', questions', living', visible') PROVE AccessTypes'
  BY <1>a DEF AccessTypes
<1>b. ASSUME Values(settings', controls', doing', desc'), UNCHANGED <<alerts, questions, living, visible>> PROVE AccessTypes'
  BY <1>0, <1>a, <1>b
<1>c. ASSUME UNCHANGED <<settings, controls, doing, desc>>, Shows(alerts', questions', living', visible') PROVE AccessTypes'
  BY <1>0, <1>a, <1>c
<1> HIDE DEF Shows
<1>1. CASE Access!WriteSetting
  <2>1. settings' \in Chosen
    <3>1. ASSUME NEW c \in Access!Control, settings' = [settings EXCEPT !.on = Access!Flip(@, c)] PROVE settings' \in Chosen
      BY <1>0, <3>1 DEF Chosen, Access!Flip
    <3>2. ASSUME NEW d \in Delays, settings' = [settings EXCEPT !.delay = d] PROVE settings' \in Chosen
      BY <1>0, <3>2 DEF Chosen
    <3> QED BY <1>1, <3>1, <3>2 DEF Access!WriteSetting
  <2> QED BY <1>0, <1>1, <1>b, <2>1 DEF Access!WriteSetting, Access!asks
<1>2. ASSUME NEW c \in Access!Control, Access!Press(c) PROVE AccessTypes'
  <2>1. controls' \in Chosen BY <1>0, <1>2 DEF Access!Press, Access!Flip, Chosen
  <2> QED BY <1>0, <1>2, <1>b, <2>1 DEF Access!Press, Access!asks
<1>3. CASE Access!SetServer
  <2>1. controls' \in Chosen BY <1>0, <1>3 DEF Access!SetServer, Access!ForServer, Chosen
  <2> QED BY <1>0, <1>3, <1>b, <2>1 DEF Access!SetServer, Access!asks
<1>4. CASE Access!KeyboardCallback
  BY <1>0, <1>4, <1>b DEF Access!KeyboardCallback, Access!Reads, Access!both, Access!asks
<1>5. CASE Access!KeyboardAdded
  BY <1>0, <1>5, <1>b DEF Access!KeyboardAdded, Access!Reads, Access!both, Access!asks
<1>6. CASE Access!XkbEvent
  BY <1>0, <1>6, <1>b DEF Access!XkbEvent, Access!both, Access!asks
<1>7. CASE Access!ApplySettings
  <2>1. settings' = desc /\ controls' = controls /\ desc \in Chosen BY <1>0, <1>7 DEF Access!ApplySettings
  <2>2. doing' = "idle" \/ desc' = desc BY <1>7 DEF Access!ApplySettings, Access!Reads
  <2>3. UNCHANGED <<alerts, questions, living, visible>> \/ \E f \in Access!Feature : Access!WarningPost(f, f \in desc.on)
    <3> DEFINE flips == (desc.on \ settings.on) \cup (settings.on \ desc.on)
    <3>1. CASE \E f \in Access!Feature : flips = {f} /\ desc.delay = settings.delay /\ "enable" \in desc.on
      <4>1. (CHOOSE f \in Access!Feature : f \in flips) \in Access!Feature BY <3>1
      <4> QED BY <1>7, <3>1, <4>1 DEF Access!ApplySettings
    <3>2. CASE ~(\E f \in Access!Feature : flips = {f} /\ desc.delay = settings.delay /\ "enable" \in desc.on)
      BY <1>7, <3>2 DEF Access!ApplySettings, Access!asks
    <3> QED BY <3>1, <3>2
  <2>4. Shows(alerts', questions', living', visible')
    <3>1. CASE UNCHANGED <<alerts, questions, living, visible>> BY <1>0, <3>1
    <3>2. ASSUME NEW f \in Access!Feature, Access!WarningPost(f, f \in desc.on)
          PROVE Shows(alerts', questions', living', visible')
      <4>0. "slow" \in Access!Feature BY DEF Access!Feature
      <4>1. CASE questions' = questions /\ living' = living /\ visible' = visible /\ alerts' = alerts \cup {f}
        BY <1>0, <4>1 DEF Shows
      <4>2. CASE /\ questions' = questions + 1 /\ living' = living \cup {questions + 1} /\ alerts' \subseteq alerts \cup {f}
                 /\ visible' \subseteq visible \cup {[id |-> questions + 1, of |-> f]}
        <5>1. questions \in Nat /\ questions' \in Nat /\ 1 .. questions \subseteq 1 .. questions' /\ questions + 1 \in 1 .. questions'
          BY <1>0, <4>2 DEF Shows
        <5>2. [id : 1 .. questions, of : Access!Feature] \subseteq [id : 1 .. questions', of : Access!Feature]
              /\ [id |-> questions + 1, of |-> f] \in [id : 1 .. questions', of : Access!Feature]
          BY <5>1
        <5>3. visible' \subseteq [id : 1 .. questions', of : Access!Feature]
          BY <1>0, <4>2, <5>2 DEF Shows
        <5> QED BY <1>0, <4>2, <5>1, <5>3 DEF Shows
      <4> QED BY <3>2, <4>1, <4>2 DEF Access!WarningPost
    <3> QED BY <2>3, <3>1, <3>2
  <2> QED BY <1>0, <1>a, <2>1, <2>2, <2>4
<1>8. ASSUME NEW f \in Access!Feature, NEW answer, Access!DialogResponse(f, answer) PROVE AccessTypes'
  <2>1. settings' \in Chosen /\ (doing' # "idle" => desc' \in Chosen) BY <1>8, ResponseTyped DEF Access!DialogResponse
  <2>2. controls' = controls /\ alerts' = alerts \ {f} /\ UNCHANGED <<questions, living, visible>> BY <1>8 DEF Access!DialogResponse
  <2>3. Shows(alerts', questions', living', visible') BY <1>0, <2>2 DEF Shows
  <2> QED BY <1>0, <1>a, <2>1, <2>2, <2>3
<1>9. ASSUME NEW n \in visible, NEW answer, Access!Action(n, answer) PROVE AccessTypes'
  <2>1. n.of \in Access!Feature BY <1>0 DEF Shows
  <2>2. settings' \in Chosen /\ (doing' # "idle" => desc' \in Chosen) BY <1>9, <2>1, ResponseTyped DEF Access!Action
  <2>3. controls' = controls /\ visible' \subseteq visible /\ UNCHANGED <<questions, living, alerts>>
    BY <1>9 DEF Access!Action, Access!Close
  <2>4. Shows(alerts', questions', living', visible') BY <1>0, <2>3 DEF Shows
  <2> QED BY <1>0, <1>a, <2>2, <2>3, <2>4
<1>10. ASSUME NEW n, Access!Expire(n) PROVE AccessTypes'
  <2>1. visible' \subseteq visible /\ UNCHANGED <<settings, controls, doing, desc, questions, living, alerts>>
    BY <1>10 DEF Access!Expire, Access!Close, Access!both
  <2>2. Shows(alerts', questions', living', visible') BY <1>0, <2>1 DEF Shows
  <2> QED BY <1>c, <2>1, <2>2
<1>11. CASE Access!NotificationClosed
  <2>1. living' \subseteq living /\ UNCHANGED <<settings, controls, doing, desc, questions, visible, alerts>>
    BY <1>11 DEF Access!NotificationClosed, Access!both
  <2>2. Shows(alerts', questions', living', visible') BY <1>0, <2>1 DEF Shows
  <2> QED BY <1>c, <2>1, <2>2
<1>12. CASE Access!Start \/ Access!Monitor
  BY <1>0, <1>12, <1>b DEF Access!Start, Access!Monitor, Access!both, Access!asks
<1>13. CASE Access!StartIdle
  BY <1>0, <1>13, <1>b DEF Access!StartIdle, Access!Reads, Access!both, Access!asks
<1>14. CASE Access!Stop
  <2>1. alerts' = {} /\ UNCHANGED <<settings, controls, doing, desc, questions, living, visible>>
    BY <1>14 DEF Access!Stop, Access!both
  <2>2. Shows(alerts', questions', living', visible') BY <1>0, <2>1 DEF Shows
  <2> QED BY <1>c, <2>1, <2>2
<1>15. CASE UNCHANGED Access!vars
  BY <1>0, <1>15, <1>b DEF Access!vars
<1> QED
  BY <1>1, <1>2, <1>3, <1>4, <1>5, <1>6, <1>7, <1>8, <1>9, <1>10, <1>11, <1>12, <1>13, <1>14, <1>15 DEF Access!Next

LEMMA AccessTyped == AllSpec => []Access!TypeOK
<1>1. Access!Init => AccessTypes
  BY DEF Access!Init, AccessTypes, Chosen
<1>2. Access!Spec => []AccessTypes
  BY <1>1, AccessTypesStep, PTL DEF Access!Spec
<1>3. AccessTypes => Access!TypeOK
  BY DEF AccessTypes, Chosen, Access!TypeOK
<1> QED BY <1>2, <1>3, PartIsAccess, PTL

-----------------------------------------------------------------------------
\* Of the service, also where tools are in vain.
ServiceTypes ==
  /\ world \in World /\ calls \in Seq(Datetime!Call)
  /\ called \in 0 .. MaxCalls /\ age \in 0 .. Kill /\ (calls # <<>> => running)

LEMMA NtpWorld ==
  ASSUME NEW w \in World, NEW how \in {"yes", "no"}, NEW r \in Datetime!SetUsingNtp(how, w)
  PROVE  r.world \in World
<1>1. \A s, n : Datetime!Service(how, w, s, n) \in World BY DEF Datetime!Service, World
<1>2. CASE machine.distribution = "other"
  <2>1. r = Datetime!Result(w, "error") BY <1>2 DEF Datetime!SetUsingNtp
  <2> QED BY <2>1 DEF Datetime!Result
<1>3. CASE machine.distribution \in {"fedora", "suse"}
  <2> DEFINE R(s, n) == Datetime!Result(Datetime!Service(how, w, s, n), Datetime!Told({s, n}))
  <2>1. r \in {R(s, n) : s \in Datetime!ServiceRuns, n \in Datetime!ServiceRuns}
    BY <1>3 DEF Datetime!SetUsingNtp
  <2>2. \A s, n : R(s, n).world \in World
    BY <1>1 DEF Datetime!Result
  <2> HIDE DEF R
  <2>3. \E s \in Datetime!ServiceRuns, n \in Datetime!ServiceRuns : r = R(s, n)
    BY <2>1
  <2> QED BY <2>2, <2>3
<1>4. CASE machine.distribution \notin {"other", "fedora", "suse"}
  <2>1. machine.distribution # "other" /\ machine.distribution \notin {"fedora", "suse"} BY <1>4
  <2>2. r \in Datetime!SetUsingNtpDebian(how, w) BY <2>1 DEF Datetime!SetUsingNtp
  <2>3. PICK s, n, d : r = Datetime!DebianSets(how, w, s, n, d)
    BY <2>2 DEF Datetime!SetUsingNtpDebian
  <2> DEFINE x == Datetime!Service(how, w, s, n)
  <2>4. x \in World BY <1>1
  <2>5. r.world = [x EXCEPT !.ntpdate = IF d \in {"works", "moved"} THEN how ELSE @]
    BY <2>3 DEF Datetime!DebianSets, Datetime!Result
  <2> HIDE DEF x
  <2> QED BY <2>4, <2>5 DEF World
<1> QED BY <1>2, <1>3, <1>4

LEMMA WorldAfter ==
  ASSUME NEW w \in World, NEW c \in Datetime!Call, NEW r \in Datetime!Results(c, w)
  PROVE  r.world \in World
<1>0. c.method \in Datetime!Methods BY OfCall
<1>1. CASE c.method = "SetTimezone"
  <2>1. c.argument \in Zone \cup {Outside, Missing} /\ r \in Datetime!SetTimezone(c.argument, w)
    BY <1>1, OfCall DEF Datetime!Results
  <2> QED BY <2>1, ZoneSet
<1>2. CASE c.method \in {"SetTime", "SetDate"}
  <2>1. r \in Datetime!SetClock(c.method, w) BY <1>2 DEF Datetime!Results
  <2> QED BY <1>2, <2>1, ClockSet
<1>3. CASE c.method = "SetHardwareClockUsingUtc"
  <2>1. c.argument \in {"yes", "no"} /\ r \in Datetime!SetUtc(c.argument, w) BY <1>3, OfCall DEF Datetime!Results
  <2> QED BY <2>1, UtcSet
<1>4. CASE c.method = "SetUsingNtp"
  <2>1. c.argument \in {"yes", "no"} /\ r \in Datetime!SetUsingNtp(c.argument, w) BY <1>4, OfCall DEF Datetime!Results
  <2> QED BY <2>1, NtpWorld
<1>5. CASE c.method \in {"GetTimezone", "CanSetTime"}
  <2>1. r = Datetime!Result(w, "done") BY <1>5 DEF Datetime!Results
  <2> QED BY <2>1 DEF Datetime!Result
<1> QED BY <1>0, <1>1, <1>2, <1>3, <1>4, <1>5 DEF Datetime!Methods

LEMMA ServiceTypesStep == ServiceTypes /\ [Datetime!Next]_(Datetime!vars) => ServiceTypes'
<1> SUFFICES ASSUME ServiceTypes, [Datetime!Next]_(Datetime!vars) PROVE ServiceTypes' OBVIOUS
<1>0. /\ world \in World /\ calls \in Seq(Datetime!Call) /\ MaxCalls \in Nat /\ Kill \in Nat
      /\ called \in 0 .. MaxCalls /\ age \in 0 .. Kill /\ (calls # <<>> => running)
  BY CountsAssumption DEF ServiceTypes
<1>1. CASE UNCHANGED Datetime!vars BY <1>1 DEF Datetime!vars, ServiceTypes
<1>2. ASSUME NEW c \in Datetime!Call, Datetime!Invoke(c) PROVE ServiceTypes'
  <2>1. /\ called < MaxCalls /\ called' = called + 1 /\ calls' = Append(calls, c) /\ running' = TRUE
        /\ age' \in {age, 0} /\ world' = world
    BY <1>2 DEF Datetime!Invoke
  <2>2. called' \in 0 .. MaxCalls /\ age' \in 0 .. Kill BY <1>0, <2>1
  <2>3. calls' \in Seq(Datetime!Call) BY <1>0, <2>1
  <2> QED BY <1>0, <2>1, <2>2, <2>3 DEF ServiceTypes
<1>3. CASE Datetime!Tick
  <2>1. age' \in 0 .. Kill BY <1>0, <1>3 DEF Datetime!Tick
  <2> QED BY <1>0, <1>3, <2>1 DEF Datetime!Tick, ServiceTypes
<1>4. CASE Datetime!Exit BY <1>0, <1>4 DEF Datetime!Exit, ServiceTypes
<1>5. CASE Datetime!Serve
  <2>1. calls # <<>> /\ calls' = Tail(calls) /\ running' = running /\ called' = called BY <1>5 DEF Datetime!Serve
  <2>2. Tail(calls) \in Seq(Datetime!Call) /\ Head(calls) \in Datetime!Call BY <1>0, <2>1
  <2>3. PICK c \in Datetime!Call : c = Head(calls) BY <2>2
  <2>4. PICK r \in (IF c.method \in Datetime!Free THEN {} ELSE {Datetime!Result(world, "refused")})
                     \cup Datetime!Results(c, world) : world' = r.world
    BY <1>5, <2>3 DEF Datetime!Serve
  <2>5. world' \in World
    <3>1. CASE r = Datetime!Result(world, "refused") BY <1>0, <2>4, <3>1 DEF Datetime!Result
    <3>2. CASE r \in Datetime!Results(c, world) BY <1>0, <2>4, <3>2, WorldAfter
    <3> QED BY <2>4, <3>1, <3>2
  <2>6. age' \in 0 .. Kill
    <3>1. age' \in {Kill, 0, age} BY <1>5 DEF Datetime!Serve
    <3> QED BY <1>0, <3>1
  <2> QED BY <1>0, <2>1, <2>2, <2>5, <2>6 DEF ServiceTypes
<1> QED BY <1>1, <1>2, <1>3, <1>4, <1>5 DEF Datetime!Next

LEMMA DatetimeTyped == AllSpec => []Datetime!TypeOK
<1>1. Datetime!Init => ServiceTypes
  <2> SUFFICES ASSUME Datetime!Init PROVE ServiceTypes OBVIOUS
  <2>1. world \in World /\ calls \in Seq(Datetime!Call) BY DateInit DEF DateInv, DateTypes
  <2> QED BY <2>1, CountsAssumption DEF Datetime!Init, ServiceTypes
<1>2. Datetime!Spec => []ServiceTypes
  BY <1>1, ServiceTypesStep, PTL DEF Datetime!Spec
<1>3. ServiceTypes => Datetime!TypeOK
  BY DEF ServiceTypes, World, Datetime!TypeOK
<1> QED BY <1>2, <1>3, PartIsDatetime, PTL

-----------------------------------------------------------------------------
\* Touchpads are touchpads, helpers have been started, and the server's events
\* stay within their bound but for the one that an event may add to.
PadTypes ==
  /\ known \subseteq Pad /\ blacklist \subseteq Pad
  /\ helpers \subseteq 1 .. last /\ last \in 0 .. MaxHelpers /\ syndaemon.pid \in 0 .. last
  /\ Len(events) <= MaxEvents + 1

LEMMA NewsCounted ==
  ASSUME NEW ev \in Seq(PadNews), NEW S \in SUBSET Pad, NEW kind \in {"added", "removed"},
         NEW e2, e2 = ev \o NewsOf(S, kind)
  PROVE  Pointer!Cardinality(S) \in Nat /\ Len(e2) = Len(ev) + Pointer!Cardinality(S)
<1>1. IsFiniteSet(S) BY PadAssumption, FS_Subset DEF PadAssumption
<1>2. Pointer!Cardinality(S) \in Nat BY <1>1, Enumerated
<1> DEFINE m == Pointer!Cardinality(S)
           new == NewsOf(S, kind)
<1>3. new \in Seq(PadNews) /\ Len(new) = m
  <2> DEFINE f == Pointer!SetToSeq(S)
  <2>1. f \in [1 .. m -> S] /\ m \in Nat BY <1>1, Enumerated
  <2>2. new = [i \in 1 .. m |-> Pointer!Event(kind, f[i])] BY DEF NewsOf
  <2> HIDE DEF f, m, new
  <2>3. \A i \in 1 .. m : Pointer!Event(kind, f[i]) \in PadNews BY <2>1 DEF Pointer!Event, PadNews
  <2> QED BY <2>1, <2>2, <2>3
<1> HIDE DEF new, m
<1>4. Len(ev \o new) = Len(ev) + m BY <1>2, <1>3, Joined DEF m
<1> QED BY <1>2, <1>4 DEF new, m

LEMMA WatchTyped ==
  ASSUME MouseTypes, PadTypes, NEW wanted, Pointer!SetDisableWTyping(wanted)
  PROVE  helpers' \subseteq 1 .. last' /\ last' \in 0 .. MaxHelpers /\ syndaemon'.pid \in 0 .. last'
<1>0. /\ MaxHelpers \in Nat /\ helpers \subseteq 1 .. last /\ last \in 0 .. MaxHelpers /\ syndaemon.pid \in 0 .. last
      /\ syndaemon \in [spawned : BOOLEAN, pid : Nat]
  BY CountsAssumption DEF PadTypes, MouseTypes
<1>1. \/ /\ last < MaxHelpers /\ last' = last + 1 /\ helpers' = helpers \cup {last'} /\ syndaemon' = [spawned |-> TRUE, pid |-> last']
      \/ /\ helpers' \subseteq helpers /\ last' = last /\ syndaemon'.pid = syndaemon.pid
  BY <1>0 DEF Pointer!SetDisableWTyping, Pointer!processes
<1>2. CASE last < MaxHelpers /\ last' = last + 1 /\ helpers' = helpers \cup {last'} /\ syndaemon' = [spawned |-> TRUE, pid |-> last']
  <2>1. last' \in 0 .. MaxHelpers /\ 1 .. last \subseteq 1 .. last' /\ last' \in 1 .. last' /\ last' \in 0 .. last' BY <1>0, <1>2
  <2> QED BY <1>0, <1>2, <2>1
<1>3. CASE helpers' \subseteq helpers /\ last' = last /\ syndaemon'.pid = syndaemon.pid BY <1>0, <1>3
<1> QED BY <1>1, <1>2, <1>3

LEMMA PadTypesStep == MouseInv /\ PadTypes /\ [Pointer!Next]_Pointer!vars => PadTypes'
<1> SUFFICES ASSUME MouseInv, PadTypes, [Pointer!Next]_Pointer!vars PROVE PadTypes' OBVIOUS
<1>0. /\ MouseTypes /\ events \in Seq(PadNews) /\ on \subseteq pads /\ pads \subseteq Pad
      /\ known \subseteq Pad /\ blacklist \subseteq Pad /\ MaxEvents \in Nat
      /\ Len(events) \in Nat /\ Len(events) <= MaxEvents + 1
      /\ syndaemon \in [spawned : BOOLEAN, pid : Nat]
  BY CountsAssumption DEF MouseInv, MouseTypes, PadTypes
<1> DEFINE Processes(h, l, s) == h \subseteq 1 .. l /\ l \in 0 .. MaxHelpers /\ s.pid \in 0 .. l
<1>a. Processes(helpers, last, syndaemon) BY DEF PadTypes
<1>b. ASSUME known' \subseteq Pad, blacklist' \subseteq Pad, Processes(helpers', last', syndaemon'), Len(events') <= MaxEvents + 1
      PROVE PadTypes'
  BY <1>b DEF PadTypes
<1>c. ASSUME NEW wanted, Pointer!SetDisableWTyping(wanted) PROVE Processes(helpers', last', syndaemon')
  BY <1>0, <1>c, WatchTyped
<1> HIDE DEF Processes
<1>d. ASSUME NEW ids, Pointer!Enable(ids) \/ Pointer!Disable(ids) PROVE Len(events') <= MaxEvents + 1
  <2>1. CASE Pointer!Enable(ids)
    <3> DEFINE S == (ids \cap pads) \ on
    <3>1. S \in SUBSET Pad /\ events' = events \o NewsOf(S, "added") /\ Len(events) + Pointer!Cardinality(S) <= MaxEvents
      BY <1>0, <2>1 DEF Pointer!Enable, NewsOf, Pointer!Room
    <3> HIDE DEF S
    <3>2. Pointer!Cardinality(S) \in Nat /\ Len(events') = Len(events) + Pointer!Cardinality(S) BY <1>0, <3>1, NewsCounted
    <3> QED BY <1>0, <3>1, <3>2
  <2>2. CASE Pointer!Disable(ids)
    <3> DEFINE S == ids \cap on
    <3>1. S \in SUBSET Pad /\ events' = events \o NewsOf(S, "removed") /\ Len(events) + Pointer!Cardinality(S) <= MaxEvents
      BY <1>0, <2>2 DEF Pointer!Disable, NewsOf, Pointer!Room
    <3> HIDE DEF S
    <3>2. Pointer!Cardinality(S) \in Nat /\ Len(events') = Len(events) + Pointer!Cardinality(S) BY <1>0, <3>1, NewsCounted
    <3> QED BY <1>0, <3>1, <3>2
  <2> QED BY <1>d, <2>1, <2>2
<1>1. CASE Pointer!Start
  <2>1. known' = known /\ blacklist' = known \cap Custom /\ Pointer!SetDisableWTyping(typing) BY <1>1 DEF Pointer!Start
  <2>2. \E ids : Pointer!Enable(ids) \/ Pointer!Disable(ids) BY <1>1, Zenon DEF Pointer!Start
  <2>3. blacklist' \subseteq Pad BY <1>0, <2>1
  <2> QED BY <1>0, <1>b, <1>c, <1>d, <2>1, <2>2, <2>3
<1>2. CASE Pointer!TouchpadEnabled
  <2>1. UNCHANGED <<known, blacklist, helpers, last, syndaemon>> BY <1>2 DEF Pointer!TouchpadEnabled, Pointer!processes
  <2>2. events' = events \/ \E ids : Pointer!Enable(ids) \/ Pointer!Disable(ids)
    BY <1>2, Zenon DEF Pointer!TouchpadEnabled, Pointer!server
  <2>3. Len(events') <= MaxEvents + 1 BY <1>0, <1>d, <2>2
  <2> QED BY <1>0, <1>a, <1>b, <2>1, <2>3
<1>3. CASE Pointer!DisableWTyping
  <2>1. UNCHANGED <<known, blacklist, events>> BY <1>3 DEF Pointer!DisableWTyping, Pointer!server
  <2>2. UNCHANGED <<helpers, last, syndaemon>> \/ \E wanted : Pointer!SetDisableWTyping(wanted)
    BY <1>3 DEF Pointer!DisableWTyping, Pointer!processes
  <2>3. Processes(helpers', last', syndaemon') BY <1>a, <1>c, <2>2
  <2> QED BY <1>0, <1>b, <2>1, <2>3
<1>4. CASE Pointer!DeviceAdded
  <2> DEFINE id == Head(events).id
  <2>1. events # <<>> /\ known' = known \cup {id} BY <1>4 DEF Pointer!DeviceAdded
  <2>2. Head(events) \in PadNews /\ Tail(events) \in Seq(PadNews) /\ Len(Tail(events)) = Len(events) - 1 /\ Len(events) >= 1
    BY <1>0, <2>1
  <2>3. id \in Pad BY <2>2 DEF PadNews
  <2>4. CASE ~started \/ id \in blacklist
    <3>1. events' = Tail(events) /\ UNCHANGED <<blacklist, helpers, last, syndaemon>>
      BY <1>4, <2>4 DEF Pointer!DeviceAdded, Pointer!processes
    <3>2. Len(events') <= MaxEvents + 1 BY <1>0, <2>2, <3>1
    <3> QED BY <1>0, <1>a, <1>b, <2>1, <2>3, <3>1, <3>2
  <2>5. CASE ~(~started \/ id \in blacklist)
    <3> DEFINE off == IF enabled THEN {} ELSE ({id} \ Custom) \cap on
    <3>1. /\ blacklist' = blacklist \cup ({id} \cap Custom) /\ Pointer!SetDisableWTyping(typing)
          /\ events' = Tail(events) \o [i \in 1 .. Pointer!Cardinality(off) |-> Pointer!Event("removed", id)]
      BY <1>4, <2>5 DEF Pointer!DeviceAdded
    <3>2. off = {} \/ off = {id} OBVIOUS
    <3>3. Pointer!Cardinality({}) = 0 /\ Pointer!Cardinality({id}) = 1 BY CardSame, FS_EmptySet, FS_Singleton
    <3> HIDE DEF off
    <3>4. Pointer!Cardinality(off) \in {0, 1} BY <3>2, <3>3
    <3> DEFINE m == Pointer!Cardinality(off)
               new == [i \in 1 .. m |-> Pointer!Event("removed", id)]
    <3>5. new \in Seq(PadNews) /\ Len(new) = m
      <4>1. Pointer!Event("removed", id) \in PadNews BY <2>3 DEF Pointer!Event, PadNews
      <4>2. m \in Nat BY <3>4
      <4> HIDE DEF m
      <4> QED BY <4>1, <4>2
    <3> HIDE DEF new, m
    <3>6. m \in {0, 1} /\ events' = Tail(events) \o new BY <3>1, <3>4 DEF new, m
    <3>7. Len(events') = Len(events) - 1 + m BY <2>2, <3>5, <3>6
    <3>8. Len(events') <= MaxEvents + 1 BY <1>0, <3>6, <3>7
    <3>9. Processes(helpers', last', syndaemon') BY <1>c, <3>1
    <3>10. blacklist' \subseteq Pad /\ known' \subseteq Pad BY <1>0, <2>1, <2>3, <3>1
    <3> QED BY <1>b, <3>8, <3>9, <3>10
  <2> QED BY <2>4, <2>5
<1>5. CASE Pointer!DeviceRemoved
  <2>1. events # <<>> /\ events' = Tail(events) /\ known' \subseteq known /\ blacklist' \subseteq blacklist
    BY <1>5 DEF Pointer!DeviceRemoved
  <2>2. Len(events') <= MaxEvents + 1 BY <1>0, <2>1
  <2>3. UNCHANGED <<helpers, last, syndaemon>> \/ \E wanted : Pointer!SetDisableWTyping(wanted)
    BY <1>5 DEF Pointer!DeviceRemoved, Pointer!processes
  <2>4. Processes(helpers', last', syndaemon') BY <1>a, <1>c, <2>3
  <2> QED BY <1>0, <1>b, <2>1, <2>2, <2>4
<1>6. CASE Pointer!SyndaemonDied
  <2>1. /\ UNCHANGED <<known, blacklist, events, helpers, last>>
        /\ syndaemon'.pid = syndaemon.pid
    BY <1>0, <1>6 DEF Pointer!SyndaemonDied, Pointer!server
  <2>2. Processes(helpers', last', syndaemon') BY <1>a, <2>1 DEF Processes
  <2> QED BY <1>0, <1>b, <2>1, <2>2
<1>7. ASSUME NEW id \in Pad, Pointer!Plug(id) \/ Pointer!Unplug(id) PROVE PadTypes'
  <2>1. UNCHANGED <<known, blacklist, helpers, last, syndaemon>> /\ Len(events) + 1 <= MaxEvents
        /\ (events' = events \/ \E kind \in {"added", "removed"} : events' = Append(events, Pointer!Event(kind, id)))
    BY <1>7 DEF Pointer!Plug, Pointer!Unplug, Pointer!Room, Pointer!processes
  <2>2. Len(events') <= MaxEvents + 1
    <3>1. \A e : Len(Append(events, e)) = Len(events) + 1 BY <1>0
    <3> QED BY <1>0, <2>1, <3>1
  <2> QED BY <1>0, <1>a, <1>b, <2>1, <2>2
<1>8. ASSUME NEW h, Pointer!End(h) PROVE PadTypes'
  <2>1. helpers' \subseteq helpers /\ UNCHANGED <<known, blacklist, events, last, syndaemon>>
    BY <1>8 DEF Pointer!End, Pointer!server
  <2>2. Processes(helpers', last', syndaemon') BY <1>a, <2>1 DEF Processes
  <2> QED BY <1>0, <1>b, <2>1, <2>2
<1>9. CASE UNCHANGED Pointer!vars BY <1>0, <1>a, <1>b, <1>9 DEF Pointer!vars
<1> QED BY <1>1, <1>2, <1>3, <1>4, <1>5, <1>6, <1>7, <1>8, <1>9 DEF Pointer!Next

LEMMA PointerTyped == AllSpec => []Pointer!TypeOK
<1>1. Pointer!Init => PadTypes
  BY CountsAssumption DEF Pointer!Init, PadTypes
<1>2. Pointer!Spec /\ []MouseInv => []PadTypes
  BY <1>1, PadTypesStep, PTL DEF Pointer!Spec
<1>3. MouseInv /\ PadTypes => Pointer!TypeOK
  BY DEF MouseInv, MouseTypes, PadTypes, Pointer!TypeOK
<1> QED BY <1>2, <1>3, PartIsPointer, PointerKept, PTL

-----------------------------------------------------------------------------
\* The variables of the parts keep their types, one question to ConsoleKit at a
\* time is under way (cinnamon-settings-session.c:286-312), no volume waits
\* twice, no setting is stamped ahead of the serial that is published next
\* (xsettings-manager.c), and a call waits only for a service that runs, for
\* any values of the constants and whatever fails.
THEOREM PartsTyped == AllSpec => []PartsTypeOK
<1>1. MounterInv /\ NamesInv => Mounter!TypeOK /\ Names!TypeOK
  BY MounterTypes, NamesTyped
<1> QED
  BY <1>1, TypeCorrect, PartIsScreen, MounterKept, NamesKept, SessionTyped, AccessTyped, DatetimeTyped,
     PointerTyped, PublishedTyped, PTL DEF PartsTypeOK
=============================================================================
