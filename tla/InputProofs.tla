----------------------------- MODULE InputProofs -----------------------------
(***************************************************************************)
(* Theorems about the input side, Keys and HidReport.  They are of KeysSpec*)
(* and ReportSpec, for any keys, debounce time, clock width, slots and     *)
(* keycodes that satisfy KeysAssumption and ReportAssumption, and hold in  *)
(* Input, each of whose steps is a step of one half alone.                 *)
(***************************************************************************)
EXTENDS Input, FiniteSetTheorems, WellFoundedInduction, TLAPS

-------------------------------------------------------------------------------
(***************************************************************************)
(* Keys: the types, the report of each press, the spacing of changes and   *)
(* the settling of a contact.                                              *)
(***************************************************************************)

\* A difference of two clock values, and a tick, where the clock wraps.
LEMMA SubtractModulo ==
    ASSUME NEW M \in Nat \ {0}, NEW a \in 0 .. M - 1, NEW b \in 0 .. M - 1
    PROVE  (a - b) % M = IF a >= b THEN a - b ELSE a - b + M
OBVIOUS

LEMMA TickModulo ==
    ASSUME NEW M \in Nat \ {0}, NEW a \in 0 .. M - 1
    PROVE  (a + 1) % M = IF a + 1 = M THEN 0 ELSE a + 1
OBVIOUS

\* Elapsed counts the ticks since a change until the clock comes round to it.
LEMMA ElapsedGrows ==
    ASSUME KeysTypeOK, Clock, NEW k \in KeySet
    PROVE  /\ Elapsed(k) \in 0 .. ClockMod - 1
           /\ Elapsed(k) + 1 < ClockMod => Elapsed(k)' = Elapsed(k) + 1
<1>1. /\ ClockMod \in Nat \ {0} /\ now \in 0 .. ClockMod - 1 /\ last[k] \in 0 .. ClockMod - 1
      /\ last' = last /\ now' = (now + 1) % ClockMod
  BY KeysAssumption DEF KeysTypeOK, Clock
<1>2. now' = IF now + 1 = ClockMod THEN 0 ELSE now + 1
  BY <1>1, TickModulo
<1>3. Elapsed(k) = IF now >= last[k] THEN now - last[k] ELSE now - last[k] + ClockMod
  BY <1>1, SubtractModulo DEF Elapsed
<1>4. now' \in 0 .. ClockMod - 1
  BY <1>1, <1>2
<1>5. Elapsed(k)' = IF now' >= last[k] THEN now' - last[k] ELSE now' - last[k] + ClockMod
  BY <1>1, <1>4, SubtractModulo DEF Elapsed
<1>6. Elapsed(k) \in 0 .. ClockMod - 1
  BY <1>1, <1>3
<1>7. ASSUME Elapsed(k) + 1 < ClockMod PROVE Elapsed(k)' = Elapsed(k) + 1
  <2>1. CASE now + 1 = ClockMod
    <3>1. now' = 0 /\ Elapsed(k) = now - last[k]
      BY <1>1, <1>2, <1>3, <2>1
    <3>2. last[k] > 0
      BY <1>1, <1>7, <2>1, <3>1
    <3>3. QED
      BY <1>1, <1>5, <2>1, <3>1, <3>2
  <2>2. CASE now + 1 # ClockMod
    BY <1>1, <1>2, <1>3, <1>5, <1>7, <2>2
  <2>3. QED
    BY <2>1, <2>2
<1>8. QED
  BY <1>6, <1>7

-------------------------------------------------------------------------------
LEMMA TypeInit == KeysInit => KeysTypeOK
BY KeysAssumption DEF KeysInit, KeysTypeOK, All, Settled

LEMMA TypeStep == KeysTypeOK /\ [KeysNext]_keyVars => KeysTypeOK'
<1> SUFFICES ASSUME KeysTypeOK, [KeysNext]_keyVars PROVE KeysTypeOK'
  OBVIOUS
<1> USE KeysAssumption DEF KeysTypeOK
<1>1. ASSUME NEW k \in KeySet, Contact(k) PROVE KeysTypeOK'
  BY <1>1 DEF Contact, Settled
<1>2. CASE Clock
  <2>1. now' \in 0 .. ClockMod - 1
    BY <1>2, TickModulo DEF Clock
  <2>2. ASSUME NEW n, NEW b \in Nat, n \in 0 .. b PROVE OneMore(n, b) \in 0 .. b
    BY <2>2 DEF OneMore
  <2>3. gap' \in 0 .. MaxGap
    BY <1>2 DEF Clock
  <2>4. age' \in [KeySet -> 0 .. Debounce]
    BY <1>2, <2>2 DEF Clock
  <2>5. steady' \in [KeySet -> 0 .. Settled]
    <3>1. Settled \in Nat
      BY DEF Settled
    <3>2. QED
      BY <1>2, <2>2, <3>1 DEF Clock
  <2>6. QED
    BY <1>2, <2>1, <2>3, <2>4, <2>5 DEF Clock
<1>3. CASE keys_scan
  BY <1>3 DEF keys_scan, ChangedAfterScan, Accepted, Presses, Differs
<1>4. ASSUME NEW k \in KeySet, keys_consume_press(k) PROVE KeysTypeOK'
  <2>1. changed' \in [KeySet -> BOOLEAN]
    BY <1>4 DEF keys_consume_press
  <2>2. reports' \in [KeySet -> 0 .. 2]
    BY <1>4 DEF keys_consume_press, Asks, OneMore
  <2>3. asked' \subseteq KeySet
    BY <1>4 DEF keys_consume_press, Asks
  <2>4. QED
    BY <1>4, <2>1, <2>2, <2>3 DEF keys_consume_press, Asks
<1>5. CASE UNCHANGED keyVars
  BY <1>5 DEF keyVars, scanVars, keyHistory
<1>6. QED
  BY <1>1, <1>2, <1>3, <1>4, <1>5 DEF KeysNext

\* Every reachable state of the scanner has its type (keys.h:20-24).
THEOREM KeysTypeCorrect == KeysSpec => []KeysTypeOK
BY TypeInit, TypeStep, PTL DEF KeysSpec

-------------------------------------------------------------------------------
(***************************************************************************)
(* Presses.  A press waits to be reported, pressed and changed both set, as*)
(* long as it is open and has not been asked for.                          *)
(***************************************************************************)
Waits(k) == pressed[k] /\ changed[k]
PressPhase ==
    \A k \in KeySet : /\ Waits(k) <=> (k \in open /\ k \notin asked)
                      /\ reports[k] = IF k \in asked THEN 1 ELSE 0

LEMMA PressInit == KeysInit => PressPhase
BY DEF KeysInit, PressPhase, Waits, All

LEMMA PressScan ==
    ASSUME KeysTypeOK, PressPhase, keys_scan, NEW k \in KeySet
    PROVE  /\ Waits(k)' <=> (k \in open' /\ k \notin asked')
           /\ reports'[k] = IF k \in asked' THEN 1 ELSE 0
<1>1. /\ pressed'[k] = (IF k \in Accepted THEN raw[k] ELSE pressed[k])
      /\ changed'[k] <=> (k \in Accepted \/ (Differs(k) /\ changed[k]))
      /\ reports'[k] = (IF k \in Presses THEN 0 ELSE reports[k])
      /\ k \in open' <=> (k \in Presses \/ (k \in open /\ Differs(k) /\ ~Quiet(k)))
      /\ k \in asked' <=> (k \in asked /\ k \notin Presses)
  BY DEF keys_scan, ChangedAfterScan, KeysTypeOK
<1>2. /\ Waits(k) <=> (k \in open /\ k \notin asked)
      /\ reports[k] = IF k \in asked THEN 1 ELSE 0
  BY DEF PressPhase
<1>3. CASE k \in Presses
  BY <1>1, <1>3 DEF Presses, Waits
<1>4. CASE k \in Accepted /\ k \notin Presses
  <2>1. ~raw[k] /\ Quiet(k)
    BY <1>4 DEF Accepted, Presses
  <2>2. QED
    BY <1>1, <1>2, <1>4, <2>1 DEF Waits
<1>5. CASE k \notin Accepted
  <2>1. k \notin Presses /\ (Differs(k) => ~Quiet(k))
    BY <1>5 DEF Accepted, Presses
  <2>2. QED
    BY <1>1, <1>2, <1>5, <2>1 DEF Waits
<1>6. QED
  BY <1>3, <1>4, <1>5

LEMMA PressStep == KeysTypeOK /\ PressPhase /\ [KeysNext]_keyVars => PressPhase'
<1> SUFFICES ASSUME KeysTypeOK, PressPhase, [KeysNext]_keyVars PROVE PressPhase'
  OBVIOUS
<1>1. ASSUME NEW k \in KeySet, Contact(k) PROVE PressPhase'
  BY <1>1 DEF Contact, PressPhase, Waits
<1>2. CASE Clock
  BY <1>2 DEF Clock, PressPhase, Waits
<1>3. CASE keys_scan
  BY <1>3, PressScan DEF PressPhase
<1>4. ASSUME NEW k \in KeySet, keys_consume_press(k) PROVE PressPhase'
  <2> SUFFICES ASSUME NEW j \in KeySet
               PROVE  /\ Waits(j)' <=> (j \in open' /\ j \notin asked')
                      /\ reports'[j] = IF j \in asked' THEN 1 ELSE 0
    BY DEF PressPhase
  <2>1. /\ Waits(j) <=> (j \in open /\ j \notin asked)
        /\ reports[j] = IF j \in asked THEN 1 ELSE 0
    BY DEF PressPhase
  <2>2. open' = open /\ pressed' = pressed /\ asked' = asked \cup ({k} \cap open)
    BY <1>4 DEF keys_consume_press, Asks
  <2>3. CASE j # k
    BY <1>4, <2>1, <2>2, <2>3 DEF keys_consume_press, Asks, Waits, KeysTypeOK
  <2>4. CASE j = k
    <3>1. changed'[k] = (changed[k] /\ ~pressed[k])
      BY <1>4 DEF keys_consume_press, KeysTypeOK
    <3>2. reports'[k] = IF Waits(k) THEN OneMore(reports[k], 2) ELSE reports[k]
      BY <1>4 DEF keys_consume_press, Asks, KeysTypeOK, Waits
    <3>3. ~Waits(k)'
      BY <2>2, <3>1 DEF Waits
    <3>4. CASE Waits(k)
      <4>1. reports[k] = 0 /\ k \in asked'
        BY <2>1, <2>2, <2>4, <3>4
      <4>2. QED
        BY <2>4, <3>2, <3>3, <3>4, <4>1 DEF OneMore
    <3>5. CASE ~Waits(k)
      <4>1. k \in asked' <=> k \in asked
        BY <2>1, <2>2, <2>4, <3>5
      <4>2. QED
        BY <2>1, <2>2, <2>4, <3>2, <3>3, <3>5, <4>1
    <3>6. QED
      BY <3>4, <3>5
  <2>5. QED
    BY <2>3, <2>4
<1>5. CASE UNCHANGED keyVars
  BY <1>5 DEF keyVars, scanVars, keyHistory, PressPhase, Waits
<1>6. QED
  BY <1>1, <1>2, <1>3, <1>4, <1>5 DEF KeysNext

\* A press is reported exactly once if it is asked for before a scan finds its
\* contact still closed, and never if it is not (keys.h:32, keys.c:40).
THEOREM PressReported == KeysSpec => []AskedPressReportedOnce
<1>1. PressPhase => AskedPressReportedOnce
  BY DEF PressPhase, AskedPressReportedOnce
<1>2. QED
  BY TypeInit, TypeStep, PressInit, PressStep, <1>1, PTL DEF KeysSpec

-------------------------------------------------------------------------------
(***************************************************************************)
(* Debouncing.  As long as a change is younger than the debounce time, the *)
(* difference of the clock values is its age.                              *)
(***************************************************************************)
AgeIsElapsed == \A k \in KeySet : age[k] < Debounce => Elapsed(k) = age[k]

LEMMA AgeInit == KeysInit => AgeIsElapsed
BY KeysAssumption DEF KeysInit, AgeIsElapsed, All

LEMMA AgeStep == KeysTypeOK /\ AgeIsElapsed /\ [KeysNext]_keyVars => AgeIsElapsed'
<1> SUFFICES ASSUME KeysTypeOK, AgeIsElapsed, [KeysNext]_keyVars, NEW k \in KeySet,
                    age'[k] < Debounce
             PROVE  Elapsed(k)' = age'[k]
  BY DEF AgeIsElapsed
<1>1. ASSUME NEW j \in KeySet, Contact(j) PROVE Elapsed(k)' = age'[k]
  BY <1>1 DEF Contact, AgeIsElapsed, Elapsed
<1>2. CASE Clock
  <2>1. age[k] < Debounce /\ age'[k] = age[k] + 1
    BY <1>2, KeysAssumption DEF Clock, OneMore, KeysTypeOK
  <2>2. Elapsed(k) = age[k]
    BY <2>1 DEF AgeIsElapsed
  <2>3. Elapsed(k) + 1 < ClockMod
    BY <2>1, <2>2, KeysAssumption DEF KeysTypeOK
  <2>4. QED
    BY <1>2, <2>1, <2>2, <2>3, ElapsedGrows
<1>3. CASE keys_scan
  <2>1. CASE k \in Accepted
    <3>1. last'[k] = now /\ now' = now /\ age'[k] = 0
      BY <1>3, <2>1 DEF keys_scan
    <3>2. now \in 0 .. ClockMod - 1 /\ ClockMod \in Nat \ {0}
      BY KeysAssumption DEF KeysTypeOK
    <3>3. (now - now) % ClockMod = 0
      BY <3>2, SubtractModulo
    <3>4. QED
      BY <3>1, <3>3 DEF Elapsed
  <2>2. CASE k \notin Accepted
    BY <1>3, <2>2 DEF keys_scan, AgeIsElapsed, Elapsed
  <2>3. QED
    BY <2>1, <2>2
<1>4. ASSUME NEW j \in KeySet, keys_consume_press(j) PROVE Elapsed(k)' = age'[k]
  BY <1>4 DEF keys_consume_press, Asks, AgeIsElapsed, Elapsed
<1>5. CASE UNCHANGED keyVars
  BY <1>5 DEF keyVars, scanVars, keyHistory, AgeIsElapsed, Elapsed
<1>6. QED
  BY <1>1, <1>2, <1>3, <1>4, <1>5 DEF KeysNext

LEMMA SpacedStep ==
    ASSUME KeysTypeOK, AgeIsElapsed, [KeysNext]_keyVars, NEW k \in KeySet,
           pressed'[k] # pressed[k]
    PROVE  age[k] >= Debounce
<1>1. keys_scan /\ k \in Accepted
  BY DEF KeysNext, keyVars, scanVars, keyHistory, Contact, Clock, keys_consume_press, Asks, keys_scan
<1>2. Elapsed(k) >= Debounce
  BY <1>1 DEF Accepted, Quiet
<1>3. QED
  BY <1>2, KeysAssumption DEF AgeIsElapsed, KeysTypeOK

\* A key changes at most once in Debounce milliseconds, wherever the clock wraps.
THEOREM ChangesSpaced == KeysSpec => ChangesAreSpaced
<1>1. KeysTypeOK /\ AgeIsElapsed /\ [KeysNext]_keyVars
        => [\A k \in KeySet : pressed'[k] # pressed[k] => age[k] >= Debounce]_keyVars
  BY SpacedStep
<1>2. QED
  BY TypeInit, TypeStep, AgeInit, AgeStep, <1>1, PTL DEF KeysSpec, ChangesAreSpaced

-------------------------------------------------------------------------------
(***************************************************************************)
(* Settling.  A contact that differs from the state although a scan has    *)
(* seen its present value was refused by that scan because the last change *)
(* looked young, and it has not kept its value for longer than a pass and  *)
(* the time that shows on the clock since.                                 *)
(***************************************************************************)
Refused(k) ==
    raw[k] # pressed[k] /\ steady[k] > gap =>
        /\ Elapsed(k) < Debounce + gap
        /\ steady[k] <= MaxGap + Elapsed(k)
Settling == \A k \in KeySet : Refused(k)

LEMMA SettlingInit == KeysInit => Settling
BY KeysAssumption DEF KeysInit, Settling, Refused, All

LEMMA SettlingStep == KeysTypeOK /\ Settling /\ [KeysNext]_keyVars => Settling'
<1> SUFFICES ASSUME KeysTypeOK, Settling, [KeysNext]_keyVars, NEW k \in KeySet,
                    raw'[k] # pressed'[k], steady'[k] > gap'
             PROVE  Elapsed(k)' < Debounce + gap' /\ steady'[k] <= MaxGap + Elapsed(k)'
  BY DEF Settling, Refused
<1> DEFINE Goal == Elapsed(k)' < Debounce + gap' /\ steady'[k] <= MaxGap + Elapsed(k)'
<1>a. /\ Debounce \in Nat \ {0} /\ MaxGap \in Nat \ {0} /\ ClockMod \in Nat
      /\ ClockMod > 2 * (Debounce + MaxGap)
      /\ gap \in 0 .. MaxGap /\ steady[k] \in Nat
  BY KeysAssumption DEF KeysTypeOK, Settled
<1>1. ASSUME NEW j \in KeySet, Contact(j) PROVE Goal
  <2>1. j # k
    BY <1>1, <1>a DEF Contact, KeysTypeOK
  <2>2. QED
    BY <1>1, <2>1 DEF Contact, Settling, Refused, Elapsed, KeysTypeOK
<1>2. CASE Clock
  <2>1. /\ raw[k] # pressed[k] /\ gap' = gap + 1 /\ gap + 1 <= MaxGap
        /\ steady'[k] <= steady[k] + 1
    BY <1>2, <1>a DEF Clock, OneMore
  <2>2. steady'[k] \in Nat
    BY TypeStep DEF KeysTypeOK, Settled
  <2>3. steady[k] > gap
    BY <2>1, <2>2, <1>a
  <2>4. Elapsed(k) < Debounce + gap /\ steady[k] <= MaxGap + Elapsed(k)
    BY <2>1, <2>3 DEF Settling, Refused
  <2>5. Elapsed(k) \in 0 .. ClockMod - 1 /\ (Elapsed(k) + 1 < ClockMod => Elapsed(k)' = Elapsed(k) + 1)
    BY <1>2, ElapsedGrows
  <2>6. Elapsed(k)' = Elapsed(k) + 1
    BY <2>1, <2>4, <2>5, <1>a
  <2>7. QED
    BY <2>1, <2>4, <2>5, <2>6, <2>2, <1>a
<1>3. CASE keys_scan
  <2>1. /\ raw' = raw /\ steady' = steady /\ gap' = 0 /\ now' = now
        /\ k \notin Accepted /\ last'[k] = last[k] /\ pressed'[k] = pressed[k]
    BY <1>3 DEF keys_scan, KeysTypeOK
  <2>2. Elapsed(k) \in 0 .. ClockMod - 1
    BY KeysAssumption, SubtractModulo DEF KeysTypeOK, Elapsed
  <2>3. Elapsed(k) < Debounce
    BY <2>1, <2>2, <1>a DEF Accepted, Differs, Quiet
  <2>4. steady[k] <= MaxGap + Elapsed(k)
    BY <2>1, <2>2, <1>a DEF Settling, Refused
  <2>5. Elapsed(k)' = Elapsed(k)
    BY <2>1 DEF Elapsed
  <2>6. QED
    BY <2>1, <2>3, <2>4, <2>5, <1>a
<1>4. ASSUME NEW j \in KeySet, keys_consume_press(j) PROVE Goal
  BY <1>4 DEF keys_consume_press, Asks, Settling, Refused, Elapsed
<1>5. CASE UNCHANGED keyVars
  BY <1>5 DEF keyVars, scanVars, keyHistory, Settling, Refused, Elapsed
<1>6. QED
  BY <1>1, <1>2, <1>3, <1>4, <1>5 DEF KeysNext

\* A contact that has rested for the debounce time and two passes is what the
\* scanner shows.
THEOREM SteadyShown == KeysSpec => []SteadyContactIsShown
<1>1. KeysTypeOK /\ Settling => SteadyContactIsShown
  <2> SUFFICES ASSUME KeysTypeOK, Settling, NEW k \in KeySet, steady[k] >= Settled,
                      pressed[k] # raw[k]
               PROVE  FALSE
    BY DEF SteadyContactIsShown
  <2>1. /\ Debounce \in Nat \ {0} /\ MaxGap \in Nat \ {0} /\ ClockMod \in Nat \ {0}
        /\ gap \in 0 .. MaxGap /\ steady[k] \in Nat
    BY KeysAssumption DEF KeysTypeOK, Settled
  <2>2. Elapsed(k) \in 0 .. ClockMod - 1
    BY <2>1, SubtractModulo DEF KeysTypeOK, Elapsed
  <2>3. steady[k] > gap
    BY <2>1 DEF Settled
  <2>4. Elapsed(k) < Debounce + gap /\ steady[k] <= MaxGap + Elapsed(k)
    BY <2>3 DEF Settling, Refused
  <2>5. QED
    BY <2>1, <2>2, <2>4 DEF Settled
<1>2. QED
  BY TypeInit, TypeStep, SettlingInit, SettlingStep, <1>1, PTL DEF KeysSpec

-------------------------------------------------------------------------------
(***************************************************************************)
(* HidReport: the types, the copies of each key, and the slots as the bag  *)
(* of held keys.                                                           *)
(***************************************************************************)

LEMMA KeyType == ASSUME NEW c \in Keycodes PROVE Key(c) \in KeyValues
BY ReportAssumption DEF Key, KeyValues

LEMMA ZeroIsAKey == 0 \in KeyValues
BY ReportAssumption DEF KeyValues

LEMMA MinIsMember == ASSUME NEW S \in SUBSET Nat, S # {} PROVE Min(S) \in S
<1>1. PICK x \in S : \A y \in S : ~ (<<y, x>> \in OpToRel(<, Nat))
  BY NatLessThanWellFounded, WFMin
<1>2. ASSUME NEW y \in S PROVE x <= y
  <2>1. CASE y < x
    <3>1. <<y, x>> \in Nat \X Nat
      OBVIOUS
    <3>2. <<y, x>> \in OpToRel(<, Nat)
      BY <2>1, <3>1 DEF OpToRel
    <3>3. QED
      BY <1>1, <3>2
  <2>2. QED
    BY <2>1
<1>3. QED
  BY <1>2 DEF Min

-------------------------------------------------------------------------------
LEMMA SetFirstType ==
    ASSUME ReportTypeOK, NEW where, NEW k \in KeyValues
    PROVE  SetFirst(where, k) \in [Index -> KeyValues]
BY DEF ReportTypeOK, SetFirst

LEMMA ReportTypeInit == ReportInit => ReportTypeOK
<1> SUFFICES ASSUME ReportInit PROVE ReportTypeOK
  OBVIOUS
<1>1. NoKeys \in [Index -> KeyValues]
  BY ZeroIsAKey DEF NoKeys
<1>2. host \in [mods : SUBSET Mods, keys : [Index -> KeyValues]]
  BY <1>1, ReportAssumption DEF ReportInit
<1>3. down \in [Shown -> 0 .. SlotCount]
  BY ReportAssumption DEF ReportInit
<1>4. QED
  BY <1>1, <1>2, <1>3 DEF ReportInit, ReportTypeOK

LEMMA SendType ==
    ASSUME ReportTypeOK, SendKeyboard, modifiers' \subseteq Mods, keys' \in [Index -> KeyValues]
    PROVE  busy' \in BOOLEAN
           /\ host' \in [mods : SUBSET Mods, keys : [Index -> KeyValues]]
BY DEF ReportTypeOK, SendKeyboard

LEMMA KeyEventType ==
    ASSUME ReportTypeOK, NEW c \in Keycodes, KeyEvent(c)
    PROVE  ReportTypeOK'
<1>1. ModsOf[c] \subseteq Mods
  BY ReportAssumption
<1>2. PICK press \in BOOLEAN : hid_report_key_event(ModsOf[c], c, press)
  BY DEF KeyEvent
<1>3. CASE Press(c, ModsOf[c])
  <2>1. modifiers' \subseteq Mods /\ keys' \in [Index -> KeyValues]
    BY <1>1, <1>3, KeyType, SetFirstType DEF Press, ReportTypeOK
  <2>2. SendKeyboard
    BY <1>3 DEF Press
  <2>3. down' \in [Shown -> 0 .. SlotCount]
    BY <1>3, ReportAssumption DEF Press, CountPress, ReportTypeOK
  <2>4. QED
    BY <2>1, <2>2, <2>3, SendType DEF ReportTypeOK
<1>4. CASE Release(c, ModsOf[c])
  <2>1. modifiers' \subseteq Mods /\ keys' \in [Index -> KeyValues]
    BY <1>4, ZeroIsAKey, SetFirstType DEF Release, ReportTypeOK
  <2>2. SendKeyboard
    BY <1>4 DEF Release
  <2>3. down' \in [Shown -> 0 .. SlotCount]
    BY <1>4, ReportAssumption DEF Release, CountRelease, ReportTypeOK
  <2>4. QED
    BY <2>1, <2>2, <2>3, SendType DEF ReportTypeOK
<1>5. QED
  BY <1>2, <1>3, <1>4 DEF hid_report_key_event

LEMMA ReportTypeStep == ReportTypeOK /\ [ReportNext]_reportVars => ReportTypeOK'
<1> SUFFICES ASSUME ReportTypeOK, [ReportNext]_reportVars PROVE ReportTypeOK'
  OBVIOUS
<1>1. ASSUME NEW c \in Keycodes, KeyEvent(c) PROVE ReportTypeOK'
  BY <1>1, KeyEventType
<1>2. CASE hid_report_release_all
  <2>1. modifiers' \subseteq Mods /\ keys' \in [Index -> KeyValues]
    BY <1>2, ZeroIsAKey DEF hid_report_release_all, NoKeys
  <2>2. SendKeyboard
    BY <1>2 DEF hid_report_release_all
  <2>3. down' \in [Shown -> 0 .. SlotCount]
    BY <1>2, ReportAssumption DEF hid_report_release_all
  <2>4. QED
    BY <2>1, <2>2, <2>3, SendType DEF ReportTypeOK
<1>3. CASE hid_report_send_consumer
  BY <1>3 DEF hid_report_send_consumer, ReportTypeOK
<1>4. CASE HostFetches
  BY <1>4 DEF HostFetches, ReportTypeOK
<1>5. CASE UNCHANGED reportVars
  BY <1>5 DEF reportVars, ReportTypeOK
<1>6. QED
  BY <1>1, <1>2, <1>3, <1>4, <1>5 DEF ReportNext

\* Every slot holds a byte and every modifier is one that callers send, in the
\* report and at the host (hid_report.h:13-17).
THEOREM ReportTypeCorrect == ReportSpec => []ReportTypeOK
BY ReportTypeInit, ReportTypeStep, PTL DEF ReportSpec

-------------------------------------------------------------------------------
(***************************************************************************)
(* Slots.  An event changes one slot at most, from free to its key or from *)
(* its key to free, and with it the number of slots of the one and the     *)
(* other.                                                                  *)
(***************************************************************************)
LEMMA SlotsFinite ==
    ASSUME NEW slots, NEW k
    PROVE  /\ IsFiniteSet(Slots(slots, k)) /\ Cardinality(Slots(slots, k)) \in 0 .. SlotCount
           /\ Cardinality(Slots(slots, k)) = 0 <=> Slots(slots, k) = {}
<1>1. SlotCount \in Nat
  BY ReportAssumption
<1>2. IsFiniteSet(Index) /\ Cardinality(Index) = SlotCount
  BY <1>1, FS_Interval DEF Index
<1>3. Slots(slots, k) \subseteq Index
  BY DEF Slots
<1>4. IsFiniteSet(Slots(slots, k)) /\ Cardinality(Slots(slots, k)) <= Cardinality(Index)
  BY <1>2, <1>3, FS_Subset
<1>5. Cardinality(Slots(slots, k)) \in Nat
  BY <1>4, FS_CardinalityType
<1>6. Cardinality(Slots(slots, k)) = 0 <=> Slots(slots, k) = {}
  BY <1>4, FS_EmptySet
<1>7. QED
  BY <1>1, <1>2, <1>4, <1>5, <1>6

\* One slot goes from a to b.
Gains(after, before, k) == Cardinality(Slots(after, k)) = Cardinality(Slots(before, k)) + 1
Loses(after, before, k) == Cardinality(Slots(after, k)) = Cardinality(Slots(before, k)) - 1
Keeps(after, before, a, b) == \A k : k # a /\ k # b => Slots(after, k) = Slots(before, k)

LEMMA SlotChanges ==
    ASSUME NEW slots \in [Index -> KeyValues], NEW e \in Index, NEW a, NEW b, NEW after,
           slots[e] = a, a # b, after = [slots EXCEPT ![e] = b]
    PROVE  /\ Gains(after, slots, b)
           /\ Loses(after, slots, a)
           /\ Keeps(after, slots, a, b)
<1>1. \A n \in Index : after[n] = IF n = e THEN b ELSE slots[n]
  OBVIOUS
<1>2. Slots(after, b) = Slots(slots, b) \cup {e} /\ e \notin Slots(slots, b)
  BY <1>1 DEF Slots
<1>3. Slots(after, a) = Slots(slots, a) \ {e} /\ e \in Slots(slots, a)
  BY <1>1 DEF Slots
<1>4. Gains(after, slots, b)
  BY <1>2, SlotsFinite, FS_AddElement DEF Gains
<1>5. Loses(after, slots, a)
  BY <1>3, SlotsFinite, FS_RemoveElement DEF Loses
<1>6. ASSUME NEW j, j # b, j # a PROVE Slots(after, j) = Slots(slots, j)
  BY <1>1, <1>6 DEF Slots
<1>7. QED
  BY <1>4, <1>5, <1>6 DEF Keeps

LEMMA FirstIsMember ==
    ASSUME NEW where \in SUBSET Index, where # {}
    PROVE  Min(where) \in where
BY MinIsMember DEF Index

\* What an event does to the copies and to the free slots.
MoreOf(k) ==
    /\ Cardinality(Slots(keys, 0)) > 0
    /\ Cardinality(Slots(keys', 0)) = Cardinality(Slots(keys, 0)) - 1
    /\ Copies(keys') = [Copies(keys) EXCEPT ![k] = @ + 1]
FewerOf(k) ==
    /\ Copies(keys)[k] > 0
    /\ Cardinality(Slots(keys', 0)) = Cardinality(Slots(keys, 0)) + 1
    /\ Copies(keys') = [Copies(keys) EXCEPT ![k] = @ - 1]

LEMMA CopiesType ==
    ASSUME NEW slots
    PROVE  Copies(slots) \in [Shown -> 0 .. SlotCount]
BY SlotsFinite DEF Copies

LEMMA PressCopies ==
    ASSUME ReportTypeOK, NEW k \in Shown, keys' = SetFirst(Free(k), k)
    PROVE  \/ MoreOf(k)
           \/ keys' = keys /\ (Cardinality(Slots(keys, 0)) = 0 \/ Copies(keys)[k] > 0)
<1>1. keys \in [Index -> KeyValues] /\ k # 0
  BY DEF ReportTypeOK, Shown
<1>2. /\ Cardinality(Slots(keys, 0)) \in Nat /\ Copies(keys)[k] \in Nat
      /\ Copies(keys)[k] = Cardinality(Slots(keys, k))
      /\ (Cardinality(Slots(keys, 0)) = 0 <=> Slots(keys, 0) = {})
      /\ (Copies(keys)[k] = 0 <=> Slots(keys, k) = {})
  BY SlotsFinite DEF Copies
<1>3. CASE Free(k) = {}
  BY <1>2, <1>3 DEF SetFirst, Free
<1>4. CASE Free(k) # {}
  <2>1. Min(Free(k)) \in Free(k) /\ keys' = [keys EXCEPT ![Min(Free(k))] = k]
    BY <1>4, FirstIsMember DEF Free, Slots, SetFirst
  <2>2. PICK e \in Index : (keys[e] = 0 \/ keys[e] = k) /\ keys' = [keys EXCEPT ![e] = k]
    BY <2>1 DEF Free, Slots
  <2>3. CASE keys[e] = k
    <3>1. keys' = keys
      BY <1>1, <2>2, <2>3
    <3>2. e \in Slots(keys, k)
      BY <2>2, <2>3 DEF Slots
    <3>3. QED
      BY <1>2, <3>1, <3>2
  <2>4. CASE keys[e] = 0
    <3>1. /\ Gains(keys', keys, k)
          /\ Loses(keys', keys, 0)
          /\ Keeps(keys', keys, 0, k)
      <4>1. /\ keys \in [Index -> KeyValues] /\ e \in Index /\ keys[e] = 0 /\ 0 # k
            /\ keys' = [keys EXCEPT ![e] = k]
        BY <1>1, <2>2, <2>4
      <4>2. ASSUME NEW after, after = [keys EXCEPT ![e] = k]
            PROVE  Gains(after, keys, k) /\ Loses(after, keys, 0) /\ Keeps(after, keys, 0, k)
        BY <4>1, <4>2, SlotChanges
      <4>3. QED
        BY <4>1, <4>2
    <3>2. Cardinality(Slots(keys, 0)) > 0
      <4>1. e \in Slots(keys, 0)
        BY <2>2, <2>4 DEF Slots
      <4>2. QED
        BY <1>2, <4>1
    <3>3. Copies(keys') = [Copies(keys) EXCEPT ![k] = @ + 1]
      BY <3>1 DEF Copies, Shown, Gains, Keeps
    <3>4. QED
      BY <3>1, <3>2, <3>3 DEF MoreOf, Loses
  <2>5. QED
    BY <2>2, <2>3, <2>4
<1>5. QED
  BY <1>3, <1>4

LEMMA ReleaseCopies ==
    ASSUME ReportTypeOK, NEW k \in Shown, keys' = SetFirst(Slots(keys, k), 0)
    PROVE  FewerOf(k) \/ (keys' = keys /\ Copies(keys)[k] = 0)
<1>1. keys \in [Index -> KeyValues] /\ k # 0
  BY DEF ReportTypeOK, Shown
<1>2. /\ Copies(keys)[k] \in Nat /\ Copies(keys)[k] = Cardinality(Slots(keys, k))
      /\ (Copies(keys)[k] = 0 <=> Slots(keys, k) = {})
  BY SlotsFinite DEF Copies
<1>3. CASE Slots(keys, k) = {}
  BY <1>2, <1>3 DEF SetFirst
<1>4. CASE Slots(keys, k) # {}
  <2> DEFINE e == Min(Slots(keys, k))
  <2>1. e \in Index /\ keys[e] = k
    BY <1>4, FirstIsMember DEF Slots
  <2>2. keys' = [keys EXCEPT ![e] = 0]
    BY <1>4 DEF SetFirst
  <2> HIDE DEF e
  <2>3. /\ Loses(keys', keys, k)
        /\ Gains(keys', keys, 0)
        /\ Keeps(keys', keys, k, 0)
    BY <1>1, <2>1, <2>2, SlotChanges
  <2>4. Copies(keys') = [Copies(keys) EXCEPT ![k] = @ - 1]
    BY <2>3 DEF Copies, Shown, Loses, Keeps
  <2>5. QED
    BY <1>2, <1>4, <2>3, <2>4 DEF FewerOf, Gains
<1>5. QED
  BY <1>3, <1>4

\* An event of a keycode that comes out as no key changes no slot.
LEMMA NoKeyEvent ==
    ASSUME ReportTypeOK
    PROVE  SetFirst(Free(0), 0) = keys /\ SetFirst(Slots(keys, 0), 0) = keys
<1>1. keys \in [Index -> KeyValues] /\ Free(0) = Slots(keys, 0)
  BY DEF ReportTypeOK, Free
<1>2. CASE Slots(keys, 0) = {}
  BY <1>1, <1>2 DEF SetFirst
<1>3. CASE Slots(keys, 0) # {}
  <2> DEFINE e == Min(Slots(keys, 0))
  <2>1. e \in Index /\ keys[e] = 0
    BY <1>3, FirstIsMember DEF Slots
  <2> HIDE DEF e
  <2>2. [keys EXCEPT ![e] = 0] = keys
    BY <1>1, <2>1
  <2>3. QED
    BY <1>1, <1>3, <2>2 DEF SetFirst, e
<1>4. QED
  BY <1>2, <1>3

LEMMA NoCopies == Copies(NoKeys) = [k \in Shown |-> 0] /\ Cardinality(Slots(NoKeys, 0)) = SlotCount
<1>1. ASSUME NEW k \in Shown PROVE Cardinality(Slots(NoKeys, k)) = 0
  <2>1. Slots(NoKeys, k) = {}
    BY DEF Slots, NoKeys, Shown
  <2>2. QED
    BY <2>1, FS_EmptySet
<1>2. Slots(NoKeys, 0) = 1 .. SlotCount
  BY DEF Slots, NoKeys, Index
<1>3. Cardinality(1 .. SlotCount) = SlotCount
  BY ReportAssumption, FS_Interval
<1>4. QED
  BY <1>1, <1>2, <1>3 DEF Copies

-------------------------------------------------------------------------------
LEMMA GoneInit == ReportInit => ReleasedKeysAreGone
BY NoCopies DEF ReportInit, ReleasedKeysAreGone

LEMMA GonePress ==
    ASSUME ReportTypeOK, ReleasedKeysAreGone, NEW c \in Keycodes, Press(c, ModsOf[c])
    PROVE  ReleasedKeysAreGone'
<1> DEFINE k == Key(c)
<1>1. keys' = SetFirst(Free(k), k) /\ CountPress(k)
  BY DEF Press
<1>2. /\ Copies(keys) \in [Shown -> 0 .. SlotCount] /\ Copies(keys') \in [Shown -> 0 .. SlotCount]
      /\ down \in [Shown -> 0 .. SlotCount] /\ SlotCount \in Nat
      /\ \A j \in Shown : Copies(keys)[j] <= down[j]
  BY CopiesType, ReportAssumption DEF ReportTypeOK, ReleasedKeysAreGone
<1>3. CASE k \in Shown
  <2>1. down' = [down EXCEPT ![k] = IF @ < SlotCount THEN @ + 1 ELSE @]
    BY <1>1, <1>3 DEF CountPress
  <2>2. Copies(keys') = [Copies(keys) EXCEPT ![k] = @ + 1] \/ keys' = keys
    BY <1>1, <1>3, PressCopies DEF MoreOf
  <2> HIDE DEF k
  <2>3. ASSUME NEW j \in Shown PROVE Copies(keys')[j] <= down'[j]
    <3>1. CASE keys' = keys
      BY <1>2, <1>3, <2>1, <3>1
    <3>2. CASE Copies(keys') = [Copies(keys) EXCEPT ![k] = @ + 1]
      BY <1>2, <1>3, <2>1, <3>2
    <3>3. QED
      BY <2>2, <3>1, <3>2
  <2>4. QED
    BY <2>3 DEF ReleasedKeysAreGone
<1>4. CASE k \notin Shown
  <2>1. k = 0
    BY <1>4 DEF Shown
  <2>2. keys' = keys /\ down' = down
    BY <1>1, <1>4, <2>1, NoKeyEvent DEF CountPress
  <2>3. QED
    BY <1>2, <2>2 DEF ReleasedKeysAreGone
<1>5. QED
  BY <1>3, <1>4

LEMMA GoneRelease ==
    ASSUME ReportTypeOK, ReleasedKeysAreGone, NEW c \in Keycodes, Release(c, ModsOf[c])
    PROVE  ReleasedKeysAreGone'
<1> DEFINE k == Key(c)
<1>1. keys' = SetFirst(Slots(keys, k), 0) /\ CountRelease(k)
  BY DEF Release
<1>2. /\ Copies(keys) \in [Shown -> 0 .. SlotCount]
      /\ down \in [Shown -> 0 .. SlotCount] /\ SlotCount \in Nat
      /\ \A j \in Shown : Copies(keys)[j] <= down[j]
  BY CopiesType, ReportAssumption DEF ReportTypeOK, ReleasedKeysAreGone
<1>3. CASE k \in Shown
  <2>1. down' = [down EXCEPT ![k] = IF @ > 0 THEN @ - 1 ELSE 0]
    BY <1>1, <1>3 DEF CountRelease
  <2>2. \/ Copies(keys') = [Copies(keys) EXCEPT ![k] = @ - 1]
        \/ keys' = keys /\ Copies(keys)[k] = 0
    BY <1>1, <1>3, ReleaseCopies DEF FewerOf
  <2> HIDE DEF k
  <2>3. ASSUME NEW j \in Shown PROVE Copies(keys')[j] <= down'[j]
    <3>1. CASE keys' = keys /\ Copies(keys)[k] = 0
      BY <1>2, <1>3, <2>1, <3>1
    <3>2. CASE Copies(keys') = [Copies(keys) EXCEPT ![k] = @ - 1]
      BY <1>2, <1>3, <2>1, <3>2
    <3>3. QED
      BY <2>2, <3>1, <3>2
  <2>4. QED
    BY <2>3 DEF ReleasedKeysAreGone
<1>4. CASE k \notin Shown
  <2>1. k = 0
    BY <1>4 DEF Shown
  <2>2. keys' = keys /\ down' = down
    BY <1>1, <1>4, <2>1, NoKeyEvent DEF CountRelease
  <2>3. QED
    BY <1>2, <2>2 DEF ReleasedKeysAreGone
<1>5. QED
  BY <1>3, <1>4

LEMMA GoneStep ==
    ReportTypeOK /\ ReleasedKeysAreGone /\ [ReportNext]_reportVars => ReleasedKeysAreGone'
<1> SUFFICES ASSUME ReportTypeOK, ReleasedKeysAreGone, [ReportNext]_reportVars
             PROVE  ReleasedKeysAreGone'
  OBVIOUS
<1>1. ASSUME NEW c \in Keycodes, KeyEvent(c) PROVE ReleasedKeysAreGone'
  BY <1>1, GonePress, GoneRelease DEF KeyEvent, hid_report_key_event
<1>2. CASE hid_report_release_all
  BY <1>2, NoCopies DEF hid_report_release_all, ReleasedKeysAreGone
<1>3. CASE hid_report_send_consumer
  BY <1>3 DEF hid_report_send_consumer, ReleasedKeysAreGone
<1>4. CASE HostFetches
  BY <1>4 DEF HostFetches, ReleasedKeysAreGone
<1>5. CASE UNCHANGED reportVars
  BY <1>5 DEF reportVars, ReleasedKeysAreGone
<1>6. QED
  BY <1>1, <1>2, <1>3, <1>4, <1>5 DEF ReportNext

\* In any order of presses and releases, repeated ones included, a key that has
\* been let go as often as it was pressed is in no slot, for any number of slots
\* and any width of them (hid_report.c:36-54).
THEOREM ReleasedKeyIsGone == ReportSpec => []ReleasedKeysAreGone
BY ReportTypeInit, ReportTypeStep, GoneInit, GoneStep, PTL DEF ReportSpec

-------------------------------------------------------------------------------
(***************************************************************************)
(* The refinement.  Every step of the report maps to a step of HeldKeys.   *)
(***************************************************************************)
LEMMA HeldInitially == ReportInit => Held!HeldInit
BY NoCopies DEF ReportInit, Held!HeldInit, Held!Nothing

\* What is sent is the report as it shows after the step.
LEMMA SendIsOffer == SendKeyboard => Held!Offer
<1> SUFFICES ASSUME SendKeyboard PROVE Held!Offer
  OBVIOUS
<1>1. CASE busy
  BY <1>1 DEF SendKeyboard, Held!Offer
<1>2. CASE ~busy
  <2>1. host'.mods = modifiers' /\ host'.keys = keys'
    BY <1>2 DEF SendKeyboard
  <2>2. QED
    BY <1>2, <2>1 DEF SendKeyboard, Held!Offer
<1>3. QED
  BY <1>1, <1>2

LEMMA PressIsHeld ==
    ASSUME ReportTypeOK, NEW c \in Keycodes, Press(c, ModsOf[c])
    PROVE  Held!HeldNext
<1> DEFINE k == Key(c)
<1>1. ModsOf[c] \in SUBSET Mods /\ modifiers' = modifiers \cup ModsOf[c]
  BY ReportAssumption DEF Press
<1>2. keys' = SetFirst(Free(k), k) /\ Held!Offer
  BY SendIsOffer DEF Press
<1>3. CASE k \in Shown
  <2>1. CASE MoreOf(k)
    <3>1. Held!Hold(k, ModsOf[c])
      BY <1>1, <1>2, <2>1 DEF MoreOf, Held!Hold
    <3>2. QED
      BY <1>1, <1>3, <3>1 DEF Held!HeldNext
  <2>2. CASE keys' = keys /\ (Cardinality(Slots(keys, 0)) = 0 \/ Copies(keys)[k] > 0)
    <3>1. Held!Hold(k, ModsOf[c])
      BY <1>1, <1>2, <2>2 DEF Held!Hold
    <3>2. QED
      BY <1>1, <1>3, <3>1 DEF Held!HeldNext
  <2>3. QED
    BY <1>2, <1>3, <2>1, <2>2, PressCopies
<1>4. CASE k \notin Shown
  <2>1. keys' = keys
    BY <1>2, <1>4, NoKeyEvent DEF Shown
  <2>2. Held!Modify(ModsOf[c])
    BY <1>1, <1>2, <2>1 DEF Held!Modify
  <2>3. QED
    BY <1>1, <2>2 DEF Held!HeldNext
<1>5. QED
  BY <1>3, <1>4

LEMMA ReleaseIsHeld ==
    ASSUME ReportTypeOK, NEW c \in Keycodes, Release(c, ModsOf[c])
    PROVE  Held!HeldNext
<1> DEFINE k == Key(c)
<1>1. ModsOf[c] \in SUBSET Mods /\ modifiers' = modifiers \ ModsOf[c]
  BY ReportAssumption DEF Release
<1>2. keys' = SetFirst(Slots(keys, k), 0) /\ Held!Offer
  BY SendIsOffer DEF Release
<1>3. CASE k \in Shown
  <2>1. CASE FewerOf(k)
    <3>1. Held!LetGo(k, ModsOf[c])
      BY <1>1, <1>2, <2>1 DEF FewerOf, Held!LetGo
    <3>2. QED
      BY <1>1, <1>3, <3>1 DEF Held!HeldNext
  <2>2. CASE keys' = keys /\ Copies(keys)[k] = 0
    <3>1. Held!LetGo(k, ModsOf[c])
      BY <1>1, <1>2, <2>2 DEF Held!LetGo
    <3>2. QED
      BY <1>1, <1>3, <3>1 DEF Held!HeldNext
  <2>3. QED
    BY <1>2, <1>3, <2>1, <2>2, ReleaseCopies
<1>4. CASE k \notin Shown
  <2>1. keys' = keys
    BY <1>2, <1>4, NoKeyEvent DEF Shown
  <2>2. Held!Modify(ModsOf[c])
    BY <1>1, <1>2, <2>1 DEF Held!Modify
  <2>3. QED
    BY <1>1, <2>2 DEF Held!HeldNext
<1>5. QED
  BY <1>3, <1>4

LEMMA StepIsHeld ==
    ReportTypeOK /\ [ReportNext]_reportVars => [Held!HeldNext]_(Held!heldVars)
<1> SUFFICES ASSUME ReportTypeOK, [ReportNext]_reportVars
             PROVE  Held!HeldNext \/ UNCHANGED Held!heldVars
  OBVIOUS
<1>1. ASSUME NEW c \in Keycodes, KeyEvent(c) PROVE Held!HeldNext
  BY <1>1, PressIsHeld, ReleaseIsHeld DEF KeyEvent, hid_report_key_event
<1>2. CASE hid_report_release_all
  <2>1. Held!Offer
    BY <1>2, SendIsOffer DEF hid_report_release_all
  <2>2. QED
    BY <1>2, <2>1, NoCopies
    DEF hid_report_release_all, Held!LetGoAll, Held!Nothing, Held!HeldNext
<1>3. CASE hid_report_send_consumer
  BY <1>3 DEF hid_report_send_consumer, Held!OtherReport, Held!HeldNext
<1>4. CASE HostFetches
  BY <1>4 DEF HostFetches, Held!Fetch, Held!HeldNext
<1>5. CASE UNCHANGED reportVars
  BY <1>5 DEF reportVars, Held!heldVars
<1>6. QED
  BY <1>1, <1>2, <1>3, <1>4, <1>5 DEF ReportNext

\* The report builder implements the bag of held keys under any order of events,
\* for any number of slots (hid_report.c:36-63).
THEOREM ReportImplementsHeldKeys == ReportSpec => ImplementsHeldKeys
BY ReportTypeInit, ReportTypeStep, HeldInitially, StepIsHeld, PTL
   DEF ReportSpec, ImplementsHeldKeys, Held!HeldSpec
===============================================================================
