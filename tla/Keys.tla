-------------------------------- MODULE Keys --------------------------------
(***************************************************************************)
(* The key scanner: input/keys.c, with the clock and the contacts it       *)
(* reads.  A contact may bounce at any time; the main loop scans whenever  *)
(* it comes round, at most MaxGap milliseconds after the last scan.  Any   *)
(* key may be asked for a press at any time, or never: main.c:43-48 asks   *)
(* none.                                                                   *)
(*                                                                         *)
(* The scanner accepts a change at once and then ignores the contact for   *)
(* Debounce milliseconds, by the difference of two wrapping clock values.  *)
(***************************************************************************)
EXTENDS Integers

CONSTANTS
    KeySet,      \* key indices, 0 .. NUM_KEYS - 1 (3)
    Debounce,    \* DEBOUNCE_MS (15)
    ClockMod,    \* sys_tick_ms() is u32: 2^32
    MaxGap       \* bound: the longest pass of the main loop, in milliseconds

ASSUME KeysAssumption ==
    /\ Debounce \in Nat \ {0} /\ MaxGap \in Nat \ {0}
    /\ ClockMod \in Nat /\ ClockMod > 2 * (Debounce + MaxGap)

VARIABLES
    raw,         \* hal_key_read of each key
    pressed,     \* key_state_t.pressed
    changed,     \* key_state_t.just_changed
    last,        \* key_state_t.last_change_ms
    now,         \* sys_tick_ms()
    gap,         \* history: milliseconds since the last scan
    age,         \* history: milliseconds since the last accepted change, capped
    steady,      \* history: milliseconds the contact has kept its value, capped
    reports,     \* history: how often the last press of a key has been reported
    open,        \* history: keys no scan has found closed since it accepted the press
    asked        \* history: keys asked for their last press while it was open

scanVars == <<raw, pressed, changed, last, now>>
keyHistory == <<gap, age, steady, reports, open, asked>>
keyVars == <<scanVars, keyHistory>>

Settled == Debounce + 2 * MaxGap

KeysTypeOK ==
    /\ raw \in [KeySet -> BOOLEAN] /\ pressed \in [KeySet -> BOOLEAN]
    /\ changed \in [KeySet -> BOOLEAN]
    /\ last \in [KeySet -> 0 .. ClockMod - 1] /\ now \in 0 .. ClockMod - 1
    /\ gap \in 0 .. MaxGap
    /\ age \in [KeySet -> 0 .. Debounce]
    /\ steady \in [KeySet -> 0 .. Settled]
    /\ reports \in [KeySet -> 0 .. 2]
    /\ open \subseteq KeySet /\ asked \subseteq KeySet

-------------------------------------------------------------------------------
All(v) == [k \in KeySet |-> v]
OneMore(n, bound) == IF n < bound THEN n + 1 ELSE n

KeysInit ==
    /\ raw \in [KeySet -> BOOLEAN]
    /\ pressed = All(FALSE)
    /\ changed = All(FALSE)
    /\ last = All(0)
    /\ now \in 0 .. ClockMod - 1
    /\ gap = 0
    /\ age = All(Debounce)
    /\ steady = All(0)
    /\ reports = All(0)
    /\ open = {} /\ asked = {}

\* A contact opens, closes or bounces.
Contact(k) ==
    /\ raw' = [raw EXCEPT ![k] = ~@]
    /\ steady' = [steady EXCEPT ![k] = 0]
    /\ UNCHANGED <<pressed, changed, last, now, gap, age, reports, open, asked>>

Clock_NoWrap ==
    /\ gap < MaxGap
    /\ now' = now + 1
    /\ gap' = gap + 1
    /\ age' = [k \in KeySet |-> OneMore(age[k], Debounce)]
    /\ steady' = [k \in KeySet |-> OneMore(steady[k], Settled)]
    /\ UNCHANGED <<raw, pressed, changed, last, reports, open, asked>>

Clock ==
    /\ gap < MaxGap
    /\ now' = (now + 1) % ClockMod
    /\ gap' = gap + 1
    /\ age' = [k \in KeySet |-> OneMore(age[k], Debounce)]
    /\ steady' = [k \in KeySet |-> OneMore(steady[k], Settled)]
    /\ UNCHANGED <<raw, pressed, changed, last, reports, open, asked>>

Differs(k) == raw[k] # pressed[k]
Elapsed(k) == (now - last[k]) % ClockMod
Quiet_NoWrap(k) == now >= (last[k] + Debounce) % ClockMod
Quiet_Signed(k) == now - last[k] >= Debounce
Quiet(k) == Elapsed(k) >= Debounce
Accepted == {k \in KeySet : Differs(k) /\ Quiet(k)}
Presses == {k \in Accepted : raw[k]}

\* just_changed is cleared only where the contact agrees with the state.
ChangedAfterScan ==
    [k \in KeySet |-> k \in Accepted \/ (Differs(k) /\ changed[k])]

keys_scan ==
    /\ pressed' = [k \in KeySet |-> IF k \in Accepted THEN raw[k] ELSE pressed[k]]
    /\ changed' = ChangedAfterScan
    /\ last' = [k \in KeySet |-> IF k \in Accepted THEN now ELSE last[k]]
    /\ gap' = 0
    /\ age' = [k \in KeySet |-> IF k \in Accepted THEN 0 ELSE age[k]]
    /\ reports' = [k \in KeySet |-> IF k \in Presses THEN 0 ELSE reports[k]]
    /\ open' = Presses \cup {k \in open : Differs(k) /\ ~Quiet(k)}
    /\ asked' = asked \ Presses
    /\ UNCHANGED <<raw, now, steady>>

\* Key k is asked; TRUE is the answer when it is pressed and changed.
Asks(k) ==
    /\ reports' = [reports EXCEPT ![k] =
                     IF pressed[k] /\ changed[k] THEN OneMore(@, 2) ELSE @]
    /\ asked' = asked \cup ({k} \cap open)
    /\ UNCHANGED <<raw, pressed, last, now, gap, age, steady, open>>

keys_consume_press_Peeks(k) == Asks(k) /\ changed' = changed

keys_consume_press(k) ==
    Asks(k) /\ changed' = [changed EXCEPT ![k] = @ /\ ~pressed[k]]

KeysNext ==
    \/ \E k \in KeySet : Contact(k)
    \/ Clock
    \/ keys_scan
    \/ \E k \in KeySet : keys_consume_press(k)

KeysSpec == KeysInit /\ [][KeysNext]_keyVars

-------------------------------------------------------------------------------
(***************************************************************************)
(* Properties.                                                             *)
(***************************************************************************)

\* However the contact bounces and wherever the clock wraps, the state of a
\* key changes at most once in Debounce milliseconds of real time, counted
\* from its last change (keys.c:35).
ChangesAreSpaced ==
    [][\A k \in KeySet : pressed'[k] # pressed[k] => age[k] >= Debounce]_keyVars

\* A contact that has kept its value for the debounce time and two passes of
\* the main loop is what the scanner shows.  One pass is enough except when the
\* change before it is as long ago as the clock takes to wrap: the difference
\* is small again then, and the debounce time starts anew (keys.c:35).
SteadyContactIsShown ==
    \A k \in KeySet : steady[k] >= Settled => pressed[k] = raw[k]

\* keys.h:32: "Return true exactly once per press".  A press asked for before a
\* scan finds its contact still closed is reported, once, however often the key
\* is asked and the contact bounces in the meantime; any other press is never
\* reported (keys.c:40).
AskedPressReportedOnce ==
    \A k \in KeySet : reports[k] = IF k \in asked THEN 1 ELSE 0
==============================================================================
