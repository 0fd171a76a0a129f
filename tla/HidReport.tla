----------------------------- MODULE HidReport ------------------------------
(***************************************************************************)
(* The HID report builder: input/hid_report.c, over the one IN endpoint    *)
(* behind hid_send (sayofw.h:77, "Non-blocking; returns false if endpoint  *)
(* is busy").  The endpoint is busy from an accepted report until the host *)
(* fetches it; nothing retries a report it refused.                        *)
(*                                                                         *)
(* Callers press and release in any order, the same key twice included:    *)
(* where a release has left a hole before its slot, the second press takes *)
(* a second slot (hid_report.c:42), and each release clears one.           *)
(***************************************************************************)
EXTENDS Integers, FiniteSets, FiniteSetsExt

CONSTANTS
    SlotCount,   \* keys in a boot-protocol report (6)
    CodeMod,     \* a slot is u8, a keycode u16: 2^8
    Keycodes,    \* the keycodes callers use
    Mods,        \* modifier bits
    ModsOf       \* the modifiers a caller sends with each keycode

ASSUME ReportAssumption ==
    /\ SlotCount \in Nat \ {0} /\ CodeMod \in Nat \ {0}
    /\ Keycodes \subseteq Nat
    /\ ModsOf \in [Keycodes -> SUBSET Mods]

VARIABLES
    modifiers,   \* g_kbd_report.modifiers
    keys,        \* g_kbd_report.keys
    busy,        \* the endpoint holds a report
    host,        \* the last keyboard report the endpoint took
    down         \* history: the presses of each key not released since, capped

reportVars == <<modifiers, keys, busy, host, down>>

Key(keycode) == keycode % CodeMod
Index == 1 .. SlotCount
NoKeys == [i \in Index |-> 0]
KeyValues == 0 .. CodeMod - 1
Shown == {Key(c) : c \in Keycodes} \ {0}
Slots(slots, k) == {i \in Index : slots[i] = k}
Copies(slots) == [k \in Shown |-> Cardinality(Slots(slots, k))]

ReportInit ==
    /\ modifiers = {}
    /\ keys = NoKeys
    /\ busy = FALSE
    /\ host = [mods |-> {}, keys |-> NoKeys]
    /\ down = [k \in Shown |-> 0]

-------------------------------------------------------------------------------
\* hid_send of the keyboard report as it is after this step.
SendKeyboard ==
    /\ busy' = TRUE
    /\ host' = IF busy THEN host ELSE [mods |-> modifiers', keys |-> keys']

\* A consumer report, of whatever usage, goes through the same endpoint
\* (hid_report_send_keys ends here on every path).
hid_report_send_consumer == busy' = TRUE /\ UNCHANGED <<modifiers, keys, host, down>>

Free(k) == Slots(keys, 0) \cup Slots(keys, k)
SetFirst_Unchecked(where, k) ==
    [keys EXCEPT ![IF where = {} THEN SlotCount ELSE Min(where)] = k]

SetFirst(where, k) ==
    IF where = {} THEN keys ELSE [keys EXCEPT ![Min(where)] = k]

\* As many presses as there are slots is all that the count has to tell apart.
CountPress(k) ==
    down' = IF k \in Shown THEN [down EXCEPT ![k] = IF @ < SlotCount THEN @ + 1 ELSE @]
            ELSE down
CountRelease(k) ==
    down' = IF k \in Shown THEN [down EXCEPT ![k] = IF @ > 0 THEN @ - 1 ELSE 0]
            ELSE down

Press_NoBreak(keycode, m) ==
    /\ modifiers' = modifiers \cup m
    /\ keys' = [i \in Index |-> IF i \in Free(Key(keycode)) THEN Key(keycode) ELSE keys[i]]
    /\ CountPress(Key(keycode))
    /\ SendKeyboard

Press_Untruncated(keycode, m) ==
    /\ modifiers' = modifiers \cup m
    /\ keys' = SetFirst(Free(Key(keycode)), keycode)
    /\ CountPress(Key(keycode))
    /\ SendKeyboard

Press(keycode, m) ==
    /\ modifiers' = modifiers \cup m
    /\ keys' = SetFirst(Free(Key(keycode)), Key(keycode))
    /\ CountPress(Key(keycode))
    /\ SendKeyboard

Release_Wide(keycode, m) ==
    /\ modifiers' = modifiers \ m
    /\ keys' = SetFirst(Slots(keys, keycode), 0)
    /\ CountRelease(Key(keycode))
    /\ SendKeyboard

Release(keycode, m) ==
    /\ modifiers' = modifiers \ m
    /\ keys' = SetFirst(Slots(keys, Key(keycode)), 0)
    /\ CountRelease(Key(keycode))
    /\ SendKeyboard

hid_report_release_all ==
    /\ modifiers' = {}
    /\ keys' = NoKeys
    /\ down' = [k \in Shown |-> 0]
    /\ SendKeyboard

hid_report_key_event(m, keycode, press) ==
    (press /\ Press(keycode, m)) \/ (~press /\ Release(keycode, m))

KeyEvent(c) == \E press \in BOOLEAN : hid_report_key_event(ModsOf[c], c, press)

HostFetches == busy' = FALSE /\ UNCHANGED <<modifiers, keys, host, down>>

ReportNext ==
    \/ \E c \in Keycodes : KeyEvent(c)
    \/ hid_report_release_all
    \/ hid_report_send_consumer
    \/ HostFetches

ReportSpec == ReportInit /\ [][ReportNext]_reportVars

-------------------------------------------------------------------------------
(***************************************************************************)
(* Properties.                                                             *)
(***************************************************************************)
ReportTypeOK ==
    /\ modifiers \subseteq Mods
    /\ keys \in [Index -> KeyValues]
    /\ busy \in BOOLEAN
    /\ host \in [mods : SUBSET Mods, keys : [Index -> KeyValues]]
    /\ down \in [Shown -> 0 .. SlotCount]

\* A key is in no more slots than it has presses that no release has answered,
\* whatever holes releases leave and whatever the slot's width leaves of its
\* keycode: a key let go as often as it was pressed is in none, and one pressed
\* once is in one (hid_report.c:36-54).  A slot too many would keep its key down
\* at the host until every key is released.
ReleasedKeysAreGone ==
    \A k \in Shown : Copies(keys)[k] <= down[k]

\* The slots implement a bag of held keys with room for SlotCount: a press that
\* finds no room pushes out no other key, a release lets go of one copy, and
\* what the host shows is the bag as it was at the last report the endpoint
\* took, whatever other reports went through it (hid_report.c:36-63).
Held == INSTANCE HeldKeys WITH
            Codes <- Shown,
            Room <- SlotCount,
            shown <- [keys |-> Copies(keys), mods |-> modifiers],
            room <- Cardinality(Slots(keys, 0)),
            seen <- [keys |-> Copies(host.keys), mods |-> host.mods],
            taken <- busy
ImplementsHeldKeys == Held!HeldSpec
==============================================================================
