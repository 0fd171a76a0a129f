------------------------------ MODULE HeldKeys ------------------------------
(***************************************************************************)
(* What the keyboard report stands for: how often each key is held down,   *)
(* with room for Room of them, and the modifiers.  The host knows those of *)
(* the last report its endpoint had room for.                              *)
(***************************************************************************)
EXTENDS Naturals

CONSTANTS Codes, Mods, Room

VARIABLES
    shown,      \* the copies of each key and the modifiers in the report
    room,       \* the keys there is room for
    seen,       \* the copies and modifiers of the last report the host got
    taken       \* the endpoint holds a report the host has not fetched

heldVars == <<shown, room, seen, taken>>

Nothing == [keys |-> [k \in Codes |-> 0], mods |-> {}]

HeldInit == shown = Nothing /\ room = Room /\ seen = Nothing /\ taken = FALSE

\* The report is offered to the endpoint, which may be taken.
Offer ==
    /\ seen' = IF taken THEN seen ELSE shown'
    /\ taken' = TRUE

\* One more copy where there is room, and none where there is not.  A key that
\* is held already may keep the copies it has.
Hold(k, m) ==
    /\ \/ /\ room > 0
          /\ room' = room - 1
          /\ shown' = [keys |-> [shown.keys EXCEPT ![k] = @ + 1], mods |-> shown.mods \cup m]
       \/ /\ room = 0 \/ shown.keys[k] > 0
          /\ room' = room
          /\ shown' = [keys |-> shown.keys, mods |-> shown.mods \cup m]
    /\ Offer

LetGo(k, m) ==
    /\ \/ /\ shown.keys[k] > 0
          /\ room' = room + 1
          /\ shown' = [keys |-> [shown.keys EXCEPT ![k] = @ - 1], mods |-> shown.mods \ m]
       \/ /\ shown.keys[k] = 0
          /\ room' = room
          /\ shown' = [keys |-> shown.keys, mods |-> shown.mods \ m]
    /\ Offer

LetGoAll == shown' = Nothing /\ room' = Room /\ Offer

\* An event of no key has modifiers alone.
Modify(m) ==
    /\ shown' \in {[keys |-> shown.keys, mods |-> n] : n \in {shown.mods \cup m, shown.mods \ m}}
    /\ room' = room
    /\ Offer

\* The endpoint carries a report of another kind, or the host fetches one.
OtherReport == taken' = TRUE /\ UNCHANGED <<shown, room, seen>>
Fetch == taken' = FALSE /\ UNCHANGED <<shown, room, seen>>

HeldNext ==
    \/ OtherReport
    \/ Fetch
    \/ LetGoAll
    \/ \E m \in SUBSET Mods : Modify(m) \/ \E k \in Codes : Hold(k, m) \/ LetGo(k, m)

HeldSpec == HeldInit /\ [][HeldNext]_heldVars
==============================================================================
