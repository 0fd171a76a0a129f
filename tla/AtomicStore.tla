----------------------------- MODULE AtomicStore -----------------------------
(***************************************************************************)
(* What the configuration store promises its callers: one durable payload  *)
(* and one working copy in RAM.  A save installs the working copy as the   *)
(* durable one in a single step; losing power never leaves anything in     *)
(* between, and what a load finds is the durable payload.  The exception   *)
(* is an operation that cannot read all of the medium ("misread"): a load  *)
(* may then find something else, a save may destroy what was durable.      *)
(*                                                                         *)
(* ConfigStorage implements this with several flash banks, each erased,    *)
(* written and verified in steps of which any may fail or be cut short.    *)
(***************************************************************************)
CONSTANTS
    Payloads,   \* the configurations a caller may store
    Empty       \* the default configuration, used when nothing is stored

VARIABLES
    up,         \* there is power
    working,    \* the copy in RAM
    durable,    \* the configuration that survives a loss of power
    misread     \* the last load or save could not read all of the medium

storeVars == <<up, working, durable, misread>>

StoreTypeOK ==
    /\ up \in BOOLEAN
    /\ working \in Payloads
    /\ durable \in Payloads
    /\ misread \in BOOLEAN

StoreInit ==
    /\ up = FALSE
    /\ working = Empty
    /\ durable \in Payloads
    /\ misread = FALSE

\* The working copy is whatever RAM holds.
Start ==
    /\ ~up
    /\ up' = TRUE
    /\ working' \in Payloads
    /\ UNCHANGED <<durable, misread>>

Change(p) ==
    /\ up
    /\ working' = p
    /\ UNCHANGED <<up, durable, misread>>

Reload ==
    /\ up
    /\ misread' = FALSE
    /\ working' = durable
    /\ UNCHANGED <<up, durable>>

ReloadMisread ==
    /\ up
    /\ misread' = TRUE
    /\ working' \in Payloads
    /\ UNCHANGED <<up, durable>>

\* A save begins; nothing is lost yet.
BeginSave ==
    /\ up
    /\ misread' \in BOOLEAN
    /\ UNCHANGED <<up, working, durable>>

Save ==
    /\ up
    /\ durable' = working
    /\ UNCHANGED <<up, working, misread>>

SaveMisread ==
    /\ up
    /\ misread
    /\ durable' \in Payloads
    /\ UNCHANGED <<up, working, misread>>

\* Power is lost; a save may have been in progress, and then it either took
\* effect as a whole or not at all.
PowerLoss ==
    /\ up
    /\ up' = FALSE
    /\ working' = Empty
    /\ durable' \in (IF misread THEN Payloads ELSE {durable, working})
    /\ UNCHANGED misread

StoreNext ==
    \/ Start
    \/ \E p \in Payloads : Change(p)
    \/ Reload
    \/ ReloadMisread
    \/ BeginSave
    \/ Save
    \/ SaveMisread
    \/ PowerLoss

StoreSpec == StoreInit /\ [][StoreNext]_storeVars
==============================================================================
