---------------------------- MODULE ConfigStorage ----------------------------
(***************************************************************************)
(* The flash-backed configuration of the firmware: storage/config.c.       *)
(*                                                                         *)
(* A commit picks a bank, erases it, writes the RAM copy (g_live) to it    *)
(* and reads it back.  Each of those flash calls is a step of its own: it  *)
(* may fail, and power may be lost before it or in the middle of it.  The  *)
(* module's functions are called from one context (the HID dispatcher), so *)
(* nothing else of the module runs between the steps of a commit.          *)
(*                                                                         *)
(* Abstractions.  A bank holds one blob; "header" is the conjunction of    *)
(* the magic and version tests, a payload stands for <<size, bytes>>, and  *)
(* Garbage for bytes nobody stored.  The flash HAL is external: a call that*)
(* reports success may still have stored damaged bytes (what the read-back *)
(* is for), a call that fails may have done all, some or none of its work. *)
(* An erase that reports success has erased.  A read may fail for a bank   *)
(* that is intact; the loops then pass over that bank.                     *)
(*                                                                         *)
(* main.c calls neither storage_init nor storage_revert, so after power-on *)
(* commands work on whatever RAM holds.  Both are actions that may happen  *)
(* at any time or never; "inited" and "misread" record what happened, and  *)
(* a property that needs one of them says so.                              *)
(*                                                                         *)
(* A definition Def_Slip is Def with a plausible programming mistake.  No  *)
(* specification uses it: it is there to show that a property notices.     *)
(***************************************************************************)
EXTENDS Integers, FiniteSets

CONSTANTS
    NumBanks,      \* CONFIG_NUM_BANKS, 2 in sayofw_config.h
    BootModulus,   \* boot_count is a u32: 2^32 in the code
    Payloads,      \* the <<size, bytes>> a caller may put in the RAM copy
    Oversized,     \* those of them whose size exceeds CONFIG_PAYLOAD_MAX
    Empty,         \* size 0: the default configuration
    Garbage,       \* the payload of an erased or damaged bank
    Crc,           \* compute_crc32 on each payload
    ErasedWord,    \* the crc32 field of an erased bank
    NoCommit       \* "no commit is acknowledged"

ASSUME BanksAssumption == NumBanks \in Nat /\ NumBanks >= 2
ASSUME BootAssumption == BootModulus \in Nat /\ BootModulus >= 2
ASSUME PayloadAssumption ==
    /\ Oversized \subseteq Payloads
    /\ Empty \in Payloads \ Oversized
    /\ Garbage \notin Payloads
\* The CRC of what is stored differs from the CRC of a damaged payload and from
\* an erased word; two payloads may share one.
ASSUME CrcAssumption ==
    /\ Crc \in [Payloads \cup {Garbage} -> Nat]
    /\ Crc[Empty] = 0
    /\ ErasedWord \in Nat
    /\ \A p \in Payloads : Crc[p] # Crc[Garbage]
    /\ \A p \in Payloads \cup {Garbage} : Crc[p] # ErasedWord
ASSUME AckAssumption == NoCommit \notin [payload : Payloads, inited : BOOLEAN]

VARIABLES
    flash,    \* the blob in each bank
    live,     \* g_live
    dirty,    \* g_dirty
    pc,       \* the next step: of a call, or of a commit in progress
    target,   \* the bank the commit in progress works on
    inited,   \* history: storage_init has run since power-on
    misread,  \* history: the last loop over the banks failed to read one
    acked,    \* history: the last commit, once it returned true: its payload,
              \*          and whether storage_init had run before it
    tried     \* history: the payloads some commit set out to write

vars == <<flash, live, dirty, pc, target, inited, misread, acked, tried>>

Banks == 0 .. NumBanks - 1
Stored == Payloads \cup {Garbage}
Blobs == [header : BOOLEAN, boot : 0 .. BootModulus - 1, payload : Stored, crc : Nat]
Phases == {"down", "ready", "erase", "write", "verify"}

Valid_NoCrc(blob) == blob.header /\ blob.payload \notin Oversized

\* What the test of a bank in storage_init and in storage_commit accepts.
Valid(blob) ==
    /\ blob.header
    /\ blob.payload \notin Oversized
    /\ blob.crc = Crc[blob.payload]

\* RAM without power.
Zeroed == [header |-> FALSE, boot |-> 0, payload |-> Empty, crc |-> 0]
\* RAM that nobody has initialised; a commit computes the crc32 field anew.
Uninitialised == [header : BOOLEAN, boot : 0 .. BootModulus - 1, payload : Payloads, crc : {0}]
FreshBlob == [header |-> TRUE, boot |-> 1, payload |-> Empty, crc |-> 0]
ErasedBlob == [header |-> FALSE, boot |-> 0, payload |-> Garbage, crc |-> ErasedWord]

\* The blob an uninterrupted write of a payload leaves on flash.
BlobOf(p) == [header |-> TRUE, boot |-> 1, payload |-> p, crc |-> Crc[p]]
\* A stored default configuration that has lost bits since.
WornBlob == [header |-> TRUE, boot |-> 1, payload |-> Garbage, crc |-> Crc[Empty]]
\* Power cut while erasing: one end of the blob is gone.
PartlyErased(blob) == {[blob EXCEPT !.header = FALSE], [blob EXCEPT !.crc = ErasedWord]}
\* A write cut short, or one that stored wrong bytes; crc32 is written last.
PartlyWritten(blob) ==
    { [blob EXCEPT !.payload = Garbage],
      [blob EXCEPT !.crc = ErasedWord],
      [blob EXCEPT !.payload = Garbage, !.crc = ErasedWord] }

TypeOK ==
    /\ flash \in [Banks -> Blobs]
    /\ live \in Blobs /\ live.payload \in Payloads
    /\ dirty \in BOOLEAN
    /\ pc \in Phases
    /\ target \in Banks
    /\ inited \in BOOLEAN
    /\ misread \in BOOLEAN
    /\ acked \in [payload : Payloads, inited : BOOLEAN] \cup {NoCommit}
    /\ tried \in SUBSET Payloads

-------------------------------------------------------------------------------
(***************************************************************************)
(* Choosing a bank.  Both loops go through the banks in order and stop at  *)
(* the first one that is readable and valid.                               *)
(***************************************************************************)
Readable == SUBSET Banks

FirstGood(f, b, readable) ==
    /\ b \in readable
    /\ Valid(f[b])
    /\ \A c \in readable : c < b => ~Valid(f[c])

NoneGood(f, readable) == \A b \in readable : ~Valid(f[b])

NextBank_NoWrap(b) == b + 1
NextBank_Same(b) == b
NextBank(b) == (b + 1) % NumBanks

PickTarget(readable, t) ==
    \/ \E b \in Banks : FirstGood(flash, b, readable) /\ t = NextBank(b)
    \/ NoneGood(flash, readable) /\ t = 0

Load_AnyGood(readable) ==
    \/ \E b \in readable :
          /\ Valid(flash[b])
          /\ live' = [flash[b] EXCEPT !.boot = (@ + 1) % BootModulus]
    \/ NoneGood(flash, readable) /\ live' = FreshBlob

\* The RAM copy storage_init leaves.
Load(readable) ==
    \/ \E b \in Banks :
          /\ FirstGood(flash, b, readable)
          /\ live' = [flash[b] EXCEPT !.boot = (@ + 1) % BootModulus]
    \/ NoneGood(flash, readable) /\ live' = FreshBlob

-------------------------------------------------------------------------------
(***************************************************************************)
(* The initial states: a new device, or one that has been in use and may   *)
(* have a damaged bank (the case the size test "F14" is there for).        *)
(***************************************************************************)
Init ==
    /\ flash \in [Banks -> {ErasedBlob, WornBlob}
                             \cup {BlobOf(p) : p \in Payloads \ Oversized}]
    /\ live = Zeroed
    /\ dirty = FALSE
    /\ pc = "down"
    /\ target = 0
    /\ inited = FALSE
    /\ misread = FALSE
    /\ acked = NoCommit
    /\ tried = {flash[b].payload : b \in {c \in Banks : Valid(flash[c])}}

\* The start-up code zeroes no .bss (module Startup) and main initialises no
\* store: g_live and g_dirty are what RAM holds.
PowerOn ==
    /\ pc = "down"
    /\ live' \in Uninitialised
    /\ dirty' \in BOOLEAN
    /\ pc' = "ready"
    /\ UNCHANGED <<flash, target, inited, misread, acked, tried>>

\* The loop of storage_init over the banks.
Reads ==
    \E readable \in Readable :
        /\ Load(readable)
        /\ misread' = (readable # Banks)

\* g_dirty is set on both paths: one boot later never equals the stored count.
StorageInit ==
    /\ pc = "ready"
    /\ Reads
    /\ dirty' = TRUE
    /\ inited' = TRUE
    /\ UNCHANGED <<flash, pc, target, acked, tried>>

\* A caller takes the pointer of storage_edit and stores payload p through it.
Edit(p) ==
    /\ pc = "ready"
    /\ live' = [live EXCEPT !.payload = p]
    /\ dirty' = TRUE
    /\ UNCHANGED <<flash, pc, target, inited, misread, acked, tried>>

\* storage_init, with g_dirty cleared after it.
Revert ==
    /\ pc = "ready"
    /\ Reads
    /\ dirty' = FALSE
    /\ inited' = TRUE
    /\ UNCHANGED <<flash, pc, target, acked, tried>>

\* storage_commit with nothing to do: it answers true and changes nothing.
CommitClean ==
    /\ pc = "ready"
    /\ ~dirty
    /\ UNCHANGED vars

\* The size test: answers false and changes nothing.
CommitTooBig ==
    /\ pc = "ready"
    /\ dirty
    /\ live.payload \in Oversized
    /\ UNCHANGED vars

CommitBegin ==
    /\ pc = "ready"
    /\ dirty
    /\ live.payload \notin Oversized
    /\ live' = [live EXCEPT !.crc = Crc[live.payload]]
    /\ \E readable \in Readable :
          /\ PickTarget(readable, target')
          /\ misread' = (readable # Banks)
    /\ pc' = "erase"
    /\ acked' = NoCommit
    /\ tried' = tried \cup {live.payload}
    /\ UNCHANGED <<flash, dirty, inited>>

\* What the target bank may hold when its erase or its write is not completed.
CutShort ==
    CASE pc = "erase" -> {flash[target], ErasedBlob} \cup PartlyErased(flash[target])
      [] pc = "write" -> {ErasedBlob, live} \cup PartlyWritten(live)
      [] OTHER        -> {flash[target]}

EraseDone ==
    /\ pc = "erase"
    /\ flash' = [flash EXCEPT ![target] = ErasedBlob]
    /\ pc' = "write"
    /\ UNCHANGED <<live, dirty, target, inited, misread, acked, tried>>

WriteDone ==
    /\ pc = "write"
    /\ \E blob \in {live} \cup PartlyWritten(live) : flash' = [flash EXCEPT ![target] = blob]
    /\ pc' = "verify"
    /\ UNCHANGED <<live, dirty, target, inited, misread, acked, tried>>

FlashCallFails_Cleared ==
    /\ pc \in {"erase", "write"}
    /\ \E blob \in CutShort : flash' = [flash EXCEPT ![target] = blob]
    /\ pc' = "ready"
    /\ dirty' = FALSE
    /\ UNCHANGED <<live, target, inited, misread, acked, tried>>

\* The erase or the write reports failure: storage_commit answers false.
FlashCallFails ==
    /\ pc \in {"erase", "write"}
    /\ \E blob \in CutShort : flash' = [flash EXCEPT ![target] = blob]
    /\ pc' = "ready"
    /\ UNCHANGED <<live, dirty, target, inited, misread, acked, tried>>

VerifyOk_Unread ==
    /\ pc = "verify"
    /\ dirty' = FALSE
    /\ acked' = [payload |-> live.payload, inited |-> inited]
    /\ pc' = "ready"
    /\ UNCHANGED <<flash, live, target, inited, misread, tried>>

VerifyOk ==
    /\ pc = "verify"
    /\ flash[target] = live
    /\ dirty' = FALSE
    /\ acked' = [payload |-> live.payload, inited |-> inited]
    /\ pc' = "ready"
    /\ UNCHANGED <<flash, live, target, inited, misread, tried>>

\* The read-back fails or differs: storage_commit answers false.
VerifyFails ==
    /\ pc = "verify"
    /\ pc' = "ready"
    /\ UNCHANGED <<flash, live, dirty, target, inited, misread, acked, tried>>

\* Power is lost at any moment, in the middle of an erase or a write too.
Crash ==
    /\ pc # "down"
    /\ \E blob \in CutShort : flash' = [flash EXCEPT ![target] = blob]
    /\ live' = Zeroed
    /\ dirty' = FALSE
    /\ inited' = FALSE
    /\ pc' = "down"
    /\ UNCHANGED <<target, misread, acked, tried>>

Next ==
    \/ PowerOn
    \/ StorageInit
    \/ \E p \in Payloads : Edit(p)
    \/ Revert
    \/ CommitClean
    \/ CommitTooBig
    \/ CommitBegin
    \/ EraseDone
    \/ WriteDone
    \/ FlashCallFails
    \/ VerifyOk
    \/ VerifyFails
    \/ Crash

Spec == Init /\ [][Next]_vars

-------------------------------------------------------------------------------
(***************************************************************************)
(* Properties.                                                             *)
(***************************************************************************)

\* The bank the next boot will load.
BootBank(b) == FirstGood(flash, b, Banks)

\* The configuration the next boot will load.
BootPayloadOf(f) == IF NoneGood(f, Banks) THEN Empty
                    ELSE f[CHOOSE b \in Banks : FirstGood(f, b, Banks)].payload
BootPayload == BootPayloadOf(flash)

\* A bank that passes the boot test holds, whole, a payload that some commit
\* set out to write: no interrupted or faulty write is ever taken for a
\* configuration (the magic, size and CRC tests of config.c:57-60).
NoTornBankValid ==
    \A b \in Banks : Valid(flash[b]) => flash[b].payload \in tried

OnFlash(p) == \E b \in Banks : Valid(flash[b]) /\ flash[b].payload = p

\* Once a commit of an initialised store has answered true, and until the next
\* commit starts, some valid bank holds its payload, over any number of crashes,
\* reverts, boots and reads that fail.
AckedOnFlash == acked # NoCommit /\ acked.inited => OnFlash(acked.payload)

\* A clear g_dirty makes storage_commit answer true at once (config.c:97), so
\* once the store is initialised and whenever the flag is clear, the RAM copy
\* must be on flash already, whichever commits failed and whatever was reverted
\* before; or it is the default configuration of a device that has none stored,
\* or whose banks could not all be read.
CleanIsStored ==
    pc = "ready" /\ inited /\ ~dirty =>
        \/ OnFlash(live.payload)
        \/ live.payload = Empty /\ (misread \/ NoneGood(flash, Banks))

\* The bank the next boot would load is never erased or written by a commit that
\* could read all banks, so one cut short anywhere leaves the last good
\* configuration in place (FIRMWARE_DEV_PLAN.md:631 "the active bank is
\* untouched"), also when the store was never initialised.
BootBankUntouched ==
    [][~misread => \A b \in Banks : BootBank(b) => flash'[b] = flash[b]]_vars

\* storage_commit is a save that happens at once or not at all, storage_init and
\* storage_revert restore the last save that happened, and nothing else changes
\* what is stored; reads that fail may spoil that, in the operation they fail in.
Store == INSTANCE AtomicStore WITH
            up <- pc # "down",
            working <- live.payload,
            durable <- BootPayload
ImplementsAtomicStore == Store!StoreSpec

\* What the A/B scheme is documented to give (config.h:4-7, "Two banks (A and
\* B) alternate on every save"): the configuration a commit acknowledged is the
\* one the next boot loads.
AckedIsNextBoot ==
    acked # NoCommit /\ acked.inited /\ ~misread => BootPayload = acked.payload

\* What config.h:54 says of storage_commit, "pick the other bank, erase it,
\* write, verify", for the firmware as it starts: what was written and verified
\* is a configuration that a boot finds.
AckedIsFound == acked # NoCommit /\ ~misread => OnFlash(acked.payload)
===============================================================================
