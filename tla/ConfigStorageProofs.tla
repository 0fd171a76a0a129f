------------------------- MODULE ConfigStorageProofs -------------------------
(***************************************************************************)
(* Proofs about ConfigStorage, for every number of banks, every set of     *)
(* payloads and every CRC function that its assumptions allow.             *)
(***************************************************************************)
EXTENDS ConfigStorage, TLAPS, WellFoundedInduction, FiniteSetTheorems

-------------------------------------------------------------------------------
(***************************************************************************)
(* Lemmas about banks and blobs.                                           *)
(***************************************************************************)

\* The next bank is a bank, and another one (there are at least two).
LEMMA NextBankFacts ==
    ASSUME NEW b \in Banks
    PROVE  NextBank(b) \in Banks /\ NextBank(b) # b
<1>1. CASE b = NumBanks - 1
    <2>1. NextBank(b) = 0
        BY <1>1, BanksAssumption DEF NextBank, Banks
    <2>2. QED
        BY <2>1, <1>1, BanksAssumption DEF Banks
<1>2. CASE b < NumBanks - 1
    <2>1. NextBank(b) = b + 1
        BY <1>2, BanksAssumption DEF NextBank, Banks
    <2>2. QED
        BY <2>1, <1>2, BanksAssumption DEF Banks
<1>3. QED
    BY <1>1, <1>2, BanksAssumption DEF Banks

\* Among banks of any kind there is a first one.
LEMMA FirstBank ==
    ASSUME NEW G, G \subseteq Banks, G # {}
    PROVE  \E b \in G : \A c \in G : ~(c < b)
<1> DEFINE Below(b) == 0 .. b
           T == {Below(b) : b \in G}
<1>1. T \subseteq FiniteSubsetsOf(Nat) /\ T # {}
    <2>1. \A b \in G : Below(b) \in FiniteSubsetsOf(Nat)
        BY FS_Interval, BanksAssumption DEF FiniteSubsetsOf, Banks
    <2>2. QED
        BY <2>1
<1>2. PICK s \in T : \A t \in T : ~(<<t, s>> \in StrictSubsetOrdering(Nat))
    <2>1. IsWellFoundedOn(StrictSubsetOrdering(Nat), FiniteSubsetsOf(Nat))
        BY FS_StrictSubsetOrderingWellFounded
    <2>2. HIDE DEF T
    <2>3. QED
        BY <1>1, <2>1, WFMin, Zenon
<1>3. PICK b \in G : s = Below(b)
    BY <1>2
<1>4. ASSUME NEW c \in G, c < b PROVE FALSE
    <2>1. Below(c) \subseteq Below(b) /\ b \in Below(b) /\ b \notin Below(c)
        BY <1>4, BanksAssumption DEF Banks
    <2>2. Below(c) \in SUBSET Nat /\ Below(b) \in SUBSET Nat
        BY BanksAssumption DEF Banks
    <2>3. Below(c) # Below(b)
        <3>1. HIDE DEF Below
        <3>2. QED
            BY <2>1
    <2>4. <<Below(c), Below(b)>> \in StrictSubsetOrdering(Nat)
        <3>1. HIDE DEF Below
        <3>2. QED
            BY <2>1, <2>2, <2>3 DEF StrictSubsetOrdering
    <2>5. QED
        BY <2>4, <1>2, <1>3, <1>4
<1>5. QED
    BY <1>4

\* The constant blobs are blobs.
LEMMA ConstantBlobs ==
    /\ Zeroed \in Blobs /\ FreshBlob \in Blobs /\ ErasedBlob \in Blobs
    /\ \A p \in Payloads : BlobOf(p) \in Blobs
<1>1. 0 \in 0 .. BootModulus - 1 /\ 1 \in 0 .. BootModulus - 1
    BY BootAssumption
<1>2. Zeroed \in Blobs /\ FreshBlob \in Blobs
    BY <1>1, PayloadAssumption DEF Zeroed, FreshBlob, Blobs, Stored
<1>3. ErasedBlob \in Blobs
    BY <1>1, CrcAssumption DEF ErasedBlob, Blobs, Stored
<1>4. \A p \in Payloads : BlobOf(p) \in Blobs
    BY <1>1, CrcAssumption DEF BlobOf, Blobs, Stored
<1>5. QED
    BY <1>2, <1>3, <1>4

\* A partly erased blob is a blob, and it is not valid: its header or its CRC
\* is gone.
LEMMA PartlyErasedFacts ==
    ASSUME NEW blob \in Blobs, NEW d \in PartlyErased(blob)
    PROVE  d \in Blobs /\ ~Valid(d)
<1>1. CASE d = [blob EXCEPT !.header = FALSE]
    BY <1>1 DEF Blobs, Valid
<1>2. CASE d = [blob EXCEPT !.crc = ErasedWord]
    BY <1>2, CrcAssumption DEF Blobs, Valid, Stored
<1>3. QED
    BY <1>1, <1>2 DEF PartlyErased

\* A partly written blob is a blob, and it is not valid: the CRC it should have
\* is that of its undamaged payload.
LEMMA PartlyWrittenFacts ==
    ASSUME NEW blob \in Blobs, blob.payload \in Payloads,
           blob.crc = Crc[blob.payload], NEW d \in PartlyWritten(blob)
    PROVE  d \in Blobs /\ ~Valid(d)
<1>1. CASE d = [blob EXCEPT !.payload = Garbage]
    BY <1>1, CrcAssumption DEF Blobs, Valid, Stored
<1>2. CASE d = [blob EXCEPT !.crc = ErasedWord]
    BY <1>2, CrcAssumption DEF Blobs, Valid, Stored
<1>3. CASE d = [blob EXCEPT !.payload = Garbage, !.crc = ErasedWord]
    BY <1>3, CrcAssumption DEF Blobs, Valid, Stored
<1>4. QED
    BY <1>1, <1>2, <1>3 DEF PartlyWritten

\* An erased bank is not valid.
LEMMA ErasedNotValid == ~Valid(ErasedBlob)
BY DEF Valid, ErasedBlob

-------------------------------------------------------------------------------
(***************************************************************************)
(* Type correctness and integrity hold together: that the RAM copy is a    *)
(* caller's payload depends on no damaged bank being taken for a good one. *)
(* While a commit runs, the blob it is writing is complete and its payload *)
(* is one of "tried".                                                      *)
(***************************************************************************)
InCommit == pc \in {"erase", "write", "verify"}

BlobReady ==
    InCommit => /\ live.payload \in tried \ Oversized
                /\ live.crc = Crc[live.payload]

Integrity == TypeOK /\ NoTornBankValid /\ BlobReady

\* An incomplete erase or write leaves the target bank as it was, or with the
\* whole new blob, or not valid.
LEMMA CutShortFacts ==
    ASSUME Integrity, NEW blob \in CutShort
    PROVE  /\ blob \in Blobs
           /\ Valid(blob) => \/ blob = flash[target]
                             \/ pc = "write" /\ blob = live
<1>1. flash[target] \in Blobs /\ live \in Blobs /\ live.payload \in Payloads
    BY DEF Integrity, TypeOK
<1>2. CASE pc = "erase"
    BY <1>1, <1>2, ConstantBlobs, PartlyErasedFacts, ErasedNotValid DEF CutShort
<1>3. CASE pc = "write"
    <2>1. live.crc = Crc[live.payload]
        BY <1>3 DEF Integrity, BlobReady, InCommit
    <2>2. blob \in {ErasedBlob, live} \cup PartlyWritten(live)
        BY <1>3 DEF CutShort
    <2>3. QED
        BY <1>1, <1>3, <2>1, <2>2, ConstantBlobs, PartlyWrittenFacts, ErasedNotValid
<1>4. CASE pc \notin {"erase", "write"}
    BY <1>1, <1>4 DEF CutShort
<1>5. QED
    BY <1>2, <1>3, <1>4

\* What storage_init puts in the RAM copy: a blob with a caller's payload.
LEMMA LoadFacts ==
    ASSUME Integrity, NEW readable \in SUBSET Banks, Load(readable)
    PROVE  live' \in Blobs /\ live'.payload \in Payloads /\ live'.header
<1>1. CASE \E b \in Banks : /\ FirstGood(flash, b, readable)
                            /\ live' = [flash[b] EXCEPT !.boot = (@ + 1) % BootModulus]
    <2>1. PICK b \in Banks : /\ FirstGood(flash, b, readable)
                             /\ live' = [flash[b] EXCEPT !.boot = (@ + 1) % BootModulus]
        BY <1>1
    <2>2. flash[b] \in Blobs /\ Valid(flash[b]) /\ flash[b].header
        BY <2>1 DEF Integrity, TypeOK, FirstGood, Valid
    <2>3. (flash[b].boot + 1) % BootModulus \in 0 .. BootModulus - 1
        BY <2>2, BootAssumption DEF Blobs
    <2>4. flash[b].payload \in Payloads
        BY <2>2 DEF Integrity, TypeOK, NoTornBankValid
    <2>5. QED
        BY <2>1, <2>2, <2>3, <2>4 DEF Blobs
<1>2. CASE live' = FreshBlob
    BY <1>2, ConstantBlobs, PayloadAssumption DEF FreshBlob
<1>3. QED
    BY <1>1, <1>2 DEF Load

LEMMA ReadableBanks == Readable \subseteq SUBSET Banks
BY DEF Readable

LEMMA TargetIsBank ==
    ASSUME NEW readable \in SUBSET Banks, NEW t, PickTarget(readable, t)
    PROVE  t \in Banks
BY NextBankFacts, BanksAssumption DEF PickTarget, Banks

LEMMA InitIntegrity == Init => Integrity
<1> SUFFICES ASSUME Init PROVE Integrity
    OBVIOUS
<1>1. WornBlob \in Blobs /\ ~Valid(WornBlob)
    <2>1. 1 \in 0 .. BootModulus - 1
        BY BootAssumption
    <2>2. QED
        BY <2>1, PayloadAssumption, CrcAssumption DEF WornBlob, Blobs, Stored, Valid
<1>2. \A b \in Banks : \/ flash[b] = ErasedBlob
                       \/ flash[b] = WornBlob
                       \/ \E p \in Payloads : flash[b] = BlobOf(p)
    BY DEF Init
<1>3. flash \in [Banks -> Blobs]
    <2>1. \A b \in Banks : flash[b] \in Blobs
        BY <1>1, <1>2, ConstantBlobs
    <2>2. flash = [b \in Banks |-> flash[b]]
        BY DEF Init
    <2>3. QED
        BY <2>1, <2>2
<1>4. \A b \in Banks : Valid(flash[b]) => flash[b].payload \in Payloads
    <2>1. \A p : BlobOf(p).payload = p
        BY DEF BlobOf
    <2>2. QED
        BY <1>1, <1>2, <2>1, ErasedNotValid
<1>5. tried \in SUBSET Payloads /\ NoTornBankValid
    BY <1>4 DEF Init, NoTornBankValid
<1>6. live \in Blobs /\ live.payload \in Payloads
    BY ConstantBlobs, PayloadAssumption DEF Init, Zeroed
<1>7. target \in Banks
    BY BanksAssumption DEF Init, Banks
<1>8. QED
    BY <1>3, <1>5, <1>6, <1>7 DEF Init, Integrity, TypeOK, Phases, BlobReady, InCommit

\* An incomplete call on the target bank keeps the banks' type and integrity.
LEMMA CutShortIntegrity ==
    ASSUME Integrity, NEW blob \in CutShort,
           flash' = [flash EXCEPT ![target] = blob], tried' = tried
    PROVE  flash' \in [Banks -> Blobs] /\ NoTornBankValid'
<1>1. /\ blob \in Blobs
      /\ Valid(blob) => blob = flash[target] \/ (pc = "write" /\ blob = live)
    BY CutShortFacts
<1>2. flash \in [Banks -> Blobs] /\ target \in Banks
    BY DEF Integrity, TypeOK
<1>3. pc = "write" => live.payload \in tried
    BY DEF Integrity, BlobReady, InCommit
<1>4. Valid(blob) => blob.payload \in tried
    BY <1>1, <1>2, <1>3 DEF Integrity, NoTornBankValid
<1>5. QED
    BY <1>1, <1>2, <1>4 DEF Integrity, NoTornBankValid

\* Every step preserves type correctness and integrity.
LEMMA IntegrityStep == Integrity /\ [Next]_vars => Integrity'
<1> SUFFICES ASSUME Integrity, [Next]_vars PROVE Integrity'
    OBVIOUS
<1> USE DEF Integrity, TypeOK, Phases
<1>1. CASE PowerOn
    <2>1. live' \in Blobs /\ live'.payload \in Payloads
        BY <1>1 DEF PowerOn, Uninitialised, Blobs, Stored
    <2>2. QED
        BY <1>1, <2>1 DEF PowerOn, NoTornBankValid, BlobReady, InCommit
<1>2. CASE StorageInit
    <2>1. live' \in Blobs /\ live'.payload \in Payloads /\ misread' \in BOOLEAN
        BY <1>2, LoadFacts, ReadableBanks DEF StorageInit, Reads
    <2>2. QED
        BY <1>2, <2>1 DEF StorageInit, NoTornBankValid, BlobReady, InCommit
<1>3. ASSUME NEW p \in Payloads, Edit(p) PROVE Integrity'
    <2>1. live' \in Blobs /\ live'.payload \in Payloads
        BY <1>3 DEF Edit, Blobs, Stored
    <2>2. QED
        BY <1>3, <2>1 DEF Edit, NoTornBankValid, BlobReady, InCommit
<1>4. CASE Revert
    <2>1. live' \in Blobs /\ live'.payload \in Payloads /\ misread' \in BOOLEAN
        BY <1>4, LoadFacts, ReadableBanks DEF Revert, Reads
    <2>2. QED
        BY <1>4, <2>1 DEF Revert, NoTornBankValid, BlobReady, InCommit
<1>5. CASE CommitClean \/ CommitTooBig \/ UNCHANGED vars
    BY <1>5 DEF CommitClean, CommitTooBig, vars, NoTornBankValid, BlobReady, InCommit
<1>6. CASE CommitBegin
    <2>1. target' \in Banks /\ misread' \in BOOLEAN
        BY <1>6, ReadableBanks, TargetIsBank DEF CommitBegin
    <2>2. /\ live' \in Blobs /\ live'.payload = live.payload
          /\ live'.crc = Crc[live.payload]
        BY <1>6, CrcAssumption DEF CommitBegin, Blobs, Stored
    <2>3. tried' \in SUBSET Payloads /\ tried \subseteq tried' /\ live.payload \in tried'
        BY <1>6 DEF CommitBegin
    <2>4. NoTornBankValid'
        BY <1>6, <2>3 DEF CommitBegin, NoTornBankValid
    <2>5. QED
        BY <1>6, <2>1, <2>2, <2>3, <2>4 DEF CommitBegin, BlobReady, InCommit
<1>7. CASE EraseDone
    <2>1. ErasedBlob \in CutShort
        BY <1>7 DEF EraseDone, CutShort
    <2>2. flash' \in [Banks -> Blobs] /\ NoTornBankValid'
        BY <1>7, <2>1, CutShortIntegrity DEF EraseDone
    <2>3. QED
        BY <1>7, <2>2 DEF EraseDone, BlobReady, InCommit
<1>8. CASE WriteDone
    <2>1. {live} \cup PartlyWritten(live) \subseteq CutShort
        BY <1>8 DEF WriteDone, CutShort
    <2>2. flash' \in [Banks -> Blobs] /\ NoTornBankValid'
        BY <1>8, <2>1, CutShortIntegrity DEF WriteDone
    <2>3. QED
        BY <1>8, <2>2 DEF WriteDone, BlobReady, InCommit
<1>9. CASE FlashCallFails
    <2>1. flash' \in [Banks -> Blobs] /\ NoTornBankValid'
        BY <1>9, CutShortIntegrity DEF FlashCallFails
    <2>2. QED
        BY <1>9, <2>1 DEF FlashCallFails, BlobReady, InCommit
<1>10. CASE VerifyOk
    BY <1>10 DEF VerifyOk, NoTornBankValid, BlobReady, InCommit
<1>11. CASE VerifyFails
    BY <1>11 DEF VerifyFails, NoTornBankValid, BlobReady, InCommit
<1>12. CASE Crash
    <2>1. flash' \in [Banks -> Blobs] /\ NoTornBankValid'
        BY <1>12, CutShortIntegrity DEF Crash
    <2>2. Zeroed \in Blobs /\ Zeroed.payload \in Payloads
        BY ConstantBlobs, PayloadAssumption DEF Zeroed
    <2>3. QED
        BY <1>12, <2>1, <2>2 DEF Crash, BlobReady, InCommit
<1>13. QED
    BY <1>1, <1>2, <1>3, <1>4, <1>5, <1>6, <1>7, <1>8, <1>9, <1>10, <1>11, <1>12
       DEF Next

LEMMA SpecIntegrity == Spec => []Integrity
BY InitIntegrity, IntegrityStep, PTL DEF Spec

\* The type invariant of the store.
THEOREM TypeCorrect == Spec => []TypeOK
BY SpecIntegrity, PTL DEF Integrity

\* No interrupted or faulty write is ever taken for a configuration, whatever
\* fails and whenever power is lost; bank reads that fail change nothing here.
THEOREM NoTornBankIsValid == Spec => []NoTornBankValid
BY SpecIntegrity, PTL DEF Integrity

-------------------------------------------------------------------------------
(***************************************************************************)
(* The bank the next boot loads.  In a commit that could read all banks,   *)
(* the bank being erased is not that one, and the bank being written is    *)
(* not valid: that is what makes the property inductive.                   *)
(***************************************************************************)
SpareTarget ==
    /\ pc = "erase" /\ ~misread => ~BootBank(target)
    /\ pc = "write" /\ ~misread => ~Valid(flash[target])

\* The bank a commit picks is not the one the next boot would load.
LEMMA PickedIsSpare ==
    ASSUME NEW t, PickTarget(Banks, t)
    PROVE  ~FirstGood(flash, t, Banks)
<1>1. CASE \E b \in Banks : FirstGood(flash, b, Banks) /\ t = NextBank(b)
    <2>1. PICK b \in Banks : FirstGood(flash, b, Banks) /\ t = NextBank(b)
        BY <1>1
    <2>2. t \in Banks /\ t # b
        BY <2>1, NextBankFacts
    <2>3. b < t \/ t < b
        BY <2>2, BanksAssumption DEF Banks
    <2>4. QED
        BY <2>1, <2>2, <2>3 DEF FirstGood
<1>2. CASE NoneGood(flash, Banks)
    BY <1>2 DEF NoneGood, FirstGood
<1>3. QED
    BY <1>1, <1>2 DEF PickTarget

LEMMA SpareTargetStep ==
    ASSUME Integrity, SpareTarget, [Next]_vars
    PROVE  SpareTarget'
<1> USE DEF SpareTarget, BootBank
<1>2. CASE CommitBegin
    <2>1. ~misread' => PickTarget(Banks, target')
        BY <1>2 DEF CommitBegin
    <2>2. ~misread' => ~FirstGood(flash, target', Banks)
        BY <2>1, PickedIsSpare
    <2>3. QED
        BY <1>2, <2>2 DEF CommitBegin
<1>3. CASE EraseDone
    BY <1>3, ErasedNotValid DEF EraseDone, Integrity, TypeOK
<1>4. CASE ~CommitBegin /\ ~EraseDone
    <2>1. /\ pc' \in {"erase", "write"} => UNCHANGED <<pc, flash, target, misread>>
        BY <1>4 DEF Next, vars, PowerOn, StorageInit, Edit, Revert, CommitClean,
            CommitTooBig, WriteDone, FlashCallFails, VerifyOk, VerifyFails, Crash
    <2>2. QED
        BY <2>1
<1>5. QED
    BY <1>2, <1>3, <1>4

\* A step changes at most the target bank, and only while erasing or writing.
LEMMA OnlyTargetChanges ==
    ASSUME Integrity, [Next]_vars
    PROVE  /\ pc \notin {"erase", "write"} => flash' = flash
           /\ \A b \in Banks : b # target => flash'[b] = flash[b]
<1>1. flash \in [Banks -> Blobs]
    BY DEF Integrity, TypeOK
<1>2. CASE EraseDone \/ WriteDone \/ FlashCallFails
    BY <1>1, <1>2 DEF EraseDone, WriteDone, FlashCallFails
<1>3. CASE Crash
    <2>1. PICK blob \in CutShort : flash' = [flash EXCEPT ![target] = blob]
        BY <1>3 DEF Crash
    <2>2. pc \notin {"erase", "write"} => blob = flash[target]
        BY <2>1 DEF CutShort
    <2>3. QED
        BY <1>1, <2>1, <2>2
<1>4. CASE ~(EraseDone \/ WriteDone \/ FlashCallFails \/ Crash)
    BY <1>4 DEF Next, vars, PowerOn, StorageInit, Edit, Revert, CommitClean,
        CommitTooBig, CommitBegin, VerifyOk, VerifyFails
<1>5. QED
    BY <1>2, <1>3, <1>4

\* A commit that could read all banks never touches the bank the next boot would
\* load, so power lost at any moment of it leaves that configuration in place,
\* whether the store was initialised or not.  (A commit that fails to read an
\* intact bank may choose just that one for erasing.)
THEOREM BootBankSafe == Spec => BootBankUntouched
<1>1. Init => SpareTarget
    BY DEF Init, SpareTarget
<1>2. Integrity /\ SpareTarget /\ [Next]_vars => SpareTarget'
    BY SpareTargetStep
<1>3. Integrity /\ SpareTarget /\ [Next]_vars
        => [~misread => \A b \in Banks : BootBank(b) => flash'[b] = flash[b]]_vars
    <2> SUFFICES ASSUME Integrity, SpareTarget, [Next]_vars, ~misread,
                        NEW b \in Banks, BootBank(b)
                 PROVE  flash'[b] = flash[b]
        OBVIOUS
    <2>1. CASE b = target
        <3>1. pc \notin {"erase", "write"}
            BY <2>1 DEF SpareTarget, BootBank, FirstGood
        <3>2. QED
            BY <3>1, OnlyTargetChanges
    <2>2. CASE b # target
        BY <2>2, OnlyTargetChanges
    <2>3. QED
        BY <2>1, <2>2
<1>4. QED
    BY <1>1, <1>2, <1>3, SpecIntegrity, PTL DEF Spec, BootBankUntouched

-------------------------------------------------------------------------------
(***************************************************************************)
(* What an answer of true is worth.  A commit in progress keeps g_dirty    *)
(* set and has withdrawn the earlier answer; the header of the RAM copy is *)
(* good from storage_init on, so what is read back equal to it is valid.   *)
(***************************************************************************)
LiveUsable ==
    /\ inited => live.header
    /\ pc = "down" => ~inited

Pending == InCommit => dirty /\ acked = NoCommit

Honest == LiveUsable /\ Pending /\ AckedOnFlash /\ CleanIsStored

\* What storage_init loads is on flash, or is the default when nothing is that
\* it could read.
LEMMA LoadIsStored ==
    ASSUME Integrity, NEW readable \in SUBSET Banks, Load(readable)
    PROVE  \/ OnFlash(live'.payload)
           \/ live'.payload = Empty /\ (readable # Banks \/ NoneGood(flash, Banks))
<1>1. CASE \E b \in Banks : /\ FirstGood(flash, b, readable)
                            /\ live' = [flash[b] EXCEPT !.boot = (@ + 1) % BootModulus]
    <2>1. PICK b \in Banks : /\ FirstGood(flash, b, readable)
                             /\ live' = [flash[b] EXCEPT !.boot = (@ + 1) % BootModulus]
        BY <1>1
    <2>2. live'.payload = flash[b].payload
        BY <2>1 DEF Integrity, TypeOK, Blobs
    <2>3. QED
        BY <2>1, <2>2 DEF FirstGood, OnFlash
<1>2. CASE NoneGood(flash, readable) /\ live' = FreshBlob
    BY <1>2 DEF FreshBlob
<1>3. QED
    BY <1>1, <1>2 DEF Load

\* The answers stand as long as the banks and the history do.
LEMMA AckedStable ==
    ASSUME AckedOnFlash, flash' = flash, acked' = acked
    PROVE  AckedOnFlash'
BY DEF AckedOnFlash, OnFlash

LEMMA HonestStep ==
    ASSUME Integrity, Honest, [Next]_vars
    PROVE  Honest'
<1> USE DEF Honest, LiveUsable, Pending, InCommit
<1>2. CASE PowerOn
    BY <1>2, AckedStable DEF PowerOn, CleanIsStored
<1>3. CASE StorageInit
    <2>1. live'.header
        BY <1>3, LoadFacts, ReadableBanks DEF StorageInit, Reads
    <2>2. QED
        BY <1>3, <2>1, AckedStable DEF StorageInit, CleanIsStored
<1>4. ASSUME NEW p \in Payloads, Edit(p) PROVE Honest'
    <2>1. live'.header = live.header
        BY <1>4 DEF Edit, Integrity, TypeOK, Blobs
    <2>2. QED
        BY <1>4, <2>1, AckedStable DEF Edit, CleanIsStored
<1>5. CASE Revert
    <2>1. PICK readable \in SUBSET Banks : Load(readable) /\ misread' = (readable # Banks)
        BY <1>5, ReadableBanks DEF Revert, Reads
    <2>2. live'.header
        BY <2>1, LoadFacts
    <2>3. \/ OnFlash(live'.payload)
          \/ live'.payload = Empty /\ (misread' \/ NoneGood(flash, Banks))
        BY <2>1, LoadIsStored
    <2>4. CleanIsStored'
        BY <1>5, <2>3 DEF Revert, CleanIsStored, OnFlash, NoneGood
    <2>5. QED
        BY <1>5, <2>2, <2>4, AckedStable DEF Revert
<1>6. CASE CommitClean \/ CommitTooBig \/ UNCHANGED vars
    BY <1>6, AckedStable DEF CommitClean, CommitTooBig, vars, CleanIsStored, OnFlash, NoneGood
<1>7. CASE CommitBegin
    <2>1. live'.header = live.header
        BY <1>7 DEF CommitBegin, Integrity, TypeOK, Blobs
    <2>2. QED
        BY <1>7, <2>1 DEF CommitBegin, AckedOnFlash, CleanIsStored
<1>8. CASE EraseDone \/ WriteDone \/ FlashCallFails \/ VerifyFails
    BY <1>8 DEF EraseDone, WriteDone, FlashCallFails, VerifyFails, AckedOnFlash, CleanIsStored
<1>9. CASE VerifyOk
    <2>1. inited => Valid(flash[target]) /\ target \in Banks
        BY <1>9 DEF VerifyOk, Integrity, BlobReady, TypeOK, Valid
    <2>2. (inited => OnFlash(live.payload)') /\ live' = live
        BY <1>9, <2>1 DEF VerifyOk, OnFlash
    <2>3. acked'.inited = inited /\ acked'.payload = live.payload
        BY <1>9 DEF VerifyOk
    <2>4. QED
        BY <1>9, <2>2, <2>3 DEF VerifyOk, AckedOnFlash, CleanIsStored, OnFlash
<1>10. CASE Crash
    <2>1. AckedOnFlash'
        <3>1. CASE pc \in {"erase", "write"}
            BY <1>10, <3>1 DEF Crash, AckedOnFlash
        <3>2. CASE pc \notin {"erase", "write"}
            BY <1>10, <3>2, OnlyTargetChanges, AckedStable DEF Crash
        <3>3. QED
            BY <3>1, <3>2
    <2>2. QED
        BY <1>10, <2>1 DEF Crash, CleanIsStored, Zeroed
<1>11. QED
    BY <1>2, <1>3, <1>4, <1>5, <1>6, <1>7, <1>8, <1>9, <1>10 DEF Next

LEMMA SpecHonest == Spec => []Honest
<1>1. Init => Honest
    BY DEF Init, Honest, LiveUsable, Pending, InCommit, AckedOnFlash, CleanIsStored, Zeroed
<1>2. Integrity /\ Honest /\ [Next]_vars => Honest'
    BY HonestStep
<1>3. QED
    BY <1>1, <1>2, SpecIntegrity, PTL DEF Spec

\* A payload whose commit answered true after storage_init stays on flash, whole,
\* until the next commit starts, through crashes, reverts and failing reads.
\* (Without storage_init it need not be: the run storage_uninitialised.)
THEOREM AckedStaysOnFlash == Spec => []AckedOnFlash
BY SpecHonest, PTL DEF Honest

\* In an initialised store a clear g_dirty never hides a configuration that is
\* not on flash, but for a default that a failing read has put in its place.
THEOREM CleanMeansStored == Spec => []CleanIsStored
BY SpecHonest, PTL DEF Honest

-------------------------------------------------------------------------------
(***************************************************************************)
(* Refinement.  The durable configuration is that of the first valid bank. *)
(* It changes only when a write of the whole blob completes on a bank that *)
(* was not valid; that step is the abstract save, every other step of a    *)
(* commit a stutter.                                                       *)
(***************************************************************************)

LEMMA FirstOrNone ==
    ASSUME NEW f
    PROVE  NoneGood(f, Banks) \/ \E b \in Banks : FirstGood(f, b, Banks)
<1> DEFINE G == {b \in Banks : Valid(f[b])}
<1>1. CASE G = {}
    BY <1>1 DEF NoneGood
<1>2. CASE G # {}
    <2>1. PICK b \in G : \A c \in G : ~(c < b)
        BY <1>2, FirstBank
    <2>2. FirstGood(f, b, Banks)
        BY <2>1 DEF FirstGood
    <2>3. QED
        BY <2>2
<1>3. QED
    BY <1>1, <1>2

LEMMA BootOfFirst ==
    ASSUME NEW f, NEW b \in Banks, FirstGood(f, b, Banks)
    PROVE  BootPayloadOf(f) = f[b].payload
<1>1. ASSUME NEW c \in Banks, FirstGood(f, c, Banks) PROVE c = b
    <2>1. ~(b < c) /\ ~(c < b)
        BY <1>1 DEF FirstGood
    <2>2. QED
        BY <2>1, BanksAssumption DEF Banks
<1>2. b = CHOOSE c \in Banks : FirstGood(f, c, Banks)
    BY <1>1
<1>3. ~NoneGood(f, Banks)
    BY DEF NoneGood, FirstGood
<1>4. QED
    BY <1>2, <1>3 DEF BootPayloadOf

LEMMA BootOfNone ==
    ASSUME NEW f, NoneGood(f, Banks)
    PROVE  BootPayloadOf(f) = Empty
BY DEF BootPayloadOf

\* Putting something that is not valid in a spare bank changes nothing.
LEMMA SpareIsIrrelevant ==
    ASSUME NEW f \in [Banks -> Blobs], NEW t \in Banks, ~FirstGood(f, t, Banks),
           NEW blob, ~Valid(blob)
    PROVE  BootPayloadOf([f EXCEPT ![t] = blob]) = BootPayloadOf(f)
<1> DEFINE g == [f EXCEPT ![t] = blob]
<1>1. \A c \in Banks : g[c] = IF c = t THEN blob ELSE f[c]
    OBVIOUS
<1>2. CASE NoneGood(f, Banks)
    <2>1. NoneGood(g, Banks)
        BY <1>1, <1>2 DEF NoneGood
    <2>2. QED
        BY <1>2, <2>1, BootOfNone
<1>3. ASSUME NEW b \in Banks, FirstGood(f, b, Banks)
      PROVE  BootPayloadOf(g) = BootPayloadOf(f)
    <2>1. b # t /\ g[b] = f[b]
        BY <1>1, <1>3
    <2>2. FirstGood(g, b, Banks)
        BY <1>1, <1>3, <2>1 DEF FirstGood
    <2>3. QED
        BY <1>3, <2>1, <2>2, BootOfFirst
<1>4. QED
    BY <1>2, <1>3, FirstOrNone

\* Putting a valid blob in a bank that was not valid saves its payload, or
\* changes nothing when a bank before it is valid.
LEMMA WholeWriteSaves ==
    ASSUME NEW f \in [Banks -> Blobs], NEW t \in Banks, ~Valid(f[t]),
           NEW blob, Valid(blob)
    PROVE  BootPayloadOf([f EXCEPT ![t] = blob]) \in {BootPayloadOf(f), blob.payload}
<1> DEFINE g == [f EXCEPT ![t] = blob]
<1>1. \A c \in Banks : g[c] = IF c = t THEN blob ELSE f[c]
    OBVIOUS
<1>2. CASE FirstGood(g, t, Banks)
    <2>1. g[t] = blob
        BY <1>1
    <2>2. QED
        BY <1>2, <2>1, BootOfFirst
<1>3. CASE ~FirstGood(g, t, Banks)
    <2>1. PICK c \in Banks : c < t /\ Valid(g[c])
        BY <1>1, <1>3 DEF FirstGood
    <2>2. c # t
        BY <2>1, BanksAssumption DEF Banks
    <2>3. Valid(f[c])
        BY <1>1, <2>1, <2>2
    <2>4. PICK b \in Banks : FirstGood(f, b, Banks)
        BY <2>3, FirstOrNone DEF NoneGood
    <2>5. ~(c < b) /\ b # t
        BY <2>3, <2>4 DEF FirstGood
    <2>6. b < t
        BY <2>1, <2>5, BanksAssumption DEF Banks
    <2>7. FirstGood(g, b, Banks) /\ g[b] = f[b]
        <3>1. \A d \in Banks : d < b => d # t
            BY <2>6, BanksAssumption DEF Banks
        <3>2. QED
            BY <1>1, <2>4, <2>5, <3>1 DEF FirstGood
    <2>8. QED
        BY <2>4, <2>7, BootOfFirst
<1>4. QED
    BY <1>2, <1>3

\* An incomplete call on the target bank leaves the durable configuration as
\* it was or, while writing, installs the RAM copy.
LEMMA CutShortDurable ==
    ASSUME Integrity, SpareTarget, NEW blob \in CutShort,
           ~misread, flash' = [flash EXCEPT ![target] = blob]
    PROVE  \/ BootPayload' = BootPayload
           \/ pc = "write" /\ BootPayload' = live.payload
<1>1. flash \in [Banks -> Blobs] /\ target \in Banks
    BY DEF Integrity, TypeOK
<1>2. CASE blob = flash[target]
    <2>1. flash' = flash
        BY <1>1, <1>2
    <2>2. QED
        BY <2>1 DEF BootPayload
<1>3. CASE blob # flash[target] /\ ~Valid(blob)
    <2>1. pc \in {"erase", "write"}
        BY <1>3 DEF CutShort
    <2>2. ~FirstGood(flash, target, Banks)
        BY <2>1 DEF SpareTarget, BootBank, FirstGood
    <2>3. QED
        BY <1>1, <1>3, <2>2, SpareIsIrrelevant DEF BootPayload
<1>4. CASE blob # flash[target] /\ Valid(blob)
    <2>1. pc = "write" /\ blob = live
        BY <1>4, CutShortFacts
    <2>2. ~Valid(flash[target])
        BY <2>1 DEF SpareTarget
    <2>3. QED
        BY <1>1, <1>4, <2>1, <2>2, WholeWriteSaves DEF BootPayload
<1>5. QED
    BY <1>2, <1>3, <1>4

\* What a boot or a revert loads is the durable configuration.
LEMMA LoadIsDurable ==
    ASSUME Integrity, Load(Banks)
    PROVE  live'.payload = BootPayload
<1>1. CASE \E b \in Banks : /\ FirstGood(flash, b, Banks)
                            /\ live' = [flash[b] EXCEPT !.boot = (@ + 1) % BootModulus]
    <2>1. PICK b \in Banks : /\ FirstGood(flash, b, Banks)
                             /\ live' = [flash[b] EXCEPT !.boot = (@ + 1) % BootModulus]
        BY <1>1
    <2>2. live'.payload = flash[b].payload
        BY <2>1 DEF Integrity, TypeOK, Blobs
    <2>3. QED
        BY <2>1, <2>2, BootOfFirst DEF BootPayload
<1>2. CASE NoneGood(flash, Banks) /\ live' = FreshBlob
    BY <1>2, BootOfNone DEF FreshBlob, BootPayload
<1>3. QED
    BY <1>1, <1>2 DEF Load

BootTyped == BootPayload \in Payloads

LEMMA BootPayloadType == Integrity => BootPayload \in Payloads
<1> SUFFICES ASSUME Integrity PROVE BootPayload \in Payloads
    OBVIOUS
<1>1. CASE NoneGood(flash, Banks)
    BY <1>1, BootOfNone, PayloadAssumption DEF BootPayload
<1>2. ASSUME NEW b \in Banks, FirstGood(flash, b, Banks) PROVE BootPayload \in Payloads
    <2>1. flash[b].payload \in Payloads
        BY <1>2 DEF FirstGood, Integrity, NoTornBankValid, TypeOK
    <2>2. QED
        BY <1>2, <2>1, BootOfFirst DEF BootPayload
<1>3. QED
    BY <1>1, <1>2, FirstOrNone

\* The abstract view of a step that leaves the banks alone.
LEMMA BootPayloadStable == flash' = flash => BootPayload' = BootPayload
BY DEF BootPayload

\* Reading the banks is a reload, or one that misses something.
LEMMA ReadsRefines ==
    ASSUME Integrity, Reads, pc = "ready", UNCHANGED <<flash, pc>>
    PROVE  Store!Reload \/ Store!ReloadMisread
<1>1. PICK readable \in SUBSET Banks : Load(readable) /\ misread' = (readable # Banks)
    BY ReadableBanks DEF Reads
<1>2. live'.payload \in Payloads
    BY <1>1, LoadFacts
<1>3. CASE readable = Banks
    <2>1. live'.payload = BootPayload
        BY <1>1, <1>3, LoadIsDurable
    <2>2. QED
        BY <1>1, <1>3, <2>1, BootPayloadStable DEF Store!Reload
<1>4. CASE readable # Banks
    BY <1>1, <1>2, <1>4, BootPayloadStable DEF Store!ReloadMisread
<1>5. QED
    BY <1>3, <1>4

\* Every step of the store is a step of the abstract store, or a stutter.
LEMMA StepRefines ==
    ASSUME Integrity, BootPayload' \in Payloads, SpareTarget, [Next]_vars
    PROVE  [Store!StoreNext]_(Store!storeVars)
<1> USE DEF Store!StoreNext, Store!storeVars
<1>2. CASE PowerOn
    <2>1. live'.payload \in Payloads
        BY <1>2 DEF PowerOn, Uninitialised
    <2>2. Store!Start
        BY <1>2, <2>1, BootPayloadStable DEF PowerOn, Store!Start
    <2>3. QED
        BY <2>2
<1>3. CASE StorageInit
    BY <1>3, ReadsRefines DEF StorageInit
<1>4. ASSUME NEW p \in Payloads, Edit(p) PROVE [Store!StoreNext]_(Store!storeVars)
    <2>1. live'.payload = p
        BY <1>4 DEF Edit, Integrity, TypeOK, Blobs
    <2>2. Store!Change(p)
        BY <1>4, <2>1, BootPayloadStable DEF Edit, Store!Change
    <2>3. QED
        BY <2>2
<1>5. CASE Revert
    BY <1>5, ReadsRefines DEF Revert
<1>6. CASE CommitClean \/ CommitTooBig \/ UNCHANGED vars
    BY <1>6, BootPayloadStable DEF CommitClean, CommitTooBig, vars
<1>7. CASE CommitBegin
    <2>1. live'.payload = live.payload
        BY <1>7 DEF CommitBegin, Integrity, TypeOK, Blobs
    <2>2. misread' \in BOOLEAN
        BY <1>7 DEF CommitBegin
    <2>3. Store!BeginSave
        BY <1>7, <2>1, <2>2, BootPayloadStable DEF CommitBegin, Store!BeginSave
    <2>4. QED
        BY <2>3
<1>8. CASE EraseDone \/ WriteDone \/ FlashCallFails
    <2>1. \E blob \in CutShort : flash' = [flash EXCEPT ![target] = blob]
        BY <1>8 DEF EraseDone, WriteDone, FlashCallFails, CutShort
    <2>2. /\ pc # "down" /\ pc' # "down"
          /\ live' = live /\ misread' = misread
        BY <1>8 DEF EraseDone, WriteDone, FlashCallFails
    <2>3. CASE ~misread
        <3>1. \/ BootPayload' = BootPayload
              \/ BootPayload' = live.payload
            BY <2>1, <2>3, CutShortDurable
        <3>2. QED
            BY <2>2, <3>1 DEF Store!Save
    <2>4. CASE misread
        <3>1. Store!SaveMisread
            BY <2>2, <2>4 DEF Store!SaveMisread
        <3>2. QED
            BY <3>1
    <2>5. QED
        BY <2>3, <2>4
<1>9. CASE VerifyOk \/ VerifyFails
    BY <1>9, BootPayloadStable DEF VerifyOk, VerifyFails
<1>10. CASE Crash
    <2>1. \E blob \in CutShort : flash' = [flash EXCEPT ![target] = blob]
        BY <1>10 DEF Crash
    <2>2. ~misread => \/ BootPayload' = BootPayload
                      \/ pc = "write" /\ BootPayload' = live.payload
        BY <2>1, CutShortDurable
    <2>3. /\ pc # "down" /\ pc' = "down" /\ misread' = misread
          /\ live'.payload = Empty
        BY <1>10 DEF Crash, Zeroed
    <2>4. Store!PowerLoss
        BY <2>2, <2>3 DEF Store!PowerLoss
    <2>5. QED
        BY <2>4
<1>11. QED
    BY <1>2, <1>3, <1>4, <1>5, <1>6, <1>7, <1>8, <1>9, <1>10 DEF Next

\* The banked, interruptible commit implements the store that saves in one
\* step, over any number of failures and losses of power, initialised or not.
THEOREM StorageRefinesAtomicStore == Spec => ImplementsAtomicStore
<1>1. Init => SpareTarget
    BY DEF Init, SpareTarget
<1>2. Integrity /\ SpareTarget /\ [Next]_vars => SpareTarget'
    BY SpareTargetStep
<1>3. Init => Store!StoreInit
    BY InitIntegrity, BootPayloadType DEF Init, Zeroed, Store!StoreInit
<1>4. Integrity /\ BootTyped' /\ SpareTarget /\ [Next]_vars
        => [Store!StoreNext]_(Store!storeVars)
    BY StepRefines DEF BootTyped
<1>5. Integrity => BootTyped
    BY BootPayloadType DEF BootTyped
<1>6. QED
    BY <1>1, <1>2, <1>3, <1>4, <1>5, SpecIntegrity, PTL
       DEF Spec, ImplementsAtomicStore, Store!StoreSpec
===============================================================================
