---------------------------- MODULE FlasherProofs ----------------------------
(***************************************************************************)
(* Theorems about the web flasher, for any number of clicks, chunks,       *)
(* binaries and sessions; the last one is about a user who waits for one   *)
(* thing to end before starting the next, the others about any user.       *)
(***************************************************************************)
EXTENDS Flasher, SequenceTheorems, TLAPS

Exchanges == [by : Clicks \cup {"flash"}, on : Clicks, key : Keys]
Cells == {Erased, Junk} \cup (Binaries \X Keys)

\* What keeps unchecked binaries off the device: none is ever chosen or
\* downloaded for good, and a flash that is under way has a checked one.
Checked ==
    /\ fwData \in Good \cup {None}
    /\ fpc \in Exchanging => fw \in Good
    /\ OnlyCheckedFirmware

IInv == TypeOK /\ Checked

-------------------------------------------------------------------------------
(***************************************************************************)
(* The helpers the handlers share.                                         *)
(***************************************************************************)

\* A method call that reaches the device queues a well-formed exchange.
LEMMA RequestType ==
    ASSUME NEW by \in Clicks \cup {"flash"}, NEW o,
           NEW objs \in [Clicks -> [device : 0 .. MaxSessions, key : Keys]],
           o \in Clicks
    PROVE  Request(by, o, objs) \in Exchanges
  BY DEF Request, Exchanges

\* An answered exchange is well-formed, and so are those that stay queued.
LEMMA QueueType ==
    ASSUME queue \in Seq(Exchanges), queue # <<>>
    PROVE  Head(queue) \in Exchanges /\ Tail(queue) \in Seq(Exchanges)
  BY HeadTailProperties

\* doConnect going on keeps the types, whatever object isp has become.
LEMMA ConnectGoesOnType ==
    ASSUME TypeOK, NEW c \in Clicks, NEW method \in {"identify", "config", "key"},
           NEW objs \in [Clicks -> [device : 0 .. MaxSessions, key : Keys]],
           NEW rest \in Seq(Exchanges),
           ConnectGoesOn(c, method, objs, rest)
    PROVE  /\ isp' \in Clicks \cup {None}
           /\ cpc' \in [Clicks -> Connecting \cup {"unused", "done", "failed"}]
           /\ queue' \in Seq(Exchanges)
  <1>1. CASE Usable(isp, objs)
    <2>1. isp \in Clicks
      BY <1>1 DEF Usable, TypeOK
    <2>2. Request(c, isp, objs) \in Exchanges
      BY <2>1, RequestType
    <2>3. queue' = Append(rest, Request(c, isp, objs))
      BY <1>1 DEF ConnectGoesOn
    <2>4. queue' \in Seq(Exchanges)
      BY <2>2, <2>3, AppendProperties
    <2> QED
      BY <1>1, <2>4 DEF ConnectGoesOn, TypeOK, Connecting
  <1>2. CASE ~Usable(isp, objs)
    BY <1>2 DEF ConnectGoesOn, TypeOK
  <1> QED
    BY <1>1, <1>2

\* doFlash going on, or failing, keeps the types.
LEMMA FlashGoesOnType ==
    ASSUME TypeOK, NEW step \in Exchanging, NEW at \in Chunks,
           NEW o \in Clicks \cup {None}, NEW rest \in Seq(Exchanges),
           FlashGoesOn(step, at, o, rest)
    PROVE  /\ fpc' \in {step, "error"}
           /\ chunk' \in Chunks
           /\ queue' \in Seq(Exchanges)
  <1>1. 1 \in Chunks
    BY FlasherAssumption DEF Chunks
  <1>2. CASE Usable(o, obj)
    <2>1. o \in Clicks /\ obj \in [Clicks -> [device : 0 .. MaxSessions, key : Keys]]
      BY <1>2 DEF Usable, TypeOK
    <2>2. Request("flash", o, obj) \in Exchanges
      BY <2>1, RequestType
    <2>3. queue' = Append(rest, Request("flash", o, obj))
      BY <1>2 DEF FlashGoesOn
    <2>4. queue' \in Seq(Exchanges)
      BY <2>2, <2>3, AppendProperties
    <2> QED
      BY <1>2, <2>4 DEF FlashGoesOn
  <1>3. CASE ~Usable(o, obj)
    BY <1>1, <1>3 DEF FlashGoesOn
  <1> QED
    BY <1>2, <1>3

-------------------------------------------------------------------------------
(***************************************************************************)
(* The invariant, handler by handler.                                      *)
(***************************************************************************)
LEMMA InitHolds == Init => IInv
  <1> SUFFICES ASSUME Init PROVE IInv
    OBVIOUS
  <1>1. 1 \in Chunks /\ 0 \in 0 .. MaxSessions /\ 1 \in 1 .. MaxSessions
    BY FlasherAssumption DEF Chunks
  <1>2. queue \in Seq(Exchanges)
    BY EmptySeq DEF Init
  <1>3. TypeOK
    BY <1>1, <1>2 DEF Init, TypeOK, NoObjects, Unused, Binaries, Keys, Exchanges
  <1>4. Checked
    BY FlasherAssumption DEF Init, Checked, OnlyCheckedFirmware, Exchanging, Keys
  <1> QED
    BY <1>3, <1>4 DEF IInv

\* Connecting touches neither the firmware nor a flash that is under way.
LEMMA ConnectSteps ==
    ASSUME IInv, NEW c \in Clicks, NEW k \in Keys,
           \/ ClickConnect(c) \/ Opened(c) \/ OpenFails(c)
           \/ Identified(c) \/ Configured(c) \/ ConnectRefused(c)
           \/ KeySet(c, k)
    PROVE  IInv'
  <1> DEFINE Objs == [Clicks -> [device : 0 .. MaxSessions, key : Keys]]
  <1>1. TypeOK /\ queue \in Seq(Exchanges) /\ obj \in Objs
    BY DEF IInv, TypeOK, Exchanges
  <1>2. queue # <<>> => Head(queue) \in Exchanges /\ Tail(queue) \in Seq(Exchanges)
    BY <1>1, QueueType
  <1>3. obj' \in Objs
    <2>1. CASE Opened(c)
      BY <1>1, <2>1, FlasherAssumption DEF Opened, TypeOK
    <2>2. CASE KeySet(c, k)
      BY <1>1, <1>2, <2>2 DEF KeySet, Answered, Exchanges
    <2>3. CASE ~Opened(c) /\ ~KeySet(c, k)
      BY <1>1, <2>3 DEF ClickConnect, OpenFails, Identified, Configured, ConnectRefused
    <2> QED
      BY <2>1, <2>2, <2>3
  <1>4. /\ isp' \in Clicks \cup {None}
        /\ cpc' \in [Clicks -> Connecting \cup {"unused", "done", "failed"}]
        /\ queue' \in Seq(Exchanges)
    <2>1. CASE Opened(c)
      <3>1. ConnectGoesOn(c, "identify", obj', queue)
        BY <2>1 DEF Opened
      <3> QED
        BY <1>1, <1>3, <3>1, ConnectGoesOnType
    <2>2. CASE Identified(c)
      <3>1. ConnectGoesOn(c, "config", obj, Tail(queue)) /\ queue # <<>>
        BY <2>2 DEF Identified, Answered
      <3> QED
        BY <1>1, <1>2, <3>1, ConnectGoesOnType
    <2>3. CASE Configured(c)
      <3>1. ConnectGoesOn(c, "key", obj, Tail(queue)) /\ queue # <<>>
        BY <2>3 DEF Configured, Answered
      <3> QED
        BY <1>1, <1>2, <3>1, ConnectGoesOnType
    <2>4. CASE ClickConnect(c) \/ OpenFails(c)
      BY <1>1, <2>4 DEF ClickConnect, OpenFails, TypeOK, Connecting
    <2>5. CASE ConnectRefused(c)
      BY <1>1, <1>2, <2>5 DEF ConnectRefused, TypeOK
    <2>6. CASE KeySet(c, k)
      BY <1>1, <1>2, <2>6 DEF KeySet, Answered, TypeOK
    <2> QED
      BY <2>1, <2>2, <2>3, <2>4, <2>5, <2>6
  <1>5. /\ UNCHANGED <<fw, chunk, fwData, reading, manifest, card>>
        /\ UNCHANGED <<plugged, session, flash>>
        /\ overlapped' \in BOOLEAN
        /\ devKey' \in {devKey, k}
        /\ fpc' = fpc \/ fpc' = "offered"
    BY <1>1 DEF ClickConnect, Opened, OpenFails, Identified, Configured, ConnectRefused,
           KeySet, flashing, choice, firmware, device, Starts, TypeOK
  <1>6. TypeOK'
    BY <1>1, <1>3, <1>4, <1>5 DEF TypeOK, Exchanges
  <1>7. Checked'
    BY <1>5 DEF IInv, Checked, OnlyCheckedFirmware, Exchanging
  <1> QED
    BY <1>6, <1>7 DEF IInv

\* The manifest, the file input and its reader: a file is kept only if checked.
LEMMA ChoiceSteps ==
    ASSUME IInv, ManifestLoaded \/ \E f \in Binaries : PickFile(f) \/ FileRead(f)
    PROVE  IInv'
  <1>1. /\ UNCHANGED <<queue, connecting, flashing, device>>
        /\ reading' \subseteq Binaries
        /\ manifest' \in BOOLEAN
        /\ card' \in Binaries \cup {None}
        /\ fwData' \in Good \cup {None}
        /\ overlapped' = overlapped
    BY DEF ManifestLoaded, PickFile, FileRead, IInv, TypeOK, Checked
  <1>2. TypeOK'
    BY <1>1 DEF IInv, TypeOK, Binaries, connecting, flashing, device
  <1>3. Checked'
    BY <1>1 DEF IInv, Checked, OnlyCheckedFirmware, flashing, device
  <1> QED
    BY <1>2, <1>3 DEF IInv

\* A flash begins, with a firmware that was checked, or fails to get one.
LEMMA LoadSteps ==
    ASSUME IInv, ClickFlash \/ Downloaded \/ DownloadFails
    PROVE  IInv'
  <1>1. TypeOK /\ Checked /\ queue \in Seq(Exchanges) /\ 1 \in Chunks
    BY FlasherAssumption DEF IInv, TypeOK, Exchanges, Chunks
  <1>2. /\ UNCHANGED <<connecting, device, reading, manifest, card>>
        /\ fwData' \in Good \cup {None} /\ overlapped' \in BOOLEAN
    BY <1>1 DEF ClickFlash, Downloaded, DownloadFails, choice, firmware, Checked, Starts, TypeOK
  <1>3. /\ fpc' \in {"erase", "download", "error"}
        /\ chunk' \in Chunks
        /\ queue' \in Seq(Exchanges)
        /\ fw' \in Binaries \cup {None}
        /\ fpc' = "erase" => fw' \in Good
    <2>1. CASE FlashGoesOn("erase", 1, isp, queue)
      <3>1. isp \in Clicks \cup {None} /\ "erase" \in Exchanging
        BY <1>1 DEF TypeOK, Exchanging
      <3>2. fpc' \in {"erase", "error"} /\ chunk' \in Chunks /\ queue' \in Seq(Exchanges)
        BY <1>1, <2>1, <3>1, FlashGoesOnType
      <3>3. fpc' = "erase" => fw' \in Good
        BY <1>1 DEF ClickFlash, Downloaded, DownloadFails, Checked
      <3>4. fw' \in Binaries \cup {None}
        BY <1>1 DEF ClickFlash, Downloaded, DownloadFails, TypeOK
      <3> QED
        BY <3>2, <3>3, <3>4
    <2>2. CASE ~FlashGoesOn("erase", 1, isp, queue)
      BY <1>1, <2>2 DEF ClickFlash, Downloaded, DownloadFails, TypeOK
    <2> QED
      BY <2>1, <2>2
  <1>4. TypeOK'
    BY <1>1, <1>2, <1>3 DEF TypeOK, Exchanges, Binaries, Flashing, Exchanging, connecting, device
  <1>5. Checked'
    BY <1>1, <1>2, <1>3 DEF Checked, OnlyCheckedFirmware, Exchanging, device
  <1> QED
    BY <1>4, <1>5 DEF IInv

\* The exchanges of a flash: what the device makes of a chunk of a checked
\* firmware is not an unchecked one, whatever the keys.
LEMMA FlashSteps ==
    ASSUME IInv,
           EraseDone \/ ChunkProgrammed \/ ChunkVerified \/ Ended \/ FlashFails
    PROVE  IInv'
  <1>1. TypeOK /\ Checked /\ queue \in Seq(Exchanges) /\ queue # <<>> /\ 1 \in Chunks
    BY FlasherAssumption
    DEF IInv, TypeOK, Exchanges, Chunks, EraseDone, ChunkProgrammed, ChunkVerified,
        Ended, FlashFails, Answered
  <1>2. Head(queue) \in Exchanges /\ Tail(queue) \in Seq(Exchanges)
    BY <1>1, QueueType
  <1>3. isp \in Clicks \cup {None} /\ Head(queue).on \in Clicks \cup {None}
    BY <1>1, <1>2 DEF TypeOK, Exchanges
  <1>4. chunk < NumChunks => chunk + 1 \in Chunks
    BY <1>1, FlasherAssumption DEF TypeOK, Chunks
  <1>5. /\ UNCHANGED <<fw, session, devKey>>
        /\ UNCHANGED <<connecting, choice>>
        /\ plugged' \in BOOLEAN
    BY <1>1 DEF EraseDone, ChunkProgrammed, ChunkVerified, Ended, FlashFails, device, TypeOK
  <1>6. /\ fpc' \in Exchanging \cup {"success", "error"}
        /\ chunk' \in Chunks
        /\ queue' \in Seq(Exchanges)
    <2>1. CASE EraseDone
      <3>1. FlashGoesOn("program", 1, isp, Tail(queue)) /\ "program" \in Exchanging
        BY <2>1 DEF EraseDone, Exchanging
      <3> QED
        BY <1>1, <1>2, <1>3, <3>1, FlashGoesOnType
    <2>2. CASE ChunkProgrammed
      <3>1. /\ "program" \in Exchanging /\ "verify" \in Exchanging
            /\ \/ chunk < NumChunks /\ FlashGoesOn("program", chunk + 1, Head(queue).on, Tail(queue))
               \/ FlashGoesOn("verify", 1, isp, Tail(queue))
        BY <2>2 DEF ChunkProgrammed, Exchanging
      <3>2. CASE chunk < NumChunks /\ FlashGoesOn("program", chunk + 1, Head(queue).on, Tail(queue))
        BY <1>1, <1>2, <1>3, <1>4, <3>1, <3>2, FlashGoesOnType
      <3>3. CASE FlashGoesOn("verify", 1, isp, Tail(queue))
        BY <1>1, <1>2, <1>3, <3>1, <3>3, FlashGoesOnType
      <3> QED
        BY <3>1, <3>2, <3>3
    <2>3. CASE ChunkVerified
      <3>1. /\ "end" \in Exchanging /\ "verify" \in Exchanging
            /\ \/ chunk < NumChunks /\ FlashGoesOn("verify", chunk + 1, Head(queue).on, Tail(queue))
               \/ FlashGoesOn("end", 1, isp, Tail(queue))
        BY <2>3 DEF ChunkVerified, Exchanging
      <3>2. CASE chunk < NumChunks /\ FlashGoesOn("verify", chunk + 1, Head(queue).on, Tail(queue))
        BY <1>1, <1>2, <1>3, <1>4, <3>1, <3>2, FlashGoesOnType
      <3>3. CASE FlashGoesOn("end", 1, isp, Tail(queue))
        BY <1>1, <1>2, <1>3, <3>1, <3>3, FlashGoesOnType
      <3> QED
        BY <3>1, <3>2, <3>3
    <2>4. CASE Ended
      BY <1>1, <1>2, <2>4 DEF Ended, TypeOK
    <2>5. CASE FlashFails
      BY <1>1, <1>2, <2>5 DEF FlashFails
    <2> QED
      BY <2>1, <2>2, <2>3, <2>4, <2>5
  <1>7. fw' \in Good \/ fpc' \notin Exchanging
    BY <1>1, <1>5 DEF EraseDone, ChunkProgrammed, ChunkVerified, Ended, FlashFails,
       FlashGoesOn, Checked, Exchanging
  <1>8. flash' \in [Chunks -> Cells] /\ \A i \in Chunks : flash'[i] \notin Bad \X Keys
    <2>1. flash \in [Chunks -> Cells] /\ \A i \in Chunks : flash[i] \notin Bad \X Keys
      BY <1>1 DEF TypeOK, Checked, OnlyCheckedFirmware, Cells
    <2>2. Erased \notin Bad \X Keys /\ Junk \notin Bad \X Keys
      BY FlasherAssumption DEF Keys
    <2>3. CASE EraseDone
      BY <2>2, <2>3 DEF EraseDone, Cells
    <2>4. CASE ChunkProgrammed
      <3>1. fw \in Good
        BY <1>1, <2>4 DEF ChunkProgrammed, Checked, Exchanging
      <3>2. Xor(Head(queue).key, devKey) \in Keys
        BY <1>1, <1>2 DEF Xor, Keys, Exchanges, TypeOK
      <3>3. Decoded \in Good \X Keys
        BY <3>1, <3>2 DEF Decoded
      <3>4. Decoded \notin Bad \X Keys
        BY <3>1, FlasherAssumption DEF Decoded
      <3>5. PICK cell \in {Decoded, Junk} : flash' = [flash EXCEPT ![chunk] = cell]
        BY <2>4 DEF ChunkProgrammed
      <3>6. cell \in Cells /\ cell \notin Bad \X Keys
        BY <2>2, <3>3, <3>4, <3>5 DEF Cells, Binaries
      <3> QED
        BY <2>1, <3>5, <3>6
    <2>5. CASE ChunkVerified \/ Ended
      BY <2>1, <2>5 DEF ChunkVerified, Ended, device
    <2>6. CASE FlashFails
      <3>1. PICK cell \in {flash[chunk], Junk} : flash' \in {flash, [flash EXCEPT ![chunk] = cell]}
        BY <2>6 DEF FlashFails
      <3>2. chunk \in Chunks
        BY <1>1 DEF TypeOK
      <3>3. cell \in Cells /\ cell \notin Bad \X Keys
        BY <2>1, <2>2, <3>1, <3>2 DEF Cells
      <3> QED
        BY <2>1, <3>1, <3>3
    <2> QED
      BY <2>3, <2>4, <2>5, <2>6
  <1>9. TypeOK'
    BY <1>1, <1>5, <1>6, <1>8 DEF TypeOK, Exchanges, Cells, Flashing, connecting, choice, firmware
  <1>10. Checked'
    BY <1>1, <1>5, <1>7, <1>8 DEF Checked, OnlyCheckedFirmware, choice, firmware
  <1> QED
    BY <1>9, <1>10 DEF IInv

\* Loading the page again forgets everything but the device.
LEMMA RetryStep == ASSUME IInv, Retry PROVE IInv'
  <1>1. 1 \in Chunks /\ 0 \in 0 .. MaxSessions
    BY FlasherAssumption DEF Chunks
  <1>2. queue' \in Seq(Exchanges)
    BY EmptySeq DEF Retry
  <1>3. TypeOK'
    BY <1>1, <1>2 DEF IInv, Retry, TypeOK, NoObjects, Unused, Keys, Exchanges, device
  <1>4. Checked'
    BY DEF IInv, Retry, Checked, OnlyCheckedFirmware, Exchanging, device
  <1> QED
    BY <1>3, <1>4 DEF IInv

\* The cable changes the session and the device's key, and no cell of its flash.
LEMMA CableSteps == ASSUME IInv, Unplug \/ Plug PROVE IInv'
  <1>1. /\ UNCHANGED <<queue, flash>>
        /\ UNCHANGED <<connecting, flashing, choice>>
        /\ plugged' \in BOOLEAN
        /\ devKey' \in Keys
        /\ session' \in 1 .. MaxSessions
    <2>1. CASE Unplug
      BY <2>1 DEF Unplug, IInv, TypeOK
    <2>2. CASE Plug
      <3>1. session \in 1 .. MaxSessions /\ MaxSessions \in Nat
        BY FlasherAssumption DEF IInv, TypeOK
      <3>2. session' \in 1 .. MaxSessions
        BY <2>2, <3>1 DEF Plug
      <3> QED
        BY <2>2, <3>2 DEF Plug, Keys
    <2> QED
      BY <2>1, <2>2
  <1>2. TypeOK'
    BY <1>1 DEF IInv, TypeOK, connecting, flashing, choice, firmware
  <1>3. Checked'
    BY <1>1 DEF IInv, Checked, OnlyCheckedFirmware, flashing, choice, firmware
  <1> QED
    BY <1>2, <1>3 DEF IInv

LEMMA StepHolds == IInv /\ [Next]_vars => IInv'
  <1> SUFFICES ASSUME IInv, [Next]_vars PROVE IInv'
    OBVIOUS
  <1>1. ASSUME NEW c \in Clicks,
               \/ ClickConnect(c) \/ Opened(c) \/ OpenFails(c)
               \/ Identified(c) \/ Configured(c) \/ ConnectRefused(c)
        PROVE  IInv'
    <2>1. 0 \in Keys
      BY DEF Keys
    <2> QED
      BY <1>1, <2>1, ConnectSteps
  <1>2. ASSUME NEW c \in Clicks, NEW k \in Keys, KeySet(c, k) PROVE IInv'
    BY <1>2, ConnectSteps
  <1>3. ASSUME NEW f \in Binaries, PickFile(f) \/ FileRead(f) PROVE IInv'
    BY <1>3, ChoiceSteps
  <1>4. CASE ManifestLoaded
    BY <1>4, ChoiceSteps
  <1>5. CASE ClickFlash \/ Downloaded \/ DownloadFails
    BY <1>5, LoadSteps
  <1>6. CASE EraseDone \/ ChunkProgrammed \/ ChunkVerified \/ Ended \/ FlashFails
    BY <1>6, FlashSteps
  <1>7. CASE Retry
    BY <1>7, RetryStep
  <1>8. CASE Unplug \/ Plug
    BY <1>8, CableSteps
  <1>9. CASE UNCHANGED vars
    BY <1>9 DEF IInv, TypeOK, Checked, OnlyCheckedFirmware, vars
  <1> QED
    BY <1>1, <1>2, <1>3, <1>4, <1>5, <1>6, <1>7, <1>8, <1>9 DEF Next, Answer

-------------------------------------------------------------------------------
LEMMA FlasherInvariant == Spec => []IInv
  <1> QED
    BY InitHolds, StepHolds, PTL DEF Spec

\* Every reachable state of the page, the queue and the device has its type:
\* chunk stays within the firmware (wch-isp.js:102-142).
THEOREM FlasherTypeCorrect == Spec => []TypeOK
  <1>1. IInv => TypeOK
    BY DEF IInv
  <1> QED
    BY <1>1, FlasherInvariant, PTL

\* No part of a binary that fails the size and placeholder tests of
\* main.js:102-120 and 198-211 ever reaches the device, however connects, file
\* choices, downloads and flashes overlap.
THEOREM OnlyCheckedReachesDevice == Spec => []OnlyCheckedFirmware
  <1>1. IInv => OnlyCheckedFirmware
    BY DEF IInv, Checked
  <1> QED
    BY <1>1, FlasherInvariant, PTL

-------------------------------------------------------------------------------
(***************************************************************************)
(* While one thing is started at a time (~overlapped).  At most one function waits for  *)
(* an answer then, the only one that is queued, on the object that isp     *)
(* names; once connected this object has the key of its device; and what   *)
(* has been verified is what doFlash set out with.                         *)
(***************************************************************************)
Waits == {"identify", "config", "key"}
Alone ==
    /\ fpc \in Flashing => \A c \in Clicks : cpc[c] \notin Connecting
    /\ \A c \in Clicks : cpc[c] \in Connecting => isp = c
QueueInv ==
    /\ fpc \in Exchanging => isp # None /\ queue = <<Request("flash", isp, obj)>>
    /\ \A c \in Clicks : cpc[c] \in Waits => queue = <<Request(c, c, obj)>>
    /\ fpc \notin Exchanging /\ (\A c \in Clicks : cpc[c] \notin Waits) => queue = <<>>
KeyInv ==
    /\ \A c \in Clicks : obj[c].device <= session
    /\ /\ isp # None /\ obj[isp].device = session
       /\ \A c \in Clicks : cpc[c] \notin Connecting
       => obj[isp].key = devKey
WrittenInv ==
    /\ fpc = "verify" => \A i \in Chunks : i < chunk => flash[i] = <<fw, 0>>
    /\ fpc \in {"end", "success"} => \A i \in Chunks : flash[i] = <<fw, 0>>
AloneInv == Alone /\ QueueInv /\ KeyInv /\ WrittenInv

LEMMA SingleExchange ==
    ASSUME NEW r
    PROVE  Append(<<>>, r) = <<r>> /\ Head(<<r>>) = r /\ Tail(<<r>>) = <<>> /\ <<r>> # <<>>
  OBVIOUS

LEMMA ConnectMoves ==
    ASSUME NEW c, NEW method, NEW objs, ConnectGoesOn(c, method, objs, <<>>)
    PROVE  \/ /\ isp' = isp /\ cpc' = [cpc EXCEPT ![c] = method]
              /\ queue' = <<Request(c, isp, objs)>> /\ objs[isp].device = session
           \/ isp' = None /\ cpc' = [cpc EXCEPT ![c] = "failed"] /\ queue' = <<>>
  BY SingleExchange DEF ConnectGoesOn, Usable

LEMMA FlashMoves ==
    ASSUME NEW step, NEW at, NEW o, FlashGoesOn(step, at, o, <<>>)
    PROVE  \/ /\ fpc' = step /\ chunk' = at /\ o # None
              /\ queue' = <<Request("flash", o, obj)>>
           \/ fpc' = "error" /\ queue' = <<>>
  BY SingleExchange DEF FlashGoesOn, Usable

LEMMA AloneInit == Init => AloneInv
  BY FlasherAssumption
  DEF Init, AloneInv, Alone, QueueInv, KeyInv, WrittenInv, Flashing, Exchanging, Connecting,
      Unused, NoObjects, Waits

\* Who waits for the answer at the head of the queue.
LEMMA WhoWaits ==
    ASSUME TypeOK, AloneInv, queue # <<>>
    PROVE  \/ /\ fpc \in Exchanging /\ isp \in Clicks
              /\ queue = <<Request("flash", isp, obj)>> /\ Head(queue).by = "flash"
              /\ Head(queue).on = isp /\ Head(queue).key = obj[isp].key
           \/ /\ isp \in Clicks /\ cpc[isp] \in Waits
              /\ queue = <<Request(isp, isp, obj)>> /\ Head(queue).by = isp
              /\ Head(queue).on = isp
  <1>1. CASE fpc \in Exchanging
    BY <1>1, SingleExchange DEF AloneInv, QueueInv, Request, TypeOK
  <1>2. CASE fpc \notin Exchanging
    <2>1. PICK c \in Clicks : cpc[c] \in Waits
      BY <1>2 DEF AloneInv, QueueInv
    <2>2. queue = <<Request(c, c, obj)>> /\ isp = c
      BY <2>1 DEF AloneInv, QueueInv, Alone, Waits, Connecting
    <2> QED
      BY <2>1, <2>2, SingleExchange DEF Request
  <1> QED
    BY <1>1, <1>2

\* What connecting leaves alone, and what follows from it.
LEMMA WrittenKept ==
    ASSUME WrittenInv, fw' = fw, flash' = flash,
           \/ fpc' = fpc /\ chunk' = chunk
           \/ fpc' \notin {"verify", "end", "success"}
    PROVE  WrittenInv'
  BY DEF WrittenInv

LEMMA ClickAlone ==
    ASSUME Idle, TypeOK, AloneInv, NEW c \in Clicks, ClickConnect(c)
    PROVE  AloneInv'
  <1>1. /\ fpc \notin Flashing /\ \A d \in Clicks : cpc[d] \notin Connecting
        /\ isp' = c /\ cpc' = [cpc EXCEPT ![c] = "asking"] /\ cpc \in [Clicks -> Connecting \cup {"unused", "done", "failed"}]
        /\ obj' = obj /\ queue' = queue /\ fpc' = fpc /\ chunk' = chunk /\ fw' = fw
        /\ flash' = flash /\ session' = session /\ devKey' = devKey
    BY DEF ClickConnect, Idle, flashing, device, TypeOK
  <1>2. \A d \in Clicks : cpc'[d] \notin Waits
    BY <1>1 DEF Waits, Connecting
  <1>3. Alone'
    BY <1>1 DEF Alone
  <1>4. QueueInv'
    BY <1>1, <1>2 DEF AloneInv, QueueInv, Flashing, Waits, Connecting
  <1>5. KeyInv'
    <2>1. cpc'[c] \in Connecting
      BY <1>1 DEF Connecting
    <2> QED
      BY <1>1, <2>1 DEF AloneInv, KeyInv
  <1>6. WrittenInv'
    BY <1>1, WrittenKept DEF AloneInv
  <1> QED
    BY <1>3, <1>4, <1>5, <1>6 DEF AloneInv

\* doConnect goes on with the object it made, or fails.
LEMMA GoesOnAlone ==
    ASSUME TypeOK, AloneInv, NEW c \in Clicks, cpc[c] \in Connecting,
           NEW method \in Waits, ConnectGoesOn(c, method, obj', <<>>),
           \/ obj' = obj
           \/ obj' = [obj EXCEPT ![c].device = session],
           UNCHANGED <<flashing, choice, device>>
    PROVE  AloneInv'
  <1>1. /\ isp = c /\ fpc \notin Flashing
        /\ \A d \in Clicks : d # c => cpc[d] \notin Connecting
        /\ fpc' = fpc /\ chunk' = chunk /\ fw' = fw
        /\ flash' = flash /\ session' = session /\ devKey' = devKey
        /\ cpc \in [Clicks -> Connecting \cup {"unused", "done", "failed"}]
    BY DEF AloneInv, Alone, flashing, device, TypeOK
  <1>2. WrittenInv'
    BY <1>1, WrittenKept DEF AloneInv
  <1>3. \A d \in Clicks : obj'[d].device <= session'
    BY <1>1, FlasherAssumption DEF AloneInv, KeyInv, TypeOK
  <1>4. CASE /\ isp' = isp /\ cpc' = [cpc EXCEPT ![c] = method]
             /\ queue' = <<Request(c, isp, obj')>>
    <2>1. cpc'[c] \in Waits /\ cpc'[c] \in Connecting /\ \A d \in Clicks : d # c => cpc'[d] = cpc[d]
      BY <1>1, <1>4 DEF Waits, Connecting
    <2>2. Alone'
      BY <1>1, <1>4, <2>1 DEF Alone
    <2>3. QueueInv'
      BY <1>1, <1>4, <2>1 DEF QueueInv, Flashing, Waits, Connecting
    <2>4. KeyInv'
      BY <1>3, <2>1 DEF KeyInv
    <2> QED
      BY <1>2, <2>2, <2>3, <2>4 DEF AloneInv
  <1>5. CASE isp' = None /\ cpc' = [cpc EXCEPT ![c] = "failed"] /\ queue' = <<>>
    <2>1. \A d \in Clicks : cpc'[d] \notin Connecting /\ cpc'[d] \notin Waits
      BY <1>1, <1>5 DEF Waits, Connecting
    <2>2. Alone'
      BY <1>1, <2>1 DEF Alone
    <2>3. QueueInv'
      BY <1>1, <1>5, <2>1 DEF QueueInv, Flashing
    <2>4. KeyInv'
      BY <1>3, <1>5 DEF KeyInv
    <2> QED
      BY <1>2, <2>2, <2>3, <2>4 DEF AloneInv
  <1> QED
    BY <1>4, <1>5, ConnectMoves

LEMMA ConnectAlone ==
    ASSUME TypeOK, AloneInv, NEW c \in Clicks,
           Opened(c) \/ OpenFails(c) \/ Identified(c) \/ Configured(c) \/ ConnectRefused(c)
    PROVE  AloneInv'
  <1>1. CASE Opened(c)
    <2>1. cpc[c] = "asking" /\ cpc[c] \in Connecting /\ cpc[c] \notin Waits
      BY <1>1 DEF Opened, Connecting, Waits
    <2>2. queue = <<>>
      BY <2>1 DEF AloneInv, Alone, QueueInv, Flashing, Waits, Connecting
    <2>3. /\ obj' = [obj EXCEPT ![c].device = session]
          /\ ConnectGoesOn(c, "identify", obj', <<>>)
          /\ UNCHANGED <<flashing, choice, device>>
      BY <1>1, <2>2 DEF Opened
    <2>4. "identify" \in Waits
      BY DEF Waits
    <2> QED
      BY <2>1, <2>3, <2>4, GoesOnAlone
  <1>2. CASE Identified(c) \/ Configured(c)
    <2>1. cpc[c] \in Waits /\ cpc[c] \in Connecting
      BY <1>2 DEF Identified, Configured, Waits, Connecting
    <2>2. Tail(queue) = <<>>
      BY <2>1, SingleExchange DEF AloneInv, QueueInv
    <2>3. "config" \in Waits /\ "key" \in Waits
      BY DEF Waits
    <2>4. PICK method \in Waits : /\ ConnectGoesOn(c, method, obj', <<>>) /\ obj' = obj
                                  /\ UNCHANGED <<flashing, choice, device>>
      <3>1. CASE Identified(c)
        <4>1. ConnectGoesOn(c, "config", obj, Tail(queue)) /\ obj' = obj
              /\ UNCHANGED <<flashing, choice, device>>
          BY <3>1 DEF Identified
        <4> QED
          BY <4>1, <2>2, <2>3
      <3>2. CASE Configured(c)
        <4>1. ConnectGoesOn(c, "key", obj, Tail(queue)) /\ obj' = obj
              /\ UNCHANGED <<flashing, choice, device>>
          BY <3>2 DEF Configured
        <4> QED
          BY <4>1, <2>2, <2>3
      <3> QED
        BY <1>2, <3>1, <3>2
    <2> QED
      BY <2>1, <2>4, GoesOnAlone
  <1>3. CASE OpenFails(c) \/ ConnectRefused(c)
    <2>1. cpc[c] \in Connecting /\ queue' = <<>>
      <3>1. CASE OpenFails(c)
        <4>1. cpc[c] = "asking" /\ queue' = queue
          BY <3>1 DEF OpenFails
        <4>2. queue = <<>>
          BY <4>1 DEF AloneInv, Alone, QueueInv, Flashing, Waits, Connecting
        <4> QED
          BY <4>1, <4>2 DEF Connecting
      <3>2. CASE ConnectRefused(c)
        <4>1. queue # <<>> /\ Head(queue).by = c /\ queue' = Tail(queue)
          BY <3>2 DEF ConnectRefused
        <4>2. c # "flash"
          BY FlasherAssumption
        <4>3. cpc[c] \in Waits /\ Tail(queue) = <<>>
          BY <4>1, <4>2, WhoWaits, SingleExchange
        <4> QED
          BY <4>1, <4>3 DEF Waits, Connecting
      <3> QED
        BY <1>3, <3>1, <3>2
    <2>2. /\ cpc' = [cpc EXCEPT ![c] = "failed"] /\ isp' = None /\ obj' = obj
          /\ fpc' = fpc /\ chunk' = chunk /\ fw' = fw
          /\ flash' = flash /\ session' = session /\ devKey' = devKey
          /\ cpc \in [Clicks -> Connecting \cup {"unused", "done", "failed"}]
      BY <1>3 DEF OpenFails, ConnectRefused, flashing, device, TypeOK
    <2>3. /\ fpc \notin Flashing
          /\ \A d \in Clicks : cpc'[d] \notin Connecting /\ cpc'[d] \notin Waits
      BY <2>1, <2>2 DEF AloneInv, Alone, Waits, Connecting
    <2>4. Alone' /\ QueueInv' /\ KeyInv'
      BY <2>1, <2>2, <2>3 DEF AloneInv, Alone, QueueInv, KeyInv, Flashing
    <2>5. WrittenInv'
      BY <2>2, WrittenKept DEF AloneInv
    <2> QED
      BY <2>4, <2>5 DEF AloneInv
  <1> QED
    BY <1>1, <1>2, <1>3

\* The answer to setKey: object and device have the same key.
LEMMA KeyAlone ==
    ASSUME TypeOK, AloneInv, NEW c \in Clicks, NEW k \in Keys, KeySet(c, k)
    PROVE  AloneInv'
  <1>1. cpc[c] \in Waits /\ cpc[c] \in Connecting
    BY DEF KeySet, Waits, Connecting
  <1>2. /\ isp = c /\ queue = <<Request(c, c, obj)>> /\ fpc \notin Flashing
        /\ \A d \in Clicks : d # c => cpc[d] \notin Connecting
    BY <1>1 DEF AloneInv, Alone, QueueInv
  <1>3. Head(queue).on = c /\ Tail(queue) = <<>>
    BY <1>2, SingleExchange DEF Request
  <1>4. /\ obj' = [obj EXCEPT ![c].key = k] /\ devKey' = k /\ queue' = <<>>
        /\ cpc' = [cpc EXCEPT ![c] = "done"] /\ isp' = c
        /\ fpc' \in {fpc, "offered"} /\ chunk' = chunk /\ fw' = fw
        /\ flash' = flash /\ session' = session
        /\ cpc \in [Clicks -> Connecting \cup {"unused", "done", "failed"}] /\ obj \in [Clicks -> [device : 0 .. MaxSessions, key : Keys]]
    BY <1>2, <1>3 DEF KeySet, TypeOK
  <1>5. \A d \in Clicks : cpc'[d] \notin Connecting /\ cpc'[d] \notin Waits
    BY <1>2, <1>4 DEF Waits, Connecting
  <1>6. fpc' \notin Flashing
    BY <1>2, <1>4 DEF Flashing, Exchanging
  <1>7. Alone' /\ QueueInv'
    BY <1>4, <1>5, <1>6 DEF Alone, QueueInv, Flashing
  <1>8. KeyInv'
    BY <1>4 DEF AloneInv, KeyInv
  <1>9. WrittenInv'
    BY <1>4, WrittenKept DEF AloneInv
  <1> QED
    BY <1>7, <1>8, <1>9 DEF AloneInv

NoConnect == \A c \in Clicks : cpc[c] \notin Connecting

\* Steps of doFlash, which runs alone.
LEMMA FlashAlone ==
    ASSUME AloneInv, NoConnect, WrittenInv',
           isp' = isp, cpc' = cpc, obj' = obj, session' = session, devKey' = devKey,
           \/ fpc' \in Exchanging /\ isp # None /\ queue' = <<Request("flash", isp, obj)>>
           \/ fpc' \notin Exchanging /\ queue' = <<>>
    PROVE  AloneInv'
  <1>1. \A c \in Clicks : cpc'[c] \notin Connecting /\ cpc'[c] \notin Waits
    BY DEF NoConnect, Waits, Connecting
  <1>2. Alone' /\ KeyInv'
    BY <1>1 DEF AloneInv, Alone, KeyInv
  <1>3. QueueInv'
    BY <1>1 DEF QueueInv, Request
  <1> QED
    BY <1>2, <1>3 DEF AloneInv

\* While doFlash works or could, nothing is being connected and, before its
\* first exchange, nothing is queued.
LEMMA BeforeFlash ==
    ASSUME AloneInv, NoConnect, fpc \notin Exchanging
    PROVE  queue = <<>>
  BY DEF AloneInv, QueueInv, NoConnect, Waits, Connecting

LEMMA LoadAlone ==
    ASSUME TypeOK, AloneInv, (ClickFlash /\ Idle) \/ Downloaded \/ DownloadFails
    PROVE  AloneInv'
  <1>1. NoConnect /\ fpc \in {"offered", "download"} /\ fpc \notin Exchanging
    BY DEF ClickFlash, Downloaded, DownloadFails, Idle, AloneInv, Alone, NoConnect, Flashing,
           Exchanging
  <1>2. queue = <<>>
    BY <1>1, BeforeFlash
  <1>3. /\ isp' = isp /\ cpc' = cpc /\ obj' = obj /\ session' = session /\ devKey' = devKey
        /\ flash' = flash
    BY DEF ClickFlash, Downloaded, DownloadFails, connecting, device
  <1>4. \/ FlashGoesOn("erase", 1, isp, <<>>)
        \/ fpc' \in {"download", "error"} /\ queue' = <<>>
    BY <1>2 DEF ClickFlash, Downloaded, DownloadFails
  <1>5. \/ fpc' = "erase" /\ isp # None /\ queue' = <<Request("flash", isp, obj)>>
        \/ fpc' \in {"download", "error"} /\ queue' = <<>>
    BY <1>4, FlashMoves
  <1>6. WrittenInv'
    BY <1>5 DEF WrittenInv
  <1>7. \/ fpc' \in Exchanging /\ isp # None /\ queue' = <<Request("flash", isp, obj)>>
        \/ fpc' \notin Exchanging /\ queue' = <<>>
    BY <1>5 DEF Exchanging
  <1> QED
    BY <1>1, <1>3, <1>6, <1>7, FlashAlone

\* An exchange of doFlash that is answered was decoded with the key it was
\* encoded with.
LEMMA FlashAnswered ==
    ASSUME TypeOK, AloneInv, queue # <<>>, Head(queue).by = "flash"
    PROVE  /\ NoConnect /\ fpc \in Exchanging /\ isp \in Clicks
           /\ Head(queue).on = isp /\ Tail(queue) = <<>>
           /\ Usable(Head(queue).on, obj) => Decoded = <<fw, 0>>
  <1>1. /\ fpc \in Exchanging /\ isp \in Clicks
        /\ queue = <<Request("flash", isp, obj)>>
        /\ Head(queue).on = isp /\ Head(queue).key = obj[isp].key
    BY WhoWaits, FlasherAssumption
  <1>2. NoConnect
    BY <1>1 DEF AloneInv, Alone, NoConnect, Flashing
  <1>3. Tail(queue) = <<>>
    BY <1>1, SingleExchange
  <1>4. ASSUME Usable(Head(queue).on, obj) PROVE Decoded = <<fw, 0>>
    <2>1. obj[isp].key = devKey /\ devKey \in {0, 1}
      BY <1>1, <1>2, <1>4 DEF AloneInv, KeyInv, NoConnect, Usable, TypeOK, Keys
    <2>2. (devKey + devKey) % 2 = 0
      BY <2>1
    <2> QED
      BY <1>1, <2>1, <2>2 DEF Decoded, Xor
  <1> QED
    BY <1>1, <1>2, <1>3, <1>4

LEMMA ExchangeAlone ==
    ASSUME TypeOK, AloneInv,
           EraseDone \/ ChunkProgrammed \/ ChunkVerified \/ Ended \/ FlashFails
    PROVE  AloneInv'
  <1>1. /\ queue # <<>> /\ Head(queue).by = "flash"
        /\ isp' = isp /\ cpc' = cpc /\ obj' = obj /\ session' = session /\ devKey' = devKey
        /\ fw' = fw
    BY DEF EraseDone, ChunkProgrammed, ChunkVerified, Ended, FlashFails, Answered,
           connecting, device
  <1>2. /\ NoConnect /\ fpc \in Exchanging /\ isp \in Clicks
        /\ Head(queue).on = isp /\ Tail(queue) = <<>>
        /\ Usable(Head(queue).on, obj) => Decoded = <<fw, 0>>
    BY <1>1, FlashAnswered
  <1>3. chunk \in 1 .. NumChunks /\ NumChunks \in Nat \ {0}
    BY FlasherAssumption DEF TypeOK, Chunks
  <1>4. CASE EraseDone \/ ChunkProgrammed
    <2>1. PICK step \in {"program", "verify"}, at \in 1 .. NumChunks :
              FlashGoesOn(step, at, isp, <<>>) /\ (step = "verify" => at = 1)
      <3>1. CASE EraseDone
        <4>1. FlashGoesOn("program", 1, isp, Tail(queue))
          BY <3>1 DEF EraseDone
        <4>2. FlashGoesOn("program", 1, isp, <<>>)
          BY <1>2, <4>1
        <4> QED
          BY <1>3, <4>2
      <3>2. CASE ChunkProgrammed
        <4>1. \/ chunk < NumChunks /\ FlashGoesOn("program", chunk + 1, Head(queue).on, Tail(queue))
              \/ FlashGoesOn("verify", 1, isp, Tail(queue))
          BY <3>2 DEF ChunkProgrammed
        <4>2. \/ chunk < NumChunks /\ FlashGoesOn("program", chunk + 1, isp, <<>>)
              \/ FlashGoesOn("verify", 1, isp, <<>>)
          BY <1>2, <4>1
        <4> QED
          BY <1>3, <4>2
      <3> QED
        BY <1>4, <3>1, <3>2
    <2>2. \/ fpc' = step /\ chunk' = at /\ queue' = <<Request("flash", isp, obj)>> /\ isp # None
          \/ fpc' = "error" /\ queue' = <<>>
      BY <2>1, FlashMoves
    <2>3. WrittenInv'
      <3>1. fpc' = "verify" => chunk' = 1
        BY <2>1, <2>2
      <3>2. fpc' \notin {"end", "success"}
        BY <2>1, <2>2
      <3> QED
        BY <3>1, <3>2 DEF WrittenInv, Chunks
    <2> QED
      BY <1>1, <1>2, <2>1, <2>2, <2>3, FlashAlone DEF Exchanging
  <1>5. CASE ChunkVerified
    <2>1. fpc = "verify" /\ flash[chunk] = <<fw, 0>> /\ flash' = flash
      BY <1>2, <1>5 DEF ChunkVerified, Answered, device
    <2>2. \A i \in Chunks : i <= chunk => flash[i] = <<fw, 0>>
      <3> SUFFICES ASSUME NEW i \in Chunks, i <= chunk PROVE flash[i] = <<fw, 0>>
        OBVIOUS
      <3>1. i < chunk \/ i = chunk
        BY <1>3 DEF Chunks
      <3> QED
        BY <2>1, <3>1 DEF AloneInv, WrittenInv
    <2>3. CASE chunk < NumChunks
      <3>1. FlashGoesOn("verify", chunk + 1, isp, <<>>)
        <4>1. FlashGoesOn("verify", chunk + 1, Head(queue).on, Tail(queue))
          <5>1. chunk # NumChunks
            BY <1>3, <2>3
          <5> QED
            BY <1>5, <5>1 DEF ChunkVerified
        <4> QED
          BY <1>2, <4>1
      <3>2. \/ /\ fpc' = "verify" /\ chunk' = chunk + 1 /\ isp # None
               /\ queue' = <<Request("flash", isp, obj)>>
            \/ fpc' = "error" /\ queue' = <<>>
        BY <3>1, FlashMoves
      <3>3. \A i \in Chunks : i < chunk + 1 => i <= chunk
        BY <1>3 DEF Chunks
      <3>4. WrittenInv'
        BY <1>1, <2>1, <2>2, <3>2, <3>3 DEF WrittenInv
      <3> QED
        BY <1>1, <1>2, <3>2, <3>4, FlashAlone DEF Exchanging
    <2>4. CASE chunk = NumChunks
      <3>1. FlashGoesOn("end", 1, isp, <<>>)
        <4>1. FlashGoesOn("end", 1, isp, Tail(queue))
          <5>1. ~(chunk < NumChunks)
            BY <1>3, <2>4
          <5> QED
            BY <1>5, <5>1 DEF ChunkVerified
        <4> QED
          BY <1>2, <4>1
      <3>2. \/ /\ fpc' = "end" /\ chunk' = 1 /\ isp # None
               /\ queue' = <<Request("flash", isp, obj)>>
            \/ fpc' = "error" /\ queue' = <<>>
        BY <3>1, FlashMoves
      <3>3. \A i \in Chunks : i <= chunk
        BY <2>4 DEF Chunks
      <3>4. WrittenInv'
        BY <1>1, <2>1, <2>2, <3>2, <3>3 DEF WrittenInv
      <3> QED
        BY <1>1, <1>2, <3>2, <3>4, FlashAlone DEF Exchanging
    <2> QED
      BY <1>3, <2>3, <2>4
  <1>6. CASE Ended
    <2>1. fpc = "end" /\ fpc' = "success" /\ queue' = <<>> /\ flash' = flash
      BY <1>2, <1>6 DEF Ended
    <2>2. WrittenInv'
      BY <1>1, <2>1 DEF AloneInv, WrittenInv
    <2> QED
      BY <1>1, <1>2, <2>1, <2>2, FlashAlone DEF Exchanging
  <1>7. CASE FlashFails
    <2>1. fpc' = "error" /\ queue' = <<>>
      BY <1>2, <1>7 DEF FlashFails
    <2>2. WrittenInv'
      BY <2>1 DEF WrittenInv
    <2> QED
      BY <1>1, <1>2, <2>1, <2>2, FlashAlone DEF Exchanging
  <1> QED
    BY <1>4, <1>5, <1>6, <1>7

LEMMA CableAlone ==
    ASSUME TypeOK, AloneInv, Unplug \/ Plug PROVE AloneInv'
  <1>1. /\ isp' = isp /\ cpc' = cpc /\ obj' = obj /\ queue' = queue /\ fpc' = fpc
        /\ chunk' = chunk /\ fw' = fw /\ flash' = flash
        /\ \/ session' = session /\ devKey' = devKey
           \/ session' = session + 1
    BY DEF Unplug, Plug, connecting, flashing
  <1>2. Alone' /\ QueueInv' /\ WrittenInv'
    BY <1>1 DEF AloneInv, Alone, QueueInv, WrittenInv, Request
  <1>3. KeyInv'
    <2>1. /\ session \in Int /\ obj \in [Clicks -> [device : 0 .. MaxSessions, key : Keys]]
          /\ isp \in Clicks \cup {None} /\ MaxSessions \in Nat
      BY FlasherAssumption DEF TypeOK
    <2>2. ASSUME NEW c \in Clicks PROVE obj[c].device <= session /\ obj[c].device \in Int
      <3>1. obj[c] \in [device : 0 .. MaxSessions, key : Keys]
        BY <2>1
      <3>2. obj[c].device \in 0 .. MaxSessions
        BY <3>1
      <3>3. obj[c].device \in Int
        BY <2>1, <3>2
      <3> QED
        BY <3>3 DEF AloneInv, KeyInv
    <2>3. CASE session' = session /\ devKey' = devKey
      BY <1>1, <2>3 DEF AloneInv, KeyInv
    <2>4. CASE session' = session + 1
      <3>1. ASSUME NEW c \in Clicks
            PROVE  obj[c].device <= session + 1 /\ obj[c].device # session + 1
        <4>1. obj[c].device <= session /\ obj[c].device \in Int
          BY <2>2
        <4> QED
          BY <2>1, <4>1
      <3> QED
        BY <1>1, <2>1, <2>4, <3>1 DEF KeyInv
    <2> QED
      BY <1>1, <2>3, <2>4
  <1> QED
    BY <1>2, <1>3 DEF AloneInv

LEMMA RetryAlone == ASSUME TypeOK, Retry PROVE AloneInv'
  <1>1. 0 <= session'
    BY FlasherAssumption DEF Retry, device, TypeOK
  <1> QED
    BY <1>1, FlasherAssumption
    DEF Retry, AloneInv, Alone, QueueInv, KeyInv, WrittenInv, Flashing, Exchanging, Connecting,
        Unused, NoObjects, Waits

LEMMA OthersAlone ==
    ASSUME AloneInv,
           UNCHANGED <<isp, cpc, obj, queue, fpc, chunk, fw, flash, session, devKey>>
    PROVE  AloneInv'
  BY DEF AloneInv, Alone, QueueInv, KeyInv, WrittenInv, Request

\* Unless the user has started something while something else ran; Retry, which loads
\* the page again, makes up for that.
AloneUnlessOverlapped == overlapped \/ AloneInv

\* Nothing else makes up for it.
LEMMA OverlapKept == ASSUME [Next]_vars, ~Retry, overlapped PROVE overlapped'
  <1>1. ASSUME NEW c \in Clicks, ClickConnect(c) PROVE overlapped'
    BY <1>1 DEF ClickConnect, Starts
  <1>2. ASSUME NEW c \in Clicks, Opened(c) \/ OpenFails(c) PROVE overlapped'
    BY <1>2 DEF Opened, OpenFails, choice
  <1>3. CASE Answer
    BY <1>3 DEF Answer, Identified, Configured, ConnectRefused, KeySet, EraseDone,
                ChunkProgrammed, ChunkVerified, Ended, FlashFails, choice
  <1>4. ASSUME NEW f \in Binaries, PickFile(f) \/ FileRead(f) PROVE overlapped'
    BY <1>4 DEF PickFile, FileRead
  <1>5. CASE ManifestLoaded \/ Downloaded \/ DownloadFails
    BY <1>5 DEF ManifestLoaded, Downloaded, DownloadFails, choice
  <1>6. CASE ClickFlash
    BY <1>6 DEF ClickFlash, Starts
  <1>7. CASE Unplug \/ Plug
    BY <1>7 DEF Unplug, Plug, choice
  <1>8. CASE UNCHANGED vars
    BY <1>8 DEF vars
  <1> QED
    BY <1>1, <1>2, <1>3, <1>4, <1>5, <1>6, <1>7, <1>8 DEF Next

LEMMA StepAlone == TypeOK /\ AloneUnlessOverlapped /\ [Next]_vars => AloneUnlessOverlapped'
  <1> SUFFICES ASSUME TypeOK, AloneUnlessOverlapped, [Next]_vars, ~overlapped'
               PROVE  AloneInv'
    BY DEF AloneUnlessOverlapped
  <1>1. CASE Retry
    BY <1>1, RetryAlone
  <1>2. CASE ~Retry
    <2>1. ~overlapped /\ AloneInv
      BY <1>2, OverlapKept DEF AloneUnlessOverlapped
    <2>2. ASSUME NEW c \in Clicks, ClickConnect(c) PROVE AloneInv'
      BY <2>1, <2>2, ClickAlone DEF ClickConnect, Starts
    <2>3. ASSUME NEW c \in Clicks,
                 Opened(c) \/ OpenFails(c) \/ Identified(c) \/ Configured(c) \/ ConnectRefused(c)
          PROVE  AloneInv'
      BY <2>1, <2>3, ConnectAlone
    <2>4. ASSUME NEW c \in Clicks, NEW k \in Keys, KeySet(c, k) PROVE AloneInv'
      BY <2>1, <2>4, KeyAlone
    <2>5. ASSUME NEW f \in Binaries, PickFile(f) \/ FileRead(f) PROVE AloneInv'
      BY <2>1, <2>5, OthersAlone DEF PickFile, FileRead, connecting, flashing, device
    <2>6. CASE ManifestLoaded
      BY <2>1, <2>6, OthersAlone DEF ManifestLoaded, connecting, flashing, device
    <2>7. CASE ClickFlash
      BY <2>1, <2>7, LoadAlone DEF ClickFlash, Starts
    <2>8. CASE Downloaded \/ DownloadFails
      BY <2>1, <2>8, LoadAlone
    <2>9. CASE EraseDone \/ ChunkProgrammed \/ ChunkVerified \/ Ended \/ FlashFails
      BY <2>1, <2>9, ExchangeAlone
    <2>10. CASE Unplug \/ Plug
      BY <2>1, <2>10, CableAlone
    <2>11. CASE UNCHANGED vars
      BY <2>1, <2>11, OthersAlone DEF vars
    <2> QED
      BY <1>2, <2>2, <2>3, <2>4, <2>5, <2>6, <2>7, <2>8, <2>9, <2>10, <2>11 DEF Next, Answer
  <1> QED
    BY <1>1, <1>2

\* "Firmware written and verified" is true whenever the page says so, unless the user
\* has clicked Connect or Flash while another of them ran since the page was loaded, for
\* any number of chunks, page loads, connections and times the device is plugged in
\* (main.js:190-232, wch-isp.js:102-142).
THEOREM WrittenWhenSaid == Spec => []SuccessMeansWritten
  <1>1. TypeOK /\ AloneUnlessOverlapped => SuccessMeansWritten
    BY DEF AloneUnlessOverlapped, AloneInv, WrittenInv, SuccessMeansWritten, TypeOK
  <1>2. TypeOK /\ AloneUnlessOverlapped /\ [Next]_vars => AloneUnlessOverlapped'
    BY StepAlone
  <1>3. Init => AloneUnlessOverlapped
    BY AloneInit DEF AloneUnlessOverlapped
  <1>4. Spec => [][Next]_vars /\ Init
    BY PTL DEF Spec
  <1> QED
    BY FlasherTypeCorrect, <1>1, <1>2, <1>3, <1>4, PTL
===============================================================================
