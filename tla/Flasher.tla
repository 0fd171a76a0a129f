------------------------------- MODULE Flasher -------------------------------
(***************************************************************************)
(* The web flasher: docs/flasher/static/js/main.js and wch-isp.js.         *)
(*                                                                         *)
(* doConnect and doFlash are async functions that share the variables isp  *)
(* and fwData; they interleave at every await, with the file reader, the   *)
(* download and the manifest.  An exchange is a command and its answer.    *)
(* Transfers on the bulk endpoints are served in the order they were       *)
(* issued ("queue"), and when an answer arrives its function runs on to    *)
(* its next await, in the same step.                                       *)
(*                                                                         *)
(* The device is external: it decodes a chunk with the key it was given    *)
(* last, it may fail an erase, a program or a verify, it may store a wrong *)
(* chunk and report success, and it may be unplugged.  Identify, read      *)
(* config and set key fail only when it is gone.  Keys are of one bit: the *)
(* residue of encoding with one and decoding with another is their xor.    *)
(* Opening the device (five awaits of connect) is one step; an object has  *)
(* no device before it.                                                    *)
(*                                                                         *)
(* A definition Def_Slip is Def with a plausible programming mistake.  No  *)
(* specification uses it: it is there to show that a property notices.     *)
(***************************************************************************)
EXTENDS Integers, Sequences

CONSTANTS
    Clicks,       \* presses of Connect between two loads of the page
    NumChunks,    \* chunks of WRITE_CHUNK bytes in a firmware: 19 or more
    Good, Bad,    \* binaries that pass, or fail, the size and placeholder test
    MaxSessions,  \* bound on how often the device is plugged in
    None, Erased, Junk

ASSUME FlasherAssumption ==
    /\ NumChunks \in Nat \ {0}
    /\ MaxSessions \in Nat \ {0}
    /\ Good \cap Bad = {} /\ None \notin Good \cup Bad \cup Clicks
    /\ "flash" \notin Clicks
    /\ Erased # Junk
    /\ {Erased, Junk} \cap ((Good \cup Bad) \X {0, 1}) = {}

VARIABLES
    isp,       \* the WchIsp object, named by the click that made it, or None
    obj,       \* each object's device (the session it opened) and xorKey
    cpc,       \* what the doConnect of each click waits for
    fpc,       \* what doFlash waits for, or how it ended
    fw,        \* the firmware doFlash works on
    chunk,     \* the chunk a program or a verify is at
    fwData,    \* the firmware chosen or downloaded, or None
    reading,   \* the files being read
    manifest,  \* the manifest is being fetched
    card,      \* the firmware the card on the page names; None: the bundled one
    queue,     \* exchanges issued and not yet answered
    plugged, session, devKey, flash,   \* the device
    overlapped \* history: since the page was loaded, the user has started a connect
               \* or a flash while another was running

vars == <<isp, obj, cpc, fpc, fw, chunk, fwData, reading, manifest, card,
          queue, plugged, session, devKey, flash, overlapped>>
device == <<plugged, session, devKey, flash>>
firmware == <<fwData, reading, manifest, card>>
choice == <<firmware, overlapped>>
connecting == <<isp, obj, cpc>>
flashing == <<fpc, fw, chunk>>

Binaries == Good \cup Bad
Chunks == 1 .. NumChunks
Keys == {0, 1}
Xor(a, b) == (a + b) % 2
Connecting == {"asking", "identify", "config", "key"}
Exchanging == {"erase", "program", "verify", "end"}
Flashing == Exchanging \cup {"download"}

TypeOK ==
    /\ isp \in Clicks \cup {None}
    /\ obj \in [Clicks -> [device : 0 .. MaxSessions, key : Keys]]
    /\ cpc \in [Clicks -> Connecting \cup {"unused", "done", "failed"}]
    /\ fpc \in Flashing \cup {"hidden", "offered", "success", "error"}
    /\ fw \in Binaries \cup {None} /\ fwData \in Binaries \cup {None}
    /\ chunk \in Chunks
    /\ reading \subseteq Binaries /\ card \in Binaries \cup {None}
    /\ manifest \in BOOLEAN /\ plugged \in BOOLEAN
    /\ queue \in Seq([by : Clicks \cup {"flash"}, on : Clicks, key : Keys])
    /\ session \in 1 .. MaxSessions /\ devKey \in Keys
    /\ flash \in [Chunks -> {Erased, Junk} \cup (Binaries \X Keys)]
    /\ overlapped \in BOOLEAN

-------------------------------------------------------------------------------
NoObjects == [c \in Clicks |-> [device |-> 0, key |-> 0]]
Unused == [c \in Clicks |-> "unused"]

Init ==
    /\ isp = None /\ obj = NoObjects /\ cpc = Unused
    /\ fpc = "hidden" /\ fw = None /\ chunk = 1
    /\ fwData = None /\ reading = {} /\ manifest = TRUE /\ card = None
    /\ queue = <<>>
    /\ plugged = TRUE /\ session = 1 /\ devKey = 0
    /\ flash = [i \in Chunks |-> Junk]
    /\ overlapped = FALSE

\* A method of object o reaches the device: o exists and its device is there.
\* Otherwise the call throws.
Usable(o, objs) == o # None /\ plugged /\ objs[o].device = session

Request(by, o, objs) == [by |-> by, on |-> o, key |-> objs[o].key]

\* The head of the queue is an exchange of "by", and the device is still the
\* one it was issued to.
Answered(by) ==
    /\ queue # <<>>
    /\ Head(queue).by = by
    /\ Usable(Head(queue).on, obj)

-------------------------------------------------------------------------------
(***************************************************************************)
(* doConnect.                                                              *)
(***************************************************************************)
Idle == fpc \notin Flashing /\ \A c \in Clicks : cpc[c] \notin Connecting
Starts == overlapped' = (overlapped \/ ~Idle)

ClickConnect(c) ==
    /\ Starts
    /\ cpc[c] = "unused"
    /\ isp' = c
    /\ cpc' = [cpc EXCEPT ![c] = "asking"]
    /\ UNCHANGED <<obj, queue>>
    /\ UNCHANGED <<flashing, firmware, device>>

\* doConnect goes on to call a method of whatever isp is by now, and to wait
\* for its answer; if the call throws, it sets isp to null.
ConnectGoesOn(c, method, objs, rest) ==
    \/ /\ Usable(isp, objs)
       /\ queue' = Append(rest, Request(c, isp, objs))
       /\ cpc' = [cpc EXCEPT ![c] = method]
       /\ isp' = isp
    \/ /\ ~Usable(isp, objs)
       /\ queue' = rest
       /\ cpc' = [cpc EXCEPT ![c] = "failed"]
       /\ isp' = None

Opened(c) ==
    /\ cpc[c] = "asking"
    /\ plugged
    /\ obj' = [obj EXCEPT ![c].device = session]
    /\ ConnectGoesOn(c, "identify", obj', queue)
    /\ UNCHANGED <<flashing, choice, device>>

\* The user picks no device, or opening it fails.
OpenFails(c) ==
    /\ cpc[c] = "asking"
    /\ cpc' = [cpc EXCEPT ![c] = "failed"]
    /\ isp' = None
    /\ UNCHANGED <<obj, queue>>
    /\ UNCHANGED <<flashing, choice, device>>

Identified(c) ==
    /\ Answered(c) /\ cpc[c] = "identify"
    /\ ConnectGoesOn(c, "config", obj, Tail(queue))
    /\ UNCHANGED obj
    /\ UNCHANGED <<flashing, choice, device>>

Configured(c) ==
    /\ Answered(c) /\ cpc[c] = "config"
    /\ ConnectGoesOn(c, "key", obj, Tail(queue))
    /\ UNCHANGED obj
    /\ UNCHANGED <<flashing, choice, device>>

KeySet_NotKept(c, k) ==
    /\ Answered(c) /\ cpc[c] = "key"
    /\ devKey' = k
    /\ obj' = obj
    /\ cpc' = [cpc EXCEPT ![c] = "done"]
    /\ fpc' = IF fpc = "hidden" THEN "offered" ELSE fpc
    /\ queue' = Tail(queue)
    /\ UNCHANGED <<isp, fw, chunk, plugged, session, flash>>
    /\ UNCHANGED choice

\* setKey's answer: the object keeps the key, and the card is shown.
KeySet(c, k) ==
    /\ Answered(c) /\ cpc[c] = "key"
    /\ devKey' = k
    /\ obj' = [obj EXCEPT ![Head(queue).on].key = k]
    /\ cpc' = [cpc EXCEPT ![c] = "done"]
    /\ fpc' = IF fpc = "hidden" THEN "offered" ELSE fpc
    /\ queue' = Tail(queue)
    /\ UNCHANGED <<isp, fw, chunk, plugged, session, flash>>
    /\ UNCHANGED choice

ConnectRefused(c) ==
    /\ queue # <<>> /\ Head(queue).by = c
    /\ ~Usable(Head(queue).on, obj)
    /\ cpc' = [cpc EXCEPT ![c] = "failed"]
    /\ isp' = None
    /\ queue' = Tail(queue)
    /\ UNCHANGED obj
    /\ UNCHANGED <<flashing, choice, device>>

-------------------------------------------------------------------------------
(***************************************************************************)
(* Choosing a firmware.                                                    *)
(***************************************************************************)
ManifestLoaded ==
    /\ manifest
    /\ manifest' = FALSE
    /\ card' \in {card, None}    \* the fetch fails, or the card is filled in
    /\ UNCHANGED <<fwData, reading, queue, overlapped>>
    /\ UNCHANGED <<connecting, flashing, device>>

\* The file input is on the card, until doFlash hides it.
PickFile(f) ==
    /\ fpc = "offered"
    /\ reading' = reading \cup {f}
    /\ UNCHANGED <<fwData, manifest, card, queue, overlapped>>
    /\ UNCHANGED <<connecting, flashing, device>>

FileRead_Unchecked(f) ==
    /\ f \in reading
    /\ reading' = reading \ {f}
    /\ fwData' = f /\ card' = f
    /\ UNCHANGED <<manifest, queue, overlapped>>
    /\ UNCHANGED <<connecting, flashing, device>>

\* reader.onload: a file that is refused leaves no firmware and the card as is.
FileRead(f) ==
    /\ f \in reading
    /\ reading' = reading \ {f}
    /\ \/ f \in Good /\ fwData' = f /\ card' = f
       \/ f \in Bad /\ fwData' = None /\ card' = card
    /\ UNCHANGED <<manifest, queue, overlapped>>
    /\ UNCHANGED <<connecting, flashing, device>>

-------------------------------------------------------------------------------
(***************************************************************************)
(* doFlash.                                                                *)
(***************************************************************************)

\* The next exchange of doFlash, on object o; or the call throws and the error
\* is shown.
FlashGoesOn(step, at, o, rest) ==
    \/ /\ Usable(o, obj)
       /\ queue' = Append(rest, Request("flash", o, obj))
       /\ fpc' = step
       /\ chunk' = at
    \/ /\ ~Usable(o, obj)
       /\ queue' = rest
       /\ fpc' = "error"
       /\ chunk' = 1

\* loadFirmware takes what there is, or starts the download.
ClickFlash ==
    /\ Starts
    /\ fpc = "offered"
    /\ \/ /\ fwData # None
          /\ fw' = fwData
          /\ FlashGoesOn("erase", 1, isp, queue)
       \/ /\ fwData = None
          /\ fpc' = "download"
          /\ UNCHANGED <<fw, chunk, queue>>
    /\ UNCHANGED <<connecting, firmware, device>>

\* The site serves some binary, perhaps another one each time.
Downloaded ==
    /\ fpc = "download"
    /\ \E f \in Binaries :
          \/ /\ f \in Good
             /\ fwData' = f
             /\ fw' = f
             /\ FlashGoesOn("erase", 1, isp, queue)
          \/ /\ f \in Bad
             /\ fwData' = None
             /\ fpc' = "error"
             /\ UNCHANGED <<fw, chunk, queue>>
    /\ UNCHANGED <<reading, manifest, card, overlapped>>
    /\ UNCHANGED <<connecting, device>>

DownloadFails ==
    /\ fpc = "download"
    /\ fpc' = "error"
    /\ UNCHANGED <<fw, chunk, queue>>
    /\ UNCHANGED <<connecting, choice, device>>

EraseDone ==
    /\ Answered("flash") /\ fpc = "erase"
    /\ flash' = [i \in Chunks |-> Erased]
    /\ FlashGoesOn("program", 1, isp, Tail(queue))
    /\ UNCHANGED <<fw, plugged, session, devKey>>
    /\ UNCHANGED <<connecting, choice>>

\* What the device makes of the chunk it was sent.
Decoded == <<fw, Xor(Head(queue).key, devKey)>>

ChunkProgrammed_OneMore ==
    /\ Answered("flash") /\ fpc = "program"
    /\ \E cell \in {Decoded, Junk} : flash' = [flash EXCEPT ![chunk] = cell]
    /\ \/ chunk <= NumChunks /\ FlashGoesOn("program", chunk + 1, Head(queue).on, Tail(queue))
       \/ chunk > NumChunks /\ FlashGoesOn("verify", 1, isp, Tail(queue))
    /\ UNCHANGED <<fw, plugged, session, devKey>>
    /\ UNCHANGED <<connecting, choice>>

\* program keeps to the object it was called on; verify is looked up anew.
ChunkProgrammed ==
    /\ Answered("flash") /\ fpc = "program"
    /\ \E cell \in {Decoded, Junk} : flash' = [flash EXCEPT ![chunk] = cell]
    /\ \/ chunk < NumChunks /\ FlashGoesOn("program", chunk + 1, Head(queue).on, Tail(queue))
       \/ chunk = NumChunks /\ FlashGoesOn("verify", 1, isp, Tail(queue))
    /\ UNCHANGED <<fw, plugged, session, devKey>>
    /\ UNCHANGED <<connecting, choice>>

ChunkVerified_OneShort ==
    /\ Answered("flash") /\ fpc = "verify"
    /\ flash[chunk] = Decoded
    /\ \/ chunk < NumChunks - 1 /\ FlashGoesOn("verify", chunk + 1, Head(queue).on, Tail(queue))
       \/ chunk >= NumChunks - 1 /\ FlashGoesOn("end", 1, isp, Tail(queue))
    /\ UNCHANGED fw
    /\ UNCHANGED <<connecting, choice, device>>

ChunkVerified ==
    /\ Answered("flash") /\ fpc = "verify"
    /\ flash[chunk] = Decoded
    /\ \/ chunk < NumChunks /\ FlashGoesOn("verify", chunk + 1, Head(queue).on, Tail(queue))
       \/ chunk = NumChunks /\ FlashGoesOn("end", 1, isp, Tail(queue))
    /\ UNCHANGED fw
    /\ UNCHANGED <<connecting, choice, device>>

\* The device resets.  reset ignores what becomes of the answer, so a device
\* that goes once the command is sent counts as well.
Ended ==
    /\ queue # <<>> /\ Head(queue).by = "flash" /\ fpc = "end"
    /\ plugged' = (plugged /\ ~Usable(Head(queue).on, obj))
    /\ fpc' = "success"
    /\ queue' = Tail(queue)
    /\ UNCHANGED <<fw, chunk, session, devKey, flash>>
    /\ UNCHANGED <<connecting, choice>>

FlashFails_Uncaught ==
    /\ queue # <<>> /\ Head(queue).by = "flash"
    /\ \/ ~Usable(Head(queue).on, obj) /\ UNCHANGED flash
       \/ Usable(Head(queue).on, obj) /\ fpc = "erase" /\ UNCHANGED flash
       \/ /\ Usable(Head(queue).on, obj) /\ fpc = "program"
          /\ \E cell \in {flash[chunk], Junk} : flash' = [flash EXCEPT ![chunk] = cell]
       \/ Usable(Head(queue).on, obj) /\ fpc = "verify" /\ UNCHANGED flash
    /\ queue' = Tail(queue)
    /\ UNCHANGED <<fpc, fw, chunk, plugged, session, devKey>>
    /\ UNCHANGED <<connecting, choice>>

\* The device is gone, or answers with a failure; the error is shown.
FlashFails ==
    /\ queue # <<>> /\ Head(queue).by = "flash"
    /\ \/ ~Usable(Head(queue).on, obj) /\ UNCHANGED flash
       \/ Usable(Head(queue).on, obj) /\ fpc = "erase" /\ UNCHANGED flash
       \/ /\ Usable(Head(queue).on, obj) /\ fpc = "program"
          /\ \E cell \in {flash[chunk], Junk} : flash' = [flash EXCEPT ![chunk] = cell]
       \/ Usable(Head(queue).on, obj) /\ fpc = "verify" /\ UNCHANGED flash
    /\ queue' = Tail(queue)
    /\ fpc' = "error" /\ chunk' = 1
    /\ UNCHANGED <<fw, plugged, session, devKey>>
    /\ UNCHANGED <<connecting, choice>>

\* The Retry button, which an error shows, loads the page again.
Retry ==
    /\ fpc = "error"
    /\ isp' = None /\ obj' = NoObjects /\ cpc' = Unused
    /\ fpc' = "hidden" /\ fw' = None /\ chunk' = 1
    /\ fwData' = None /\ reading' = {} /\ manifest' = TRUE /\ card' = None
    /\ queue' = <<>> /\ overlapped' = FALSE
    /\ UNCHANGED device

-------------------------------------------------------------------------------
(***************************************************************************)
(* The cable.                                                              *)
(***************************************************************************)
Unplug ==
    /\ plugged
    /\ plugged' = FALSE
    /\ UNCHANGED <<queue, session, devKey, flash>>
    /\ UNCHANGED <<connecting, flashing, choice>>

\* In bootloader mode; the objects opened before are of no use any more.
Plug ==
    /\ ~plugged
    /\ session < MaxSessions
    /\ plugged' = TRUE
    /\ session' = session + 1
    /\ devKey' = 0
    /\ UNCHANGED <<queue, flash>>
    /\ UNCHANGED <<connecting, flashing, choice>>

Answer ==
    \/ \E c \in Clicks : Identified(c) \/ Configured(c) \/ ConnectRefused(c)
    \/ \E c \in Clicks, k \in Keys : KeySet(c, k)
    \/ EraseDone \/ ChunkProgrammed \/ ChunkVerified \/ Ended \/ FlashFails

Next ==
    \/ \E c \in Clicks : ClickConnect(c)
    \/ \E c \in Clicks : Opened(c)
    \/ \E c \in Clicks : OpenFails(c)
    \/ Answer
    \/ ManifestLoaded
    \/ \E f \in Binaries : PickFile(f)
    \/ \E f \in Binaries : FileRead(f)
    \/ ClickFlash
    \/ Downloaded
    \/ DownloadFails
    \/ Retry
    \/ Unplug
    \/ Plug

\* A transfer is answered or refused, and a fetch comes to an end.
Spec ==
    /\ Init /\ [][Next]_vars
    /\ WF_vars(Answer) /\ WF_vars(Downloaded \/ DownloadFails)

-------------------------------------------------------------------------------
(***************************************************************************)
(* Properties.                                                             *)
(***************************************************************************)

\* "Firmware written and verified" (index.html:134): when the page says so the
\* device holds, chunk by chunk, the firmware doFlash set out with, whatever
\* the device stored wrongly, and whichever of several connections, keys and
\* page loads came before.  A user who clicks Connect while a connect or a flash
\* runs can break it: two clicks may set the device's key, and doFlash goes over
\* to another connection's object half way.
SuccessMeansWritten ==
    fpc = "success" /\ ~overlapped => flash = [i \in Chunks |-> <<fw, 0>>]

\* No part of a binary that fails the size and placeholder tests ever reaches
\* the device, by whatever way it got into fwData (main.js:95-101, 198-199).
OnlyCheckedFirmware ==
    \A i \in Chunks : flash[i] \notin Bad \X Keys

\* A flash that was started comes to a result the user sees, although the
\* device may vanish and the connection be replaced under it.
FlashEnds == fpc \in Flashing ~> fpc \in {"success", "error"}

\* docs/flasher/README.md:265-269: the card shows the name of a custom file, and
\* Flash then writes it.  So once the card names a file, that is the firmware a
\* flash sets out with.
CardIsFlashed ==
    [][fpc' = "erase" /\ fpc # "erase" /\ card # None => fw' = card]_vars
===============================================================================
