------------------------------- MODULE Dispatch ------------------------------
(***************************************************************************)
(* The command dispatcher: protocol/dispatch.c, on the bytes of a report,  *)
(* with the receive callback (pump.c) in front of it and one endpoint for  *)
(* the answers behind it.  hid_send refuses an answer while the host has   *)
(* not fetched the one before; the dispatcher ignores that.                *)
(*                                                                         *)
(* A batch is handled one command per step.  Of the configuration store the*)
(* dispatcher has the copy in RAM and the answer of a commit, which may be *)
(* either; what a commit leaves on flash is ConfigStorage's.  No code of   *)
(* the firmware ticks the macro interpreter (main.c:43-48), so a macro that*)
(* is run stays running.                                                   *)
(*                                                                         *)
(* The host is the other side of the protocol: it writes commands, which   *)
(* may be damaged on the way, and concludes what it can from the answers.  *)
(***************************************************************************)
EXTENDS Codec, SequencesExt

CONSTANTS
    Cap,          \* PROTOCOL_PACKET_SIZE (64)
    ExportMax,    \* bytes of an export (56)
    StepsPerSlot, \* MACRO_STEPS_PER_SLOT (24)
    MacroSlots,   \* MACRO_SLOTS (256)
    Layers,       \* DISPLAY_MAX_LAYERS (16)
    TextChars,    \* DISPLAY_TEXT_CHARS (32)
    BitmapBytes,  \* DISPLAY_BMP_BUF_BYTES (512)
    Reports       \* what may arrive: the bytes sent, those that arrive, the commands meant

ASSUME DispatchAssumption ==
    /\ Cap \in Nat /\ Cap % 4 = 0 /\ Cap >= 24 /\ Cap < ByteMod * ByteMod
    /\ ExportMax \in Nat /\ ExportMax <= Cap - 8
    /\ {StepsPerSlot, MacroSlots, TextChars, BitmapBytes} \subseteq Nat /\ Layers \in Bytes

VARIABLES
    report,       \* the report that is or was dispatched last
    cursor,       \* 0 before the checksum is verified, then a position, or Idle
    screen,       \* g_compositor is not NULL: display_init succeeded
    drawn,        \* the last call the compositor has accepted for this report
    slots,        \* the steps of each macro slot, as bytes
    running,      \* the slot that runs, or NoSlot
    live,         \* g_live.payload, as long as g_live.size says
    busy,         \* the endpoint holds an answer
    said,         \* history: the answers to this report, as a host decodes them
    known         \* history: what the host may conclude, {} where it cannot

macroVars == <<slots, running>>
vars == <<report, cursor, screen, drawn, macroVars, live, busy, said, known>>

Idle == -1
NoSlot == -1
Slots == 0 .. MacroSlots - 1
NoReport == [sent |-> <<>>, bytes |-> <<>>, cmds |-> <<>>]
Intact == report.bytes = report.sent

Init ==
    /\ report = NoReport /\ cursor = Idle /\ said = <<>> /\ busy = FALSE
    /\ screen \in BOOLEAN /\ drawn = <<>>
    /\ slots = [s \in Slots |-> <<>>] /\ running = NoSlot
    /\ live = <<>>
    /\ known = [slots |-> [s \in Slots |-> {<<>>}], running |-> {NoSlot},
                config |-> {}, drawn |-> {<<>>}]

-------------------------------------------------------------------------------
(***************************************************************************)
(* Commands.  v is a command as cmd_iter_next reads it, or as a host means *)
(* it: an id, an index and data.                                           *)
(***************************************************************************)
RESP == [OK |-> 0, ERR_DATA |-> 3, ERR_CHECKSUM |-> 4, ERR_UNKNOWN_CMD |-> 5, ERR_BAD_LEN |-> 6]
CMD == [V2_INFO |-> 0, V2_DEVICE_NAME |-> 1, V2_SYSINFO |-> 2, V2_SETTING |-> 3,
        PING |-> 128, INFO |-> 129, TEXT |-> 130, RECT |-> 131, BMP |-> 132, CLEAR |-> 133,
        FLUSH |-> 134, MODE |-> 135, MACRO_DEFINE |-> 136, MACRO_RUN |-> 137,
        MACRO_STOP |-> 138, CONFIG_EXPORT |-> 139, CONFIG_IMPORT |-> 140, BOOTLOADER |-> 255]

Take(data, from, n) == SubSeq(data, from, IF Len(data) < from + n - 1 THEN Len(data) ELSE from + n - 1)

\* The call that the compositor carries out, or none when the data are too
\* short, a rectangle or a bitmap is empty, or there is no such layer.  The
\* compositor takes rows and heights as u8, and of a bitmap as many bytes as it
\* has room for; when the command holds fewer it copies what lies behind them,
\* which is not noted.
Stride(w) == (w + 7) \div 8
BitmapData(d) ==
    LET total == Stride(d[4]) * d[5]
    IN Take(d, 6, IF total > BitmapBytes THEN BitmapBytes ELSE total)

Call(v) ==
    LET d == v.data
    IN CASE v.id = CMD.TEXT /\ Len(d) >= 3 /\ d[1] < Layers ->
              <<"text", d[1], d[2], d[3], Take(d, 4, TextChars)>>
         [] /\ v.id = CMD.RECT /\ Len(d) >= 10 /\ d[1] < Layers
            /\ U16(d, 6) # 0 /\ U16(d, 8) # 0 ->
              <<"fill", d[1], U16(d, 2), d[4], U16(d, 6), d[8], d[10] # 0>>
         [] v.id = CMD.BMP /\ Len(d) >= 5 /\ d[1] < Layers /\ d[4] # 0 /\ d[5] # 0 ->
              <<"bitmap", d[1], d[2], d[3], d[4], d[5], Stride(d[4]), BitmapData(d)>>
         [] v.id = CMD.CLEAR -> <<"clear">>
         [] v.id = CMD.FLUSH -> <<"invalidate">>
         [] OTHER -> <<>>

-------------------------------------------------------------------------------
(***************************************************************************)
(* The host.                                                               *)
(***************************************************************************)

\* What a well-formed command is to do, as far as the host keeps track of it.
Meaning(c) ==
    LET d == c.data
    IN CASE /\ c.id = CMD.MACRO_DEFINE
            /\ Len(d) >= 3 /\ U16(d, 1) < MacroSlots
            /\ d[3] <= StepsPerSlot /\ Len(d) >= 3 + 4 * d[3] ->
              [op |-> "define", slot |-> U16(d, 1), prog |-> SubSeq(d, 4, 3 + 4 * d[3])]
         [] c.id = CMD.MACRO_RUN /\ Len(d) >= 2 /\ U16(d, 1) < MacroSlots ->
              [op |-> "run", slot |-> U16(d, 1)]
         [] c.id = CMD.MACRO_STOP -> [op |-> "stop"]
         [] c.id = CMD.CONFIG_IMPORT /\ d # <<>> -> [op |-> "import", payload |-> d]
         [] c.id \in CMD.TEXT .. CMD.FLUSH /\ Call(c) # <<>> -> [op |-> "draw", call |-> Call(c)]
         [] OTHER -> [op |-> "none"]

Meant == report.cmds[Len(said) + 1]

\* What the host knows after the answer to the command `does`: nothing certain
\* when it was refused by the endpoint, no change when it reports an error.  An
\* import replaces the configuration in RAM whether or not it could be stored.
Concludes(does, heard, ok) ==
    LET known_(v) == IF heard THEN {v} ELSE {}
        changed == ok \/ ~heard
    IN CASE does.op = "define" /\ changed -> [known EXCEPT !.slots[does.slot] = known_(does.prog)]
         [] does.op = "run" /\ changed -> [known EXCEPT !.running = known_(does.slot)]
         [] does.op = "stop" -> [known EXCEPT !.running = known_(NoSlot)]
         [] does.op = "import" -> [known EXCEPT !.config = known_(does.payload)]
         [] does.op = "draw" -> [known EXCEPT !.drawn = known_(does.call)]
         [] OTHER -> known

Learn(payload) ==
    known' = IF Intact /\ Len(said) < Len(report.cmds)
             THEN Concludes(Meaning(Meant), ~busy, payload \in {<<>>, <<0>>}) ELSE known

HostFetches == busy /\ busy' = FALSE /\ UNCHANGED <<report, cursor, screen, drawn,
                                                    macroVars, live, said, known>>

\* What a host reads in an answer: ok if it verifies and holds one command.
Decoded(p) ==
    LET cmd == CommandAt(p, HID_OFF_CMDS + 1)
        rest == SubSeq(p, HID_OFF_CMDS + cmd.length + 1, Len(p))
    IN [id |-> cmd.id, index |-> cmd.index, data |-> cmd.data,
        ok |-> codec_verify_v3(p) /\ rest = Zeros(Len(rest)) /\ Len(p) % 4 = 0]

\* One answer more than commands were meant is enough to see one too many.
send_resp(id, index, payload) ==
    \E p \in {codec_build_response(Cap, id, index, payload)} :
        /\ busy' = (busy \/ p # <<>>)
        /\ said' = IF p = <<>> \/ Len(said) > Len(report.cmds) THEN said
                   ELSE Append(said, Decoded(p))
        /\ Learn(payload)

-------------------------------------------------------------------------------
(***************************************************************************)
(* The handlers.                                                           *)
(***************************************************************************)
Respond(v, payload) == send_resp(v.id, v.index, payload)

\* Commands that read nothing but their own bytes.  The legacy Info answers
\* with the id of the v3 one (dispatch.c:82); the request for the bootloader
\* comes before its answer and does nothing unless the target provides it.
FixedAnswers == {CMD.V2_INFO, CMD.V2_DEVICE_NAME, CMD.V2_SYSINFO, CMD.V2_SETTING,
                 CMD.INFO, CMD.MODE, CMD.BOOTLOADER}
FixedAnswer(id) ==
    CASE id \in {CMD.V2_INFO, CMD.INFO} -> <<1, 0, Layers, 0>>
      [] id = CMD.V2_DEVICE_NAME -> [i \in 1 .. 13 |-> 46]
      [] id = CMD.V2_SYSINFO -> <<128, 0, 32, 0, 30>> \o Zeros(7)
      [] id = CMD.V2_SETTING -> Zeros(8)
      [] OTHER -> <<>>
AnswerId(id) == IF id = CMD.V2_INFO THEN CMD.INFO ELSE id

Fixed(v) ==
    /\ v.id \in FixedAnswers
    /\ send_resp(AnswerId(v.id), v.index, FixedAnswer(v.id))
    /\ UNCHANGED <<drawn, macroVars, live>>

h_ping(v) ==
    /\ v.id = CMD.PING
    /\ Respond(v, IF Len(v.data) >= 2 THEN SubSeq(v.data, 1, 2) ELSE <<0, 0>>)
    /\ UNCHANGED <<drawn, macroVars, live>>

h_display(v) ==
    /\ v.id \in CMD.TEXT .. CMD.FLUSH
    /\ drawn' = IF screen /\ Call(v) # <<>> THEN Call(v) ELSE drawn
    /\ Respond(v, <<>>)
    /\ UNCHANGED <<macroVars, live>>

DefineStatus_NoLimit(d) ==
    CASE Len(d) < 3 -> RESP.ERR_BAD_LEN
      [] Len(d) >= 3 /\ Len(d) < 3 + 4 * d[3] -> RESP.ERR_BAD_LEN
      [] OTHER -> IF U16(d, 1) < MacroSlots THEN RESP.OK ELSE RESP.ERR_DATA

DefineStatus(d) ==
    CASE Len(d) < 3 -> RESP.ERR_BAD_LEN
      [] Len(d) >= 3 /\ (Len(d) < 3 + 4 * d[3] \/ d[3] > StepsPerSlot) -> RESP.ERR_BAD_LEN
      [] OTHER -> IF U16(d, 1) < MacroSlots THEN RESP.OK ELSE RESP.ERR_DATA

h_macro_define(v) ==
    /\ v.id = CMD.MACRO_DEFINE
    /\ slots' = IF DefineStatus(v.data) # RESP.OK THEN slots
                ELSE [slots EXCEPT ![U16(v.data, 1)] = SubSeq(v.data, 4, 3 + 4 * v.data[3])]
    /\ Respond(v, <<DefineStatus(v.data)>>)
    /\ UNCHANGED <<drawn, running, live>>

RunStatus(d) ==
    IF Len(d) < 2 THEN RESP.ERR_BAD_LEN
    ELSE IF U16(d, 1) \in Slots /\ running = NoSlot
         THEN IF slots[U16(d, 1)] # <<>> THEN RESP.OK ELSE RESP.ERR_DATA
         ELSE RESP.ERR_DATA

h_macro_run_Restarts(v) ==
    /\ v.id = CMD.MACRO_RUN
    /\ running' = IF Len(v.data) >= 2 THEN U16(v.data, 1) ELSE running
    /\ Respond(v, <<RunStatus(v.data)>>)
    /\ UNCHANGED <<drawn, slots, live>>

h_macro_run(v) ==
    /\ v.id = CMD.MACRO_RUN
    /\ running' = IF RunStatus(v.data) = RESP.OK THEN U16(v.data, 1) ELSE running
    /\ Respond(v, <<RunStatus(v.data)>>)
    /\ UNCHANGED <<drawn, slots, live>>

h_macro_stop(v) ==
    /\ v.id = CMD.MACRO_STOP
    /\ running' = NoSlot
    /\ Respond(v, <<>>)
    /\ UNCHANGED <<drawn, slots, live>>

h_config_export(v) ==
    /\ v.id = CMD.CONFIG_EXPORT
    /\ Respond(v, IF live # <<>> THEN Take(live, 1, ExportMax) ELSE <<RESP.ERR_DATA>>)
    /\ UNCHANGED <<drawn, macroVars, live>>

h_config_import_KeepsSize(v) ==
    /\ v.id = CMD.CONFIG_IMPORT
    /\ live' = v.data \o SubSeq(live, Len(v.data) + 1, Len(live))
    /\ Respond(v, <<RESP.OK>>)
    /\ UNCHANGED <<drawn, macroVars>>

\* g_live is changed before storage_commit says whether it could be stored.
h_config_import(v) ==
    /\ v.id = CMD.CONFIG_IMPORT
    /\ \/ /\ v.data = <<>>
          /\ Respond(v, <<RESP.ERR_BAD_LEN>>)
          /\ UNCHANGED live
       \/ /\ v.data # <<>>
          /\ live' = v.data
          /\ Respond(v, <<RESP.OK>>) \/ Respond(v, <<RESP.ERR_DATA>>)
    /\ UNCHANGED <<drawn, macroVars>>

Unknown(v) ==
    /\ v.id \notin {CMD[c] : c \in DOMAIN CMD}
    /\ Respond(v, <<RESP.ERR_UNKNOWN_CMD>>)
    /\ UNCHANGED <<drawn, macroVars, live>>

-------------------------------------------------------------------------------
(***************************************************************************)
(* What may arrive: a report whose bytes are the commands of a batch, one  *)
(* behind the other from the first on, and after them nothing that could   *)
(* be one; or the same with one byte changed, without its last byte, or    *)
(* without a last word that is not zero.  Something shorter than the       *)
(* header of a report holds no command.                                    *)
(***************************************************************************)
CommandBytes(c) == LittleEndian(HID_CMD_HEADER_SIZE + Len(c.data)) \o <<c.id, c.index>> \o c.data

\* Where the bytes of the first n commands of a report end, plus one.
After(r, n) ==
    IF n = 0 THEN HID_OFF_CMDS + 1
    ELSE r.cmds[n].at + HID_CMD_HEADER_SIZE + Len(r.cmds[n].data)

CommandsFollow(r) ==
    \A i \in 1 .. Len(r.cmds) :
       /\ r.cmds[i].at = After(r, i - 1) /\ After(r, i) <= Len(r.sent) + 1
       /\ SubSeq(r.sent, r.cmds[i].at, After(r, i) - 1) = CommandBytes(r.cmds[i])

NothingFollows(p, e) ==
    \/ Len(p) - e + 1 < HID_CMD_HEADER_SIZE
    \/ U16(p, e) < HID_CMD_HEADER_SIZE
    \/ U16(p, e) > Len(p) - e + 1

Batch(r) ==
    /\ Framed(r.sent) /\ codec_finalize_v3(r.sent) = r.sent
    /\ CommandsFollow(r) /\ NothingFollows(r.sent, After(r, Len(r.cmds)))

Damaged(p, b) ==
    \/ \E i \in 1 .. Len(p) : i <= Len(b) /\ b[i] # p[i] /\ b = [p EXCEPT ![i] = b[i]]
    \/ b = SubSeq(p, 1, Len(p) - 1)
    \/ Len(p) > HID_OFF_CMDS /\ U16(p, Len(p) - 1) # 0 /\ b = SubSeq(p, 1, Len(p) - 2)

\* A report is shorter than CONFIG_PAYLOAD_MAX, so that an import is never cut.
CONFIG_PAYLOAD_MAX == 4096
CommandType == [at : Nat, id : Bytes, index : Bytes, data : Seq(Bytes)]
ReportType == [sent : Seq(Bytes), bytes : Seq(Bytes), cmds : Seq(CommandType)]

ASSUME ReportsAssumption ==
    \A r \in Reports :
       /\ r \in ReportType /\ Len(r.sent) < CONFIG_PAYLOAD_MAX
       /\ Batch(r) \/ (Len(r.sent) < HID_OFF_CMDS /\ r.cmds = <<>>)
       /\ r.bytes = r.sent \/ Damaged(r.sent, r.bytes)

-------------------------------------------------------------------------------
(***************************************************************************)
(* protocol_dispatch.                                                      *)
(***************************************************************************)
HostSends(r) ==
    /\ cursor = Idle
    /\ report' = r /\ cursor' = 0 /\ said' = <<>> /\ drawn' = <<>>
    /\ known' = [known EXCEPT !.drawn = {<<>>}]
    /\ UNCHANGED <<screen, macroVars, live, busy>>

TooShort ==
    /\ cursor = 0 /\ Len(report.bytes) < HID_OFF_CMDS
    /\ cursor' = Idle
    /\ UNCHANGED <<drawn, macroVars, live, busy, said, known>>

BadChecksum ==
    /\ cursor = 0 /\ Len(report.bytes) >= HID_OFF_CMDS
    /\ ~codec_verify_v3(report.bytes)
    /\ cursor' = Idle
    /\ send_resp(0, 0, <<RESP.ERR_CHECKSUM>>)
    /\ UNCHANGED <<drawn, macroVars, live>>

GoodChecksum ==
    /\ cursor = 0 /\ codec_verify_v3(report.bytes)
    /\ cursor' = HID_OFF_CMDS + 1
    /\ UNCHANGED <<drawn, macroVars, live, busy, said, known>>

Handle(v) ==
    \/ Fixed(v) \/ h_ping(v) \/ h_display(v)
    \/ h_macro_define(v) \/ h_macro_run(v) \/ h_macro_stop(v)
    \/ h_config_export(v) \/ h_config_import(v) \/ Unknown(v)

Command ==
    /\ cursor > 0 /\ HasCommand(report.bytes, cursor)
    /\ cursor' = cursor + CommandAt(report.bytes, cursor).length
    /\ \E v \in {CommandAt(report.bytes, cursor)} : Handle(v)

NoMoreCommands ==
    /\ cursor > 0 /\ ~HasCommand(report.bytes, cursor)
    /\ cursor' = Idle
    /\ UNCHANGED <<drawn, macroVars, live, busy, said, known>>

Dispatching ==
    /\ TooShort \/ BadChecksum \/ GoodChecksum \/ Command \/ NoMoreCommands
    /\ UNCHANGED <<report, screen>>

Next ==
    \/ \E r \in Reports : HostSends(r)
    \/ Dispatching
    \/ HostFetches

\* The dispatcher is ordinary code: it goes on until it returns.
Spec == Init /\ [][Next]_vars /\ WF_vars(Dispatching)

-------------------------------------------------------------------------------
(***************************************************************************)
(* Properties.                                                             *)
(***************************************************************************)
TypeOK ==
    /\ report \in Reports \cup {NoReport}
    /\ cursor \in Idle .. Len(report.bytes) + 1
    /\ slots \in [Slots -> Seq(Bytes)] /\ running \in Slots \cup {NoSlot}
    /\ live \in Seq(Bytes)
    /\ screen \in BOOLEAN /\ busy \in BOOLEAN

AnswerTo(cmd) ==
    [id |-> IF cmd.id = CMD.V2_INFO THEN CMD.INFO ELSE cmd.id, index |-> cmd.index]
Expected ==
    IF Len(report.bytes) < HID_OFF_CMDS THEN <<>>
    ELSE IF Intact THEN [i \in DOMAIN report.cmds |-> AnswerTo(report.cmds[i])]
    ELSE << [id |-> 0, index |-> 0] >>

\* Each command of an intact report, wherever it is in a batch and whatever
\* follows the batch, is answered once, in order, with its index and its id
\* (the legacy Info excepted), by a packet that verifies; a damaged report gets
\* one answer (FIRMWARE_DEV_PLAN.md:745, "batched commands all dispatched;
\* response indices match request").
EveryCommandAnswered ==
    LET got == [i \in DOMAIN said |-> [id |-> said[i].id, index |-> said[i].index]]
    IN /\ IsPrefix(got, Expected)
       /\ cursor = Idle => got = Expected
       /\ \A i \in DOMAIN said : said[i].ok

\* Whatever answers the endpoint refuses and however commands are batched and
\* repeated, what a host may conclude from the answers it got is so: a macro it
\* defined, started or stopped, the configuration the device works with, and
\* the last thing it had drawn, if there is a screen (dispatch.c:53, :208-264).
\* Of a drawing the answer says nothing: the host has to know the compositor's
\* limits.
ConclusionsHold ==
    /\ \A s \in Slots : known.slots[s] \subseteq {slots[s]}
    /\ known.running \subseteq {running}
    /\ known.config \subseteq {live}
    /\ screen => known.drawn \subseteq {drawn}

\* While the host knows the configuration, an export gives it back, cut to what
\* fits a report: the last import, and no part of an older one, whether or not
\* it could be stored (dispatch.c:238-256).
ExportIsConfig ==
    LET n == Len(said)
    IN \A p \in known.config :
         (n > 0 /\ Intact /\ n <= Len(report.cmds))
            => (said[n].id = CMD.CONFIG_EXPORT => said[n].data = Take(p, 1, ExportMax))

\* A report that was damaged on the way changes nothing but the endpoint.
DamageChangesNothing ==
    [][Dispatching /\ ~Intact => UNCHANGED <<drawn, macroVars, live>>]_vars

\* The loop over a batch ends, whatever lengths the bytes of the report claim.
DispatchReturns == []<>(cursor = Idle)
==============================================================================
