------------------------------ MODULE MCDispatch -----------------------------
(***************************************************************************)
(* The reports for model-checking Dispatch.  A command is written down     *)
(* with what the host means by it; a report is a batch of commands,        *)
(* encoded, with something after it: padding, or bytes that are no         *)
(* command.                                                                *)
(***************************************************************************)
EXTENDS Dispatch

Cmd(id, data, does) == [id |-> id, data |-> data, does |-> does]
None == [op |-> "none"]
Draw(call) == [op |-> "draw", call |-> call]
Import(p) == [op |-> "import", payload |-> p]
StepA == <<4, 0, 4, 0>>

DefineA == Cmd(136, <<0, 0, 1>> \o StepA, [op |-> "define", slot |-> 0, prog |-> StepA])
DefineNone == Cmd(136, <<0, 0, 0>>, [op |-> "define", slot |-> 0, prog |-> <<>>])
RunIt == Cmd(137, <<0, 0>>, [op |-> "run", slot |-> 0])
StopIt == Cmd(138, <<>>, [op |-> "stop"])
Export == Cmd(139, <<>>, None)
ImportLong == Cmd(140, <<9, 8, 7, 6>>, Import(<<9, 8, 7, 6>>))
ImportShort == Cmd(140, <<5>>, Import(<<5>>))
Fill == Cmd(131, <<1, 2, 1, 3, 0, 4, 0, 5, 0, 9>>, Draw(<<"fill", 1, 258, 3, 4, 5, TRUE>>))
Text == Cmd(130, <<2, 6, 7, 65, 66, 67>>, Draw(<<"text", 2, 6, 7, <<65, 66>> >>))
Ping == Cmd(128, <<4, 4>>, None)

Rejected ==
    { Cmd(128, <<1>>, None), Cmd(130, <<1, 2>>, None), Cmd(131, <<1, 0, 0, 0, 0, 4, 0, 0, 0, 1>>, None),
      Cmd(132, <<1, 2, 3, 4>>, None), Cmd(136, <<0, 0, 1, 4, 0>>, None),
      Cmd(136, <<0, 0, 2>> \o StepA \o StepA, None), Cmd(136, <<0, 1, 1>> \o StepA, None),
      Cmd(137, <<0>>, None), Cmd(137, <<0, 1>>, None), Cmd(140, <<>>, None), Cmd(141, <<>>, None),
      Cmd(130, <<16, 0, 0, 65>>, None), Cmd(131, <<16, 0, 0, 0, 0, 4, 0, 4, 0, 1>>, None),
      Cmd(132, <<16, 0, 0, 8, 1, 85>>, None), Cmd(132, <<1, 0, 0, 0, 1, 85>>, None),
      Cmd(132, <<1, 0, 0, 8, 0, 85>>, None) }
Singles ==
    Rejected \cup { Cmd(c, <<>>, None) : c \in {0, 1, 2, 3, 129, 135, 255} }
    \cup { DefineA, DefineNone, RunIt, StopIt, Export, ImportLong, ImportShort, Fill, Text, Ping,
           Cmd(131, <<1, 2, 0, 3, 1, 4, 0, 5, 1, 0>>, Draw(<<"fill", 1, 2, 3, 4, 5, FALSE>>)),
           Cmd(132, <<1, 2, 3, 9, 1, 85, 85>>, Draw(<<"bitmap", 1, 2, 3, 9, 1, 2, <<85, 85>> >>)),
           Cmd(132, <<15, 2, 3, 9, 2, 1, 2, 3, 4>>, Draw(<<"bitmap", 15, 2, 3, 9, 2, 2, <<1, 2, 3>> >>)),
           Cmd(133, <<>>, Draw(<<"clear">>)), Cmd(134, <<>>, Draw(<<"invalidate">>)) }
Batches ==
    { <<c>> : c \in Singles }
    \cup { <<DefineA, RunIt>>, <<StopIt, DefineNone>>, <<RunIt, RunIt>>, <<ImportLong, Export>>,
           <<ImportShort, ImportLong, Export>>, <<Text, Ping, Fill>>, <<>> }

ASSUME MeaningsAssumption == \A c \in Singles : Meaning(c) = c.does

\* Commands of a batch are told apart by their index.
Body(batch) == FlattenSeq([i \in DOMAIN batch |->
    LittleEndian(4 + Len(batch[i].data)) \o <<batch[i].id, 40 + i>> \o batch[i].data])
Indexed(batch) == [i \in DOMAIN batch |->
    [at |-> 5 + Len(Body(SubSeq(batch, 1, i - 1))), id |-> batch[i].id, index |-> 40 + i,
     data |-> batch[i].data]]
Encoded(body) == codec_finalize_v3(<<33, 3, 0, 0>> \o body \o Zeros(Len(body) % 2))
Report(bytes, cmds) == [sent |-> bytes, bytes |-> bytes, cmds |-> cmds]
Sent(batch, tail) == Report(Encoded(Body(batch) \o tail), Indexed(batch))

\* Padding, a length below the header's, one beyond the report, half a header.
Tails == { Zeros(6), <<3, 0, 128, 1>>, <<9, 0, 138, 1, 0>>, <<4, 0>> }

Damage(r) ==
    { [r EXCEPT !.bytes = b] :
        b \in { [r.bytes EXCEPT ![i] = (@ + 1) % 256] : i \in {3, 4, 7, 8, Len(r.bytes)} }
              \cup { SubSeq(r.bytes, 1, Len(r.bytes) - n) : n \in {1, 2} } }

MCReports ==
    { Sent(b, <<>>) : b \in Batches }
    \cup { Sent(<<StopIt, Ping>>, t) : t \in Tails }
    \cup Damage(Sent(<<RunIt, ImportShort>>, <<>>))
    \cup { Report(<<33, 3>>, <<>>) }
==============================================================================
