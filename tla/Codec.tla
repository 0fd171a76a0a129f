-------------------------------- MODULE Codec --------------------------------
(***************************************************************************)
(* The v3 packet codec: protocol/codec.c.  A packet is a sequence of bytes *)
(* with the layout of hid.h: report id, echo, a checksum of two bytes, and *)
(* sub-commands of length (two bytes, with the header), id, index, data.   *)
(* Positions count from 1, so offset n of the code is position n + 1.      *)
(***************************************************************************)
EXTENDS Integers, Sequences

ByteMod == 256
Bytes == 0 .. ByteMod - 1
U16(p, i) == p[i] + ByteMod * p[i + 1]
LittleEndian(n) == <<n % ByteMod, (n \div ByteMod) % ByteMod>>
Zeros(n) == [i \in 1 .. n |-> 0]

HID_OFF_CMDS == 4
HID_CMD_HEADER_SIZE == 4
Framed(p) == Len(p) >= HID_OFF_CMDS /\ Len(p) % 2 = 0

codec_checksum_v3(p) ==
    LET sum[n \in 0 .. Len(p) \div 2] ==
            IF n = 0 THEN 0 ELSE (sum[n - 1] + U16(p, 2 * n - 1)) % (ByteMod * ByteMod)
    IN sum[Len(p) \div 2]

codec_finalize_v3(p) ==
    LET csum == LittleEndian(codec_checksum_v3([p EXCEPT ![3] = 0, ![4] = 0]))
    IN IF Framed(p) THEN [p EXCEPT ![3] = csum[1], ![4] = csum[2]] ELSE p

codec_verify_v3_LowByte(p) ==
    Framed(p) /\ U16(p, 3) % ByteMod = (codec_checksum_v3(p) - U16(p, 3)) % ByteMod

codec_verify_v3(p) ==
    Framed(p) /\ U16(p, 3) = (codec_checksum_v3(p) - U16(p, 3)) % (ByteMod * ByteMod)

\* cmd_iter_next at position c: whether a whole command begins there, and which.
HasCommand_NoFloor(p, c) ==
    /\ Len(p) - c + 1 >= HID_CMD_HEADER_SIZE
    /\ Len(p) - c + 1 >= U16(p, c)

HasCommand(p, c) ==
    /\ Len(p) - c + 1 >= HID_CMD_HEADER_SIZE
    /\ U16(p, c) >= HID_CMD_HEADER_SIZE
    /\ Len(p) - c + 1 >= U16(p, c)

CommandAt(p, c) ==
    [length |-> U16(p, c), id |-> p[c + 2], index |-> p[c + 3],
     data |-> SubSeq(p, c + HID_CMD_HEADER_SIZE, c + U16(p, c) - 1)]

\* The bytes handed to hid_send, or none when they do not fit.  The checksum is
\* taken over the whole buffer, whose rest is zero.
codec_build_response(cap, id, index, payload) ==
    LET total == HID_OFF_CMDS + HID_CMD_HEADER_SIZE + Len(payload)
        padded == 4 * ((total + 3) \div 4)
        packet == <<33, 3, 0, 0>> \o LittleEndian(HID_CMD_HEADER_SIZE + Len(payload))
                  \o <<id, index>> \o payload
    IN IF padded > cap THEN <<>>
       ELSE SubSeq(codec_finalize_v3(packet \o Zeros(cap - total)), 1, padded)
==============================================================================
