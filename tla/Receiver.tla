------------------------------- MODULE Receiver ------------------------------
(***************************************************************************)
(* The byte-wise receiver: codec_rx_push of protocol/codec.c, which puts   *)
(* commands together that span reports.  Each byte of a stream is pushed;  *)
(* a header that claims a length no command has, or that does not fit the  *)
(* buffer, is dropped, and the next byte begins a new command.             *)
(***************************************************************************)
EXTENDS Codec

CONSTANTS
    BufSize,     \* sizeof codec_rx_t.buf (256)
    Alphabet,    \* the bytes of the stream
    MaxBytes     \* bound: the length of the stream

ASSUME ReceiverAssumption ==
    /\ BufSize \in Nat /\ BufSize >= HID_CMD_HEADER_SIZE
    /\ Alphabet \subseteq Bytes /\ MaxBytes \in Nat

VARIABLES
    buf,         \* codec_rx_t.buf[0 .. len - 1]
    need,        \* codec_rx_t.need
    stream,      \* history: the bytes pushed
    delivered    \* history: the commands handed out, each with its start

vars == <<buf, need, stream, delivered>>

Init == buf = <<>> /\ need = 0 /\ stream = <<>> /\ delivered = {}

\* The buffer with the byte in it; a full one is emptied first.
Pushed(byte) == Append(IF Len(buf) >= BufSize THEN <<>> ELSE buf, byte)
Whole(b) == Len(b) >= HID_CMD_HEADER_SIZE

WellFormed_NoLimit(length) == length >= HID_CMD_HEADER_SIZE
WellFormed(length) == length >= HID_CMD_HEADER_SIZE /\ length <= BufSize

HeaderIncomplete(b) ==
    /\ ~Whole(b)
    /\ buf' = b
    /\ UNCHANGED <<need, delivered>>

Malformed_KeepsByte(b) ==
    /\ Whole(b) /\ ~WellFormed(U16(b, 1))
    /\ buf' = SubSeq(b, Len(b), Len(b))
    /\ UNCHANGED <<need, delivered>>

Malformed(b) ==
    /\ Whole(b) /\ ~WellFormed(U16(b, 1))
    /\ buf' = <<>>
    /\ UNCHANGED <<need, delivered>>

NeedsMore(b) ==
    /\ Whole(b) /\ WellFormed(U16(b, 1)) /\ Len(b) < U16(b, 1)
    /\ buf' = b
    /\ need' = U16(b, 1)
    /\ UNCHANGED delivered

Complete(b) ==
    /\ Whole(b) /\ WellFormed(U16(b, 1)) /\ Len(b) >= U16(b, 1)
    /\ delivered' = delivered \cup
         {[start |-> Len(stream) + 1 - Len(b), bytes |-> SubSeq(b, 1, U16(b, 1))]}
    /\ buf' = <<>>
    /\ UNCHANGED need

codec_rx_push(byte) ==
    /\ stream' = Append(stream, byte)
    /\ \/ HeaderIncomplete(Pushed(byte)) \/ Malformed(Pushed(byte))
       \/ NeedsMore(Pushed(byte)) \/ Complete(Pushed(byte))

Next == Len(stream) < MaxBytes /\ \E byte \in Alphabet : codec_rx_push(byte)

Spec == Init /\ [][Next]_vars

-------------------------------------------------------------------------------
(***************************************************************************)
(* Properties.                                                             *)
(***************************************************************************)

\* Between two pushes the buffer is a proper part of a command that fits it, so
\* that the overflow branch (codec.c:141) is never taken and no byte is lost.
BufferIsPartOfCommand ==
    /\ buf \in Seq(Bytes) /\ need \in 0 .. BufSize
    /\ Len(buf) < BufSize
    /\ Whole(buf) => WellFormed(U16(buf, 1)) /\ Len(buf) < U16(buf, 1) /\ need = U16(buf, 1)

\* Where the commands of a stream begin, read with all of it at hand: the next
\* one begins after a command, or after a header that cannot be one.
Advance(s, m) == IF WellFormed(U16(s, m + 1)) THEN U16(s, m + 1) ELSE HID_CMD_HEADER_SIZE
Begins(s) ==
    LET at[n \in 0 .. Len(s)] ==
            n = 0 \/ \E m \in 0 .. n - HID_CMD_HEADER_SIZE : at[m] /\ n = m + Advance(s, m)
    IN {n \in 0 .. Len(s) : at[n]}

CommandsOf(s) ==
    {[start |-> m, bytes |-> SubSeq(s, m + 1, m + U16(s, m + 1))] :
        m \in {n \in Begins(s) : /\ n + HID_CMD_HEADER_SIZE <= Len(s)
                                 /\ WellFormed(U16(s, n + 1))
                                 /\ n + U16(s, n + 1) <= Len(s)}}

\* The commands handed out are those of the stream, all of them, each as soon
\* as it is complete, also after any number of malformed headers.
CommandsAreTheStreams == delivered = CommandsOf(stream)
==============================================================================
