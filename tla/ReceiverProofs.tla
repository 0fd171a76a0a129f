---------------------------- MODULE ReceiverProofs ----------------------------
(***************************************************************************)
(* A theorem about Receiver, for any buffer that holds a header and any    *)
(* stream of bytes.                                                        *)
(***************************************************************************)
EXTENDS Receiver, SequenceTheorems, WellFoundedInduction, TLAPS

LEMMA EmptyIsPart == Bytes = 0 .. 255 /\ <<>> \in Seq(Bytes) /\ Len(<<>>) = 0 /\ ~Whole(<<>>)
BY DEF Bytes, ByteMod, Whole, HID_CMD_HEADER_SIZE

LEMMA BufferInit == Init => BufferIsPartOfCommand
BY EmptyIsPart, ReceiverAssumption DEF Init, BufferIsPartOfCommand, HID_CMD_HEADER_SIZE

\* The buffer with the next byte in it is not longer than the buffer's size.
LEMMA PushedFits ==
    ASSUME BufferIsPartOfCommand, NEW byte \in Bytes
    PROVE  /\ Pushed(byte) \in Seq(Bytes)
           /\ Len(Pushed(byte)) = Len(buf) + 1 /\ Len(Pushed(byte)) <= BufSize
<1>1. buf \in Seq(Bytes) /\ Len(buf) < BufSize /\ Len(buf) \in Nat /\ BufSize \in Nat
  BY ReceiverAssumption DEF BufferIsPartOfCommand
<1>2. Pushed(byte) = Append(buf, byte)
  BY <1>1 DEF Pushed
<1>3. QED
  BY <1>1, <1>2, AppendProperties

LEMMA BufferStep == BufferIsPartOfCommand /\ [Next]_vars => BufferIsPartOfCommand'
<1> SUFFICES ASSUME BufferIsPartOfCommand, [Next]_vars PROVE BufferIsPartOfCommand'
  OBVIOUS
<1>1. ASSUME NEW byte \in Alphabet, codec_rx_push(byte) PROVE BufferIsPartOfCommand'
  <2> DEFINE b == Pushed(byte)
  <2>1. b \in Seq(Bytes) /\ Len(b) \in Nat /\ Len(b) <= BufSize
    BY ReceiverAssumption, PushedFits
  <2>2. BufSize \in Nat /\ BufSize >= 4 /\ need \in 0 .. BufSize
    BY ReceiverAssumption DEF BufferIsPartOfCommand, HID_CMD_HEADER_SIZE
  <2> HIDE DEF b
  <2>3. CASE HeaderIncomplete(b)
    BY <2>1, <2>2, <2>3 DEF HeaderIncomplete, BufferIsPartOfCommand, Whole, HID_CMD_HEADER_SIZE
  <2>4. CASE Malformed(b)
    BY <2>2, <2>4, EmptyIsPart DEF Malformed, BufferIsPartOfCommand
  <2>5. CASE NeedsMore(b)
    <3>1. b[1] \in 0 .. 255 /\ b[2] \in 0 .. 255
      <4>1. Len(b) >= 4
        BY <2>5 DEF NeedsMore, Whole, HID_CMD_HEADER_SIZE
      <4>2. b \in [1 .. Len(b) -> Bytes] /\ 1 \in 1 .. Len(b) /\ 2 \in 1 .. Len(b)
        BY <2>1, <4>1
      <4>3. QED
        BY <4>2, EmptyIsPart
    <3>2. U16(b, 1) \in Nat /\ U16(b, 1) <= BufSize
      BY <2>5, <3>1 DEF NeedsMore, WellFormed, U16, ByteMod
    <3>3. QED
      BY <2>1, <2>2, <2>5, <3>2 DEF NeedsMore, BufferIsPartOfCommand
  <2>6. CASE Complete(b)
    BY <2>2, <2>6, EmptyIsPart DEF Complete, BufferIsPartOfCommand
  <2>7. QED
    BY <1>1, <2>3, <2>4, <2>5, <2>6 DEF codec_rx_push, b
<1>2. CASE UNCHANGED vars
  BY <1>2 DEF vars, BufferIsPartOfCommand
<1>3. QED
  BY <1>1, <1>2 DEF Next

\* The overflow branch of the receiver is dead and no byte of a command is
\* lost, for any size of the buffer and any stream (codec.c:141).
THEOREM BufferNeverOverflows == Spec => []BufferIsPartOfCommand
BY BufferInit, BufferStep, PTL DEF Spec

-------------------------------------------------------------------------------
(***************************************************************************)
(* Induction, for a set of natural numbers.                                *)
(***************************************************************************)
LEMMA LeastExists ==
    ASSUME NEW S \in SUBSET Nat, S # {}
    PROVE  \E n \in S : \A m \in S : n <= m
<1>1. PICK n \in S : \A m \in S : ~ (<<m, n>> \in OpToRel(<, Nat))
  BY NatLessThanWellFounded, WFMin
<1>2. ASSUME NEW m \in S PROVE n <= m
  <2>1. CASE m < n
    <3>1. <<m, n>> \in OpToRel(<, Nat)
      <4>1. <<m, n>> \in Nat \X Nat
        OBVIOUS
      <4>2. QED
        BY <2>1, <4>1 DEF OpToRel
    <3>2. QED
      BY <1>1, <3>1
  <2>2. QED
    BY <2>1
<1>3. QED
  BY <1>2

LEMMA SetInduction ==
    ASSUME NEW S \in SUBSET Nat, 0 \in S, \A n \in S : n + 1 \in S
    PROVE  S = Nat
<1>1. ASSUME S # Nat PROVE FALSE
  <2> DEFINE T == Nat \ S
  <2>1. PICK n \in T : \A m \in T : n <= m
    BY <1>1, LeastExists
  <2>2. n # 0 /\ n - 1 \in Nat /\ n - 1 \notin T
    BY <2>1
  <2>3. QED
    BY <2>1, <2>2
<1>2. QED
  BY <1>1

-------------------------------------------------------------------------------
(***************************************************************************)
(* Begins is what its recursion says: a position begins a command if it is *)
(* the first, or comes after a command or a malformed header that begins   *)
(* before it.                                                              *)
(***************************************************************************)
Starts(s, g, n) ==
    n = 0 \/ \E m \in 0 .. n - HID_CMD_HEADER_SIZE : g[m] /\ n = m + Advance(s, m)
StartsUpTo(s, g, k) == g = [n \in 0 .. k |-> Starts(s, g, n)]

LEMMA StartsExtends ==
    ASSUME NEW s, NEW k \in Nat, NEW g, StartsUpTo(s, g, k)
    PROVE  \E h : StartsUpTo(s, h, k + 1)
<1> DEFINE h == [n \in 0 .. k + 1 |-> IF n = k + 1 THEN Starts(s, g, n) ELSE g[n]]
<1>1. ASSUME NEW n \in 0 .. k + 1 PROVE h[n] = Starts(s, h, n)
  <2>1. \A m \in 0 .. n - HID_CMD_HEADER_SIZE : h[m] = g[m]
    BY DEF HID_CMD_HEADER_SIZE
  <2>2. Starts(s, h, n) = Starts(s, g, n)
    BY <2>1 DEF Starts
  <2>3. CASE n = k + 1
    BY <2>2, <2>3
  <2>4. CASE n # k + 1
    <3>1. n \in 0 .. k /\ g[n] = Starts(s, g, n)
      BY <2>4 DEF StartsUpTo
    <3>2. QED
      BY <2>2, <2>4, <3>1
  <2>5. QED
    BY <2>3, <2>4
<1>2. StartsUpTo(s, h, k + 1)
  BY <1>1 DEF StartsUpTo
<1>3. QED
  BY <1>2

LEMMA StartsExist ==
    ASSUME NEW s, NEW k \in Nat
    PROVE  \E g : StartsUpTo(s, g, k)
<1> DEFINE S == {n \in Nat : \E g : StartsUpTo(s, g, n)}
<1>1. 0 \in S
  <2> DEFINE g == [n \in 0 .. 0 |-> TRUE]
  <2>1. ASSUME NEW n \in 0 .. 0 PROVE Starts(s, g, n) = TRUE
    BY DEF Starts
  <2>2. StartsUpTo(s, g, 0)
    BY <2>1, Zenon DEF StartsUpTo
  <2>3. QED
    BY <2>2
<1>2. ASSUME NEW n \in S PROVE n + 1 \in S
  BY StartsExtends
<1>3. QED
  BY <1>1, <1>2, SetInduction

LEMMA BeginsDef ==
    ASSUME NEW s \in Seq(Bytes)
    PROVE  /\ Begins(s) \subseteq 0 .. Len(s)
           /\ \A n \in 0 .. Len(s) :
                n \in Begins(s) <=>
                    n = 0 \/ \E m \in Begins(s) :
                        m <= n - HID_CMD_HEADER_SIZE /\ n = m + Advance(s, m)
<1> DEFINE at == CHOOSE g : StartsUpTo(s, g, Len(s))
<1>1. StartsUpTo(s, at, Len(s))
  BY StartsExist
<1>2. Begins(s) = {n \in 0 .. Len(s) : at[n]}
  BY Zenon DEF Begins, StartsUpTo, Starts
<1> HIDE DEF at
<1>3. \A n \in 0 .. Len(s) : at[n] <=> Starts(s, at, n)
  BY <1>1 DEF StartsUpTo
<1>4. \A n \in 0 .. Len(s) : \A m \in 0 .. n - HID_CMD_HEADER_SIZE : m \in 0 .. Len(s)
  BY DEF HID_CMD_HEADER_SIZE
<1>5. QED
  BY <1>2, <1>3, <1>4 DEF Starts, HID_CMD_HEADER_SIZE

-------------------------------------------------------------------------------
(***************************************************************************)
(* The stream read with one more byte.                                     *)
(***************************************************************************)
LEMMA U16Type ==
    ASSUME NEW s \in Seq(Bytes), NEW i \in Nat \ {0}, i + 1 <= Len(s)
    PROVE  U16(s, i) \in Nat
<1>1. s[i] \in 0 .. 255 /\ s[i + 1] \in 0 .. 255
  <2>1. s \in [1 .. Len(s) -> Bytes] /\ i \in 1 .. Len(s) /\ i + 1 \in 1 .. Len(s)
    OBVIOUS
  <2>2. QED
    BY <2>1, EmptyIsPart
<1>2. \A x, y \in 0 .. 255 : x + 256 * y \in Nat
  OBVIOUS
<1>3. U16(s, i) = s[i] + 256 * s[i + 1]
  BY DEF U16, ByteMod
<1>4. QED
  BY <1>1, <1>2, <1>3

\* A command takes a header at least.
LEMMA AdvanceType ==
    ASSUME NEW s \in Seq(Bytes), NEW m \in Nat, m + 4 <= Len(s)
    PROVE  /\ Advance(s, m) \in Nat /\ Advance(s, m) >= 4
           /\ U16(s, m + 1) \in Nat
<1>1. U16(s, m + 1) \in Nat
  BY U16Type
<1>2. QED
  BY <1>1 DEF Advance, WellFormed, HID_CMD_HEADER_SIZE

LEMMA AppendReads ==
    ASSUME NEW s \in Seq(Bytes), NEW b \in Bytes
    PROVE  /\ Append(s, b) \in Seq(Bytes) /\ Len(Append(s, b)) = Len(s) + 1
           /\ Append(s, b)[Len(s) + 1] = b
           /\ \A i \in 1 .. Len(s) : Append(s, b)[i] = s[i]
           /\ \A m \in Nat : m + 4 <= Len(s) =>
                /\ U16(Append(s, b), m + 1) = U16(s, m + 1)
                /\ Advance(Append(s, b), m) = Advance(s, m)
<1>1. /\ Append(s, b) \in Seq(Bytes) /\ Len(Append(s, b)) = Len(s) + 1
      /\ Append(s, b)[Len(s) + 1] = b
      /\ \A i \in 1 .. Len(s) : Append(s, b)[i] = s[i]
  BY AppendProperties
<1>2. ASSUME NEW m \in Nat, m + 4 <= Len(s)
      PROVE  U16(Append(s, b), m + 1) = U16(s, m + 1)
  <2>1. m + 1 \in 1 .. Len(s) /\ m + 2 \in 1 .. Len(s) /\ (m + 1) + 1 = m + 2
    BY <1>2
  <2>2. QED
    BY <1>1, <2>1 DEF U16
<1>3. QED
  BY <1>1, <1>2, Zenon DEF Advance

LEMMA BeginsAppend ==
    ASSUME NEW s \in Seq(Bytes), NEW b \in Bytes
    PROVE  \A n \in 0 .. Len(s) : n \in Begins(Append(s, b)) <=> n \in Begins(s)
<1> DEFINE t == Append(s, b)
<1>1. /\ t \in Seq(Bytes) /\ Len(t) = Len(s) + 1 /\ Len(s) \in Nat
      /\ \A m \in Nat : m + 4 <= Len(s) => Advance(t, m) = Advance(s, m)
  BY AppendReads
<1> HIDE DEF t
<1> DEFINE D == {n \in 0 .. Len(s) : ~(n \in Begins(t) <=> n \in Begins(s))}
<1>2. ASSUME D # {} PROVE FALSE
  <2> HIDE DEF D
  <2>0. D \in SUBSET Nat
    BY <1>1 DEF D
  <2>1. PICK n \in D : \A m \in D : n <= m
    BY <1>2, <2>0, LeastExists
  <2> USE DEF D
  <2>2. \A m \in 0 .. n - 1 : m \in Begins(t) <=> m \in Begins(s)
    BY <1>1, <2>1
  <2>3. n \in 0 .. Len(s) /\ n \in 0 .. Len(t)
    BY <1>1, <2>1
  <2>4. n \in Begins(t) <=> n = 0 \/ \E m \in Begins(t) :
            m <= n - HID_CMD_HEADER_SIZE /\ n = m + Advance(t, m)
    BY <1>1, <2>3, BeginsDef
  <2>5. n \in Begins(s) <=> n = 0 \/ \E m \in Begins(s) :
            m <= n - HID_CMD_HEADER_SIZE /\ n = m + Advance(s, m)
    BY <2>3, BeginsDef
  <2>6. Begins(s) \subseteq Nat /\ Begins(t) \subseteq Nat
    BY <1>1, BeginsDef
  <2>7. \A m \in Nat : m <= n - HID_CMD_HEADER_SIZE =>
            (m \in Begins(t) <=> m \in Begins(s)) /\ Advance(t, m) = Advance(s, m)
    BY <1>1, <2>2, <2>3 DEF HID_CMD_HEADER_SIZE
  <2>8. n \in Begins(t) <=> n \in Begins(s)
    BY <2>4, <2>5, <2>6, <2>7
  <2>9. QED
    BY <2>1, <2>8
<1>3. QED
  BY <1>2 DEF t

-------------------------------------------------------------------------------
(***************************************************************************)
(* The inductive invariant: the buffer is what follows the last position   *)
(* of the stream where a command begins, and the commands before it have   *)
(* been handed out.                                                        *)
(***************************************************************************)
Base == Len(stream) - Len(buf)
Ready(s) == {n \in Begins(s) : /\ n + HID_CMD_HEADER_SIZE <= Len(s)
                               /\ WellFormed(U16(s, n + 1))
                               /\ n + U16(s, n + 1) <= Len(s)}
WholeAt(s, m) == [start |-> m, bytes |-> SubSeq(s, m + 1, m + U16(s, m + 1))]

BufferIsTheRest ==
    /\ stream \in Seq(Bytes) /\ Base \in Nat
    /\ \A i \in 1 .. Len(buf) : buf[i] = stream[Base + i]

BaseIsTheLast ==
    /\ Base \in Begins(stream)
    /\ \A m \in Begins(stream) :
          m # Base => m + 4 <= Base /\ m + Advance(stream, m) <= Base

RxInv == BufferIsPartOfCommand /\ BufferIsTheRest /\ BaseIsTheLast /\ CommandsAreTheStreams

LEMMA CommandsByPosition ==
    ASSUME NEW s PROVE CommandsOf(s) = {WholeAt(s, m) : m \in Ready(s)}
BY Zenon DEF CommandsOf, Ready, WholeAt

LEMMA RxInit == Init => RxInv
<1> SUFFICES ASSUME Init PROVE RxInv
  OBVIOUS
<1>1. stream = <<>> /\ Len(stream) = 0 /\ Len(buf) = 0 /\ Base = 0
  BY EmptyIsPart DEF Init, Base
<1>2. BufferIsTheRest
  BY <1>1, EmptyIsPart DEF BufferIsTheRest
<1>3. Begins(stream) \subseteq 0 .. 0 /\ 0 \in Begins(stream)
  <2>1. stream \in Seq(Bytes)
    BY <1>1, EmptyIsPart
  <2>2. /\ Begins(stream) \subseteq 0 .. Len(stream)
        /\ 0 \in 0 .. Len(stream) => 0 \in Begins(stream)
    BY <2>1, BeginsDef
  <2>3. QED
    BY <1>1, <2>2
<1>4. BaseIsTheLast
  BY <1>1, <1>3 DEF BaseIsTheLast
<1>5. Ready(stream) = {}
  BY <1>1, <1>3 DEF Ready, HID_CMD_HEADER_SIZE
<1>6. CommandsAreTheStreams
  BY <1>5, CommandsByPosition DEF Init, CommandsAreTheStreams
<1>7. QED
  BY <1>2, <1>4, <1>6, BufferInit DEF RxInv

\* What a push reads: the buffer with the byte in it is the rest of the stream
\* with the byte in it, and its header the one at Base.
LEMMA PushedReads ==
    ASSUME RxInv, NEW byte \in Bytes, NEW s, s = Append(stream, byte),
           NEW b, b = Pushed(byte)
    PROVE  /\ b \in Seq(Bytes) /\ s \in Seq(Bytes)
           /\ Len(b) = Len(buf) + 1 /\ Len(s) = Len(stream) + 1
           /\ Len(s) = Base + Len(b)
           /\ \A i \in 1 .. Len(b) : b[i] = s[Base + i]
           /\ Whole(b) => U16(b, 1) = U16(s, Base + 1) /\ U16(b, 1) \in Nat
           /\ Whole(b) => Len(b) = 4 \/ (WellFormed(U16(b, 1)) /\ Len(b) <= U16(b, 1))
<1>1. /\ b \in Seq(Bytes) /\ Len(b) = Len(buf) + 1
      /\ buf \in Seq(Bytes) /\ b = Append(buf, byte)
  BY PushedFits, ReceiverAssumption DEF RxInv, Pushed, BufferIsPartOfCommand
<1>2. stream \in Seq(Bytes) /\ Base \in Nat /\ Len(buf) \in Nat /\ Len(stream) \in Nat
      /\ Base + Len(buf) = Len(stream)
  BY <1>1 DEF RxInv, BufferIsTheRest, Base
<1>3. /\ s \in Seq(Bytes) /\ Len(s) = Len(stream) + 1
      /\ s[Len(stream) + 1] = byte
      /\ \A i \in 1 .. Len(stream) : s[i] = stream[i]
  BY <1>2, AppendReads
<1>4. \A i \in 1 .. Len(buf) : b[i] = buf[i] /\ buf[i] = stream[Base + i]
  BY <1>1 DEF RxInv, BufferIsTheRest
<1>5. b[Len(buf) + 1] = byte
  BY <1>1
<1>6. \A i \in 1 .. Len(b) : b[i] = s[Base + i]
  <2> SUFFICES ASSUME NEW i \in 1 .. Len(b) PROVE b[i] = s[Base + i]
    OBVIOUS
  <2>1. CASE i = Len(b)
    BY <1>1, <1>2, <1>3, <1>5, <2>1
  <2>2. CASE i # Len(b)
    <3>1. i \in 1 .. Len(buf) /\ Base + i \in 1 .. Len(stream)
      BY <1>1, <1>2, <2>2
    <3>2. QED
      BY <1>3, <1>4, <3>1
  <2>3. QED
    BY <2>1, <2>2
<1>7. ASSUME Whole(b) PROVE U16(b, 1) = U16(s, Base + 1) /\ U16(b, 1) \in Nat
  <2>1. 1 \in 1 .. Len(b) /\ 2 \in 1 .. Len(b) /\ Len(b) >= 4
    BY <1>1, <1>7 DEF Whole, HID_CMD_HEADER_SIZE
  <2>2. b[1] = s[Base + 1] /\ b[2] = s[Base + 2]
    BY <1>6, <2>1
  <2>3. (Base + 1) + 1 = Base + 2 /\ 1 + 1 = 2
    BY <1>2
  <2>4. U16(b, 1) = U16(s, Base + 1)
    BY <2>2, <2>3 DEF U16
  <2>5. 1 \in Nat \ {0} /\ 1 + 1 <= Len(b)
    BY <1>1, <1>2, <2>1
  <2>6. U16(b, 1) \in Nat
    BY <1>1, <2>5, U16Type
  <2>7. QED
    BY <2>4, <2>6
<1>8. ASSUME Whole(b)
      PROVE  Len(b) = 4 \/ (WellFormed(U16(b, 1)) /\ Len(b) <= U16(b, 1))
  <2>1. CASE Whole(buf)
    <3>1. 1 \in 1 .. Len(buf) /\ 2 \in 1 .. Len(buf)
      BY <1>2, <2>1 DEF Whole, HID_CMD_HEADER_SIZE
    <3>2. U16(b, 1) = U16(buf, 1)
      BY <1>4, <3>1 DEF U16
    <3>3. WellFormed(U16(buf, 1)) /\ Len(buf) < U16(buf, 1)
      BY <2>1 DEF RxInv, BufferIsPartOfCommand
    <3>4. QED
      BY <1>1, <1>2, <1>7, <1>8, <3>2, <3>3
  <2>2. CASE ~Whole(buf)
    BY <1>1, <1>2, <1>8, <2>2 DEF Whole, HID_CMD_HEADER_SIZE
  <2>3. QED
    BY <2>1, <2>2
<1>9. QED
  BY <1>1, <1>2, <1>3, <1>6, <1>7, <1>8

\* The byte begins a command at the end of the stream if it completes what is
\* at Base, and no other position becomes the beginning of one.
LEMMA BeginsStep ==
    ASSUME RxInv, NEW byte \in Bytes, NEW s, s = Append(stream, byte)
    PROVE  /\ Base + 4 <= Len(s) /\ Base + Advance(s, Base) = Len(s)
                => Begins(s) = Begins(stream) \cup {Len(s)}
           /\ ~(Base + 4 <= Len(s) /\ Base + Advance(s, Base) = Len(s))
                => Begins(s) = Begins(stream)
<1>1. stream \in Seq(Bytes) /\ Base \in Nat /\ Len(stream) \in Nat /\ Base <= Len(stream)
  BY DEF RxInv, BufferIsPartOfCommand, BufferIsTheRest, Base
<1>2. /\ s \in Seq(Bytes) /\ Len(s) = Len(stream) + 1
      /\ \A m \in Nat : m + 4 <= Len(stream) => Advance(s, m) = Advance(stream, m)
  BY <1>1, AppendReads
<1>3. Begins(stream) \subseteq 0 .. Len(stream) /\ Begins(s) \subseteq 0 .. Len(s)
  BY <1>1, <1>2, BeginsDef
<1>4. \A n \in 0 .. Len(stream) : n \in Begins(s) <=> n \in Begins(stream)
  BY <1>1, BeginsAppend
<1>5. Len(s) \in Begins(s) <=>
        \E m \in Begins(s) : m <= Len(s) - 4 /\ Len(s) = m + Advance(s, m)
  <2>1. Len(s) \in 0 .. Len(s) /\ Len(s) # 0
    BY <1>1, <1>2
  <2>2. \A n \in 0 .. Len(s) : n \in Begins(s) <=>
          n = 0 \/ \E m \in Begins(s) : m <= n - 4 /\ n = m + Advance(s, m)
    BY <1>2, BeginsDef DEF HID_CMD_HEADER_SIZE
  <2>3. QED
    BY <2>1, <2>2
<1>6. ASSUME NEW m \in Begins(s), m <= Len(s) - 4, Len(s) = m + Advance(s, m)
      PROVE  m = Base
  <2>1. m \in Begins(stream) /\ m \in Nat
    BY <1>1, <1>2, <1>3, <1>4, <1>6
  <2>2. CASE m # Base
    <3>1. m + 4 <= Base /\ m + Advance(stream, m) <= Base
      BY <2>1, <2>2 DEF RxInv, BaseIsTheLast
    <3>2. Advance(s, m) = Advance(stream, m)
      BY <1>1, <1>2, <2>1, <3>1
    <3>3. QED
      BY <1>1, <1>2, <1>6, <2>1, <3>1, <3>2
  <2>3. QED
    BY <2>2
<1>7. Base \in Begins(s) /\ Base \in Begins(stream)
  BY <1>1, <1>4 DEF RxInv, BaseIsTheLast
<1>8. Len(s) \in Begins(s) <=> Base + 4 <= Len(s) /\ Base + Advance(s, Base) = Len(s)
  BY <1>1, <1>2, <1>5, <1>6, <1>7
<1>9. 0 .. Len(s) = (0 .. Len(stream)) \cup {Len(s)} /\ Len(s) \notin 0 .. Len(stream)
  BY <1>1, <1>2
<1>10. QED
  BY <1>3, <1>4, <1>8, <1>9

\* The commands before Base do not change with the byte.
LEMMA ReadyStep ==
    ASSUME RxInv, NEW byte \in Bytes, NEW s, s = Append(stream, byte)
    PROVE  \A m \in Begins(stream) : m # Base =>
              /\ m \in Ready(s) <=> m \in Ready(stream)
              /\ m \in Ready(s) => WholeAt(s, m) = WholeAt(stream, m)
<1>1. /\ stream \in Seq(Bytes) /\ Base \in Nat /\ Len(stream) \in Nat
      /\ Base <= Len(stream) /\ Begins(stream) \subseteq 0 .. Len(stream)
  BY BeginsDef DEF RxInv, BufferIsPartOfCommand, BufferIsTheRest, Base
<1>2. /\ s \in Seq(Bytes) /\ Len(s) = Len(stream) + 1
      /\ \A i \in 1 .. Len(stream) : s[i] = stream[i]
      /\ \A m \in Nat : m + 4 <= Len(stream) => U16(s, m + 1) = U16(stream, m + 1)
  BY <1>1, AppendReads
<1>3. SUFFICES ASSUME NEW m \in Begins(stream), m # Base
      PROVE  /\ m \in Ready(s) <=> m \in Ready(stream)
             /\ m \in Ready(s) => WholeAt(s, m) = WholeAt(stream, m)
  OBVIOUS
<1>4. m \in Nat /\ m + 4 <= Base /\ m + Advance(stream, m) <= Base
  BY <1>1, <1>3 DEF RxInv, BaseIsTheLast
<1>5. U16(s, m + 1) = U16(stream, m + 1) /\ U16(stream, m + 1) \in Nat
  BY <1>1, <1>2, <1>4, AdvanceType
<1>6. WellFormed(U16(stream, m + 1)) => m + U16(stream, m + 1) <= Base
  BY <1>4 DEF Advance
<1>7. m \in Begins(s)
  BY <1>1, BeginsAppend
<1>8. m \in Ready(s) <=> m \in Ready(stream)
  BY <1>1, <1>2, <1>4, <1>5, <1>6, <1>7 DEF Ready, HID_CMD_HEADER_SIZE
<1>9. ASSUME m \in Ready(s) PROVE WholeAt(s, m) = WholeAt(stream, m)
  <2> DEFINE e == m + U16(stream, m + 1)
  <2>1. WellFormed(U16(stream, m + 1))
    BY <1>5, <1>9 DEF Ready
  <2>2. e \in Nat /\ e <= Len(stream) /\ e <= Len(s)
    BY <1>1, <1>2, <1>4, <1>5, <1>6, <2>1
  <2>3. \A i \in m + 1 .. e : s[i] = stream[i]
    BY <1>2, <1>4, <2>2
  <2> HIDE DEF e
  <2>4. \A i \in 1 .. (e - (m + 1)) + 1 : s[(m + 1) + i - 1] = stream[(m + 1) + i - 1]
    <3> SUFFICES ASSUME NEW i \in 1 .. (e - (m + 1)) + 1
                 PROVE  s[(m + 1) + i - 1] = stream[(m + 1) + i - 1]
      OBVIOUS
    <3>1. (m + 1) + i - 1 \in m + 1 .. e
      BY <1>4, <2>2
    <3>2. QED
      BY <2>3, <3>1
  <2>5. SubSeq(s, m + 1, e) = SubSeq(stream, m + 1, e)
    BY <1>1, <1>2, <1>4, <2>2, <2>4, SubSeqProperties DEF SubSeq
  <2>6. QED
    BY <1>5, <2>5 DEF WholeAt, e
<1>10. QED
  BY <1>8, <1>9

LEMMA RxStep == RxInv /\ BufferIsPartOfCommand' /\ [Next]_vars => RxInv'
<1> SUFFICES ASSUME RxInv, BufferIsPartOfCommand', [Next]_vars PROVE RxInv'
  OBVIOUS
<1>1. CASE UNCHANGED vars
  BY <1>1 DEF vars, RxInv, BufferIsPartOfCommand, BufferIsTheRest, BaseIsTheLast,
       CommandsAreTheStreams, Base
<1>2. ASSUME NEW byte \in Alphabet, codec_rx_push(byte) PROVE RxInv'
  <2> DEFINE b == Pushed(byte)
             s == Append(stream, byte)
  <2>1. byte \in Bytes /\ stream' = s
    BY <1>2, ReceiverAssumption DEF codec_rx_push
  <2>2. /\ b \in Seq(Bytes) /\ s \in Seq(Bytes)
        /\ Len(b) = Len(buf) + 1 /\ Len(s) = Len(stream) + 1
        /\ Len(s) = Base + Len(b)
        /\ \A i \in 1 .. Len(b) : b[i] = s[Base + i]
        /\ Whole(b) => U16(b, 1) = U16(s, Base + 1) /\ U16(b, 1) \in Nat
        /\ Whole(b) => Len(b) = 4 \/ (WellFormed(U16(b, 1)) /\ Len(b) <= U16(b, 1))
    BY <2>1, PushedReads
  <2>3. /\ Base + 4 <= Len(s) /\ Base + Advance(s, Base) = Len(s)
             => Begins(s) = Begins(stream) \cup {Len(s)}
        /\ ~(Base + 4 <= Len(s) /\ Base + Advance(s, Base) = Len(s))
             => Begins(s) = Begins(stream)
    BY <2>1, BeginsStep
  <2>4. \A m \in Begins(stream) : m # Base =>
              /\ m \in Ready(s) <=> m \in Ready(stream)
              /\ m \in Ready(s) => WholeAt(s, m) = WholeAt(stream, m)
    BY <2>1, ReadyStep
  <2>5. /\ Base \in Nat /\ Base \in Begins(stream) /\ Len(stream) \in Nat
        /\ Begins(stream) \subseteq 0 .. Len(stream) /\ Len(b) \in Nat /\ Len(buf) \in Nat
        /\ Base + Len(buf) = Len(stream)
    BY BeginsDef DEF RxInv, BufferIsPartOfCommand, BufferIsTheRest, BaseIsTheLast, Base
  <2>6. \A m \in Begins(stream) : m # Base =>
            /\ m \in Nat /\ m + 4 <= Base
            /\ Advance(s, m) = Advance(stream, m) /\ m + Advance(s, m) <= Base
    <3>1. \A m \in Begins(stream) : m # Base =>
              m \in Nat /\ m + 4 <= Base /\ m + Advance(stream, m) <= Base
      BY <2>5 DEF RxInv, BaseIsTheLast
    <3>2. \A m \in Nat : m + 4 <= Len(stream) => Advance(s, m) = Advance(stream, m)
      BY <2>1, AppendReads DEF RxInv, BufferIsTheRest
    <3>3. QED
      BY <2>5, <3>1, <3>2
  <2>7. delivered = {WholeAt(stream, m) : m \in Ready(stream)}
    BY CommandsByPosition DEF RxInv, CommandsAreTheStreams
  <2>8. Ready(stream) \subseteq Begins(stream) /\ Ready(s) \subseteq Begins(s)
    BY DEF Ready
  <2>9. Base \notin Ready(stream)
    <3>1. ASSUME Base \in Ready(stream) PROVE FALSE
      <4>1. Len(buf) >= 4 /\ WellFormed(U16(stream, Base + 1))
             /\ Base + U16(stream, Base + 1) <= Len(stream)
        BY <2>5, <3>1 DEF Ready, HID_CMD_HEADER_SIZE
      <4>2. buf[1] = stream[Base + 1] /\ buf[2] = stream[Base + 2]
        <5>1. 1 \in 1 .. Len(buf) /\ 2 \in 1 .. Len(buf)
          BY <2>5, <4>1
        <5>2. QED
          BY <5>1 DEF RxInv, BufferIsTheRest
      <4>3. U16(buf, 1) = U16(stream, Base + 1)
        <5>1. (Base + 1) + 1 = Base + 2 /\ 1 + 1 = 2
          BY <2>5
        <5>2. QED
          BY <4>2, <5>1 DEF U16
      <4>4. Len(buf) < U16(buf, 1)
        BY <4>1 DEF RxInv, BufferIsPartOfCommand, Whole, HID_CMD_HEADER_SIZE
      <4>5. U16(stream, Base + 1) \in Nat
        BY <2>5, <4>1, AdvanceType DEF RxInv, BufferIsTheRest
      <4>6. QED
        BY <2>5, <4>1, <4>3, <4>4, <4>5
    <3>2. QED
      BY <3>1
  <2> HIDE DEF b, s
  \* The buffer goes on: no command begins, none is complete.
  <2>10. ASSUME buf' = b, delivered' = delivered, Len(b) < 4 \/ Base + Advance(s, Base) > Len(s)
         PROVE  RxInv'
    <3>1. Base' = Base
      BY <2>1, <2>2, <2>5, <2>10 DEF Base
    <3>2. BufferIsTheRest'
      BY <2>1, <2>2, <2>5, <2>10, <3>1 DEF BufferIsTheRest
    <3>3. Begins(s) = Begins(stream)
      <4>1. CASE Len(b) < 4
        BY <2>2, <2>3, <2>5, <4>1
      <4>2. CASE Base + Advance(s, Base) > Len(s) /\ ~ Len(b) < 4
        <5>1. Advance(s, Base) \in Nat
          BY <2>2, <2>5, <4>2, AdvanceType
        <5>2. QED
          BY <2>2, <2>3, <2>5, <4>2, <5>1
      <4>3. QED
        BY <2>10, <4>1, <4>2
    <3>4. BaseIsTheLast'
      BY <2>1, <2>5, <2>6, <3>1, <3>3 DEF BaseIsTheLast
    <3>5. Base \notin Ready(s)
      <4>1. CASE Len(b) < 4
        BY <2>2, <2>5, <4>1 DEF Ready, HID_CMD_HEADER_SIZE
      <4>2. CASE Base + Advance(s, Base) > Len(s) /\ ~ Len(b) < 4
        <5>0. U16(s, Base + 1) \in Nat
          BY <2>2, <2>5, <4>2, AdvanceType
        <5>1. WellFormed(U16(s, Base + 1)) => ~ Base + U16(s, Base + 1) <= Len(s)
          <6> SUFFICES ASSUME WellFormed(U16(s, Base + 1)), Base + U16(s, Base + 1) <= Len(s)
                       PROVE  FALSE
            OBVIOUS
          <6>1. Advance(s, Base) = U16(s, Base + 1)
            BY DEF Advance
          <6>2. QED
            BY <2>2, <2>5, <4>2, <5>0, <6>1
        <5>2. QED
          BY <5>1 DEF Ready
      <4>3. QED
        BY <2>10, <4>1, <4>2
    <3>6. Ready(s) = Ready(stream)
      BY <2>4, <2>8, <2>9, <3>3, <3>5
    <3>7. {WholeAt(s, m) : m \in Ready(s)} = {WholeAt(stream, m) : m \in Ready(stream)}
      BY <2>4, <2>8, <2>9, <3>6
    <3>8. CommandsAreTheStreams'
      BY <2>1, <2>7, <2>10, <3>7, CommandsByPosition DEF CommandsAreTheStreams
    <3>9. QED
      BY <3>2, <3>4, <3>8 DEF RxInv
  \* The buffer is emptied: a command begins after the byte.
  <2>11. ASSUME buf' = <<>>, Len(b) >= 4, Advance(s, Base) = Len(b)
         PROVE  /\ BufferIsTheRest' /\ BaseIsTheLast'
                /\ Ready(s) \ {Base} = Ready(stream)
    <3>1. Base' = Len(s) /\ Len(s) \in Nat
      BY <2>1, <2>2, <2>5, <2>11, EmptyIsPart DEF Base
    <3>2. BufferIsTheRest'
      BY <2>1, <2>2, <2>11, <3>1, EmptyIsPart DEF BufferIsTheRest
    <3>3. Begins(s) = Begins(stream) \cup {Len(s)}
      <4>1. Base + 4 <= Len(s)
        BY <2>2, <2>5, <2>11
      <4>2. Base + Advance(s, Base) = Len(s)
        BY <2>2, <2>11
      <4>3. QED
        BY <2>3, <4>1, <4>2
    <3>4. \A m \in Begins(s) : m # Len(s) => m + 4 <= Len(s) /\ m + Advance(s, m) <= Len(s)
      <4> SUFFICES ASSUME NEW m \in Begins(s), m # Len(s)
                   PROVE  m + 4 <= Len(s) /\ m + Advance(s, m) <= Len(s)
        OBVIOUS
      <4>1. CASE m = Base
        BY <2>2, <2>5, <2>11, <4>1
      <4>2. CASE m # Base
        <5>1. m \in Begins(stream) /\ m \in Nat /\ m + 4 <= Base
          BY <2>6, <3>3, <4>2
        <5>2. Advance(s, m) \in Nat
          BY <2>2, <2>5, <5>1, AdvanceType
        <5>3. QED
          BY <2>2, <2>5, <2>6, <4>2, <5>1, <5>2
      <4>3. QED
        BY <4>1, <4>2
    <3>5. BaseIsTheLast'
      BY <2>1, <3>1, <3>3, <3>4 DEF BaseIsTheLast
    <3>6. Len(s) \notin Ready(s)
      BY <3>1 DEF Ready, HID_CMD_HEADER_SIZE
    <3>7. Ready(s) \ {Base} = Ready(stream)
      BY <2>4, <2>8, <2>9, <3>3, <3>6
    <3>8. QED
      BY <3>2, <3>5, <3>7
  <2>12. CASE HeaderIncomplete(b)
    BY <2>2, <2>5, <2>10, <2>12 DEF HeaderIncomplete, Whole, HID_CMD_HEADER_SIZE
  <2>13. CASE NeedsMore(b)
    BY <2>2, <2>5, <2>10, <2>13 DEF NeedsMore, Advance
  <2>14. CASE Malformed(b)
    <3>1. Len(b) = 4 /\ buf' = <<>> /\ delivered' = delivered /\ ~WellFormed(U16(s, Base + 1))
      BY <2>2, <2>14 DEF Malformed
    <3>2. Advance(s, Base) = 4
      BY <3>1 DEF Advance, HID_CMD_HEADER_SIZE
    <3>3. BufferIsTheRest' /\ BaseIsTheLast' /\ Ready(s) \ {Base} = Ready(stream)
      BY <2>11, <3>1, <3>2
    <3>4. Ready(s) = Ready(stream)
      BY <3>1, <3>3 DEF Ready
    <3>5. {WholeAt(s, m) : m \in Ready(s)} = {WholeAt(stream, m) : m \in Ready(stream)}
      BY <2>4, <2>8, <2>9, <3>4
    <3>6. CommandsAreTheStreams'
      BY <2>1, <2>7, <3>1, <3>5, CommandsByPosition DEF CommandsAreTheStreams
    <3>7. QED
      BY <3>3, <3>6 DEF RxInv
  <2>15. CASE Complete(b)
    <3>1. /\ Whole(b) /\ WellFormed(U16(b, 1)) /\ Len(b) >= U16(b, 1) /\ buf' = <<>>
          /\ delivered' = delivered \cup
               {[start |-> Len(stream) + 1 - Len(b), bytes |-> SubSeq(b, 1, U16(b, 1))]}
      BY <2>15 DEF Complete
    <3>2. U16(s, Base + 1) = Len(b) /\ U16(b, 1) = Len(b) /\ Len(b) >= 4
      BY <2>2, <2>5, <3>1 DEF WellFormed, Whole, HID_CMD_HEADER_SIZE
    <3>3. Advance(s, Base) = Len(b)
      BY <3>1, <3>2 DEF Advance
    <3>4. BufferIsTheRest' /\ BaseIsTheLast' /\ Ready(s) \ {Base} = Ready(stream)
      BY <2>11, <3>1, <3>2, <3>3
    <3>5. Base \in Ready(s)
      <4>1. Base \in Begins(s)
        BY <2>2, <2>3, <2>5, <3>2, <3>3
      <4>2. QED
        BY <2>2, <2>5, <3>1, <3>2, <4>1 DEF Ready, HID_CMD_HEADER_SIZE
    <3>6. Ready(s) = Ready(stream) \cup {Base}
      BY <3>4, <3>5
    <3>7. WholeAt(s, Base) = [start |-> Len(stream) + 1 - Len(b), bytes |-> SubSeq(b, 1, U16(b, 1))]
      <4>1. Len(stream) + 1 - Len(b) = Base
        BY <2>2, <2>5
      <4>2. SubSeq(s, Base + 1, Base + Len(b)) = SubSeq(b, 1, Len(b))
        <5>1. \A i \in 1 .. Len(b) : s[(Base + 1) + i - 1] = b[1 + i - 1]
          <6> SUFFICES ASSUME NEW i \in 1 .. Len(b)
                       PROVE  s[(Base + 1) + i - 1] = b[1 + i - 1]
            OBVIOUS
          <6>1. (Base + 1) + i - 1 = Base + i /\ 1 + i - 1 = i
            BY <2>5
          <6>2. QED
            BY <2>2, <6>1
        <5>2. ((Base + Len(b)) - (Base + 1)) + 1 = Len(b) /\ (Len(b) - 1) + 1 = Len(b)
          BY <2>5
        <5>3. QED
          BY <2>2, <2>5, <5>1, <5>2 DEF SubSeq
      <4>3. QED
        BY <3>2, <4>1, <4>2 DEF WholeAt
    <3>8. {WholeAt(s, m) : m \in Ready(stream)} = {WholeAt(stream, m) : m \in Ready(stream)}
      BY <2>4, <2>8, <2>9, <3>6
    <3>9. {WholeAt(s, m) : m \in Ready(s)} = delivered'
      BY <2>7, <3>1, <3>6, <3>7, <3>8
    <3>10. CommandsAreTheStreams'
      BY <2>1, <3>9, CommandsByPosition DEF CommandsAreTheStreams
    <3>11. QED
      BY <3>4, <3>10 DEF RxInv
  <2>16. QED
    BY <1>2, <2>12, <2>13, <2>14, <2>15 DEF codec_rx_push, b
<1>3. QED
  BY <1>1, <1>2 DEF Next

\* The commands handed out are those of the stream, for any size of the buffer,
\* any stream of bytes and any number of malformed headers in it (codec.c:136).
THEOREM StreamIsReadRight == Spec => []CommandsAreTheStreams
<1>1. RxInv => CommandsAreTheStreams
  BY DEF RxInv
<1>2. RxInv => BufferIsPartOfCommand
  BY DEF RxInv
<1>3. QED
  BY RxInit, RxStep, BufferNeverOverflows, <1>1, <1>2, PTL DEF Spec
===============================================================================
