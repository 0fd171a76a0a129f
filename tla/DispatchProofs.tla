---------------------------- MODULE DispatchProofs ----------------------------
(***************************************************************************)
(* Theorems about Dispatch and the packet codec under it, for any capacity *)
(* of an answer, any sizes of the tables and any reports.                  *)
(***************************************************************************)
EXTENDS Dispatch, SequenceTheorems, WellFoundedInduction, TLAPS

(***************************************************************************)
(* Induction, for a set of natural numbers.                                *)
(***************************************************************************)
LEMMA LeastExists ==
    ASSUME NEW S \in SUBSET Nat, S # {}
    PROVE  \E n \in S : \A m \in S : n <= m
<1>1. PICK n \in S : \A m \in S : ~ (<<m, n>> \in OpToRel(<, Nat))
  BY NatLessThanWellFounded, WFMin
<1>2. ASSUME NEW m \in S PROVE n <= m
  <2>1. CASE m < n
    <3>1. <<m, n>> \in OpToRel(<, Nat)
      <4>1. <<m, n>> \in Nat \X Nat
        OBVIOUS
      <4>2. QED
        BY <2>1, <4>1 DEF OpToRel
    <3>2. QED
      BY <1>1, <3>1
  <2>2. QED
    BY <2>1
<1>3. QED
  BY <1>2

LEMMA SetInduction ==
    ASSUME NEW S \in SUBSET Nat, 0 \in S, \A n \in S : n + 1 \in S
    PROVE  S = Nat
<1>1. ASSUME S # Nat PROVE FALSE
  <2> DEFINE T == Nat \ S
  <2>1. PICK n \in T : \A m \in T : n <= m
    BY <1>1, LeastExists
  <2>2. n # 0 /\ n - 1 \in Nat /\ n - 1 \notin T
    BY <2>1
  <2>3. QED
    BY <2>1, <2>2
<1>2. QED
  BY <1>1

-------------------------------------------------------------------------------
(***************************************************************************)
(* Bytes and words.                                                        *)
(***************************************************************************)
Words == 0 .. 65535

LEMMA ByteFacts == ByteMod = 256 /\ Bytes = 0 .. 255 /\ ByteMod * ByteMod = 65536
<1>1. ByteMod = 256
  BY DEF ByteMod
<1>2. Bytes = 0 .. 255
  BY DEF Bytes, ByteMod
<1>3. 256 * 256 = 65536
  OBVIOUS
<1>4. QED
  BY <1>1, <1>2, <1>3

LEMMA WordRange == ASSUME NEW n \in Int PROVE n \in Words <=> 0 <= n /\ n < 65536
BY DEF Words

LEMMA WordIsInt == Words \subseteq Int
BY DEF Words

LEMMA WordSum == ASSUME NEW a \in Words, NEW b \in Words PROVE (a + b) % 65536 \in Words
<1>1. a \in Int /\ b \in Int
  BY WordIsInt
<1>2. (a + b) % 65536 \in Int /\ 0 <= (a + b) % 65536 /\ (a + b) % 65536 < 65536
  BY <1>1
<1>3. QED
  BY <1>2, WordRange

LEMMA PairIsWord == ASSUME NEW x \in 0 .. 255, NEW y \in 0 .. 255 PROVE x + 256 * y \in Words
<1>1. x + 256 * y < 65536 /\ 0 <= x + 256 * y /\ x + 256 * y \in Int
  OBVIOUS
<1>2. QED
  BY <1>1, WordRange

LEMMA ElementIsByte == ASSUME NEW p \in Seq(Bytes), NEW i \in 1 .. Len(p) PROVE p[i] \in 0 .. 255
<1>1. p[i] \in Bytes
  OBVIOUS
<1>2. QED
  BY <1>1, ByteFacts

LEMMA U16Type ==
    ASSUME NEW p \in Seq(Bytes), NEW i \in Int, 1 <= i, i + 1 <= Len(p)
    PROVE  U16(p, i) \in Words /\ U16(p, i) = p[i] + 256 * p[i + 1]
<1>1. i \in 1 .. Len(p) /\ i + 1 \in 1 .. Len(p)
  OBVIOUS
<1>2. p[i] \in 0 .. 255 /\ p[i + 1] \in 0 .. 255
  BY <1>1, ElementIsByte
<1>3. U16(p, i) = p[i] + 256 * p[i + 1]
  BY ByteFacts DEF U16
<1>4. QED
  BY <1>2, <1>3, PairIsWord

\* LittleEndian writes a word so that U16 reads it.
LEMMA LittleEndianReads ==
    ASSUME NEW n \in Words
    PROVE  /\ LittleEndian(n) \in Seq(Bytes) /\ Len(LittleEndian(n)) = 2
           /\ LittleEndian(n)[1] \in 0 .. 255 /\ LittleEndian(n)[2] \in 0 .. 255
           /\ LittleEndian(n)[1] + 256 * LittleEndian(n)[2] = n
<1>1. n \in Int /\ 0 <= n /\ n < 65536
  BY DEF Words
<1>2. LittleEndian(n) = <<n % 256, (n \div 256) % 256>>
  BY ByteFacts DEF LittleEndian
<1>3. n % 256 \in 0 .. 255 /\ (n \div 256) % 256 \in 0 .. 255
  BY <1>1
<1>4. (n % 256) + 256 * ((n \div 256) % 256) = n
  BY <1>1
<1>5. QED
  BY <1>2, <1>3, <1>4, ByteFacts

-------------------------------------------------------------------------------
(***************************************************************************)
(* The checksum, word by word.                                             *)
(***************************************************************************)
SumsUpTo(p, g, k) ==
    g = [n \in 0 .. k |-> IF n = 0 THEN 0 ELSE (g[n - 1] + U16(p, 2 * n - 1)) % (ByteMod * ByteMod)]

LEMMA SumsExtend ==
    ASSUME NEW p, NEW k \in Nat, NEW g, SumsUpTo(p, g, k)
    PROVE  \E h : SumsUpTo(p, h, k + 1)
<1> DEFINE h == [n \in 0 .. k + 1 |->
                    IF n = k + 1 THEN (g[n - 1] + U16(p, 2 * n - 1)) % (ByteMod * ByteMod) ELSE g[n]]
           H(n) == IF n = 0 THEN 0 ELSE (h[n - 1] + U16(p, 2 * n - 1)) % (ByteMod * ByteMod)
<1>1. ASSUME NEW n \in 0 .. k + 1 PROVE h[n] = H(n)
  <2>1. CASE n = k + 1
    <3>1. h[n - 1] = g[n - 1] /\ n # 0 /\ n - 1 = k
      BY <2>1
    <3>2. QED
      BY <2>1, <3>1
  <2>2. CASE n # k + 1
    <3>1. n \in 0 .. k /\ h[n] = g[n]
      BY <2>2
    <3>2. g[n] = IF n = 0 THEN 0 ELSE (g[n - 1] + U16(p, 2 * n - 1)) % (ByteMod * ByteMod)
      BY <3>1 DEF SumsUpTo
    <3>3. n # 0 => h[n - 1] = g[n - 1]
      BY <3>1
    <3>4. QED
      BY <3>1, <3>2, <3>3
  <2>3. QED
    BY <2>1, <2>2
<1>2. h = [n \in 0 .. k + 1 |-> H(n)]
  BY <1>1
<1>3. QED
  BY <1>2 DEF SumsUpTo

LEMMA SumsExist == ASSUME NEW p, NEW k \in Nat PROVE \E g : SumsUpTo(p, g, k)
<1> DEFINE S == {n \in Nat : \E g : SumsUpTo(p, g, n)}
<1>1. 0 \in S
  <2> DEFINE g == [n \in 0 .. 0 |-> 0]
  <2>1. SumsUpTo(p, g, 0)
    BY DEF SumsUpTo
  <2>2. QED
    BY <2>1
<1>2. ASSUME NEW n \in S PROVE n + 1 \in S
  BY SumsExtend
<1>3. S = Nat
  BY <1>1, <1>2, SetInduction
<1>4. QED
  BY <1>3

Half(p) == Len(p) \div 2
PartSum(p) == CHOOSE g : SumsUpTo(p, g, Half(p))

LEMMA SumDef ==
    ASSUME NEW p \in Seq(Bytes)
    PROVE  /\ Half(p) \in Nat /\ 2 * Half(p) <= Len(p)
           /\ PartSum(p)[0] = 0
           /\ \A n \in 1 .. Half(p) :
                 PartSum(p)[n] = (PartSum(p)[n - 1] + U16(p, 2 * n - 1)) % 65536
           /\ \A n \in 0 .. Half(p) : PartSum(p)[n] \in Words
           /\ codec_checksum_v3(p) = PartSum(p)[Half(p)]
<1>1. Half(p) \in Nat /\ 2 * Half(p) <= Len(p)
  BY DEF Half
<1>2. SumsUpTo(p, PartSum(p), Half(p))
  BY <1>1, SumsExist DEF PartSum
<1>3. codec_checksum_v3(p) = PartSum(p)[Half(p)]
  BY Zenon DEF codec_checksum_v3, PartSum, SumsUpTo, Half
<1>4. \A n \in 0 .. Half(p) : PartSum(p)[n] =
        IF n = 0 THEN 0 ELSE (PartSum(p)[n - 1] + U16(p, 2 * n - 1)) % 65536
  <2> DEFINE g == PartSum(p)
  <2>1. SumsUpTo(p, g, Half(p))
    BY <1>2
  <2> HIDE DEF g
  <2>2. \A n \in 0 .. Half(p) : g[n] =
          IF n = 0 THEN 0 ELSE (g[n - 1] + U16(p, 2 * n - 1)) % (ByteMod * ByteMod)
    BY <2>1 DEF SumsUpTo
  <2>3. QED
    BY <2>2, ByteFacts DEF g
<1>5. PartSum(p)[0] = 0 /\ 0 \in 0 .. Half(p)
  BY <1>1, <1>4
<1>6. \A n \in 1 .. Half(p) : n \in 0 .. Half(p) /\ n # 0
  BY <1>1
<1>7. \A n \in 1 .. Half(p) : PartSum(p)[n] = (PartSum(p)[n - 1] + U16(p, 2 * n - 1)) % 65536
  BY <1>4, <1>6
<1> DEFINE S == {n \in Nat : n <= Half(p) => PartSum(p)[n] \in Words}
<1>8. 0 \in S
  BY <1>5, WordRange
<1>9. ASSUME NEW n \in S PROVE n + 1 \in S
  <2>1. SUFFICES ASSUME n + 1 <= Half(p) PROVE PartSum(p)[n + 1] \in Words
    OBVIOUS
  <2>2. n + 1 \in 1 .. Half(p) /\ (n + 1) - 1 = n /\ PartSum(p)[n] \in Words
    BY <1>1, <2>1
  <2>3. U16(p, 2 * (n + 1) - 1) \in Words
    BY <1>1, <2>1, U16Type
  <2>4. PartSum(p)[n + 1] = (PartSum(p)[n] + U16(p, 2 * (n + 1) - 1)) % 65536
    BY <1>7, <2>2
  <2>5. QED
    BY <2>2, <2>3, <2>4, WordSum
<1>10. S = Nat
  BY <1>8, <1>9, SetInduction
<1>11. QED
  BY <1>1, <1>3, <1>5, <1>7, <1>10

-------------------------------------------------------------------------------
(***************************************************************************)
(* Two packets compared: the sums agree up to the first word that differs, *)
(* and differ by that word's difference from there on.                     *)
(***************************************************************************)
SameWords(p, q, from, to) == \A n \in from .. to : U16(p, 2 * n - 1) = U16(q, 2 * n - 1)

LEMMA SumsAgree ==
    ASSUME NEW p \in Seq(Bytes), NEW q \in Seq(Bytes), NEW k \in Nat,
           k <= Half(p), k <= Half(q),
           SameWords(p, q, 1, k)
    PROVE  PartSum(p)[k] = PartSum(q)[k]
<1>1. ASSUME NEW m \in 1 .. k, PartSum(p)[m - 1] = PartSum(q)[m - 1]
      PROVE  PartSum(p)[m] = PartSum(q)[m]
  <2>1. m \in 1 .. Half(p) /\ m \in 1 .. Half(q)
    BY <1>1, SumDef
  <2>2. PartSum(p)[m] = (PartSum(p)[m - 1] + U16(p, 2 * m - 1)) % 65536
    BY <2>1, SumDef
  <2>3. PartSum(q)[m] = (PartSum(q)[m - 1] + U16(q, 2 * m - 1)) % 65536
    BY <2>1, SumDef
  <2>4. U16(p, 2 * m - 1) = U16(q, 2 * m - 1)
    BY DEF SameWords
  <2>5. QED
    BY <1>1, <2>2, <2>3, <2>4
<1> DEFINE S == {n \in Nat : n <= k => PartSum(p)[n] = PartSum(q)[n]}
<1>2. 0 \in S
  BY SumDef
<1>3. ASSUME NEW n \in S PROVE n + 1 \in S
  BY <1>1
<1>4. S = Nat
  BY <1>2, <1>3, SetInduction
<1>5. QED
  BY <1>4

Shifted(p, q, d, n) == PartSum(q)[n] = (PartSum(p)[n] + d) % 65536

\* From j on the sums differ by d, if they do at j and no word after it differs.
LEMMA SumsShift ==
    ASSUME NEW p \in Seq(Bytes), NEW q \in Seq(Bytes), NEW d \in Int, NEW j \in Nat, NEW k \in Nat,
           k <= Half(p), k <= Half(q), j <= k,
           Shifted(p, q, d, j), SameWords(p, q, j + 1, k)
    PROVE  Shifted(p, q, d, k)
<1>1. ASSUME NEW m \in j + 1 .. k, Shifted(p, q, d, m - 1)
      PROVE  Shifted(p, q, d, m)
  <2> DEFINE w == U16(p, 2 * m - 1)
             s == PartSum(p)[m - 1]
  <2>1. m \in 1 .. Half(p) /\ m \in 1 .. Half(q)
    BY <1>1, SumDef
  <2>2. PartSum(p)[m] = (s + w) % 65536
    BY <2>1, SumDef
  <2>3. U16(q, 2 * m - 1) = w
    BY DEF SameWords
  <2>4. PartSum(q)[m] = (PartSum(q)[m - 1] + w) % 65536
    BY <2>1, <2>3, SumDef
  <2>5. w \in Words /\ s \in Words
    <3>1. m - 1 \in 0 .. Half(p) /\ 2 * m - 1 \in Int /\ 1 <= 2 * m - 1 /\ (2 * m - 1) + 1 <= Len(p)
      BY <2>1, SumDef
    <3>2. w \in Words
      BY <3>1, U16Type
    <3>3. s \in Words
      BY <3>1, SumDef
    <3>4. QED
      BY <3>2, <3>3
  <2> HIDE DEF w, s
  <2>6. (((s + d) % 65536) + w) % 65536 = (((s + w) % 65536) + d) % 65536
    <3>1. w \in Int /\ s \in Int
      BY <2>5, WordIsInt
    <3>2. QED
      BY <3>1
  <2>7. PartSum(q)[m - 1] = (s + d) % 65536
    BY <1>1 DEF s, Shifted
  <2>8. QED
    BY <2>2, <2>4, <2>6, <2>7 DEF Shifted
<1> DEFINE S == {n \in Nat : j + n <= k => Shifted(p, q, d, j + n)}
<1>2. 0 \in S
  OBVIOUS
<1>3. ASSUME NEW n \in S PROVE n + 1 \in S
  <2>1. n \in Nat /\ (j + n <= k => Shifted(p, q, d, j + n))
    OBVIOUS
  <2>2. j + (n + 1) <= k => j + (n + 1) \in j + 1 .. k /\ (j + (n + 1)) - 1 = j + n
    BY <2>1
  <2>3. j + (n + 1) <= k => Shifted(p, q, d, j + (n + 1))
    BY <1>1, <2>1, <2>2
  <2>4. QED
    BY <2>1, <2>3
<1> HIDE DEF S
<1>4. S = Nat
  <2>1. S \in SUBSET Nat
    BY DEF S
  <2>2. \A n \in S : n + 1 \in S
    BY <1>3
  <2>3. QED
    BY <1>2, <2>1, <2>2, SetInduction
<1>5. k - j \in S /\ j + (k - j) = k
  BY <1>4
<1>6. QED
  BY <1>5 DEF S

\* Words that are zero add nothing.
LEMMA SumOfZeros ==
    ASSUME NEW p \in Seq(Bytes), NEW j \in Nat, j <= Half(p),
           \A n \in j + 1 .. Half(p) : U16(p, 2 * n - 1) = 0
    PROVE  PartSum(p)[Half(p)] = PartSum(p)[j]
<1>1. ASSUME NEW m \in j + 1 .. Half(p) PROVE PartSum(p)[m] = PartSum(p)[m - 1]
  <2> DEFINE s == PartSum(p)[m - 1]
  <2>1. m \in 1 .. Half(p) /\ m - 1 \in 0 .. Half(p)
    BY <1>1, SumDef
  <2>2. PartSum(p)[m] = (s + 0) % 65536
    BY <2>1, SumDef
  <2>3. s \in Words
    BY <2>1, SumDef
  <2> HIDE DEF s
  <2>4. s \in Int /\ 0 <= s /\ s < 65536
    BY <2>3, WordIsInt, WordRange
  <2>5. PartSum(p)[m] = s
    BY <2>2, <2>4
  <2>6. QED
    BY <2>5 DEF s
<1> DEFINE S == {n \in Nat : j + n <= Half(p) => PartSum(p)[j + n] = PartSum(p)[j]}
<1>2. 0 \in S
  OBVIOUS
<1>3. ASSUME NEW n \in S PROVE n + 1 \in S
  <2>1. n \in Nat /\ (j + n <= Half(p) => PartSum(p)[j + n] = PartSum(p)[j])
    OBVIOUS
  <2>2. j + (n + 1) <= Half(p) => j + (n + 1) \in j + 1 .. Half(p) /\ (j + (n + 1)) - 1 = j + n
    BY <2>1, SumDef
  <2>3. j + (n + 1) <= Half(p) => PartSum(p)[j + (n + 1)] = PartSum(p)[j]
    BY <1>1, <2>1, <2>2, SumDef
  <2>4. QED
    BY <2>1, <2>3
<1> HIDE DEF S
<1>4. S = Nat
  <2>1. S \in SUBSET Nat
    BY DEF S
  <2>2. QED
    BY <1>2, <1>3, <2>1, SetInduction
<1>5. Half(p) - j \in S /\ j + (Half(p) - j) = Half(p)
  BY <1>4, SumDef
<1>6. QED
  BY <1>5 DEF S

-------------------------------------------------------------------------------
(***************************************************************************)
(* A packet that codec_finalize_v3 has seen verifies, and no damage of the *)
(* kinds a report may suffer leaves one that does.                         *)
(***************************************************************************)
LEMMA FramedFacts ==
    ASSUME NEW p \in Seq(Bytes)
    PROVE  Framed(p) <=> Len(p) = 2 * Half(p) /\ Half(p) >= 2
BY DEF Framed, Half, HID_OFF_CMDS

SameWordsBut(p, q, h, k) ==
    \A n \in 1 .. h : n # k => U16(p, 2 * n - 1) = U16(q, 2 * n - 1)

\* The checksum of q is that of p plus the difference of their only word that
\* differs, the k-th.
LEMMA OneWordDiffers ==
    ASSUME NEW p \in Seq(Bytes), NEW q \in Seq(Bytes), Len(q) = Len(p),
           NEW k \in 1 .. Half(p), NEW d \in Int, U16(q, 2 * k - 1) = U16(p, 2 * k - 1) + d,
           SameWordsBut(p, q, Half(p), k)
    PROVE  codec_checksum_v3(q) = (codec_checksum_v3(p) + d) % 65536
<1>1. Half(q) = Half(p) /\ Half(p) \in Nat
  BY SumDef DEF Half
<1>2. PartSum(q)[k - 1] = PartSum(p)[k - 1]
  <2>1. \A n \in 1 .. k - 1 : n \in 1 .. Half(p) /\ n # k
    BY <1>1
  <2>2. SameWords(q, p, 1, k - 1)
    BY <2>1 DEF SameWordsBut, SameWords
  <2>3. k - 1 \in Nat /\ k - 1 <= Half(p) /\ k - 1 <= Half(q)
    BY <1>1
  <2>4. QED
    BY <2>2, <2>3, SumsAgree
<1>3. Shifted(p, q, d, k)
  <2> DEFINE s == PartSum(p)[k - 1]
             w == U16(p, 2 * k - 1)
  <2>1. s \in Words /\ w \in Words
    <3>1. k - 1 \in 0 .. Half(p) /\ 2 * k - 1 \in Int /\ 1 <= 2 * k - 1 /\ (2 * k - 1) + 1 <= Len(p)
      BY <1>1, SumDef
    <3>2. s \in Words
      BY <3>1, SumDef
    <3>3. w \in Words
      BY <3>1, U16Type
    <3>4. QED
      BY <3>2, <3>3
  <2>2. PartSum(q)[k] = (s + (w + d)) % 65536
    BY <1>1, <1>2, SumDef
  <2>3. PartSum(p)[k] = (s + w) % 65536
    BY SumDef
  <2> HIDE DEF s, w
  <2>4. s \in Int /\ w \in Int
    BY <2>1, WordIsInt
  <2>5. (s + (w + d)) % 65536 = (((s + w) % 65536) + d) % 65536
    BY <2>4
  <2>6. QED
    BY <2>2, <2>3, <2>5 DEF Shifted
<1>4. \A n \in k + 1 .. Half(p) : n \in 1 .. Half(p) /\ n # k
  BY <1>1
<1>5. Shifted(p, q, d, Half(p))
  <2>1. SameWords(p, q, k + 1, Half(p))
    BY <1>4 DEF SameWordsBut, SameWords
  <2>2. k \in Nat /\ k <= Half(p) /\ Half(p) <= Half(q) /\ Half(p) <= Half(p)
    BY <1>1
  <2>3. QED
    BY <1>1, <1>3, <2>1, <2>2, SumsShift
<1>6. QED
  BY <1>1, <1>5, SumDef DEF Shifted

\* What makes p verify: the word at 3 is the checksum without it.
LEMMA ChecksumIsWord == ASSUME NEW p \in Seq(Bytes) PROVE codec_checksum_v3(p) \in Words
<1>1. Half(p) \in 0 .. Half(p)
  BY SumDef
<1>2. QED
  BY <1>1, SumDef

LEMMA Verifies ==
    ASSUME NEW p \in Seq(Bytes), Framed(p)
    PROVE  /\ codec_checksum_v3(p) \in Words /\ U16(p, 3) \in Words
           /\ codec_verify_v3(p) <=> U16(p, 3) = (codec_checksum_v3(p) - U16(p, 3)) % 65536
<1>1. Half(p) \in 0 .. Half(p) /\ 3 + 1 <= Len(p)
  BY SumDef, FramedFacts
<1>2. codec_checksum_v3(p) \in Words
  BY <1>1, SumDef
<1>3. U16(p, 3) \in Words
  BY <1>1, U16Type
<1>4. QED
  BY <1>2, <1>3, ByteFacts DEF codec_verify_v3

SameBytesBut34(f, p) == \A i \in 1 .. Len(p) : i \notin {3, 4} => f[i] = p[i]

LEMMA FinalizedIs ==
    ASSUME NEW p \in Seq(Bytes), Framed(p), NEW f, f = codec_finalize_v3(p),
           NEW z, z = [p EXCEPT ![3] = 0, ![4] = 0]
    PROVE  /\ f \in Seq(Bytes) /\ z \in Seq(Bytes) /\ Len(f) = Len(p) /\ Len(z) = Len(p)
           /\ Framed(f) /\ Framed(z)
           /\ codec_checksum_v3(z) \in Words /\ U16(f, 3) = codec_checksum_v3(z) /\ U16(z, 3) = 0
           /\ SameBytesBut34(f, p) /\ SameBytesBut34(z, p)
<1>1. Len(p) >= 4 /\ 3 \in 1 .. Len(p) /\ 4 \in 1 .. Len(p) /\ 0 \in Bytes
  BY FramedFacts, SumDef, ByteFacts
<1>2. /\ z \in Seq(Bytes) /\ Len(z) = Len(p) /\ z[3] = 0 /\ z[4] = 0
      /\ \A i \in 1 .. Len(p) : i \notin {3, 4} => z[i] = p[i]
  BY <1>1
<1>3. Framed(z)
  BY <1>2 DEF Framed
<1>4. codec_checksum_v3(z) \in Words
  BY <1>2, ChecksumIsWord
<1> DEFINE c == LittleEndian(codec_checksum_v3(z))
<1>5. /\ c[1] \in 0 .. 255 /\ c[2] \in 0 .. 255
      /\ c[1] + 256 * c[2] = codec_checksum_v3(z)
  BY <1>4, LittleEndianReads
<1>6. f = [p EXCEPT ![3] = c[1], ![4] = c[2]]
  BY DEF codec_finalize_v3
<1> HIDE DEF c
<1>7. /\ f \in Seq(Bytes) /\ Len(f) = Len(p) /\ f[3] = c[1] /\ f[4] = c[2]
      /\ \A i \in 1 .. Len(p) : i \notin {3, 4} => f[i] = p[i]
  BY <1>1, <1>5, <1>6, ByteFacts
<1>8. Framed(f)
  BY <1>7 DEF Framed
<1>9. U16(f, 3) = f[3] + 256 * f[4] /\ U16(z, 3) = z[3] + 256 * z[4]
  BY ByteFacts DEF U16
<1>10. SameBytesBut34(f, p) /\ SameBytesBut34(z, p)
  BY <1>2, <1>7 DEF SameBytesBut34
<1>11. QED
  BY <1>2, <1>3, <1>4, <1>5, <1>7, <1>8, <1>9, <1>10

\* Words other than the checksum's are read alike where the bytes are.
LEMMA WordsAgree ==
    ASSUME NEW p, NEW q, NEW h \in Nat, NEW k \in Nat, NEW a, a = 2 * k - 1,
           \A i \in 1 .. 2 * h : i \notin {a, a + 1} => p[i] = q[i]
    PROVE  SameWordsBut(p, q, h, k)
<1> SUFFICES ASSUME NEW n \in 1 .. h, n # k PROVE U16(p, 2 * n - 1) = U16(q, 2 * n - 1)
  BY DEF SameWordsBut
<1>1. /\ 2 * n - 1 \in 1 .. 2 * h /\ 2 * n \in 1 .. 2 * h /\ (2 * n - 1) + 1 = 2 * n
      /\ 2 * n - 1 \notin {a, a + 1} /\ 2 * n \notin {a, a + 1}
  OBVIOUS
<1>2. p[2 * n - 1] = q[2 * n - 1] /\ p[2 * n] = q[2 * n]
  BY <1>1
<1>3. QED
  BY <1>1, <1>2 DEF U16

\* The checksum codec_finalize_v3 writes is the one codec_verify_v3 expects.
THEOREM FinalizedVerifies ==
    ASSUME NEW p \in Seq(Bytes), Framed(p)
    PROVE  codec_verify_v3(codec_finalize_v3(p))
<1> DEFINE f == codec_finalize_v3(p)
           z == [p EXCEPT ![3] = 0, ![4] = 0]
           c == codec_checksum_v3(z)
<1>1. /\ f \in Seq(Bytes) /\ z \in Seq(Bytes) /\ Len(f) = Len(p) /\ Len(z) = Len(p)
      /\ Framed(f) /\ Framed(z) /\ c \in Words /\ U16(f, 3) = c /\ U16(z, 3) = 0
      /\ SameBytesBut34(f, p) /\ SameBytesBut34(z, p)
  BY FinalizedIs
<1> HIDE DEF f, z
<1>2. Half(z) = Half(p) /\ Half(p) \in Nat /\ 2 \in 1 .. Half(p) /\ 2 * Half(p) <= Len(p)
  BY <1>1, SumDef, FramedFacts DEF Half
<1>3. \A i \in 1 .. 2 * Half(p) : i \notin {3, 3 + 1} => z[i] = f[i]
  BY <1>1, <1>2 DEF SameBytesBut34
<1>4. SameWordsBut(z, f, Half(z), 2)
  <2>1. 3 = 2 * 2 - 1 /\ 2 \in Nat
    OBVIOUS
  <2>2. SameWordsBut(z, f, Half(p), 2)
    BY <1>2, <1>3, <2>1, WordsAgree
  <2>3. QED
    BY <1>2, <2>2
<1> HIDE DEF c
<1>5. c \in Int /\ 0 <= c /\ c < 65536 /\ 2 * 2 - 1 = 3
  BY <1>1, WordIsInt, WordRange
<1>6. codec_checksum_v3(f) = (c + c) % 65536
  <2>1. U16(f, 2 * 2 - 1) = U16(z, 2 * 2 - 1) + c
    BY <1>1, <1>5
  <2>2. codec_checksum_v3(f) = (codec_checksum_v3(z) + c) % 65536
    BY <1>1, <1>2, <1>4, <1>5, <2>1, OneWordDiffers
  <2>3. QED
    BY <2>2 DEF c
<1>7. (((c + c) % 65536) - c) % 65536 = c
  BY <1>5
<1>8. QED
  BY <1>1, <1>6, <1>7, Verifies DEF f

LEMMA NoOtherDifference ==
    ASSUME NEW s \in Int, NEW d \in Int, NEW c \in Int, d > -65536, d < 65536,
           (s - c) % 65536 = c, (((s + d) % 65536) - c) % 65536 = c
    PROVE  d = 0
OBVIOUS

LEMMA NoOtherChecksum ==
    ASSUME NEW s \in Int, NEW d \in Int, NEW c \in Int, d > -65536, d < 65536,
           (s - c) % 65536 = c, (((s + d) % 65536) - (c + d)) % 65536 = c + d
    PROVE  d = 0
<1>1. (((s + d) % 65536) - (c + d)) % 65536 = (s - c) % 65536
  OBVIOUS
<1>2. QED
  BY <1>1

LEMMA WordOfByte ==
    ASSUME NEW i \in Int, NEW h \in Int, 1 <= i, i <= 2 * h
    PROVE  /\ (i + 1) \div 2 \in Int /\ 1 <= (i + 1) \div 2 /\ (i + 1) \div 2 <= h
           /\ i = 2 * ((i + 1) \div 2) - 1 \/ i = 2 * ((i + 1) \div 2)
OBVIOUS

LEMMA SameWordSameBytes ==
    ASSUME NEW p \in Seq(Bytes), NEW b \in Seq(Bytes), NEW a \in Int,
           1 <= a, a + 1 <= Len(p), a + 1 <= Len(b), U16(p, a) = U16(b, a)
    PROVE  p[a] = b[a] /\ p[a + 1] = b[a + 1]
<1>1. /\ a \in 1 .. Len(p) /\ a + 1 \in 1 .. Len(p)
      /\ a \in 1 .. Len(b) /\ a + 1 \in 1 .. Len(b)
  OBVIOUS
<1> DEFINE x == p[a]
           y == p[a + 1]
           u == b[a]
           v == b[a + 1]
<1>2. x \in 0 .. 255 /\ y \in 0 .. 255 /\ u \in 0 .. 255 /\ v \in 0 .. 255
  BY <1>1, ElementIsByte
<1>3. x + 256 * y = u + 256 * v
  BY U16Type
<1> HIDE DEF x, y, u, v
<1>4. x = u /\ y = v
  <2>1. x \in Int /\ y \in Int /\ u \in Int /\ v \in Int
    BY <1>2
  <2>2. x >= 0 /\ x < 256 /\ u >= 0 /\ u < 256
    BY <1>2
  <2>3. y = v
    BY <1>3, <2>1, <2>2
  <2>4. QED
    BY <1>3, <2>1, <2>3
<1>5. QED
  BY <1>4 DEF x, y, u, v

\* The one byte that differs makes its word differ.
LEMMA OneByteIsOneWord ==
    ASSUME NEW p \in Seq(Bytes), NEW b \in Seq(Bytes), Len(p) = 2 * Half(p),
           NEW i \in 1 .. Len(p), b[i] # p[i], b = [p EXCEPT ![i] = b[i]]
    PROVE  \E k \in 1 .. Half(p) :
              /\ Len(b) = Len(p) /\ SameWordsBut(p, b, Half(p), k)
              /\ U16(p, 2 * k - 1) \in Words /\ U16(b, 2 * k - 1) \in Words
              /\ U16(b, 2 * k - 1) # U16(p, 2 * k - 1)
<1> DEFINE k == (i + 1) \div 2
           a == 2 * k - 1
<1>1. Half(p) \in Nat /\ Len(b) = Len(p) /\ \A n \in 1 .. Len(p) : n # i => b[n] = p[n]
  BY SumDef
<1>2. k \in 1 .. Half(p) /\ k \in Nat /\ (i = 2 * k - 1 \/ i = 2 * k)
  <2>1. i \in Int /\ 1 <= i /\ i <= 2 * Half(p) /\ Half(p) \in Int
    BY <1>1
  <2>2. k \in Int /\ 1 <= k /\ k <= Half(p) /\ (i = 2 * k - 1 \/ i = 2 * k)
    BY <2>1, WordOfByte
  <2> HIDE DEF k
  <2>3. QED
    BY <2>1, <2>2
<1> HIDE DEF k
<1>3. a \in Int /\ 1 <= a /\ a + 1 <= Len(p) /\ a = 2 * k - 1 /\ (i = a \/ i = a + 1)
  BY <1>1, <1>2
<1>4. SameWordsBut(p, b, Half(p), k)
  <2>1. \A n \in 1 .. 2 * Half(p) : n \notin {a, a + 1} => p[n] = b[n]
    BY <1>1, <1>3
  <2> HIDE DEF a
  <2>2. QED
    BY <1>1, <1>2, <1>3, <2>1, WordsAgree
<1> HIDE DEF a
<1>5. /\ U16(p, a) \in Words /\ U16(p, a) = p[a] + 256 * p[a + 1]
      /\ U16(b, a) \in Words /\ U16(b, a) = b[a] + 256 * b[a + 1]
  BY <1>1, <1>3, U16Type
<1>6. U16(b, a) # U16(p, a)
  <2>1. a \in 1 .. Len(p) /\ a + 1 \in 1 .. Len(p)
    BY <1>1, <1>3
  <2>3. ASSUME U16(b, a) = U16(p, a) PROVE p[a] = b[a] /\ p[a + 1] = b[a + 1]
    BY <1>1, <1>3, <2>3, SameWordSameBytes
  <2>4. QED
    BY <1>3, <2>3
<1>7. QED
  BY <1>1, <1>2, <1>3, <1>4, <1>5, <1>6

\* A report that was finalized and damaged on the way does not verify
\* (codec.c:43).
THEOREM DamageIsDetected ==
    ASSUME NEW p \in Seq(Bytes), Framed(p), codec_finalize_v3(p) = p,
           NEW b \in Seq(Bytes), Damaged(p, b)
    PROVE  ~codec_verify_v3(b)
<1> DEFINE s == codec_checksum_v3(p)
           c == U16(p, 3)
<1>1. s \in Words /\ c \in Words /\ c = (s - c) % 65536
  BY FinalizedVerifies, Verifies
<1>2. s \in Int /\ c \in Int
  <2> HIDE DEF s, c
  <2>1. QED
    BY <1>1, WordIsInt
<1>3. Len(p) = 2 * Half(p) /\ Half(p) >= 2 /\ Half(p) \in Nat
  BY FramedFacts, SumDef
<1>4. codec_verify_v3(b) => Framed(b)
  BY DEF codec_verify_v3
<1>5. ASSUME NEW i \in 1 .. Len(p), b[i] # p[i], b = [p EXCEPT ![i] = b[i]]
      PROVE  ~codec_verify_v3(b)
  <2>1. PICK k \in 1 .. Half(p) :
            /\ Len(b) = Len(p) /\ SameWordsBut(p, b, Half(p), k)
            /\ U16(p, 2 * k - 1) \in Words /\ U16(b, 2 * k - 1) \in Words
            /\ U16(b, 2 * k - 1) # U16(p, 2 * k - 1)
    BY <1>3, <1>5, OneByteIsOneWord
  <2> DEFINE d == U16(b, 2 * k - 1) - U16(p, 2 * k - 1)
  <2>2. d \in Int /\ d > -65536 /\ d < 65536 /\ d # 0 /\ U16(b, 2 * k - 1) = U16(p, 2 * k - 1) + d
    <3>1. \A x, y \in Words : /\ x - y \in Int /\ x - y > -65536 /\ x - y < 65536
                              /\ x = y + (x - y) /\ (x # y => x - y # 0)
      BY WordIsInt, WordRange
    <3>2. QED
      BY <2>1, <3>1
  <2> HIDE DEF d
  <2>3. codec_checksum_v3(b) = (s + d) % 65536
    BY <2>1, <2>2, OneWordDiffers
  <2>4. ASSUME codec_verify_v3(b) PROVE FALSE
    <3> DEFINE u == U16(b, 3)
    <3>1. u = (((s + d) % 65536) - u) % 65536
      BY <1>4, <2>3, <2>4, Verifies
    <3>2. k = 2 => u = c + d
      <4>1. ASSUME k = 2 PROVE 2 * k - 1 = 3
        BY <4>1
      <4>2. QED
        BY <2>2, <4>1
    <3>3. k # 2 => u = c
      <4>1. 2 \in 1 .. Half(p) /\ 2 * 2 - 1 = 3
        BY <1>3
      <4>2. ASSUME k # 2 PROVE U16(p, 2 * 2 - 1) = U16(b, 2 * 2 - 1)
        BY <2>1, <4>1, <4>2 DEF SameWordsBut
      <4>3. QED
        BY <4>1, <4>2
    <3>4. c = (s - c) % 65536
      BY <1>1
    <3>5. d \in Int /\ d > -65536 /\ d < 65536 /\ d # 0
      BY <2>2
    <3> HIDE DEF s, c, u
    <3>6. CASE k = 2
      <4>1. u = c + d
        BY <3>2, <3>6
      <4>2. QED
        BY <1>2, <3>1, <3>4, <3>5, <4>1
    <3>7. CASE k # 2
      <4>1. u = c
        BY <3>3, <3>7
      <4>2. QED
        BY <1>2, <3>1, <3>4, <3>5, <4>1
    <3>8. QED
      BY <3>6, <3>7
  <2>5. QED
    BY <2>4
<1>6. ASSUME b = SubSeq(p, 1, Len(p) - 1) PROVE ~codec_verify_v3(b)
  <2>1. Len(b) = Len(p) - 1
    BY <1>3, <1>6
  <2>2. ~Framed(b)
    BY <1>3, <2>1 DEF Framed
  <2>3. QED
    BY <1>4, <2>2
<1>7. ASSUME Len(p) > HID_OFF_CMDS, U16(p, Len(p) - 1) # 0, b = SubSeq(p, 1, Len(p) - 2)
      PROVE  ~codec_verify_v3(b)
  <2> DEFINE h == Half(p)
             w == U16(p, 2 * h - 1)
             r == PartSum(p)[h - 1]
  <2>1. /\ h >= 3 /\ h \in Nat /\ Len(b) = 2 * h - 2 /\ Half(b) = h - 1
        /\ \A i \in 1 .. 2 * h - 2 : b[i] = p[i]
    <3>1. h >= 3 /\ h \in Nat /\ Len(p) = 2 * h
      BY <1>3, <1>7 DEF HID_OFF_CMDS
    <3>2. Len(b) = 2 * h - 2 /\ \A i \in 1 .. 2 * h - 2 : b[i] = p[i]
      BY <1>7, <3>1
    <3>3. QED
      BY <3>1, <3>2 DEF Half
  <2>2. Len(p) - 1 = 2 * h - 1 /\ w # 0
    BY <1>3, <1>7
  <2>3. SameWords(p, b, 1, h - 1)
    <3> SUFFICES ASSUME NEW n \in 1 .. h - 1 PROVE U16(p, 2 * n - 1) = U16(b, 2 * n - 1)
      BY DEF SameWords
    <3>1. 2 * n - 1 \in 1 .. 2 * h - 2 /\ (2 * n - 1) + 1 \in 1 .. 2 * h - 2
      BY <2>1
    <3>2. QED
      BY <2>1, <3>1 DEF U16
  <2>4. r \in Words /\ w \in Words
    <3>1. h - 1 \in 0 .. Half(p) /\ 2 * h - 1 \in Int /\ 1 <= 2 * h - 1 /\ (2 * h - 1) + 1 <= Len(p)
      BY <1>3, <2>1
    <3>2. r \in Words
      BY <3>1, SumDef
    <3>3. w \in Words
      BY <3>1, U16Type
    <3>4. QED
      BY <3>2, <3>3
  <2>5. codec_checksum_v3(b) = r
    <3>1. h - 1 \in Nat /\ h - 1 <= Half(p) /\ h - 1 <= Half(b)
      BY <2>1
    <3>2. PartSum(b)[h - 1] = r
      BY <2>3, <3>1, SumsAgree
    <3>3. QED
      BY <2>1, <3>2, SumDef
  <2>6. s = (r + w) % 65536
    <3>1. h \in 1 .. Half(p)
      BY <2>1
    <3>2. QED
      BY <3>1, SumDef
  <2>7. U16(b, 3) = c
    <3>1. 2 \in 1 .. h - 1 /\ 2 * 2 - 1 = 3
      BY <2>1
    <3>2. U16(p, 2 * 2 - 1) = U16(b, 2 * 2 - 1)
      BY <2>3, <3>1 DEF SameWords
    <3>3. QED
      BY <3>1, <3>2
  <2>8. ASSUME codec_verify_v3(b) PROVE FALSE
    <3>1. c = (r - c) % 65536
      BY <1>4, <2>5, <2>7, <2>8, Verifies
    <3> HIDE DEF h, w, r, s, c
    <3>2. r \in Int /\ w \in Int /\ w > -65536 /\ w < 65536
      BY <2>4, WordIsInt, WordRange
    <3>3. (((r + w) % 65536) - c) % 65536 = c
      BY <1>1, <2>6
    <3>4. w = 0
      BY <1>2, <3>1, <3>2, <3>3, NoOtherDifference
    <3>5. QED
      BY <2>2, <3>4
  <2>9. QED
    BY <2>8
<1>8. QED
  BY <1>5, <1>6, <1>7 DEF Damaged

-------------------------------------------------------------------------------
(***************************************************************************)
(* The answers: what codec_build_response writes, a host reads.            *)
(***************************************************************************)
LEMMA ZerosType ==
    ASSUME NEW n \in Nat
    PROVE  /\ Zeros(n) \in Seq(Bytes) /\ Len(Zeros(n)) = n
           /\ \A i \in 1 .. n : Zeros(n)[i] = 0
<1>1. 0 \in Bytes
  BY ByteFacts
<1>2. QED
  BY <1>1 DEF Zeros

Joined(w, s, u) ==
    /\ w \in Seq(Bytes) /\ Len(w) = Len(s) + Len(u)
    /\ \A i \in 1 .. Len(s) : w[i] = s[i]
    /\ \A i \in 1 .. Len(u) : w[Len(s) + i] = u[i]

LEMMA ConcatReads ==
    ASSUME NEW s \in Seq(Bytes), NEW u \in Seq(Bytes) PROVE Joined(s \o u, s, u)
BY ConcatProperties DEF Joined

Header(id, index, n) == <<33, 3, 0, 0>> \o LittleEndian(HID_CMD_HEADER_SIZE + n) \o <<id, index>>

\* A payload whose length two bytes hold, with the header.
FitsU16(n) == n + 8 < 65536

LEMMA HeaderReads ==
    ASSUME NEW id \in Bytes, NEW index \in Bytes, NEW n \in Nat, FitsU16(n)
    PROVE  LET h == Header(id, index, n)
           IN  /\ h \in Seq(Bytes) /\ Len(h) = 8 /\ h[7] = id /\ h[8] = index
               /\ h[5] + 256 * h[6] = 4 + n
<1> DEFINE l == LittleEndian(4 + n)
           s == <<33, 3, 0, 0>>
           u == <<id, index>>
<1>1. l \in Seq(Bytes) /\ Len(l) = 2 /\ l[1] + 256 * l[2] = 4 + n
  <2>1. 4 + n \in Words
    BY WordRange DEF FitsU16
  <2>2. QED
    BY <2>1, LittleEndianReads
<1>2. s \in Seq(Bytes) /\ Len(s) = 4 /\ u \in Seq(Bytes) /\ Len(u) = 2 /\ u[1] = id /\ u[2] = index
  BY ByteFacts
<1> HIDE DEF l, s, u
<1>3. s \o l \in Seq(Bytes) /\ Len(s \o l) = 6 /\ (s \o l)[5] = l[1] /\ (s \o l)[6] = l[2]
  <2>1. Joined(s \o l, s, l)
    BY <1>1, <1>2, ConcatReads
  <2>2. (s \o l)[4 + 1] = l[1] /\ (s \o l)[4 + 2] = l[2]
    BY <1>1, <1>2, <2>1 DEF Joined
  <2>3. QED
    BY <1>1, <1>2, <2>1, <2>2 DEF Joined
<1> DEFINE k == s \o l
<1> HIDE DEF k
<1>4. k \in Seq(Bytes) /\ Len(k) = 6 /\ k[5] = l[1] /\ k[6] = l[2]
  BY <1>3 DEF k
<1>5. /\ k \o u \in Seq(Bytes) /\ Len(k \o u) = 8
      /\ (k \o u)[5] = k[5] /\ (k \o u)[6] = k[6]
      /\ (k \o u)[7] = id /\ (k \o u)[8] = index
  <2>1. Joined(k \o u, k, u)
    BY <1>2, <1>4, ConcatReads
  <2>2. (k \o u)[6 + 1] = u[1] /\ (k \o u)[6 + 2] = u[2]
    BY <1>2, <1>4, <2>1 DEF Joined
  <2>3. (k \o u)[5] = k[5] /\ (k \o u)[6] = k[6]
    BY <1>4, <2>1 DEF Joined
  <2>4. QED
    BY <1>2, <1>4, <2>1, <2>2, <2>3 DEF Joined
<1>6. Header(id, index, n) = k \o u
  BY DEF Header, HID_CMD_HEADER_SIZE, k, s, l, u
<1>7. QED
  BY <1>1, <1>4, <1>5, <1>6

\* The packet before the checksum, with the rest of the buffer zero.
Packet(id, index, payload, z) == Header(id, index, Len(payload)) \o payload \o Zeros(z)
IsPacket(f, id, index, payload) ==
    /\ f[5] + 256 * f[6] = 4 + Len(payload) /\ f[7] = id /\ f[8] = index
    /\ \A i \in 1 .. Len(payload) : f[8 + i] = payload[i]
    /\ \A i \in 8 + Len(payload) + 1 .. Len(f) : f[i] = 0

LEMMA PacketReads ==
    ASSUME NEW id \in Bytes, NEW index \in Bytes, NEW payload \in Seq(Bytes), NEW z \in Nat,
           FitsU16(Len(payload)), NEW f,
           f = Packet(id, index, payload, z)
    PROVE  /\ f \in Seq(Bytes) /\ Len(f) = 8 + Len(payload) + z
           /\ IsPacket(f, id, index, payload)
<1> DEFINE h == Header(id, index, Len(payload))
           n == Len(payload)
<1>1. /\ h \in Seq(Bytes) /\ Len(h) = 8 /\ h[7] = id /\ h[8] = index
      /\ h[5] + 256 * h[6] = 4 + n /\ n \in Nat
  BY HeaderReads
<1> HIDE DEF h
<1> DEFINE g == h \o payload
<1>2. /\ g \in Seq(Bytes) /\ Len(g) = 8 + n
      /\ \A i \in 1 .. 8 : g[i] = h[i]
      /\ \A i \in 1 .. n : g[8 + i] = payload[i]
  <2>1. Joined(g, h, payload)
    BY <1>1, ConcatReads
  <2>2. QED
    BY <1>1, <2>1 DEF Joined
<1> HIDE DEF g
<1>3. f = g \o Zeros(z)
  BY DEF g, h, Packet
<1>4. /\ f \in Seq(Bytes) /\ Len(f) = 8 + n + z
      /\ \A i \in 1 .. 8 + n : f[i] = g[i]
      /\ \A i \in 1 .. z : f[Len(g) + i] = 0
  <2>1. Joined(f, g, Zeros(z))
    BY <1>2, <1>3, ConcatReads, ZerosType
  <2>2. Len(Zeros(z)) = z /\ \A i \in 1 .. z : Zeros(z)[i] = 0
    BY ZerosType
  <2>3. \A i \in 1 .. z : f[Len(g) + i] = 0
    <3> DEFINE o == Zeros(z)
    <3>1. Len(o) = z /\ \A i \in 1 .. z : o[i] = 0
      BY <2>2
    <3>2. \A i \in 1 .. Len(o) : f[Len(g) + i] = o[i]
      BY <2>1 DEF Joined
    <3> HIDE DEF o
    <3>3. \A i \in 1 .. z : f[Len(g) + i] = o[i]
      BY <3>1, <3>2
    <3>4. QED
      <4> SUFFICES ASSUME NEW i \in 1 .. z PROVE f[Len(g) + i] = 0
        OBVIOUS
      <4>1. o[i] = 0
        BY <3>1
      <4>2. f[Len(g) + i] = o[i]
        BY <3>3
      <4>3. QED
        BY <4>1, <4>2
  <2>4. \A i \in 1 .. 8 + n : f[i] = g[i]
    BY <1>2, <2>1 DEF Joined
  <2>5. f \in Seq(Bytes) /\ Len(f) = 8 + n + z
    BY <1>2, <2>1, <2>2 DEF Joined
  <2>6. QED
    BY <2>3, <2>4, <2>5
<1>5. f[5] = h[5] /\ f[6] = h[6] /\ f[7] = h[7] /\ f[8] = h[8]
  BY <1>1, <1>2, <1>4
<1>6. ASSUME NEW i \in 1 .. n PROVE f[8 + i] = payload[i]
  <2>1. 8 + i \in 1 .. 8 + n
    BY <1>1
  <2>2. QED
    BY <1>2, <1>4, <2>1
<1>7. ASSUME NEW i \in 8 + n + 1 .. Len(f) PROVE f[i] = 0
  <2> DEFINE j == i - (8 + n)
  <2>1. j \in 1 .. z /\ i = Len(g) + j
    <3>1. n \in Nat /\ Len(g) = 8 + n /\ Len(f) = 8 + n + z
      BY <1>1, <1>2, <1>4
    <3> HIDE DEF n
    <3>2. i \in Int /\ 8 + n + 1 <= i /\ i <= 8 + n + z
      BY <3>1
    <3>3. j \in Int /\ 1 <= j /\ j <= z
      BY <3>1, <3>2
    <3>4. i = Len(g) + j
      BY <3>1, <3>2
    <3>5. QED
      BY <3>3, <3>4
  <2> HIDE DEF j, n
  <2>2. f[Len(g) + j] = 0
    <3>1. \A x \in 1 .. z : f[Len(g) + x] = 0
      BY <1>4
    <3>2. j \in 1 .. z
      BY <2>1
    <3>3. QED
      BY <3>1, <3>2, Zenon
  <2>3. i = Len(g) + j
    BY <2>1
  <2>4. QED
    BY <2>2, <2>3
<1>8. IsPacket(f, id, index, payload)
  BY <1>1, <1>4, <1>5, <1>6, <1>7 DEF IsPacket
<1>9. QED
  BY <1>4, <1>8

\* The sums of a packet and of the same followed by zeros are equal.
ZerosCut(f, p, l) ==
    /\ Len(p) = l /\ \A i \in 1 .. l : p[i] = f[i]
    /\ \A i \in l + 1 .. Len(f) : f[i] = 0

LEMMA CutZeros ==
    ASSUME NEW f \in Seq(Bytes), NEW m \in Nat, NEW l, l = 2 * m, l <= Len(f),
           NEW p \in Seq(Bytes), ZerosCut(f, p, l)
    PROVE  codec_checksum_v3(p) = codec_checksum_v3(f)
<1>1. Half(p) = m /\ m <= Half(f) /\ m <= Half(p) /\ Half(f) \in Nat /\ 2 * Half(f) <= Len(f)
  BY DEF Half, ZerosCut
<1>2. SameWords(p, f, 1, m)
  <2> SUFFICES ASSUME NEW n \in 1 .. m PROVE U16(p, 2 * n - 1) = U16(f, 2 * n - 1)
    BY DEF SameWords
  <2>1. 2 * n - 1 \in 1 .. 2 * m /\ (2 * n - 1) + 1 \in 1 .. 2 * m
    OBVIOUS
  <2>2. QED
    BY <2>1 DEF U16, ZerosCut
<1>3. PartSum(p)[m] = PartSum(f)[m]
  BY <1>1, <1>2, SumsAgree
<1>4. ASSUME NEW n \in m + 1 .. Half(f) PROVE U16(f, 2 * n - 1) = 0
  <2>1. 2 * n - 1 \in 2 * m + 1 .. Len(f) /\ (2 * n - 1) + 1 \in 2 * m + 1 .. Len(f)
    BY <1>1
  <2>2. f[2 * n - 1] = 0 /\ f[(2 * n - 1) + 1] = 0
    BY <2>1 DEF ZerosCut
  <2>3. U16(f, 2 * n - 1) = 0 + 256 * 0
    BY <2>2, ByteFacts DEF U16
  <2>4. QED
    BY <2>3
<1>5. PartSum(f)[Half(f)] = PartSum(f)[m]
  BY <1>1, <1>4, SumOfZeros
<1>6. QED
  BY <1>1, <1>3, <1>5, SumDef

\* A packet that reads as the answer with this id, index and payload.
ReadsAs(p, id, index, payload) ==
    /\ p # <<>>
    /\ Decoded(p) = [id |-> id, index |-> index, data |-> payload, ok |-> TRUE]

\* A response fits its buffer if its payload does, verifies, and holds the one
\* command with the id, the index and the payload given (codec.c:89).
THEOREM ResponseReadsBack ==
    ASSUME NEW id \in Bytes, NEW index \in Bytes, NEW payload \in Seq(Bytes),
           Len(payload) <= Cap - 8
    PROVE  ReadsAs(codec_build_response(Cap, id, index, payload), id, index, payload)
<1> DEFINE n == Len(payload)
           total == 8 + n
           padded == 4 * ((total + 3) \div 4)
           full == Header(id, index, n) \o payload \o Zeros(Cap - total)
           f == codec_finalize_v3(full)
           p == SubSeq(f, 1, padded)
<1>1. Cap \in Nat /\ Cap % 4 = 0 /\ Cap >= 24 /\ Cap < 65536 /\ n \in Nat /\ n <= Cap - 8
  BY DispatchAssumption, ByteFacts
<1>2. /\ padded \in Nat /\ total <= padded /\ padded <= Cap /\ padded % 4 = 0 /\ padded >= 8
      /\ (total + 3) \div 4 \in Nat
  BY <1>1
<1>3. codec_build_response(Cap, id, index, payload) = p
  <2>1. codec_build_response(Cap, id, index, payload) =
          IF 4 * ((4 + 4 + n + 3) \div 4) > Cap THEN <<>>
          ELSE SubSeq(codec_finalize_v3(<<33, 3, 0, 0>> \o LittleEndian(4 + n)
                        \o <<id, index>> \o payload \o Zeros(Cap - (4 + 4 + n))),
                      1, 4 * ((4 + 4 + n + 3) \div 4))
    BY DEF codec_build_response, HID_OFF_CMDS, HID_CMD_HEADER_SIZE
  <2>2. 4 + 4 + n = total
    BY <1>1
  <2>3. full = <<33, 3, 0, 0>> \o LittleEndian(4 + n) \o <<id, index>> \o payload
                 \o Zeros(Cap - total)
    BY DEF Header, HID_CMD_HEADER_SIZE
  <2> HIDE DEF n, total, full
  <2>4. ~ padded > Cap
    BY <1>1, <1>2
  <2>5. QED
    BY <2>1, <2>2, <2>3, <2>4
<1>4. /\ full \in Seq(Bytes) /\ Len(full) = Cap
      /\ full[5] + 256 * full[6] = 4 + n /\ full[7] = id /\ full[8] = index
      /\ \A i \in 1 .. n : full[8 + i] = payload[i]
      /\ \A i \in total + 1 .. Cap : full[i] = 0
  <2> DEFINE z == Cap - total
  <2>1. z \in Nat /\ FitsU16(Len(payload)) /\ 8 + n + z = Cap
    BY <1>1 DEF FitsU16
  <2>2. full = Packet(id, index, payload, z)
    BY DEF Packet
  <2> HIDE DEF z, full
  <2>3. /\ full \in Seq(Bytes) /\ Len(full) = 8 + Len(payload) + z
        /\ IsPacket(full, id, index, payload)
    BY <2>1, <2>2, PacketReads
  <2>4. QED
    BY <2>1, <2>3 DEF IsPacket
<1> HIDE DEF full
<1>5. Framed(full)
  <2>1. Cap % 2 = 0
    BY <1>1
  <2>2. QED
    BY <1>1, <1>4, <2>1 DEF Framed, HID_OFF_CMDS
<1>6. /\ f \in Seq(Bytes) /\ Len(f) = Cap /\ Framed(f)
      /\ \A i \in 1 .. Cap : i \notin {3, 4} => f[i] = full[i]
  <2> DEFINE w == [full EXCEPT ![3] = 0, ![4] = 0]
  <2>1. /\ f \in Seq(Bytes) /\ Len(f) = Len(full) /\ Framed(f)
        /\ SameBytesBut34(f, full)
    BY <1>4, <1>5, FinalizedIs
  <2> HIDE DEF w, f
  <2>2. QED
    BY <1>4, <2>1 DEF SameBytesBut34
<1>7. codec_verify_v3(f)
  BY <1>4, <1>5, FinalizedVerifies
<1> HIDE DEF f
<1>8. /\ p \in Seq(Bytes) /\ Len(p) = padded /\ \A i \in 1 .. padded : p[i] = f[i]
  BY <1>1, <1>2, <1>6
<1> HIDE DEF p
<1>9. codec_verify_v3(p)
  <2> DEFINE m == 2 * ((total + 3) \div 4)
  <2>1. padded = 2 * m /\ m \in Nat /\ padded <= Len(f)
    BY <1>2, <1>6
  <2>2. ZerosCut(f, p, padded)
    <3>1. \A i \in padded + 1 .. Len(f) : f[i] = 0
      BY <1>1, <1>2, <1>4, <1>6
    <3> HIDE DEF padded
    <3>2. QED
      BY <1>8, <3>1 DEF ZerosCut
  <2>3. codec_checksum_v3(p) = codec_checksum_v3(f)
    <3> HIDE DEF padded, m
    <3>1. QED
      BY <1>6, <1>8, <2>1, <2>2, CutZeros
  <2>4. 3 \in 1 .. padded /\ 3 + 1 \in 1 .. padded
    BY <1>2
  <2>5. U16(p, 3) = U16(f, 3)
    BY <1>8, <2>4 DEF U16
  <2>6. Framed(p)
    BY <1>2, <1>8 DEF Framed, HID_OFF_CMDS
  <2>7. QED
    BY <1>6, <1>7, <1>8, <2>3, <2>5, <2>6, Verifies
<1>10. p[5] = full[5] /\ p[6] = full[6] /\ p[7] = id /\ p[8] = index
  <2>1. 5 \in 1 .. padded /\ 6 \in 1 .. padded /\ 7 \in 1 .. padded /\ 8 \in 1 .. padded
    BY <1>2
  <2>2. \A i \in {5, 6, 7, 8} : i \in 1 .. Cap /\ i \notin {3, 4}
    BY <1>1
  <2>3. QED
    BY <1>4, <1>6, <1>8, <2>1, <2>2
<1>11. U16(p, 5) = 4 + n
  <2>1. U16(p, 5) = p[5] + 256 * p[6]
    BY ByteFacts DEF U16
  <2>2. QED
    BY <1>4, <1>10, <2>1
<1>12. SubSeq(p, 9, 8 + n) = payload
  <2>1. \A i \in 1 .. n : p[8 + i] = payload[i]
    <3> SUFFICES ASSUME NEW i \in 1 .. n PROVE p[8 + i] = payload[i]
      OBVIOUS
    <3>1. 8 + i \in 1 .. padded /\ 8 + i \in 1 .. Cap /\ 8 + i \notin {3, 4}
      BY <1>1, <1>2
    <3>2. QED
      BY <1>4, <1>6, <1>8, <3>1
  <2>2. SubSeq(p, 9, 8 + n) = [i \in 1 .. n |-> p[8 + i]]
    <3>1. ((8 + n) - 9) + 1 = n /\ \A i \in 1 .. n : 9 + i - 1 = 8 + i
      BY <1>1
    <3>2. QED
      BY <3>1 DEF SubSeq
  <2>3. payload = [i \in 1 .. n |-> payload[i]]
    OBVIOUS
  <2>4. QED
    BY <2>1, <2>2, <2>3
<1>13. LET rest == SubSeq(p, total + 1, padded) IN rest = Zeros(Len(rest))
  <2> DEFINE m == padded - total
             rest == SubSeq(p, total + 1, padded)
  <2>1. m \in Nat /\ (padded - (total + 1)) + 1 = m
    BY <1>1, <1>2
  <2>2. rest = [i \in 1 .. m |-> p[(total + 1) + i - 1]]
    BY <2>1 DEF SubSeq
  <2>3. ASSUME NEW i \in 1 .. m PROVE p[(total + 1) + i - 1] = 0
    <3>1. /\ (total + 1) + i - 1 \in 1 .. padded /\ (total + 1) + i - 1 \in total + 1 .. Cap
          /\ (total + 1) + i - 1 \in 1 .. Cap /\ (total + 1) + i - 1 \notin {3, 4}
      BY <1>1, <1>2, <2>1
    <3>2. QED
      BY <1>4, <1>6, <1>8, <3>1
  <2>4. rest = [i \in 1 .. m |-> 0]
    BY <2>2, <2>3
  <2>5. Len(rest) = m
    BY <2>1, <2>4
  <2>6. QED
    BY <2>4, <2>5 DEF Zeros
<1>14. CommandAt(p, 5) = [length |-> 4 + n, id |-> id, index |-> index, data |-> payload]
  <2>1. 5 + 2 = 7 /\ 5 + 3 = 8 /\ 5 + 4 = 9 /\ 5 + (4 + n) - 1 = 8 + n
    BY <1>1
  <2>2. QED
    BY <1>10, <1>11, <1>12, <2>1 DEF CommandAt, HID_CMD_HEADER_SIZE
<1>15. Decoded(p) = [id |-> id, index |-> index, data |-> payload, ok |-> TRUE]
  <2> DEFINE cmd == CommandAt(p, 5)
             rest == SubSeq(p, total + 1, padded)
  <2>1. 4 + cmd.length + 1 = total + 1
    BY <1>1, <1>14
  <2>2. Len(p) = padded /\ padded % 4 = 0
    BY <1>2, <1>8
  <2>3. rest = Zeros(Len(rest))
    BY <1>13
  <2>4. cmd.id = id /\ cmd.index = index /\ cmd.data = payload
    BY <1>14
  <2>5. 4 + 1 = 5
    OBVIOUS
  <2> HIDE DEF n, total, padded, cmd
  <2>6. Decoded(p) = [id |-> cmd.id, index |-> cmd.index, data |-> cmd.data,
          ok |-> codec_verify_v3(p) /\ rest = Zeros(Len(rest)) /\ Len(p) % 4 = 0]
    BY <2>1, <2>2, <2>5, Zenon DEF Decoded, HID_OFF_CMDS, cmd
  <2> HIDE DEF rest
  <2>7. (codec_verify_v3(p) /\ rest = Zeros(Len(rest)) /\ Len(p) % 4 = 0) = TRUE
    BY <1>9, <2>2, <2>3
  <2>8. QED
    BY <2>4, <2>6, <2>7
<1>16. p # <<>>
  BY <1>2, <1>8
<1>17. QED
  BY <1>3, <1>15, <1>16 DEF ReadsAs

-------------------------------------------------------------------------------
(***************************************************************************)
(* The reports: where their commands are, and what the iterator reads.     *)
(***************************************************************************)
\* A position of a report and a position behind it.
LEMMA Behind ==
    ASSUME NEW a \in Nat, NEW m \in Nat, 5 <= a
    PROVE  a + 4 + m \in Nat /\ 5 <= a + 4 + m
OBVIOUS

LEMMA CommandBytesRead ==
    ASSUME NEW c \in CommandType, Len(c.data) < CONFIG_PAYLOAD_MAX
    PROVE  LET b == CommandBytes(c)
           IN  /\ b \in Seq(Bytes) /\ Len(b) = 4 + Len(c.data)
               /\ b[1] + 256 * b[2] = 4 + Len(c.data) /\ b[3] = c.id /\ b[4] = c.index
               /\ \A i \in 1 .. Len(c.data) : b[4 + i] = c.data[i]
<1> DEFINE n == Len(c.data)
           l == LittleEndian(4 + n)
           u == <<c.id, c.index>>
           d == c.data
<1>1. c.id \in Bytes /\ c.index \in Bytes /\ d \in Seq(Bytes) /\ n \in Nat /\ n < 4096
  BY DEF CommandType, CONFIG_PAYLOAD_MAX
<1>2. l \in Seq(Bytes) /\ Len(l) = 2 /\ l[1] + 256 * l[2] = 4 + n
  <2>1. 4 + n \in Words
    BY <1>1, WordRange
  <2>2. QED
    BY <2>1, LittleEndianReads
<1>3. u \in Seq(Bytes) /\ Len(u) = 2 /\ u[1] = c.id /\ u[2] = c.index
  BY <1>1
<1>4. CommandBytes(c) = (l \o u) \o d
  BY DEF CommandBytes, HID_CMD_HEADER_SIZE
<1>5. n = Len(d)
  OBVIOUS
<1> HIDE DEF l, u, d, n
<1> DEFINE h == l \o u
<1>6. /\ h \in Seq(Bytes) /\ Len(h) = 4 /\ h[1] = l[1] /\ h[2] = l[2]
      /\ h[3] = c.id /\ h[4] = c.index
  <2>1. Joined(h, l, u)
    BY <1>2, <1>3, ConcatReads
  <2>2. h \in Seq(Bytes) /\ Len(h) = 4 /\ h[1] = l[1] /\ h[2] = l[2]
    BY <1>2, <1>3, <2>1 DEF Joined
  <2>3. h[2 + 1] = u[1] /\ h[2 + 2] = u[2]
    BY <1>2, <1>3, <2>1 DEF Joined
  <2>4. QED
    BY <1>3, <2>2, <2>3
<1> HIDE DEF h
<1> DEFINE b == h \o d
<1>7. Joined(b, h, d)
  BY <1>1, <1>6, ConcatReads
<1> HIDE DEF b
<1>8. /\ b \in Seq(Bytes) /\ Len(b) = 4 + n
      /\ b[1] = h[1] /\ b[2] = h[2] /\ b[3] = h[3] /\ b[4] = h[4]
      /\ \A i \in 1 .. n : b[4 + i] = d[i]
  BY <1>5, <1>6, <1>7 DEF Joined
<1>9. CommandBytes(c) = b
  BY <1>4 DEF b, h
<1>10. b[1] + 256 * b[2] = 4 + n /\ b[3] = c.id /\ b[4] = c.index
  BY <1>2, <1>6, <1>8
<1>11. /\ b \in Seq(Bytes) /\ Len(b) = 4 + Len(c.data)
       /\ b[1] + 256 * b[2] = 4 + Len(c.data) /\ b[3] = c.id /\ b[4] = c.index
       /\ \A i \in 1 .. Len(c.data) : b[4 + i] = c.data[i]
  BY <1>8, <1>10 DEF n, d
<1>12. QED
  BY <1>9, <1>11

\* The positions of a batch lie in the report.
LEMMA AfterRange ==
    ASSUME NEW r \in Reports, Batch(r), NEW n \in 0 .. Len(r.cmds)
    PROVE  After(r, n) \in Nat /\ 5 <= After(r, n) /\ After(r, n) <= Len(r.sent) + 1
<1>1. r \in ReportType /\ Framed(r.sent) /\ CommandsFollow(r)
  BY ReportsAssumption DEF Batch
<1>2. Len(r.sent) >= 4 /\ Len(r.sent) \in Nat /\ Len(r.cmds) \in Nat
  BY <1>1 DEF ReportType, Framed, HID_OFF_CMDS
<1>3. After(r, 0) = 5
  BY DEF After, HID_OFF_CMDS
<1>4. \A i \in 1 .. Len(r.cmds) :
         /\ Len(r.cmds[i].data) \in Nat
         /\ r.cmds[i].at = After(r, i - 1) /\ After(r, i) <= Len(r.sent) + 1
         /\ After(r, i) = r.cmds[i].at + 4 + Len(r.cmds[i].data)
  <2> SUFFICES ASSUME NEW i \in 1 .. Len(r.cmds)
               PROVE  /\ Len(r.cmds[i].data) \in Nat
                      /\ r.cmds[i].at = After(r, i - 1) /\ After(r, i) <= Len(r.sent) + 1
                      /\ After(r, i) = r.cmds[i].at + 4 + Len(r.cmds[i].data)
    OBVIOUS
  <2>1. r.cmds[i] \in CommandType
    BY <1>1 DEF ReportType
  <2>2. r.cmds[i].data \in Seq(Bytes)
    BY <2>1 DEF CommandType
  <2>3. i # 0
    OBVIOUS
  <2>4. QED
    BY <1>1, <2>2, <2>3 DEF CommandsFollow, After, HID_CMD_HEADER_SIZE
<1> DEFINE S == {i \in Nat : i <= Len(r.cmds) => After(r, i) \in Nat /\ 5 <= After(r, i)}
<1>5. 0 \in S
  BY <1>3
<1>6. ASSUME NEW i \in S PROVE i + 1 \in S
  <2>1. SUFFICES ASSUME i + 1 <= Len(r.cmds)
                 PROVE  After(r, i + 1) \in Nat /\ 5 <= After(r, i + 1)
    OBVIOUS
  <2>2. After(r, i) \in Nat /\ 5 <= After(r, i)
    BY <1>2, <2>1
  <2>3. i + 1 \in 1 .. Len(r.cmds) /\ (i + 1) - 1 = i
    BY <1>2, <2>1
  <2>4. After(r, i + 1) = After(r, i) + 4 + Len(r.cmds[i + 1].data)
        /\ Len(r.cmds[i + 1].data) \in Nat
    BY <1>4, <2>3
  <2>5. After(r, i) + 4 + Len(r.cmds[i + 1].data) \in Nat
        /\ 5 <= After(r, i) + 4 + Len(r.cmds[i + 1].data)
    BY <2>2, <2>4, Behind
  <2> HIDE DEF S
  <2>6. QED
    BY <2>4, <2>5
<1> HIDE DEF S
<1>7. S = Nat
  <2>1. S \in SUBSET Nat
    BY DEF S
  <2>2. QED
    BY <1>5, <1>6, <2>1, SetInduction
<1>8. After(r, n) \in Nat /\ 5 <= After(r, n)
  BY <1>2, <1>7 DEF S
<1>9. After(r, n) <= Len(r.sent) + 1
  BY <1>2, <1>3, <1>4
<1>10. QED
  BY <1>8, <1>9

\* What is cut out of a sequence, element by element.
CutOf(b, p, e, m) == Len(b) = m /\ \A i \in 1 .. m : b[i] = p[(e + i) - 1]

LEMMA CutReads ==
    ASSUME NEW p \in Seq(Bytes), NEW e \in Nat, NEW m \in Nat
    PROVE  SubSeq(p, e, (e + m) - 1) = [i \in 1 .. m |-> p[(e + i) - 1]]
<1>1. (((e + m) - 1) - e) + 1 = m
  OBVIOUS
<1>2. SubSeq(p, e, (e + m) - 1) = [i \in 1 .. (((e + m) - 1) - e) + 1 |-> p[(e + i) - 1]]
  BY DEF SubSeq
<1>3. QED
  BY <1>1, <1>2

\* The bytes of the command c, whose data are m bytes, are at e in L bytes.
Written(p, e, c, m, L) ==
    /\ m = Len(c.data) /\ L = Len(p) /\ L < 4096 /\ e + 4 + m <= L + 1
    /\ SubSeq(p, e, (e + (4 + m)) - 1) = CommandBytes(c)

LEMMA CommandIsRead ==
    ASSUME NEW p \in Seq(Bytes), NEW e \in Nat, NEW c \in CommandType,
           NEW m \in Nat, NEW L \in Nat, Written(p, e, c, m, L)
    PROVE  /\ CommandAt(p, e)
                = [length |-> 4 + m, id |-> c.id, index |-> c.index, data |-> c.data]
           /\ HasCommand(p, e)
<1> DEFINE b == CommandBytes(c)
           d == c.data
<1>1. L < 4096 /\ e + 4 + m <= L + 1
  BY DEF Written
<1>2. m = Len(d) /\ L = Len(p)
  BY DEF Written
<1>3. SubSeq(p, e, (e + (4 + m)) - 1) = b
  BY DEF Written
<1>4. d \in Seq(Bytes)
  BY DEF CommandType
<1>5. /\ b[1] + 256 * b[2] = 4 + m /\ b[3] = c.id /\ b[4] = c.index
      /\ \A i \in 1 .. m : b[4 + i] = d[i]
  <2>1. m < 4096
    BY <1>1
  <2>2. Len(d) < CONFIG_PAYLOAD_MAX
    BY <1>2, <2>1 DEF CONFIG_PAYLOAD_MAX
  <2>3. /\ b[1] + 256 * b[2] = 4 + Len(d) /\ b[3] = c.id /\ b[4] = c.index
        /\ \A i \in 1 .. Len(d) : b[4 + i] = d[i]
    BY <2>2, CommandBytesRead
  <2> HIDE DEF b, d
  <2>4. QED
    BY <1>2, <2>3
<1> HIDE DEF b, d
<1>6. \A i \in 1 .. 4 + m : b[i] = p[(e + i) - 1]
  <2>1. SubSeq(p, e, (e + (4 + m)) - 1) = [i \in 1 .. 4 + m |-> p[(e + i) - 1]]
    <3>1. 4 + m \in Nat
      OBVIOUS
    <3>2. QED
      BY <3>1, CutReads
  <2>2. QED
    BY <1>3, <2>1
<1>7. p[e] = b[1] /\ p[e + 1] = b[2] /\ p[e + 2] = b[3] /\ p[e + 3] = b[4]
  <2>1. 1 \in 1 .. 4 + m /\ 2 \in 1 .. 4 + m /\ 3 \in 1 .. 4 + m /\ 4 \in 1 .. 4 + m
    OBVIOUS
  <2>2. (e + 1) - 1 = e /\ (e + 2) - 1 = e + 1 /\ (e + 3) - 1 = e + 2 /\ (e + 4) - 1 = e + 3
    OBVIOUS
  <2>3. /\ b[1] = p[(e + 1) - 1] /\ b[2] = p[(e + 2) - 1]
        /\ b[3] = p[(e + 3) - 1] /\ b[4] = p[(e + 4) - 1]
    BY <1>6, <2>1
  <2>4. QED
    BY <2>2, <2>3
<1>8. U16(p, e) = 4 + m
  BY <1>5, <1>7, ByteFacts DEF U16
<1>9. SubSeq(p, e + 4, (e + (4 + m)) - 1) = d
  <2>1. \A i \in 1 .. m : p[((e + 4) + i) - 1] = d[i]
    <3> SUFFICES ASSUME NEW i \in 1 .. m PROVE p[((e + 4) + i) - 1] = d[i]
      OBVIOUS
    <3>1. 4 + i \in 1 .. 4 + m /\ (e + (4 + i)) - 1 = ((e + 4) + i) - 1
      OBVIOUS
    <3>2. b[4 + i] = p[(e + (4 + i)) - 1]
      BY <1>6, <3>1
    <3>3. QED
      BY <1>5, <3>1, <3>2
  <2>2. ((e + 4) + m) - 1 = (e + (4 + m)) - 1 /\ e + 4 \in Nat
    OBVIOUS
  <2>3. SubSeq(p, e + 4, ((e + 4) + m) - 1) = [i \in 1 .. m |-> p[((e + 4) + i) - 1]]
    BY <2>2, CutReads
  <2>4. d = [i \in 1 .. m |-> d[i]]
    BY <1>2, <1>4
  <2>5. [i \in 1 .. m |-> p[((e + 4) + i) - 1]] = [i \in 1 .. m |-> d[i]]
    BY <2>1
  <2>6. QED
    BY <2>2, <2>3, <2>4, <2>5
<1>10. HasCommand(p, e)
  <2>1. (L - e) + 1 >= 4 /\ (L - e) + 1 >= 4 + m /\ 4 + m >= 4
    BY <1>1
  <2>2. QED
    BY <1>2, <1>8, <2>1 DEF HasCommand, HID_CMD_HEADER_SIZE
<1>11. CommandAt(p, e) = [length |-> 4 + m, id |-> c.id, index |-> c.index, data |-> d]
  <2>1. p[e + 2] = c.id /\ p[e + 3] = c.index
    BY <1>5, <1>7
  <2>2. CommandAt(p, e) = [length |-> U16(p, e), id |-> p[e + 2], index |-> p[e + 3],
                           data |-> SubSeq(p, e + 4, e + U16(p, e) - 1)]
    BY DEF CommandAt, HID_CMD_HEADER_SIZE
  <2>3. SubSeq(p, e + 4, e + U16(p, e) - 1) = d
    <3>1. (e + (4 + m)) - 1 = e + (4 + m) - 1
      OBVIOUS
    <3>2. QED
      BY <1>8, <1>9, <3>1
  <2>4. QED
    BY <1>8, <2>1, <2>2, <2>3
<1>12. QED
  BY <1>10, <1>11 DEF d

ReadAt(r, n) ==
    [length |-> 4 + Len(r.cmds[n + 1].data), id |-> r.cmds[n + 1].id,
     index |-> r.cmds[n + 1].index, data |-> r.cmds[n + 1].data]

\* The iterator reads the commands of a batch, each from where the one before
\* it ends, and nothing after the last.
LEMMA BatchReads ==
    ASSUME NEW r \in Reports, Batch(r), NEW n \in 0 .. Len(r.cmds)
    PROVE  /\ n < Len(r.cmds) =>
                /\ HasCommand(r.sent, After(r, n)) /\ CommandAt(r.sent, After(r, n)) = ReadAt(r, n)
                /\ After(r, n + 1) = After(r, n) + 4 + Len(r.cmds[n + 1].data)
                /\ r.cmds[n + 1] \in CommandType
           /\ n = Len(r.cmds) => ~HasCommand(r.sent, After(r, n))
<1>1. r \in ReportType /\ Len(r.sent) < CONFIG_PAYLOAD_MAX /\ CommandsFollow(r)
      /\ NothingFollows(r.sent, After(r, Len(r.cmds)))
  BY ReportsAssumption DEF Batch
<1>2. r.sent \in Seq(Bytes) /\ Len(r.sent) \in Nat /\ Len(r.cmds) \in Nat
  BY <1>1 DEF ReportType
<1>3. n = Len(r.cmds) => ~HasCommand(r.sent, After(r, n))
  <2> SUFFICES ASSUME n = Len(r.cmds) PROVE ~HasCommand(r.sent, After(r, n))
    OBVIOUS
  <2> DEFINE e == After(r, n)
             k == Len(r.sent) - e + 1
             w == U16(r.sent, e)
  <2>1. e \in Nat /\ 5 <= e /\ e <= Len(r.sent) + 1
    BY AfterRange
  <2>2. k \in Int /\ (k >= 4 => w \in Int)
    <3>1. k >= 4 => e + 1 <= Len(r.sent)
      BY <1>2, <2>1
    <3>2. k >= 4 => w \in Words
      BY <1>2, <2>1, <3>1, U16Type
    <3>3. k \in Int
      BY <1>2, <2>1
    <3> HIDE DEF w, k
    <3>4. QED
      BY <3>2, <3>3, WordIsInt
  <2>3. k < 4 \/ w < 4 \/ w > k
    BY <1>1 DEF NothingFollows, HID_CMD_HEADER_SIZE
  <2>4. HasCommand(r.sent, e) => k >= 4 /\ w >= 4 /\ k >= w
    BY DEF HasCommand, HID_CMD_HEADER_SIZE
  <2> HIDE DEF e, k, w
  <2>5. ~HasCommand(r.sent, e)
    BY <2>2, <2>3, <2>4
  <2>6. QED
    BY <2>5 DEF e
<1>4. ASSUME n < Len(r.cmds)
      PROVE  /\ HasCommand(r.sent, After(r, n)) /\ CommandAt(r.sent, After(r, n)) = ReadAt(r, n)
             /\ After(r, n + 1) = After(r, n) + 4 + Len(r.cmds[n + 1].data)
             /\ r.cmds[n + 1] \in CommandType
  <2> DEFINE c == r.cmds[n + 1]
  <2>1. n + 1 \in 1 .. Len(r.cmds) /\ (n + 1) - 1 = n /\ n + 1 # 0
    BY <1>2, <1>4
  <2>2. c \in CommandType
    <3>1. r.cmds \in Seq(CommandType)
      BY <1>1 DEF ReportType
    <3>2. QED
      BY <2>1, <3>1, ElementOfSeq
  <2>3. c.data \in Seq(Bytes) /\ Len(c.data) \in Nat
    <3>1. c.data \in Seq(Bytes)
      BY <2>2 DEF CommandType
    <3>2. QED
      BY <3>1
  <2>4. /\ c.at = After(r, n) /\ After(r, n + 1) <= Len(r.sent) + 1
        /\ SubSeq(r.sent, c.at, After(r, n + 1) - 1) = CommandBytes(c)
    BY <1>1, <2>1 DEF CommandsFollow
  <2>5. After(r, n + 1) = After(r, n) + 4 + Len(c.data)
    BY <2>1, <2>4 DEF After, HID_CMD_HEADER_SIZE
  <2>6. After(r, n) \in Nat /\ 5 <= After(r, n)
    BY AfterRange
  <2>7. HasCommand(r.sent, After(r, n)) /\ CommandAt(r.sent, After(r, n)) = ReadAt(r, n)
    <3>1. CommandAt(r.sent, After(r, n))
            = [length |-> 4 + Len(c.data), id |-> c.id, index |-> c.index, data |-> c.data]
          /\ HasCommand(r.sent, After(r, n))
      <4> DEFINE m == Len(c.data)
                 L == Len(r.sent)
                 e == After(r, n)
      <4>1. m \in Nat /\ L \in Nat /\ e \in Nat
        BY <1>2, <2>3, <2>6
      <4>2. e + 4 + m <= L + 1
        BY <2>4, <2>5
      <4>3. L < 4096
        BY <1>1 DEF CONFIG_PAYLOAD_MAX
      <4>4. SubSeq(r.sent, e, (e + (4 + m)) - 1) = CommandBytes(c)
        <5>1. (e + (4 + m)) - 1 = (e + 4 + m) - 1
          <6> HIDE DEF e, m
          <6>1. QED
            BY <4>1
        <5>2. SubSeq(r.sent, e, (e + 4 + m) - 1) = CommandBytes(c)
          BY <2>4, <2>5
        <5>3. QED
          BY <5>1, <5>2
      <4>5. Written(r.sent, e, c, m, L)
        BY <4>2, <4>3, <4>4 DEF Written
      <4>6. CommandAt(r.sent, e) = [length |-> 4 + m, id |-> c.id, index |-> c.index, data |-> c.data]
            /\ HasCommand(r.sent, e)
        <5> HIDE DEF m, L, e, c
        <5>1. QED
          BY <1>2, <2>2, <4>1, <4>5, CommandIsRead
      <4>7. QED
        BY <4>6
    <3>2. QED
      BY <3>1 DEF ReadAt
  <2>8. QED
    BY <2>2, <2>5, <2>7
<1>5. QED
  BY <1>3, <1>4

LEMMA LenIsDomain ==
    ASSUME NEW p \in Seq(Bytes), NEW q \in Seq(Bytes), DOMAIN p = DOMAIN q
    PROVE  Len(p) = Len(q)
<1>1. 1 .. Len(p) = 1 .. Len(q) /\ Len(p) \in Nat /\ Len(q) \in Nat
  OBVIOUS
<1>2. QED
  BY <1>1

\* What a report is when it reaches the dispatcher: only one that arrives as
\* sent verifies, and a batch that arrives as sent does.
LEMMA OnlyIntactVerifies ==
    ASSUME NEW r \in Reports
    PROVE  /\ r \in ReportType /\ r.bytes \in Seq(Bytes) /\ r.sent \in Seq(Bytes)
           /\ codec_verify_v3(r.bytes) => r.bytes = r.sent /\ Batch(r)
           /\ r.bytes = r.sent /\ Len(r.bytes) >= HID_OFF_CMDS
                => Batch(r) /\ codec_verify_v3(r.bytes)
<1>1. /\ r \in ReportType /\ r.bytes \in Seq(Bytes) /\ r.sent \in Seq(Bytes)
      /\ Batch(r) \/ Len(r.sent) < HID_OFF_CMDS
      /\ r.bytes = r.sent \/ Damaged(r.sent, r.bytes)
  BY ReportsAssumption DEF ReportType
<1>2. Len(r.sent) < HID_OFF_CMDS => ~codec_verify_v3(r.bytes)
  <2> SUFFICES ASSUME Len(r.sent) < HID_OFF_CMDS, codec_verify_v3(r.bytes) PROVE FALSE
    OBVIOUS
  <2>1. Len(r.bytes) >= 4 /\ Len(r.sent) < 4 /\ Len(r.sent) \in Nat
    BY <1>1 DEF codec_verify_v3, Framed, HID_OFF_CMDS
  <2>2. Damaged(r.sent, r.bytes) => Len(r.bytes) <= Len(r.sent)
    <3>1. ~ (Len(r.sent) > HID_OFF_CMDS)
      BY <2>1 DEF HID_OFF_CMDS
    <3>2. ASSUME Damaged(r.sent, r.bytes) PROVE Len(r.bytes) <= Len(r.sent)
      <4>1. CASE r.bytes = SubSeq(r.sent, 1, Len(r.sent) - 1)
        BY <1>1, <4>1
      <4>2. CASE \E i \in 1 .. Len(r.sent) : r.bytes = [r.sent EXCEPT ![i] = r.bytes[i]]
        <5>1. PICK i \in 1 .. Len(r.sent) : r.bytes = [r.sent EXCEPT ![i] = r.bytes[i]]
          BY <4>2
        <5>2. DOMAIN [r.sent EXCEPT ![i] = r.bytes[i]] = DOMAIN r.sent
          OBVIOUS
        <5>3. DOMAIN r.bytes = DOMAIN r.sent
          BY <5>1, <5>2
        <5>4. Len(r.bytes) = Len(r.sent)
          BY <1>1, <5>3, LenIsDomain
        <5>5. QED
          BY <1>1, <2>1, <5>4
      <4>3. QED
        BY <3>1, <3>2, <4>1, <4>2 DEF Damaged
    <3>3. QED
      BY <3>2
  <2>3. QED
    BY <1>1, <2>1, <2>2
<1>3. Batch(r) => Framed(r.sent) /\ codec_finalize_v3(r.sent) = r.sent
  BY DEF Batch
<1>4. Batch(r) => codec_verify_v3(r.sent)
  BY <1>1, <1>3, FinalizedVerifies
<1>5. Batch(r) /\ Damaged(r.sent, r.bytes) => ~codec_verify_v3(r.bytes)
  BY <1>1, <1>3, DamageIsDetected
<1>6. r.bytes = r.sent /\ Len(r.bytes) >= HID_OFF_CMDS => ~ Len(r.sent) < HID_OFF_CMDS
  BY <1>1 DEF HID_OFF_CMDS
<1>7. QED
  BY <1>1, <1>2, <1>4, <1>5, <1>6

-------------------------------------------------------------------------------
(***************************************************************************)
(* The dispatcher.  Between two steps it is idle and has answered what it  *)
(* had to, or has not verified a report yet, or is in a batch, that came   *)
(* as it was sent, behind the command it answered last.                    *)
(***************************************************************************)
ByteSeqs == Seq(Bytes)
AnswerType == [id : Bytes, index : Bytes, data : ByteSeqs, ok : {TRUE}]

Position ==
    \/ cursor = Idle /\ Len(said) = Len(Expected)
    \/ cursor = 0 /\ report \in Reports /\ said = <<>>
    \/ /\ cursor > 0 /\ cursor \in Nat /\ report \in Reports /\ Intact /\ Batch(report)
       /\ Len(said) <= Len(report.cmds) /\ cursor = After(report, Len(said))

Answers ==
    /\ said \in Seq(AnswerType)
    /\ \A i \in 1 .. Len(said) :
          i <= Len(Expected) /\ [id |-> said[i].id, index |-> said[i].index] = Expected[i]

StateType ==
    /\ slots \in [Slots -> ByteSeqs] /\ running \in Slots \cup {NoSlot}
    /\ live \in ByteSeqs /\ busy \in BOOLEAN

KnownType ==
    /\ known = [slots |-> known.slots, running |-> known.running, config |-> known.config,
                drawn |-> known.drawn]
    /\ known.slots \in [Slots -> SUBSET ByteSeqs]
    /\ <<>> \notin known.config

DInv ==
    /\ report \in Reports \cup {NoReport} /\ screen \in BOOLEAN
    /\ Position /\ Answers
    /\ StateType /\ KnownType /\ ConclusionsHold /\ ExportIsConfig

\* The values of the codes, and of what the ids of answers are.
LEMMA Codes ==
    /\ CMD.V2_INFO = 0 /\ CMD.V2_DEVICE_NAME = 1 /\ CMD.V2_SYSINFO = 2 /\ CMD.V2_SETTING = 3
    /\ CMD.PING = 128 /\ CMD.INFO = 129 /\ CMD.TEXT = 130 /\ CMD.RECT = 131 /\ CMD.BMP = 132
    /\ CMD.CLEAR = 133 /\ CMD.FLUSH = 134 /\ CMD.MODE = 135 /\ CMD.MACRO_DEFINE = 136
    /\ CMD.MACRO_RUN = 137 /\ CMD.MACRO_STOP = 138 /\ CMD.CONFIG_EXPORT = 139
    /\ CMD.CONFIG_IMPORT = 140 /\ CMD.BOOTLOADER = 255
BY DEF CMD

LEMMA Statuses ==
    /\ RESP.OK = 0 /\ RESP.ERR_DATA = 3 /\ RESP.ERR_CHECKSUM = 4
    /\ RESP.ERR_UNKNOWN_CMD = 5 /\ RESP.ERR_BAD_LEN = 6
BY DEF RESP

AllCodes == {CMD[c] : c \in DOMAIN CMD}

LEMMA KnownCodes ==
    /\ 0 \in AllCodes /\ 128 \in AllCodes
    /\ 130 \in AllCodes /\ 131 \in AllCodes /\ 132 \in AllCodes /\ 133 \in AllCodes
    /\ 134 \in AllCodes /\ 136 \in AllCodes /\ 137 \in AllCodes /\ 138 \in AllCodes
    /\ 139 \in AllCodes /\ 140 \in AllCodes
<1>1. \A x \in {"V2_INFO", "PING", "TEXT", "RECT", "BMP", "CLEAR", "FLUSH", "MACRO_DEFINE", "MACRO_RUN",
                "MACRO_STOP", "CONFIG_EXPORT", "CONFIG_IMPORT"} : x \in DOMAIN CMD
  BY DEF CMD
<1>2. \A x \in DOMAIN CMD : CMD[x] \in AllCodes
  BY DEF AllCodes
<1>3. CMD["V2_INFO"] = 0 /\ CMD["PING"] = 128 /\ CMD["TEXT"] = 130 /\ CMD["RECT"] = 131
      /\ CMD["BMP"] = 132 /\ CMD["CLEAR"] = 133 /\ CMD["FLUSH"] = 134
      /\ CMD["MACRO_DEFINE"] = 136 /\ CMD["MACRO_RUN"] = 137 /\ CMD["MACRO_STOP"] = 138
      /\ CMD["CONFIG_EXPORT"] = 139 /\ CMD["CONFIG_IMPORT"] = 140
  BY DEF CMD
<1>4. QED
  BY <1>1, <1>2, <1>3

\* What a command means depends on its id and its data.
LEMMA SameMeaning ==
    ASSUME NEW c, NEW v, c.id = v.id, c.data = v.data
    PROVE  Meaning(c) = Meaning(v)
<1>1. Call(c) = Call(v)
  BY DEF Call
<1>2. QED
  BY <1>1 DEF Meaning

Answer(id, index, payload) == [id |-> id, index |-> index, data |-> payload, ok |-> TRUE]

LEMMA AnswerSent ==
    ASSUME NEW id \in Bytes, NEW index \in Bytes, NEW payload \in ByteSeqs, Len(payload) <= Cap - 8,
           Len(said) <= Len(report.cmds), Len(said) \in Nat, Len(report.cmds) \in Nat,
           send_resp(id, index, payload)
    PROVE  busy' = TRUE /\ said' = Append(said, Answer(id, index, payload)) /\ Learn(payload)
<1> DEFINE p == codec_build_response(Cap, id, index, payload)
<1>1. ReadsAs(p, id, index, payload)
  BY ResponseReadsBack DEF ByteSeqs
<1>2. p # <<>> /\ Decoded(p) = Answer(id, index, payload)
  BY <1>1 DEF ReadsAs, Answer
<1>3. /\ busy' = (busy \/ p # <<>>)
      /\ said' = IF p = <<>> \/ Len(said) > Len(report.cmds) THEN said
                 ELSE Append(said, Decoded(p))
      /\ Learn(payload)
  BY DEF send_resp
<1> HIDE DEF p
<1>4. ~ Len(said) > Len(report.cmds)
  OBVIOUS
<1>5. said' = Append(said, Decoded(p))
  BY <1>2, <1>3, <1>4
<1>6. busy' = TRUE
  BY <1>2, <1>3
<1>7. QED
  BY <1>2, <1>3, <1>5, <1>6

\* The command v is the one under the cursor.
Doing(v) ==
    /\ DInv /\ cursor > 0 /\ HasCommand(report.bytes, cursor)
    /\ v = CommandAt(report.bytes, cursor)

LEMMA CommandIsMeant ==
    ASSUME NEW v, Doing(v)
    PROVE  /\ Intact /\ Batch(report) /\ report \in Reports
           /\ Len(said) \in Nat /\ Len(report.cmds) \in Nat /\ Len(said) < Len(report.cmds)
           /\ v.id \in Bytes /\ v.index \in Bytes /\ v.data \in ByteSeqs
           /\ Meant.id = v.id /\ Meant.index = v.index /\ Meaning(Meant) = Meaning(v)
           /\ cursor + v.length = After(report, Len(said) + 1)
<1> DEFINE n == Len(said)
<1>1. Position /\ Answers
  BY DEF Doing, DInv
<1>2. n \in Nat
  <2>1. said \in Seq(AnswerType)
    BY <1>1 DEF Answers
  <2>2. QED
    BY <2>1
<1>3. /\ report \in Reports /\ Intact /\ Batch(report) /\ n <= Len(report.cmds)
      /\ cursor = After(report, n) /\ cursor \in Nat
  <2>1. cursor > 0
    BY DEF Doing
  <2>2. ~ (cursor = Idle) /\ ~ (cursor = 0)
    BY <2>1 DEF Idle
  <2>3. QED
    BY <1>1, <2>2 DEF Position
<1>4. Len(report.cmds) \in Nat
  <2>1. report \in ReportType
    BY <1>3, ReportsAssumption
  <2>2. report.cmds \in Seq(CommandType)
    BY <2>1 DEF ReportType
  <2>3. QED
    BY <2>2
<1>5. HasCommand(report.sent, After(report, n)) /\ v = CommandAt(report.sent, After(report, n))
  BY <1>3 DEF Doing, Intact
<1>6. n \in 0 .. Len(report.cmds)
  BY <1>2, <1>3, <1>4
<1>7. n # Len(report.cmds)
  BY <1>3, <1>5, <1>6, BatchReads
<1>8. n < Len(report.cmds)
  BY <1>6, <1>7
<1>9. /\ v = ReadAt(report, n) /\ Meant \in CommandType
      /\ After(report, n + 1) = After(report, n) + 4 + Len(Meant.data)
  BY <1>3, <1>5, <1>6, <1>8, BatchReads DEF Meant
<1>10. /\ v.length = 4 + Len(Meant.data) /\ v.id = Meant.id
       /\ v.index = Meant.index /\ v.data = Meant.data
  BY <1>9 DEF ReadAt, Meant
<1>11. Meant.id \in Bytes /\ Meant.index \in Bytes /\ Meant.data \in ByteSeqs
  BY <1>9 DEF CommandType, ByteSeqs
<1>12. cursor + v.length = After(report, n + 1)
  <2>1. Len(Meant.data) \in Nat
    BY <1>11 DEF ByteSeqs
  <2>2. ASSUME NEW a \in Nat, NEW m \in Nat PROVE a + (4 + m) = a + 4 + m
    OBVIOUS
  <2>3. cursor + (4 + Len(Meant.data)) = cursor + 4 + Len(Meant.data)
    BY <1>3, <2>1, <2>2
  <2>4. QED
    BY <1>3, <1>9, <1>10, <2>3
<1>13. Meaning(Meant) = Meaning(v)
  BY <1>10, SameMeaning
<1>14. QED
  BY <1>2, <1>3, <1>4, <1>8, <1>10, <1>11, <1>12, <1>13

\* What a handler leaves when it answers the command v.
Replies(v, payload) ==
    /\ busy' = TRUE
    /\ said' = Append(said, Answer(AnswerId(v.id), v.index, payload))
    /\ known' = Concludes(Meaning(v), ~busy, payload \in {<<>>, <<0>>})

LEMMA HandlerReplies ==
    ASSUME NEW v, Doing(v), NEW payload \in ByteSeqs, Len(payload) <= Cap - 8,
           send_resp(AnswerId(v.id), v.index, payload)
    PROVE  Replies(v, payload)
<1>1. /\ Intact /\ Len(said) \in Nat /\ Len(report.cmds) \in Nat /\ Len(said) < Len(report.cmds)
      /\ v.id \in Bytes /\ v.index \in Bytes /\ Meaning(Meant) = Meaning(v)
  BY CommandIsMeant
<1>2. AnswerId(v.id) \in Bytes
  BY <1>1, Codes, ByteFacts DEF AnswerId
<1>3. Len(said) <= Len(report.cmds)
  BY <1>1
<1>4. /\ busy' = TRUE /\ said' = Append(said, Answer(AnswerId(v.id), v.index, payload))
      /\ Learn(payload)
  BY <1>1, <1>2, <1>3, AnswerSent
<1>5. known' = Concludes(Meaning(v), ~busy, payload \in {<<>>, <<0>>})
  BY <1>1, <1>4 DEF Learn
<1>6. QED
  BY <1>4, <1>5 DEF Replies

LEMMA SmallAnswers ==
    /\ Cap \in Nat /\ Cap >= 24
    /\ \A x \in Bytes : <<x>> \in ByteSeqs /\ Len(<<x>>) = 1 /\ Len(<<x>>) <= Cap - 8
    /\ <<>> \in ByteSeqs /\ Len(<<>>) <= Cap - 8
<1>1. Cap \in Nat /\ Cap >= 24
  BY DispatchAssumption
<1>2. QED
  BY <1>1 DEF ByteSeqs

LEMMA RespondReplies ==
    ASSUME NEW v, Doing(v), v.id # 0, NEW payload \in ByteSeqs, Len(payload) <= Cap - 8,
           Respond(v, payload)
    PROVE  Replies(v, payload)
<1>1. AnswerId(v.id) = v.id
  BY Codes DEF AnswerId
<1>2. QED
  BY <1>1, HandlerReplies DEF Respond

(***************************************************************************)
(* What a host may know, field by field, and after each kind of command.   *)
(***************************************************************************)
K(a, b, c, d) == [slots |-> a, running |-> b, config |-> c, drawn |-> d]

LEMMA KnownIs == ASSUME KnownType
                 PROVE  known = K(known.slots, known.running, known.config, known.drawn)
BY DEF KnownType, K

WithSlot(k, x, y) == [k EXCEPT !.slots[x] = y]
WithRunning(k, x) == [k EXCEPT !.running = x]
WithConfig(k, x) == [k EXCEPT !.config = x]
WithDrawn(k, x) == [k EXCEPT !.drawn = x]

LEMMA KnownWithSlot ==
    ASSUME NEW a, NEW b, NEW c, NEW d, NEW x, NEW y, NEW k, k = K(a, b, c, d)
    PROVE  WithSlot(k, x, y) = K([a EXCEPT ![x] = y], b, c, d)
<1>1. k.slots = a
  BY DEF K
<1>2. WithSlot(k, x, y) = [k EXCEPT !.slots = [a EXCEPT ![x] = y]]
  BY <1>1 DEF WithSlot
<1> DEFINE z == [a EXCEPT ![x] = y]
<1> HIDE DEF z
<1>3. [k EXCEPT !.slots = z] = K(z, b, c, d)
  BY DEF K
<1>4. QED
  BY <1>2, <1>3 DEF z

LEMMA KnownWithRunning ==
    ASSUME NEW a, NEW b, NEW c, NEW d, NEW x, NEW k, k = K(a, b, c, d)
    PROVE  WithRunning(k, x) = K(a, x, c, d)
BY DEF K, WithRunning

LEMMA KnownWithConfig ==
    ASSUME NEW a, NEW b, NEW c, NEW d, NEW x, NEW k, k = K(a, b, c, d)
    PROVE  WithConfig(k, x) = K(a, b, x, d)
BY DEF K, WithConfig

LEMMA KnownWithDrawn ==
    ASSUME NEW a, NEW b, NEW c, NEW d, NEW x, NEW k, k = K(a, b, c, d)
    PROVE  WithDrawn(k, x) = K(a, b, c, x)
BY DEF K, WithDrawn

ConcludesDefine(s, prog, heard, ok) ==
    Concludes([op |-> "define", slot |-> s, prog |-> prog], heard, ok)
      = IF ok \/ ~heard
        THEN K([known.slots EXCEPT ![s] = IF heard THEN {prog} ELSE {}],
               known.running, known.config, known.drawn)
        ELSE known
ConcludesRun(s, heard, ok) ==
    Concludes([op |-> "run", slot |-> s], heard, ok)
      = IF ok \/ ~heard
        THEN K(known.slots, IF heard THEN {s} ELSE {}, known.config, known.drawn)
        ELSE known
ConcludesStop(heard, ok) ==
    Concludes([op |-> "stop"], heard, ok)
      = K(known.slots, IF heard THEN {NoSlot} ELSE {}, known.config, known.drawn)
ConcludesImport(p, heard, ok) ==
    Concludes([op |-> "import", payload |-> p], heard, ok)
      = K(known.slots, known.running, IF heard THEN {p} ELSE {}, known.drawn)
ConcludesDraw(c, heard, ok) ==
    Concludes([op |-> "draw", call |-> c], heard, ok)
      = K(known.slots, known.running, known.config, IF heard THEN {c} ELSE {})

LEMMA Conclusions ==
    ASSUME KnownType, NEW heard \in BOOLEAN, NEW ok \in BOOLEAN, NEW x, NEW y
    PROVE  /\ ConcludesDefine(x, y, heard, ok)
           /\ ConcludesRun(x, heard, ok)
           /\ ConcludesStop(heard, ok)
           /\ ConcludesImport(x, heard, ok)
           /\ ConcludesDraw(x, heard, ok)
           /\ Concludes([op |-> "none"], heard, ok) = known
<1>0. known = K(known.slots, known.running, known.config, known.drawn)
  BY KnownIs
<1>1. ConcludesDefine(x, y, heard, ok)
  <2> DEFINE X == IF heard THEN {y} ELSE {}
             m == [op |-> "define", slot |-> x, prog |-> y]
  <2>1. Concludes(m, heard, ok) = IF ok \/ ~heard THEN WithSlot(known, x, X) ELSE known
    BY DEF Concludes, WithSlot, WithRunning, WithConfig, WithDrawn
  <2>2. WithSlot(known, x, X)
          = K([known.slots EXCEPT ![x] = X], known.running, known.config, known.drawn)
    <3> HIDE DEF X
    <3>1. QED
      BY <1>0, KnownWithSlot
  <2>3. QED
    BY <2>1, <2>2 DEF ConcludesDefine
<1>2. ConcludesRun(x, heard, ok)
  <2> DEFINE X == IF heard THEN {x} ELSE {}
             m == [op |-> "run", slot |-> x]
  <2>1. Concludes(m, heard, ok) = IF ok \/ ~heard THEN WithRunning(known, X) ELSE known
    BY DEF Concludes, WithSlot, WithRunning, WithConfig, WithDrawn
  <2>2. WithRunning(known, X)
          = K(known.slots, X, known.config, known.drawn)
    <3> HIDE DEF X
    <3>1. QED
      BY <1>0, KnownWithRunning
  <2>3. QED
    BY <2>1, <2>2 DEF ConcludesRun
<1>3. ConcludesStop(heard, ok)
  <2> DEFINE X == IF heard THEN {NoSlot} ELSE {}
             m == [op |-> "stop"]
  <2>1. Concludes(m, heard, ok) = WithRunning(known, X)
    BY DEF Concludes, WithSlot, WithRunning, WithConfig, WithDrawn
  <2>2. WithRunning(known, X)
          = K(known.slots, X, known.config, known.drawn)
    <3> HIDE DEF X
    <3>1. QED
      BY <1>0, KnownWithRunning
  <2>3. QED
    BY <2>1, <2>2 DEF ConcludesStop
<1>4. ConcludesImport(x, heard, ok)
  <2> DEFINE X == IF heard THEN {x} ELSE {}
             m == [op |-> "import", payload |-> x]
  <2>1. Concludes(m, heard, ok) = WithConfig(known, X)
    BY DEF Concludes, WithSlot, WithRunning, WithConfig, WithDrawn
  <2>2. WithConfig(known, X)
          = K(known.slots, known.running, X, known.drawn)
    <3> HIDE DEF X
    <3>1. QED
      BY <1>0, KnownWithConfig
  <2>3. QED
    BY <2>1, <2>2 DEF ConcludesImport
<1>5. ConcludesDraw(x, heard, ok)
  <2> DEFINE X == IF heard THEN {x} ELSE {}
             m == [op |-> "draw", call |-> x]
  <2>1. Concludes(m, heard, ok) = WithDrawn(known, X)
    BY DEF Concludes, WithSlot, WithRunning, WithConfig, WithDrawn
  <2>2. WithDrawn(known, X)
          = K(known.slots, known.running, known.config, X)
    <3> HIDE DEF X
    <3>1. QED
      BY <1>0, KnownWithDrawn
  <2>3. QED
    BY <2>1, <2>2 DEF ConcludesDraw
<1>6. Concludes([op |-> "none"], heard, ok) = known
  BY DEF Concludes
<1>7. QED
  BY <1>1, <1>2, <1>3, <1>4, <1>5, <1>6

\* What is so of what a host may know, after a step.
Settled(a, b, c, d) ==
    /\ a \in [Slots -> SUBSET ByteSeqs] /\ <<>> \notin c
    /\ \A s \in Slots : a[s] \subseteq {slots'[s]}
    /\ b \subseteq {running'} /\ c \subseteq {live'}
    /\ screen => d \subseteq {drawn'}

LEMMA SettledHolds ==
    ASSUME NEW a, NEW b, NEW c, NEW d,
           known' = K(a, b, c, d), screen' = screen, Settled(a, b, c, d)
    PROVE  KnownType' /\ ConclusionsHold'
<1>1. known'.slots = a /\ known'.running = b /\ known'.config = c
      /\ known'.drawn = d
  BY DEF K
<1>2. known' = [slots |-> known'.slots, running |-> known'.running, config |-> known'.config,
                drawn |-> known'.drawn]
  BY <1>1 DEF K
<1>3. KnownType'
  BY <1>1, <1>2 DEF KnownType, Settled, Slots, ByteSeqs
<1>4. ConclusionsHold'
  BY <1>1 DEF ConclusionsHold, Settled, Slots
<1>5. QED
  BY <1>3, <1>4

\* The same before it.
LEMMA NowSettled ==
    ASSUME DInv
    PROVE  /\ known.slots \in [Slots -> SUBSET ByteSeqs] /\ <<>> \notin known.config
           /\ \A s \in Slots : known.slots[s] \subseteq {slots[s]}
           /\ known.running \subseteq {running}
           /\ known.config \subseteq {live}
           /\ screen => known.drawn \subseteq {drawn}
           /\ KnownType /\ StateType /\ busy \in BOOLEAN
BY DEF DInv, KnownType, ConclusionsHold, StateType

\* What each handler makes so, when it handles the command v.
Exports(v, payload) == v.id = 139 => \A p \in known'.config : payload = Take(p, 1, ExportMax)
Handled(v) ==
    /\ StateType' /\ KnownType' /\ ConclusionsHold'
    /\ \E payload \in ByteSeqs :
          /\ said' = Append(said, Answer(AnswerId(v.id), v.index, payload))
          /\ Exports(v, payload)

LEMMA HandledBy ==
    ASSUME NEW v, NEW payload \in ByteSeqs, Replies(v, payload), screen' = screen,
           NEW a, NEW b, NEW c, NEW d,
           Concludes(Meaning(v), ~busy, payload \in {<<>>, << 0 >>}) = K(a, b, c, d),
           Settled(a, b, c, d),
           slots' \in [Slots -> ByteSeqs], running' \in Slots \cup {NoSlot},
           live' \in ByteSeqs, Exports(v, payload)
    PROVE  Handled(v)
<1>1. known' = K(a, b, c, d) /\ busy' = TRUE
      /\ said' = Append(said, Answer(AnswerId(v.id), v.index, payload))
  BY DEF Replies
<1>2. KnownType' /\ ConclusionsHold'
  BY <1>1, SettledHolds
<1>3. StateType'
  BY <1>1 DEF StateType, ByteSeqs, Slots
<1>4. QED
  BY <1>1, <1>2, <1>3 DEF Handled

\* A handler that changes nothing the host keeps track of.
LEMMA QuietHandled ==
    ASSUME NEW v, Doing(v), NEW payload \in ByteSeqs, Replies(v, payload),
           Meaning(v) = [op |-> "none"], screen' = screen,
           UNCHANGED <<drawn, macroVars, live>>,
           v.id = 139 => \A p \in known.config : payload = Take(p, 1, ExportMax)
    PROVE  Handled(v)
<1>1. DInv
  BY DEF Doing
<1>2. /\ drawn' = drawn /\ slots' = slots /\ running' = running /\ live' = live
  BY DEF macroVars
<1>3. Concludes(Meaning(v), ~busy, payload \in {<<>>, <<0>>}) = known
  <2> DEFINE heard == ~busy
             ok == payload \in {<<>>, <<0>>}
  <2>1. heard \in BOOLEAN /\ ok \in BOOLEAN /\ KnownType
    BY <1>1, NowSettled
  <2> HIDE DEF heard, ok
  <2>2. Concludes(Meaning(v), heard, ok) = known
    BY <2>1, Conclusions
  <2>3. QED
    BY <2>2 DEF heard, ok
<1>4. known = K(known.slots, known.running, known.config, known.drawn)
  BY <1>1, NowSettled, KnownIs
<1>5. Settled(known.slots, known.running, known.config, known.drawn)
  BY <1>1, <1>2, NowSettled DEF Settled
<1>6. Exports(v, payload)
  BY <1>3 DEF Exports, Replies
<1>7. /\ slots' \in [Slots -> ByteSeqs] /\ running' \in Slots \cup {NoSlot}
      /\ live' \in ByteSeqs
  BY <1>1, <1>2, NowSettled DEF StateType
<1>8. QED
  BY <1>3, <1>4, <1>5, <1>6, <1>7, HandledBy

(***************************************************************************)
(* The handlers.                                                           *)
(***************************************************************************)
Drawing == {130, 131, 132, 133, 134}
Meaningful == {136, 137, 138, 140}

LEMMA DrawingIds == ASSUME NEW x \in Bytes PROVE x \in CMD.TEXT .. CMD.FLUSH <=> x \in Drawing
<1>1. x \in Int
  BY DEF Bytes, ByteMod
<1>2. CMD.TEXT = 130 /\ CMD.FLUSH = 134
  BY Codes
<1>3. x \in 130 .. 134 <=> x \in Drawing
  BY <1>1 DEF Drawing
<1>4. QED
  BY <1>2, <1>3

LEMMA NoMeaning ==
    ASSUME NEW v, v.id \in Bytes, v.id \notin Drawing, v.id \notin Meaningful
    PROVE  Meaning(v) = [op |-> "none"]
<1>1. ~ (v.id \in CMD.TEXT .. CMD.FLUSH)
  BY DrawingIds
<1>2. v.id # CMD.MACRO_DEFINE /\ v.id # CMD.MACRO_RUN /\ v.id # CMD.MACRO_STOP
      /\ v.id # CMD.CONFIG_IMPORT
  BY Codes DEF Meaningful
<1>3. QED
  BY <1>1, <1>2 DEF Meaning

LEMMA FixedAnswerFits ==
    ASSUME NEW id
    PROVE  FixedAnswer(id) \in ByteSeqs /\ Len(FixedAnswer(id)) <= Cap - 8
<1>1. Cap \in Nat /\ Cap >= 24 /\ Layers \in Bytes
  BY DispatchAssumption
<1>2. CASE id \in {CMD.V2_INFO, CMD.INFO}
  <2>0. id \notin {CMD.V2_DEVICE_NAME, CMD.V2_SYSINFO, CMD.V2_SETTING}
    BY <1>2, Codes
  <2>1. FixedAnswer(id) = <<1, 0, Layers, 0>>
    BY <1>2, <2>0, Zenon DEF FixedAnswer
  <2>2. <<1, 0, Layers, 0>> \in ByteSeqs
    BY <1>1 DEF ByteSeqs, Bytes, ByteMod
  <2>3. Len(<<1, 0, Layers, 0>>) = 4
    OBVIOUS
  <2>4. QED
    BY <1>1, <2>1, <2>2, <2>3
<1>3. CASE id \notin {CMD.V2_INFO, CMD.INFO} /\ id = CMD.V2_DEVICE_NAME
  <2>0. id \notin {CMD.V2_SYSINFO, CMD.V2_SETTING}
    BY <1>3, Codes
  <2>1. FixedAnswer(id) = [i \in 1 .. 13 |-> 46]
    BY <1>3, <2>0, Zenon DEF FixedAnswer
  <2>2. [i \in 1 .. 13 |-> 46] \in ByteSeqs
    BY DEF ByteSeqs, Bytes, ByteMod
  <2>3. Len([i \in 1 .. 13 |-> 46]) = 13
    OBVIOUS
  <2>4. QED
    BY <1>1, <2>1, <2>2, <2>3
<1>4. CASE id \notin {CMD.V2_INFO, CMD.INFO, CMD.V2_DEVICE_NAME} /\ id = CMD.V2_SYSINFO
  <2> DEFINE h == <<128, 0, 32, 0, 30>>
  <2>0. id # CMD.V2_SETTING
    BY <1>4, Codes
  <2>1. FixedAnswer(id) = h \o Zeros(7)
    BY <1>4, <2>0, Zenon DEF FixedAnswer
  <2>2. h \in ByteSeqs /\ Len(h) = 5
    BY DEF ByteSeqs, Bytes, ByteMod
  <2>3. Zeros(7) \in ByteSeqs /\ Len(Zeros(7)) = 7
    BY ZerosType DEF ByteSeqs
  <2> HIDE DEF h
  <2>4. h \o Zeros(7) \in ByteSeqs /\ Len(h \o Zeros(7)) = 5 + 7
    <3> DEFINE z == Zeros(7)
    <3>1. z \in ByteSeqs /\ Len(z) = 7
      BY <2>3
    <3> HIDE DEF z
    <3>2. h \o z \in ByteSeqs /\ Len(h \o z) = 5 + 7
      <4>1. Joined(h \o z, h, z)
        BY <2>2, <3>1, ConcatReads DEF ByteSeqs
      <4>2. QED
        BY <2>2, <3>1, <4>1 DEF Joined, ByteSeqs
    <3>3. QED
      BY <3>2 DEF z
  <2>5. QED
    BY <1>1, <2>1, <2>4
<1>5. CASE /\ id \notin {CMD.V2_INFO, CMD.INFO, CMD.V2_DEVICE_NAME, CMD.V2_SYSINFO}
           /\ id = CMD.V2_SETTING
  <2> DEFINE z == Zeros(8)
  <2>1. FixedAnswer(id) = z
    BY <1>5, Zenon DEF FixedAnswer
  <2>2. z \in ByteSeqs /\ Len(z) = 8
    BY ZerosType DEF ByteSeqs
  <2> HIDE DEF z
  <2>3. QED
    BY <1>1, <2>1, <2>2
<1>6. CASE id \notin {CMD.V2_INFO, CMD.INFO, CMD.V2_DEVICE_NAME, CMD.V2_SYSINFO, CMD.V2_SETTING}
  <2>1. FixedAnswer(id) = <<>>
    BY <1>6 DEF FixedAnswer
  <2>2. QED
    BY <2>1, SmallAnswers
<1>7. QED
  BY <1>2, <1>3, <1>4, <1>5, <1>6

LEMMA FixedHandled == ASSUME NEW v, Doing(v), Fixed(v), screen' = screen PROVE Handled(v)
<1>1. v.id \in {0, 1, 2, 3, 129, 135, 255}
  BY Codes DEF Fixed, FixedAnswers
<1>2. v.id \in Bytes /\ v.id # 139 /\ v.id \notin Drawing /\ v.id \notin Meaningful
  BY <1>1 DEF Bytes, ByteMod, Drawing, Meaningful
<1>3. Meaning(v) = [op |-> "none"]
  BY <1>2, NoMeaning
<1>4. Replies(v, FixedAnswer(v.id))
  BY FixedAnswerFits, HandlerReplies DEF Fixed
<1>5. UNCHANGED <<drawn, macroVars, live>>
  BY DEF Fixed
<1>6. QED
  BY <1>2, <1>3, <1>4, <1>5, FixedAnswerFits, QuietHandled

LEMMA PingHandled == ASSUME NEW v, Doing(v), h_ping(v), screen' = screen PROVE Handled(v)
<1> DEFINE payload == IF Len(v.data) >= 2 THEN SubSeq(v.data, 1, 2) ELSE <<0, 0>>
<1>1. v.id = 128
  BY Codes DEF h_ping
<1>2. v.id \in Bytes /\ v.id # 0 /\ v.id # 139 /\ v.id \notin Drawing /\ v.id \notin Meaningful
  BY <1>1 DEF Bytes, ByteMod, Drawing, Meaningful
<1>3. Meaning(v) = [op |-> "none"]
  BY <1>2, NoMeaning
<1>4. payload \in ByteSeqs /\ Len(payload) = 2
  <2>1. v.data \in ByteSeqs
    BY CommandIsMeant
  <2>2. CASE Len(v.data) >= 2
    BY <2>1, <2>2 DEF ByteSeqs
  <2>3. CASE ~ Len(v.data) >= 2
    <3>1. payload = <<0, 0>>
      BY <2>3
    <3>2. <<0, 0>> \in ByteSeqs /\ Len(<<0, 0>>) = 2
      BY DEF ByteSeqs, Bytes, ByteMod
    <3>3. QED
      BY <3>1, <3>2
  <2>4. QED
    BY <2>2, <2>3
<1>5. Respond(v, payload) /\ UNCHANGED <<drawn, macroVars, live>>
  BY DEF h_ping
<1> HIDE DEF payload
<1>6. Len(payload) <= Cap - 8
  BY <1>4, SmallAnswers
<1>7. Replies(v, payload)
  BY <1>2, <1>4, <1>5, <1>6, RespondReplies
<1>8. QED
  BY <1>2, <1>3, <1>4, <1>5, <1>7, QuietHandled

LEMMA UnknownHandled == ASSUME NEW v, Doing(v), Unknown(v), screen' = screen PROVE Handled(v)
<1>1. v.id \in Bytes
  BY CommandIsMeant
<1>2. v.id \notin AllCodes
  BY DEF Unknown, AllCodes
<1>3. v.id # 0 /\ v.id # 139 /\ v.id \notin Drawing /\ v.id \notin Meaningful
  BY <1>2, KnownCodes DEF Drawing, Meaningful
<1>4. Meaning(v) = [op |-> "none"]
  BY <1>1, <1>3, NoMeaning
<1>5. <<RESP.ERR_UNKNOWN_CMD>> \in ByteSeqs /\ Len(<<RESP.ERR_UNKNOWN_CMD>>) <= Cap - 8
  BY Statuses, SmallAnswers, ByteFacts
<1>6. Replies(v, <<RESP.ERR_UNKNOWN_CMD>>)
  BY <1>3, <1>5, RespondReplies DEF Unknown
<1>7. UNCHANGED <<drawn, macroVars, live>>
  BY DEF Unknown
<1>8. QED
  BY <1>3, <1>4, <1>5, <1>6, <1>7, QuietHandled

LEMMA TakeType ==
    ASSUME NEW d \in ByteSeqs, NEW n \in Nat
    PROVE  Take(d, 1, n) \in ByteSeqs /\ Len(Take(d, 1, n)) <= n
<1>1. Len(d) \in Nat
  BY DEF ByteSeqs
<1>2. CASE Len(d) < n
  <2>1. Len(d) < 1 + n - 1
    BY <1>1, <1>2
  <2>2. Take(d, 1, n) = SubSeq(d, 1, Len(d))
    BY <2>1 DEF Take
  <2>3. SubSeq(d, 1, Len(d)) \in ByteSeqs /\ Len(SubSeq(d, 1, Len(d))) = Len(d)
    BY DEF ByteSeqs
  <2>4. Take(d, 1, n) \in ByteSeqs /\ Len(Take(d, 1, n)) = Len(d)
    BY <2>2, <2>3
  <2>5. Len(d) <= n
    BY <1>1, <1>2
  <2>6. QED
    BY <2>4, <2>5
<1>3. CASE ~ Len(d) < n
  <2>1. ~ Len(d) < 1 + n - 1 /\ 1 + n - 1 = n
    BY <1>1, <1>3
  <2>2. Take(d, 1, n) = SubSeq(d, 1, n)
    BY <2>1 DEF Take
  <2>3. SubSeq(d, 1, n) \in ByteSeqs /\ Len(SubSeq(d, 1, n)) = n
    BY <1>1, <1>3 DEF ByteSeqs
  <2>4. Take(d, 1, n) \in ByteSeqs /\ Len(Take(d, 1, n)) = n
    BY <2>2, <2>3
  <2>5. n <= n
    OBVIOUS
  <2>6. QED
    BY <2>4, <2>5
<1>4. QED
  BY <1>2, <1>3

LEMMA ExportHandled == ASSUME NEW v, Doing(v), h_config_export(v), screen' = screen PROVE Handled(v)
<1> DEFINE payload == IF live # <<>> THEN Take(live, 1, ExportMax) ELSE <<RESP.ERR_DATA>>
<1>1. v.id = 139
  BY Codes DEF h_config_export
<1>2. v.id \in Bytes /\ v.id # 0 /\ v.id \notin Drawing /\ v.id \notin Meaningful
  BY <1>1 DEF Bytes, ByteMod, Drawing, Meaningful
<1>3. Meaning(v) = [op |-> "none"]
  BY <1>2, NoMeaning
<1>4. DInv
  BY DEF Doing
<1>5. live \in ByteSeqs /\ known.config \subseteq {live} /\ <<>> \notin known.config
  BY <1>4, NowSettled DEF StateType
<1>6. payload \in ByteSeqs /\ Len(payload) <= Cap - 8
  <2>1. CASE live # <<>>
    <3>1. ExportMax \in Nat /\ ExportMax <= Cap - 8 /\ Cap \in Nat
      BY DispatchAssumption
    <3>2. Take(live, 1, ExportMax) \in ByteSeqs /\ Len(Take(live, 1, ExportMax)) <= ExportMax
      BY <1>5, <3>1, TakeType
    <3>3. Len(Take(live, 1, ExportMax)) \in Nat
      BY <3>2 DEF ByteSeqs
    <3>4. Len(Take(live, 1, ExportMax)) <= Cap - 8
      BY <3>1, <3>2, <3>3
    <3>5. QED
      BY <2>1, <3>2, <3>4
  <2>2. CASE live = <<>>
    BY <2>2, Statuses, SmallAnswers, ByteFacts
  <2>3. QED
    BY <2>1, <2>2
<1>7. \A p \in known.config : payload = Take(p, 1, ExportMax)
  BY <1>5
<1>8. Respond(v, payload) /\ UNCHANGED <<drawn, macroVars, live>>
  BY DEF h_config_export
<1> HIDE DEF payload
<1>9. Replies(v, payload)
  BY <1>2, <1>6, <1>8, RespondReplies
<1>10. QED
  BY <1>3, <1>6, <1>7, <1>8, <1>9, QuietHandled

\* The two things a handler's answer says to a host.
Heard == ~busy
Succeeds(payload) == payload \in {<<>>, <<0>>}

LEMMA ConcludedBy ==
    ASSUME NEW v, Doing(v), NEW x, NEW y, NEW payload
    PROVE  /\ Heard \in BOOLEAN /\ Succeeds(payload) \in BOOLEAN
           /\ ConcludesDefine(x, y, Heard, Succeeds(payload))
           /\ ConcludesRun(x, Heard, Succeeds(payload))
           /\ ConcludesStop(Heard, Succeeds(payload))
           /\ ConcludesImport(x, Heard, Succeeds(payload))
           /\ ConcludesDraw(x, Heard, Succeeds(payload))
           /\ Concludes([op |-> "none"], Heard, Succeeds(payload)) = known
<1>1. DInv
  BY DEF Doing
<1>2. KnownType /\ Heard \in BOOLEAN /\ Succeeds(payload) \in BOOLEAN
  BY <1>1, NowSettled DEF Heard, Succeeds
<1>3. QED
  BY <1>2, Conclusions

LEMMA HandledWith ==
    ASSUME NEW v, Doing(v), NEW payload \in ByteSeqs, Replies(v, payload), screen' = screen,
           NEW a, NEW b, NEW c, NEW d,
           Concludes(Meaning(v), Heard, Succeeds(payload)) = K(a, b, c, d),
           Settled(a, b, c, d), v.id # 139,
           slots' \in [Slots -> ByteSeqs], running' \in Slots \cup {NoSlot},
           live' \in ByteSeqs
    PROVE  Handled(v)
<1>1. Exports(v, payload)
  BY DEF Exports
<1>2. Concludes(Meaning(v), ~busy, payload \in {<<>>, <<0>>}) = K(a, b, c, d)
  BY DEF Heard, Succeeds
<1>3. QED
  BY <1>1, <1>2, HandledBy

\* A handler of a command that means nothing, as one that is refused.
LEMMA RefusedHandled ==
    ASSUME NEW v, Doing(v), v.id # 139, NEW payload \in ByteSeqs, Replies(v, payload),
           Meaning(v) = [op |-> "none"], screen' = screen,
           UNCHANGED <<drawn, macroVars, live>>
    PROVE  Handled(v)
BY QuietHandled

LEMMA DisplayHandled == ASSUME NEW v, Doing(v), h_display(v), screen' = screen PROVE Handled(v)
<1>1. v.id \in Bytes
  BY CommandIsMeant
<1>2. v.id \in CMD.TEXT .. CMD.FLUSH
  BY DEF h_display
<1>3. v.id \in Drawing
  BY <1>1, <1>2, DrawingIds
<1>4. v.id # 0 /\ v.id # 139
  BY <1>3 DEF Drawing
<1>5. Replies(v, <<>>)
  BY <1>4, RespondReplies, SmallAnswers DEF h_display
<1>6. UNCHANGED <<macroVars, live>>
  BY DEF h_display
<1>7. drawn' = IF screen /\ Call(v) # <<>> THEN Call(v) ELSE drawn
  BY DEF h_display
<1>8. v.id # CMD.MACRO_DEFINE /\ v.id # CMD.MACRO_RUN /\ v.id # CMD.MACRO_STOP
      /\ v.id # CMD.CONFIG_IMPORT
  BY <1>3, Codes DEF Drawing
<1>9. DInv
  BY DEF Doing
<1>10. CASE Call(v) = <<>>
  <2>1. Meaning(v) = [op |-> "none"]
    BY <1>8, <1>10 DEF Meaning
  <2>2. UNCHANGED <<drawn, macroVars, live>>
    BY <1>6, <1>7, <1>10
  <2>3. QED
    BY <1>4, <1>5, <2>1, <2>2, RefusedHandled, SmallAnswers
<1>11. CASE Call(v) # <<>>
  <2>1. Meaning(v) = [op |-> "draw", call |-> Call(v)]
    BY <1>2, <1>8, <1>11 DEF Meaning
  <2> DEFINE d == IF Heard THEN {Call(v)} ELSE {}
  <2>2. Concludes(Meaning(v), Heard, Succeeds(<<>>))
          = K(known.slots, known.running, known.config, d)
    BY <2>1, ConcludedBy DEF ConcludesDraw
  <2>3. slots' = slots /\ running' = running /\ live' = live
    BY <1>6 DEF macroVars
  <2>4. screen => d \subseteq {drawn'}
    BY <1>7, <1>11
  <2> HIDE DEF d
  <2>5. Settled(known.slots, known.running, known.config, d)
    BY <1>9, <2>3, <2>4, NowSettled DEF Settled
  <2>6. /\ slots' \in [Slots -> ByteSeqs] /\ running' \in Slots \cup {NoSlot}
        /\ live' \in ByteSeqs
    BY <1>9, <2>3, NowSettled DEF StateType
  <2>7. <<>> \in ByteSeqs
    BY SmallAnswers
  <2>8. QED
    BY <1>4, <1>5, <2>2, <2>5, <2>6, <2>7, HandledWith
<1>12. QED
  BY <1>10, <1>11

LEMMA StopHandled == ASSUME NEW v, Doing(v), h_macro_stop(v), screen' = screen PROVE Handled(v)
<1>1. v.id = 138
  BY Codes DEF h_macro_stop
<1>2. v.id # 0 /\ v.id # 139
  BY <1>1
<1>3. Replies(v, <<>>) /\ <<>> \in ByteSeqs
  BY <1>2, RespondReplies, SmallAnswers DEF h_macro_stop
<1>4. /\ running' = NoSlot /\ drawn' = drawn /\ slots' = slots /\ live' = live
  BY DEF h_macro_stop
<1>5. DInv
  BY DEF Doing
<1>6. Meaning(v) = [op |-> "stop"]
  <2>1. v.id # CMD.MACRO_DEFINE /\ v.id # CMD.MACRO_RUN /\ v.id = CMD.MACRO_STOP
    BY <1>1, Codes
  <2>2. v.id # CMD.CONFIG_IMPORT
    BY <1>1, Codes
  <2>3. ~ (v.id \in CMD.TEXT .. CMD.FLUSH)
    BY <1>1, Codes
  <2>4. QED
    BY <2>1, <2>2, <2>3 DEF Meaning
<1> DEFINE b == IF Heard THEN {NoSlot} ELSE {}
<1>7. Concludes(Meaning(v), Heard, Succeeds(<<>>))
        = K(known.slots, b, known.config, known.drawn)
  BY <1>6, ConcludedBy DEF ConcludesStop
<1>8. b \subseteq {NoSlot}
  OBVIOUS
<1> HIDE DEF b
<1>9. Settled(known.slots, b, known.config, known.drawn)
  BY <1>4, <1>5, <1>8, NowSettled DEF Settled
<1>10. /\ slots' \in [Slots -> ByteSeqs] /\ running' \in Slots \cup {NoSlot}
       /\ live' \in ByteSeqs
  BY <1>4, <1>5, NowSettled DEF StateType
<1>11. QED
  BY <1>2, <1>3, <1>7, <1>9, <1>10, HandledWith

LEMMA RunHandled == ASSUME NEW v, Doing(v), h_macro_run(v), screen' = screen PROVE Handled(v)
<1> DEFINE st == RunStatus(v.data)
           k == U16(v.data, 1)
<1>1. v.id = 137
  BY Codes DEF h_macro_run
<1>2. v.id # 0 /\ v.id # 139
  BY <1>1
<1>3. st \in {0, 3, 6}
  BY Statuses DEF RunStatus
<1>4. <<st>> \in ByteSeqs /\ Replies(v, <<st>>)
  <2>1. st \in Bytes
    BY <1>3 DEF Bytes, ByteMod
  <2>2. <<st>> \in ByteSeqs /\ Len(<<st>>) <= Cap - 8
    BY <2>1, SmallAnswers
  <2>3. Respond(v, <<st>>)
    BY DEF h_macro_run
  <2> HIDE DEF st
  <2>4. QED
    BY <1>2, <2>2, <2>3, RespondReplies
<1>5. /\ drawn' = drawn /\ slots' = slots /\ live' = live
      /\ running' = IF st = 0 THEN k ELSE running
  BY Statuses DEF h_macro_run
<1>6. DInv
  BY DEF Doing
<1>7. /\ slots' \in [Slots -> ByteSeqs] /\ live' \in ByteSeqs
      /\ running \in Slots \cup {NoSlot}
  BY <1>5, <1>6, NowSettled DEF StateType
<1>8. /\ v.id # CMD.MACRO_DEFINE /\ v.id = CMD.MACRO_RUN /\ v.id # CMD.MACRO_STOP
      /\ v.id # CMD.CONFIG_IMPORT /\ ~ (v.id \in CMD.TEXT .. CMD.FLUSH)
  BY <1>1, Codes
<1>9. st = 0 => Len(v.data) >= 2 /\ k \in Slots
  BY Statuses DEF RunStatus
<1>10. Succeeds(<<st>>) <=> st = 0
  <2>1. <<st>> # <<>> /\ (<<st>> = <<0>> <=> st = 0)
    <3> HIDE DEF st
    <3>1. Len(<<st>>) = 1 /\ Len(<<>>) = 0
      OBVIOUS
    <3>2. <<st>>[1] = st /\ <<0>>[1] = 0
      OBVIOUS
    <3>3. QED
      BY <3>1, <3>2
  <2>2. QED
    BY <2>1 DEF Succeeds
<1>11. CASE Len(v.data) >= 2 /\ k < MacroSlots
  <2> DEFINE b == IF st = 0 \/ ~Heard THEN (IF Heard THEN {k} ELSE {}) ELSE known.running
  <2>1. Meaning(v) = [op |-> "run", slot |-> k]
    BY <1>8, <1>11 DEF Meaning
  <2>2. Concludes(Meaning(v), Heard, Succeeds(<<st>>))
          = K(known.slots, b, known.config, known.drawn)
    <3>1. ConcludesRun(k, Heard, Succeeds(<<st>>))
      BY ConcludedBy
    <3>2. known = K(known.slots, known.running, known.config, known.drawn)
      BY <1>6, NowSettled, KnownIs
    <3> HIDE DEF st, k
    <3>3. CASE st = 0 \/ ~Heard
      BY <1>10, <2>1, <3>1, <3>3 DEF ConcludesRun
    <3>4. CASE ~ (st = 0 \/ ~Heard)
      <4>1. Concludes(Meaning(v), Heard, Succeeds(<<st>>)) = known
        BY <1>10, <2>1, <3>1, <3>4 DEF ConcludesRun
      <4>2. b = known.running
        BY <3>4
      <4>3. QED
        BY <3>2, <4>1, <4>2
    <3>5. QED
      BY <3>3, <3>4
  <2>3. b \subseteq {running'}
    <3>1. known.running \subseteq {running}
      BY <1>6, NowSettled
    <3> HIDE DEF st, k
    <3>2. QED
      BY <1>5, <3>1
  <2> HIDE DEF b
  <2>4. Settled(known.slots, b, known.config, known.drawn)
    BY <1>5, <1>6, <2>3, NowSettled DEF Settled
  <2>5. running' \in Slots \cup {NoSlot}
    BY <1>5, <1>7, <1>9
  <2> HIDE DEF st, k
  <2>6. QED
    BY <1>2, <1>4, <1>7, <2>2, <2>4, <2>5, HandledWith
<1>12. CASE ~ (Len(v.data) >= 2 /\ k < MacroSlots)
  <2>1. Meaning(v) = [op |-> "none"]
    BY <1>8, <1>12 DEF Meaning
  <2>2. st # 0
    <3>1. MacroSlots \in Nat
      BY DispatchAssumption
    <3>2. k \in Slots => k < MacroSlots
      <4> HIDE DEF k
      <4>1. QED
        BY <3>1 DEF Slots
    <3>3. QED
      BY <1>9, <1>12, <3>2
  <2>3. UNCHANGED <<drawn, macroVars, live>>
    BY <1>5, <2>2 DEF macroVars
  <2> HIDE DEF st, k
  <2>4. QED
    BY <1>2, <1>4, <2>1, <2>3, RefusedHandled
<1>13. QED
  BY <1>11, <1>12

LEMMA CutType ==
    ASSUME NEW d \in ByteSeqs, NEW m \in Nat, 3 + m <= Len(d)
    PROVE  SubSeq(d, 4, 3 + m) \in ByteSeqs
<1>1. Len(d) \in Nat
  BY DEF ByteSeqs
<1>2. \A i \in 4 .. 3 + m : i \in 1 .. Len(d)
  BY <1>1
<1>3. \A i \in 4 .. 3 + m : d[i] \in Bytes
  BY <1>2 DEF ByteSeqs
<1>4. QED
  BY <1>3, SubSeqProperties DEF ByteSeqs

LEMMA DefineHandled ==
    ASSUME NEW v, Doing(v), h_macro_define(v), screen' = screen
    PROVE  Handled(v)
<1> DEFINE st == DefineStatus(v.data)
           k == U16(v.data, 1)
           prog == SubSeq(v.data, 4, 3 + 4 * v.data[3])
           fits == /\ Len(v.data) >= 3 /\ k < MacroSlots
                   /\ v.data[3] <= StepsPerSlot /\ Len(v.data) >= 3 + 4 * v.data[3]
<1>1. v.id = 136
  BY Codes DEF h_macro_define
<1>2. v.id # 0 /\ v.id # 139
  BY <1>1
<1>3. v.data \in Seq(Bytes) /\ Len(v.data) \in Nat
  <2>1. v.data \in Seq(Bytes)
    BY CommandIsMeant DEF ByteSeqs
  <2>2. QED
    BY <2>1
<1>4. Len(v.data) >= 3 => k \in Words /\ v.data[3] \in 0 .. 255
  <2>1. ASSUME Len(v.data) >= 3 PROVE k \in Words /\ v.data[3] \in 0 .. 255
    <3>1. 1 \in Nat /\ 1 >= 1 /\ 1 + 1 <= Len(v.data) /\ 3 \in 1 .. Len(v.data)
      BY <1>3, <2>1
    <3>2. k \in Words
      BY <1>3, <3>1, U16Type
    <3>3. QED
      BY <1>3, <3>1, <3>2, ElementIsByte
  <2>2. QED
    BY <2>1
<1>5. StepsPerSlot \in Nat /\ MacroSlots \in Nat
  BY DispatchAssumption
<1>6. st \in {0, 3, 6} /\ (st = 0 <=> fits)
  <2>1. CASE Len(v.data) < 3
    <3>1. st = RESP.ERR_BAD_LEN
      BY <1>3, <2>1 DEF DefineStatus
    <3>2. QED
      BY <1>3, <2>1, <3>1, Statuses
  <2>2. CASE Len(v.data) >= 3
    <3> DEFINE x == v.data[3]
               l == Len(v.data)
    <3>1. st = IF l < 3 + 4 * x \/ x > StepsPerSlot THEN RESP.ERR_BAD_LEN
               ELSE IF k < MacroSlots THEN RESP.OK ELSE RESP.ERR_DATA
      <4>1. ~ (Len(v.data) < 3)
        BY <1>3, <2>2
      <4>2. QED
        BY <2>2, <4>1 DEF DefineStatus
    <3>2. x \in Int /\ l \in Nat
      <4>1. x \in 0 .. 255 /\ l \in Nat
        BY <1>3, <1>4, <2>2
      <4> HIDE DEF x, l
      <4>2. QED
        BY <4>1
    <3>3. fits <=> k < MacroSlots /\ x <= StepsPerSlot /\ l >= 3 + 4 * x
      BY <2>2
    <3> HIDE DEF x, l, k, st, fits
    <3>4. QED
      BY <1>5, <3>1, <3>2, <3>3, Statuses
  <2>3. QED
    BY <1>3, <2>1, <2>2
<1>7. <<st>> \in ByteSeqs /\ Replies(v, <<st>>)
  <2>1. st \in Bytes
    BY <1>6 DEF Bytes, ByteMod
  <2>2. <<st>> \in ByteSeqs /\ Len(<<st>>) <= Cap - 8
    BY <2>1, SmallAnswers
  <2>3. Respond(v, <<st>>)
    BY DEF h_macro_define
  <2> HIDE DEF st
  <2>4. QED
    BY <1>2, <2>2, <2>3, RespondReplies
<1>8. /\ drawn' = drawn /\ running' = running /\ live' = live
      /\ slots' = IF st # 0 THEN slots ELSE [slots EXCEPT ![k] = prog]
  BY Statuses DEF h_macro_define
<1>9. DInv
  BY DEF Doing
<1>10. /\ running' \in Slots \cup {NoSlot} /\ live' \in ByteSeqs
       /\ slots \in [Slots -> ByteSeqs]
  BY <1>8, <1>9, NowSettled DEF StateType
<1>11. /\ v.id = CMD.MACRO_DEFINE /\ v.id # CMD.MACRO_RUN /\ v.id # CMD.MACRO_STOP
       /\ v.id # CMD.CONFIG_IMPORT /\ ~ (v.id \in CMD.TEXT .. CMD.FLUSH)
  BY <1>1, Codes
<1>12. CASE fits
  <2> DEFINE kept == IF Heard THEN {prog} ELSE {}
             a == [known.slots EXCEPT ![k] = kept]
  <2>1. st = 0
    BY <1>6, <1>12
  <2>2. Meaning(v) = [op |-> "define", slot |-> k, prog |-> prog]
    BY <1>11, <1>12 DEF Meaning
  <2>3. Succeeds(<<st>>)
    BY <2>1 DEF Succeeds
  <2>4. Concludes(Meaning(v), Heard, Succeeds(<<st>>))
          = K(a, known.running, known.config, known.drawn)
    <3>1. ConcludesDefine(k, prog, Heard, Succeeds(<<st>>))
      BY ConcludedBy
    <3> HIDE DEF st, k, prog
    <3>2. QED
      BY <2>2, <2>3, <3>1 DEF ConcludesDefine
  <2>5. k \in Slots
    <3>1. k < MacroSlots /\ k \in Words
      BY <1>4, <1>12
    <3> HIDE DEF k
    <3>2. QED
      BY <1>5, <3>1 DEF Slots, Words
  <2>6. prog \in ByteSeqs
    <3> DEFINE m == 4 * v.data[3]
    <3>1. v.data[3] \in 0 .. 255
      BY <1>4, <1>12
    <3>2. m \in Nat
      BY <3>1
    <3>3. Len(v.data) >= 3 + m
      BY <1>12
    <3>4. v.data \in ByteSeqs
      BY <1>3 DEF ByteSeqs
    <3> HIDE DEF m
    <3>5. 3 + m <= Len(v.data)
      BY <1>3, <3>2, <3>3
    <3>6. SubSeq(v.data, 4, 3 + m) \in ByteSeqs
      BY <3>2, <3>4, <3>5, CutType
    <3>7. QED
      BY <3>6 DEF m
  <2>7. slots' = [slots EXCEPT ![k] = prog]
    BY <1>8, <2>1
  <2>8. kept \subseteq {prog} /\ kept \in SUBSET ByteSeqs
    BY <2>6
  <2> HIDE DEF k, prog, kept, st, fits
  <2>9. slots' \in [Slots -> ByteSeqs]
    BY <1>10, <2>6, <2>7
  <2>10. known.slots \in [Slots -> SUBSET ByteSeqs] /\ \A s \in Slots : known.slots[s] \subseteq {slots[s]}
    BY <1>9, NowSettled
  <2>11. a \in [Slots -> SUBSET ByteSeqs]
    BY <2>8, <2>10
  <2>12. ASSUME NEW s \in Slots PROVE a[s] \subseteq {slots'[s]}
    <3>1. CASE s = k
      <4>1. a[s] = kept /\ slots'[s] = prog
        BY <1>10, <2>7, <2>10, <3>1
      <4>2. QED
        BY <2>8, <4>1
    <3>2. CASE s # k
      <4>1. a[s] = known.slots[s] /\ slots'[s] = slots[s]
        BY <1>10, <2>7, <2>10, <3>2
      <4>2. QED
        BY <2>10, <4>1
    <3>3. QED
      BY <3>1, <3>2
  <2> HIDE DEF a
  <2>13. Settled(a, known.running, known.config, known.drawn)
    BY <1>8, <1>9, <2>11, <2>12, NowSettled DEF Settled
  <2>14. QED
    BY <1>2, <1>7, <1>10, <2>4, <2>9, <2>13, HandledWith
<1>13. CASE ~ fits
  <2>1. Meaning(v) = [op |-> "none"]
    BY <1>11, <1>13 DEF Meaning
  <2>2. st # 0
    BY <1>6, <1>13
  <2>3. UNCHANGED <<drawn, macroVars, live>>
    BY <1>8, <2>2 DEF macroVars
  <2> HIDE DEF st, fits
  <2>4. QED
    BY <1>2, <1>7, <2>1, <2>3, RefusedHandled
<1>14. QED
  BY <1>12, <1>13

LEMMA ImportHandled ==
    ASSUME NEW v, Doing(v), h_config_import(v), screen' = screen
    PROVE  Handled(v)
<1>1. v.id = 140
  BY Codes DEF h_config_import
<1>2. v.id # 0 /\ v.id # 139
  BY <1>1
<1>3. drawn' = drawn /\ slots' = slots /\ running' = running
  BY DEF h_config_import, macroVars
<1>4. DInv /\ v.data \in ByteSeqs
  BY CommandIsMeant DEF Doing
<1>5. /\ slots' \in [Slots -> ByteSeqs] /\ running' \in Slots \cup {NoSlot}
      /\ live \in ByteSeqs
  BY <1>3, <1>4, NowSettled DEF StateType
<1>6. /\ v.id # CMD.MACRO_DEFINE /\ v.id # CMD.MACRO_RUN /\ v.id # CMD.MACRO_STOP
      /\ v.id = CMD.CONFIG_IMPORT /\ ~ (v.id \in CMD.TEXT .. CMD.FLUSH)
  BY <1>1, Codes
<1>7. /\ RESP.OK = 0 /\ RESP.ERR_DATA = 3 /\ RESP.ERR_BAD_LEN = 6
      /\ \A x \in {0, 3, 6} : <<x>> \in ByteSeqs /\ Len(<<x>>) <= Cap - 8
  BY Statuses, SmallAnswers, ByteFacts
<1>8. CASE v.data = <<>>
  <2>1. Respond(v, <<6>>) /\ live' = live
    BY <1>7, <1>8 DEF h_config_import
  <2>2. Meaning(v) = [op |-> "none"]
    BY <1>6, <1>8 DEF Meaning
  <2>3. Replies(v, <<6>>) /\ <<6>> \in ByteSeqs
    BY <1>2, <1>7, <2>1, RespondReplies
  <2>4. UNCHANGED <<drawn, macroVars, live>>
    BY <1>3, <2>1 DEF macroVars
  <2>5. QED
    BY <1>2, <2>2, <2>3, <2>4, RefusedHandled
<1>9. CASE v.data # <<>>
  <2>1. Meaning(v) = [op |-> "import", payload |-> v.data]
    BY <1>6, <1>9 DEF Meaning
  <2>2. live' = v.data
    BY <1>9 DEF h_config_import
  <2>3. \E x \in {0, 3} : Respond(v, <<x>>)
    BY <1>7, <1>9 DEF h_config_import
  <2>4. PICK x \in {0, 3} : Respond(v, <<x>>)
    BY <2>3
  <2> DEFINE X == IF Heard THEN {v.data} ELSE {}
  <2>5. <<x>> \in ByteSeqs /\ Replies(v, <<x>>)
    BY <1>2, <1>7, <2>4, RespondReplies
  <2>6. Concludes(Meaning(v), Heard, Succeeds(<<x>>))
          = K(known.slots, known.running, X, known.drawn)
    <3>1. ConcludesImport(v.data, Heard, Succeeds(<<x>>))
      BY ConcludedBy
    <3>2. QED
      BY <2>1, <3>1 DEF ConcludesImport
  <2>7. X \subseteq {v.data} /\ <<>> \notin X
    BY <1>9
  <2> HIDE DEF X
  <2>8. Settled(known.slots, known.running, X, known.drawn)
    BY <1>3, <1>4, <2>2, <2>7, NowSettled DEF Settled
  <2>9. live' \in ByteSeqs
    BY <1>4, <2>2
  <2>10. QED
    BY <1>2, <1>5, <2>5, <2>6, <2>8, <2>9, HandledWith
<1>10. QED
  BY <1>8, <1>9

LEMMA EveryHandler ==
    ASSUME NEW v, Doing(v), Handle(v), screen' = screen
    PROVE  Handled(v)
<1>1. CASE Fixed(v)
  BY <1>1, FixedHandled
<1>2. CASE h_ping(v)
  BY <1>2, PingHandled
<1>3. CASE h_display(v)
  BY <1>3, DisplayHandled
<1>4. CASE h_macro_define(v)
  BY <1>4, DefineHandled
<1>5. CASE h_macro_run(v)
  BY <1>5, RunHandled
<1>6. CASE h_macro_stop(v)
  BY <1>6, StopHandled
<1>7. CASE h_config_export(v)
  BY <1>7, ExportHandled
<1>8. CASE h_config_import(v)
  BY <1>8, ImportHandled
<1>9. CASE Unknown(v)
  BY <1>9, UnknownHandled
<1>10. QED
  BY <1>1, <1>2, <1>3, <1>4, <1>5, <1>6, <1>7, <1>8, <1>9 DEF Handle

-------------------------------------------------------------------------------
(***************************************************************************)
(* The steps.                                                              *)
(***************************************************************************)
LEMMA ExpectedIs ==
    ASSUME report \in Reports \cup {NoReport}
    PROVE  /\ Len(report.bytes) < 4 => Expected = <<>>
           /\ (Len(report.bytes) >= 4 /\ ~Intact) => Expected = << [id |-> 0, index |-> 0] >>
           /\ (Len(report.bytes) >= 4 /\ Intact)
                => /\ Len(Expected) = Len(report.cmds) /\ Len(report.cmds) \in Nat
                   /\ \A i \in 1 .. Len(report.cmds) :
                         Expected[i] = [id |-> AnswerId(report.cmds[i].id),
                                        index |-> report.cmds[i].index]
           /\ Len(report.bytes) \in Nat
<1>1. report.bytes \in Seq(Bytes) /\ report.cmds \in Seq(CommandType)
  <2>1. CASE report \in Reports
    BY <2>1, ReportsAssumption DEF ReportType
  <2>2. CASE report = NoReport
    <3>1. report.bytes = <<>> /\ report.cmds = <<>>
      BY <2>2 DEF NoReport
    <3>2. QED
      BY <3>1
  <2>3. QED
    BY <2>1, <2>2
<1>2. Len(report.bytes) \in Nat /\ Len(report.cmds) \in Nat
      /\ DOMAIN report.cmds = 1 .. Len(report.cmds)
  BY <1>1
<1>3. Len(report.bytes) >= 4 => ~ (Len(report.bytes) < 4)
  BY <1>2
<1>4. Len(report.bytes) < 4 => Expected = <<>>
  BY DEF Expected, HID_OFF_CMDS
<1>5. (Len(report.bytes) >= 4 /\ ~Intact) => Expected = << [id |-> 0, index |-> 0] >>
  BY <1>3 DEF Expected, HID_OFF_CMDS
<1>6. ASSUME Len(report.bytes) >= 4, Intact
      PROVE  /\ Len(Expected) = Len(report.cmds)
             /\ \A i \in 1 .. Len(report.cmds) :
                   Expected[i] = [id |-> AnswerId(report.cmds[i].id),
                                  index |-> report.cmds[i].index]
  <2>1. Expected = [i \in 1 .. Len(report.cmds) |-> AnswerTo(report.cmds[i])]
    BY <1>2, <1>3, <1>6 DEF Expected, HID_OFF_CMDS
  <2>2. Len(Expected) = Len(report.cmds)
    BY <1>2, <2>1
  <2>3. \A i \in 1 .. Len(report.cmds) : Expected[i] = AnswerTo(report.cmds[i])
    BY <2>1
  <2>4. QED
    BY <2>2, <2>3 DEF AnswerTo, AnswerId
<1>7. QED
  BY <1>2, <1>4, <1>5, <1>6

\* The report and what is to be answered stay as they are while it is dispatched.
LEMMA SameReport ==
    ASSUME report' = report
    PROVE  /\ Expected' = Expected /\ (Intact' <=> Intact) /\ (Batch(report)' <=> Batch(report))
           /\ (report \in Reports)' <=> (report \in Reports)
           /\ \A n : After(report, n)' = After(report, n)
BY DEF Expected, Intact, Batch, AnswerTo, CommandsFollow, After

\* One more answer.
LEMMA AnswersExtend ==
    ASSUME Answers, NEW id \in Bytes, NEW index \in Bytes, NEW payload \in ByteSeqs,
           said' = Append(said, Answer(id, index, payload)), Expected' = Expected,
           Len(said) + 1 <= Len(Expected), Len(Expected) \in Nat,
           Expected[Len(said) + 1] = [id |-> id, index |-> index]
    PROVE  Answers' /\ Len(said') = Len(said) + 1 /\ said'[Len(said) + 1] = Answer(id, index, payload)
<1>1. said \in Seq(AnswerType) /\ Len(said) \in Nat
      /\ \A i \in 1 .. Len(said) :
            i <= Len(Expected) /\ [id |-> said[i].id, index |-> said[i].index] = Expected[i]
  <2>1. said \in Seq(AnswerType)
    BY DEF Answers
  <2>2. Len(said) \in Nat
    BY <2>1
  <2>3. QED
    BY <2>1, <2>2 DEF Answers
<1> DEFINE x == Answer(id, index, payload)
           n == Len(said)
<1>2. x \in AnswerType
  BY DEF Answer, AnswerType
<1>3. x.id = id /\ x.index = index
  BY DEF Answer
<1> HIDE DEF x
<1>4. /\ said' \in Seq(AnswerType) /\ Len(said') = n + 1 /\ said'[n + 1] = x
      /\ \A i \in 1 .. n : said'[i] = said[i]
  BY <1>1, <1>2 DEF x
<1> HIDE DEF n
<1>5. \A i \in 1 .. n + 1 :
         i <= Len(Expected) /\ [id |-> said'[i].id, index |-> said'[i].index] = Expected[i]
  <2> SUFFICES ASSUME NEW i \in 1 .. n + 1
               PROVE  /\ i <= Len(Expected)
                      /\ [id |-> said'[i].id, index |-> said'[i].index] = Expected[i]
    OBVIOUS
  <2>1. CASE i = n + 1
    BY <1>3, <1>4, <2>1 DEF n
  <2>2. CASE i # n + 1
    <3>1. i \in 1 .. n
      BY <1>1, <2>2 DEF n
    <3>2. QED
      BY <1>1, <1>4, <3>1 DEF n
  <2>3. QED
    BY <2>1, <2>2
<1>6. Answers'
  BY <1>4, <1>5 DEF Answers
<1>7. QED
  BY <1>4, <1>6 DEF n, x

LEMMA KeptStore ==
    ASSUME DInv, busy' \in BOOLEAN, screen' = screen,
           UNCHANGED <<drawn, macroVars, live, known>>
    PROVE  StateType' /\ KnownType' /\ ConclusionsHold'
<1>1. StateType /\ KnownType /\ ConclusionsHold
  BY DEF DInv
<1>2. /\ drawn' = drawn /\ slots' = slots /\ running' = running
      /\ live' = live /\ known' = known
  BY DEF macroVars
<1>3. StateType'
  BY <1>1, <1>2 DEF StateType, Slots, ByteSeqs
<1>4. KnownType'
  BY <1>1, <1>2 DEF KnownType, Slots, ByteSeqs
<1>5. ConclusionsHold'
  BY <1>1, <1>2 DEF ConclusionsHold, Slots
<1>6. QED
  BY <1>3, <1>4, <1>5

\* A step that answers nothing and moves the cursor to where it may be.
LEMMA SilentStep ==
    ASSUME DInv, UNCHANGED <<report, screen, drawn, macroVars, live, said, known>>,
           busy' \in BOOLEAN, Position'
    PROVE  DInv'
<1>1. report \in Reports \cup {NoReport} /\ screen \in BOOLEAN /\ Answers /\ ExportIsConfig
  BY DEF DInv
<1>2. report' = report /\ screen' = screen /\ said' = said /\ known' = known
  OBVIOUS
<1>3. Expected' = Expected /\ (Intact' <=> Intact)
  BY <1>2, SameReport
<1>4. Answers'
  BY <1>1, <1>2, <1>3 DEF Answers
<1>5. ExportIsConfig'
  BY <1>1, <1>2, <1>3 DEF ExportIsConfig
<1>6. StateType' /\ KnownType' /\ ConclusionsHold'
  BY KeptStore
<1>7. (report \in Reports \cup {NoReport})' /\ (screen \in BOOLEAN)'
  BY <1>1, <1>2
<1>8. QED
  BY <1>4, <1>5, <1>6, <1>7 DEF DInv

LEMMA DInvInit == Init => DInv
<1> SUFFICES ASSUME Init PROVE DInv
  OBVIOUS
<1>1. /\ report = NoReport /\ cursor = Idle /\ said = <<>> /\ busy = FALSE
      /\ screen \in BOOLEAN /\ drawn = <<>>
      /\ slots = [s \in Slots |-> <<>>] /\ running = NoSlot /\ live = <<>>
      /\ known = K([s \in Slots |-> {<<>>}], {NoSlot}, {}, {<<>>})
  BY DEF Init, K
<1>2. report.bytes = <<>> /\ Len(report.bytes) = 0 /\ Len(said) = 0
  <2>1. report.bytes = <<>>
    BY <1>1 DEF NoReport
  <2>2. QED
    BY <1>1, <2>1
<1>3. Expected = <<>>
  BY <1>1, <1>2, ExpectedIs
<1>4. Position /\ Answers
  BY <1>1, <1>2, <1>3 DEF Position, Answers
<1>5. <<>> \in ByteSeqs
  BY SmallAnswers
<1>6. StateType
  BY <1>1, <1>5 DEF StateType
<1>7. /\ known.slots = [s \in Slots |-> {<<>>}] /\ known.running = {NoSlot}
      /\ known.config = {} /\ known.drawn = {<<>>}
  BY <1>1 DEF K
<1>8. KnownType
  <2>1. known = [slots |-> known.slots, running |-> known.running, config |-> known.config,
                 drawn |-> known.drawn]
    BY <1>1, <1>7 DEF K
  <2>2. QED
    BY <1>5, <1>7, <2>1 DEF KnownType
<1>9. ConclusionsHold
  BY <1>1, <1>7 DEF ConclusionsHold
<1>10. ExportIsConfig
  BY <1>7 DEF ExportIsConfig
<1>11. QED
  BY <1>1, <1>4, <1>6, <1>8, <1>9, <1>10 DEF DInv

LEMMA HostSendsStep ==
    ASSUME DInv, NEW r \in Reports, HostSends(r)
    PROVE  DInv'
<1>1. /\ report' = r /\ cursor' = 0 /\ said' = <<>> /\ drawn' = <<>>
      /\ known' = [known EXCEPT !.drawn = {<<>>}] /\ screen' = screen
      /\ slots' = slots /\ running' = running /\ live' = live /\ busy' = busy
  BY DEF HostSends, macroVars
<1>2. /\ screen \in BOOLEAN /\ StateType /\ KnownType
  BY DEF DInv
<1>3. StateType'
  BY <1>1, <1>2 DEF StateType, Slots, ByteSeqs
<1>4. known' = K(known.slots, known.running, known.config, {<<>>})
  <2>1. known' = WithDrawn(known, {<<>>})
    BY <1>1 DEF WithDrawn
  <2>2. QED
    BY <1>2, <2>1, KnownIs, KnownWithDrawn
<1>5. Settled(known.slots, known.running, known.config, {<<>>})
  BY <1>1, NowSettled DEF Settled
<1>6. KnownType' /\ ConclusionsHold'
  BY <1>1, <1>4, <1>5, SettledHolds
<1>7. Len(said') = 0
  BY <1>1
<1>8. ExportIsConfig'
  BY <1>7 DEF ExportIsConfig
<1>9. Position'
  BY <1>1 DEF Position
<1>10. Answers'
  BY <1>1, <1>7 DEF Answers
<1>11. (report \in Reports \cup {NoReport})' /\ (screen \in BOOLEAN)'
  BY <1>1, <1>2
<1>12. QED
  BY <1>3, <1>6, <1>8, <1>9, <1>10, <1>11 DEF DInv

\* Before the checksum is verified.
LEMMA Unverified ==
    ASSUME DInv, cursor = 0
    PROVE  /\ report \in Reports /\ said = <<>> /\ Len(said) = 0
           /\ Len(report.bytes) \in Nat
BY ExpectedIs DEF DInv, Position, Idle

LEMMA TooShortStep ==
    ASSUME DInv, TooShort, UNCHANGED <<report, screen>>
    PROVE  DInv'
<1>1. /\ cursor = 0 /\ Len(report.bytes) < 4 /\ cursor' = Idle
      /\ UNCHANGED <<drawn, macroVars, live, busy, said, known>>
  BY DEF TooShort, HID_OFF_CMDS
<1>2. Len(said) = 0 /\ Expected = <<>>
  BY <1>1, Unverified, ExpectedIs
<1>3. Expected' = Expected
  BY SameReport
<1>4. Position'
  <2>1. Len(<<>>) = 0
    OBVIOUS
  <2>2. QED
    BY <1>1, <1>2, <1>3, <2>1 DEF Position
<1>5. busy' \in BOOLEAN
  BY <1>1, NowSettled
<1>6. QED
  BY <1>1, <1>4, <1>5, SilentStep

LEMMA GoodChecksumStep ==
    ASSUME DInv, GoodChecksum, UNCHANGED <<report, screen>>
    PROVE  DInv'
<1>1. /\ cursor = 0 /\ codec_verify_v3(report.bytes) /\ cursor' = 5
      /\ UNCHANGED <<drawn, macroVars, live, busy, said, known>>
  BY DEF GoodChecksum, HID_OFF_CMDS
<1>2. report \in Reports /\ Len(said) = 0
  BY <1>1, Unverified
<1>3. Intact /\ Batch(report)
  BY <1>1, <1>2, OnlyIntactVerifies DEF Intact
<1>4. After(report, 0) = 5
  BY DEF After, HID_OFF_CMDS
<1>5. 0 <= Len(report.cmds)
  <2>1. report.cmds \in Seq(CommandType)
    BY <1>2, ReportsAssumption DEF ReportType
  <2>2. QED
    BY <2>1
<1>6. Position'
  <2>1. (report \in Reports)' /\ Intact' /\ Batch(report)' /\ After(report, 0)' = 5
    BY <1>2, <1>3, <1>4, SameReport
  <2>2. Len(said') = 0 /\ report' = report
    BY <1>1, <1>2
  <2>3. QED
    BY <1>1, <1>5, <2>1, <2>2 DEF Position
<1>7. busy' \in BOOLEAN
  BY <1>1, NowSettled
<1>8. QED
  BY <1>1, <1>6, <1>7, SilentStep

LEMMA InBatch ==
    ASSUME DInv, cursor > 0
    PROVE  /\ report \in Reports /\ Intact /\ Batch(report) /\ cursor \in Nat
           /\ Len(said) \in 0 .. Len(report.cmds) /\ cursor = After(report, Len(said))
           /\ Len(report.cmds) \in Nat /\ Len(report.bytes) >= 4 /\ Len(report.bytes) \in Nat
           /\ Len(Expected) = Len(report.cmds)
<1>1. ~ (cursor = Idle) /\ ~ (cursor = 0)
  BY DEF Idle
<1>2. /\ report \in Reports /\ Intact /\ Batch(report) /\ cursor \in Nat
      /\ Len(said) <= Len(report.cmds) /\ cursor = After(report, Len(said))
  BY <1>1 DEF DInv, Position
<1>3. Len(said) \in Nat /\ Len(report.cmds) \in Nat
  <2>1. report.cmds \in Seq(CommandType) /\ said \in Seq(AnswerType)
    BY <1>2, ReportsAssumption DEF ReportType, DInv, Answers
  <2>2. QED
    BY <2>1
<1>4. Len(said) \in 0 .. Len(report.cmds)
  BY <1>2, <1>3
<1>5. Len(report.bytes) >= 4
  BY <1>2 DEF Batch, Framed, HID_OFF_CMDS, Intact
<1>6. Len(report.bytes) \in Nat /\ Len(Expected) = Len(report.cmds)
  BY <1>2, <1>5, ExpectedIs
<1>7. QED
  BY <1>2, <1>3, <1>4, <1>5, <1>6

LEMMA NoMoreCommandsStep ==
    ASSUME DInv, NoMoreCommands, UNCHANGED <<report, screen>>
    PROVE  DInv'
<1>1. /\ cursor > 0 /\ ~HasCommand(report.bytes, cursor) /\ cursor' = Idle
      /\ UNCHANGED <<drawn, macroVars, live, busy, said, known>>
  BY DEF NoMoreCommands
<1>2. ~HasCommand(report.sent, After(report, Len(said)))
  BY <1>1, InBatch DEF Intact
<1>3. ~ Len(said) < Len(report.cmds)
  BY <1>1, <1>2, InBatch, BatchReads
<1>4. Len(said) = Len(report.cmds)
  BY <1>1, <1>3, InBatch
<1>5. Position'
  <2>1. Len(said') = Len(Expected')
    BY <1>1, <1>4, InBatch, SameReport
  <2>2. QED
    BY <1>1, <2>1 DEF Position
<1>6. busy' \in BOOLEAN
  BY <1>1, NowSettled
<1>7. QED
  BY <1>1, <1>5, <1>6, SilentStep

LEMMA BadChecksumStep ==
    ASSUME DInv, BadChecksum, UNCHANGED <<report, screen>>
    PROVE  DInv'
<1>1. /\ cursor = 0 /\ Len(report.bytes) >= 4 /\ ~codec_verify_v3(report.bytes) /\ cursor' = Idle
      /\ send_resp(0, 0, <<RESP.ERR_CHECKSUM>>) /\ UNCHANGED <<drawn, macroVars, live>>
  BY DEF BadChecksum, HID_OFF_CMDS
<1>2. report \in Reports /\ said = <<>> /\ Len(said) = 0
  BY <1>1, Unverified
<1>3. ~Intact
  BY <1>1, <1>2, OnlyIntactVerifies DEF Intact, HID_OFF_CMDS
<1>4. Expected = << [id |-> 0, index |-> 0] >>
  BY <1>1, <1>2, <1>3, ExpectedIs
<1>5. Len(Expected) = 1 /\ Expected[1] = [id |-> 0, index |-> 0]
  BY <1>4
<1>6. <<4>> \in ByteSeqs /\ Len(<<4>>) <= Cap - 8 /\ RESP.ERR_CHECKSUM = 4 /\ 0 \in Bytes
  BY SmallAnswers, Statuses, ByteFacts
<1>7. Len(report.cmds) \in Nat
  <2>1. report.cmds \in Seq(CommandType)
    BY <1>2, ReportsAssumption DEF ReportType
  <2>2. QED
    BY <2>1
<1>8. busy' = TRUE /\ said' = Append(said, Answer(0, 0, <<4>>)) /\ Learn(<<4>>)
  <2>1. Len(said) \in Nat /\ Len(said) <= Len(report.cmds)
    BY <1>2, <1>7
  <2>2. QED
    BY <1>1, <1>6, <1>7, <2>1, AnswerSent
<1>9. known' = known
  BY <1>3, <1>8 DEF Learn
<1>10. Expected' = Expected /\ ~Intact'
  BY <1>3, SameReport
<1>11. Answers' /\ Len(said') = 1
  <2>1. Answers
    BY DEF DInv
  <2>2. Len(said) + 1 = 1 /\ 1 <= Len(Expected) /\ Len(Expected) \in Nat
    BY <1>2, <1>5
  <2>3. Answers' /\ Len(said') = Len(said) + 1
    BY <1>5, <1>6, <1>8, <1>10, <2>1, <2>2, AnswersExtend
  <2>4. QED
    BY <2>2, <2>3
<1>12. Position'
  BY <1>1, <1>5, <1>10, <1>11 DEF Position
<1>13. ExportIsConfig'
  BY <1>10 DEF ExportIsConfig
<1>14. StateType' /\ KnownType' /\ ConclusionsHold'
  BY <1>1, <1>8, <1>9, KeptStore
<1>15. (report \in Reports \cup {NoReport})' /\ (screen \in BOOLEAN)'
  BY DEF DInv
<1>16. QED
  BY <1>11, <1>12, <1>13, <1>14, <1>15 DEF DInv

LEMMA CommandStep ==
    ASSUME DInv, Command, UNCHANGED <<report, screen>>
    PROVE  DInv'
<1> DEFINE v == CommandAt(report.bytes, cursor)
           n == Len(said)
<1>1. /\ cursor > 0 /\ HasCommand(report.bytes, cursor)
      /\ cursor' = cursor + v.length /\ Handle(v)
  BY DEF Command
<1>2. Doing(v)
  BY <1>1 DEF Doing
<1> HIDE DEF v
<1>3. Handled(v)
  BY <1>1, <1>2, EveryHandler
<1>4. /\ Intact /\ Batch(report) /\ report \in Reports /\ n \in Nat /\ Len(report.cmds) \in Nat
      /\ n < Len(report.cmds) /\ v.id \in Bytes /\ v.index \in Bytes
      /\ Meant.id = v.id /\ Meant.index = v.index /\ cursor + v.length = After(report, n + 1)
  BY <1>2, CommandIsMeant
<1>5. PICK payload \in ByteSeqs :
         /\ said' = Append(said, Answer(AnswerId(v.id), v.index, payload)) /\ Exports(v, payload)
  BY <1>3 DEF Handled
<1>6. AnswerId(v.id) \in Bytes
  BY <1>4, Codes, ByteFacts DEF AnswerId
<1>7. Expected[n + 1] = [id |-> AnswerId(v.id), index |-> v.index]
  <2>1. n + 1 \in 1 .. Len(report.cmds)
    BY <1>4
  <2>2. Expected[n + 1] = [id |-> AnswerId(Meant.id), index |-> Meant.index]
    BY <1>1, <1>4, <2>1, InBatch, ExpectedIs DEF Meant
  <2>3. QED
    BY <1>4, <2>2
<1>8. Len(Expected) = Len(report.cmds) /\ Len(Expected) \in Nat /\ n + 1 <= Len(Expected)
  BY <1>1, <1>4, InBatch
<1>9. Expected' = Expected /\ Intact' /\ Batch(report)' /\ (report \in Reports)'
      /\ \A x : After(report, x)' = After(report, x)
  BY <1>4, SameReport
<1>10. Answers' /\ Len(said') = n + 1 /\ said'[n + 1] = Answer(AnswerId(v.id), v.index, payload)
  <2>1. Answers
    BY DEF DInv
  <2>2. QED
    BY <1>4, <1>5, <1>6, <1>7, <1>8, <1>9, <2>1, AnswersExtend
<1>11. Position'
  <2>1. cursor' = After(report, n + 1)
    BY <1>1, <1>4
  <2>2. n + 1 \in 0 .. Len(report.cmds)
    BY <1>4
  <2>3. cursor' \in Nat /\ cursor' > 0
    BY <1>4, <2>1, <2>2, AfterRange
  <2>4. Len(said') <= Len(report'.cmds)
    BY <1>4, <1>10
  <2>5. cursor' = After(report, Len(said))'
    BY <1>10, <2>1 DEF After
  <2>6. QED
    BY <1>9, <2>3, <2>4, <2>5 DEF Position
<1>12. ExportIsConfig'
  <2> SUFFICES ASSUME NEW p \in known'.config, said'[n + 1].id = CMD.CONFIG_EXPORT
               PROVE  said'[n + 1].data = Take(p, 1, ExportMax)
    BY <1>10 DEF ExportIsConfig
  <2>1. said'[n + 1].id = AnswerId(v.id) /\ said'[n + 1].data = payload
    BY <1>10 DEF Answer
  <2>2. AnswerId(v.id) = CMD.CONFIG_EXPORT
    BY <2>1
  <2>3. v.id = 139
    BY <2>2, Codes DEF AnswerId
  <2>4. QED
    BY <1>5, <2>1, <2>3 DEF Exports
<1>13. StateType' /\ KnownType' /\ ConclusionsHold'
  BY <1>3 DEF Handled
<1>14. (report \in Reports \cup {NoReport})' /\ (screen \in BOOLEAN)'
  BY DEF DInv
<1>15. QED
  BY <1>10, <1>11, <1>12, <1>13, <1>14 DEF DInv

LEMMA HostFetchesStep == ASSUME DInv, HostFetches PROVE DInv'
<1>1. UNCHANGED <<report, cursor, screen, drawn, macroVars, live, said, known>> /\ busy' = FALSE
  BY DEF HostFetches
<1>2. Position'
  <2>1. Position
    BY DEF DInv
  <2>2. Expected' = Expected /\ (Intact' <=> Intact) /\ (Batch(report)' <=> Batch(report))
    BY <1>1, SameReport
  <2>3. After(report, Len(said))' = After(report, Len(said))
    BY <1>1 DEF After
  <2>4. QED
    BY <1>1, <2>1, <2>2, <2>3 DEF Position
<1>3. QED
  BY <1>1, <1>2, SilentStep

LEMMA StutterStep == ASSUME DInv, UNCHANGED vars PROVE DInv'
<1>1. UNCHANGED <<report, cursor, screen, drawn, macroVars, live, busy, said, known>>
  BY DEF vars
<1>2. busy' \in BOOLEAN
  BY <1>1, NowSettled
<1>3. Position'
  <2>1. Position
    BY DEF DInv
  <2>2. Expected' = Expected /\ (Intact' <=> Intact) /\ (Batch(report)' <=> Batch(report))
    BY <1>1, SameReport
  <2>3. After(report, Len(said))' = After(report, Len(said))
    BY <1>1 DEF After
  <2>4. QED
    BY <1>1, <2>1, <2>2, <2>3 DEF Position
<1>4. QED
  BY <1>1, <1>2, <1>3, SilentStep

LEMMA DInvStep == DInv /\ [Next]_vars => DInv'
<1> SUFFICES ASSUME DInv, [Next]_vars PROVE DInv'
  OBVIOUS
<1>1. ASSUME NEW r \in Reports, HostSends(r) PROVE DInv'
  BY <1>1, HostSendsStep
<1>2. ASSUME Dispatching PROVE DInv'
  <2>1. UNCHANGED <<report, screen>>
    BY <1>2 DEF Dispatching
  <2>2. CASE TooShort
    BY <2>1, <2>2, TooShortStep
  <2>3. CASE BadChecksum
    BY <2>1, <2>3, BadChecksumStep
  <2>4. CASE GoodChecksum
    BY <2>1, <2>4, GoodChecksumStep
  <2>5. CASE Command
    BY <2>1, <2>5, CommandStep
  <2>6. CASE NoMoreCommands
    BY <2>1, <2>6, NoMoreCommandsStep
  <2>7. QED
    BY <1>2, <2>2, <2>3, <2>4, <2>5, <2>6 DEF Dispatching
<1>3. CASE HostFetches
  BY <1>3, HostFetchesStep
<1>4. CASE UNCHANGED vars
  BY <1>4, StutterStep
<1>5. QED
  BY <1>1, <1>2, <1>3, <1>4 DEF Next

-------------------------------------------------------------------------------
(***************************************************************************)
(* The theorems.                                                           *)
(***************************************************************************)
THEOREM DispatchInvariant == Spec => []DInv
BY DInvInit, DInvStep, PTL DEF Spec

\* The state of the dispatcher keeps its type: no slot, position or length is
\* ever out of range, whatever reports arrive (dispatch.c:324, codec.c:62).
THEOREM DispatchTypeCorrect == Spec => []TypeOK
<1>1. DInv => TypeOK
  <2> SUFFICES ASSUME DInv PROVE TypeOK
    OBVIOUS
  <2>1. report \in Reports \cup {NoReport} /\ screen \in BOOLEAN /\ StateType
    BY DEF DInv
  <2>2. Len(report.bytes) \in Nat
    BY <2>1, ExpectedIs
  <2>3. cursor \in Idle .. Len(report.bytes) + 1
    <3>1. CASE cursor = Idle \/ cursor = 0
      BY <2>2, <3>1 DEF Idle
    <3>2. CASE cursor > 0
      <4>1. cursor \in Nat /\ cursor <= Len(report.bytes) + 1
        BY <3>2, InBatch, AfterRange DEF Intact
      <4>2. QED
        BY <2>2, <4>1 DEF Idle
    <3>3. QED
      BY <3>1, <3>2 DEF DInv, Position
  <2>4. QED
    BY <2>1, <2>3 DEF TypeOK, StateType, ByteSeqs
<1>2. QED
  BY DispatchInvariant, <1>1, PTL

\* Each command of a report that comes as it was sent is answered once, in its
\* order, with its index and its id, by a packet that verifies, for any batch
\* and whatever follows it; a damaged report is answered once (dispatch.c:309).
THEOREM CommandsAreAnswered == Spec => []EveryCommandAnswered
<1>1. DInv => EveryCommandAnswered
  <2> SUFFICES ASSUME DInv PROVE EveryCommandAnswered
    OBVIOUS
  <2> DEFINE got == [i \in DOMAIN said |-> [id |-> said[i].id, index |-> said[i].index]]
             E == Expected
  <2>1. /\ said \in Seq(AnswerType)
        /\ \A i \in 1 .. Len(said) :
              i <= Len(E) /\ [id |-> said[i].id, index |-> said[i].index] = E[i]
    BY DEF DInv, Answers
  <2>2. Len(said) \in Nat /\ DOMAIN said = 1 .. Len(said)
    BY <2>1
  <2>3. /\ DOMAIN got = 1 .. Len(said) /\ Len(got) = Len(said)
        /\ \A i \in 1 .. Len(said) : i <= Len(E) /\ got[i] = E[i]
    BY <2>1, <2>2
  <2>4. \A i \in DOMAIN said : said[i].ok
    <3> SUFFICES ASSUME NEW i \in 1 .. Len(said) PROVE said[i].ok
      BY <2>2
    <3>1. said[i] \in AnswerType
      BY <2>1, ElementOfSeq
    <3>2. said[i].ok \in {TRUE}
      BY <3>1 DEF AnswerType
    <3>3. QED
      BY <3>2
  <2>5. /\ Len(E) \in Nat /\ E = [i \in 1 .. Len(E) |-> E[i]]
    <3> DEFINE T == [id : Bytes, index : Bytes]
    <3>1. report \in Reports \cup {NoReport}
      BY DEF DInv
    <3>2. E \in Seq(T)
      <4>1. Len(report.bytes) \in Nat
        BY <3>1, ExpectedIs
      <4>2. CASE Len(report.bytes) < 4
        <5>1. E = <<>>
          BY <3>1, <4>2, ExpectedIs
        <5> HIDE DEF E, T
        <5>2. QED
          BY <5>1
      <4>3. CASE Len(report.bytes) >= 4 /\ ~Intact
        <5>1. [id |-> 0, index |-> 0] \in T
          BY ByteFacts
        <5>2. E = << [id |-> 0, index |-> 0] >>
          BY <3>1, <4>3, ExpectedIs
        <5> DEFINE x == [id |-> 0, index |-> 0]
        <5>3. x \in T /\ E = <<x>>
          BY <5>1, <5>2
        <5> HIDE DEF E, T, x
        <5>4. QED
          BY <5>3
      <4>4. CASE Len(report.bytes) >= 4 /\ Intact
        <5>1. report.cmds \in Seq(CommandType)
          <6>1. CASE report \in Reports
            BY <6>1, ReportsAssumption DEF ReportType
          <6>2. CASE report = NoReport
            <7>1. report.cmds = <<>>
              BY <6>2 DEF NoReport
            <7>2. QED
              BY <7>1
          <6>3. QED
            BY <3>1, <6>1, <6>2
        <5>2. E = [i \in 1 .. Len(report.cmds) |-> AnswerTo(report.cmds[i])]
          <6>1. ~ (Len(report.bytes) < 4) /\ DOMAIN report.cmds = 1 .. Len(report.cmds)
            BY <4>1, <4>4, <5>1
          <6>2. QED
            BY <4>4, <6>1 DEF Expected, HID_OFF_CMDS
        <5>3. \A i \in 1 .. Len(report.cmds) : report.cmds[i] \in CommandType
          BY <5>1
        <5>4. \A i \in 1 .. Len(report.cmds) : AnswerTo(report.cmds[i]) \in T
          <6>1. ASSUME NEW c \in CommandType PROVE AnswerTo(c) \in T
            <7>1. c.id \in Bytes /\ c.index \in Bytes /\ CMD.INFO \in Bytes
              BY Codes, ByteFacts DEF CommandType
            <7>2. QED
              BY <7>1 DEF AnswerTo
          <6>2. QED
            BY <5>3, <6>1
        <5>5. Len(report.cmds) \in Nat
          BY <5>1
        <5> HIDE DEF E
        <5>6. QED
          BY <5>2, <5>4, <5>5
      <4>5. QED
        BY <4>1, <4>2, <4>3, <4>4
    <3> HIDE DEF E
    <3>3. QED
      BY <3>2
  <2> HIDE DEF got, E
  <2>6. Len(got) <= Len(E)
    <3>1. CASE Len(said) = 0
      BY <2>3, <2>5, <3>1
    <3>2. CASE Len(said) # 0
      <4>1. Len(said) \in 1 .. Len(said)
        BY <2>2, <3>2
      <4>2. QED
        BY <2>3, <4>1
    <3>3. QED
      BY <3>1, <3>2
  <2>7. IsPrefix(got, E)
    <3>1. SubSeq(got, 1, Len(got)) = [i \in 1 .. Len(got) |-> got[i]]
      BY <2>2, <2>3 DEF SubSeq
    <3>2. SubSeq(E, 1, Len(got)) = [i \in 1 .. Len(got) |-> E[i]]
      BY <2>2, <2>3 DEF SubSeq
    <3>3. [i \in 1 .. Len(got) |-> got[i]] = [i \in 1 .. Len(got) |-> E[i]]
      BY <2>3
    <3>4. QED
      BY <2>6, <3>1, <3>2, <3>3 DEF IsPrefix
  <2>8. cursor = Idle => got = E
    <3> SUFFICES ASSUME cursor = Idle PROVE got = E
      OBVIOUS
    <3>1. Len(said) = Len(E)
      BY DEF DInv, Position, Idle, E
    <3>2. got = [i \in 1 .. Len(E) |-> got[i]]
      BY <2>3, <3>1 DEF got
    <3>3. [i \in 1 .. Len(E) |-> got[i]] = [i \in 1 .. Len(E) |-> E[i]]
      BY <2>3, <3>1
    <3>4. QED
      BY <2>5, <3>2, <3>3
  <2>9. QED
    BY <2>4, <2>7, <2>8 DEF EveryCommandAnswered, got, E
<1>2. QED
  BY DispatchInvariant, <1>1, PTL

\* What a host may conclude from the answers it got is so, for any sequence of
\* batches, whichever answers the endpoint refuses and whatever commits fail.
THEOREM HostsConcludeTruly == Spec => []ConclusionsHold
<1>1. DInv => ConclusionsHold
  BY DEF DInv
<1>2. QED
  BY DispatchInvariant, <1>1, PTL

\* An export gives back the configuration, as long as the host knows it, for
\* any payload and any number of imports, stored or failed (dispatch.c:238).
THEOREM ExportGivesConfig == Spec => []ExportIsConfig
<1>1. DInv => ExportIsConfig
  BY DEF DInv
<1>2. QED
  BY DispatchInvariant, <1>1, PTL

\* No step of the dispatcher on a report that was damaged on the way changes
\* the macros, the configuration or what is drawn (dispatch.c:309).
THEOREM DamageIsHarmless == Spec => DamageChangesNothing
<1>1. DInv /\ [Next]_vars
        => [Dispatching /\ ~Intact => UNCHANGED <<drawn, macroVars, live>>]_vars
  <2> SUFFICES ASSUME DInv, Dispatching, ~Intact
               PROVE  UNCHANGED <<drawn, macroVars, live>>
    OBVIOUS
  <2>1. ~ Command
    BY InBatch DEF Command
  <2>2. CASE TooShort
    BY <2>2 DEF TooShort
  <2>3. CASE BadChecksum
    BY <2>3 DEF BadChecksum
  <2>4. CASE GoodChecksum
    BY <2>4 DEF GoodChecksum
  <2>5. CASE NoMoreCommands
    BY <2>5 DEF NoMoreCommands
  <2>6. QED
    BY <2>1, <2>2, <2>3, <2>4, <2>5 DEF Dispatching
<1>2. QED
  BY DispatchInvariant, <1>1, PTL DEF Spec, DamageChangesNothing
==============================================================================
