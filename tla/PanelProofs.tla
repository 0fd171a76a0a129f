------------------------------ MODULE PanelProofs ------------------------------
(***************************************************************************)
(* Theorems about Panel, for any panel that the controllers can address,   *)
(* any framebuffers and rectangles, wherever transfers fail.               *)
(***************************************************************************)
EXTENDS Panel, TLAPS

Byte == 0 .. 255
Memory == (0 .. Pages - 1) \X (0 .. Columns(build) - 1)
OledType ==
    [on : BOOLEAN, horizontal : BOOLEAN, pending : Seq(Byte),
     c0 : Int, c1 : Int, p0 : Int, p1 : Int, col : Int, page : Int,
     gram : [Memory -> Int]]

LEMMA Sizes == Width \in Int /\ Width >= 1 /\ Width <= 128 /\ Pages \in Int /\ Pages >= 1 /\ Pages <= 8
BY PanelAssumption

(***************************************************************************)
(* What a byte does to the controller.                                     *)
(***************************************************************************)
\* A data byte is stored at the pointer, and nowhere else; the pointer goes on.
StoresIn(o, q, v) ==
    /\ q \in OledType
    /\ q.pending = o.pending /\ q.horizontal = o.horizontal
    /\ q.c0 = o.c0 /\ q.c1 = o.c1 /\ q.p0 = o.p0 /\ q.p1 = o.p1
    /\ \A a \in Memory : q.gram[a] = IF a = <<o.page, o.col>> THEN v ELSE o.gram[a]

RowEnds(o) == IF o.horizontal THEN o.col = o.c1 ELSE o.col = Columns(build) - 1

LEMMA StoreIs ==
    ASSUME NEW o \in OledType, NEW v \in Byte
    PROVE  /\ StoresIn(o, Store(o, v), v)
           /\ ~RowEnds(o) => /\ Store(o, v).col = After(o.col, Columns(build))
                             /\ Store(o, v).page = o.page
           /\ RowEnds(o) /\ o.horizontal =>
                 /\ Store(o, v).col = o.c0
                 /\ Store(o, v).page = IF o.page = o.p1 THEN o.p0 ELSE After(o.page, Pages)
<1> DEFINE g == [a \in Memory |-> IF a = <<o.page, o.col>> THEN v ELSE o.gram[a]]
           c == IF RowEnds(o) THEN (IF o.horizontal THEN o.c0 ELSE 0)
                ELSE After(o.col, Columns(build))
           p == IF RowEnds(o) /\ o.horizontal
                THEN (IF o.page = o.p1 THEN o.p0 ELSE After(o.page, Pages)) ELSE o.page
<1>1. DOMAIN o.gram = Memory /\ o.gram \in [Memory -> Int]
  BY DEF OledType
<1>2. g \in [Memory -> Int] /\ c \in Int /\ p \in Int
  <2>1. ASSUME NEW x \in Int, NEW z PROVE After(x, z) \in Int
    BY DEF After
  <2>2. QED
    BY <1>1, <2>1 DEF OledType, Byte
<1>3. Store(o, v) = [o EXCEPT !.gram = g, !.col = c, !.page = p]
  <2>1. [a \in DOMAIN o.gram |-> IF a = <<o.page, o.col>> THEN v ELSE o.gram[a]] = g
    BY <1>1
  <2> HIDE DEF g
  <2>2. QED
    BY <2>1 DEF Store, RowEnds
<1> HIDE DEF g, c, p
<1>4. /\ Store(o, v) \in OledType
      /\ Store(o, v).gram = g /\ Store(o, v).col = c /\ Store(o, v).page = p
      /\ Store(o, v).pending = o.pending /\ Store(o, v).horizontal = o.horizontal
      /\ Store(o, v).c0 = o.c0 /\ Store(o, v).c1 = o.c1
      /\ Store(o, v).p0 = o.p0 /\ Store(o, v).p1 = o.p1
  <2> DEFINE q == Store(o, v)
  <2>1. q = [o EXCEPT !.gram = g, !.col = c, !.page = p]
    BY <1>3
  <2> HIDE DEF q
  <2>2. /\ q \in OledType
        /\ q.gram = g /\ q.col = c /\ q.page = p
        /\ q.pending = o.pending /\ q.horizontal = o.horizontal
        /\ q.c0 = o.c0 /\ q.c1 = o.c1 /\ q.p0 = o.p0 /\ q.p1 = o.p1
    BY <1>2, <2>1 DEF OledType
  <2>3. QED
    BY <2>2 DEF q
<1>5. \A a \in Memory : g[a] = IF a = <<o.page, o.col>> THEN v ELSE o.gram[a]
  BY DEF g
<1>6. QED
  BY <1>4, <1>5 DEF StoresIn, c, p

\* A command byte is collected ...
LEMMA Collects ==
    ASSUME NEW o \in OledType, NEW b \in Byte, NEW q, q = Receive(o, b),
           \/ o.pending = <<>> /\ Arguments(b) > 0
           \/ \E x \in Byte : o.pending = <<x>> /\ Arguments(x) = 2
    PROVE  /\ q = [o EXCEPT !.pending = Append(o.pending, b)]
           /\ q \in OledType /\ q.pending = Append(o.pending, b) /\ q.gram = o.gram
           /\ q.horizontal = o.horizontal
           /\ q.c0 = o.c0 /\ q.c1 = o.c1 /\ q.p0 = o.p0 /\ q.p1 = o.p1
           /\ q.col = o.col /\ q.page = o.page
<1> DEFINE cmd == Append(o.pending, b)
<1>1. cmd \in Seq(Byte)
  BY DEF OledType
<1>2. ~ Len(cmd) > Arguments(cmd[1])
  <2>1. CASE o.pending = <<>> /\ Arguments(b) > 0
    <3>1. cmd = <<b>> /\ Len(cmd) = 1 /\ cmd[1] = b
      BY <2>1
    <3> HIDE DEF cmd
    <3>2. QED
      BY <2>1, <3>1 DEF Arguments
  <2>2. ASSUME NEW x \in Byte, o.pending = <<x>>, Arguments(x) = 2
        PROVE  ~ Len(cmd) > Arguments(cmd[1])
    <3>1. Len(cmd) = 2 /\ cmd[1] = x
      BY <2>2
    <3> HIDE DEF cmd
    <3>2. QED
      BY <2>2, <3>1
  <2>3. QED
    BY <2>1, <2>2
<1>3. q = [o EXCEPT !.pending = cmd]
  BY <1>2 DEF Receive
<1> HIDE DEF cmd
<1>4. /\ q \in OledType /\ q.pending = cmd /\ q.gram = o.gram
      /\ q.horizontal = o.horizontal
      /\ q.c0 = o.c0 /\ q.c1 = o.c1 /\ q.p0 = o.p0 /\ q.p1 = o.p1
      /\ q.col = o.col /\ q.page = o.page
  BY <1>1, <1>3 DEF OledType
<1>5. QED
  BY <1>3, <1>4 DEF cmd

\* ... or completes a command that is executed.
LEMMA Completes ==
    ASSUME NEW o \in OledType, NEW b \in Byte, NEW cmd \in Seq(Byte),
           Len(cmd) = Arguments(cmd[1]) + 1, cmd = Append(o.pending, b)
    PROVE  Receive(o, b) = Execute([o EXCEPT !.pending = <<>>], cmd)
<1>1. Len(cmd) > Arguments(cmd[1])
  BY DEF Arguments
<1>2. QED
  BY <1>1 DEF Receive

\* What executing a command may change: only \h20 changes the mode, and no command
\* the memory.
Obeys(o, q) == q \in OledType /\ q.pending = o.pending /\ q.gram = o.gram
SetOn(o, x) == [o EXCEPT !.on = x]
SetMode(o, x) == [o EXCEPT !.horizontal = x]
SetColumns(o, x, y) == [o EXCEPT !.c0 = x, !.c1 = y, !.col = x]
SetPages(o, x, y) == [o EXCEPT !.p0 = x, !.p1 = y, !.page = x]
ColumnsSetTo(o, cmd) == SetColumns(o, cmd[2] % Columns(build), cmd[3] % Columns(build))
PagesSetTo(o, cmd) == SetPages(o, cmd[2] % Pages, cmd[3] % Pages)
SetPage(o, x) == [o EXCEPT !.page = x]
SetCol(o, x) == [o EXCEPT !.col = x]

LEMMA SetOnIs ==
    ASSUME NEW o \in OledType, NEW f \in BOOLEAN, NEW q, q = SetOn(o, f)
    PROVE  Obeys(o, q) /\ q.horizontal = o.horizontal
BY DEF SetOn, Obeys, OledType

LEMMA SetModeIs ==
    ASSUME NEW o \in OledType, NEW f \in BOOLEAN, NEW q, q = SetMode(o, f)
    PROVE  Obeys(o, q) /\ q.horizontal = f
BY DEF SetMode, Obeys, OledType

LEMMA SetColumnsIs ==
    ASSUME NEW o \in OledType, NEW x \in Int, NEW y \in Int, NEW q, q = SetColumns(o, x, y)
    PROVE  Obeys(o, q) /\ q.horizontal = o.horizontal /\ q.c0 = x /\ q.c1 = y /\ q.col = x
BY DEF SetColumns, Obeys, OledType

LEMMA SetPagesIs ==
    ASSUME NEW o \in OledType, NEW x \in Int, NEW y \in Int, NEW q, q = SetPages(o, x, y)
    PROVE  /\ Obeys(o, q)
           /\ q.horizontal = o.horizontal /\ q.c0 = o.c0 /\ q.c1 = o.c1
           /\ q.col = o.col /\ q.p0 = x /\ q.p1 = y /\ q.page = x
BY DEF SetPages, Obeys, OledType

LEMMA SetPageIs ==
    ASSUME NEW o \in OledType, NEW x \in Int, NEW q, q = SetPage(o, x)
    PROVE  Obeys(o, q) /\ q.horizontal = o.horizontal /\ q.page = x /\ q.col = o.col
BY DEF SetPage, Obeys, OledType

LEMMA SetColIs ==
    ASSUME NEW o \in OledType, NEW x \in Int, NEW q, q = SetCol(o, x)
    PROVE  Obeys(o, q) /\ q.horizontal = o.horizontal /\ q.col = x /\ q.page = o.page
BY DEF SetCol, Obeys, OledType

\* The commands of the command set, by their bytes.
LEMMA ExecuteIs ==
    ASSUME NEW o, NEW cmd, NEW b, b = cmd[1], b \in Int, o.horizontal \in BOOLEAN
    PROVE  /\ b \in {\hAE, \hAF} => Execute(o, cmd) = SetOn(o, b = \hAF)
           /\ b = \h20 => Execute(o, cmd) = SetMode(o, build = "SSD1306" /\ cmd[2] = 0)
           /\ b = \h21 /\ o.horizontal => Execute(o, cmd) = ColumnsSetTo(o, cmd)
           /\ b = \h22 /\ o.horizontal => Execute(o, cmd) = PagesSetTo(o, cmd)
           /\ b \in \hB0 .. \hB7 /\ ~o.horizontal => Execute(o, cmd) = SetPage(o, b - \hB0)
           /\ b \in \h00 .. \h0F /\ ~o.horizontal =>
                 Execute(o, cmd) = SetCol(o, (16 * (o.col \div 16)) + b)
           /\ b \in \h10 .. \h1F /\ ~o.horizontal =>
                 Execute(o, cmd) = SetCol(o, (16 * (b - \h10)) + (o.col % 16))
           /\ \/ b \in {\hAE, \hAF} \/ b = \h20
              \/ b \in {\h21, \h22} /\ o.horizontal
              \/ b \in \hB0 .. \hB7 /\ ~o.horizontal
              \/ b \in \h00 .. \h0F /\ ~o.horizontal
              \/ b \in \h10 .. \h1F /\ ~o.horizontal
              \/ Execute(o, cmd) = o
<1>1. ASSUME b \in {\hAE, \hAF} PROVE Execute(o, cmd) = SetOn(o, b = \hAF)
  BY <1>1 DEF Execute, SetOn
<1>2. ASSUME b = \h20 PROVE Execute(o, cmd) = SetMode(o, build = "SSD1306" /\ cmd[2] = 0)
  BY <1>2 DEF Execute, SetMode
<1>3. ASSUME b = \h21, o.horizontal PROVE Execute(o, cmd) = ColumnsSetTo(o, cmd)
  BY <1>3 DEF Execute, SetColumns, ColumnsSetTo
<1>4. ASSUME b = \h22, o.horizontal PROVE Execute(o, cmd) = PagesSetTo(o, cmd)
  BY <1>4 DEF Execute, SetPages, PagesSetTo
<1>5. ASSUME b \in \hB0 .. \hB7, ~o.horizontal PROVE Execute(o, cmd) = SetPage(o, b - \hB0)
  BY <1>5 DEF Execute, SetPage
<1>6. ASSUME b \in \h00 .. \h0F, ~o.horizontal
      PROVE  Execute(o, cmd) = SetCol(o, (16 * (o.col \div 16)) + b)
  BY <1>6 DEF Execute, SetCol
<1>7. ASSUME b \in \h10 .. \h1F, ~o.horizontal
      PROVE  Execute(o, cmd) = SetCol(o, (16 * (b - \h10)) + (o.col % 16))
  BY <1>7 DEF Execute, SetCol
<1>8. ASSUME /\ b \notin {\hAE, \hAF} /\ b # \h20
             /\ ~(b \in {\h21, \h22} /\ o.horizontal)
             /\ ~(b \in \hB0 .. \hB7 /\ ~o.horizontal)
             /\ ~(b \in \h00 .. \h0F /\ ~o.horizontal)
             /\ ~(b \in \h10 .. \h1F /\ ~o.horizontal)
      PROVE  Execute(o, cmd) = o
  BY <1>8 DEF Execute
<1>9. QED
  BY <1>1, <1>2, <1>3, <1>4, <1>5, <1>6, <1>7, <1>8

LEMMA ExecuteObeys ==
    ASSUME NEW o \in OledType, NEW cmd, cmd[1] \in Byte,
           cmd[1] \in {\h21, \h22} => cmd[2] \in Int /\ cmd[3] \in Int
    PROVE  /\ Obeys(o, Execute(o, cmd))
           /\ cmd[1] # \h20 => Execute(o, cmd).horizontal = o.horizontal
           /\ cmd[1] = \h20 =>
                 Execute(o, cmd).horizontal = (build = "SSD1306" /\ cmd[2] = 0)
<1> DEFINE b == cmd[1]
           q == Execute(o, cmd)
           x == cmd[2]
           cx == cmd[2] % Columns(build)
           cy == cmd[3] % Columns(build)
           px == cmd[2] % Pages
           py == cmd[3] % Pages
           on == b = \hAF
           mode == build = "SSD1306" /\ x = 0
<1>1. b = cmd[1] /\ b \in Int /\ o.horizontal \in BOOLEAN /\ o.col \in Int
  <2>1. b \in Int
    BY DEF Byte
  <2>2. o.horizontal \in BOOLEAN /\ o.col \in Int
    BY DEF OledType
  <2>3. QED
    BY <2>1, <2>2
<1>2. on \in BOOLEAN /\ mode \in BOOLEAN
  OBVIOUS
<1>3. b \in {\h21, \h22} => cx \in Int /\ cy \in Int /\ px \in Int /\ py \in Int
  BY Sizes DEF Columns
<1>4. /\ b \in {\hAE, \hAF} => q = SetOn(o, on)
      /\ b = \h20 => q = SetMode(o, mode)
      /\ b = \h21 /\ o.horizontal => q = SetColumns(o, cx, cy)
      /\ b = \h22 /\ o.horizontal => q = SetPages(o, px, py)
      /\ b \in \hB0 .. \hB7 /\ ~o.horizontal => q = SetPage(o, b - \hB0)
      /\ b \in \h00 .. \h0F /\ ~o.horizontal => q = SetCol(o, (16 * (o.col \div 16)) + b)
      /\ b \in \h10 .. \h1F /\ ~o.horizontal =>
            q = SetCol(o, (16 * (b - \h10)) + (o.col % 16))
      /\ \/ b \in {\hAE, \hAF} \/ b = \h20
         \/ b \in {\h21, \h22} /\ o.horizontal
         \/ b \in \hB0 .. \hB7 /\ ~o.horizontal
         \/ b \in \h00 .. \h0F /\ ~o.horizontal
         \/ b \in \h10 .. \h1F /\ ~o.horizontal
         \/ q = o
  BY <1>1, ExecuteIs DEF ColumnsSetTo, PagesSetTo
<1> HIDE DEF b, q, x, cx, cy, px, py, on, mode
<1>5. Obeys(o, q) /\ (b # \h20 => q.horizontal = o.horizontal)
      /\ (b = \h20 => q.horizontal = mode)
  <2>1. CASE b \in {\hAE, \hAF}
    BY <1>2, <1>4, <2>1, SetOnIs
  <2>2. CASE b = \h20
    BY <1>2, <1>4, <2>2, SetModeIs
  <2>3. CASE b = \h21 /\ o.horizontal
    <3>1. cx \in Int /\ cy \in Int /\ b # \h20
      BY <1>3, <2>3
    <3>2. q = SetColumns(o, cx, cy)
      BY <1>4, <2>3
    <3>3. QED
      BY <3>1, <3>2, SetColumnsIs
  <2>4. CASE b = \h22 /\ o.horizontal
    <3>1. px \in Int /\ py \in Int /\ b # \h20
      BY <1>3, <2>4
    <3>2. q = SetPages(o, px, py)
      BY <1>4, <2>4
    <3>3. QED
      BY <3>1, <3>2, SetPagesIs
  <2>5. CASE b \in \hB0 .. \hB7 /\ ~o.horizontal
    <3>1. b - \hB0 \in Int
      BY <1>1
    <3>2. QED
      BY <1>4, <2>5, <3>1, SetPageIs
  <2>6. CASE b \in \h00 .. \h0F /\ ~o.horizontal
    <3>1. (16 * (o.col \div 16)) + b \in Int
      BY <1>1
    <3>2. QED
      BY <1>4, <2>6, <3>1, SetColIs
  <2>7. CASE b \in \h10 .. \h1F /\ ~o.horizontal
    <3>1. (16 * (b - \h10)) + (o.col % 16) \in Int
      BY <1>1
    <3>2. QED
      BY <1>4, <2>7, <3>1, SetColIs
  <2>8. CASE q = o /\ b # \h20
    BY <2>8 DEF Obeys
  <2>9. QED
    BY <1>4, <2>1, <2>2, <2>3, <2>4, <2>5, <2>6, <2>7, <2>8
<1>6. QED
  BY <1>5 DEF b, q, x, mode

\* The controller with an empty buffer.
Emptied(o) == [o EXCEPT !.pending = <<>>]

LEMMA EmptiedIs ==
    ASSUME NEW o \in OledType
    PROVE  LET q == Emptied(o)
           IN  /\ q \in OledType /\ q.pending = <<>> /\ q.gram = o.gram
               /\ q.horizontal = o.horizontal
               /\ q.c0 = o.c0 /\ q.c1 = o.c1 /\ q.p0 = o.p0 /\ q.p1 = o.p1
               /\ q.col = o.col /\ q.page = o.page
<1> DEFINE e == <<>>
<1>1. e \in Seq(Byte)
  OBVIOUS
<1> HIDE DEF e
<1>2. LET q == [o EXCEPT !.pending = e]
      IN  /\ q \in OledType /\ q.pending = e /\ q.gram = o.gram
          /\ q.horizontal = o.horizontal
          /\ q.c0 = o.c0 /\ q.c1 = o.c1 /\ q.p0 = o.p0 /\ q.p1 = o.p1
          /\ q.col = o.col /\ q.page = o.page
  BY <1>1 DEF OledType
<1>3. QED
  BY <1>2 DEF Emptied, e

LEMMA AppendedToOne ==
    ASSUME NEW x \in Byte, NEW b \in Byte PROVE Append(<<x>>, b) = <<x, b>>
<1> DEFINE s == Append(<<x>>, b)
           t == <<x, b>>
<1>1. s \in Seq(Byte) /\ Len(s) = 2 /\ s[1] = x /\ s[2] = b
  OBVIOUS
<1>2. t \in Seq(Byte) /\ Len(t) = 2 /\ t[1] = x /\ t[2] = b
  OBVIOUS
<1> HIDE DEF s, t
<1>3. \A i \in 1 .. 2 : s[i] = t[i]
  BY <1>1, <1>2
<1>4. s = [i \in 1 .. 2 |-> s[i]] /\ t = [i \in 1 .. 2 |-> t[i]]
  BY <1>1, <1>2
<1>5. s = t
  BY <1>3, <1>4
<1>6. QED
  BY <1>5 DEF s, t

LEMMA AppendedToTwo ==
    ASSUME NEW x \in Byte, NEW y \in Byte, NEW b \in Byte
    PROVE  Append(<<x, y>>, b) = <<x, y, b>>
<1> DEFINE s == Append(<<x, y>>, b)
           t == <<x, y, b>>
<1>1. s \in Seq(Byte) /\ Len(s) = 3 /\ s[1] = x /\ s[2] = y /\ s[3] = b
  OBVIOUS
<1>2. t \in Seq(Byte) /\ Len(t) = 3 /\ t[1] = x /\ t[2] = y /\ t[3] = b
  OBVIOUS
<1> HIDE DEF s, t
<1>3. \A i \in 1 .. 3 : s[i] = t[i]
  BY <1>1, <1>2
<1>4. s = [i \in 1 .. 3 |-> s[i]] /\ t = [i \in 1 .. 3 |-> t[i]]
  BY <1>1, <1>2
<1>5. s = t
  BY <1>3, <1>4
<1>6. QED
  BY <1>5 DEF s, t

\* A command of one byte, of two and of three, once its last byte is there.
Closes(o, b, cmd) ==
    \/ o.pending = <<>> /\ Arguments(b) = 0 /\ cmd = <<b>>
    \/ \E x \in Byte : o.pending = <<x>> /\ Arguments(x) = 1 /\ cmd = <<x, b>>
    \/ \E x, y \in Byte : o.pending = <<x, y>> /\ Arguments(x) = 2 /\ cmd = <<x, y, b>>

LEMMA LastByte ==
    ASSUME NEW o \in OledType, NEW b \in Byte, NEW cmd, Closes(o, b, cmd)
    PROVE  /\ Receive(o, b) = Execute(Emptied(o), cmd)
           /\ cmd[1] \in Byte /\ (cmd[1] \in {\h21, \h22} => cmd[2] \in Byte /\ cmd[3] \in Byte)
<1>1. CASE o.pending = <<>> /\ Arguments(b) = 0 /\ cmd = <<b>>
  <2>1. Append(o.pending, b) = <<b>> /\ Len(cmd) = 1 /\ cmd[1] = b
    BY <1>1
  <2>2. Len(cmd) > Arguments(cmd[1]) /\ b \notin {\h21, \h22}
    <3>1. b \in {\h21, \h22} => Arguments(b) = 2
      BY DEF Arguments
    <3>2. QED
      BY <1>1, <2>1, <3>1
  <2>3. QED
    BY <1>1, <2>1, <2>2 DEF Receive, Emptied
<1>2. ASSUME NEW x \in Byte, o.pending = <<x>>, Arguments(x) = 1, cmd = <<x, b>>
      PROVE  /\ Receive(o, b) = Execute(Emptied(o), cmd)
             /\ cmd[1] \in Byte /\ (cmd[1] \in {\h21, \h22} => cmd[2] \in Byte /\ cmd[3] \in Byte)
  <2>1. Append(o.pending, b) = cmd /\ Len(cmd) = 2 /\ cmd[1] = x
    <3>1. Append(<<x>>, b) = <<x, b>>
      BY AppendedToOne
    <3>2. QED
      BY <1>2, <3>1
  <2>2. Len(cmd) > Arguments(cmd[1]) /\ x \notin {\h21, \h22}
    <3>1. x \in {\h21, \h22} => Arguments(x) = 2
      BY DEF Arguments
    <3>2. QED
      BY <1>2, <2>1, <3>1
  <2>3. QED
    BY <1>2, <2>1, <2>2 DEF Receive, Emptied
<1>3. ASSUME NEW x \in Byte, NEW y \in Byte, o.pending = <<x, y>>, Arguments(x) = 2, cmd = <<x, y, b>>
      PROVE  /\ Receive(o, b) = Execute(Emptied(o), cmd)
             /\ cmd[1] \in Byte /\ (cmd[1] \in {\h21, \h22} => cmd[2] \in Byte /\ cmd[3] \in Byte)
  <2>1. Append(o.pending, b) = cmd /\ Len(cmd) = 3 /\ cmd[1] = x /\ cmd[2] = y /\ cmd[3] = b
    <3>1. Append(<<x, y>>, b) = <<x, y, b>>
      BY AppendedToTwo
    <3>2. QED
      BY <1>3, <3>1
  <2>2. Len(cmd) > Arguments(cmd[1])
    BY <1>3, <2>1
  <2>3. QED
    BY <1>3, <2>1, <2>2 DEF Receive, Emptied
<1>4. QED
  BY <1>1, <1>2, <1>3 DEF Closes

\* Whatever the command, the mode is touched by \h20 only.
LEMMA CommandObeyed ==
    ASSUME NEW o \in OledType, NEW b \in Byte, NEW cmd, Closes(o, b, cmd)
    PROVE  LET q == Receive(o, b)
           IN  /\ q \in OledType /\ q.pending = <<>> /\ q.gram = o.gram
               /\ cmd[1] # \h20 => q.horizontal = o.horizontal
               /\ cmd[1] = \h20 => q.horizontal = (build = "SSD1306" /\ cmd[2] = 0)
<1> DEFINE e == Emptied(o)
           q == Receive(o, b)
<1>1. /\ q = Execute(e, cmd) /\ cmd[1] \in Byte
      /\ cmd[1] \in {\h21, \h22} => cmd[2] \in Int /\ cmd[3] \in Int
  <2>1. /\ q = Execute(e, cmd) /\ cmd[1] \in Byte
        /\ cmd[1] \in {\h21, \h22} => cmd[2] \in Byte /\ cmd[3] \in Byte
    BY LastByte
  <2> HIDE DEF q, e
  <2>2. \A x \in Byte : x \in Int
    BY DEF Byte
  <2>3. QED
    BY <2>1, <2>2
<1>2. e \in OledType /\ e.pending = <<>> /\ e.gram = o.gram /\ e.horizontal = o.horizontal
  BY EmptiedIs
<1> HIDE DEF e, q
<1>3. Obeys(e, q) /\ (cmd[1] # \h20 => q.horizontal = e.horizontal)
      /\ (cmd[1] = \h20 => q.horizontal = (build = "SSD1306" /\ cmd[2] = 0))
  BY <1>1, <1>2, ExecuteObeys
<1>4. QED
  BY <1>2, <1>3 DEF Obeys, q

\* The command whose bytes are collected so far, and the one they make with the next.
LEMMA WindowSet ==
    ASSUME NEW o \in OledType, o.horizontal, NEW x \in Byte, NEW y \in Byte
    PROVE  /\ o.pending = <<\h21, x>> /\ x % Columns(build) = x /\ y % Columns(build) = y =>
                LET q == Receive(o, y)
                IN  /\ q \in OledType /\ q.pending = <<>> /\ q.gram = o.gram /\ q.horizontal
                    /\ q.c0 = x /\ q.c1 = y /\ q.col = x
           /\ o.pending = <<\h22, x>> /\ x % Pages = x /\ y % Pages = y =>
                LET q == Receive(o, y)
                IN  /\ q \in OledType /\ q.pending = <<>> /\ q.gram = o.gram /\ q.horizontal
                    /\ q.c0 = o.c0 /\ q.c1 = o.c1 /\ q.col = o.col
                    /\ q.p0 = x /\ q.p1 = y /\ q.page = x
<1> DEFINE e == Emptied(o)
           q == Receive(o, y)
<1>1. /\ e \in OledType /\ e.pending = <<>> /\ e.gram = o.gram /\ e.horizontal = o.horizontal
      /\ e.c0 = o.c0 /\ e.c1 = o.c1 /\ e.col = o.col
  BY EmptiedIs
<1>2. x \in Int /\ y \in Int
  BY DEF Byte
<1>3. \h21 \in Byte /\ \h22 \in Byte /\ Arguments(\h21) = 2 /\ Arguments(\h22) = 2
  BY DEF Byte, Arguments
<1>4. ASSUME NEW b \in {\h21, \h22}, o.pending = <<b, x>>
      PROVE  q = Execute(e, <<b, x, y>>)
  <2>1. Closes(o, y, <<b, x, y>>)
    BY <1>3, <1>4 DEF Closes
  <2>2. QED
    BY <2>1, LastByte
<1>5. ASSUME o.pending = <<\h21, x>>, x % Columns(build) = x, y % Columns(build) = y
      PROVE  q = SetColumns(e, x, y)
  <2>1. q = Execute(e, <<\h21, x, y>>)
    BY <1>4, <1>5
  <2> DEFINE cmd == <<\h21, x, y>>
  <2>2. cmd[1] = \h21 /\ cmd[2] = x /\ cmd[3] = y
    OBVIOUS
  <2> HIDE DEF e, q, cmd
  <2>3. Execute(e, cmd) = ColumnsSetTo(e, cmd)
    BY <1>1, <2>2 DEF Execute, SetColumns, ColumnsSetTo
  <2>4. QED
    BY <1>5, <2>1, <2>2, <2>3 DEF ColumnsSetTo, cmd
<1>6. ASSUME o.pending = <<\h22, x>>, x % Pages = x, y % Pages = y
      PROVE  q = SetPages(e, x, y)
  <2>1. q = Execute(e, <<\h22, x, y>>)
    BY <1>4, <1>6
  <2> DEFINE cmd == <<\h22, x, y>>
  <2>2. cmd[1] = \h22 /\ cmd[2] = x /\ cmd[3] = y
    OBVIOUS
  <2> HIDE DEF e, q, cmd
  <2>3. Execute(e, cmd) = PagesSetTo(e, cmd)
    BY <1>1, <2>2 DEF Execute, SetPages, PagesSetTo
  <2>4. QED
    BY <1>6, <2>1, <2>2, <2>3 DEF PagesSetTo, cmd
<1> HIDE DEF e, q
<1>7. ASSUME o.pending = <<\h21, x>>, x % Columns(build) = x, y % Columns(build) = y
      PROVE  /\ q \in OledType /\ q.pending = <<>> /\ q.gram = o.gram /\ q.horizontal
             /\ q.c0 = x /\ q.c1 = y /\ q.col = x
  <2>1. q = SetColumns(e, x, y)
    BY <1>5, <1>7
  <2>2. /\ Obeys(e, q)
        /\ q.horizontal = e.horizontal /\ q.c0 = x /\ q.c1 = y /\ q.col = x
    BY <1>1, <1>2, <2>1 DEF SetColumns, Obeys, OledType
  <2>3. QED
    BY <1>1, <2>2 DEF Obeys
<1>8. ASSUME o.pending = <<\h22, x>>, x % Pages = x, y % Pages = y
      PROVE  /\ q \in OledType /\ q.pending = <<>> /\ q.gram = o.gram /\ q.horizontal
             /\ q.c0 = o.c0 /\ q.c1 = o.c1 /\ q.col = o.col
             /\ q.p0 = x /\ q.p1 = y /\ q.page = x
  <2>1. q = SetPages(e, x, y)
    BY <1>6, <1>8
  <2>2. /\ Obeys(e, q)
        /\ q.horizontal = e.horizontal /\ q.c0 = e.c0 /\ q.c1 = e.c1
        /\ q.col = e.col /\ q.p0 = x /\ q.p1 = y /\ q.page = x
    BY <1>1, <1>2, <2>1 DEF SetPages, Obeys, OledType
  <2>3. QED
    BY <1>1, <2>2 DEF Obeys
<1>9. QED
  BY <1>7, <1>8 DEF q

LEMMA LowColumn ==
    ASSUME NEW o, NEW cmd, NEW b, b = cmd[1], b \in \h00 .. \h0F, ~o.horizontal
    PROVE  Execute(o, cmd) = SetCol(o, (16 * (o.col \div 16)) + b)
BY DEF Execute, SetCol

\* In page mode the page and the two halves of the column are commands of one byte.
LEMMA SingleByte ==
    ASSUME NEW o \in OledType, o.pending = <<>>, NEW b \in Byte, Arguments(b) = 0
    PROVE  Receive(o, b) = Execute(Emptied(o), <<b>>)
<1>1. Closes(o, b, <<b>>)
  BY DEF Closes
<1>2. QED
  BY <1>1, LastByte

PageCodes == \hB0 .. \hB7
HighCodes == \h10 .. \h1F
LowCodes == \h00 .. \h0F
Pointed(o, q) ==
    q \in OledType /\ q.pending = <<>> /\ q.gram = o.gram /\ q.horizontal = o.horizontal

LEMMA PageSet ==
    ASSUME NEW o \in OledType, ~o.horizontal, o.pending = <<>>, NEW b \in PageCodes,
           NEW q, q = Receive(o, b)
    PROVE  Pointed(o, q) /\ q.page = b - \hB0
<1> DEFINE e == Emptied(o)
           cmd == <<b>>
<1>1. /\ e \in OledType /\ e.pending = <<>> /\ e.gram = o.gram
      /\ e.horizontal = o.horizontal /\ e.horizontal \in BOOLEAN
  BY EmptiedIs DEF OledType
<1>2. b \in Byte /\ b \in Int /\ Arguments(b) = 0 /\ cmd[1] = b
  BY DEF Byte, Arguments, PageCodes
<1>3. q = Execute(e, cmd)
  BY <1>2, SingleByte
<1> HIDE DEF e, cmd
<1>4. q = SetPage(e, b - \hB0) /\ b - \hB0 \in Int
  BY <1>1, <1>2, <1>3, ExecuteIs DEF PageCodes
<1>5. QED
  BY <1>1, <1>4, SetPageIs DEF Obeys, Pointed

LEMMA HighSet ==
    ASSUME NEW o \in OledType, ~o.horizontal, o.pending = <<>>, NEW b \in HighCodes,
           NEW q, q = Receive(o, b)
    PROVE  Pointed(o, q) /\ q.page = o.page /\ q.col = (16 * (b - \h10)) + (o.col % 16)
<1> DEFINE e == Emptied(o)
           cmd == <<b>>
           c == (16 * (b - \h10)) + (e.col % 16)
<1>1. /\ e \in OledType /\ e.pending = <<>> /\ e.gram = o.gram /\ e.col = o.col /\ e.page = o.page
      /\ e.horizontal = o.horizontal /\ e.horizontal \in BOOLEAN /\ e.col \in Int
  BY EmptiedIs DEF OledType
<1>2. b \in Byte /\ b \in Int /\ Arguments(b) = 0 /\ cmd[1] = b
  <2>1. b \in Byte /\ b \in Int /\ \h10 <= b /\ b <= \h1F
    BY DEF Byte, HighCodes
  <2>2. QED
    BY <2>1 DEF Arguments
<1>3. q = Execute(e, cmd)
  BY <1>2, SingleByte
<1>4. c \in Int
  BY <1>1, <1>2
<1> HIDE DEF e, cmd
<1>5. q = SetCol(e, c)
  BY <1>1, <1>2, <1>3 DEF Execute, SetCol, HighCodes
<1>6. c = (16 * (b - \h10)) + (o.col % 16)
  BY <1>1
<1> HIDE DEF c
<1>7. Obeys(e, q) /\ q.horizontal = e.horizontal /\ q.col = c /\ q.page = e.page
  BY <1>1, <1>4, <1>5, SetColIs
<1>8. Pointed(o, q) /\ q.page = o.page /\ q.col = c
  BY <1>1, <1>7 DEF Obeys, Pointed
<1>9. QED
  BY <1>6, <1>8

LEMMA LowSet ==
    ASSUME NEW o \in OledType, ~o.horizontal, o.pending = <<>>, NEW b \in LowCodes,
           NEW q, q = Receive(o, b)
    PROVE  Pointed(o, q) /\ q.page = o.page /\ q.col = (16 * (o.col \div 16)) + b
<1> DEFINE e == Emptied(o)
           cmd == <<b>>
           c == (16 * (e.col \div 16)) + b
<1>1. /\ e \in OledType /\ e.pending = <<>> /\ e.gram = o.gram /\ e.col = o.col /\ e.page = o.page
      /\ e.horizontal = o.horizontal /\ e.horizontal \in BOOLEAN /\ e.col \in Int
  BY EmptiedIs DEF OledType
<1>2. b \in Byte /\ b \in Int /\ Arguments(b) = 0 /\ cmd[1] = b
  <2>1. b \in Byte /\ b \in Int /\ \h00 <= b /\ b <= \h0F
    BY DEF Byte, LowCodes
  <2>2. QED
    BY <2>1 DEF Arguments
<1>3. q = Execute(e, cmd)
  BY <1>2, SingleByte
<1>4. c \in Int
  BY <1>1, <1>2
<1> HIDE DEF e, cmd
<1>5. q = SetCol(e, c)
  BY <1>1, <1>2, <1>3, LowColumn DEF LowCodes
<1>6. c = (16 * (o.col \div 16)) + b
  BY <1>1
<1> HIDE DEF c
<1>7. Obeys(e, q) /\ q.horizontal = e.horizontal /\ q.col = c /\ q.page = e.page
  BY <1>1, <1>4, <1>5, SetColIs
<1>8. Pointed(o, q) /\ q.page = o.page /\ q.col = c
  BY <1>1, <1>7 DEF Obeys, Pointed
<1>9. QED
  BY <1>6, <1>8
-------------------------------------------------------------------------------
(***************************************************************************)
(* The transfers of each call.                                             *)
(*                                                                         *)
(* The initialisation: the places where a command with an argument begins, *)
(* and what else matters of the 25 bytes.                                  *)
(***************************************************************************)
Openers == {2, 4, 6, 9, 11, 15, 17, 19, 21}
InitShape(n, b) ==
    /\ b \in Byte
    /\ n \in Openers => Arguments(b) = 1 /\ (b = \h20 <=> n = 11)
    /\ n \notin Openers /\ n - 1 \notin Openers => Arguments(b) = 0 /\ b # \h20
    /\ n = 12 => b = 0

init_cmds == IF build = "SH1106" THEN sh1106_init_cmds ELSE ssd1306_init_cmds

LEMMA InitBytes ==
    /\ \A n \in 1 .. 25 : InitShape(n, init_cmds[n])
    /\ DOMAIN init_cmds = 1 .. 25
<1>1. ASSUME NEW n \in 1 .. 25 PROVE InitShape(n, ssd1306_init_cmds[n])
  BY SMTT(60) DEF ssd1306_init_cmds, InitShape, Openers, Arguments, Byte
<1>2. ASSUME NEW n \in 1 .. 25 PROVE InitShape(n, sh1106_init_cmds[n])
  BY SMTT(60) DEF sh1106_init_cmds, InitShape, Openers, Arguments, Byte
<1>3. DOMAIN ssd1306_init_cmds = 1 .. 25 /\ DOMAIN sh1106_init_cmds = 1 .. 25
  BY DEF ssd1306_init_cmds, sh1106_init_cmds
<1>4. QED
  BY <1>1, <1>2, <1>3 DEF init_cmds

LEMMA InitTransfers ==
    ASSUME call = "init"
    PROVE  /\ Len(Transfers) = 25
           /\ \A n \in 1 .. 25 : Transfers[n] = Cmd(<<init_cmds[n]>>)
<1>1. Transfers = Singles(init_cmds)
  <2>1. Transfers = IF build = "SH1106" THEN driver_sh1106_init ELSE driver_ssd1306_init
    BY DEF Transfers
  <2>2. QED
    BY <2>1 DEF init_cmds, driver_sh1106_init, driver_ssd1306_init
<1> DEFINE s == init_cmds
<1>2. DOMAIN s = 1 .. 25
  BY InitBytes
<1> HIDE DEF s
<1>3. Singles(s) = [n \in 1 .. 25 |-> Cmd(<<s[n]>>)]
  BY <1>2 DEF Singles
<1>4. Len(Singles(s)) = 25 /\ \A n \in 1 .. 25 : Singles(s)[n] = Cmd(<<s[n]>>)
  <2> DEFINE c(n) == Cmd(<<s[n]>>)
  <2> HIDE DEF c
  <2>1. Singles(s) = [n \in 1 .. 25 |-> c(n)]
    BY <1>3 DEF c
  <2>2. Len(Singles(s)) = 25 /\ \A n \in 1 .. 25 : Singles(s)[n] = c(n)
    BY <2>1
  <2>3. QED
    BY <2>2 DEF c
<1>5. QED
  BY <1>1, <1>4 DEF s

LEMMA PowerTransfers ==
    ASSUME NEW on \in BOOLEAN, call = IF on THEN "on" ELSE "off"
    PROVE  Len(Transfers) = 1 /\ Transfers[1] = Cmd(<<IF on THEN \hAF ELSE \hAE>>)
<1>1. CASE on
  <2>1. Transfers = <<Cmd(<<\hAF>>)>>
    BY <1>1 DEF Transfers
  <2>2. QED
    BY <1>1, <2>1
<1>2. CASE ~on
  <2>1. Transfers = <<Cmd(<<\hAE>>)>>
    BY <1>2 DEF Transfers
  <2>2. QED
    BY <1>2, <2>1
<1>3. QED
  BY <1>1, <1>2

RectOK(r) ==
    /\ r \in [x0 : Int, p0 : Int, x1 : Int, p1 : Int]
    /\ 0 <= r.x0 /\ r.x0 <= r.x1 /\ r.x1 < Width
    /\ 0 <= r.p0 /\ r.p0 <= r.p1 /\ r.p1 < Pages

\* The flush of the SSD1306: the windows, then the rows.
LEMMA SsdTransfers ==
    ASSUME call = "flush", chip = "SSD1306", RectOK(rect)
    PROVE  /\ Len(Transfers) = PagesOf(rect) + 2
           /\ Transfers[1] = ColumnWindow(rect) /\ Transfers[2] = PageWindow(rect)
           /\ \A k \in 0 .. PagesOf(rect) - 1 : Transfers[k + 3] = Row(rect, rect.p0 + k)
<1> DEFINE n == PagesOf(rect) + 2
           c(i) == CASE i = 1 -> ColumnWindow(rect)
                     [] i = 2 -> PageWindow(rect)
                     [] OTHER -> Row(rect, rect.p0 + i - 3)
<1>1. n \in Nat /\ n >= 3 /\ rect.p0 \in Int /\ PagesOf(rect) \in Int
  BY DEF RectOK, PagesOf
<1>2. Transfers = [i \in 1 .. n |-> c(i)]
  BY DEF Transfers, driver_ssd1306_flush_rect
<1>3. c(1) = ColumnWindow(rect) /\ c(2) = PageWindow(rect)
  OBVIOUS
<1>4. ASSUME NEW k \in 0 .. PagesOf(rect) - 1 PROVE c(k + 3) = Row(rect, rect.p0 + k)
  <2>1. k + 3 # 1 /\ k + 3 # 2 /\ rect.p0 + (k + 3) - 3 = rect.p0 + k
    BY <1>1
  <2>2. QED
    BY <2>1
<1>5. \A k \in 0 .. PagesOf(rect) - 1 : k + 3 \in 1 .. n
  BY <1>1
<1> HIDE DEF c, n
<1>6. Len(Transfers) = n /\ \A i \in 1 .. n : Transfers[i] = c(i)
  BY <1>1, <1>2
<1>7. QED
  BY <1>1, <1>3, <1>4, <1>5, <1>6 DEF n

\* The flush of the SH1106: each row after its header.
LEMMA ShTransfers ==
    ASSUME call = "flush", chip = "SH1106", RectOK(rect)
    PROVE  /\ Len(Transfers) = 2 * PagesOf(rect)
           /\ \A k \in 0 .. PagesOf(rect) - 1 :
                 /\ Transfers[2 * k + 1] = PageHeader(rect, rect.p0 + k)
                 /\ Transfers[2 * k + 2] = Row(rect, rect.p0 + k)
<1> DEFINE n == 2 * PagesOf(rect)
           c(i) == IF i % 2 = 1 THEN PageHeader(rect, rect.p0 + i \div 2)
                                ELSE Row(rect, rect.p0 + i \div 2 - 1)
<1>1. n \in Nat /\ rect.p0 \in Int /\ PagesOf(rect) \in Nat
  BY DEF RectOK, PagesOf
<1>2. Transfers = [i \in 1 .. n |-> c(i)]
  BY DEF Transfers, driver_sh1106_flush_rect
<1>4. ASSUME NEW k \in 0 .. PagesOf(rect) - 1
      PROVE  /\ c(2 * k + 1) = PageHeader(rect, rect.p0 + k)
             /\ c(2 * k + 2) = Row(rect, rect.p0 + k)
             /\ 2 * k + 1 \in 1 .. n /\ 2 * k + 2 \in 1 .. n
  <2>1. /\ (2 * k + 1) % 2 = 1 /\ (2 * k + 1) \div 2 = k
        /\ (2 * k + 2) % 2 = 0 /\ (2 * k + 2) \div 2 = k + 1
    OBVIOUS
  <2>2. rect.p0 + (k + 1) - 1 = rect.p0 + k
    BY <1>1
  <2>3. 2 * k + 1 \in 1 .. n /\ 2 * k + 2 \in 1 .. n
    BY <1>1
  <2>4. QED
    BY <2>1, <2>2, <2>3
<1> HIDE DEF c, n
<1>5. Len(Transfers) = n /\ \A i \in 1 .. n : Transfers[i] = c(i)
  BY <1>1, <1>2
<1>6. QED
  BY <1>4, <1>5 DEF n

\* The bytes of a row are those of the framebuffer.
LEMMA RowIs ==
    ASSUME RectOK(rect), NEW p
    PROVE  /\ Row(rect, p).data /\ Len(Row(rect, p).bytes) = rect.x1 - rect.x0 + 1
           /\ \A a \in 0 .. rect.x1 - rect.x0 :
                 Row(rect, p).bytes[a + 1] = fb[<<p, rect.x0 + a>>]
<1> DEFINE w == rect.x1 - rect.x0 + 1
           c(i) == fb[<<p, rect.x0 + i - 1>>]
<1>1. w \in Nat /\ rect.x0 \in Int /\ rect.x1 \in Int
  BY DEF RectOK
<1>2. Row(rect, p) = [data |-> TRUE, bytes |-> [i \in 1 .. w |-> c(i)]]
  BY DEF Row, Data
<1>3. ASSUME NEW a \in 0 .. rect.x1 - rect.x0 PROVE a + 1 \in 1 .. w /\ c(a + 1) = fb[<<p, rect.x0 + a>>]
  <2>1. a + 1 \in 1 .. w /\ rect.x0 + (a + 1) - 1 = rect.x0 + a
    BY <1>1
  <2>2. QED
    BY <2>1
<1> HIDE DEF c
<1> DEFINE s == [i \in 1 .. w |-> c(i)]
<1>4. Len(s) = w /\ \A i \in 1 .. w : s[i] = c(i)
  <2> HIDE DEF w
  <2>1. QED
    BY <1>1
<1> HIDE DEF s
<1>5. Row(rect, p).data /\ Row(rect, p).bytes = s
  BY <1>2 DEF s
<1>6. QED
  BY <1>3, <1>4, <1>5

-------------------------------------------------------------------------------
(***************************************************************************)
(* The inductive invariant: where the controller is at every byte of every *)
(* call.                                                                   *)
(***************************************************************************)
Known == chip # "UNKNOWN"
Rows == PagesOf(rect)
RowLength == rect.x1 - rect.x0 + 1

StateType ==
    /\ build \in {"SSD1306", "SH1106"} /\ chip \in {"UNKNOWN", build}
    /\ fb \in [Cells -> Byte] /\ oled \in OledType
    /\ call \in {"none", "init", "flush", "on", "off"}
    /\ result \in {"none", "true", "false"}
    /\ Running => call # "none"
    /\ sent \in Nat /\ at \in Nat

\* Between calls: a known chip waits for a command in the mode of its driver; an
\* initialisation that failed may have left a command that lacks one argument,
\* for which the first byte of the next one is taken.
Ready(o) == o.pending = <<>> /\ o.horizontal = (build = "SSD1306")
Tame(o) == o.pending = <<>> \/ \E b \in Byte : o.pending = <<b>> /\ Arguments(b) = 1
Settled(o) == IF Known THEN Ready(o) ELSE Tame(o)

\* After n bytes of an initialisation.
InitAt(o, n) ==
    /\ n \in 0 .. 25
    /\ n = 0 => Tame(o)
    /\ n > 0 => o.pending = IF n \in Openers THEN <<init_cmds[n]>> ELSE <<>>
    /\ n >= 12 => o.horizontal = (build = "SSD1306")

\* The glass shows the rectangle's first k rows and a bytes of the next.
Shown(o, k, a) ==
    \A c \in Cells :
        /\ InRect(rect, c)
        /\ c[1] < rect.p0 + k \/ (c[1] = rect.p0 + k /\ c[2] < rect.x0 + a)
        => o.gram[<<c[1], Left + c[2]>>] = fb[c]

ColumnsSet(o) == o.c0 = rect.x0 /\ o.c1 = rect.x1 /\ o.col = rect.x0
PagesSet(o) == o.c0 = rect.x0 /\ o.c1 = rect.x1 /\ o.p0 = rect.p0 /\ o.p1 = rect.p1

\* The first a bytes of a command of three have arrived.
Begun(o, a, c, x) ==
    /\ a \in 0 .. 2
    /\ a = 0 => o.pending = <<>>
    /\ a = 1 => o.pending = <<c>>
    /\ a = 2 => o.pending = <<c, x>>

\* After n transfers of an SSD1306 flush and a bytes of the next.
SsdRowAt(o, k, a) ==
    /\ o.pending = <<>> /\ PagesSet(o) /\ Shown(o, k, a)
    /\ k < Rows => /\ a \in 0 .. RowLength - 1
                   /\ o.page = rect.p0 + k /\ o.col = rect.x0 + a
    /\ k = Rows => a = 0
SsdAt(o, n, a) ==
    /\ o.horizontal
    /\ \/ n = 0 /\ Begun(o, a, \h21, rect.x0)
       \/ n = 1 /\ Begun(o, a, \h22, rect.p0) /\ ColumnsSet(o)
       \/ \E k \in 0 .. Rows : n = k + 2 /\ SsdRowAt(o, k, a)

\* The same for the SH1106: in a header, or in a row.
HeaderAt(o, k, a) ==
    /\ Shown(o, k, 0)
    /\ k < Rows => a \in 0 .. 2
    /\ k = Rows => a = 0
    /\ a >= 1 => o.page = rect.p0 + k
    /\ a = 2 => o.col \div 16 = (rect.x0 + 2) \div 16
ShRowAt(o, k, a) ==
    /\ Shown(o, k, a) /\ a \in 0 .. RowLength - 1
    /\ o.page = rect.p0 + k /\ o.col = (rect.x0 + 2) + a
ShAt(o, n, a) ==
    /\ ~o.horizontal /\ o.pending = <<>>
    /\ \/ \E k \in 0 .. Rows : n = 2 * k /\ HeaderAt(o, k, a)
       \/ \E k \in 0 .. Rows - 1 : n = 2 * k + 1 /\ ShRowAt(o, k, a)

FlushAt(o, n, a) == IF build = "SSD1306" THEN SsdAt(o, n, a) ELSE ShAt(o, n, a)

Resting == ~Running => sent = 0 /\ at = 0 /\ Settled(oled)
Initializing == Running /\ call = "init" => ~Known /\ at = 0 /\ InitAt(oled, sent)
Powering == Running /\ call \in {"on", "off"} => at = 0 /\ sent \in {0, 1} /\ Settled(oled)
Flushing == Running /\ call = "flush" => Known /\ RectOK(rect) /\ FlushAt(oled, sent, at)

\* The glass shows what the last flush was to bring there.
FlushShown ==
    call = "flush" /\ result = "true" =>
        \A c \in Cells : InRect(rect, c) => Visible(c) = fb[c]

Sound ==
    StateType /\ Resting /\ Initializing /\ Powering /\ Flushing /\ FlushShown

-------------------------------------------------------------------------------
(***************************************************************************)
(* One byte of a flush.                                                    *)
(***************************************************************************)
LEMMA CellIs ==
    ASSUME NEW c \in Cells
    PROVE  c[1] \in 0 .. Pages - 1 /\ c[2] \in 0 .. Width - 1 /\ c = <<c[1], c[2]>>
BY DEF Cells

Place(c) == <<c[1], Left + c[2]>>

LEMMA PlaceIs ==
    ASSUME NEW c \in Cells
    PROVE  Place(c) \in Memory /\ Left \in Int /\ Left >= 0
<1>1. c[1] \in 0 .. Pages - 1 /\ c[2] \in 0 .. Width - 1
  BY CellIs
<1>2. CASE build = "SH1106"
  <2>1. Left = 2 /\ Columns(build) = Width + 4
    BY <1>2 DEF Left, Columns
  <2>2. Left + c[2] \in 0 .. Columns(build) - 1
    BY <1>1, <2>1, Sizes
  <2>3. QED
    BY <1>1, <2>1, <2>2 DEF Place, Memory
<1>3. CASE build # "SH1106"
  <2>1. Left = 0 /\ Columns(build) = Width
    BY <1>3 DEF Left, Columns
  <2>2. Left + c[2] \in 0 .. Columns(build) - 1
    BY <1>1, <2>1, Sizes
  <2>3. QED
    BY <1>1, <2>1, <2>2 DEF Place, Memory
<1>4. QED
  BY <1>2, <1>3

\* What a data byte at the right place does to the picture.
LEMMA StoreShows ==
    ASSUME NEW o, NEW q, NEW k \in Int, NEW a \in Int, RectOK(rect),
           0 <= k, k < Rows, 0 <= a, a < RowLength,
           o.page = rect.p0 + k, o.col = Left + (rect.x0 + a), Shown(o, k, a),
           StoresIn(o, q, fb[<<rect.p0 + k, rect.x0 + a>>])
    PROVE  /\ a + 1 < RowLength => Shown(q, k, a + 1)
           /\ a + 1 = RowLength => Shown(q, k + 1, 0)
           /\ \A c \in Cells : q.gram[Place(c)] # o.gram[Place(c)] => InRect(rect, c)
<1> DEFINE y == rect.p0 + k
           x == rect.x0 + a
<1>1. /\ rect.x0 \in Int /\ rect.x1 \in Int /\ rect.p0 \in Int /\ rect.p1 \in Int
      /\ 0 <= rect.x0 /\ x <= rect.x1 /\ rect.p0 <= y /\ y <= rect.p1 /\ rect.x0 <= x
      /\ x \in Int /\ y \in Int
      /\ RowLength = rect.x1 - rect.x0 + 1
  BY DEF RectOK, Rows, PagesOf, RowLength
<1>2. ASSUME NEW c \in Cells
      PROVE  /\ c = <<y, x>> => q.gram[Place(c)] = fb[c]
             /\ c # <<y, x>> => q.gram[Place(c)] = o.gram[Place(c)]
             /\ c = <<y, x>> <=> c[1] = y /\ c[2] = x
             /\ c[1] \in Int /\ c[2] \in Int
  <2>1. c[1] \in Int /\ c[2] \in Int /\ c = <<c[1], c[2]>>
    BY CellIs
  <2>2. Place(c) \in Memory /\ Left \in Int
    BY PlaceIs
  <2> HIDE DEF x, y
  <2>3. q.gram[Place(c)] = IF Place(c) = <<o.page, o.col>> THEN fb[<<y, x>>] ELSE o.gram[Place(c)]
    BY <2>2 DEF StoresIn, x, y
  <2>4. Place(c) = <<o.page, o.col>> <=> c[1] = y /\ Left + c[2] = Left + x
    BY DEF Place, x, y
  <2>5. Left + c[2] = Left + x <=> c[2] = x
    BY <1>1, <2>1, <2>2
  <2>6. c = <<y, x>> <=> c[1] = y /\ c[2] = x
    BY <2>1
  <2>7. QED
    BY <2>1, <2>3, <2>4, <2>5, <2>6
<1>3. ASSUME NEW c \in Cells, InRect(rect, c),
             c[1] < rect.p0 + k \/ (c[1] = rect.p0 + k /\ c[2] < rect.x0 + (a + 1))
      PROVE  q.gram[Place(c)] = fb[c]
  <2>1. c = <<y, x>> \/ (c[1] < rect.p0 + k \/ (c[1] = rect.p0 + k /\ c[2] < rect.x0 + a))
    BY <1>1, <1>2, <1>3
  <2>2. CASE c = <<y, x>>
    BY <1>2, <2>2
  <2>3. CASE c # <<y, x>>
    <3>1. o.gram[Place(c)] = fb[c]
      BY <1>3, <2>1, <2>3 DEF Shown, Place
    <3>2. QED
      BY <1>2, <2>3, <3>1
  <2>4. QED
    BY <2>2, <2>3
<1>4. Shown(q, k, a + 1)
  BY <1>3 DEF Shown, Place
<1>5. ASSUME a + 1 = RowLength PROVE Shown(q, k + 1, 0)
  <2>1. ASSUME NEW c \in Cells, InRect(rect, c),
               c[1] < rect.p0 + (k + 1) \/ (c[1] = rect.p0 + (k + 1) /\ c[2] < rect.x0 + 0)
        PROVE  c[1] < rect.p0 + k \/ (c[1] = rect.p0 + k /\ c[2] < rect.x0 + (a + 1))
    BY <1>1, <1>2, <1>5, <2>1 DEF InRect
  <2>2. QED
    BY <1>3, <2>1 DEF Shown, Place
<1>6. ASSUME NEW c \in Cells, q.gram[Place(c)] # o.gram[Place(c)] PROVE InRect(rect, c)
  <2>1. c[1] = y /\ c[2] = x
    BY <1>2, <1>6
  <2>2. QED
    BY <1>1, <2>1 DEF InRect
<1>7. QED
  BY <1>4, <1>5, <1>6

\* A byte goes out: the controller, and the place in the transfers, before and after.
Sends(o, q, n, a, m, d) ==
    LET t == Transfers[n + 1]
        b == t.bytes[a + 1]
    IN  /\ q = IF t.data THEN Store(o, b) ELSE Receive(o, b)
        /\ IF a + 1 = Len(t.bytes) THEN m = n + 1 /\ d = 0 ELSE m = n /\ d = a + 1
InPlace(o, q) == \A c \in Cells : q.gram[Place(c)] # o.gram[Place(c)] => InRect(rect, c)

LEMMA SendsCommand ==
    ASSUME NEW o, NEW q, NEW n, NEW a, NEW m, NEW d, Sends(o, q, n, a, m, d), NEW bytes,
           Transfers[n + 1] = Cmd(bytes)
    PROVE  /\ q = Receive(o, bytes[a + 1])
           /\ IF a + 1 = Len(bytes) THEN m = n + 1 /\ d = 0 ELSE m = n /\ d = a + 1
<1>1. ~Transfers[n + 1].data /\ Transfers[n + 1].bytes = bytes
  BY DEF Cmd
<1>2. QED
  BY <1>1 DEF Sends

\* The first two bytes of a command of three.
Keeps(o, q) ==
    /\ q \in OledType /\ q.gram = o.gram /\ q.horizontal = o.horizontal
    /\ q.c0 = o.c0 /\ q.c1 = o.c1 /\ q.p0 = o.p0 /\ q.p1 = o.p1
    /\ q.col = o.col /\ q.page = o.page

LEMMA FirstByte ==
    ASSUME NEW o \in OledType, NEW c \in {\h21, \h22}, NEW x, Begun(o, 0, c, x)
    PROVE  Keeps(o, Receive(o, c)) /\ Begun(Receive(o, c), 1, c, x)
<1> DEFINE q == Receive(o, c)
<1>1. c \in Byte /\ Arguments(c) = 2
  BY DEF Byte, Arguments
<1>2. o.pending = <<>>
  BY DEF Begun
<1>3. q = Receive(o, c)
  OBVIOUS
<1> HIDE DEF q
<1>4. Keeps(o, q) /\ q.pending = Append(<<>>, c)
  BY <1>1, <1>2, <1>3, Collects DEF Keeps
<1>5. Append(<<>>, c) = <<c>>
  OBVIOUS
<1>6. Keeps(o, q) /\ Begun(q, 1, c, x)
  BY <1>4, <1>5 DEF Begun
<1>7. QED
  BY <1>6 DEF q

LEMMA SecondByte ==
    ASSUME NEW o \in OledType, NEW c \in {\h21, \h22}, NEW x \in Byte, Begun(o, 1, c, x)
    PROVE  Keeps(o, Receive(o, x)) /\ Begun(Receive(o, x), 2, c, x)
<1> DEFINE q == Receive(o, x)
<1>1. c \in Byte /\ Arguments(c) = 2
  BY DEF Byte, Arguments
<1>2. o.pending = <<c>>
  BY DEF Begun
<1>3. Append(<<c>>, x) = <<c, x>>
  BY <1>1, AppendedToOne
<1>4. Append(o.pending, x) = <<c, x>>
  BY <1>2, <1>3
<1>5. q = Receive(o, x)
  OBVIOUS
<1> HIDE DEF q
<1>6. Keeps(o, q) /\ q.pending = Append(o.pending, x)
  BY <1>1, <1>2, <1>5, Collects DEF Keeps
<1>7. QED
  BY <1>4, <1>6 DEF Begun, q

LEMMA RectBytes ==
    ASSUME RectOK(rect)
    PROVE  /\ rect.x0 \in Byte /\ rect.x1 \in Byte /\ rect.p0 \in Byte /\ rect.p1 \in Byte
           /\ rect.x0 % 128 = rect.x0 /\ rect.x1 % 128 = rect.x1
           /\ rect.p0 % 8 = rect.p0 /\ rect.p1 % 8 = rect.p1
           /\ rect.x0 % Columns(build) = rect.x0 /\ rect.x1 % Columns(build) = rect.x1
           /\ rect.p0 % Pages = rect.p0 /\ rect.p1 % Pages = rect.p1
           /\ Rows \in Int /\ Rows >= 1 /\ RowLength \in Int /\ RowLength >= 1
           /\ \A k \in 0 .. Rows - 1 : rect.p0 + k \in 0 .. Pages - 1
           /\ \A a \in 0 .. RowLength - 1 : rect.x0 + a \in 0 .. Width - 1
<1> DEFINE x0 == rect.x0
           x1 == rect.x1
           p0 == rect.p0
           p1 == rect.p1
<1>1. /\ x0 \in Int /\ x1 \in Int /\ 0 <= x0 /\ x0 <= x1 /\ x1 < Width
      /\ p0 \in Int /\ p1 \in Int /\ 0 <= p0 /\ p0 <= p1 /\ p1 < Pages
      /\ Rows = p1 - p0 + 1 /\ RowLength = x1 - x0 + 1
  BY DEF RectOK, Rows, PagesOf, RowLength
<1> HIDE DEF x0, x1, p0, p1
<1>2. x0 <= 127 /\ x1 <= 127 /\ p0 <= 7 /\ p1 <= 7 /\ x1 >= 0 /\ p1 >= 0
  BY <1>1, Sizes
<1>3. x0 \in Byte /\ x1 \in Byte /\ p0 \in Byte /\ p1 \in Byte
  BY <1>1, <1>2 DEF Byte
<1>4. x0 % 128 = x0 /\ x1 % 128 = x1
  BY <1>1, <1>2
<1>5. p0 % 8 = p0 /\ p1 % 8 = p1
  BY <1>1, <1>2
<1>10. p0 % Pages = p0 /\ p1 % Pages = p1
  <2>1. \A n \in Int, z \in Int : 0 <= n /\ n < z => n % z = n
    OBVIOUS
  <2>2. QED
    BY <1>1, <1>2, <2>1, Sizes
<1>11. x0 % Columns(build) = x0 /\ x1 % Columns(build) = x1
  <2>1. \A n \in Int, z \in Int : 0 <= n /\ n < z => n % z = n
    OBVIOUS
  <2>2. Columns(build) \in Int /\ Width <= Columns(build)
    BY Sizes DEF Columns
  <2>3. QED
    BY <1>1, <1>2, <2>1, <2>2, Sizes
<1>6. Rows \in Int /\ Rows >= 1 /\ RowLength \in Int /\ RowLength >= 1
  BY <1>1
<1>7. ASSUME NEW k \in 0 .. Rows - 1 PROVE p0 + k \in 0 .. Pages - 1
  BY <1>1, Sizes
<1>8. ASSUME NEW a \in 0 .. RowLength - 1 PROVE x0 + a \in 0 .. Width - 1
  BY <1>1, Sizes
<1>9. QED
  BY <1>3, <1>4, <1>5, <1>6, <1>7, <1>8, <1>10, <1>11 DEF x0, x1, p0, p1

\* The transfer of a command of three bytes, byte by byte.
IsCommand(n, b, x, y) == Transfers[n + 1] = Cmd(<<b, x, y>>)

Three == 0 .. 2
IsSent(o, q, n, a, m, d, b, x, y) ==
    /\ a = 0 => q = Receive(o, b) /\ m = n /\ d = 1
    /\ a = 1 => q = Receive(o, x) /\ m = n /\ d = 2
    /\ a = 2 => q = Receive(o, y) /\ m = n + 1 /\ d = 0

LEMMA CommandSent ==
    ASSUME NEW o, NEW q, NEW n, NEW a \in Three, NEW m, NEW d, Sends(o, q, n, a, m, d),
           NEW b, NEW x, NEW y, IsCommand(n, b, x, y)
    PROVE  IsSent(o, q, n, a, m, d, b, x, y)
<1> DEFINE w == <<b, x, y>>
<1>1. Len(w) = 3 /\ w[1] = b /\ w[2] = x /\ w[3] = y
  OBVIOUS
<1>2. Transfers[n + 1] = Cmd(w)
  BY DEF IsCommand
<1> HIDE DEF w
<1>3. q = Receive(o, w[a + 1]) /\ IF a + 1 = Len(w) THEN m = n + 1 /\ d = 0 ELSE m = n /\ d = a + 1
  BY <1>2, SendsCommand
<1>4. ASSUME a = 0 PROVE q = Receive(o, b) /\ m = n /\ d = 1
  BY <1>1, <1>3, <1>4
<1>5. ASSUME a = 1 PROVE q = Receive(o, x) /\ m = n /\ d = 2
  BY <1>1, <1>3, <1>5
<1>6. ASSUME a = 2 PROVE q = Receive(o, y) /\ m = n + 1 /\ d = 0
  BY <1>1, <1>3, <1>6
<1>7. QED
  BY <1>4, <1>5, <1>6 DEF IsSent, Three

\* The column window, then the page window.
LEMMA ColumnByte ==
    ASSUME NEW o \in OledType, NEW q, NEW a, NEW m, NEW d, Sends(o, q, 0, a, m, d),
           call = "flush", chip = "SSD1306", RectOK(rect), o.horizontal,
           Begun(o, a, \h21, rect.x0)
    PROVE  q \in OledType /\ q.gram = o.gram /\ SsdAt(q, m, d)
<1>1. Transfers[0 + 1] = Cmd(<<\h21, rect.x0, rect.x1>>)
  <2>1. Transfers[0 + 1] = Transfers[1]
    OBVIOUS
  <2>2. Transfers[1] = ColumnWindow(rect)
    BY SsdTransfers
  <2>3. ColumnWindow(rect) = Cmd(<<\h21, rect.x0, rect.x1>>)
    BY RectBytes DEF ColumnWindow
  <2>4. QED
    BY <2>1, <2>2, <2>3
<1>2. a \in 0 .. 2 /\ a \in Three
  BY DEF Begun, Three
<1>3. /\ a = 0 => q = Receive(o, \h21) /\ m = 0 /\ d = 1
      /\ a = 1 => q = Receive(o, rect.x0) /\ m = 0 /\ d = 2
      /\ a = 2 => q = Receive(o, rect.x1) /\ m = 0 + 1 /\ d = 0
  <2>1. IsCommand(0, \h21, rect.x0, rect.x1)
    BY <1>1 DEF IsCommand
  <2>2. IsSent(o, q, 0, a, m, d, \h21, rect.x0, rect.x1)
    BY <1>2, <2>1, CommandSent
  <2>3. QED
    BY <2>2 DEF IsSent
<1>4. CASE a = 0
  <2>1. Keeps(o, q) /\ Begun(q, 1, \h21, rect.x0)
    BY <1>3, <1>4, FirstByte
  <2>2. QED
    BY <1>3, <1>4, <2>1 DEF SsdAt, Keeps
<1>5. CASE a = 1
  <2>1. Keeps(o, q) /\ Begun(q, 2, \h21, rect.x0)
    BY <1>3, <1>5, SecondByte, RectBytes
  <2>2. QED
    BY <1>3, <1>5, <2>1 DEF SsdAt, Keeps
<1>6. CASE a = 2
  <2>1. o.pending = <<\h21, rect.x0>>
    BY <1>6 DEF Begun
  <2>2. /\ q \in OledType /\ q.gram = o.gram /\ q.horizontal /\ q.pending = <<>>
        /\ q.c0 = rect.x0 /\ q.c1 = rect.x1 /\ q.col = rect.x0
    BY <1>3, <1>6, <2>1, RectBytes, WindowSet
  <2>3. m = 1 /\ Begun(q, d, \h22, rect.p0) /\ ColumnsSet(q)
    BY <1>3, <1>6, <2>2 DEF Begun, ColumnsSet
  <2>4. QED
    BY <2>2, <2>3 DEF SsdAt
<1>7. QED
  BY <1>2, <1>4, <1>5, <1>6

LEMMA NothingShown == ASSUME NEW o, RectOK(rect) PROVE Shown(o, 0, 0)
<1>1. ASSUME NEW c \in Cells, InRect(rect, c)
      PROVE  ~(c[1] < rect.p0 + 0 \/ (c[1] = rect.p0 + 0 /\ c[2] < rect.x0 + 0))
  BY <1>1, CellIs DEF InRect, RectOK
<1>2. QED
  BY <1>1 DEF Shown

LEMMA PageByte ==
    ASSUME NEW o \in OledType, NEW q, NEW a, NEW m, NEW d, Sends(o, q, 1, a, m, d),
           call = "flush", chip = "SSD1306", RectOK(rect), o.horizontal,
           Begun(o, a, \h22, rect.p0), ColumnsSet(o)
    PROVE  q \in OledType /\ q.gram = o.gram /\ SsdAt(q, m, d)
<1>1. Transfers[1 + 1] = Cmd(<<\h22, rect.p0, rect.p1>>)
  <2>1. Transfers[1 + 1] = Transfers[2]
    OBVIOUS
  <2>2. Transfers[2] = PageWindow(rect)
    BY SsdTransfers
  <2>3. PageWindow(rect) = Cmd(<<\h22, rect.p0, rect.p1>>)
    BY RectBytes DEF PageWindow
  <2>4. QED
    BY <2>1, <2>2, <2>3
<1>2. a \in 0 .. 2 /\ a \in Three
  BY DEF Begun, Three
<1>3. /\ a = 0 => q = Receive(o, \h22) /\ m = 1 /\ d = 1
      /\ a = 1 => q = Receive(o, rect.p0) /\ m = 1 /\ d = 2
      /\ a = 2 => q = Receive(o, rect.p1) /\ m = 1 + 1 /\ d = 0
  <2>1. IsCommand(1, \h22, rect.p0, rect.p1)
    BY <1>1 DEF IsCommand
  <2>2. IsSent(o, q, 1, a, m, d, \h22, rect.p0, rect.p1)
    BY <1>2, <2>1, CommandSent
  <2>3. QED
    BY <2>2 DEF IsSent
<1>4. CASE a = 0
  <2>1. Keeps(o, q) /\ Begun(q, 1, \h22, rect.p0)
    BY <1>3, <1>4, FirstByte
  <2>2. QED
    BY <1>3, <1>4, <2>1 DEF SsdAt, Keeps, ColumnsSet
<1>5. CASE a = 1
  <2>1. Keeps(o, q) /\ Begun(q, 2, \h22, rect.p0)
    BY <1>3, <1>5, SecondByte, RectBytes
  <2>2. QED
    BY <1>3, <1>5, <2>1 DEF SsdAt, Keeps, ColumnsSet
<1>6. CASE a = 2
  <2>1. o.pending = <<\h22, rect.p0>>
    BY <1>6 DEF Begun
  <2>2. /\ q \in OledType /\ q.gram = o.gram /\ q.horizontal /\ q.pending = <<>>
        /\ q.c0 = o.c0 /\ q.c1 = o.c1 /\ q.col = o.col
        /\ q.p0 = rect.p0 /\ q.p1 = rect.p1 /\ q.page = rect.p0
    BY <1>3, <1>6, <2>1, RectBytes, WindowSet
  <2>3. PagesSet(q) /\ q.col = rect.x0
    BY <2>2 DEF PagesSet, ColumnsSet
  <2>4. SsdRowAt(q, 0, 0)
    <3>1. rect.p0 + 0 = rect.p0 /\ rect.x0 + 0 = rect.x0 /\ 0 \in 0 .. RowLength - 1
      BY RectBytes DEF RectOK
    <3>2. QED
      BY <2>2, <2>3, <3>1, NothingShown DEF SsdRowAt
  <2>5. 0 \in 0 .. Rows /\ m = 0 + 2 /\ d = 0
    BY <1>3, <1>6, RectBytes
  <2>6. QED
    BY <2>2, <2>4, <2>5 DEF SsdAt
<1>7. QED
  BY <1>2, <1>4, <1>5, <1>6

\* A byte of a row.
LEMMA RowByte ==
    ASSUME NEW o, NEW q, NEW n, NEW a \in Int, NEW m, NEW d, Sends(o, q, n, a, m, d),
           StateType, RectOK(rect), NEW k \in Int, 0 <= k, k < Rows, 0 <= a, a < RowLength,
           Transfers[n + 1] = Row(rect, rect.p0 + k)
    PROVE  /\ fb[<<rect.p0 + k, rect.x0 + a>>] \in Byte
           /\ q = Store(o, fb[<<rect.p0 + k, rect.x0 + a>>])
           /\ a + 1 < RowLength => m = n /\ d = a + 1
           /\ a + 1 = RowLength => m = n + 1 /\ d = 0
<1> DEFINE t == Transfers[n + 1]
           v == fb[<<rect.p0 + k, rect.x0 + a>>]
<1>1. k \in 0 .. Rows - 1 /\ a \in 0 .. RowLength - 1 /\ RowLength \in Int
  BY RectBytes
<1>2. rect.p0 + k \in 0 .. Pages - 1 /\ rect.x0 + a \in 0 .. Width - 1
  BY <1>1, RectBytes
<1>3. v \in Byte
  BY <1>2 DEF StateType, Cells
<1>4. a \in 0 .. rect.x1 - rect.x0
  BY <1>1 DEF RowLength, RectOK
<1>5. t.data /\ Len(t.bytes) = RowLength /\ t.bytes[a + 1] = v
  BY <1>4, RowIs DEF RowLength
<1> HIDE DEF t, v
<1>6. /\ q = IF t.data THEN Store(o, t.bytes[a + 1]) ELSE Receive(o, t.bytes[a + 1])
      /\ IF a + 1 = Len(t.bytes) THEN m = n + 1 /\ d = 0 ELSE m = n /\ d = a + 1
  BY DEF Sends, t
<1>7. /\ q = Store(o, v)
      /\ IF a + 1 = RowLength THEN m = n + 1 /\ d = 0 ELSE m = n /\ d = a + 1
  BY <1>5, <1>6
<1>8. QED
  BY <1>1, <1>3, <1>7 DEF v

\* The SSD1306's pointer runs through the window.
LEMMA SsdRowByte ==
    ASSUME NEW o \in OledType, NEW q, NEW n, NEW a, NEW m, NEW d, Sends(o, q, n, a, m, d),
           StateType, call = "flush", chip = "SSD1306", RectOK(rect), o.horizontal,
           NEW k \in 0 .. Rows, n = k + 2, n < Len(Transfers), SsdRowAt(o, k, a)
    PROVE  q \in OledType /\ InPlace(o, q) /\ SsdAt(q, m, d)
<1> DEFINE v == fb[<<rect.p0 + k, rect.x0 + a>>]
<1>1. /\ k \in Int /\ 0 <= k /\ k < Rows /\ k \in 0 .. PagesOf(rect) - 1 /\ n \in Int
      /\ Rows \in Int /\ RowLength \in Int
  BY SsdTransfers, RectBytes DEF Rows
<1>2. /\ a \in Int /\ 0 <= a /\ a < RowLength
      /\ o.page = rect.p0 + k /\ o.col = rect.x0 + a
      /\ o.pending = <<>> /\ PagesSet(o) /\ Shown(o, k, a)
  BY <1>1 DEF SsdRowAt
<1>3. Transfers[n + 1] = Row(rect, rect.p0 + k)
  <2>1. n + 1 = k + 3
    BY <1>1
  <2>2. QED
    BY <1>1, <2>1, SsdTransfers
<1>4. /\ v \in Byte /\ q = Store(o, v)
      /\ a + 1 < RowLength => m = n /\ d = a + 1
      /\ a + 1 = RowLength => m = n + 1 /\ d = 0
  BY <1>1, <1>2, <1>3, RowByte
<1>5. /\ StoresIn(o, q, v)
      /\ ~RowEnds(o) => q.col = After(o.col, Columns(build)) /\ q.page = o.page
      /\ RowEnds(o) /\ o.horizontal =>
            q.col = o.c0 /\ q.page = IF o.page = o.p1 THEN o.p0 ELSE After(o.page, Pages)
  <2> HIDE DEF v
  <2>1. QED
    BY <1>4, StoreIs
<1>6. Left = 0
  BY DEF StateType, Left
<1>7. o.col = Left + (rect.x0 + a)
  BY <1>2, <1>6 DEF RectOK
<1>8. /\ a + 1 < RowLength => Shown(q, k, a + 1)
      /\ a + 1 = RowLength => Shown(q, k + 1, 0)
      /\ InPlace(o, q)
  BY <1>1, <1>2, <1>5, <1>7, StoreShows DEF InPlace
<1>9. q \in OledType /\ q.pending = <<>> /\ q.horizontal /\ PagesSet(q)
  BY <1>2, <1>5 DEF StoresIn, PagesSet
<1>10. RowEnds(o) <=> a + 1 = RowLength
  BY <1>2 DEF RowEnds, PagesSet, RowLength, RectOK
<1>11. CASE a + 1 < RowLength
  <2>1. q.page = rect.p0 + k /\ q.col = rect.x0 + (a + 1)
    <3>1. o.col < Columns(build) - 1 /\ o.col \in Int
      BY <1>1, <1>2, <1>11, Sizes DEF RectOK, RowLength, Columns
    <3>2. q.page = rect.p0 + k /\ q.col = o.col + 1
      BY <1>1, <1>2, <1>5, <1>10, <1>11, <3>1 DEF After
    <3>3. QED
      BY <1>1, <1>2, <3>2 DEF RectOK
  <2>2. a + 1 \in 0 .. RowLength - 1
    BY <1>1, <1>2, <1>11
  <2>3. SsdRowAt(q, k, a + 1)
    BY <1>1, <1>8, <1>9, <1>11, <2>1, <2>2 DEF SsdRowAt
  <2>4. m = k + 2 /\ d = a + 1
    BY <1>4, <1>11
  <2>5. QED
    BY <1>8, <1>9, <2>3, <2>4 DEF SsdAt
<1>12. CASE a + 1 = RowLength
  <2>1. k + 1 \in 0 .. Rows /\ m = (k + 1) + 2 /\ d = 0
    BY <1>1, <1>4, <1>12
  <2>2. q.col = rect.x0 + 0
    BY <1>2, <1>5, <1>10, <1>12 DEF PagesSet, RectOK
  <2>3. k + 1 < Rows => q.page = rect.p0 + (k + 1)
    <3>1. q.page = IF o.page = o.p1 THEN o.p0 ELSE After(o.page, Pages)
      BY <1>5, <1>10, <1>12
    <3>2. k + 1 < Rows => o.page # o.p1 /\ o.page # Pages - 1 /\ o.page + 1 = rect.p0 + (k + 1)
      BY <1>1, <1>2, Sizes DEF PagesSet, RectOK, Rows, PagesOf
    <3>3. QED
      BY <3>1, <3>2 DEF After
  <2>4. 0 \in 0 .. RowLength - 1
    BY <1>1, <1>2
  <2>5. SsdRowAt(q, k + 1, 0)
    BY <1>8, <1>9, <1>12, <2>2, <2>3, <2>4 DEF SsdRowAt
  <2>6. QED
    BY <1>8, <1>9, <2>1, <2>5 DEF SsdAt
<1>13. QED
  BY <1>1, <1>2, <1>11, <1>12

\* Every byte of an SSD1306 flush.
LEMMA SsdByte ==
    ASSUME NEW o \in OledType, NEW q, NEW n, NEW a, NEW m, NEW d, Sends(o, q, n, a, m, d),
           StateType, call = "flush", chip = "SSD1306", RectOK(rect), n < Len(Transfers),
           SsdAt(o, n, a)
    PROVE  q \in OledType /\ InPlace(o, q) /\ SsdAt(q, m, d)
<1>1. o.horizontal
  BY DEF SsdAt
<1>2. CASE n = 0 /\ Begun(o, a, \h21, rect.x0)
  BY <1>1, <1>2, ColumnByte DEF InPlace
<1>3. CASE n = 1 /\ Begun(o, a, \h22, rect.p0) /\ ColumnsSet(o)
  BY <1>1, <1>3, PageByte DEF InPlace
<1>4. ASSUME NEW k \in 0 .. Rows, n = k + 2, SsdRowAt(o, k, a)
      PROVE  q \in OledType /\ InPlace(o, q) /\ SsdAt(q, m, d)
  BY <1>1, <1>4, SsdRowByte
<1>5. QED
  BY <1>2, <1>3, <1>4 DEF SsdAt

\* The SH1106's page and the two halves of its column, before a row.
LEMMA HeaderByte ==
    ASSUME NEW o \in OledType, NEW q, NEW n, NEW a, NEW m, NEW d, Sends(o, q, n, a, m, d),
           call = "flush", chip = "SH1106", RectOK(rect), ~o.horizontal, o.pending = <<>>,
           NEW k \in 0 .. Rows, n = 2 * k, n < Len(Transfers), HeaderAt(o, k, a)
    PROVE  q \in OledType /\ InPlace(o, q) /\ ShAt(q, m, d)
<1> DEFINE p == rect.p0 + k
           h == (rect.x0 + 2) \div 16
           w == (rect.x0 + 2) % 16
<1>1. /\ k \in Int /\ 0 <= k /\ k < Rows /\ k \in 0 .. PagesOf(rect) - 1 /\ k \in 0 .. Rows - 1
      /\ n \in Int /\ Rows \in Int
  BY ShTransfers, RectBytes DEF Rows
<1>2. /\ p \in Int /\ 0 <= p /\ p <= 7 /\ h \in Int /\ 0 <= h /\ h <= 15
      /\ w \in Int /\ 0 <= w /\ w <= 15 /\ rect.x0 \in Int
      /\ p % 8 = p /\ h % 16 = h /\ (16 * h) + w = rect.x0 + 2
  <2> DEFINE x0 == rect.x0
             z == x0 + 2
  <2>1. p \in 0 .. Pages - 1 /\ x0 \in Int /\ 0 <= x0 /\ x0 < Width
    BY <1>1, RectBytes, Sizes DEF RectOK
  <2>2. p \in Int /\ 0 <= p /\ p <= 7 /\ z \in Int /\ 2 <= z /\ z <= 129
    <3> HIDE DEF p, x0
    <3>1. QED
      BY <2>1, Sizes
  <2>3. h = z \div 16 /\ w = z % 16
    OBVIOUS
  <2> HIDE DEF p, h, w, z
  <2>4. p % 8 = p
    BY <2>2
  <2>5. h \in Int /\ 0 <= h /\ h <= 15 /\ w \in Int /\ 0 <= w /\ w <= 15 /\ (16 * h) + w = z
    BY <2>2, <2>3
  <2>6. h % 16 = h
    BY <2>5
  <2>7. QED
    BY <2>1, <2>2, <2>4, <2>5, <2>6 DEF z
<1>3. /\ Shown(o, k, 0) /\ a \in 0 .. 2 /\ a \in Three
      /\ a >= 1 => o.page = p
      /\ a = 2 => o.col \div 16 = h
  BY <1>1 DEF HeaderAt, Three
<1>4. Transfers[n + 1] = Cmd(<<\hB0 + p, \h10 + h, w>>)
  <2>1. Transfers[2 * k + 1] = PageHeader(rect, rect.p0 + k)
    BY <1>1, ShTransfers
  <2> HIDE DEF p, h, w
  <2>2. PageHeader(rect, p) = Cmd(<<\hB0 + p, \h10 + h, w>>)
    <3>1. PageHeader(rect, p) = Cmd(<<\hB0 + (p % 8), \h10 + (h % 16), w>>)
      BY DEF PageHeader, h, w
    <3>2. QED
      BY <1>2, <3>1
  <2>3. QED
    BY <2>1, <2>2 DEF p
<1> HIDE DEF p, h, w
<1> DEFINE b1 == \hB0 + p
           b2 == \h10 + h
<1>5. b1 \in PageCodes /\ b1 - \hB0 = p /\ b2 \in HighCodes /\ b2 - \h10 = h /\ w \in LowCodes
  <2>1. b1 \in \hB0 .. \hB7 /\ b1 - \hB0 = p
    BY <1>2
  <2>2. b2 \in \h10 .. \h1F /\ b2 - \h10 = h
    BY <1>2
  <2>3. w \in \h00 .. \h0F
    BY <1>2
  <2> HIDE DEF b1, b2
  <2>4. QED
    BY <2>1, <2>2, <2>3 DEF PageCodes, HighCodes, LowCodes
<1>6. IsCommand(n, b1, b2, w)
  BY <1>4 DEF IsCommand
<1> HIDE DEF b1, b2
<1>7. /\ a = 0 => q = Receive(o, b1) /\ m = n /\ d = 1
      /\ a = 1 => q = Receive(o, b2) /\ m = n /\ d = 2
      /\ a = 2 => q = Receive(o, w) /\ m = n + 1 /\ d = 0
  <2>1. IsSent(o, q, n, a, m, d, b1, b2, w)
    BY <1>3, <1>6, CommandSent
  <2>2. QED
    BY <2>1 DEF IsSent
<1>8. CASE a = 0
  <2>1. q \in OledType /\ q.pending = <<>> /\ q.gram = o.gram /\ ~q.horizontal /\ q.page = p
    BY <1>7, <1>8, <1>5, PageSet DEF Pointed
  <2>2. Shown(q, k, 0) /\ InPlace(o, q)
    BY <1>3, <2>1 DEF Shown, InPlace
  <2>3. HeaderAt(q, k, 1)
    BY <1>1, <2>1, <2>2 DEF HeaderAt, p
  <2>4. m = 2 * k /\ d = 1
    BY <1>7, <1>8
  <2>5. QED
    BY <2>1, <2>2, <2>3, <2>4 DEF ShAt
<1>9. CASE a = 1
  <2>1. /\ q \in OledType /\ q.pending = <<>> /\ q.gram = o.gram /\ ~q.horizontal
        /\ q.page = o.page /\ q.col = (16 * h) + (o.col % 16)
    BY <1>7, <1>9, <1>5, HighSet DEF Pointed
  <2>2. Shown(q, k, 0) /\ InPlace(o, q)
    BY <1>3, <2>1 DEF Shown, InPlace
  <2>3. q.col \div 16 = h
    <3> DEFINE c == o.col
               e == q.col
    <3>1. c \in Int /\ e = (16 * h) + (c % 16)
      BY <2>1 DEF OledType
    <3> HIDE DEF c, e
    <3>2. e \div 16 = h
      BY <1>2, <3>1
    <3>3. QED
      BY <3>2 DEF e
  <2>4. q.page = p
    BY <1>3, <1>9, <2>1
  <2>5. HeaderAt(q, k, 2)
    BY <1>1, <2>2, <2>3, <2>4 DEF HeaderAt, p, h
  <2>6. m = 2 * k /\ d = 2
    BY <1>7, <1>9
  <2>7. QED
    BY <2>1, <2>2, <2>5, <2>6 DEF ShAt
<1>10. CASE a = 2
  <2>1. /\ q \in OledType /\ q.pending = <<>> /\ q.gram = o.gram /\ ~q.horizontal
        /\ q.page = o.page /\ q.col = (16 * (o.col \div 16)) + w
    BY <1>7, <1>10, <1>5, LowSet DEF Pointed
  <2>2. Shown(q, k, 0) /\ InPlace(o, q)
    BY <1>3, <2>1 DEF Shown, InPlace
  <2>3. q.col = (rect.x0 + 2) + 0 /\ q.page = p
    <3>1. q.col = (16 * h) + w /\ q.page = p
      BY <1>3, <1>10, <2>1
    <3>2. QED
      BY <1>2, <3>1
  <2>4. ShRowAt(q, k, 0)
    <3>1. 0 \in 0 .. RowLength - 1
      BY RectBytes
    <3>2. QED
      BY <2>2, <2>3, <3>1 DEF ShRowAt, p
  <2>5. m = 2 * k + 1 /\ d = 0
    BY <1>7, <1>10
  <2>6. QED
    BY <1>1, <2>1, <2>2, <2>4, <2>5 DEF ShAt
<1>11. QED
  BY <1>3, <1>8, <1>9, <1>10

\* Its pointer does not reach the end of its memory's row, where it would wrap.
LEMMA ShRowByte ==
    ASSUME NEW o \in OledType, NEW q, NEW n, NEW a, NEW m, NEW d, Sends(o, q, n, a, m, d),
           StateType, call = "flush", chip = "SH1106", RectOK(rect), ~o.horizontal,
           o.pending = <<>>, NEW k \in 0 .. Rows - 1, n = 2 * k + 1, ShRowAt(o, k, a)
    PROVE  q \in OledType /\ InPlace(o, q) /\ ShAt(q, m, d)
<1> DEFINE v == fb[<<rect.p0 + k, rect.x0 + a>>]
<1>1. /\ k \in Int /\ 0 <= k /\ k < Rows /\ k \in 0 .. PagesOf(rect) - 1 /\ n \in Int
      /\ Rows \in Int /\ RowLength \in Int /\ rect.x0 \in Int
  BY RectBytes DEF Rows, RectOK
<1>2. /\ a \in Int /\ 0 <= a /\ a < RowLength
      /\ o.page = rect.p0 + k /\ o.col = (rect.x0 + 2) + a /\ Shown(o, k, a)
  BY <1>1 DEF ShRowAt
<1>3. Transfers[n + 1] = Row(rect, rect.p0 + k)
  <2>1. n + 1 = 2 * k + 2
    BY <1>1
  <2>2. QED
    BY <1>1, <2>1, ShTransfers
<1>4. /\ v \in Byte /\ q = Store(o, v)
      /\ a + 1 < RowLength => m = n /\ d = a + 1
      /\ a + 1 = RowLength => m = n + 1 /\ d = 0
  BY <1>1, <1>2, <1>3, RowByte
<1>5. /\ StoresIn(o, q, v)
      /\ ~RowEnds(o) => q.col = After(o.col, Columns(build)) /\ q.page = o.page
  <2> HIDE DEF v
  <2>1. QED
    BY <1>4, StoreIs
<1>6. Left = 2 /\ Columns(build) = Width + 4
  BY DEF StateType, Left, Columns
<1>7. o.col = Left + (rect.x0 + a)
  BY <1>1, <1>2, <1>6
<1>8. /\ a + 1 < RowLength => Shown(q, k, a + 1)
      /\ a + 1 = RowLength => Shown(q, k + 1, 0)
      /\ InPlace(o, q)
  BY <1>1, <1>2, <1>5, <1>7, StoreShows DEF InPlace
<1>9. q \in OledType /\ q.pending = <<>> /\ ~q.horizontal
  BY <1>5 DEF StoresIn
<1>10. ~RowEnds(o)
  BY <1>1, <1>2, <1>6, Sizes DEF RowEnds, RowLength, RectOK
<1>11. CASE a + 1 < RowLength
  <2>1. q.page = rect.p0 + k /\ q.col = (rect.x0 + 2) + (a + 1)
    <3>1. q.col = o.col + 1 /\ q.page = o.page
      BY <1>5, <1>9, <1>10 DEF RowEnds, After
    <3>2. QED
      BY <1>1, <1>2, <3>1
  <2>2. a + 1 \in 0 .. RowLength - 1
    BY <1>1, <1>2, <1>11
  <2>3. ShRowAt(q, k, a + 1)
    BY <1>8, <1>11, <2>1, <2>2 DEF ShRowAt
  <2>4. m = 2 * k + 1 /\ d = a + 1
    BY <1>4, <1>11
  <2>5. QED
    BY <1>8, <1>9, <2>3, <2>4 DEF ShAt
<1>12. CASE a + 1 = RowLength
  <2>1. k + 1 \in 0 .. Rows /\ m = 2 * (k + 1) /\ d = 0
    BY <1>1, <1>4, <1>12
  <2>2. HeaderAt(q, k + 1, 0)
    BY <1>8, <1>12 DEF HeaderAt
  <2>3. QED
    BY <1>8, <1>9, <2>1, <2>2 DEF ShAt
<1>13. QED
  BY <1>1, <1>2, <1>11, <1>12

\* Every byte of a flush lands in its rectangle.
LEMMA FlushByte ==
    ASSUME NEW o \in OledType, NEW q, NEW n, NEW a, NEW m, NEW d, Sends(o, q, n, a, m, d),
           StateType, call = "flush", Known, RectOK(rect), n < Len(Transfers),
           FlushAt(o, n, a)
    PROVE  q \in OledType /\ InPlace(o, q) /\ FlushAt(q, m, d)
<1>1. CASE build = "SSD1306"
  <2>1. chip = "SSD1306" /\ SsdAt(o, n, a)
    BY <1>1 DEF StateType, Known, FlushAt
  <2>2. q \in OledType /\ InPlace(o, q) /\ SsdAt(q, m, d)
    BY <2>1, SsdByte
  <2>3. QED
    BY <1>1, <2>2 DEF FlushAt
<1>2. CASE build # "SSD1306"
  <2>1. chip = "SH1106" /\ ShAt(o, n, a)
    BY <1>2 DEF StateType, Known, FlushAt
  <2>2. ~o.horizontal /\ o.pending = <<>>
    BY <2>1 DEF ShAt
  <2>3. ASSUME NEW k \in 0 .. Rows, n = 2 * k, HeaderAt(o, k, a)
        PROVE  q \in OledType /\ InPlace(o, q) /\ ShAt(q, m, d)
    BY <2>1, <2>2, <2>3, HeaderByte
  <2>4. ASSUME NEW k \in 0 .. Rows - 1, n = 2 * k + 1, ShRowAt(o, k, a)
        PROVE  q \in OledType /\ InPlace(o, q) /\ ShAt(q, m, d)
    BY <2>1, <2>2, <2>4, ShRowByte
  <2>5. q \in OledType /\ InPlace(o, q) /\ ShAt(q, m, d)
    BY <2>1, <2>3, <2>4 DEF ShAt
  <2>6. QED
    BY <1>2, <2>5 DEF FlushAt
<1>3. QED
  BY <1>1, <1>2

-------------------------------------------------------------------------------
(***************************************************************************)
(* One byte of an initialisation, and of driver_set_power.                 *)
(***************************************************************************)
LEMMA SingleSent ==
    ASSUME NEW o, NEW q, NEW n, NEW m, NEW d, Sends(o, q, n, 0, m, d), NEW b,
           Transfers[n + 1] = Cmd(<<b>>)
    PROVE  q = Receive(o, b) /\ m = n + 1 /\ d = 0
<1> DEFINE w == <<b>>
           z == 0
<1>1. Len(w) = 1 /\ w[1] = b /\ z = 0
  OBVIOUS
<1>2. Transfers[n + 1] = Cmd(w) /\ Sends(o, q, n, z, m, d)
  OBVIOUS
<1> HIDE DEF w, z
<1>3. q = Receive(o, w[z + 1]) /\ IF z + 1 = Len(w) THEN m = n + 1 /\ d = 0 ELSE m = n /\ d = z + 1
  BY <1>2, SendsCommand
<1>4. QED
  BY <1>1, <1>3

LEMMA InitByte ==
    ASSUME NEW o \in OledType, NEW q, NEW n, NEW m, NEW d, Sends(o, q, n, 0, m, d),
           call = "init", n < 25, InitAt(o, n)
    PROVE  q \in OledType /\ q.gram = o.gram /\ m = n + 1 /\ d = 0 /\ InitAt(q, n + 1)
<1> DEFINE b == init_cmds[n + 1]
           c == init_cmds[n]
<1>1. n \in 0 .. 24 /\ n + 1 \in 1 .. 25 /\ (n > 0 => n \in 1 .. 25) /\ (n + 1) - 1 = n
  BY DEF InitAt
<1>2. InitShape(n + 1, b) /\ (n > 0 => InitShape(n, c))
  BY <1>1, InitBytes
<1>3. q = Receive(o, b) /\ m = n + 1 /\ d = 0
  <2>1. Transfers[n + 1] = Cmd(<<b>>)
    BY <1>1, InitTransfers
  <2> HIDE DEF b
  <2>2. QED
    BY <2>1, SingleSent
<1> HIDE DEF b, c
<1>4. /\ b \in Byte
      /\ n + 1 \in Openers => Arguments(b) = 1
      /\ n + 1 \notin Openers /\ n \notin Openers => Arguments(b) = 0 /\ b # \h20
      /\ n + 1 = 12 => b = 0
      /\ n > 0 => c \in Byte
      /\ n > 0 /\ n \in Openers => Arguments(c) = 1 /\ (c = \h20 <=> n = 11)
  BY <1>1, <1>2 DEF InitShape
<1>5. /\ n > 0 => o.pending = IF n \in Openers THEN <<c>> ELSE <<>>
      /\ n = 0 => Tame(o)
      /\ n >= 12 => o.horizontal = (build = "SSD1306")
  BY DEF InitAt, c
<1>6. CASE n = 0
  <2>1. n + 1 \notin Openers /\ n \notin Openers
    BY <1>6 DEF Openers
  <2>2. \E cmd : Closes(o, b, cmd)
    <3>1. CASE o.pending = <<>>
      BY <1>4, <2>1, <3>1 DEF Closes
    <3>2. CASE \E x \in Byte : o.pending = <<x>> /\ Arguments(x) = 1
      BY <3>2 DEF Closes
    <3>3. QED
      BY <1>5, <1>6, <3>1, <3>2 DEF Tame
  <2>3. q \in OledType /\ q.pending = <<>> /\ q.gram = o.gram
    BY <1>3, <1>4, <2>2, CommandObeyed
  <2>4. InitAt(q, n + 1)
    BY <1>1, <1>6, <2>1, <2>3 DEF InitAt
  <2>5. QED
    BY <1>3, <2>3, <2>4
<1>7. CASE n > 0 /\ n + 1 \in Openers
  <2>1. n \notin Openers /\ n + 1 # 12
    BY <1>1, <1>7 DEF Openers
  <2>2. o.pending = <<>> /\ Arguments(b) > 0
    BY <1>4, <1>5, <1>7, <2>1
  <2>3. q \in OledType /\ q.pending = Append(<<>>, b) /\ q.gram = o.gram /\ q.horizontal = o.horizontal
    BY <1>3, <1>4, <2>2, Collects
  <2>4. Append(<<>>, b) = <<b>>
    OBVIOUS
  <2>5. n + 1 >= 12 => n >= 12
    BY <1>1, <2>1
  <2>6. InitAt(q, n + 1)
    BY <1>1, <1>5, <1>7, <2>3, <2>4, <2>5 DEF InitAt, b
  <2>7. QED
    BY <1>3, <2>3, <2>6
<1>8. CASE n > 0 /\ n \in Openers
  <2>1. n + 1 \notin Openers
    BY <1>8 DEF Openers
  <2>2. Closes(o, b, <<c, b>>)
    BY <1>4, <1>5, <1>8 DEF Closes
  <2>3. /\ q \in OledType /\ q.pending = <<>> /\ q.gram = o.gram
        /\ c # \h20 => q.horizontal = o.horizontal
        /\ c = \h20 => q.horizontal = (build = "SSD1306" /\ b = 0)
    <3> DEFINE cmd == <<c, b>>
    <3>1. cmd[1] = c /\ cmd[2] = b /\ Closes(o, b, cmd)
      BY <2>2
    <3> HIDE DEF cmd
    <3>2. QED
      BY <1>3, <1>4, <3>1, CommandObeyed
  <2>4. n + 1 >= 12 => q.horizontal = (build = "SSD1306")
    <3>1. CASE n = 11
      BY <1>4, <1>8, <2>3, <3>1
    <3>2. CASE n # 11
      BY <1>1, <1>4, <1>5, <1>8, <2>3, <3>2
    <3>3. QED
      BY <3>1, <3>2
  <2>5. InitAt(q, n + 1)
    BY <1>1, <2>1, <2>3, <2>4 DEF InitAt
  <2>6. QED
    BY <1>3, <2>3, <2>5
<1>9. CASE n > 0 /\ n \notin Openers /\ n + 1 \notin Openers
  <2>1. Closes(o, b, <<b>>)
    BY <1>4, <1>5, <1>9 DEF Closes
  <2>2. q \in OledType /\ q.pending = <<>> /\ q.gram = o.gram /\ q.horizontal = o.horizontal
    <3> DEFINE cmd == <<b>>
    <3>1. cmd[1] = b /\ Closes(o, b, cmd)
      BY <2>1
    <3> HIDE DEF cmd
    <3>2. QED
      BY <1>3, <1>4, <1>9, <3>1, CommandObeyed
  <2>3. n + 1 >= 12 => n >= 12
    BY <1>1, <1>9 DEF Openers
  <2>4. InitAt(q, n + 1)
    BY <1>1, <1>5, <1>9, <2>2, <2>3 DEF InitAt
  <2>5. QED
    BY <1>3, <2>2, <2>4
<1>10. QED
  BY <1>1, <1>6, <1>7, <1>8, <1>9

LEMMA PowerByte ==
    ASSUME NEW o \in OledType, NEW q, NEW m, NEW d, NEW n, n = 0, Sends(o, q, n, 0, m, d),
           call \in {"on", "off"}, Settled(o)
    PROVE  q \in OledType /\ q.gram = o.gram /\ m = 1 /\ d = 0 /\ Settled(q)
<1> DEFINE b == IF call = "on" THEN \hAF ELSE \hAE
<1>1. Transfers[n + 1] = Cmd(<<b>>)
  <2>1. n + 1 = 1
    OBVIOUS
  <2>2. CASE call = "on"
    <3>1. Transfers[1] = Cmd(<<IF TRUE THEN \hAF ELSE \hAE>>)
      BY <2>2, PowerTransfers
    <3>2. QED
      BY <2>1, <2>2, <3>1
  <2>3. CASE call = "off"
    <3>1. Transfers[1] = Cmd(<<IF FALSE THEN \hAF ELSE \hAE>>)
      BY <2>3, PowerTransfers
    <3>2. QED
      BY <2>1, <2>3, <3>1
  <2>4. QED
    BY <2>2, <2>3
<1>2. b \in Byte /\ Arguments(b) = 0 /\ b # \h20
  BY DEF Byte, Arguments
<1> HIDE DEF b
<1>3. q = Receive(o, b) /\ m = 1 /\ d = 0
  BY <1>1, SingleSent
<1>4. CASE o.pending = <<>>
  <2> DEFINE cmd == <<b>>
  <2>1. cmd[1] = b /\ Closes(o, b, cmd)
    BY <1>2, <1>4 DEF Closes
  <2> HIDE DEF cmd
  <2>2. q \in OledType /\ q.pending = <<>> /\ q.gram = o.gram /\ q.horizontal = o.horizontal
    BY <1>2, <1>3, <2>1, CommandObeyed
  <2>3. QED
    BY <1>3, <2>2 DEF Settled, Ready, Tame
<1>5. CASE ~Known /\ \E x \in Byte : o.pending = <<x>> /\ Arguments(x) = 1
  <2>1. \E cmd : Closes(o, b, cmd)
    BY <1>5 DEF Closes
  <2>2. q \in OledType /\ q.pending = <<>> /\ q.gram = o.gram
    BY <1>2, <1>3, <2>1, CommandObeyed
  <2>3. QED
    BY <1>3, <1>5, <2>2 DEF Settled, Tame
<1>6. QED
  BY <1>4, <1>5 DEF Settled, Ready, Tame

-------------------------------------------------------------------------------
(***************************************************************************)
(* Every action preserves the invariant.                                   *)
(***************************************************************************)
LEMMA InitiallyInv == Init => Sound
<1> SUFFICES ASSUME Init PROVE Sound
  OBVIOUS
<1>1. build \in {"SSD1306", "SH1106"} /\ Columns(build) \in Int
  BY PanelAssumption DEF Init, Columns
<1>2. oled \in OledType /\ oled.pending = <<>>
  <2> DEFINE g == [a \in Memory |-> Noise]
             e == <<>>
             c == Columns(build) - 1
             p == Pages - 1
  <2>1. g \in [Memory -> Int] /\ e \in Seq(Byte) /\ c \in Int /\ p \in Int
    BY <1>1, Sizes DEF Noise
  <2>2. oled = [on |-> FALSE, horizontal |-> FALSE, pending |-> e, c0 |-> 0, c1 |-> c,
                p0 |-> 0, p1 |-> p, col |-> 0, page |-> 0, gram |-> g]
    BY DEF Init, PowerOn, Memory
  <2> HIDE DEF g, e, c, p
  <2>3. oled \in OledType /\ oled.pending = e
    BY <2>1, <2>2 DEF OledType
  <2>4. QED
    BY <2>3 DEF e
<1>3. StateType
  BY <1>1, <1>2 DEF StateType, Init, Byte, Running
<1>4. QED
  BY <1>2, <1>3 DEF Sound, Init, Resting, Initializing, Powering, Flushing, FlushShown,
                    Running, Settled, Tame, Known

LEMMA NowResting ==
    ASSUME StateType', ~Running', sent' = 0, at' = 0, Settled(oled)', FlushShown'
    PROVE  Sound'
BY DEF Sound, Resting, Initializing, Powering, Flushing

LEMMA InitBegins == Sound /\ driver_init => Sound'
<1> SUFFICES ASSUME Sound, driver_init PROVE Sound'
  OBVIOUS
<1>1. /\ call' = "init" /\ result' = "none" /\ chip = "UNKNOWN"
      /\ UNCHANGED <<build, chip, fb, rect, sent, at, oled>>
      /\ sent = 0 /\ at = 0 /\ Tame(oled)
  BY DEF driver_init, Begins, Sound, Resting, Settled, Known
<1>2. StateType'
  BY <1>1 DEF Sound, StateType, Running, OledType, Memory, Columns
<1>3. InitAt(oled, sent)'
  BY <1>1 DEF InitAt, Tame
<1>4. QED
  BY <1>1, <1>2, <1>3 DEF Sound, Resting, Initializing, Powering, Flushing, FlushShown,
                          Running, Known

LEMMA FlushStarts ==
    ASSUME StateType', Known', RectOK(rect'), call' = "flush", result' = "none",
           sent' = 0, at' = 0, Ready(oled)'
    PROVE  Sound'
<1>1. CASE build' = "SSD1306"
  <2>1. oled'.horizontal /\ oled'.pending = <<>>
    BY <1>1 DEF Ready
  <2>2. SsdAt(oled, sent, at)'
    BY <2>1 DEF SsdAt, Begun
  <2>3. QED
    BY <1>1, <2>2 DEF Sound, Resting, Initializing, Powering, Flushing, FlushShown,
                      Running, FlushAt
<1>2. CASE build' # "SSD1306"
  <2>1. oled'.horizontal = FALSE /\ oled'.pending = <<>>
    BY <1>2 DEF Ready
  <2>2. Rows' \in Int /\ Rows' >= 1
    BY DEF RectOK, Rows, PagesOf
  <2>3. ASSUME NEW c \in Cells, InRect(rect', c)
        PROVE  ~(c[1] < rect'.p0 + 0 \/ (c[1] = rect'.p0 + 0 /\ c[2] < rect'.x0 + 0))
    BY <2>3, CellIs DEF InRect, RectOK
  <2>4. Shown(oled, 0, 0)'
    BY <2>3 DEF Shown
  <2>5. HeaderAt(oled, 0, 0)'
    BY <2>2, <2>4 DEF HeaderAt
  <2>6. 0 \in 0 .. Rows' /\ sent' = 2 * 0
    BY <2>2
  <2>7. ShAt(oled, sent, at)'
    BY <2>1, <2>5, <2>6 DEF ShAt
  <2>8. QED
    BY <1>2, <2>7 DEF Sound, Resting, Initializing, Powering, Flushing, FlushShown,
                      Running, FlushAt
<1>3. QED
  BY <1>1, <1>2

LEMMA FlushBegins ==
    ASSUME StateType, sent = 0, at = 0, NEW r \in Rects, driver_flush_rect(r)
    PROVE  /\ StateType' /\ Known' /\ RectOK(rect')
           /\ call' = "flush" /\ result' = "none" /\ sent' = 0 /\ at' = 0
           /\ Ready(oled) => Sound'
<1>1. /\ call' = "flush" /\ result' = "none" /\ chip # "UNKNOWN" /\ rect' = Clamped(r)
      /\ UNCHANGED <<build, chip, fb, sent, at, oled>>
  BY DEF driver_flush_rect, Begins
<1>2. StateType' /\ Known' /\ (Ready(oled) => Ready(oled)')
  BY <1>1 DEF StateType, Running, OledType, Memory, Columns, Known, Ready
<1>3. RectOK(rect')
  <2> DEFINE s == Clamped(r)
  <2>1. r \in [x0 : Nat, p0 : Nat, x1 : Nat, p1 : Nat]
    BY PanelAssumption
  <2>2. /\ s \in [x0 : Int, p0 : Int, x1 : Int, p1 : Int]
        /\ s.x0 = r.x0 /\ s.p0 = r.p0
        /\ s.x1 = AtMost(r.x1, Width - 1) /\ s.p1 = AtMost(r.p1, Pages - 1)
    <3> DEFINE x == AtMost(r.x1, Width - 1)
               y == AtMost(r.p1, Pages - 1)
    <3>1. x \in Int /\ y \in Int
      BY <2>1, Sizes DEF AtMost
    <3>2. s = [r EXCEPT !.x1 = x, !.p1 = y]
      BY DEF Clamped
    <3> HIDE DEF s, x, y
    <3>3. r \in [x0 : Int, p0 : Int, x1 : Int, p1 : Int]
      BY <2>1
    <3>4. /\ s \in [x0 : Int, p0 : Int, x1 : Int, p1 : Int]
          /\ s.x0 = r.x0 /\ s.p0 = r.p0 /\ s.x1 = x /\ s.p1 = y
      BY <3>1, <3>2, <3>3
    <3>5. QED
      BY <3>4 DEF x, y
  <2>3. ~(s.x0 > s.x1 \/ s.p0 > s.p1)
    BY DEF driver_flush_rect, OffScreen
  <2> HIDE DEF s
  <2>4. RectOK(s)
    BY <2>1, <2>2, <2>3, Sizes DEF RectOK, AtMost
  <2>5. QED
    BY <1>1, <2>4 DEF s
<1>4. QED
  BY <1>1, <1>2, <1>3, FlushStarts

LEMMA ClearBegins ==
    ASSUME StateType, sent = 0, at = 0, driver_clear
    PROVE  /\ StateType' /\ Known' /\ RectOK(rect')
           /\ call' = "flush" /\ result' = "none" /\ sent' = 0 /\ at' = 0
           /\ Ready(oled) => Sound'
<1>1. /\ call' = "flush" /\ result' = "none" /\ chip # "UNKNOWN" /\ rect' = FullRect
      /\ fb' = [c \in Cells |-> 0]
      /\ UNCHANGED <<build, chip, sent, at, oled>>
  BY DEF driver_clear, Begins
<1>2. StateType' /\ Known' /\ (Ready(oled) => Ready(oled)')
  BY <1>1 DEF StateType, Running, OledType, Memory, Columns, Known, Ready, Byte
<1>3. RectOK(rect')
  BY <1>1, Sizes DEF RectOK, FullRect
<1>4. QED
  BY <1>1, <1>2, <1>3, FlushStarts

LEMMA FlushIsRefused ==
    ASSUME Sound, NEW r \in Rects, FlushRefused(r) PROVE Sound'
<1>1. /\ call' = "flush" /\ result' = "false"
      /\ UNCHANGED <<build, chip, fb, sent, at, oled>>
      /\ sent = 0 /\ at = 0 /\ Settled(oled)
  BY DEF FlushRefused, Sound, Resting
<1>2. StateType' /\ Settled(oled)'
  BY <1>1 DEF Sound, StateType, Running, OledType, Memory, Columns, Settled, Known, Ready, Tame
<1>3. QED
  BY <1>1, <1>2, NowResting DEF Running, FlushShown

LEMMA PowerBegins ==
    ASSUME StateType, sent = 0, at = 0, NEW on \in BOOLEAN, driver_set_power(on)
    PROVE  /\ StateType' /\ (Known => Known')
           /\ call' \in {"on", "off"} /\ result' = "none" /\ sent' = 0 /\ at' = 0
           /\ Settled(oled) => Sound'
<1>1. /\ call' \in {"on", "off"} /\ result' = "none"
      /\ UNCHANGED <<build, chip, fb, rect, sent, at, oled>>
  BY DEF driver_set_power, Begins
<1>2. StateType' /\ (Known => Known') /\ (Settled(oled) => Settled(oled)')
  BY <1>1 DEF StateType, Running, OledType, Memory, Columns, Settled, Known, Ready, Tame
<1>3. QED
  BY <1>1, <1>2 DEF Sound, Resting, Initializing, Powering, Flushing, FlushShown, Running

LEMMA Repainted ==
    ASSUME Sound, NEW f \in Frames, Repaint(f) PROVE Sound'
<1>1. /\ call' = "none" /\ fb' = f /\ result # "none" /\ result' = result
      /\ UNCHANGED <<build, chip, rect, sent, at, oled>>
      /\ sent = 0 /\ at = 0 /\ Settled(oled)
  BY DEF Repaint, Sound, Resting, Running
<1>2. StateType' /\ Settled(oled)'
  BY <1>1, PanelAssumption
     DEF Sound, StateType, Running, OledType, Memory, Columns, Settled, Known, Ready, Tame, Byte
<1>3. QED
  BY <1>1, <1>2, NowResting DEF Running, FlushShown

\* The glass changes only under a flush, and only in its rectangle.
GlassKept == \A c \in Cells : Visible(c)' # Visible(c) => call = "flush" /\ InRect(rect, c)

LEMMA OneByte == Sound /\ SpiByte => Sound' /\ GlassKept
<1> SUFFICES ASSUME Sound, SpiByte PROVE Sound' /\ GlassKept
  OBVIOUS
<1> DEFINE q == oled'
           m == sent'
           d == at'
<1>1. /\ Running /\ sent < Len(Transfers) /\ Sends(oled, q, sent, at, m, d)
      /\ UNCHANGED <<build, chip, fb, call, rect, result>>
      /\ StateType /\ oled \in OledType /\ sent \in Nat /\ at \in Nat
      /\ call \in {"init", "flush", "on", "off"}
  BY DEF SpiByte, Sends, Sound, StateType
<1>2. ASSUME q \in OledType, m \in Nat, d \in Nat PROVE StateType'
  BY <1>1, <1>2 DEF StateType, Running, OledType, Memory, Columns
<1>3. ASSUME q.gram = oled.gram PROVE GlassKept
  BY <1>1, <1>3 DEF GlassKept, Visible, Left
<1>4. CASE call = "init"
  <2>1. at = 0 /\ ~Known /\ InitAt(oled, sent)
    BY <1>1, <1>4 DEF Sound, Initializing
  <2>2. sent < 25
    BY <1>1, <1>4, InitTransfers
  <2>3. q \in OledType /\ q.gram = oled.gram /\ m = sent + 1 /\ d = 0 /\ InitAt(q, sent + 1)
    <3>1. Sends(oled, q, sent, 0, m, d)
      BY <1>1, <2>1
    <3> HIDE DEF q, m, d
    <3>2. QED
      BY <1>1, <1>4, <2>1, <2>2, <3>1, InitByte
  <2>4. InitAt(oled, sent)'
    BY <1>1, <2>3 DEF InitAt, Tame, init_cmds
  <2>5. StateType' /\ at' = 0
    BY <1>1, <1>2, <2>3
  <2>6. Sound'
    BY <1>1, <1>4, <2>1, <2>4, <2>5
       DEF Sound, Resting, Initializing, Powering, Flushing, FlushShown, Running, Known
  <2>7. QED
    BY <1>3, <2>3, <2>6
<1>5. CASE call \in {"on", "off"}
  <2>1. at = 0 /\ sent \in {0, 1} /\ Settled(oled)
    BY <1>1, <1>5 DEF Sound, Powering
  <2>2. sent = 0
    <3>1. Len(Transfers) = 1
      <4>1. CASE call = "on"
        <5>1. call = IF TRUE THEN "on" ELSE "off"
          BY <4>1
        <5>2. QED
          BY <5>1, PowerTransfers
      <4>2. CASE call = "off"
        <5>1. call = IF FALSE THEN "on" ELSE "off"
          BY <4>2
        <5>2. QED
          BY <5>1, PowerTransfers
      <4>3. QED
        BY <1>5, <4>1, <4>2
    <3>2. QED
      BY <1>1, <2>1, <3>1
  <2>3. q \in OledType /\ q.gram = oled.gram /\ m = 1 /\ d = 0 /\ Settled(q)
    <3>1. Sends(oled, q, sent, 0, m, d)
      BY <1>1, <2>1
    <3> HIDE DEF q, m, d
    <3>2. QED
      BY <1>1, <1>5, <2>1, <2>2, <3>1, PowerByte
  <2>4. Settled(oled)'
    BY <1>1, <2>3 DEF Settled, Known, Ready, Tame
  <2>5. StateType' /\ at' = 0 /\ sent' = 1
    BY <1>1, <1>2, <2>3
  <2>6. Sound'
    BY <1>1, <1>5, <2>4, <2>5
       DEF Sound, Resting, Initializing, Powering, Flushing, FlushShown, Running
  <2>7. QED
    BY <1>3, <2>3, <2>6
<1>6. CASE call = "flush"
  <2>1. Known /\ RectOK(rect) /\ FlushAt(oled, sent, at)
    BY <1>1, <1>6 DEF Sound, Flushing
  <2>2. q \in OledType /\ InPlace(oled, q) /\ FlushAt(q, m, d)
    <3> HIDE DEF q, m, d
    <3>1. QED
      BY <1>1, <1>6, <2>1, FlushByte
  <2>3. m \in Nat /\ d \in Nat
    BY <1>1 DEF Sends
  <2>4. FlushAt(oled, sent, at)'
    BY <1>1, <2>2
       DEF FlushAt, SsdAt, ShAt, SsdRowAt, HeaderAt, ShRowAt, Shown, Begun, ColumnsSet,
           PagesSet, Rows, RowLength, PagesOf, InRect, Left
  <2>5. StateType' /\ Known' /\ RectOK(rect)'
    BY <1>1, <1>2, <2>1, <2>2, <2>3 DEF Known, RectOK
  <2>6. Sound'
    BY <1>1, <1>6, <2>4, <2>5
       DEF Sound, Resting, Initializing, Powering, Flushing, FlushShown, Running
  <2>7. GlassKept
    BY <1>1, <1>6, <2>2 DEF GlassKept, InPlace, Place, Visible, Left
  <2>8. QED
    BY <2>6, <2>7
<1>7. QED
  BY <1>1, <1>4, <1>5, <1>6

\* Where a flush may fail, other than within a command, the controller waits for one.
LEMMA FlushSettled ==
    ASSUME Sound, Running, call = "flush", oled.pending = <<>> PROVE Ready(oled)
<1>1. StateType /\ Known /\ RectOK(rect) /\ FlushAt(oled, sent, at)
  BY DEF Sound, Flushing
<1>2. CASE build = "SSD1306"
  BY <1>1, <1>2 DEF FlushAt, SsdAt, Ready
<1>3. CASE build # "SSD1306"
  BY <1>1, <1>3 DEF FlushAt, ShAt, Ready, StateType, OledType
<1>4. QED
  BY <1>2, <1>3

LEMMA InitSettled == ASSUME NEW o, NEW n, InitAt(o, n) PROVE Tame(o)
<1>1. CASE n = 0
  BY <1>1 DEF InitAt
<1>2. CASE n # 0
  <2>1. n \in 1 .. 25 /\ o.pending = IF n \in Openers THEN <<init_cmds[n]>> ELSE <<>>
    BY <1>2 DEF InitAt
  <2>2. n \in Openers => init_cmds[n] \in Byte /\ Arguments(init_cmds[n]) = 1
    BY <2>1, InitBytes DEF InitShape
  <2>3. QED
    BY <2>1, <2>2 DEF Tame
<1>3. QED
  BY <1>1, <1>2

LEMMA OneFails == ASSUME Sound, SpiFails, ~torn' PROVE Sound'
<1>1. /\ result' = "false" /\ sent' = 0 /\ at' = 0 /\ Running
      /\ UNCHANGED <<build, chip, fb, call, rect, oled>>
      /\ StateType
  BY DEF SpiFails, Sound
<1>2. Settled(oled)
  <2>1. CASE call = "init"
    BY <1>1, <2>1, InitSettled DEF Sound, Initializing, Settled
  <2>2. CASE call \in {"on", "off"}
    BY <1>1, <2>2 DEF Sound, Powering
  <2>3. CASE call = "flush"
    <3>1. Ready(oled)
      <4>1. oled.pending = <<>>
        BY <2>3 DEF SpiFails
      <4>2. QED
        BY <1>1, <2>3, <4>1, FlushSettled
    <3>2. QED
      BY <1>1, <2>3, <3>1 DEF Sound, Flushing, Settled
  <2>4. QED
    BY <1>1, <2>1, <2>2, <2>3 DEF StateType
<1>3. StateType' /\ Settled(oled)'
  BY <1>1, <1>2 DEF StateType, Running, OledType, Memory, Columns, Settled, Known, Ready, Tame
<1>4. QED
  BY <1>1, <1>3, NowResting DEF Running, FlushShown

LEMMA CallReturns == Sound /\ Returns => Sound'
<1> SUFFICES ASSUME Sound, Returns PROVE Sound'
  OBVIOUS
<1>1. /\ result' = "true" /\ sent' = 0 /\ at' = at /\ Running /\ sent = Len(Transfers)
      /\ chip' = IF call = "init" THEN build ELSE chip
      /\ UNCHANGED <<build, fb, call, rect, oled>>
      /\ StateType
  BY DEF Returns, Sound
<1>2. StateType'
  BY <1>1 DEF StateType, Running, OledType, Memory, Columns
<1>3. CASE call = "init"
  <2>1. at = 0 /\ InitAt(oled, 25)
    BY <1>1, <1>3, InitTransfers DEF Sound, Initializing
  <2>2. Ready(oled)
    BY <2>1 DEF InitAt, Openers, Ready
  <2>3. Settled(oled)'
    BY <1>1, <1>3, <2>2 DEF StateType, Settled, Known, Ready
  <2>4. QED
    BY <1>1, <1>2, <1>3, <2>1, <2>3, NowResting DEF Running, FlushShown
<1>4. CASE call \in {"on", "off"}
  <2>1. at = 0 /\ Settled(oled)
    BY <1>1, <1>4 DEF Sound, Powering
  <2>2. Settled(oled)'
    BY <1>1, <1>4, <2>1 DEF Settled, Known, Ready, Tame
  <2>3. QED
    BY <1>1, <1>2, <1>4, <2>1, <2>2, NowResting DEF Running, FlushShown
<1>5. CASE call = "flush"
  <2>1. Known /\ RectOK(rect) /\ FlushAt(oled, sent, at)
    BY <1>1, <1>5 DEF Sound, Flushing
  <2>2. Rows \in Int /\ Rows >= 1
    BY <2>1, RectBytes
  <2>3. at = 0 /\ Ready(oled) /\ Shown(oled, Rows, 0)
    <3>1. CASE build = "SSD1306"
      <4>1. SsdAt(oled, sent, at) /\ sent = Rows + 2
        BY <1>1, <1>5, <2>1, <3>1, SsdTransfers DEF StateType, Known, FlushAt, Rows
      <4>2. oled.horizontal /\ SsdRowAt(oled, Rows, at)
        <5>1. PICK k \in 0 .. Rows : sent = k + 2 /\ SsdRowAt(oled, k, at)
          BY <2>2, <4>1 DEF SsdAt
        <5>2. k = Rows
          BY <2>2, <4>1, <5>1
        <5>3. QED
          BY <4>1, <5>1, <5>2 DEF SsdAt
      <4>3. at = 0
        BY <4>2 DEF SsdRowAt
      <4>4. QED
        BY <3>1, <4>2, <4>3 DEF SsdRowAt, Ready
    <3>2. CASE build # "SSD1306"
      <4>1. ShAt(oled, sent, at) /\ sent = 2 * Rows /\ oled \in OledType
        BY <1>1, <1>5, <2>1, <3>2, ShTransfers DEF StateType, Known, FlushAt, Rows
      <4>2. HeaderAt(oled, Rows, at)
        <5>1. ASSUME NEW k \in 0 .. Rows, sent = 2 * k, HeaderAt(oled, k, at)
              PROVE  HeaderAt(oled, Rows, at)
          <6>1. k = Rows
            BY <2>2, <4>1, <5>1
          <6>2. QED
            BY <5>1, <6>1
        <5>2. ASSUME NEW k \in 0 .. Rows - 1 PROVE sent # 2 * k + 1
          BY <2>2, <4>1
        <5>3. QED
          BY <4>1, <5>1, <5>2 DEF ShAt
      <4>3. QED
        BY <3>2, <4>1, <4>2 DEF HeaderAt, ShAt, Ready, OledType
    <3>3. QED
      BY <3>1, <3>2
  <2>4. ASSUME NEW c \in Cells, InRect(rect, c) PROVE Visible(c) = fb[c]
    <3>1. c[1] < rect.p0 + Rows
      BY <2>1, <2>4, CellIs DEF InRect, RectOK, Rows, PagesOf
    <3>2. QED
      BY <2>3, <2>4, <3>1 DEF Shown, Visible
  <2>5. FlushShown'
    BY <1>1, <2>4 DEF FlushShown, Visible, Left, InRect
  <2>6. Settled(oled)'
    BY <1>1, <1>5, <2>1, <2>3 DEF Settled, Known, Ready
  <2>7. QED
    BY <1>1, <1>2, <2>3, <2>5, <2>6, NowResting DEF Running
<1>6. QED
  BY <1>1, <1>3, <1>4, <1>5 DEF StateType

LEMMA InvStutters == ASSUME Sound, UNCHANGED vars PROVE Sound'
<1>1. UNCHANGED <<build, chip, fb, call, rect, sent, at, result, oled>>
  BY DEF vars
<1>2. StateType' /\ Resting'
  BY <1>1 DEF Sound, StateType, Resting, Running, OledType, Memory, Columns, Settled,
              Known, Ready, Tame
<1>3. Initializing' /\ Powering'
  BY <1>1 DEF Sound, Initializing, Powering, Running, InitAt, Tame, init_cmds, Settled,
              Known, Ready
<1>4. Flushing' /\ FlushShown'
  BY <1>1 DEF Sound, Flushing, FlushShown, Visible, Running, Known, RectOK, FlushAt, SsdAt,
              ShAt, SsdRowAt, HeaderAt, ShRowAt, Shown, Begun, ColumnsSet, PagesSet, Rows,
              RowLength, PagesOf, InRect, Left
<1>5. QED
  BY <1>2, <1>3, <1>4 DEF Sound

-------------------------------------------------------------------------------
(***************************************************************************)
(* After a command cut short the controller may be anywhere.  What is left *)
(* is where the driver is in its transfers, and that they are bytes.       *)
(***************************************************************************)
OnTheWay ==
    /\ sent \in 0 .. Len(Transfers)
    /\ sent < Len(Transfers) => at \in 0 .. Len(Transfers[sent + 1].bytes) - 1
    /\ sent = Len(Transfers) => at = 0

Sending ==
    /\ call \in {"flush", "on", "off"}
    /\ call = "flush" => RectOK(rect)
    /\ OnTheWay

Loose ==
    /\ StateType /\ Known
    /\ IF Running THEN Sending ELSE sent = 0 /\ at = 0

PanelInv == torn \in BOOLEAN /\ IF torn THEN Loose ELSE Sound

\* The bytes of a transfer.
AreBytes(t) ==
    /\ t.data => call = "flush"
    /\ Len(t.bytes) \in Nat /\ Len(t.bytes) >= 1
    /\ \A i \in 1 .. Len(t.bytes) : t.bytes[i] \in Byte

LEMMA OneIsBytes == ASSUME NEW x \in Byte PROVE AreBytes(Cmd(<<x>>))
BY DEF AreBytes, Cmd

LEMMA ThreeAreBytes ==
    ASSUME NEW x \in Byte, NEW y \in Byte, NEW z \in Byte PROVE AreBytes(Cmd(<<x, y, z>>))
<1> DEFINE w == <<x, y, z>>
<1>1. Len(w) = 3 /\ w[1] \in Byte /\ w[2] \in Byte /\ w[3] \in Byte
  OBVIOUS
<1> HIDE DEF w
<1>2. \A i \in 1 .. 3 : w[i] \in Byte
  BY <1>1
<1>3. Cmd(w).data = FALSE /\ Cmd(w).bytes = w /\ Len(w) \in Nat /\ Len(w) >= 1
  BY <1>1 DEF Cmd
<1> DEFINE t == Cmd(w)
<1>4. AreBytes(Cmd(w))
  <2>1. t.data = FALSE /\ t.bytes = w
    BY <1>3
  <2> HIDE DEF t
  <2>2. AreBytes(t)
    BY <1>1, <1>2, <1>3, <2>1 DEF AreBytes
  <2>3. QED
    BY <2>2 DEF t
<1>5. QED
  BY <1>4 DEF w

LEMMA RowsAreBytes ==
    ASSUME StateType, RectOK(rect), call = "flush", NEW k \in 0 .. Rows - 1
    PROVE  AreBytes(Row(rect, rect.p0 + k))
<1> DEFINE t == Row(rect, rect.p0 + k)
<1>1. t.data /\ Len(t.bytes) = RowLength
  BY RectBytes, RowIs DEF RowLength, RectOK
<1>2. RowLength \in Int /\ RowLength >= 1
  BY RectBytes
<1>3. ASSUME NEW i \in 1 .. RowLength PROVE t.bytes[i] \in Byte
  <2> DEFINE a == i - 1
  <2>1. a \in 0 .. RowLength - 1 /\ a + 1 = i
    BY <1>2, <1>3
  <2>2. rect.p0 + k \in 0 .. Pages - 1 /\ rect.x0 + a \in 0 .. Width - 1
    BY <2>1, RectBytes
  <2>3. t.bytes[a + 1] = fb[<<rect.p0 + k, rect.x0 + a>>]
    <3>1. a \in 0 .. rect.x1 - rect.x0
      BY <2>1 DEF RowLength, RectOK
    <3> HIDE DEF a
    <3>2. QED
      BY <3>1, RowIs
  <2>4. fb[<<rect.p0 + k, rect.x0 + a>>] \in Byte
    <3> HIDE DEF a
    <3>1. QED
      BY <2>2 DEF StateType, Cells
  <2>5. QED
    BY <2>1, <2>3, <2>4
<1> HIDE DEF t
<1>4. AreBytes(t)
  BY <1>1, <1>2, <1>3 DEF AreBytes
<1>5. QED
  BY <1>4 DEF t

LEMMA TransfersAreBytes ==
    ASSUME StateType, Known, call \in {"flush", "on", "off"}, call = "flush" => RectOK(rect)
    PROVE  Len(Transfers) \in Nat /\ \A n \in 0 .. Len(Transfers) - 1 : AreBytes(Transfers[n + 1])
<1>1. CASE call \in {"on", "off"}
  <2>1. \E b \in Byte : Len(Transfers) = 1 /\ Transfers[1] = Cmd(<<b>>)
    <3>1. CASE call = "on"
      <4>1. call = IF TRUE THEN "on" ELSE "off"
        BY <3>1
      <4>2. Len(Transfers) = 1 /\ Transfers[1] = Cmd(<<\hAF>>)
        BY <4>1, PowerTransfers
      <4>3. \hAF \in Byte
        BY DEF Byte
      <4>4. QED
        BY <4>2, <4>3
    <3>2. CASE call = "off"
      <4>1. call = IF FALSE THEN "on" ELSE "off"
        BY <3>2
      <4>2. Len(Transfers) = 1 /\ Transfers[1] = Cmd(<<\hAE>>)
        BY <4>1, PowerTransfers
      <4>3. \hAE \in Byte
        BY DEF Byte
      <4>4. QED
        BY <4>2, <4>3
    <3>3. QED
      BY <1>1, <3>1, <3>2
  <2>2. PICK b \in Byte : Len(Transfers) = 1 /\ Transfers[1] = Cmd(<<b>>)
    BY <2>1
  <2>3. AreBytes(Transfers[1])
    BY <2>2, OneIsBytes
  <2>4. ASSUME NEW n \in 0 .. 0 PROVE n + 1 = 1
    OBVIOUS
  <2>5. QED
    BY <2>2, <2>3, <2>4
<1>2. CASE call = "flush" /\ chip = "SSD1306"
  <2>1. /\ Rows \in Int /\ Rows >= 1 /\ Len(Transfers) = Rows + 2
        /\ Transfers[1] = ColumnWindow(rect) /\ Transfers[2] = PageWindow(rect)
        /\ \A k \in 0 .. Rows - 1 : Transfers[k + 3] = Row(rect, rect.p0 + k)
    BY <1>2, RectBytes, SsdTransfers DEF Rows
  <2>2. AreBytes(Transfers[1]) /\ AreBytes(Transfers[2])
    <3>1. ColumnWindow(rect) = Cmd(<<\h21, rect.x0, rect.x1>>)
      BY <1>2, RectBytes DEF ColumnWindow
    <3>2. PageWindow(rect) = Cmd(<<\h22, rect.p0, rect.p1>>)
      BY <1>2, RectBytes DEF PageWindow
    <3>3. \h21 \in Byte /\ \h22 \in Byte
      BY DEF Byte
    <3>4. QED
      BY <1>2, <2>1, <3>1, <3>2, <3>3, RectBytes, ThreeAreBytes
  <2>3. ASSUME NEW n \in 0 .. Len(Transfers) - 1 PROVE AreBytes(Transfers[n + 1])
    <3>1. CASE n \in {0, 1}
      <4>1. n + 1 \in {1, 2}
        BY <3>1
      <4>2. QED
        BY <2>2, <4>1
    <3>2. CASE n \notin {0, 1}
      <4>1. n - 2 \in 0 .. Rows - 1 /\ (n - 2) + 3 = n + 1
        BY <2>1, <3>2
      <4>2. Transfers[n + 1] = Row(rect, rect.p0 + (n - 2))
        BY <2>1, <4>1
      <4>3. QED
        BY <1>2, <4>1, <4>2, RowsAreBytes
    <3>3. QED
      BY <3>1, <3>2
  <2>4. QED
    BY <2>1, <2>3
<1>3. CASE call = "flush" /\ chip = "SH1106"
  <2>1. Rows \in Int /\ Rows >= 1 /\ Len(Transfers) = 2 * Rows
    BY <1>3, RectBytes, ShTransfers DEF Rows
  <2>2. ASSUME NEW k \in 0 .. Rows - 1
        PROVE  /\ Transfers[2 * k + 1] = PageHeader(rect, rect.p0 + k)
               /\ Transfers[2 * k + 2] = Row(rect, rect.p0 + k)
    BY <1>3, ShTransfers DEF Rows
  <2>3. ASSUME NEW k \in 0 .. Rows - 1 PROVE AreBytes(PageHeader(rect, rect.p0 + k))
    <3> DEFINE x == \hB0 + ((rect.p0 + k) % 8)
               y == \h10 + (((rect.x0 + 2) \div 16) % 16)
               z == (rect.x0 + 2) % 16
    <3>1. rect.p0 + k \in Int /\ rect.x0 + 2 \in Int
      BY <1>3 DEF RectOK
    <3>2. x \in Byte /\ y \in Byte /\ z \in Byte
      BY <3>1 DEF Byte
    <3>3. PageHeader(rect, rect.p0 + k) = Cmd(<<x, y, z>>)
      BY DEF PageHeader
    <3> HIDE DEF x, y, z
    <3>4. QED
      BY <3>2, <3>3, ThreeAreBytes
  <2>4. ASSUME NEW n \in 0 .. Len(Transfers) - 1 PROVE AreBytes(Transfers[n + 1])
    <3>1. \E k \in 0 .. Rows - 1 : n = 2 * k \/ n = 2 * k + 1
      <4>1. n \div 2 \in 0 .. Rows - 1 /\ (n = 2 * (n \div 2) \/ n = 2 * (n \div 2) + 1)
        BY <2>1
      <4>2. QED
        BY <4>1
    <3>2. PICK k \in 0 .. Rows - 1 : n = 2 * k \/ n = 2 * k + 1
      BY <3>1
    <3>3. CASE n = 2 * k
      <4>1. Transfers[n + 1] = PageHeader(rect, rect.p0 + k)
        BY <2>2, <3>3
      <4>2. QED
        BY <2>3, <4>1
    <3>4. CASE n = 2 * k + 1
      <4>1. n + 1 = 2 * k + 2
        BY <3>4
      <4>2. Transfers[n + 1] = Row(rect, rect.p0 + k)
        BY <2>2, <4>1
      <4>3. QED
        BY <1>3, <4>2, RowsAreBytes
    <3>5. QED
      BY <3>2, <3>3, <3>4
  <2>5. QED
    BY <2>1, <2>4
<1>4. QED
  BY <1>1, <1>2, <1>3 DEF StateType, Known

\* Whatever it has collected, a byte of a command leaves the memory alone.
LEMMA AnyByte ==
    ASSUME NEW o \in OledType, NEW b \in Byte
    PROVE  Receive(o, b) \in OledType /\ Receive(o, b).gram = o.gram
<1> DEFINE cmd == Append(o.pending, b)
           q == Receive(o, b)
<1>1. cmd \in Seq(Byte) /\ Len(cmd) \in Nat /\ Len(cmd) >= 1 /\ cmd[1] \in Byte
  BY DEF OledType
<1> HIDE DEF cmd
<1>2. CASE Len(cmd) > Arguments(cmd[1])
  <2>1. q = Execute(Emptied(o), cmd)
    BY <1>2 DEF Receive, Emptied, cmd
  <2>2. cmd[1] \in {\h21, \h22} => cmd[2] \in Int /\ cmd[3] \in Int
    <3>1. cmd[1] \in {\h21, \h22} => Arguments(cmd[1]) = 2
      BY DEF Arguments
    <3>2. cmd[1] \in {\h21, \h22} => cmd[2] \in Byte /\ cmd[3] \in Byte
      BY <1>1, <1>2, <3>1
    <3>3. QED
      BY <3>2 DEF Byte
  <2>3. Emptied(o) \in OledType /\ Emptied(o).gram = o.gram
    BY EmptiedIs
  <2> HIDE DEF q
  <2>4. Obeys(Emptied(o), q)
    BY <1>1, <2>1, <2>2, <2>3, ExecuteObeys
  <2>5. QED
    BY <2>3, <2>4 DEF Obeys, q
<1>3. CASE ~(Len(cmd) > Arguments(cmd[1]))
  <2>1. q = [o EXCEPT !.pending = cmd]
    BY <1>3 DEF Receive, cmd
  <2> HIDE DEF q
  <2>2. q \in OledType /\ q.gram = o.gram
    BY <1>1, <2>1 DEF OledType
  <2>3. QED
    BY <2>2 DEF q
<1>4. QED
  BY <1>2, <1>3

\* No other call than a flush touches the memory, even then.
FlushDraws == \A c \in Cells : Visible(c)' # Visible(c) => call = "flush"

LEMMA LooseByte ==
    ASSUME Loose, SpiByte PROVE Loose' /\ FlushDraws
<1> DEFINE t == Transfers[sent + 1]
           b == t.bytes[at + 1]
<1>1. /\ Running /\ sent < Len(Transfers) /\ StateType /\ Known /\ Sending
      /\ oled' = IF t.data THEN Store(oled, b) ELSE Receive(oled, b)
      /\ IF at + 1 = Len(t.bytes) THEN sent' = sent + 1 /\ at' = 0
                                  ELSE sent' = sent /\ at' = at + 1
      /\ UNCHANGED <<build, chip, fb, call, rect, result>>
  BY DEF SpiByte, Loose
<1>2. /\ Len(Transfers) \in Nat /\ sent \in 0 .. Len(Transfers) - 1
      /\ \A n \in 0 .. Len(Transfers) - 1 : AreBytes(Transfers[n + 1])
  BY <1>1, TransfersAreBytes DEF Sending, OnTheWay
<1>3. AreBytes(t) /\ at \in 0 .. Len(t.bytes) - 1
  BY <1>1, <1>2 DEF Sending, OnTheWay
<1>4. b \in Byte
  <2>1. at + 1 \in 1 .. Len(t.bytes)
    BY <1>3 DEF AreBytes
  <2>2. QED
    BY <1>3, <2>1 DEF AreBytes
<1>5. oled \in OledType
  BY <1>1 DEF StateType
<1> HIDE DEF b
<1>6. oled' \in OledType /\ (~t.data => oled'.gram = oled.gram)
  <2>1. StoresIn(oled, Store(oled, b), b)
    BY <1>4, <1>5, StoreIs
  <2>2. Receive(oled, b) \in OledType /\ Receive(oled, b).gram = oled.gram
    BY <1>4, <1>5, AnyByte
  <2> HIDE DEF t
  <2>3. QED
    BY <1>1, <2>1, <2>2 DEF StoresIn
<1>7. FlushDraws
  <2>1. CASE call = "flush"
    BY <2>1 DEF FlushDraws
  <2>2. CASE call # "flush"
    <3>1. oled'.gram = oled.gram
      BY <1>3, <1>6, <2>2 DEF AreBytes
    <3>2. QED
      BY <1>1, <3>1 DEF FlushDraws, Visible, Left
  <2>3. QED
    BY <2>1, <2>2
<1>8. Transfers' = Transfers
  BY <1>1 DEF Transfers, driver_sh1106_flush_rect, driver_ssd1306_flush_rect, Row, PagesOf
<1>9. sent' \in Nat /\ at' \in Nat /\ OnTheWay'
  <2>1. CASE at + 1 = Len(t.bytes)
    <3>1. sent' = sent + 1 /\ at' = 0 /\ sent' \in 0 .. Len(Transfers)
      BY <1>1, <1>2, <2>1
    <3>2. sent' < Len(Transfers) => at' \in 0 .. Len(Transfers[sent' + 1].bytes) - 1
      <4>1. ASSUME sent' < Len(Transfers) PROVE AreBytes(Transfers[sent' + 1])
        BY <1>2, <3>1, <4>1
      <4>2. QED
        BY <3>1, <4>1 DEF AreBytes
    <3>3. QED
      BY <1>8, <3>1, <3>2 DEF OnTheWay
  <2>2. CASE at + 1 # Len(t.bytes)
    <3>1. sent' = sent /\ at' = at + 1
      BY <1>1, <2>2
    <3>2. at' \in 0 .. Len(t.bytes) - 1
      BY <1>3, <2>2, <3>1 DEF AreBytes
    <3>3. QED
      BY <1>1, <1>2, <1>8, <3>1, <3>2 DEF OnTheWay
  <2>3. QED
    BY <2>1, <2>2
<1>10. StateType' /\ Known' /\ Running'
  BY <1>1, <1>6, <1>9 DEF StateType, Running, OledType, Memory, Columns, Known
<1>11. Sending'
  BY <1>1, <1>9 DEF Sending, RectOK
<1>12. QED
  BY <1>7, <1>10, <1>11 DEF Loose

\* Calls begin, wherever the controller is.
Fresh ==
    /\ StateType /\ Known /\ sent = 0 /\ at = 0
    /\ call \in {"flush", "on", "off"} /\ (call = "flush" => RectOK(rect))

LEMMA FreshSends == Fresh => Sending
<1> SUFFICES ASSUME Fresh PROVE Sending
  OBVIOUS
<1>1. /\ Len(Transfers) \in Nat
      /\ \A n \in 0 .. Len(Transfers) - 1 : AreBytes(Transfers[n + 1])
  BY TransfersAreBytes DEF Fresh
<1>2. ASSUME 0 < Len(Transfers) PROVE at \in 0 .. Len(Transfers[sent + 1].bytes) - 1
  <2>1. AreBytes(Transfers[sent + 1])
    BY <1>1, <1>2 DEF Fresh
  <2>2. QED
    BY <2>1 DEF AreBytes, Fresh
<1>3. QED
  BY <1>1, <1>2 DEF Sending, OnTheWay, Fresh

LEMMA LooseStarts == ASSUME Fresh', Running' PROVE Loose'
<1>1. Fresh' => Sending'
  BY FreshSends, PTL
<1>2. QED
  BY <1>1 DEF Loose, Fresh

LEMMA LooseRests ==
    ASSUME Loose, ~Running', sent' = 0, at' = 0, chip' = chip, oled' = oled, build' = build,
           call' \in {"none", "flush", "on", "off"}, result' \in {"true", "false"},
           fb' \in [Cells -> Byte]
    PROVE  Loose'
BY DEF Loose, StateType, Known, Running, OledType, Memory, Columns

LEMMA LooseCall ==
    ASSUME Loose, ~Running,
           \/ \E r \in Rects : driver_flush_rect(r)
           \/ driver_clear
           \/ \E on \in BOOLEAN : driver_set_power(on)
    PROVE  Loose' /\ (Ready(oled) => Sound')
<1>1. StateType /\ sent = 0 /\ at = 0 /\ Known
  BY DEF Loose
<1>2. Fresh' /\ Running' /\ (Ready(oled) => Sound')
  <2>1. ASSUME NEW r \in Rects, driver_flush_rect(r)
        PROVE  Fresh' /\ Running' /\ (Ready(oled) => Sound')
    BY <1>1, <2>1, FlushBegins DEF Fresh, Running
  <2>2. CASE driver_clear
    BY <1>1, <2>2, ClearBegins DEF Fresh, Running
  <2>3. ASSUME NEW on \in BOOLEAN, driver_set_power(on)
        PROVE  Fresh' /\ Running' /\ (Ready(oled) => Sound')
    BY <1>1, <2>3, PowerBegins DEF Fresh, Running, Settled
  <2>4. QED
    BY <2>1, <2>2, <2>3
<1>3. QED
  BY <1>2, LooseStarts

LEMMA LooseNext == ASSUME Loose, torn, [Next]_vars PROVE PanelInv'
<1>1. ~driver_init
  BY DEF Loose, Known, driver_init
<1>2. ASSUME \/ \E r \in Rects : driver_flush_rect(r)
             \/ driver_clear
             \/ \E on \in BOOLEAN : driver_set_power(on)
      PROVE  PanelInv'
  <2>1. ~Running /\ torn' = (torn /\ ~Waits)
    BY <1>2 DEF driver_flush_rect, driver_clear, driver_set_power, Begins
  <2>2. Waits <=> Ready(oled)
    BY DEF Waits, Ready
  <2>3. Loose' /\ (Ready(oled) => Sound')
    BY <1>2, <2>1, LooseCall
  <2>4. QED
    BY <2>1, <2>2, <2>3 DEF PanelInv
<1>3. ASSUME NEW r \in Rects, FlushRefused(r) PROVE PanelInv'
  <2>1. Loose'
    BY <1>3, LooseRests DEF FlushRefused, Loose, StateType, Running
  <2>2. QED
    BY <1>3, <2>1 DEF FlushRefused, PanelInv
<1>4. CASE SpiByte
  BY <1>4, LooseByte DEF SpiByte, PanelInv
<1>5. CASE SpiFails
  <2>1. Loose'
    BY <1>5, LooseRests DEF SpiFails, Loose, StateType, Running, Sending
  <2>2. QED
    BY <1>5, <2>1 DEF SpiFails, PanelInv
<1>6. CASE Returns
  <2>1. at = 0 /\ call \in {"flush", "on", "off"}
    BY <1>6 DEF Returns, Loose, Sending, OnTheWay
  <2>2. Loose'
    BY <1>6, <2>1, LooseRests DEF Returns, Loose, StateType, Running
  <2>3. QED
    BY <1>6, <2>2 DEF Returns, PanelInv
<1>7. ASSUME NEW f \in Frames, Repaint(f) PROVE PanelInv'
  <2>1. f \in [Cells -> Byte]
    BY PanelAssumption DEF Byte
  <2>2. Loose'
    BY <1>7, <2>1, LooseRests DEF Repaint, Loose, StateType, Running
  <2>3. QED
    BY <1>7, <2>2 DEF Repaint, PanelInv
<1>8. CASE UNCHANGED vars
  <2>1. UNCHANGED <<build, chip, fb, call, rect, sent, at, result, oled, torn>>
    BY <1>8 DEF vars
  <2>2. Transfers' = Transfers
    BY <2>1 DEF Transfers, driver_sh1106_flush_rect, driver_ssd1306_flush_rect, Row, PagesOf
  <2>3. StateType' /\ Known' /\ Running' = Running /\ Sending' = Sending
    BY <2>1, <2>2 DEF Loose, StateType, Known, Running, OledType, Memory, Columns, Sending,
                      OnTheWay, RectOK
  <2>4. QED
    BY <2>1, <2>3 DEF Loose, PanelInv
<1>9. QED
  BY <1>1, <1>2, <1>3, <1>4, <1>5, <1>6, <1>7, <1>8 DEF Next

-------------------------------------------------------------------------------
\* No command was cut short: every action keeps the controller in its place, but for
\* the failure that cuts one.
LEMMA SoundNext == ASSUME Sound, torn = FALSE, [Next]_vars PROVE PanelInv'
<1>1. ASSUME Sound', torn' = FALSE PROVE PanelInv'
  BY <1>1 DEF PanelInv
<1>2. CASE driver_init
  BY <1>1, <1>2, InitBegins DEF driver_init, Begins
<1>3. ASSUME ~Running PROVE StateType /\ sent = 0 /\ at = 0 /\ Settled(oled)
  BY <1>3 DEF Sound, Resting
<1>4. ASSUME NEW r \in Rects, driver_flush_rect(r) PROVE PanelInv'
  <2>1. ~Running /\ Known /\ torn' = FALSE
    BY <1>4 DEF driver_flush_rect, Begins, Known
  <2>2. Sound'
    BY <1>3, <1>4, <2>1, FlushBegins DEF Settled
  <2>3. QED
    BY <1>1, <2>1, <2>2
<1>5. ASSUME NEW r \in Rects, FlushRefused(r) PROVE PanelInv'
  BY <1>1, <1>5, FlushIsRefused DEF FlushRefused
<1>6. CASE driver_clear
  <2>1. ~Running /\ Known /\ torn' = FALSE
    BY <1>6 DEF driver_clear, Begins, Known
  <2>2. Sound'
    BY <1>3, <1>6, <2>1, ClearBegins DEF Settled
  <2>3. QED
    BY <1>1, <2>1, <2>2
<1>7. ASSUME NEW on \in BOOLEAN, driver_set_power(on) PROVE PanelInv'
  <2>1. ~Running /\ torn' = FALSE
    BY <1>7 DEF driver_set_power, Begins
  <2>2. Sound'
    BY <1>3, <1>7, <2>1, PowerBegins
  <2>3. QED
    BY <1>1, <2>1, <2>2
<1>8. CASE SpiByte
  BY <1>1, <1>8, OneByte DEF SpiByte
<1>9. CASE SpiFails
  <2>1. CASE ~torn'
    <3>1. torn' = FALSE
      BY <1>9, <2>1 DEF SpiFails
    <3>2. QED
      BY <1>1, <1>9, <2>1, <3>1, OneFails
  <2>2. CASE torn'
    <3>1. /\ call = "flush" /\ torn' = TRUE /\ result' = "false" /\ sent' = 0 /\ at' = 0
          /\ UNCHANGED <<build, chip, fb, call, rect, oled>> /\ Running
      BY <1>9, <2>2 DEF SpiFails
    <3>2. StateType' /\ Known' /\ ~Running'
      BY <3>1 DEF Sound, Flushing, StateType, Running, OledType, Memory, Columns, Known
    <3>3. Loose'
      BY <3>1, <3>2 DEF Loose
    <3>4. QED
      BY <3>1, <3>3 DEF PanelInv
  <2>3. QED
    BY <2>1, <2>2
<1>10. CASE Returns
  BY <1>1, <1>10, CallReturns DEF Returns
<1>11. ASSUME NEW f \in Frames, Repaint(f) PROVE PanelInv'
  BY <1>1, <1>11, Repainted DEF Repaint
<1>12. CASE UNCHANGED vars
  BY <1>1, <1>12, InvStutters DEF vars
<1>13. QED
  BY <1>2, <1>4, <1>5, <1>6, <1>7, <1>8, <1>9, <1>10, <1>11, <1>12 DEF Next

THEOREM PanelInvariant == Spec => []PanelInv
<1>1. Init => PanelInv
  BY InitiallyInv DEF PanelInv, Init
<1>2. PanelInv /\ [Next]_vars => PanelInv'
  <2>1. SUFFICES ASSUME PanelInv, [Next]_vars PROVE PanelInv'
    OBVIOUS
  <2>2. CASE torn
    BY <2>1, <2>2, LooseNext DEF PanelInv
  <2>3. CASE ~torn
    <3>1. Sound /\ torn = FALSE
      BY <2>1, <2>3 DEF PanelInv
    <3>2. QED
      BY <2>1, <2>3, <3>1, SoundNext
  <2>4. QED
    BY <2>2, <2>3
<1>3. QED
  BY <1>1, <1>2, PTL DEF Spec

\* A flush that returns true has brought its rectangle of the framebuffer to the glass,
\* whatever calls went before it and wherever their transfers failed, unless a flush was
\* cut short within a command and no call since has found the controller waiting for one
\* (driver_flush_rect, driver_ssd1306_flush_rect, driver_sh1106_flush_rect).
THEOREM FlushesShow == Spec => []FlushShows
<1>1. PanelInv => FlushShows
  BY DEF PanelInv, Sound, FlushShown, FlushShows
<1>2. QED
  BY <1>1, PanelInvariant, PTL

\* A chip that driver_init has noted waits for commands in its driver's mode between
\* calls, even when attempts to initialise it failed half way, unless a flush was cut
\* short within a command.
THEOREM KnownChipsAreReady == Spec => []KnownChipIsReady
<1>1. PanelInv => KnownChipIsReady
  BY DEF PanelInv, Sound, KnownChipIsReady, Waits, Resting, StateType, Settled, Known, Ready
<1>2. QED
  BY <1>1, PanelInvariant, PTL

\* No byte that a call of the driver sends changes the picture, but for a flush, and that
\* only inside its rectangle, unless a flush was cut short within a command before.
THEOREM TheRestIsUntouched == Spec => RestUntouched
<1>1. ASSUME PanelInv, [Next]_vars
      PROVE  [\A c \in Cells : Visible(c)' # Visible(c) =>
                 call = "flush" /\ (InRect(rect, c) \/ torn)]_vars
  <2>1. CASE SpiByte
    <3>1. CASE torn
      BY <1>1, <2>1, <3>1, LooseByte DEF PanelInv, FlushDraws
    <3>2. CASE ~torn
      BY <1>1, <2>1, <3>2, OneByte DEF PanelInv, GlassKept
    <3>3. QED
      BY <3>1, <3>2
  <2>2. CASE ~SpiByte
    <3>1. UNCHANGED <<build, oled>>
      BY <1>1, <2>2 DEF Next, vars, driver_init, driver_flush_rect, FlushRefused, driver_clear,
                        driver_set_power, SpiFails, Returns, Repaint, Begins
    <3>2. QED
      BY <3>1 DEF Visible, Left
  <2>3. QED
    BY <2>1, <2>2
<1>2. QED
  BY <1>1, PanelInvariant, PTL DEF Spec, RestUntouched
===============================================================================
