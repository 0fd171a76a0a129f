-------------------------------- MODULE Panel --------------------------------
(***************************************************************************)
(* The panel driver: driver.c and driver_ssd1306.c.                        *)
(*                                                                         *)
(* A call of the driver is a sequence of SPI transfers, which goes out     *)
(* byte by byte; the first transfer that fails ends the call.  The OLED    *)
(* controller at the other end is external and modelled by its command     *)
(* set: it collects the bytes of a command, across transfers, and moves a  *)
(* pointer through its memory as data arrives.  The driver never reads it: *)
(* that pixels land where they belong rests on what every earlier transfer *)
(* left in the controller.                                                 *)
(***************************************************************************)
EXTENDS Integers, Sequences

CONSTANTS
    Width, Pages,     \* DISPLAY_WIDTH_PX, DISPLAY_PAGES
    Builds,           \* "SSD1306": DISPLAY_DRIVER_AUTO = 1, "SH1106": 0
    Frames,           \* framebuffers that compositor_repaint may produce
    Rects             \* rectangles display_flush may pass

Cells == (0 .. Pages - 1) \X (0 .. Width - 1)

\* The fields of the commands hold a column of 7 bits and a page of 3.
ASSUME PanelAssumption ==
    /\ Width \in 1 .. 128 /\ Pages \in 1 .. 8
    /\ Builds \subseteq {"SSD1306", "SH1106"}
    /\ \A f \in Frames : f \in [Cells -> 0 .. 255]
    /\ \A r \in Rects : r \in [x0 : Nat, p0 : Nat, x1 : Nat, p1 : Nat]

VARIABLES
    build,            \* the driver compiled in, and the controller fitted
    chip,             \* g_info.chip
    fb,               \* the framebuffer, byte by byte
    call, rect,       \* the call in progress or last made, its rectangle
    sent, at,         \* its transfers that are made, the bytes of the next one
    result,           \* "none" while it runs, then what it returned
    oled,             \* the controller
    torn              \* history: a flush was cut short within a command, and no call
                      \* of the driver has found the controller waiting for one since

vars == <<build, chip, fb, call, rect, sent, at, result, oled, torn>>

Columns(b) == IF b = "SH1106" THEN Width + 4 ELSE Width
Noise == -1           \* what the controller's memory holds at power-on

-------------------------------------------------------------------------------
(***************************************************************************)
(* The controller.                                                         *)
(***************************************************************************)
PowerOn(b) ==
    [on |-> FALSE, horizontal |-> FALSE, pending |-> <<>>,
     c0 |-> 0, c1 |-> Columns(b) - 1, p0 |-> 0, p1 |-> Pages - 1,
     col |-> 0, page |-> 0,
     gram |-> [a \in (0 .. Pages - 1) \X (0 .. Columns(b) - 1) |-> Noise]]

\* Bytes that follow a command byte.
Arguments(b) ==
    CASE b \in {\h21, \h22} -> 2
      [] b \in {\h20, \h81, \h8D, \hA8, \hD3, \hD5, \hD9, \hDA, \hDB} -> 1
      [] OTHER -> 0

\* The address windows exist in the SSD1306's horizontal mode only, and their fields
\* hold addresses of its memory; the page and the two halves of the column are set
\* one by one in page mode.
Execute(o, cmd) ==
    LET b == cmd[1] IN
    CASE b \in {\hAE, \hAF} -> [o EXCEPT !.on = (b = \hAF)]
      [] b = \h20 -> [o EXCEPT !.horizontal = build = "SSD1306" /\ cmd[2] = 0]
      [] b = \h21 /\ o.horizontal ->
            LET x(i) == cmd[i] % Columns(build)
            IN  [o EXCEPT !.c0 = x(2), !.c1 = x(3), !.col = x(2)]
      [] b = \h22 /\ o.horizontal ->
            LET y(i) == cmd[i] % Pages
            IN  [o EXCEPT !.p0 = y(2), !.p1 = y(3), !.page = y(2)]
      [] b \in \hB0 .. \hB7 /\ ~o.horizontal -> [o EXCEPT !.page = b - \hB0]
      [] b \in \h00 .. \h0F /\ ~o.horizontal -> [o EXCEPT !.col = (16 * (@ \div 16)) + b]
      [] b \in \h10 .. \h1F /\ ~o.horizontal -> [o EXCEPT !.col = (16 * (b - \h10)) + (@ % 16)]
      [] OTHER -> o

Receive(o, b) ==
    LET cmd == Append(o.pending, b) IN
    IF Len(cmd) > Arguments(cmd[1])
    THEN Execute([o EXCEPT !.pending = <<>>], cmd)
    ELSE [o EXCEPT !.pending = cmd]

\* A data byte is stored at the pointer; horizontal mode wraps in the window, and
\* at the end of the memory when the window does not end after it starts.
\* A pointer outside the memory stores nothing.
After(x, size) == IF x = size - 1 THEN 0 ELSE x + 1

Store(o, v) ==
    LET endOfRow == IF o.horizontal THEN o.col = o.c1 ELSE o.col = Columns(build) - 1
    IN  [o EXCEPT
            !.gram = [a \in DOMAIN @ |-> IF a = <<o.page, o.col>> THEN v ELSE @[a]],
            !.col = IF endOfRow THEN (IF o.horizontal THEN o.c0 ELSE 0)
                    ELSE After(@, Columns(build)),
            !.page = IF endOfRow /\ o.horizontal
                     THEN (IF @ = o.p1 THEN o.p0 ELSE After(@, Pages))
                     ELSE @]

\* The SH1106's memory is wider than its glass, which starts at column 2.
Left == IF build = "SH1106" THEN 2 ELSE 0
Visible(cell) == oled.gram[<<cell[1], Left + cell[2]>>]

-------------------------------------------------------------------------------
(***************************************************************************)
(* What each call of the driver sends.                                     *)
(***************************************************************************)
Cmd(bytes) == [data |-> FALSE, bytes |-> bytes]       \* cmd_byte, cmd_seq
Data(bytes) == [data |-> TRUE, bytes |-> bytes]       \* data_seq

\* Every byte of the initialisation is a transfer of its own.
Singles(bytes) == [i \in DOMAIN bytes |-> Cmd(<<bytes[i]>>)]

ssd1306_init_cmds ==
    <<\hAE, \hD5, \h80, \hA8, \h1F, \hD3, \h00, \h40, \h8D, \h14, \h20, \h00, \hA1,
      \hC8, \hDA, \h02, \h81, \h8F, \hD9, \hF1, \hDB, \h40, \hA4, \hA6, \hAF>>

sh1106_init_cmds ==
    <<\hAE, \hD5, \h80, \hA8, \h3F, \hD3, \h00, \h40, \h8D, \h14, \h20, \h00, \hA1,
      \hC8, \hDA, \h12, \h81, \hCF, \hD9, \hF1, \hDB, \h40, \hA4, \hA6, \hAF>>

driver_ssd1306_init_NoMode ==
    Singles(SubSeq(ssd1306_init_cmds, 1, 10) \o SubSeq(ssd1306_init_cmds, 13, 25))

driver_ssd1306_init == Singles(ssd1306_init_cmds)
driver_sh1106_init == Singles(sh1106_init_cmds)

AtMost(a, b) == IF a < b THEN a ELSE b
Clamped(r) == [r EXCEPT !.x1 = AtMost(@, Width - 1), !.p1 = AtMost(@, Pages - 1)]
OffScreen(r) == Clamped(r).x0 > Clamped(r).x1 \/ Clamped(r).p0 > Clamped(r).p1

Row(r, p) == Data([i \in 1 .. r.x1 - r.x0 + 1 |-> fb[<<p, r.x0 + i - 1>>]])
PagesOf(r) == r.p1 - r.p0 + 1

ColumnWindow_TooWide(r) == Cmd(<<\h21, r.x0 % 128, (r.x1 + 1) % 128>>)
ColumnWindow(r) == Cmd(<<\h21, r.x0 % 128, r.x1 % 128>>)
PageWindow(r) == Cmd(<<\h22, r.p0 % 8, r.p1 % 8>>)

driver_ssd1306_flush_rect(r) ==
    [i \in 1 .. PagesOf(r) + 2 |->
        CASE i = 1 -> ColumnWindow(r)
          [] i = 2 -> PageWindow(r)
          [] OTHER -> Row(r, r.p0 + i - 3)]

\* Before each row its page and, two columns on, its start.
PageHeader(r, p) ==
    Cmd(<<\hB0 + (p % 8), \h10 + (((r.x0 + 2) \div 16) % 16), (r.x0 + 2) % 16>>)

driver_sh1106_flush_rect(r) ==
    [i \in 1 .. 2 * PagesOf(r) |->
        IF i % 2 = 1 THEN PageHeader(r, r.p0 + i \div 2) ELSE Row(r, r.p0 + i \div 2 - 1)]

\* The transfers of the call in progress.
Transfers ==
    CASE call = "init" -> IF build = "SH1106" THEN driver_sh1106_init ELSE driver_ssd1306_init
      [] call = "flush" -> IF chip = "SH1106" THEN driver_sh1106_flush_rect(rect)
                                              ELSE driver_ssd1306_flush_rect(rect)
      [] call = "on" -> <<Cmd(<<\hAF>>)>>
      [] call = "off" -> <<Cmd(<<\hAE>>)>>
      [] OTHER -> <<>>

-------------------------------------------------------------------------------
Init ==
    /\ build \in Builds
    /\ chip = "UNKNOWN"
    /\ fb = [c \in Cells |-> 0]
    /\ call = "none"
    /\ rect = [x0 |-> 0, p0 |-> 0, x1 |-> 0, p1 |-> 0]
    /\ sent = 0 /\ at = 0
    /\ result = "true"
    /\ oled = PowerOn(build)
    /\ torn = FALSE

Running == result = "none"

\* The controller waits for a command, in the mode of its driver.
Waits == oled.pending = <<>> /\ oled.horizontal = (build = "SSD1306")

Begins(c) ==
    /\ ~Running
    /\ call' = c
    /\ result' = "none"
    /\ torn' = (torn /\ ~Waits)
    /\ UNCHANGED <<build, sent, at, oled>>

\* driver_init, as display_init calls it: not again once it has succeeded.
driver_init_Trusting ==
    /\ chip = "UNKNOWN"
    /\ Begins("init")
    /\ chip' = build
    /\ UNCHANGED <<fb, rect>>

driver_init ==
    /\ chip = "UNKNOWN"
    /\ Begins("init")
    /\ UNCHANGED <<chip, fb, rect>>

\* driver_flush_rect.  Only the SSD1306 backend tests for a rectangle that is
\* off the screen; SH1106's row length wraps there, which is left out.
driver_flush_rect(r) ==
    /\ chip # "UNKNOWN" /\ ~OffScreen(r)
    /\ Begins("flush")
    /\ rect' = Clamped(r)
    /\ UNCHANGED <<chip, fb>>

FlushRefused(r) ==
    /\ ~Running
    /\ chip = "UNKNOWN" \/ (chip = "SSD1306" /\ OffScreen(r))
    /\ call' = "flush"
    /\ rect' = r
    /\ result' = "false"
    /\ UNCHANGED <<build, chip, fb, sent, at, oled, torn>>

\* driver_clear: the framebuffer is cleared and sent whole (driver_flush_all).
FullRect == [x0 |-> 0, p0 |-> 0, x1 |-> Width - 1, p1 |-> Pages - 1]
driver_clear ==
    /\ chip # "UNKNOWN"
    /\ Begins("flush")
    /\ fb' = [c \in Cells |-> 0]
    /\ rect' = FullRect
    /\ UNCHANGED chip

driver_set_power(on) ==
    /\ Begins(IF on THEN "on" ELSE "off")
    /\ UNCHANGED <<chip, fb, rect>>

\* hal_spi_write sends one more byte of the transfer.
SpiByte ==
    /\ Running /\ sent < Len(Transfers)
    /\ LET t == Transfers[sent + 1]
           b == t.bytes[at + 1]
       IN  /\ oled' = IF t.data THEN Store(oled, b) ELSE Receive(oled, b)
           /\ IF at + 1 = Len(t.bytes) THEN sent' = sent + 1 /\ at' = 0
                                       ELSE sent' = sent /\ at' = at + 1
    /\ UNCHANGED <<build, chip, fb, call, rect, result, torn>>

\* ... or fails, after any number of them; the call returns false.  A transfer that
\* fails with all its bytes sent is the next one failing with none, but for the last.
SpiFails ==
    /\ Running
    /\ sent' = 0 /\ at' = 0
    /\ torn' = (torn \/ (call = "flush" /\ oled.pending # <<>>))
    /\ result' = "false"
    /\ UNCHANGED <<build, chip, fb, call, rect, oled>>

\* All transfers made: the call returns true, and driver_init notes the chip.
Returns ==
    /\ Running /\ sent = Len(Transfers)
    /\ sent' = 0
    /\ result' = "true"
    /\ chip' = IF call = "init" THEN build ELSE chip
    /\ UNCHANGED <<build, fb, call, rect, at, oled, torn>>

\* compositor_repaint: between two calls the framebuffer may change.
Repaint(f) ==
    /\ ~Running
    /\ fb' = f
    /\ call' = "none"
    /\ UNCHANGED <<build, chip, rect, sent, at, result, oled, torn>>

Next ==
    \/ driver_init
    \/ \E r \in Rects : driver_flush_rect(r)
    \/ \E r \in Rects : FlushRefused(r)
    \/ driver_clear
    \/ \E on \in BOOLEAN : driver_set_power(on)
    \/ SpiByte
    \/ SpiFails
    \/ Returns
    \/ \E f \in Frames : Repaint(f)

Spec == Init /\ [][Next]_vars

-------------------------------------------------------------------------------
InRect(r, c) == r.p0 <= c[1] /\ c[1] <= r.p1 /\ r.x0 <= c[2] /\ c[2] <= r.x1

\* A flush that returns true has brought the framebuffer's bytes to their places
\* on the glass, whatever transfers failed before it: driver_flush_rect
\* (driver.h:44-45) relies on modes and pointers that it does not read back.  The
\* one failure it does not survive is that of a flush within the three bytes of a
\* command: the controller takes the first bytes of the next call for the rest.
FlushShows ==
    call = "flush" /\ result = "true" /\ ~torn =>
        \A c \in Cells : InRect(rect, c) => Visible(c) = fb[c]

\* A flush, even one that fails half way, changes nothing outside its rectangle,
\* and no other call of the driver, whatever came before it, changes a byte of the
\* picture.  After a command cut short a flush may draw elsewhere.
RestUntouched ==
    [][\A c \in Cells : Visible(c)' # Visible(c) =>
          call = "flush" /\ (InRect(rect, c) \/ torn)]_vars

\* g_info.chip tells that the panel works: once driver_init has returned true,
\* between calls the controller waits for a command in the mode its driver needs.
\* Initialisations that failed after any byte must have left nothing behind, and of
\* the calls after them only a flush cut short within a command does.
KnownChipIsReady == chip # "UNKNOWN" /\ ~Running /\ ~torn => Waits
===============================================================================
