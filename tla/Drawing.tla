------------------------------- MODULE Drawing -------------------------------
(***************************************************************************)
(* What the drawing primitives of display.c write into the framebuffer,    *)
(* and the rectangle the compositor announces as dirty for the same layer. *)
(*                                                                         *)
(* A layer is a record.  The pixels of a glyph or of a bitmap are taken to *)
(* be all lit or all dark ("on"): the primitives write dark pixels as well *)
(* as lit ones, and that is all that composing layers depends on.          *)
(* Coordinates keep the width of the C types: x0..x1 are u16, y0..y1 u8,   *)
(* and a bitmap's row is an int8.                                          *)
(*                                                                         *)
(* A definition Def_Slip is Def with a plausible programming mistake.  No  *)
(* specification uses it: it is there to show that a property notices.     *)
(***************************************************************************)
EXTENDS Integers

CONSTANTS
    Width, Height,    \* DISPLAY_WIDTH_PX (128), DISPLAY_HEIGHT_PX (32)
    PageRows,         \* rows of a panel page: 8
    GlyphW, GlyphH,   \* FONT_GLYPH_W (5), FONT_GLYPH_H (7)
    XMod, YMod        \* 2^16 and 2^8

ASSUME GeometryAssumption ==
    /\ {Width, Height, PageRows, GlyphW, GlyphH, XMod, YMod} \subseteq Nat \ {0}
    /\ Width < XMod
    /\ 2 * Height < YMod
    /\ Height % PageRows = 0

Pixels == (0 .. Width - 1) \X (0 .. Height - 1)
Pages == 0 .. (Height \div PageRows) - 1

Fill(x, y, w, h, on) == [kind |-> "fill", x |-> x, y |-> y, w |-> w, h |-> h, on |-> on]
Text(x, y, len, on) == [kind |-> "text", x |-> x, y |-> y, w |-> len, h |-> GlyphH, on |-> on]
Bitmap(x, y, w, h, on) == [kind |-> "bitmap", x |-> x, y |-> y, w |-> w, h |-> h, on |-> on]
NoLayer == [kind |-> "none", x |-> 0, y |-> 0, w |-> 0, h |-> 0, on |-> FALSE]

Rect(x0, y0, x1, y1) == [x0 |-> x0, y0 |-> y0, x1 |-> x1, y1 |-> y1]
FullRect == Rect(0, 0, Width - 1, Height - 1)

\* An inverted rectangle is one that wrapped around: every user ignores it.
Inverted(r) == r.x0 > r.x1 \/ r.y0 > r.y1

\* display_fill_rect: the rectangle, clipped to the screen.
PixelsOf(r) ==
    {p \in Pixels : r.x0 <= p[1] /\ p[1] <= r.x1 /\ r.y0 <= p[2] /\ p[2] <= r.y1}

BoxOf_NoWrap(x, y, w, h) == Rect(x, y, x + w - 1, y + h - 1)

\* The last row and column of a w by h box at (x, y), as u16 and u8.
BoxOf(x, y, w, h) == Rect(x, y, (x + w - 1) % XMod, (y + h - 1) % YMod)

\* The rectangle compositor_set_* passes to expand_dirty.
Announced(d) ==
    BoxOf(d.x, d.y, IF d.kind = "text" THEN d.w * (GlyphW + 1) ELSE d.w, d.h)

SignedRow(y) == IF y < YMod \div 2 THEN y ELSE y - YMod

\* The pixels a layer writes when it is painted.
Footprint(d) ==
    CASE d.kind = "fill" -> PixelsOf(BoxOf(d.x, d.y, d.w, d.h))
      [] d.kind = "text" ->
            {p \in Pixels : \E k \in 0 .. d.w - 1 :
                LET cx == d.x + k * (GlyphW + 1)
                IN /\ cx <= p[1] /\ p[1] < cx + GlyphW
                   /\ d.y <= p[2] /\ p[2] < d.y + d.h}
      [] d.kind = "bitmap" ->
            {p \in Pixels :
                /\ d.x <= p[1] /\ p[1] < d.x + d.w
                /\ SignedRow(d.y) <= p[2] /\ p[2] < SignedRow(d.y) + d.h}
      [] OTHER -> {}

Enclosing(r, s) ==
    Rect(IF r.x0 < s.x0 THEN r.x0 ELSE s.x0, IF r.y0 < s.y0 THEN r.y0 ELSE s.y0,
         IF r.x1 > s.x1 THEN r.x1 ELSE s.x1, IF r.y1 > s.y1 THEN r.y1 ELSE s.y1)

Expand_Replaces(old, none, r) == IF Inverted(r) THEN old ELSE r

\* expand_dirty on the dirty rectangle "old", where "none" stands for !has_dirty.
Expand(old, none, r) ==
    IF Inverted(r) THEN old
    ELSE IF old = none THEN r ELSE Enclosing(old, r)
==============================================================================
