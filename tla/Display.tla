------------------------------- MODULE Display -------------------------------
(***************************************************************************)
(* From a display command to the panel: compositor.c, display_main.c and   *)
(* driver_ssd1306_flush_rect.                                              *)
(*                                                                         *)
(* The main loop repaints the framebuffer, takes the dirty rectangle and   *)
(* sends the pages it covers over SPI.  Display commands change layers and *)
(* the dirty rectangle.  The USB interrupt dispatches them (pump.c:33-38): *)
(* they come between any two steps of the loop.                            *)
(*                                                                         *)
(* The panel is external: it shows what was last sent to it.  Commands the *)
(* handlers reject (bad layer, zero size, short packet) change nothing and *)
(* are left out.                                                           *)
(***************************************************************************)
EXTENDS Drawing, FiniteSets

CONSTANTS
    NumLayers,     \* DISPLAY_MAX_LAYERS (16)
    Drawings,      \* the layers the host may set
    NoRect         \* has_dirty is false

VARIABLES
    layers,     \* the compositor's layers, bottom first
    dirty,      \* its dirty rectangle, or NoRect
    fb,         \* lit pixels of the framebuffer
    panel,      \* lit pixels of the panel
    pc,         \* the next step of the main loop
    next,       \* the next layer to paint, or the next page to send
    taken,      \* the rectangle display_flush works on
    repainted,  \* history: pixels the last repaint erased first and that have
                \* not changed since under a layer it had painted
    stale       \* history: pixels whose change was announced by no rectangle, came
                \* too late for the repaint that clears has_dirty, or was not sent

vars == <<layers, dirty, fb, panel, pc, next, taken, repainted, stale>>

Layers == 0 .. NumLayers - 1
Rects == [x0 : 0 .. XMod - 1, y0 : 0 .. YMod - 1, x1 : 0 .. XMod - 1, y1 : 0 .. YMod - 1]

\* What a handler takes from a command: positions of a byte or two, any size.
ASSUME LayerAssumption ==
    /\ NumLayers \in Nat \ {0} /\ NoRect \notin Rects
    /\ Drawings \subseteq [kind : {"fill", "text", "bitmap"}, x : 0 .. XMod - 1,
                            y : 0 .. YMod - 1, w : Nat, h : Nat, on : BOOLEAN]

TypeOK ==
    /\ layers \in [Layers -> Drawings \cup {NoLayer}]
    /\ dirty \in Rects \cup {NoRect} /\ taken \in Rects \cup {NoRect}
    /\ fb \subseteq Pixels /\ panel \subseteq Pixels
    /\ repainted \subseteq Pixels /\ stale \subseteq Pixels
    /\ pc \in {"init", "off", "first", "pump", "erase", "paint", "take", "clear", "flush"}
    /\ next \in Nat

\* What the screen should show: at each pixel the topmost layer covering it.
Covering(p) == {i \in Layers : p \in Footprint(layers[i])}
Shown == {p \in Pixels : \E i \in Covering(p) :
             layers[i].on /\ \A j \in Covering(p) : j <= i}

-------------------------------------------------------------------------------
(***************************************************************************)
(* The main loop.  The random content of the panel at power-on is          *)
(* represented by a panel that is all lit.                                 *)
(***************************************************************************)
Init ==
    /\ layers = [i \in Layers |-> NoLayer]
    /\ dirty = NoRect
    /\ fb = {}
    /\ panel = Pixels
    /\ pc = "init"
    /\ next = 0
    /\ taken = NoRect
    /\ repainted = {}
    /\ stale = Pixels

\* display_init: the first frame is black and is sent whole (driver_clear).
DisplayInit ==
    /\ pc = "init"
    /\ fb' = {}
    /\ taken' = FullRect
    /\ next' = 0
    /\ pc' = "first"
    /\ repainted' = Pixels
    /\ UNCHANGED <<layers, dirty, panel, stale>>

\* driver_init fails: the dispatcher has no compositor, display_flush returns
\* at once, and nothing tries again.
DisplayInitFails ==
    /\ pc = "init"
    /\ pc' = "off"
    /\ UNCHANGED <<layers, dirty, fb, panel, next, taken, repainted, stale>>

Off == pc = "off" /\ UNCHANGED vars

Pump ==
    /\ pc = "pump"
    /\ pc' = "erase"
    /\ UNCHANGED <<layers, dirty, fb, panel, next, taken, repainted, stale>>

\* compositor_repaint erases the dirty rectangle, or everything if there is none.
Erased == IF dirty = NoRect THEN Pixels ELSE PixelsOf(dirty)

Erase ==
    /\ pc = "erase"
    /\ fb' = fb \ Erased
    /\ repainted' = Erased
    /\ next' = 0
    /\ pc' = "paint"
    /\ UNCHANGED <<layers, dirty, panel, taken, stale>>

PaintOver(old, d) == (old \ Footprint(d)) \cup (IF d.on THEN Footprint(d) ELSE {})

\* ... and then paints every layer, bottom first.
PaintLayer ==
    /\ pc = "paint"
    /\ next < NumLayers
    /\ fb' = PaintOver(fb, layers[next])
    /\ next' = next + 1
    /\ UNCHANGED <<layers, dirty, panel, pc, taken, repainted, stale>>

PaintDone ==
    /\ pc = "paint"
    /\ next = NumLayers
    /\ pc' = "take"
    /\ UNCHANGED <<layers, dirty, fb, panel, next, taken, repainted, stale>>

\* compositor_take_dirty copies the rectangle ...
TakeDirty ==
    /\ pc = "take"
    /\ taken' = dirty
    /\ pc' = "clear"
    /\ UNCHANGED <<layers, dirty, fb, panel, next, repainted, stale>>

PageOf(row) == row \div PageRows

\* driver_ssd1306_flush_rect sends nothing for a rectangle off the screen.
NothingToSend(r) == r = NoRect \/ r.x0 >= Width \/ PageOf(r.y0) \notin Pages

\* ... and then clears has_dirty; display_flush goes on with the copy.
ClearDirty ==
    /\ pc = "clear"
    /\ dirty' = NoRect
    /\ pc' = IF NothingToSend(taken) THEN "pump" ELSE "flush"
    /\ next' = IF NothingToSend(taken) THEN 0 ELSE PageOf(taken.y0)
    /\ taken' = IF NothingToSend(taken) THEN NoRect ELSE taken
    /\ UNCHANGED <<layers, fb, panel, repainted, stale>>

\* The part of a page that a flush of rectangle r sends: whole bytes.
Sent(r, page) == {p \in Pixels : r.x0 <= p[1] /\ p[1] <= r.x1 /\ PageOf(p[2]) = page}

\* The loop ends at the last page of the rectangle or of the panel.
LastPage(r, page) == page = PageOf(r.y1) \/ page + 1 \notin Pages

FlushPage_Once ==
    /\ pc \in {"first", "flush"}
    /\ panel' = (panel \ Sent(taken, next)) \cup (fb \cap Sent(taken, next))
    /\ stale' = stale \ (Sent(taken, next) \cap repainted)
    /\ pc' = "pump"
    /\ next' = 0
    /\ taken' = NoRect
    /\ UNCHANGED <<layers, dirty, fb, repainted>>

FlushPage ==
    /\ pc \in {"first", "flush"}
    /\ panel' = (panel \ Sent(taken, next)) \cup (fb \cap Sent(taken, next))
    /\ stale' = stale \ (Sent(taken, next) \cap repainted)
    /\ pc' = IF LastPage(taken, next) THEN "pump" ELSE pc
    /\ next' = IF LastPage(taken, next) THEN 0 ELSE next + 1
    /\ taken' = IF LastPage(taken, next) THEN NoRect ELSE taken
    /\ UNCHANGED <<layers, dirty, fb, repainted>>

Unsent == {p \in PixelsOf(taken) : PageOf(p[2]) >= next}

\* An SPI transfer fails: the rest is not sent and display_flush ignores it.
FlushFails ==
    /\ pc \in {"first", "flush"}
    /\ stale' = stale \cup Unsent
    /\ repainted' = repainted \ Unsent
    /\ pc' = "pump"
    /\ next' = 0
    /\ taken' = NoRect
    /\ UNCHANGED <<layers, dirty, fb, panel>>

Loop ==
    \/ DisplayInit \/ Pump \/ Erase \/ PaintLayer \/ PaintDone
    \/ TakeDirty \/ ClearDirty \/ FlushPage

-------------------------------------------------------------------------------
(***************************************************************************)
(* Display commands.  They are dispatched once main has called             *)
(* protocol_init, after display_init.                                      *)
(***************************************************************************)
Dispatching == pc \notin {"init", "off", "first"}

\* A command in this window finds layers painted already, and has_dirty is
\* cleared before they are painted again.
Repainting == pc \in {"paint", "take", "clear"}

\* The pixels of the layers of a set that "new" changes.
Touched(new, set) ==
    UNION {Footprint(layers[i]) \cup Footprint(new[i]) : i \in {j \in set : new[j] # layers[j]}}
AlreadyPainted == IF pc = "paint" THEN {i \in Layers : i < next} ELSE Layers
Waiting(r) == IF r = NoRect THEN {} ELSE PixelsOf(r)

\* The layers become "new", and the dirty rectangle r.
Change(new, r) ==
    /\ layers' = new
    /\ dirty' = r
    /\ repainted' = repainted \ Touched(new, AlreadyPainted)
    /\ stale' = stale \cup (Touched(new, Layers) \
                   (IF Repainting THEN Waiting(r) \cap repainted' ELSE Waiting(r)))
    /\ UNCHANGED <<fb, panel, pc, next, taken>>

\* h_display_rect, h_display_text, h_display_bmp: the layer is replaced and the
\* new rectangle announced; the old layer's is not.
SetLayer(i, d) ==
    /\ Dispatching
    /\ Change([layers EXCEPT ![i] = d], Expand(dirty, NoRect, Announced(d)))

\* h_display_clear: every layer is disabled, the whole screen is dirty.
ClearLayers ==
    /\ Dispatching
    /\ Change([i \in Layers |-> NoLayer], FullRect)

\* h_display_flush: the whole screen is dirty.
Refresh ==
    /\ Dispatching
    /\ Change(layers, FullRect)

Next ==
    \/ DisplayInit
    \/ DisplayInitFails
    \/ Off
    \/ Pump
    \/ Erase
    \/ PaintLayer
    \/ PaintDone
    \/ TakeDirty
    \/ ClearDirty
    \/ FlushPage
    \/ FlushFails
    \/ \E i \in Layers, d \in Drawings : SetLayer(i, d)
    \/ ClearLayers
    \/ Refresh

\* The loop never blocks: main.c busy-loops.
Spec == Init /\ [][Next]_vars /\ WF_vars(Loop)

-------------------------------------------------------------------------------
(***************************************************************************)
(* Properties.                                                             *)
(***************************************************************************)

\* When the loop is back at its head, every pixel that is not waiting in the
\* dirty rectangle shows the topmost layer covering it, except the stale ones:
\* those whose change no rectangle announced, whose transfer failed, or which
\* an interrupt changed under a layer already painted and before has_dirty was
\* cleared.  Commands between any two steps, the framebuffer repainted over old
\* content, the rectangle rounded to pages and merged with others: none of that
\* may disturb another pixel (compositor.c:133-196, display_main.c:40).
PanelShowsLayers ==
    pc = "pump" =>
        \A p \in Pixels \ stale :
            \/ dirty # NoRect /\ p \in PixelsOf(dirty)
            \/ p \in panel <=> p \in Shown

\* DISPLAY_FLUSH and DISPLAY_CLEAR repair the screen: whatever was stale, and
\* whatever transfer failed before, a pass that starts with the whole screen
\* dirty ends with a panel that shows the layers, except at the pixels that
\* change, or whose transfer fails, in the pass itself.  (A DISPLAY_FLUSH that
\* comes while the loop repaints is forgotten: no such pass starts.)
RefreshRepairs ==
    (pc = "erase" /\ Waiting(dirty) = Pixels) ~>
        (pc = "pump" /\ \A p \in repainted : p \in panel <=> p \in Shown)

\* compositor.h:10-12: "On any layer write, the dirty region is expanded and the
\* framebuffer is recomposited."  So a pixel that is to look different after a
\* write is in the dirty region.
ChangesAreDirty ==
    [][\A p \in Pixels : (p \in Shown') # (p \in Shown) => p \in Waiting(dirty')]_vars
===============================================================================
