---------------------------- MODULE DisplayProofs ----------------------------
(***************************************************************************)
(* Theorems about Display, for any screen, any number of layers and any    *)
(* drawings that satisfy GeometryAssumption and LayerAssumption, and for   *)
(* commands that come between any two steps of the loop.                   *)
(***************************************************************************)
EXTENDS Display, TLAPS

LEMMA Divide ==
    ASSUME NEW k \in Nat \ {0}, NEW a \in Nat
    PROVE  /\ a \div k \in Nat
           /\ k * (a \div k) <= a
           /\ a < k * (a \div k) + k
OBVIOUS

LEMMA DivideMonotonic ==
    ASSUME NEW k \in Nat \ {0}, NEW a \in Nat, NEW b \in Nat, a <= b
    PROVE  a \div k <= b \div k
OBVIOUS

LEMMA DivideBelow ==
    ASSUME NEW k \in Nat \ {0}, NEW a \in Nat, NEW b \in Nat, b % k = 0, a < b
    PROVE  a \div k < b \div k
OBVIOUS

-------------------------------------------------------------------------------
(***************************************************************************)
(* Rectangles and pages.                                                   *)
(***************************************************************************)
LEMMA Geometry ==
    /\ Width \in Nat \ {0} /\ Height \in Nat \ {0} /\ PageRows \in Nat \ {0}
    /\ GlyphW \in Nat \ {0} /\ GlyphH \in Nat \ {0}
    /\ XMod \in Nat \ {0} /\ YMod \in Nat \ {0}
    /\ Width < XMod /\ Height < YMod /\ Height % PageRows = 0
BY GeometryAssumption

LEMMA FullRectType == FullRect \in Rects /\ PixelsOf(FullRect) = Pixels
<1>1. FullRect \in Rects
  BY Geometry DEF FullRect, Rect, Rects
<1>2. ASSUME NEW p \in Pixels PROVE p \in PixelsOf(FullRect)
  <2>1. p[1] \in 0 .. Width - 1 /\ p[2] \in 0 .. Height - 1
    BY <1>2 DEF Pixels
  <2>2. QED
    BY <2>1, <1>2, Geometry DEF PixelsOf, FullRect, Rect
<1>3. QED
  BY <1>1, <1>2 DEF PixelsOf

LEMMA AnnouncedType == ASSUME NEW d \in Drawings PROVE Announced(d) \in Rects
<1>1. /\ d.x \in 0 .. XMod - 1 /\ d.y \in 0 .. YMod - 1 /\ d.w \in Nat /\ d.h \in Nat
  BY LayerAssumption
<1>2. ASSUME NEW a \in Int, NEW m \in Nat \ {0} PROVE a % m \in 0 .. m - 1
  OBVIOUS
<1> DEFINE w == IF d.kind = "text" THEN d.w * (GlyphW + 1) ELSE d.w
<1>3. w \in Int
  BY <1>1, Geometry
<1>4. Announced(d) = [x0 |-> d.x, y0 |-> d.y,
                      x1 |-> (d.x + w - 1) % XMod, y1 |-> (d.y + d.h - 1) % YMod]
  BY DEF Announced, BoxOf, Rect
<1> HIDE DEF w
<1>5. (d.x + w - 1) % XMod \in 0 .. XMod - 1 /\ (d.y + d.h - 1) % YMod \in 0 .. YMod - 1
  <2>1. d.x + w - 1 \in Int /\ d.y + d.h - 1 \in Int
    BY <1>1, <1>3
  <2>2. QED
    BY <1>2, <2>1, Geometry
<1>6. QED
  BY <1>1, <1>4, <1>5 DEF Rects

\* What is dirty stays dirty when a rectangle is announced, and so does the
\* rectangle itself.
LEMMA ExpandProperties ==
    ASSUME NEW old \in Rects \cup {NoRect}, NEW r \in Rects
    PROVE  /\ Expand(old, NoRect, r) \in Rects \cup {NoRect}
           /\ old # NoRect => /\ Expand(old, NoRect, r) # NoRect
                              /\ PixelsOf(old) \subseteq PixelsOf(Expand(old, NoRect, r))
           /\ PixelsOf(r) # {} => /\ Expand(old, NoRect, r) # NoRect
                                  /\ PixelsOf(r) \subseteq PixelsOf(Expand(old, NoRect, r))
<1>1. /\ r.x0 \in 0 .. XMod - 1 /\ r.y0 \in 0 .. YMod - 1
      /\ r.x1 \in 0 .. XMod - 1 /\ r.y1 \in 0 .. YMod - 1
  BY DEF Rects
<1>2. ASSUME NEW p \in Pixels PROVE p[1] \in Int /\ p[2] \in Int
  BY <1>2, Geometry DEF Pixels
<1>3. Inverted(r) => PixelsOf(r) = {}
  BY <1>1, <1>2 DEF Inverted, PixelsOf
<1>4. CASE Inverted(r)
  BY <1>3, <1>4 DEF Expand
<1>5. CASE ~Inverted(r) /\ old = NoRect
  BY <1>5, LayerAssumption DEF Expand
<1>6. CASE ~Inverted(r) /\ old # NoRect
  <2>1. Expand(old, NoRect, r) = Enclosing(old, r)
    BY <1>6 DEF Expand
  <2>2. /\ old.x0 \in 0 .. XMod - 1 /\ old.y0 \in 0 .. YMod - 1
        /\ old.x1 \in 0 .. XMod - 1 /\ old.y1 \in 0 .. YMod - 1
    BY <1>6 DEF Rects
  <2>3. Enclosing(old, r) \in Rects
    BY <1>1, <2>2 DEF Enclosing, Rect, Rects
  <2>4. ASSUME NEW p \in PixelsOf(old) \cup PixelsOf(r) PROVE p \in PixelsOf(Enclosing(old, r))
    <3>1. p \in Pixels /\ p[1] \in Int /\ p[2] \in Int
      BY <1>2 DEF PixelsOf
    <3>2. QED
      BY <1>1, <2>2, <3>1, <2>4 DEF PixelsOf, Enclosing, Rect
  <2>5. QED
    BY <2>1, <2>3, <2>4, LayerAssumption
<1>7. QED
  BY <1>4, <1>5, <1>6

\* The pages of the pixels of a rectangle.
LEMMA PagesOfRect ==
    ASSUME NEW r \in Rects, NEW p \in PixelsOf(r)
    PROVE  /\ PageOf(p[2]) \in Pages
           /\ PageOf(r.y0) <= PageOf(p[2]) /\ PageOf(p[2]) <= PageOf(r.y1)
           /\ PageOf(r.y0) \in Nat /\ PageOf(r.y1) \in Nat
<1>1. /\ p[2] \in 0 .. Height - 1 /\ r.y0 \in Nat /\ r.y1 \in Nat
      /\ r.y0 <= p[2] /\ p[2] <= r.y1
  BY Geometry DEF PixelsOf, Pixels, Rects
<1>2. PageOf(r.y0) <= PageOf(p[2]) /\ PageOf(p[2]) <= PageOf(r.y1)
  BY <1>1, Geometry, DivideMonotonic DEF PageOf
<1>3. PageOf(p[2]) \in Nat /\ PageOf(r.y0) \in Nat /\ PageOf(r.y1) \in Nat
  BY <1>1, Geometry, Divide DEF PageOf
<1>4. p[2] \div PageRows < Height \div PageRows /\ Height \div PageRows \in Nat
  <2>1. /\ p[2] \in Nat /\ p[2] < Height /\ Height \in Nat
        /\ PageRows \in Nat \ {0} /\ Height % PageRows = 0
    BY <1>1, Geometry
  <2>2. QED
    BY <2>1, DivideBelow, Divide
<1>5. QED
  BY <1>2, <1>3, <1>4 DEF Pages, PageOf

LEMMA FirstPage == 0 \in Pages
<1>1. 0 \div PageRows < Height \div PageRows /\ Height \div PageRows \in Nat
  BY Geometry, DivideBelow, Divide
<1>2. 0 \div PageRows \in Nat
  BY Geometry, Divide
<1>3. QED
  BY <1>1, <1>2 DEF Pages

LEMMA NothingIsEmpty ==
    ASSUME NEW r \in Rects, NothingToSend(r) PROVE PixelsOf(r) = {}
<1> SUFFICES ASSUME NEW p \in PixelsOf(r) PROVE FALSE
  OBVIOUS
<1>1. CASE r.x0 >= Width
  <2>1. p[1] \in 0 .. Width - 1 /\ r.x0 <= p[1] /\ r.x0 \in Nat
    BY Geometry DEF PixelsOf, Pixels, Rects
  <2>2. QED
    BY <1>1, <2>1, Geometry
<1>2. CASE PageOf(r.y0) \notin Pages
  <2>1. /\ PageOf(p[2]) \in 0 .. (Height \div PageRows) - 1 /\ PageOf(r.y0) \in Nat
        /\ PageOf(r.y0) <= PageOf(p[2]) /\ Height \div PageRows \in Nat
    BY PagesOfRect, Geometry, Divide DEF Pages
  <2>2. QED
    BY <1>2, <2>1 DEF Pages
<1>3. CASE r = NoRect
  BY <1>3, LayerAssumption
<1>4. QED
  BY <1>1, <1>2, <1>3 DEF NothingToSend

-------------------------------------------------------------------------------
LEMMA TypeInit == Init => TypeOK
BY DEF Init, TypeOK

LEMMA TypeStep == TypeOK /\ [Next]_vars => TypeOK'
<1> SUFFICES ASSUME TypeOK, [Next]_vars PROVE TypeOK'
  OBVIOUS
<1> USE DEF TypeOK
<1>1. CASE DisplayInit
  BY <1>1, FullRectType DEF DisplayInit
<1>2. CASE DisplayInitFails
  BY <1>2 DEF DisplayInitFails
<1>3. CASE Off
  BY <1>3 DEF Off, vars
<1>4. CASE Pump
  BY <1>4 DEF Pump
<1>5. CASE Erase
  BY <1>5 DEF Erase, Erased, PixelsOf
<1>6. CASE PaintLayer
  <2>1. fb' \subseteq Pixels
    <3>1. Footprint(layers[next]) \subseteq Pixels
      BY DEF Footprint, PixelsOf
    <3>2. QED
      BY <1>6, <3>1 DEF PaintLayer, PaintOver
  <2>2. QED
    BY <1>6, <2>1 DEF PaintLayer
<1>7. CASE PaintDone
  BY <1>7 DEF PaintDone
<1>8. CASE TakeDirty
  BY <1>8 DEF TakeDirty
<1>9. CASE ClearDirty
  <2>1. ~NothingToSend(taken) => PageOf(taken.y0) \in Nat
    <3>1. taken # NoRect => taken.y0 \in Nat
      BY Geometry DEF Rects
    <3>2. QED
      BY <3>1, Geometry, Divide DEF NothingToSend, PageOf
  <2>2. next' \in Nat
    BY <1>9, <2>1 DEF ClearDirty
  <2>3. pc' \in {"pump", "flush"}
    BY <1>9 DEF ClearDirty
  <2>4. QED
    BY <1>9, <2>2, <2>3 DEF ClearDirty
<1>10. CASE FlushPage
  BY <1>10 DEF FlushPage
<1>11. CASE FlushFails
  BY <1>11 DEF FlushFails, Unsent, PixelsOf
<1>12. ASSUME NEW new, NEW rect, Change(new, rect), rect \in Rects \cup {NoRect},
              new \in [Layers -> Drawings \cup {NoLayer}]
       PROVE  TypeOK'
  <2>1. Touched(new, Layers) \subseteq Pixels
    BY DEF Touched, Footprint, PixelsOf
  <2>2. QED
    BY <1>12, <2>1 DEF Change
<1>13. ASSUME NEW i \in Layers, NEW d \in Drawings, SetLayer(i, d) PROVE TypeOK'
  BY <1>12, <1>13, AnnouncedType, ExpandProperties DEF SetLayer
<1>14. CASE ClearLayers \/ Refresh
  BY <1>12, <1>14, FullRectType DEF ClearLayers, Refresh
<1>15. CASE UNCHANGED vars
  BY <1>15 DEF vars
<1>16. QED
  BY <1>1, <1>2, <1>3, <1>4, <1>5, <1>6, <1>7, <1>8, <1>9, <1>10, <1>11, <1>12,
     <1>13, <1>14, <1>15 DEF Next

\* Every reachable state has its type: no rectangle leaves its u16 and u8
\* fields and no pixel lies off the screen (compositor.c:31-45).
THEOREM DisplayTypeCorrect == Spec => []TypeOK
BY TypeInit, TypeStep, PTL DEF Spec

-------------------------------------------------------------------------------
(***************************************************************************)
(* What the panel shows.  The pass of the loop is followed step by step.   *)
(* Right are the pixels a repaint leaves right: those that it erases and   *)
(* that do not change behind it, and those that were right before.  While  *)
(* the layers are painted, a right pixel under a painted layer shows the   *)
(* topmost of these, and one under no layer is dark.  While the pages are  *)
(* sent, the panel is right where nothing of the rectangle is pending, and *)
(* the framebuffer wherever the next pass has nothing to do.  Owed is what *)
(* the loop has yet to look at: the dirty rectangle, or its copy while     *)
(* has_dirty is about to be cleared.                                       *)
(***************************************************************************)
Owed == Waiting(IF pc = "clear" THEN taken ELSE dirty)
Right(p) == p \in repainted \/ p \notin stale
Sending == pc \in {"first", "flush"}
Pending(p) == Sending /\ p \in PixelsOf(taken) /\ PageOf(p[2]) >= next
Under(n, p) == {i \in Layers : i < n /\ p \in Footprint(layers[i])}
Painted(n, p) == \E i \in Under(n, p) : layers[i].on /\ \A j \in Under(n, p) : j <= i
Same(p) == p \in fb <=> p \in Shown

StartInv ==
    /\ pc = "init" => layers = [i \in Layers |-> NoLayer] /\ dirty = NoRect /\ stale = Pixels
    /\ pc = "first" => dirty = NoRect
PanelInv ==
    \A p \in Pixels \ stale : p \in Owed \/ Pending(p) \/ (p \in panel <=> p \in Shown)
RestInv ==
    pc \in {"pump", "erase"} => \A p \in Pixels \ stale : p \in Owed \/ Same(p)
PaintInv ==
    pc = "paint" =>
        /\ next <= NumLayers
        /\ \A p \in Pixels : Right(p) /\ Under(next, p) # {} => (p \in fb <=> Painted(next, p))
        /\ \A p \in repainted : Under(next, p) = {} => p \notin fb
        /\ \A p \in Pixels \ stale : Covering(p) = {} => p \notin fb
PaintedInv ==
    pc \in {"take", "clear"} => \A p \in Pixels : Right(p) => Same(p)
SendInv ==
    Sending =>
        /\ taken \in Rects /\ next \in Pages
        /\ \A p \in Pixels : Right(p) => p \in Owed \/ Same(p)

DisplayInv == StartInv /\ PanelInv /\ RestInv /\ PaintInv /\ PaintedInv /\ SendInv

LEMMA NothingShown == layers = [i \in Layers |-> NoLayer] => Shown = {}
<1> SUFFICES ASSUME layers = [i \in Layers |-> NoLayer] PROVE Shown = {}
  OBVIOUS
<1>1. Footprint(NoLayer) = {}
  BY DEF Footprint, NoLayer
<1>2. ASSUME NEW p \in Pixels PROVE Covering(p) = {}
  BY <1>1 DEF Covering
<1>3. QED
  BY <1>2 DEF Shown

LEMMA SameLayers ==
    ASSUME layers' = layers
    PROVE  /\ Shown' = Shown
           /\ \A p : Covering(p)' = Covering(p)
           /\ \A n, p : Under(n, p)' = Under(n, p)
           /\ \A n, p : Painted(n, p)' <=> Painted(n, p)
<1>1. \A p : Covering(p)' = Covering(p)
  BY DEF Covering
<1>2. \A n, p : Under(n, p)' = Under(n, p)
  BY DEF Under
<1>3. QED
  BY <1>1, <1>2 DEF Shown, Painted

LEMMA PanelInit == Init => DisplayInv
BY DEF Init, DisplayInv, StartInv, PanelInv, RestInv, PaintInv, PaintedInv, SendInv, Sending

LEMMA StartStep ==
    ASSUME TypeOK, DisplayInv, DisplayInit \/ DisplayInitFails PROVE DisplayInv'
<1> USE DEF DisplayInv, StartInv, PanelInv, RestInv, PaintInv, PaintedInv, SendInv, Sending
<1>1. layers' = layers /\ layers = [i \in Layers |-> NoLayer] /\ stale' = Pixels /\ dirty' = NoRect
  BY DEF DisplayInit, DisplayInitFails
<1>2. Shown' = {}
  BY <1>1, SameLayers, NothingShown
<1>3. CASE DisplayInit
  BY <1>1, <1>2, <1>3, FullRectType, FirstPage DEF DisplayInit, Same
<1>4. CASE DisplayInitFails
  BY <1>1, <1>2, <1>4 DEF DisplayInitFails
<1>5. QED
  BY <1>3, <1>4

LEMMA EraseStep ==
    ASSUME TypeOK, DisplayInv, Pump \/ Erase PROVE DisplayInv'
<1> USE DEF DisplayInv, StartInv, PanelInv, RestInv, PaintInv, PaintedInv, SendInv,
            Sending, Pending, Owed
<1>1. /\ layers' = layers /\ dirty' = dirty /\ stale' = stale /\ panel' = panel
      /\ pc \in {"pump", "erase"} /\ pc' \in {"erase", "paint"}
  BY DEF Pump, Erase
<1>2. Shown' = Shown
  BY <1>1, SameLayers
<1>3. CASE Pump
  BY <1>1, <1>2, <1>3 DEF Pump, Same
<1>4. CASE Erase
  <2>1. \A p : Under(0, p) = {}
    BY DEF Under, Layers
  <2>2. \A p \in Pixels : Covering(p) = {} => p \notin Shown
    BY DEF Shown
  <2>3. next' = 0 /\ NumLayers \in Nat /\ pc' = "paint"
    BY <1>4, LayerAssumption DEF Erase
  <2>4. \A p \in repainted' : p \notin fb'
    BY <1>4 DEF Erase
  <2>5. ASSUME NEW p \in Pixels, p \notin stale, Covering(p) = {} PROVE p \notin fb'
    <3>1. p \in Erased \/ p \notin fb
      BY <1>1, <2>2, <2>5 DEF Erased, Waiting, Same
    <3>2. QED
      BY <1>4, <3>1 DEF Erase
  <2>6. \A p \in Pixels : Under(next, p)' = {}
    BY <1>1, <2>1, <2>3, SameLayers
  <2>7. PaintInv'
    BY <1>1, <2>3, <2>4, <2>5, <2>6, SameLayers
  <2>8. PanelInv'
    BY <1>1, <1>2, <2>3
  <2>9. QED
    BY <2>3, <2>7, <2>8
<1>5. QED
  BY <1>3, <1>4

\* The layer that is painted becomes the topmost of the painted ones.
LEMMA PaintOne ==
    ASSUME NEW n \in Layers, NEW p
    PROVE  /\ p \in Footprint(layers[n]) => (Painted(n + 1, p) <=> layers[n].on)
           /\ p \notin Footprint(layers[n]) =>
                /\ Under(n + 1, p) = Under(n, p)
                /\ Painted(n + 1, p) <=> Painted(n, p)
<1>1. n \in Int /\ \A i \in Layers : i \in Int
  BY DEF Layers
<1>5. \A i \in Layers : i < n + 1 <=> i < n \/ i = n
  BY <1>1
<1>2. CASE p \in Footprint(layers[n])
  <2>1. Under(n + 1, p) = Under(n, p) \cup {n}
    BY <1>5, <1>2 DEF Under
  <2>2. \A i \in Under(n, p) : i < n /\ i \in Int
    BY <1>1 DEF Under
  <2>3. QED
    BY <1>1, <1>2, <2>1, <2>2 DEF Painted
<1>3. CASE p \notin Footprint(layers[n])
  <2>1. Under(n + 1, p) = Under(n, p)
    BY <1>5, <1>3 DEF Under
  <2>2. QED
    BY <1>3, <2>1 DEF Painted
<1>4. QED
  BY <1>2, <1>3

LEMMA PaintStep ==
    ASSUME TypeOK, DisplayInv, PaintLayer PROVE DisplayInv'
<1> USE DEF DisplayInv, StartInv, PanelInv, RestInv, PaintInv, PaintedInv, SendInv,
            Sending, Pending, Owed
<1>1. /\ layers' = layers /\ dirty' = dirty /\ stale' = stale /\ panel' = panel
      /\ repainted' = repainted /\ repainted \subseteq Pixels
      /\ pc = "paint" /\ pc' = "paint" /\ next' = next + 1
      /\ fb' = PaintOver(fb, layers[next])
  BY DEF PaintLayer, TypeOK
<1>2. next \in Layers /\ next + 1 <= NumLayers
  BY LayerAssumption DEF PaintLayer, TypeOK, Layers
<1>3. Shown' = Shown
  BY <1>1, SameLayers
<1>10. ASSUME NEW p PROVE /\ Under(next, p)' = Under(next + 1, p)
                          /\ Painted(next, p)' <=> Painted(next + 1, p)
  <2>1. Under(next, p)' = Under(next + 1, p)
    BY <1>1 DEF Under
  <2>2. Painted(next, p)' <=> Painted(next + 1, p)
    BY <1>1, <2>1 DEF Painted
  <2>3. QED
    BY <2>1, <2>2
<1>4. ASSUME NEW p \in Pixels, Right(p)', Under(next, p)' # {} PROVE p \in fb' <=> Painted(next, p)'
  <2>1. Right(p) /\ Under(next + 1, p) # {} /\ (Painted(next, p)' <=> Painted(next + 1, p))
    BY <1>1, <1>4, <1>10 DEF Right
  <2>2. CASE p \in Footprint(layers[next])
    <3>1. p \in fb' <=> layers[next].on
      BY <1>1, <2>2 DEF PaintOver
    <3>2. QED
      BY <1>2, <2>1, <2>2, <3>1, PaintOne
  <2>3. CASE p \notin Footprint(layers[next])
    <3>1. p \in fb' <=> p \in fb
      BY <1>1, <2>3 DEF PaintOver
    <3>2. QED
      BY <1>1, <1>2, <2>1, <2>3, <3>1, PaintOne
  <2>4. QED
    BY <2>2, <2>3
<1>5. ASSUME NEW p \in repainted, Under(next, p)' = {} PROVE p \notin fb'
  <2>1. Under(next + 1, p) = {}
    BY <1>5, <1>10
  <2>2. next \notin Under(next + 1, p) /\ next < next + 1
    BY <1>2, <2>1 DEF Layers
  <2>3. p \notin Footprint(layers[next])
    BY <1>2, <2>2 DEF Under
  <2>4. Under(next, p) = {}
    BY <1>2, <2>1, <2>3, PaintOne
  <2>5. QED
    BY <1>1, <2>3, <2>4 DEF PaintOver
<1>6. ASSUME NEW p \in Pixels, p \notin stale, Covering(p)' = {} PROVE p \notin fb'
  <2>1. Covering(p) = {}
    BY <1>1, <1>6, SameLayers
  <2>2. p \notin Footprint(layers[next])
    BY <1>2, <2>1 DEF Covering
  <2>3. QED
    BY <1>1, <1>6, <2>1, <2>2 DEF PaintOver
<1>7. PaintInv'
  BY <1>1, <1>2, <1>4, <1>5, <1>6
<1>8. PanelInv'
  BY <1>1, <1>3
<1>9. QED
  BY <1>1, <1>7, <1>8

\* When all layers are painted, the framebuffer shows the topmost ones.
LEMMA PaintDoneStep ==
    ASSUME TypeOK, DisplayInv, PaintDone PROVE DisplayInv'
<1> USE DEF DisplayInv, StartInv, PanelInv, RestInv, PaintInv, PaintedInv, SendInv,
            Sending, Pending, Owed
<1>1. /\ layers' = layers /\ dirty' = dirty /\ stale' = stale /\ panel' = panel /\ fb' = fb
      /\ repainted' = repainted /\ pc = "paint" /\ pc' = "take" /\ next = NumLayers
  BY DEF PaintDone
<1>2. Shown' = Shown
  BY <1>1, SameLayers
<1>3. ASSUME NEW p \in Pixels, Right(p) PROVE Same(p)
  <2>1. Under(next, p) = Covering(p)
    BY <1>1, LayerAssumption DEF Under, Covering, Layers
  <2>2. p \in Shown <=> Painted(next, p)
    BY <2>1 DEF Shown, Painted
  <2>3. CASE Covering(p) = {}
    <3>1. p \notin Shown
      BY <2>3 DEF Shown
    <3>2. QED
      BY <1>1, <1>3, <2>1, <2>3, <3>1 DEF Right, Same
  <2>4. CASE Covering(p) # {}
    BY <1>1, <1>3, <2>1, <2>2, <2>4 DEF Same
  <2>5. QED
    BY <2>3, <2>4
<1>4. PaintedInv'
  BY <1>1, <1>2, <1>3 DEF Right, Same
<1>5. PanelInv'
  BY <1>1, <1>2
<1>6. QED
  BY <1>1, <1>4, <1>5

LEMMA TakeStep ==
    ASSUME TypeOK, DisplayInv, TakeDirty PROVE DisplayInv'
<1> USE DEF DisplayInv, StartInv, PanelInv, RestInv, PaintInv, PaintedInv, SendInv,
            Sending, Pending, Owed
<1>1. /\ layers' = layers /\ dirty' = dirty /\ stale' = stale /\ panel' = panel /\ fb' = fb
      /\ repainted' = repainted /\ pc = "take" /\ pc' = "clear" /\ taken' = dirty
  BY DEF TakeDirty
<1>2. Shown' = Shown
  BY <1>1, SameLayers
<1>3. QED
  BY <1>1, <1>2 DEF Right, Same

LEMMA ClearStep ==
    ASSUME TypeOK, DisplayInv, ClearDirty PROVE DisplayInv'
<1> USE DEF DisplayInv, StartInv, PanelInv, RestInv, PaintInv, PaintedInv, SendInv,
            Sending, Pending
<1>1. /\ layers' = layers /\ dirty' = NoRect /\ stale' = stale /\ panel' = panel /\ fb' = fb
      /\ repainted' = repainted /\ pc = "clear"
  BY DEF ClearDirty
<1>2. Shown' = Shown /\ Owed = Waiting(taken)
  BY <1>1, SameLayers DEF Owed
<1>3. CASE NothingToSend(taken)
  <2>1. pc' = "pump"
    BY <1>3 DEF ClearDirty
  <2>2. Owed = {}
    BY <1>2, <1>3, NothingIsEmpty DEF TypeOK, Waiting
  <2>3. QED
    BY <1>1, <1>2, <2>1, <2>2 DEF Right, Same
<1>4. CASE ~NothingToSend(taken)
  <2>1. pc' = "flush" /\ next' = PageOf(taken.y0) /\ taken' = taken
    BY <1>4 DEF ClearDirty
  <2>2. taken \in Rects /\ PageOf(taken.y0) \in Pages
    BY <1>4 DEF NothingToSend, TypeOK
  <2>3. SendInv'
    BY <1>1, <1>2, <2>1, <2>2 DEF Right, Same
  <2>4. ASSUME NEW p \in PixelsOf(taken) PROVE PageOf(p[2]) >= PageOf(taken.y0)
    <3>1. PageOf(p[2]) \in Int /\ PageOf(taken.y0) \in Int /\ PageOf(taken.y0) <= PageOf(p[2])
      BY <2>2, PagesOfRect DEF Pages
    <3>2. QED
      BY <3>1
  <2>5. ASSUME NEW p \in Pixels, p \notin stale PROVE Pending(p)' \/ (p \in panel <=> p \in Shown)
    <3>1. p \in Owed => p \in PixelsOf(taken)
      BY <1>2 DEF Waiting
    <3>2. QED
      BY <1>1, <2>1, <2>4, <2>5, <3>1
  <2>6. PanelInv'
    BY <1>1, <1>2, <2>5
  <2>7. QED
    BY <1>1, <2>1, <2>3, <2>6
<1>5. QED
  BY <1>3, <1>4

\* A page is sent: the panel shows what the framebuffer does, and after the last
\* page nothing of the rectangle is left.
LEMMA FlushStep ==
    ASSUME TypeOK, DisplayInv, FlushPage PROVE DisplayInv'
<1> USE DEF DisplayInv, StartInv, PanelInv, RestInv, PaintInv, PaintedInv, SendInv, Sending
<1>1. /\ layers' = layers /\ dirty' = dirty /\ fb' = fb /\ taken \in Rects
      /\ panel' = (panel \ Sent(taken, next)) \cup (fb \cap Sent(taken, next))
      /\ repainted' = repainted /\ stale' = stale \ (Sent(taken, next) \cap repainted)
      /\ pc \in {"first", "flush"} /\ next \in Pages
  BY DEF FlushPage
<1>2. Shown' = Shown /\ Owed = Waiting(dirty)
  BY <1>1, SameLayers DEF Owed
<1>3. ASSUME NEW p \in Pixels, p \notin stale', p \notin Owed PROVE Same(p)
  BY <1>1, <1>3 DEF Right
<1>4. ASSUME NEW p \in Pixels, p \in Sent(taken, next), p \notin stale', p \notin Owed
      PROVE  p \in panel' <=> p \in Shown
  BY <1>1, <1>3, <1>4 DEF Same
<1>5. ASSUME NEW p \in Pixels, p \notin Sent(taken, next), p \notin stale', p \notin Owed
      PROVE  (p \in panel' <=> p \in Shown)
             \/ (p \in PixelsOf(taken) /\ PageOf(p[2]) >= next /\ PageOf(p[2]) # next)
  <2>1. p \notin stale /\ (p \in panel' <=> p \in panel)
    BY <1>1, <1>5
  <2>2. (p \in panel <=> p \in Shown) \/ (p \in PixelsOf(taken) /\ PageOf(p[2]) >= next)
    BY <1>1, <1>5, <2>1 DEF Pending
  <2>3. p \in PixelsOf(taken) => PageOf(p[2]) # next
    BY <1>5 DEF Sent, PixelsOf
  <2>4. QED
    BY <2>1, <2>2, <2>3
<1>6. ASSUME NEW p \in PixelsOf(taken), PageOf(p[2]) >= next, PageOf(p[2]) # next
      PROVE  PageOf(p[2]) >= next + 1 /\ ~LastPage(taken, next)
  <2>1. /\ PageOf(p[2]) \in 0 .. (Height \div PageRows) - 1 /\ PageOf(taken.y1) \in Nat
        /\ PageOf(p[2]) <= PageOf(taken.y1) /\ Height \div PageRows \in Nat
        /\ next \in 0 .. (Height \div PageRows) - 1
    BY <1>1, PagesOfRect, Geometry, Divide DEF Pages
  <2>2. next # PageOf(taken.y1) /\ next + 1 \in Pages /\ PageOf(p[2]) >= next + 1
    BY <1>6, <2>1 DEF Pages
  <2>3. QED
    BY <2>2 DEF LastPage
<1>7. CASE LastPage(taken, next)
  <2>1. pc' = "pump" /\ Owed' = Owed
    BY <1>1, <1>2, <1>7 DEF FlushPage, Owed
  <2>2. \A p \in Pixels \ stale' : p \in Owed \/ (p \in panel' <=> p \in Shown')
    BY <1>2, <1>4, <1>5, <1>6, <1>7
  <2>3. \A p \in Pixels \ stale' : p \in Owed \/ Same(p)'
    BY <1>1, <1>2, <1>3 DEF Same
  <2>4. QED
    BY <2>1, <2>2, <2>3
<1>8. CASE ~LastPage(taken, next)
  <2>1. pc' = pc /\ next' = next + 1 /\ taken' = taken /\ Owed' = Owed
    BY <1>1, <1>2, <1>8 DEF FlushPage, Owed
  <2>2. PanelInv'
    BY <1>1, <1>2, <1>4, <1>5, <1>6, <2>1 DEF Pending
  <2>3. next + 1 \in Pages
    BY <1>8 DEF LastPage
  <2>4. ASSUME NEW p \in Pixels, Right(p)' PROVE p \in Owed \/ Same(p)'
    <3>1. Right(p)
      BY <1>1, <2>4 DEF Right
    <3>2. QED
      BY <1>1, <1>2, <3>1 DEF Same
  <2>5. SendInv'
    BY <1>1, <2>1, <2>3, <2>4
  <2>6. QED
    BY <1>1, <2>1, <2>2, <2>5
<1>9. QED
  BY <1>7, <1>8

LEMMA FailStep ==
    ASSUME TypeOK, DisplayInv, FlushFails PROVE DisplayInv'
<1> USE DEF DisplayInv, StartInv, PanelInv, RestInv, PaintInv, PaintedInv, SendInv,
            Sending, Pending
<1>1. /\ layers' = layers /\ dirty' = dirty /\ fb' = fb /\ panel' = panel
      /\ stale' = stale \cup Unsent
      /\ pc \in {"first", "flush"} /\ pc' = "pump"
  BY DEF FlushFails
<1>2. Shown' = Shown /\ Owed' = Owed
  BY <1>1, SameLayers DEF Owed
<1>3. \A p \in Pixels \ stale' : p \in Owed \/ (p \in panel <=> p \in Shown)
  BY <1>1 DEF Unsent
<1>4. \A p \in Pixels \ stale' : p \in Owed \/ Same(p)
  BY <1>1 DEF Right
<1>5. QED
  BY <1>1, <1>2, <1>3, <1>4 DEF Same

-------------------------------------------------------------------------------
(***************************************************************************)
(* A command, at any step of the pass.  A pixel that none of the changed   *)
(* layers touches is as it was.                                            *)
(***************************************************************************)
LEMMA Untouched ==
    ASSUME NEW new, NEW S, layers' = new, NEW p, p \notin Touched(new, S)
    PROVE  \A i \in S : /\ p \in Footprint(layers'[i]) <=> p \in Footprint(layers[i])
                        /\ p \in Footprint(layers[i]) => layers'[i] = layers[i]
<1> SUFFICES ASSUME NEW i \in S
             PROVE  /\ p \in Footprint(layers'[i]) <=> p \in Footprint(layers[i])
                    /\ p \in Footprint(layers[i]) => layers'[i] = layers[i]
  OBVIOUS
<1>1. CASE new[i] = layers[i]
  BY <1>1
<1>2. CASE new[i] # layers[i]
  <2>1. p \notin Footprint(layers[i]) /\ p \notin Footprint(new[i])
    BY <1>2 DEF Touched
  <2>2. QED
    BY <2>1
<1>3. QED
  BY <1>1, <1>2

LEMMA UntouchedShown ==
    ASSUME NEW new, layers' = new, NEW p \in Pixels, p \notin Touched(new, Layers)
    PROVE  (p \in Shown' <=> p \in Shown) /\ Covering(p)' = Covering(p)
<1>1. \A i \in Layers : /\ p \in Footprint(layers'[i]) <=> p \in Footprint(layers[i])
                        /\ p \in Footprint(layers[i]) => layers'[i] = layers[i]
  BY Untouched
<1>2. Covering(p)' = Covering(p)
  BY <1>1 DEF Covering
<1>3. \A i \in Covering(p) : layers'[i] = layers[i]
  BY <1>1 DEF Covering
<1>4. QED
  BY <1>2, <1>3 DEF Shown

LEMMA UntouchedPainted ==
    ASSUME NEW new, layers' = new, NEW n, NEW p,
           p \notin Touched(new, {i \in Layers : i < n})
    PROVE  /\ {i \in Layers : i < n /\ p \in Footprint(layers'[i])} = Under(n, p)
           /\ \A i \in Under(n, p) : layers'[i] = layers[i]
<1>1. \A i \in {j \in Layers : j < n} :
          /\ p \in Footprint(layers'[i]) <=> p \in Footprint(layers[i])
          /\ p \in Footprint(layers[i]) => layers'[i] = layers[i]
  BY Untouched
<1>2. QED
  BY <1>1 DEF Under

\* What a command changes is announced and will be repainted, or noted as stale.
LEMMA ChangeStep ==
    ASSUME TypeOK, DisplayInv, Dispatching, NEW new, NEW rect, Change(new, rect),
           Waiting(dirty) \subseteq Waiting(rect)
    PROVE  DisplayInv'
<1> USE DEF DisplayInv, StartInv, PanelInv, RestInv, PaintInv, PaintedInv, SendInv, Sending
<1>1. /\ layers' = new /\ dirty' = rect /\ fb' = fb /\ panel' = panel /\ pc' = pc
      /\ next' = next /\ taken' = taken
      /\ repainted' = repainted \ Touched(new, AlreadyPainted)
      /\ stale' = stale \cup (Touched(new, Layers) \
                   (IF Repainting THEN Waiting(rect) \cap repainted' ELSE Waiting(rect)))
      /\ pc \notin {"init", "off", "first"}
  BY DEF Change, Dispatching
<1>2. Owed \subseteq Owed'
  BY <1>1 DEF Owed
<1>3. \A p \in Pixels : p \notin Touched(new, Layers)
                       => (p \in Shown' <=> p \in Shown) /\ Covering(p)' = Covering(p)
  BY <1>1, UntouchedShown
<1>4. ASSUME NEW p \in Pixels, p \notin stale', p \in Touched(new, Layers)
      PROVE  p \in Owed'
  <2>1. p \in Waiting(rect) /\ (Repainting => p \in repainted')
    BY <1>1, <1>4
  <2>2. pc = "clear" => AlreadyPainted = Layers /\ Repainting
    BY DEF AlreadyPainted, Repainting
  <2>3. pc # "clear"
    BY <1>1, <1>4, <2>1, <2>2
  <2>4. QED
    BY <1>1, <2>1, <2>3 DEF Owed
<1>5. PanelInv'
  <2> SUFFICES ASSUME NEW p \in Pixels, p \notin stale'
               PROVE  p \in Owed' \/ Pending(p)' \/ (p \in panel' <=> p \in Shown')
    OBVIOUS
  <2>1. p \notin stale /\ (Pending(p)' <=> Pending(p))
    BY <1>1 DEF Pending
  <2>2. QED
    BY <1>1, <1>2, <1>3, <1>4, <2>1
<1>6. RestInv'
  BY <1>1, <1>2, <1>3, <1>4 DEF Same
<1>7. PaintInv'
  <2> SUFFICES ASSUME pc = "paint" PROVE PaintInv'
    BY <1>1
  <2>1. AlreadyPainted = {i \in Layers : i < next} /\ Repainting
    BY DEF AlreadyPainted, Repainting
  <2>2. ASSUME NEW p, p \notin Touched(new, AlreadyPainted)
        PROVE  Under(next, p)' = Under(next, p) /\ (Painted(next, p)' <=> Painted(next, p))
    <3>1. /\ {i \in Layers : i < next /\ p \in Footprint(layers'[i])} = Under(next, p)
          /\ \A i \in Under(next, p) : layers'[i] = layers[i]
      BY <1>1, <2>1, <2>2, UntouchedPainted
    <3>2. Under(next, p)' = Under(next, p)
      BY <1>1, <3>1 DEF Under
    <3>3. QED
      BY <3>1, <3>2 DEF Painted
  <2>3. \A p : p \in Touched(new, AlreadyPainted) => p \in Touched(new, Layers)
    BY <2>1 DEF Touched
  <2>4. ASSUME NEW p \in Pixels, Right(p)' PROVE Right(p) /\ p \notin Touched(new, AlreadyPainted)
    BY <1>1, <2>1, <2>3, <2>4 DEF Right
  <2>5. ASSUME NEW p \in repainted', Under(next, p)' = {} PROVE p \notin fb'
    BY <1>1, <2>2, <2>5
  <2>6. ASSUME NEW p \in Pixels, p \notin stale', Covering(p)' = {} PROVE p \notin fb'
    <3>1. CASE p \in Touched(new, Layers)
      <4>1. p \in repainted'
        BY <1>1, <2>1, <2>6, <3>1
      <4>2. Under(next, p)' = {}
        BY <2>6 DEF Under, Covering
      <4>3. QED
        BY <2>5, <4>1, <4>2
    <3>2. CASE p \notin Touched(new, Layers)
      BY <1>1, <1>3, <2>6, <3>2
    <3>3. QED
      BY <3>1, <3>2
  <2>7. QED
    BY <1>1, <2>2, <2>4, <2>5, <2>6
<1>8. ASSUME NEW p \in Pixels, Right(p)', pc # "paint"
      PROVE  Right(p) /\ (p \in Owed' \/ p \notin Touched(new, Layers))
  <2>1. AlreadyPainted = Layers
    BY <1>8 DEF AlreadyPainted
  <2>2. QED
    BY <1>1, <1>4, <1>8, <2>1 DEF Right
<1>9. PaintedInv'
  <2> SUFFICES ASSUME pc \in {"take", "clear"}, NEW p \in Pixels, Right(p)' PROVE Same(p)'
    BY <1>1
  <2>1. AlreadyPainted = Layers /\ Repainting
    BY DEF AlreadyPainted, Repainting
  <2>2. Right(p) /\ p \notin Touched(new, Layers)
    BY <1>1, <2>1 DEF Right
  <2>3. QED
    BY <1>1, <1>3, <2>2 DEF Same
<1>10. SendInv'
  <2> SUFFICES ASSUME Sending, NEW p \in Pixels, Right(p)' PROVE p \in Owed' \/ Same(p)'
    BY <1>1
  <2>1. Right(p) /\ (p \in Owed' \/ p \notin Touched(new, Layers))
    BY <1>8
  <2>2. QED
    BY <1>1, <1>2, <1>3, <2>1 DEF Same
<1>11. QED
  BY <1>1, <1>5, <1>6, <1>7, <1>9, <1>10

LEMMA SetStep ==
    ASSUME TypeOK, DisplayInv, NEW i \in Layers, NEW d \in Drawings, SetLayer(i, d)
    PROVE  DisplayInv'
<1> DEFINE rect == Expand(dirty, NoRect, Announced(d))
<1>1. dirty \in Rects \cup {NoRect} /\ Announced(d) \in Rects
  BY AnnouncedType DEF TypeOK
<1>2. Waiting(dirty) \subseteq Waiting(rect)
  BY <1>1, ExpandProperties DEF Waiting
<1>3. Dispatching /\ Change([layers EXCEPT ![i] = d], rect)
  BY DEF SetLayer
<1>4. QED
  BY <1>2, <1>3, ChangeStep

LEMMA WholeStep ==
    ASSUME TypeOK, DisplayInv, ClearLayers \/ Refresh PROVE DisplayInv'
<1>1. Waiting(FullRect) = Pixels
  BY FullRectType, LayerAssumption DEF Waiting
<1>2. Waiting(dirty) \subseteq Waiting(FullRect)
  BY <1>1 DEF Waiting, PixelsOf
<1>3. Dispatching /\ (Change([i \in Layers |-> NoLayer], FullRect) \/ Change(layers, FullRect))
  BY DEF ClearLayers, Refresh
<1>4. QED
  BY <1>2, <1>3, ChangeStep

LEMMA IdleStep == DisplayInv /\ UNCHANGED vars => DisplayInv'
<1> SUFFICES ASSUME DisplayInv, UNCHANGED vars PROVE DisplayInv'
  OBVIOUS
<1>1. /\ layers' = layers /\ dirty' = dirty /\ fb' = fb /\ panel' = panel /\ pc' = pc
      /\ next' = next /\ taken' = taken /\ repainted' = repainted /\ stale' = stale
  BY DEF vars
<1>2. QED
  BY <1>1, SameLayers
  DEF DisplayInv, StartInv, PanelInv, RestInv, PaintInv, PaintedInv, SendInv,
      Sending, Pending, Owed, Right, Same

LEMMA PanelStep ==
    TypeOK /\ DisplayInv /\ [Next]_vars => DisplayInv'
<1> SUFFICES ASSUME TypeOK, DisplayInv, [Next]_vars PROVE DisplayInv'
  OBVIOUS
<1>1. CASE DisplayInit \/ DisplayInitFails
  BY <1>1, StartStep
<1>2. CASE Pump \/ Erase
  BY <1>2, EraseStep
<1>3. CASE PaintLayer
  BY <1>3, PaintStep
<1>4. CASE PaintDone
  BY <1>4, PaintDoneStep
<1>5. CASE TakeDirty
  BY <1>5, TakeStep
<1>6. CASE ClearDirty
  BY <1>6, ClearStep
<1>7. CASE FlushPage
  BY <1>7, FlushStep
<1>8. CASE FlushFails
  BY <1>8, FailStep
<1>9. ASSUME NEW i \in Layers, NEW d \in Drawings, SetLayer(i, d) PROVE DisplayInv'
  BY <1>9, SetStep
<1>10. CASE ClearLayers \/ Refresh
  BY <1>10, WholeStep
<1>11. CASE Off \/ UNCHANGED vars
  BY <1>11, IdleStep DEF Off
<1>12. QED
  BY <1>1, <1>2, <1>3, <1>4, <1>5, <1>6, <1>7, <1>8, <1>9, <1>10, <1>11 DEF Next

\* Whatever commands come between any two steps of the loop, each pixel that is
\* neither dirty nor stale shows the topmost layer over it at the head of the
\* loop, for any layers and any screen (compositor.c:133-196, display_main.c:40).
THEOREM PanelIsRight == Spec => []PanelShowsLayers
<1>1. DisplayInv => PanelShowsLayers
  BY DEF DisplayInv, PanelInv, PanelShowsLayers, Owed, Waiting, Pending, Sending
<1>2. TypeOK /\ DisplayInv /\ [Next]_vars => DisplayInv'
  BY PanelStep
<1>3. QED
  BY TypeInit, TypeStep, PanelInit, <1>1, <1>2, PTL DEF Spec
===============================================================================
