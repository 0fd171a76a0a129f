------------------------------- MODULE MCPanel -------------------------------
(* Bounds for checking Panel: a byte of the framebuffer names its place and its *)
(* frame, so that no two bytes can be taken for each other.                     *)
EXTENDS Panel

MCFrames == {[c \in Cells |-> 1 + 10 * c[1] + c[2]]}

\* The last column, of a rectangle that reaches beyond two edges, and one off the
\* screen.  driver_clear sends the whole screen.
MCRects ==
    {[x0 |-> Width - 1, p0 |-> 0, x1 |-> Width, p1 |-> Pages],
     [x0 |-> Width, p0 |-> 0, x1 |-> Width, p1 |-> 0]}
===============================================================================
