------------------------------ MODULE MCDisplay ------------------------------
(***************************************************************************)
(* A screen of 2 by 4 pixels in two pages, one-pixel-wide glyphs, and u8   *)
(* and u16 of four bits.  The drawings overlap and hide one another (the   *)
(* text is dark), run off the screen and lie across the page boundary, and *)
(* the bitmap wraps a u8: its row 14 is row -2, and the rectangle it       *)
(* announces is inverted, so that its change is not announced at all.      *)
(***************************************************************************)
EXTENDS Display

MCDrawings == {Text(1, 1, 1, FALSE), Bitmap(1, 14, 1, 4, TRUE)}

\* Drawings announced whole: their layers cover what they announce.
MCFills == {Fill(0, 1, 2, 2, TRUE), Fill(1, 2, 2, 1, FALSE)}
==============================================================================
