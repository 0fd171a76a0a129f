--------------------------- MODULE MCConfigStorage ---------------------------
(***************************************************************************)
(* Constants for model-checking ConfigStorage: two ordinary payloads whose *)
(* CRCs collide, one that is too large, and a boot counter that wraps.     *)
(***************************************************************************)
EXTENDS ConfigStorage

CONSTANTS p1, p2, big

MCPayloads == {Empty, p1, p2, big}
MCOversized == {big}
MCCrc == [p \in MCPayloads \cup {Garbage} |->
            CASE p = Empty -> 0 [] p \in {p1, p2} -> 1 [] p = big -> 2 [] OTHER -> 3]
==============================================================================
