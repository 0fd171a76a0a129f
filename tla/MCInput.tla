------------------------------- MODULE MCInput -------------------------------
(***************************************************************************)
(* Constants for model-checking Input: the keycodes have no modifier, and  *)
(* one of them is beyond the u8 of a slot.                                 *)
(***************************************************************************)
EXTENDS Input

MCModsOf == [c \in Keycodes |-> {}]
==============================================================================
