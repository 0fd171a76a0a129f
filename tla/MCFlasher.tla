------------------------------ MODULE MCFlasher ------------------------------
(* Constants for model-checking Flasher: a firmware to choose or to download, and *)
(* a placeholder.                                                                 *)
EXTENDS Flasher

MCGood == {"firmware"}
MCBad == {"placeholder"}
==============================================================================
