-------------------------------- MODULE Input --------------------------------
(***************************************************************************)
(* The input side as the firmware has it: the main loop scans the keys, and*)
(* reports of both kinds are built and sent whenever they are asked for.   *)
(* At this commit no code leads from a press to a report, so that the two  *)
(* halves run side by side.                                                *)
(***************************************************************************)
EXTENDS Keys, HidReport

inputVars == <<keyVars, reportVars>>

ScannerStep == KeysNext /\ UNCHANGED reportVars
ReportStep == ReportNext /\ UNCHANGED keyVars

InputInit == KeysInit /\ ReportInit
InputNext == ScannerStep \/ ReportStep
InputSpec == InputInit /\ [][InputNext]_inputVars
==============================================================================
