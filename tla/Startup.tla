------------------------------- MODULE Startup -------------------------------
(***************************************************************************)
(* startup_ch32v30x.S, from reset to the call of main: .data is copied     *)
(* from flash and .bss cleared, a word per turn of each loop.  Addresses   *)
(* are counted in words from _sdata; the linker script aligns the sections *)
(* and lets .bss follow .data.                                             *)
(***************************************************************************)
EXTENDS Integers

CONSTANTS
    DataWords, BssWords,    \* the sizes of .data and .bss
    Words                   \* what a word may hold, 0 among them

VARIABLES
    pc,      \* the label reached: "copy" (1), "bss" (2), "zero" (4), "main"
    a0, a2,  \* the registers: destination and source
    ram,     \* .data and .bss; at power-on anything
    image    \* .data's initial values in flash, at _sidata

vars == <<pc, a0, a2, ram, image>>

sdata == 0
edata == DataWords
sbss == edata
ebss == sbss + BssWords

Init ==
    /\ pc = "copy"
    /\ a0 = sdata /\ a2 = 0
    /\ ram \in [0 .. ebss - 1 -> Words]
    /\ image \in [0 .. DataWords - 1 -> Words]

CopyWord ==
    /\ pc = "copy" /\ a0 # edata
    /\ ram' = [ram EXCEPT ![a0] = image[a2]]
    /\ a0' = a0 + 1 /\ a2' = a2 + 1
    /\ UNCHANGED <<pc, image>>

CopyDone ==
    /\ pc = "copy" /\ a0 = edata
    /\ pc' = "bss"
    /\ a0' = sbss
    /\ UNCHANGED <<a2, ram, image>>

\* bgeu a1, a0: on to main if _ebss is not below _sbss.
NothingToZero == ebss >= a0

TestBss ==
    /\ pc = "bss"
    /\ pc' = IF NothingToZero THEN "main" ELSE "zero"
    /\ UNCHANGED <<a0, a2, ram, image>>

ZeroWord ==
    /\ pc = "zero"
    /\ ram' = [ram EXCEPT ![a0] = 0]
    /\ a0' = a0 + 1
    /\ pc' = IF a0 + 1 < ebss THEN "zero" ELSE "main"
    /\ UNCHANGED <<a2, image>>

Next == CopyWord \/ CopyDone \/ TestBss \/ ZeroWord

Spec == Init /\ [][Next]_vars

\* ch32v307_app.ld:15-16: the start-up code zeros .bss before entering main().
\* Every static variable of the firmware without an initialiser relies on it.
BssIsZero == pc = "main" => \A a \in sbss .. ebss - 1 : ram[a] = 0
===============================================================================
