------------------------------- MODULE MacroVM -------------------------------
(***************************************************************************)
(* The macro interpreter of the firmware: macro/vm.c, as the dispatcher's  *)
(* define, run and stop commands and a periodic tick drive it.             *)
(*                                                                         *)
(* Every call is one step.  The commands may come between any two ticks,   *)
(* and a slot may be redefined while it runs.  Time passes between ticks   *)
(* in any amount.  Commands the handlers reject (short data, a slot out of *)
(* range, too many steps) change nothing and are left out.                 *)
(*                                                                         *)
(* An instruction is a record of an operation and one operand: the key of  *)
(* a key operation, the report of a consumer or mouse operation ("send"),  *)
(* the milliseconds of a delay, the count of a loop.  Any opcode the       *)
(* interpreter does not know halts it ("halt").                            *)
(*                                                                         *)
(* A definition Def_Slip is Def with a plausible programming mistake.  No  *)
(* specification uses it: it is there to show that a property notices.     *)
(***************************************************************************)
EXTENDS Integers, Sequences, SequencesExt

CONSTANTS
    Slots,       \* slot numbers, 0 .. MACRO_SLOTS - 1 (256)
    MaxSteps,    \* MACRO_STEPS_PER_SLOT (24)
    Depth,       \* VM_LOOP_STACK_DEPTH (4)
    ClockMod,    \* now_ms and delay_until_ms are u32: 2^32
    Programs,    \* the instruction sequences the host may upload
    Readings     \* how those of them that are to terminate read

VARIABLES
    slots,       \* the program in each slot
    state,       \* "idle", "running", "waiting" or "error"
    active,      \* active_slot
    pc,          \* index of the next step, from 0
    loops,       \* loop_stack[0 .. loop_sp - 1]
    until,       \* delay_until_ms
    now,         \* the millisecond clock
    owed,        \* history: milliseconds left of the delay being waited for
    wraps,       \* history: that delay began with an end past the clock's end
    intact,      \* history: the active slot has not been redefined since its start
    emitted      \* history: what it has sent since, if it is to terminate

vars == <<slots, state, active, pc, loops, until, now, owed, wraps, intact, emitted>>
runVars == <<slots, active, now, intact>>

Operands == 0 .. ClockMod - 1
Instructions ==
    [op : {"nop", "down", "up", "tap", "send", "delay", "loop", "end", "halt"},
     arg : Operands]

ASSUME SizeAssumption ==
    /\ MaxSteps \in Nat /\ MaxSteps < 255
    /\ Depth \in Nat
    /\ ClockMod \in Nat \ {0}
    /\ Slots # {}
ASSUME ProgramAssumption ==
    /\ Programs \subseteq Seq(Instructions)
    /\ \A p \in Programs : Len(p) <= MaxSteps
    /\ <<>> \in Programs

-------------------------------------------------------------------------------
(***************************************************************************)
(* What a program is written to send.  Steps are counted from 0, like pc.  *)
(* A reading r of a program p says where each loop ends (ends), what is    *)
(* sent from a step to the end of the loop around it (rest), and what any  *)
(* number of rounds of a loop send (rounds).  Only programs whose loops    *)
(* pair up and go a definite number of times have one.                     *)
(***************************************************************************)
Sends(insn) ==
    CASE insn.op = "tap" -> << <<"down", insn.arg>>, <<"up", insn.arg>> >>
      [] insn.op \in {"down", "up", "send"} -> << <<insn.op, insn.arg>> >>
      [] OTHER -> <<>>

Emissions == {"down", "up", "send"} \X Operands

StepsOf(p, ops) == {i \in 0 .. Len(p) - 1 : p[i + 1].op \in ops}
LoopStarts(p) == StepsOf(p, {"loop"})
LoopEnds(p) == StepsOf(p, {"end"})
Rounds(p, i) == p[i + 1].arg

PairsUp(p, ends) ==
    /\ ends \in [LoopStarts(p) -> LoopEnds(p)]
    /\ \A e \in LoopEnds(p) : \E i \in LoopStarts(p) : ends[i] = e
    /\ \A i \in LoopStarts(p) : i < ends[i] /\ Rounds(p, i) > 0
    /\ \A i, j \in LoopStarts(p) : i < j /\ j < ends[i] => ends[j] < ends[i]

IsReading(p, r) ==
    /\ StepsOf(p, {"halt"}) = {}
    /\ PairsUp(p, r.ends)
    /\ r.rest \in [0 .. Len(p) -> Seq(Emissions)]
    /\ \A i \in LoopEnds(p) \cup {Len(p)} : r.rest[i] = <<>>
    /\ \A i \in StepsOf(p, {"nop", "down", "up", "tap", "send", "delay"}) :
          r.rest[i] = Sends(p[i + 1]) \o r.rest[i + 1]
    /\ \A i \in LoopStarts(p) :
          /\ r.rounds[i] \in [0 .. Rounds(p, i) -> Seq(Emissions)]
          /\ r.rounds[i][0] = <<>>
          /\ \A k \in 1 .. Rounds(p, i) :
                r.rounds[i][k] = r.rest[i + 1] \o r.rounds[i][k - 1]
          /\ r.rest[i] = r.rounds[i][Rounds(p, i)] \o r.rest[r.ends[i] + 1]

ASSUME ReadingAssumption ==
    /\ DOMAIN Readings \subseteq Programs
    /\ \A p \in DOMAIN Readings : IsReading(p, Readings[p])

Written(p) == Readings[p].rest[0]

-------------------------------------------------------------------------------
Program == slots[active]
Frames == [start : 0 .. MaxSteps - 1, remaining : Operands]

TypeOK ==
    /\ slots \in [Slots -> Programs]
    /\ state \in {"idle", "running", "waiting", "error"}
    /\ active \in Slots
    /\ pc \in 0 .. MaxSteps
    /\ loops \in Seq(Frames)
    /\ Len(loops) <= Depth
    /\ until \in Operands /\ now \in Operands /\ owed \in Operands
    /\ wraps \in BOOLEAN /\ intact \in BOOLEAN

-------------------------------------------------------------------------------
(***************************************************************************)
(* The commands.                                                           *)
(***************************************************************************)
Init ==
    /\ slots = [s \in Slots |-> <<>>]
    /\ state = "idle"
    /\ active = CHOOSE s \in Slots : TRUE
    /\ pc = 0
    /\ loops = <<>>
    /\ until = 0
    /\ now = 0
    /\ owed = 0
    /\ wraps = FALSE
    /\ intact = FALSE
    /\ emitted = <<>>

\* No delay is being waited for (history).
NoDelay == owed' = 0 /\ wraps' = FALSE

Define(s, p) ==
    /\ slots' = [slots EXCEPT ![s] = p]
    /\ intact' = (intact /\ s # active)
    /\ emitted' = IF s = active THEN <<>> ELSE emitted
    /\ UNCHANGED <<state, active, pc, loops, until, now, owed, wraps>>

Run_KeepsLoops(s) ==
    /\ slots[s] # <<>>
    /\ state \in {"idle", "error"}
    /\ active' = s
    /\ pc' = 0
    /\ state' = "running"
    /\ intact' = TRUE
    /\ emitted' = <<>>
    /\ UNCHANGED <<slots, loops, until, now>>
    /\ NoDelay

\* macro_vm_run; an empty slot or a running macro refuses it.
Run(s) ==
    /\ slots[s] # <<>>
    /\ state \in {"idle", "error"}
    /\ active' = s
    /\ pc' = 0
    /\ loops' = <<>>
    /\ state' = "running"
    /\ intact' = TRUE
    /\ emitted' = <<>>
    /\ UNCHANGED <<slots, until, now>>
    /\ NoDelay

Stop ==
    /\ state' = "idle"
    /\ pc' = 0
    /\ loops' = <<>>
    /\ intact' = FALSE
    /\ emitted' = <<>>
    /\ UNCHANGED <<slots, active, until, now>>
    /\ NoDelay

\* A millisecond passes.
Clock ==
    /\ now' = (now + 1) % ClockMod
    /\ owed' = IF owed > 0 THEN owed - 1 ELSE 0
    /\ UNCHANGED <<slots, state, active, pc, loops, until, wraps, intact, emitted>>

-------------------------------------------------------------------------------
(***************************************************************************)
(* macro_vm_tick.  A delay that is over first makes the interpreter run    *)
(* and moves it past the delay: At and Mode are pc and state after that.   *)
(* In the error state the tick goes on to execute.                         *)
(***************************************************************************)
Expired == state = "waiting" /\ now >= until
Awake == state \in {"running", "error"} \/ Expired
At == IF state = "waiting" THEN pc + 1 ELSE pc
Mode == IF state = "waiting" THEN "running" ELSE state

Fetched(ops) == Awake /\ At < Len(Program) /\ Program[At + 1].op \in ops
Operand == Program[At + 1].arg

\* The end of the tick: a running macro that is past its last step is idle.
GoOnAt(n) ==
    /\ pc' = n
    /\ state' = IF Mode = "running" /\ n >= Len(Program) THEN "idle" ELSE Mode

TickWaits ==
    /\ state = "waiting"
    /\ now < until
    /\ UNCHANGED vars

\* The slot has been redefined with fewer steps, or the delay was the last one.
TickPastEnd ==
    /\ Awake
    /\ At >= Len(Program)
    /\ state' = "idle"
    /\ pc' = At
    /\ UNCHANGED <<loops, until, emitted>>
    /\ UNCHANGED runVars
    /\ NoDelay

TickSimple ==
    /\ Fetched({"nop", "down", "up", "tap", "send"})
    /\ emitted' = IF intact /\ Program \in DOMAIN Readings
                  THEN emitted \o Sends(Program[At + 1]) ELSE emitted
    /\ GoOnAt(At + 1)
    /\ UNCHANGED <<loops, until>>
    /\ UNCHANGED runVars
    /\ NoDelay

TickDelay_FromBoot ==
    /\ Fetched({"delay"})
    /\ until' = Operand
    /\ owed' = Operand
    /\ wraps' = (now + Operand >= ClockMod)
    /\ state' = "waiting"
    /\ pc' = At
    /\ UNCHANGED <<loops, emitted>>
    /\ UNCHANGED runVars

TickDelay ==
    /\ Fetched({"delay"})
    /\ until' = (now + Operand) % ClockMod
    /\ owed' = Operand
    /\ wraps' = (now + Operand >= ClockMod)
    /\ state' = "waiting"
    /\ pc' = At
    /\ UNCHANGED <<loops, emitted>>
    /\ UNCHANGED runVars

TickLoopStart_OneMore ==
    /\ Fetched({"loop"})
    /\ Len(loops) <= Depth
    /\ loops' = Append(loops, [start |-> At, remaining |-> Operand])
    /\ GoOnAt(At + 1)
    /\ UNCHANGED <<until, emitted>>
    /\ UNCHANGED runVars
    /\ NoDelay

TickLoopStart ==
    /\ Fetched({"loop"})
    /\ Len(loops) < Depth
    /\ loops' = Append(loops, [start |-> At, remaining |-> Operand])
    /\ GoOnAt(At + 1)
    /\ UNCHANGED <<until, emitted>>
    /\ UNCHANGED runVars
    /\ NoDelay

TickLoopTooDeep ==
    /\ Fetched({"loop"})
    /\ Len(loops) >= Depth
    /\ state' = "error"
    /\ pc' = At
    /\ UNCHANGED <<loops, until, emitted>>
    /\ UNCHANGED runVars
    /\ NoDelay

Top == loops[Len(loops)]
Outer == SubSeq(loops, 1, Len(loops) - 1)

\* LOOP_END of a loop that goes round again: for ever, or Top.remaining - 1 times.
TickLoopAgain ==
    /\ Fetched({"end"})
    /\ loops # <<>>
    /\ Top.remaining # 1
    /\ loops' = IF Top.remaining = 0 THEN loops
                ELSE Append(Outer, [Top EXCEPT !.remaining = @ - 1])
    /\ GoOnAt(Top.start + 1)
    /\ UNCHANGED <<until, emitted>>
    /\ UNCHANGED runVars
    /\ NoDelay

TickLoopDone_Kept ==
    /\ Fetched({"end"})
    /\ IF loops = <<>> THEN TRUE ELSE Top.remaining = 1
    /\ loops' = loops
    /\ GoOnAt(At + 1)
    /\ UNCHANGED <<until, emitted>>
    /\ UNCHANGED runVars
    /\ NoDelay

\* LOOP_END after the last round, or with no loop open: go on past it.
TickLoopDone ==
    /\ Fetched({"end"})
    /\ IF loops = <<>> THEN loops' = loops
       ELSE Top.remaining = 1 /\ loops' = Outer
    /\ GoOnAt(At + 1)
    /\ UNCHANGED <<until, emitted>>
    /\ UNCHANGED runVars
    /\ NoDelay

TickHalt ==
    /\ Fetched({"halt"})
    /\ state' = "idle"
    /\ pc' = At
    /\ UNCHANGED <<loops, until, emitted>>
    /\ UNCHANGED runVars
    /\ NoDelay

Tick ==
    \/ TickWaits
    \/ TickPastEnd
    \/ TickSimple
    \/ TickDelay
    \/ TickLoopStart
    \/ TickLoopTooDeep
    \/ TickLoopAgain
    \/ TickLoopDone
    \/ TickHalt

Next ==
    \/ \E s \in Slots, p \in Programs : Define(s, p)
    \/ \E s \in Slots : Run(s)
    \/ Stop
    \/ Clock
    \/ Tick

Spec == Init /\ [][Next]_vars

-------------------------------------------------------------------------------
(***************************************************************************)
(* Properties.                                                             *)
(***************************************************************************)

\* The open loops are properly nested and all begin before the current step,
\* whatever the program, even one that was replaced under the interpreter: a
\* LOOP_END can only go back, into the innermost of them.
LoopsNested ==
    /\ \A i \in 1 .. Len(loops) : loops[i].start < pc
    /\ \A i, j \in 1 .. Len(loops) : i < j => loops[i].start < loops[j].start

\* A macro that is left alone sends what its loops unrolled by hand would
\* send, in that order and no more, and all of it by the time it ends
\* (vm.h:35-40, "1..N means iterate N times").
RunsAsWritten ==
    (intact /\ Program \in DOMAIN Readings) =>
        /\ IsPrefix(emitted, Written(Program))
        /\ state = "idle" => emitted = Written(Program)

\* A tick that does anything while a delay is waited for comes when
\* its milliseconds have passed, unless the delay began so late that its end is
\* beyond the wrap of the u32 clock (vm.c:96 and the comparison in vm.c:66).
DelayHonoured ==
    [][(Tick /\ state = "waiting") => (owed = 0 \/ wraps)]_vars

\* vm.h:62-64: in VM_ERROR the VM "is stopped and state must be cleared via
\* macro_vm_stop() or a new run()", so no tick moves it.
ErrorIsFinal ==
    [][(Tick /\ state = "error") => (state' = "error" /\ pc' = pc)]_vars
==============================================================================
