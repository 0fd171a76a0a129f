---------------------------- MODULE MacroVMProofs ----------------------------
(***************************************************************************)
(* Theorems about MacroVM, for any programs, slots, loop depth and clock   *)
(* width, and proofs of them.                                              *)
(*                                                                         *)
(* Control is the inductive part that matters: where the interpreter is    *)
(* and which loops are open.  Type correctness is not inductive by itself  *)
(* there: when a delay at the last step of a slot is over pc moves one     *)
(* further, so a waiting macro has to be inside its slot.  Data types the  *)
(* other variables.                                                        *)
(***************************************************************************)
EXTENDS MacroVM, TLAPS, SequenceTheorems

States == {"idle", "running", "waiting", "error"}

Control ==
    /\ state \in States
    /\ pc \in 0 .. MaxSteps
    /\ state = "waiting" => pc < MaxSteps
    /\ loops \in Seq(Frames)
    /\ Len(loops) <= Depth
    /\ LoopsNested

Data ==
    /\ slots \in [Slots -> Programs]
    /\ active \in Slots
    /\ until \in Operands /\ now \in Operands /\ owed \in Operands
    /\ wraps \in BOOLEAN /\ intact \in BOOLEAN

-------------------------------------------------------------------------------
(***************************************************************************)
(* Lemmas about the operators of the interpreter.                          *)
(***************************************************************************)
LEMMA ZeroOperand == 0 \in Operands
  BY SizeAssumption DEF Operands

\* The loops that are open and where they begin.
LEMMA FrameFacts ==
    ASSUME Control
    PROVE  /\ Len(loops) \in Nat
           /\ \A i \in 1 .. Len(loops) :
                 loops[i] \in Frames /\ loops[i].start \in 0 .. MaxSteps - 1
           /\ \A i \in 1 .. Len(loops) : loops[i].start < pc
<1>1. Len(loops) \in Nat
  BY LenProperties DEF Control
<1>2. \A i \in 1 .. Len(loops) : loops[i] \in Frames
  BY ElementOfSeq DEF Control
<1> QED
  BY <1>1, <1>2 DEF Frames, Control, LoopsNested

\* A sequence without its last element.
LEMMA PopFacts ==
    ASSUME NEW S, NEW s \in Seq(S), Len(s) \in Nat \ {0}
    PROVE  /\ SubSeq(s, 1, Len(s) - 1) \in Seq(S)
           /\ Len(SubSeq(s, 1, Len(s) - 1)) = Len(s) - 1
           /\ \A i \in 1 .. Len(s) - 1 : SubSeq(s, 1, Len(s) - 1)[i] = s[i]
<1> DEFINE n == Len(s) - 1
<1>1. n \in Int /\ n \in Nat /\ n <= Len(s)
  OBVIOUS
<1>2. \A i \in 1 .. n : s[i] \in S
  BY ElementOfSeq
<1> HIDE DEF n
<1>3. /\ SubSeq(s, 1, n) \in Seq(S)
      /\ Len(SubSeq(s, 1, n)) = IF 1 <= n THEN n - 1 + 1 ELSE 0
      /\ \A i \in 1 .. n - 1 + 1 : SubSeq(s, 1, n)[i] = s[1 + i - 1]
  BY <1>1, <1>2, SubSeqProperties
<1>4. /\ SubSeq(s, 1, n) \in Seq(S)
      /\ Len(SubSeq(s, 1, n)) = n
      /\ \A i \in 1 .. n : SubSeq(s, 1, n)[i] = s[i]
  BY <1>1, <1>3
<1> QED
  BY <1>4 DEF n

\* The innermost loop is the last to begin, and leaving it keeps the others.
LEMMA OuterFacts ==
    ASSUME Control, loops # <<>>
    PROVE  /\ Len(loops) \in Nat \ {0}
           /\ Top = loops[Len(loops)] /\ Top \in Frames
           /\ Outer \in Seq(Frames)
           /\ Len(Outer) = Len(loops) - 1
           /\ \A i \in 1 .. Len(Outer) : Outer[i] = loops[i]
           /\ \A i \in 1 .. Len(loops) : loops[i].start <= Top.start
<1>1. Len(loops) \in Nat \ {0}
  BY EmptySeq DEF Control
<1>2. Top = loops[Len(loops)] /\ Top \in Frames
  BY <1>1, FrameFacts DEF Top
<1>3. /\ Outer \in Seq(Frames)
      /\ Len(Outer) = Len(loops) - 1
      /\ \A i \in 1 .. Len(Outer) : Outer[i] = loops[i]
  BY <1>1, PopFacts DEF Outer, Control
<1>4. \A i \in 1 .. Len(loops) : loops[i].start <= Top.start
  BY <1>1, <1>2, FrameFacts DEF Control, LoopsNested
<1> QED
  BY <1>1, <1>2, <1>3, <1>4

LEMMA PushFacts ==
    ASSUME NEW stack \in Seq(Frames), NEW f \in Frames
    PROVE  /\ Append(stack, f) \in Seq(Frames)
           /\ Len(stack) \in Nat
           /\ Len(Append(stack, f)) = Len(stack) + 1
           /\ \A i \in 1 .. Len(stack) : Append(stack, f)[i] = stack[i]
           /\ Append(stack, f)[Len(stack) + 1] = f
  BY AppendProperties, LenProperties

\* The operand and the position of a fetched instruction are in range.
LEMMA FetchedFacts ==
    ASSUME NEW ops, Control, Data, Fetched(ops)
    PROVE  /\ At \in 0 .. MaxSteps - 1
           /\ pc <= At
           /\ Operand \in Operands
           /\ Mode \in {"running", "error"}
<1>1. Program \in Seq(Instructions) /\ Len(Program) <= MaxSteps /\ Len(Program) \in Nat
  <2>1. Program \in Programs
    BY DEF Data, Program
  <2> QED
    BY <2>1, ProgramAssumption, LenProperties
<1>2. At \in Nat /\ pc <= At
  BY SizeAssumption DEF Control, At
<1>3. At < Len(Program)
  BY DEF Fetched
<1>4. Program[At + 1] \in Instructions
  BY <1>1, <1>2, <1>3, ElementOfSeq
<1>5. Operand \in Operands
  BY <1>4 DEF Operand, Instructions
<1>6. Mode \in {"running", "error"}
  BY DEF Mode, Fetched, Awake, Expired
<1> QED
  BY <1>1, <1>2, <1>3, <1>5, <1>6, SizeAssumption

\* A tick that goes on at step n leaves the interpreter running, idle or in error.
LEMMA GoOnFacts ==
    ASSUME NEW n, Mode \in {"running", "error"}, GoOnAt(n)
    PROVE  pc' = n /\ state' \in {"idle", "running", "error"}
  BY DEF GoOnAt

\* Moving forward with the same loops open keeps them behind pc.
LEMMA MovesOn ==
    ASSUME Control,
           loops' = loops,
           pc' \in 0 .. MaxSteps, pc <= pc',
           state' \in States, state' = "waiting" => pc' < MaxSteps
    PROVE  Control'
<1>1. \A i \in 1 .. Len(loops) : loops[i].start < pc'
  BY FrameFacts, SizeAssumption DEF Control
<1>2. LoopsNested'
  BY <1>1 DEF Control, LoopsNested
<1> QED
  BY <1>2 DEF Control

\* A reset opens no loop.
LEMMA StartsOver ==
    ASSUME loops' = <<>>, pc' = 0, state' \in {"idle", "running"}
    PROVE  Control'
  BY EmptySeq, SizeAssumption DEF Control, LoopsNested, States

-------------------------------------------------------------------------------
(***************************************************************************)
(* The invariant.                                                          *)
(***************************************************************************)
LEMMA InitInv == Init => Control /\ Data
<1> SUFFICES ASSUME Init PROVE Control /\ Data
  OBVIOUS
<1>1. Control
  BY EmptySeq, SizeAssumption DEF Init, Control, LoopsNested, States
<1>2. active \in Slots
  BY SizeAssumption DEF Init
<1>3. slots \in [Slots -> Programs]
  BY ProgramAssumption DEF Init
<1> QED
  BY <1>1, <1>2, <1>3, ZeroOperand DEF Init, Data

LEMMA StepData == Control /\ Data /\ [Next]_vars => Data'
<1> SUFFICES ASSUME Control, Data, [Next]_vars PROVE Data'
  OBVIOUS
<1>1. ASSUME NEW s \in Slots, NEW p \in Programs, Define(s, p) PROVE Data'
  <2>1. slots' \in [Slots -> Programs]
    BY <1>1 DEF Define, Data
  <2>2. intact' \in BOOLEAN
    BY <1>1 DEF Define, Data
  <2> QED
    BY <1>1, <2>1, <2>2 DEF Define, Data
<1>2. ASSUME NEW s \in Slots, Run(s) PROVE Data'
  BY <1>2, ZeroOperand DEF Run, NoDelay, Data
<1>3. CASE Stop
  BY <1>3, ZeroOperand DEF Stop, NoDelay, Data
<1>4. CASE Clock
  <2>1. now' \in Operands
    <3>1. now + 1 \in Nat
      BY SizeAssumption DEF Data, Operands
    <3> QED
      BY <1>4, <3>1, SizeAssumption DEF Clock, Operands
  <2>2. owed' \in Operands
    BY <1>4, SizeAssumption DEF Clock, Data, Operands
  <2> QED
    BY <1>4, <2>1, <2>2 DEF Clock, Data
<1>5. CASE Tick
  <2>1. CASE TickDelay
    <3>1. Operand \in Operands
      BY <2>1, FetchedFacts DEF TickDelay
    <3>2. until' \in Operands
      <4>1. now + Operand \in Nat
        BY <3>1, SizeAssumption DEF Data, Operands
      <4> QED
        BY <2>1, <4>1, SizeAssumption DEF TickDelay, Operands
    <3>3. wraps' \in BOOLEAN /\ owed' = Operand
      BY <2>1 DEF TickDelay
    <3> QED
      BY <2>1, <3>1, <3>2, <3>3 DEF TickDelay, runVars, Data
  <2>2. CASE TickWaits
    BY <2>2 DEF TickWaits, vars, Data
  <2>3. CASE ~TickDelay /\ ~TickWaits
    <3>1. UNCHANGED runVars /\ UNCHANGED until /\ NoDelay
      BY <1>5, <2>3 DEF Tick, TickPastEnd, TickSimple, TickLoopStart, TickLoopTooDeep,
                        TickLoopAgain, TickLoopDone, TickHalt
    <3> QED
      BY <3>1, ZeroOperand DEF runVars, NoDelay, Data
  <2> QED
    BY <2>1, <2>2, <2>3
<1>6. CASE UNCHANGED vars
  BY <1>6 DEF vars, Data
<1> QED
  BY <1>1, <1>2, <1>3, <1>4, <1>5, <1>6 DEF Next

LEMMA StepControl == Control /\ Data /\ [Next]_vars => Control'
<1> SUFFICES ASSUME Control, Data, [Next]_vars PROVE Control'
  OBVIOUS
<1> USE SizeAssumption
<1>1. ASSUME UNCHANGED <<state, pc, loops>> PROVE Control'
  BY <1>1, MovesOn DEF Control
<1>2. ASSUME NEW s \in Slots, NEW p \in Programs, Define(s, p) PROVE Control'
  BY <1>1, <1>2 DEF Define
<1>3. ASSUME NEW s \in Slots, Run(s) PROVE Control'
  BY <1>3, StartsOver DEF Run
<1>4. CASE Stop
  BY <1>4, StartsOver DEF Stop
<1>5. CASE Clock
  BY <1>1, <1>5 DEF Clock
<1>6. CASE TickWaits
  BY <1>1, <1>6 DEF TickWaits, vars
<1>7. CASE TickPastEnd
  <2>1. At \in 0 .. MaxSteps /\ pc <= At
    BY DEF At, Control
  <2> QED
    BY <1>7, <2>1, MovesOn DEF TickPastEnd, States
<1>8. CASE TickSimple
  <2>1. At \in 0 .. MaxSteps - 1 /\ pc <= At /\ Mode \in {"running", "error"}
    BY <1>8, FetchedFacts DEF TickSimple
  <2>2. pc' = At + 1 /\ state' \in {"idle", "running", "error"}
    BY <1>8, <2>1, GoOnFacts DEF TickSimple
  <2>3. pc' \in 0 .. MaxSteps /\ pc <= pc'
    BY <2>1, <2>2 DEF Control
  <2> QED
    BY <1>8, <2>2, <2>3, MovesOn DEF TickSimple, States
<1>9. CASE TickDelay
  <2>1. At \in 0 .. MaxSteps - 1 /\ pc <= At
    BY <1>9, FetchedFacts DEF TickDelay
  <2>2. pc' = At /\ state' = "waiting" /\ loops' = loops
    BY <1>9 DEF TickDelay
  <2>3. pc' \in 0 .. MaxSteps /\ pc' < MaxSteps /\ pc <= pc'
    BY <2>1, <2>2
  <2>4. state' \in States
    BY <2>2 DEF States
  <2> QED
    BY <2>2, <2>3, <2>4, MovesOn
<1>10. CASE TickLoopStart
  <2> DEFINE f == [start |-> At, remaining |-> Operand]
  <2>1. /\ At \in 0 .. MaxSteps - 1 /\ pc <= At /\ Operand \in Operands
        /\ Mode \in {"running", "error"}
    BY <1>10, FetchedFacts DEF TickLoopStart
  <2>2. pc' = At + 1 /\ state' \in {"idle", "running", "error"}
    BY <1>10, <2>1, GoOnFacts DEF TickLoopStart
  <2>3. f \in Frames /\ f.start = At
    BY <2>1 DEF Frames
  <2>4. loops' = Append(loops, f) /\ loops \in Seq(Frames) /\ Len(loops) < Depth
    BY <1>10 DEF TickLoopStart, Control
  <2> HIDE DEF f
  <2>5. /\ loops' \in Seq(Frames)
        /\ Len(loops) \in Nat /\ Len(loops') = Len(loops) + 1
        /\ \A i \in 1 .. Len(loops) : loops'[i] = loops[i]
        /\ loops'[Len(loops) + 1] = f
    BY <2>3, <2>4, PushFacts
  <2>6. \A i \in 1 .. Len(loops) : loops[i].start \in Nat /\ loops[i].start < At
    BY <2>1, FrameFacts DEF Control
  <2>7. LoopsNested'
    <3> DEFINE n == Len(loops)
    <3>1. n \in Nat /\ \A i \in 1 .. Len(loops') : i \in 1 .. n \/ i = n + 1
      BY <2>5
    <3>2. /\ \A i \in 1 .. n : loops'[i].start = loops[i].start
          /\ loops'[n + 1].start = At
      BY <2>3, <2>5
    <3>3. \A i, j \in 1 .. n : i < j => loops[i].start < loops[j].start
      BY DEF Control, LoopsNested
    <3> HIDE DEF n
    <3>4. \A i \in 1 .. n : loops[i].start \in Nat /\ loops[i].start < At
      BY <2>6 DEF n
    <3>5. \A i \in 1 .. Len(loops') : loops'[i].start < pc'
      BY <3>1, <3>2, <3>4, <2>1, <2>2
    <3>6. \A i, j \in 1 .. Len(loops') : i < j => loops'[i].start < loops'[j].start
      BY <3>1, <3>2, <3>3, <3>4
    <3> QED
      BY <3>5, <3>6 DEF LoopsNested
  <2>8. Len(loops') <= Depth
    BY <2>4, <2>5
  <2>9. pc' \in 0 .. MaxSteps /\ state' \in States /\ state' # "waiting"
    BY <2>1, <2>2 DEF States
  <2> QED
    BY <2>5, <2>7, <2>8, <2>9 DEF Control
<1>11. CASE TickLoopTooDeep
  <2>1. At \in 0 .. MaxSteps - 1 /\ pc <= At
    BY <1>11, FetchedFacts DEF TickLoopTooDeep
  <2> QED
    BY <1>11, <2>1, MovesOn DEF TickLoopTooDeep, States
<1>12. CASE TickLoopAgain
  <2> DEFINE f == [start |-> Top.start, remaining |-> Top.remaining - 1]
  <2>1. loops # <<>> /\ Mode \in {"running", "error"}
    BY <1>12, FetchedFacts DEF TickLoopAgain
  <2>2. Top.start \in 0 .. MaxSteps - 1 /\ Top.remaining \in Operands
    BY <2>1, OuterFacts DEF Frames
  <2>3. pc' = Top.start + 1 /\ state' \in {"idle", "running", "error"}
    BY <1>12, <2>1, GoOnFacts DEF TickLoopAgain
  <2>4. /\ loops' \in Seq(Frames)
        /\ Len(loops') = Len(loops)
        /\ \A i \in 1 .. Len(loops) : loops'[i].start = loops[i].start
    <3>1. CASE Top.remaining = 0
      BY <1>12, <3>1 DEF TickLoopAgain, Control
    <3>2. CASE Top.remaining # 0
      <4>1. [Top EXCEPT !.remaining = @ - 1] = f
        BY <2>1, OuterFacts DEF Frames
      <4>2. loops' = Append(Outer, f)
        BY <1>12, <3>2, <4>1 DEF TickLoopAgain
      <4>3. f \in Frames /\ f.start = Top.start
        BY <2>2, <3>2 DEF Frames, Operands
      <4> HIDE DEF f
      <4>4. /\ loops' \in Seq(Frames)
            /\ Len(loops') = Len(Outer) + 1
            /\ \A i \in 1 .. Len(Outer) : loops'[i] = Outer[i]
            /\ loops'[Len(Outer) + 1] = f
        BY <4>2, <4>3, <2>1, OuterFacts, PushFacts
      <4> QED
        BY <4>3, <4>4, <2>1, OuterFacts
    <3> QED
      BY <3>1, <3>2
  <2>5. \A i \in 1 .. Len(loops') : loops'[i].start < pc'
    BY <2>1, <2>2, <2>3, <2>4, OuterFacts, FrameFacts
  <2>6. LoopsNested'
    BY <2>4, <2>5 DEF Control, LoopsNested
  <2> QED
    BY <2>2, <2>3, <2>4, <2>6 DEF Control, States
<1>13. CASE TickLoopDone
  <2>1. At \in 0 .. MaxSteps - 1 /\ pc <= At /\ Mode \in {"running", "error"}
    BY <1>13, FetchedFacts DEF TickLoopDone
  <2>2. pc' = At + 1 /\ state' \in {"idle", "running", "error"}
    BY <1>13, <2>1, GoOnFacts DEF TickLoopDone
  <2>3. CASE loops = <<>>
    <3>1. loops' = loops
      BY <1>13, <2>3 DEF TickLoopDone
    <3>2. pc' \in 0 .. MaxSteps /\ pc <= pc'
      BY <2>1, <2>2 DEF Control
    <3> QED
      BY <2>2, <3>1, <3>2, MovesOn DEF States
  <2>4. CASE loops # <<>>
    <3>1. /\ loops' = Outer /\ loops' \in Seq(Frames)
          /\ Len(loops) \in Nat \ {0} /\ Len(loops') = Len(loops) - 1
          /\ \A i \in 1 .. Len(loops') : loops'[i] = loops[i]
      BY <1>13, <2>4, OuterFacts DEF TickLoopDone
    <3>2. \A i \in 1 .. Len(loops') : loops'[i].start < pc'
      <4> SUFFICES ASSUME NEW i \in 1 .. Len(loops') PROVE loops'[i].start < pc'
        OBVIOUS
      <4>1. i \in 1 .. Len(loops) /\ loops'[i] = loops[i]
        BY <3>1
      <4>2. loops[i].start \in 0 .. MaxSteps - 1 /\ loops[i].start < pc
        BY <4>1, FrameFacts
      <4>3. pc < pc' /\ pc \in Nat /\ pc' \in Nat
        BY <2>1, <2>2 DEF Control
      <4> QED
        BY <4>1, <4>2, <4>3, SizeAssumption
    <3>3. \A i, j \in 1 .. Len(loops') : i < j => loops'[i].start < loops'[j].start
      BY <3>1 DEF Control, LoopsNested
    <3>4. LoopsNested'
      BY <3>2, <3>3 DEF LoopsNested
    <3> QED
      BY <2>1, <2>2, <3>1, <3>4 DEF Control, States
  <2> QED
    BY <2>3, <2>4
<1>14. CASE TickHalt
  <2>1. At \in 0 .. MaxSteps - 1 /\ pc <= At
    BY <1>14, FetchedFacts DEF TickHalt
  <2> QED
    BY <1>14, <2>1, MovesOn DEF TickHalt, States
<1>15. CASE UNCHANGED vars
  BY <1>1, <1>15 DEF vars
<1> QED
  BY <1>2, <1>3, <1>4, <1>5, <1>6, <1>7, <1>8, <1>9, <1>10, <1>11, <1>12, <1>13, <1>14,
     <1>15 DEF Next, Tick

\* Every reachable state has the declared types; in particular pc never leaves
\* the slot's array of steps and the loop stack never overflows
\* (vm.c:25-58 and 60-158).
THEOREM VMTypeCorrect == Spec => []TypeOK
<1>1. Control /\ Data => TypeOK
  BY DEF Control, Data, States, TypeOK
<1> QED
  BY <1>1, InitInv, StepControl, StepData, PTL DEF Spec

\* Open loops stay properly nested behind the current step, even while slots
\* are redefined under the interpreter (vm.c:112-145).
THEOREM LoopsStayNested == Spec => []LoopsNested
<1>1. Control => LoopsNested
  BY DEF Control
<1> QED
  BY <1>1, InitInv, StepControl, StepData, PTL DEF Spec

-------------------------------------------------------------------------------
(***************************************************************************)
(* Delays.  While a delay that does not reach past the end of the clock is *)
(* waited for, what is owed is what separates the clock from its end.      *)
(***************************************************************************)
Owes == (state = "waiting" /\ ~wraps) => (owed = 0 \/ until = now + owed)

\* Only a DELAY instruction makes the interpreter wait.
LEMMA WaitsOnlyAtDelay ==
    ASSUME Tick, ~TickDelay, ~TickWaits, Control, Data
    PROVE  state' \in {"idle", "running", "error"}
<1>1. ASSUME NEW ops, Fetched(ops) PROVE Mode \in {"running", "error"}
  BY <1>1, FetchedFacts
<1>2. CASE TickSimple
  BY <1>2, <1>1, GoOnFacts DEF TickSimple
<1>3. CASE TickLoopStart
  BY <1>3, <1>1, GoOnFacts DEF TickLoopStart
<1>4. CASE TickLoopAgain
  BY <1>4, <1>1, GoOnFacts DEF TickLoopAgain
<1>5. CASE TickLoopDone
  BY <1>5, <1>1, GoOnFacts DEF TickLoopDone
<1>6. CASE TickPastEnd \/ TickLoopTooDeep \/ TickHalt
  BY <1>6 DEF TickPastEnd, TickLoopTooDeep, TickHalt
<1> QED
  BY <1>2, <1>3, <1>4, <1>5, <1>6 DEF Tick

LEMMA StepOwes == Control /\ Data /\ Owes /\ [Next]_vars => Owes'
<1> SUFFICES ASSUME Control, Data, Owes, [Next]_vars, state' = "waiting", ~wraps'
             PROVE  owed' = 0 \/ until' = now' + owed'
  BY DEF Owes
<1>1. ASSUME UNCHANGED <<state, until, now, owed, wraps>>
      PROVE  owed' = 0 \/ until' = now' + owed'
  BY <1>1 DEF Owes
<1>2. ASSUME NEW s \in Slots, NEW p \in Programs, Define(s, p)
      PROVE  owed' = 0 \/ until' = now' + owed'
  BY <1>2, <1>1 DEF Define
<1>3. ASSUME NEW s \in Slots, Run(s) PROVE owed' = 0
  BY <1>3 DEF Run
<1>4. CASE Stop
  BY <1>4 DEF Stop
<1>5. CASE Clock
  <2>1. /\ state = "waiting" /\ ~wraps /\ until' = until
        /\ owed' = IF owed > 0 THEN owed - 1 ELSE 0
        /\ now' = (now + 1) % ClockMod
    BY <1>5 DEF Clock
  <2>2. CASE owed = 0
    BY <2>1, <2>2
  <2>3. CASE owed # 0
    <3>1. until = now + owed /\ owed \in Nat /\ owed > 0 /\ until < ClockMod /\ now \in Nat
      BY <2>1, <2>3, SizeAssumption DEF Owes, Data, Operands
    <3>2. now + 1 \in 0 .. ClockMod - 1
      BY <3>1, SizeAssumption
    <3>3. (now + 1) % ClockMod = now + 1
      BY <3>2, SizeAssumption
    <3> QED
      BY <2>1, <3>1, <3>3
  <2> QED
    BY <2>2, <2>3
<1>6. CASE Tick
  <2>1. CASE TickDelay
    <3>1. Operand \in Operands
      BY <2>1, FetchedFacts DEF TickDelay
    <3>2. /\ until' = (now + Operand) % ClockMod /\ owed' = Operand /\ now' = now
          /\ ~(now + Operand >= ClockMod)
      BY <2>1 DEF TickDelay, runVars
    <3>3. now + Operand \in 0 .. ClockMod - 1
      BY <3>1, <3>2, SizeAssumption DEF Data, Operands
    <3>4. (now + Operand) % ClockMod = now + Operand
      BY <3>3, SizeAssumption
    <3> QED
      BY <3>2, <3>4
  <2>2. CASE TickWaits
    BY <2>2, <1>1 DEF TickWaits, vars
  <2> QED
    BY <1>6, <2>1, <2>2, WaitsOnlyAtDelay
<1>7. CASE UNCHANGED vars
  BY <1>7, <1>1 DEF vars
<1> QED
  BY <1>2, <1>3, <1>4, <1>5, <1>6, <1>7 DEF Next

\* A delay lasts at least its milliseconds, unless its end lies past the wrap
\* of the u32 clock (vm.c:66 and 95-99): for delays of any length.
THEOREM DelaysAreHonoured == Spec => DelayHonoured
<1>1. Control /\ Data /\ Owes /\ [Next]_vars
        => [(Tick /\ state = "waiting") => (owed = 0 \/ wraps)]_vars
  <2> SUFFICES ASSUME Control, Data, Owes, Tick, state = "waiting", ~UNCHANGED vars, ~wraps
               PROVE  owed = 0
    OBVIOUS
  <2>1. ~TickWaits
    BY DEF TickWaits
  <2>2. Awake
    BY <2>1 DEF Tick, TickPastEnd, TickSimple, TickDelay, TickLoopStart, TickLoopTooDeep,
                TickLoopAgain, TickLoopDone, TickHalt, Fetched
  <2>3. now >= until
    BY <2>2 DEF Awake, Expired
  <2> QED
    BY <2>3, SizeAssumption DEF Owes, Data, Operands
<1>2. Init => Owes
  BY DEF Init, Owes
<1> QED
  BY <1>1, <1>2, InitInv, StepControl, StepData, StepOwes, PTL DEF Spec, DelayHonoured
-------------------------------------------------------------------------------
(***************************************************************************)
(* What a macro sends.  A stack of open loops is right at step q when it   *)
(* holds the loops around q, each with rounds left; what is then still to  *)
(* be sent is the rest of the innermost loop's round and, for each open    *)
(* loop from the inside out, its other rounds and what follows it.         *)
(***************************************************************************)
Plain == {"nop", "down", "up", "tap", "send", "delay"}

StackRight(p, ends, stack, q) ==
    /\ \A k \in 1 .. Len(stack) :
          /\ stack[k].start \in LoopStarts(p)
          /\ stack[k].start < q /\ q <= ends[stack[k].start]
          /\ stack[k].remaining \in 1 .. Rounds(p, stack[k].start)
    /\ \A i \in LoopStarts(p) :
          i < q /\ q <= ends[i] => \E k \in 1 .. Len(stack) : stack[k].start = i

Rising(stack) ==
    \A i, j \in 1 .. Len(stack) : i < j => stack[i].start < stack[j].start

After(r, f) == r.rounds[f.start][f.remaining - 1] \o r.rest[r.ends[f.start] + 1]

\* owed[k] is what the outermost k loops of the stack still send.
Owing(r, stack, owing) ==
    /\ owing \in [0 .. Len(stack) -> Seq(Emissions)]
    /\ owing[0] = <<>>
    /\ \A k \in 1 .. Len(stack) : owing[k] = After(r, stack[k]) \o owing[k - 1]

Balance(r, stack, q, sent) ==
    \E owing : /\ Owing(r, stack, owing)
               /\ sent \o (r.rest[q] \o owing[Len(stack)]) = r.rest[0]

OnCourse(p, r, stack, q, sent) ==
    /\ q \in 0 .. Len(p)
    /\ stack \in Seq(Frames) /\ Rising(stack)
    /\ sent \in Seq(Emissions)
    /\ StackRight(p, r.ends, stack, q)
    /\ Balance(r, stack, q, sent)

IsProgram(p, r) == p \in Programs /\ IsReading(p, r)

LEMMA ProgramFacts ==
    ASSUME NEW p, NEW r, IsProgram(p, r)
    PROVE  /\ p \in Seq(Instructions) /\ Len(p) \in Nat /\ Len(p) <= MaxSteps
           /\ \A i \in 0 .. Len(p) - 1 : p[i + 1] \in Instructions
           /\ \A q \in 0 .. Len(p) : r.rest[q] \in Seq(Emissions)
<1>1. p \in Seq(Instructions) /\ Len(p) \in Nat /\ Len(p) <= MaxSteps
  BY ProgramAssumption, LenProperties DEF IsProgram
<1>2. \A i \in 0 .. Len(p) - 1 : p[i + 1] \in Instructions
  BY <1>1, ElementOfSeq
<1> QED
  BY <1>1, <1>2 DEF IsProgram, IsReading

\* A step belongs to one of the kinds, and where a loop lies.
LEMMA StepFacts ==
    ASSUME NEW p, NEW r, IsProgram(p, r)
    PROVE  /\ \A i \in LoopStarts(p) :
                 /\ i \in Nat /\ i < Len(p) /\ p[i + 1].op = "loop"
                 /\ r.ends[i] \in LoopEnds(p) /\ i < r.ends[i]
                 /\ Rounds(p, i) \in Operands /\ Rounds(p, i) > 0
           /\ \A e \in LoopEnds(p) : e \in Nat /\ e < Len(p) /\ p[e + 1].op = "end"
           /\ \A e \in LoopEnds(p) : \E i \in LoopStarts(p) : r.ends[i] = e
           /\ \A i, j \in LoopStarts(p) : i < j /\ j < r.ends[i] => r.ends[j] < r.ends[i]
<1>1. /\ Len(p) \in Nat
      /\ \A i \in 0 .. Len(p) - 1 : p[i + 1] \in Instructions
  BY ProgramFacts
<1>2. PairsUp(p, r.ends)
  BY DEF IsProgram, IsReading
<1>3. \A i \in LoopStarts(p) : i \in 0 .. Len(p) - 1 /\ p[i + 1].op = "loop"
  BY DEF LoopStarts, StepsOf
<1>4. \A e \in LoopEnds(p) : e \in 0 .. Len(p) - 1 /\ p[e + 1].op = "end"
  BY DEF LoopEnds, StepsOf
<1>5. \A i \in LoopStarts(p) : Rounds(p, i) \in Operands
  BY <1>1, <1>3 DEF Rounds, Instructions
<1>6. \A i \in LoopStarts(p) : r.ends[i] \in LoopEnds(p)
  BY <1>2 DEF PairsUp
<1>7. \A i \in LoopStarts(p) : i \in Nat /\ i < Len(p)
  BY <1>1, <1>3
<1>8. \A e \in LoopEnds(p) : e \in Nat /\ e < Len(p)
  BY <1>1, <1>4
<1> QED
  BY <1>2, <1>3, <1>4, <1>5, <1>6, <1>7, <1>8 DEF PairsUp

\* What the rest of a round is at each kind of step.
RestRight(p, r) ==
    /\ r.rest[Len(p)] = <<>>
    /\ \A e \in LoopEnds(p) : r.rest[e] = <<>>
    /\ \A i \in StepsOf(p, Plain) : r.rest[i] = Sends(p[i + 1]) \o r.rest[i + 1]
    /\ \A i \in LoopStarts(p) :
          r.rest[i] = r.rounds[i][Rounds(p, i)] \o r.rest[r.ends[i] + 1]

RoundsRight(p, r) ==
    \A i \in LoopStarts(p) :
        /\ r.rounds[i] \in [0 .. Rounds(p, i) -> Seq(Emissions)]
        /\ r.rounds[i][0] = <<>>
        /\ \A k \in 1 .. Rounds(p, i) :
              r.rounds[i][k] = r.rest[i + 1] \o r.rounds[i][k - 1]

LEMMA ReadingFacts ==
    ASSUME NEW p, NEW r, IsProgram(p, r)
    PROVE  RestRight(p, r) /\ RoundsRight(p, r)
  BY DEF IsProgram, IsReading, Plain, RestRight, RoundsRight

\* Four sequences joined are the first one and the other three joined.
AreSent(a, b, c, d) ==
    a \in Seq(Emissions) /\ b \in Seq(Emissions) /\ c \in Seq(Emissions) /\ d \in Seq(Emissions)
Regroup(a, b, c, d) == ((a \o b) \o c) \o d = a \o ((b \o c) \o d)

LEMMA Regrouped ==
    ASSUME NEW a, NEW b, NEW c, NEW d, AreSent(a, b, c, d)
    PROVE  Regroup(a, b, c, d)
<1> USE DEF AreSent
<1>1. (a \o b) \o c = a \o (b \o c)
  BY ConcatAssociative
<1>2. \A x \in Seq(Emissions) : (a \o x) \o d = a \o (x \o d)
  BY ConcatAssociative
<1>3. b \o c \in Seq(Emissions)
  BY ConcatProperties
<1> QED
  BY <1>1, <1>2, <1>3 DEF Regroup

LEMMA SendsFacts ==
    ASSUME NEW insn \in Instructions
    PROVE  Sends(insn) \in Seq(Emissions)
<1>1. insn.arg \in Operands
  BY DEF Instructions
<1>2. \A op \in {"down", "up", "send"} : <<op, insn.arg>> \in Emissions
  BY <1>1 DEF Emissions
<1>3. \A a, b \in Emissions : <<a, b>> \in Seq(Emissions)
  OBVIOUS
<1>4. \A a \in Emissions : <<a>> \in Seq(Emissions)
  OBVIOUS
<1>5. CASE insn.op = "tap"
  BY <1>2, <1>3, <1>5 DEF Sends
<1>6. CASE insn.op # "tap" /\ insn.op \in {"down", "up", "send"}
  <2>1. Sends(insn) = << <<insn.op, insn.arg>> >>
    BY <1>6 DEF Sends
  <2> QED
    BY <1>2, <1>4, <1>6, <2>1
<1>7. CASE insn.op # "tap" /\ insn.op \notin {"down", "up", "send"}
  <2>1. Sends(insn) = <<>>
    BY <1>7 DEF Sends
  <2> QED
    BY <2>1, EmptySeq
<1> QED
  BY <1>5, <1>6, <1>7

\* What a loop with rounds left still sends, in the round before and the last.
LEMMA AfterFacts ==
    ASSUME NEW p, NEW r, IsProgram(p, r), NEW f,
           f.start \in LoopStarts(p), f.remaining \in 1 .. Rounds(p, f.start)
    PROVE  /\ r.rounds[f.start][f.remaining - 1] \in Seq(Emissions)
           /\ r.rest[r.ends[f.start] + 1] \in Seq(Emissions)
           /\ After(r, f) \in Seq(Emissions)
<1>1. /\ Rounds(p, f.start) \in Operands
      /\ r.rounds[f.start] \in [0 .. Rounds(p, f.start) -> Seq(Emissions)]
  BY StepFacts, ReadingFacts DEF RoundsRight
<1>2. f.remaining - 1 \in 0 .. Rounds(p, f.start)
  BY <1>1, SizeAssumption DEF Operands
<1>3. r.rounds[f.start][f.remaining - 1] \in Seq(Emissions)
  BY <1>1, <1>2
<1>4. r.ends[f.start] + 1 \in 0 .. Len(p)
  BY StepFacts, ProgramFacts
<1>5. r.rest[r.ends[f.start] + 1] \in Seq(Emissions)
  BY <1>4, ProgramFacts
<1> QED
  BY <1>3, <1>5, ConcatProperties DEF After

-------------------------------------------------------------------------------
(***************************************************************************)
(* One lemma for each way a macro goes on.                                 *)
(***************************************************************************)
LEMMA StartsOnCourse ==
    ASSUME NEW p, NEW r, IsProgram(p, r)
    PROVE  OnCourse(p, r, <<>>, 0, <<>>)
<1> DEFINE owing == [k \in {0} |-> <<>>]
<1>1. /\ Len(p) \in Nat /\ r.rest[0] \in Seq(Emissions)
  BY ProgramFacts
<1>2. <<>> \in Seq(Frames) /\ <<>> \in Seq(Emissions) /\ Len(<<>>) = 0
  BY EmptySeq
<1>3. Rising(<<>>)
  BY <1>2 DEF Rising
<1>4. StackRight(p, r.ends, <<>>, 0)
  <2>1. \A i \in LoopStarts(p) : ~(i < 0)
    BY StepFacts
  <2>2. \A k \in 1 .. Len(<<>>) : FALSE
    BY <1>2
  <2> QED
    BY <2>1, <2>2 DEF StackRight
<1>5. Owing(r, <<>>, owing)
  BY <1>2 DEF Owing
<1>6. <<>> \o (r.rest[0] \o owing[0]) = r.rest[0]
  BY <1>1, ConcatEmptySeq
<1>7. Balance(r, <<>>, 0, <<>>)
  <2> HIDE DEF owing
  <2> QED
    BY <1>2, <1>5, <1>6 DEF Balance
<1> QED
  BY <1>1, <1>2, <1>3, <1>4, <1>7 DEF OnCourse

\* A step that is no loop's begin or end: the loops around the next are the same.
LEMMA PlainOnCourse ==
    ASSUME NEW p, NEW r, IsProgram(p, r), NEW stack, NEW sent,
           NEW q \in StepsOf(p, Plain), OnCourse(p, r, stack, q, sent)
    PROVE  OnCourse(p, r, stack, q + 1, sent \o Sends(p[q + 1]))
<1> DEFINE s == Sends(p[q + 1])
<1>1. q \in 0 .. Len(p) - 1 /\ p[q + 1].op \in Plain /\ Len(p) \in Nat
  BY ProgramFacts DEF StepsOf
<1>2. s \in Seq(Emissions) /\ r.rest[q] = s \o r.rest[q + 1]
  <2>1. p[q + 1] \in Instructions
    BY <1>1, ProgramFacts
  <2>2. s \in Seq(Emissions)
    BY <2>1, SendsFacts
  <2>3. r.rest[q] = s \o r.rest[q + 1]
    <3>1. RestRight(p, r)
      BY ReadingFacts
    <3> QED
      BY <3>1, Zenon DEF RestRight
  <2> QED
    BY <2>2, <2>3
<1>3. /\ stack \in Seq(Frames) /\ Rising(stack) /\ sent \in Seq(Emissions)
      /\ StackRight(p, r.ends, stack, q) /\ Balance(r, stack, q, sent)
  BY DEF OnCourse
<1>4. StackRight(p, r.ends, stack, q + 1)
  <2>1. \A i \in LoopStarts(p) : i \in Nat /\ i # q /\ r.ends[i] \in Nat /\ r.ends[i] # q
    BY <1>1, StepFacts DEF Plain
  <2>2. \A i \in LoopStarts(p) : (i < q + 1 /\ q + 1 <= r.ends[i]) <=> (i < q /\ q <= r.ends[i])
    BY <1>1, <2>1
  <2> QED
    BY <1>3, <2>2 DEF StackRight
<1>5. Balance(r, stack, q + 1, sent \o s)
  <2>1. PICK owing : Owing(r, stack, owing)
                     /\ sent \o (r.rest[q] \o owing[Len(stack)]) = r.rest[0]
    BY <1>3 DEF Balance
  <2>2. owing[Len(stack)] \in Seq(Emissions)
    BY <1>3, <2>1, LenProperties DEF Owing
  <2>3. r.rest[q + 1] \in Seq(Emissions)
    BY <1>1, ProgramFacts
  <2> DEFINE a == r.rest[q + 1]
             b == owing[Len(stack)]
  <2>4. (sent \o s) \o (a \o b) = sent \o ((s \o a) \o b)
    <3> HIDE DEF a, b, s
    <3>1. a \in Seq(Emissions) /\ b \in Seq(Emissions) /\ s \in Seq(Emissions)
      BY <1>2, <2>2, <2>3 DEF a, b
    <3>2. (s \o a) \o b = s \o (a \o b)
      BY <3>1, ConcatAssociative
    <3>3. \A c \in Seq(Emissions) : (sent \o s) \o c = sent \o (s \o c)
      BY <1>3, <3>1, ConcatAssociative
    <3> QED
      BY <3>1, <3>2, <3>3, ConcatProperties
  <2>5. (sent \o s) \o (r.rest[q + 1] \o owing[Len(stack)]) = r.rest[0]
    BY <1>2, <2>1, <2>4
  <2> QED
    BY <2>1, <2>5 DEF Balance
<1>6. q + 1 \in 0 .. Len(p) /\ sent \o s \in Seq(Emissions)
  BY <1>1, <1>2, <1>3, ConcatProperties
<1> QED
  BY <1>3, <1>4, <1>5, <1>6 DEF OnCourse

\* LOOP_START: its first round begins, and the others are owed.
LEMMA EnterOnCourse ==
    ASSUME NEW p, NEW r, IsProgram(p, r), NEW stack, NEW sent,
           NEW q \in LoopStarts(p), OnCourse(p, r, stack, q, sent)
    PROVE  OnCourse(p, r, Append(stack, [start |-> q, remaining |-> Rounds(p, q)]),
                    q + 1, sent)
<1> DEFINE f == [start |-> q, remaining |-> Rounds(p, q)]
           m == Len(stack)
           pushed == Append(stack, f)
           e == r.ends[q]
<1>1. /\ q \in Nat /\ q < Len(p) /\ Rounds(p, q) \in Operands /\ Rounds(p, q) > 0
      /\ Len(p) \in Nat /\ Len(p) <= MaxSteps
      /\ e \in Nat /\ q < e /\ p[q + 1].op = "loop"
  BY ProgramFacts, StepFacts
<1>2. /\ stack \in Seq(Frames) /\ Rising(stack) /\ sent \in Seq(Emissions)
      /\ StackRight(p, r.ends, stack, q) /\ Balance(r, stack, q, sent)
  BY DEF OnCourse
<1>3. f \in Frames /\ f.start = q /\ f.remaining = Rounds(p, q)
  BY <1>1, SizeAssumption DEF Frames
<1> HIDE DEF f
<1>4. /\ pushed \in Seq(Frames) /\ m \in Nat /\ Len(pushed) = m + 1
      /\ \A k \in 1 .. m : pushed[k] = stack[k]
      /\ pushed[m + 1] = f
  BY <1>2, <1>3, PushFacts
<1> HIDE DEF m, pushed
<1>5. \A k \in 1 .. m : /\ stack[k].start \in LoopStarts(p) /\ stack[k].start \in Nat
                        /\ stack[k].start < q /\ q <= r.ends[stack[k].start]
  BY <1>2, StepFacts DEF StackRight, m
<1>6. \A k \in 1 .. m + 1 : k \in 1 .. m \/ k = m + 1
  BY <1>4
<1>7. Rising(pushed)
  <2>1. \A i, j \in 1 .. m : i < j => pushed[i].start < pushed[j].start
    BY <1>2, <1>4 DEF Rising, m
  <2>2. \A i \in 1 .. m : pushed[i].start < pushed[m + 1].start
    BY <1>3, <1>4, <1>5
  <2>3. ASSUME NEW i \in 1 .. m + 1, NEW j \in 1 .. m + 1, i < j
        PROVE  pushed[i].start < pushed[j].start
    <3>1. i \in 1 .. m /\ (j \in 1 .. m \/ j = m + 1)
      BY <1>4, <2>3
    <3> QED
      BY <2>1, <2>2, <2>3, <3>1
  <2> QED
    BY <1>4, <2>3 DEF Rising
<1>8. StackRight(p, r.ends, pushed, q + 1)
  <2>1. \A i \in LoopStarts(p) : i \in Nat /\ r.ends[i] \in Nat /\ r.ends[i] # q
    BY <1>1, StepFacts
  <2>2. \A k \in 1 .. m : /\ stack[k].start < q + 1 /\ q + 1 <= r.ends[stack[k].start]
                          /\ stack[k].remaining \in 1 .. Rounds(p, stack[k].start)
    BY <1>1, <1>2, <1>5, <2>1 DEF StackRight, m
  <2>3. f.remaining \in 1 .. Rounds(p, q)
    BY <1>1, <1>3, SizeAssumption DEF Operands
  <2>4. \A k \in 1 .. m + 1 :
           /\ pushed[k].start \in LoopStarts(p)
           /\ pushed[k].start < q + 1 /\ q + 1 <= r.ends[pushed[k].start]
           /\ pushed[k].remaining \in 1 .. Rounds(p, pushed[k].start)
    <3>1. \A k \in 1 .. m :
             /\ pushed[k].start \in LoopStarts(p)
             /\ pushed[k].start < q + 1 /\ q + 1 <= r.ends[pushed[k].start]
             /\ pushed[k].remaining \in 1 .. Rounds(p, pushed[k].start)
      BY <1>4, <1>5, <2>2
    <3>2. /\ pushed[m + 1].start \in LoopStarts(p)
          /\ pushed[m + 1].start < q + 1 /\ q + 1 <= r.ends[pushed[m + 1].start]
          /\ pushed[m + 1].remaining \in 1 .. Rounds(p, pushed[m + 1].start)
      BY <1>1, <1>3, <1>4, <2>3
    <3> QED
      BY <1>6, <3>1, <3>2
  <2>5. ASSUME NEW i \in LoopStarts(p), i < q + 1, q + 1 <= r.ends[i]
        PROVE  \E k \in 1 .. m + 1 : pushed[k].start = i
    <3>1. CASE i = q
      BY <3>1, <1>3, <1>4
    <3>2. CASE i # q
      <4>1. i < q /\ q <= r.ends[i]
        <5>1. i \in Nat /\ r.ends[i] \in Nat
          BY <2>1
        <5> HIDE DEF e
        <5> QED
          BY <1>1, <2>5, <3>2, <5>1
      <4>2. PICK k \in 1 .. m : stack[k].start = i
        BY <1>2, <4>1 DEF StackRight, m
      <4>3. k \in 1 .. m + 1
        BY <1>4
      <4> QED
        BY <1>4, <4>2, <4>3
    <3> QED
      BY <3>1, <3>2
  <2> QED
    BY <1>4, <2>4, <2>5 DEF StackRight
<1>9. Balance(r, pushed, q + 1, sent)
  <2>1. PICK owing : Owing(r, stack, owing)
                     /\ sent \o (r.rest[q] \o owing[m]) = r.rest[0]
    BY <1>2 DEF Balance, m
  <2>2. /\ owing \in [0 .. m -> Seq(Emissions)] /\ owing[0] = <<>>
        /\ \A k \in 1 .. m : owing[k] = After(r, stack[k]) \o owing[k - 1]
    BY <2>1 DEF Owing, m
  <2>3. After(r, f) \in Seq(Emissions)
    <3>1. f.start \in LoopStarts(p) /\ f.remaining \in 1 .. Rounds(p, f.start)
      BY <1>1, <1>3, SizeAssumption DEF Operands
    <3> QED
      BY <3>1, AfterFacts
  <2> DEFINE top == After(r, f) \o owing[m]
             more == [k \in 0 .. m + 1 |-> IF k = m + 1 THEN top ELSE owing[k]]
  <2>4. owing[m] \in Seq(Emissions) /\ top \in Seq(Emissions)
    BY <1>4, <2>2, <2>3, ConcatProperties
  <2> HIDE DEF top
  <2>5. Owing(r, pushed, more)
    <3>1. more \in [0 .. m + 1 -> Seq(Emissions)]
      BY <1>4, <2>2, <2>4
    <3>2. more[0] = <<>>
      BY <1>4, <2>2
    <3>3. \A k \in 1 .. m : more[k] = After(r, pushed[k]) \o more[k - 1]
      <4> TAKE k \in 1 .. m
      <4>1. k # m + 1 /\ k - 1 # m + 1 /\ k \in 0 .. m + 1 /\ k - 1 \in 0 .. m + 1
        BY <1>4
      <4>2. more[k] = owing[k] /\ more[k - 1] = owing[k - 1]
        BY <4>1
      <4> HIDE DEF more
      <4> QED
        BY <1>4, <2>2, <4>2
    <3>4. ASSUME NEW k \in 1 .. m + 1, k = m + 1
          PROVE  more[k] = After(r, pushed[k]) \o more[k - 1]
      <4>1. k - 1 = m
        BY <1>4, <3>4
      <4>2. more[k] = top /\ more[m] = owing[m] /\ pushed[k] = f
        BY <1>4, <3>4
      <4> HIDE DEF more
      <4> QED
        BY <4>1, <4>2, Zenon DEF top
    <3> HIDE DEF more
    <3>5. \A k \in 1 .. m + 1 : more[k] = After(r, pushed[k]) \o more[k - 1]
      BY <1>6, <3>3, <3>4, Zenon
    <3> QED
      BY <1>4, <3>1, <3>2, <3>5 DEF Owing
  <2>6. more[m + 1] = top
    BY <1>4
  <2> HIDE DEF more
  <2>7. r.rest[q] \o owing[m] = r.rest[q + 1] \o top
    <3> DEFINE n == Rounds(p, q)
               a == r.rest[q + 1]
               b == r.rounds[q][n - 1]
               c == r.rest[e + 1]
               d == owing[m]
    <3>1. r.rest[q] = (a \o b) \o c
      <4>1. n \in 1 .. n
        BY <1>1, SizeAssumption DEF Operands
      <4>2. /\ \A k \in 1 .. Rounds(p, q) :
                  r.rounds[q][k] = r.rest[q + 1] \o r.rounds[q][k - 1]
            /\ r.rest[q] = r.rounds[q][n] \o c
        <5>1. RestRight(p, r) /\ RoundsRight(p, r)
          BY ReadingFacts
        <5> QED
          BY <5>1, Zenon DEF RestRight, RoundsRight
      <4>3. r.rounds[q][n] = a \o b
        BY <4>1, <4>2, Zenon
      <4> QED
        BY <4>2, <4>3, Zenon
    <3>2. After(r, f) = b \o c
      BY <1>3 DEF After
    <3>3. a \in Seq(Emissions)
      BY <1>1, ProgramFacts
    <3>4. b \in Seq(Emissions) /\ c \in Seq(Emissions)
      <4>1. f.start \in LoopStarts(p) /\ f.remaining \in 1 .. Rounds(p, f.start)
        BY <1>1, <1>3, SizeAssumption DEF Operands
      <4> QED
        BY <1>3, <4>1, AfterFacts
    <3>5. d \in Seq(Emissions)
      BY <2>4
    <3> HIDE DEF n, a, b, c, d
    <3>6. ((a \o b) \o c) \o d = a \o ((b \o c) \o d)
      <4>1. AreSent(a, b, c, d)
        BY <3>3, <3>4, <3>5 DEF AreSent, a, b, c, d
      <4>2. Regroup(a, b, c, d)
        BY <4>1, Regrouped
      <4> QED
        BY <4>2 DEF Regroup
    <3>7. r.rest[q] \o d = a \o (After(r, f) \o d)
      BY <3>1, <3>2, <3>6
    <3> QED
      BY <3>7 DEF a, d, top
  <2> QED
    BY <1>4, <2>1, <2>5, <2>6, <2>7 DEF Balance
<1>10. q + 1 \in 0 .. Len(p)
  BY <1>1
<1>11. OnCourse(p, r, pushed, q + 1, sent)
  BY <1>2, <1>4, <1>7, <1>8, <1>9, <1>10 DEF OnCourse
<1> QED
  BY <1>11 DEF f, pushed

\* LOOP_END: the loop it ends is the innermost open one.
LEMMA EndIsTops ==
    ASSUME NEW p, NEW r, IsProgram(p, r), NEW stack, NEW sent,
           NEW q \in LoopEnds(p), OnCourse(p, r, stack, q, sent)
    PROVE  /\ Len(stack) \in Nat /\ Len(stack) # 0 /\ stack # <<>>
           /\ stack[Len(stack)].start \in LoopStarts(p)
           /\ r.ends[stack[Len(stack)].start] = q
           /\ stack[Len(stack)].remaining \in 1 .. Rounds(p, stack[Len(stack)].start)
<1> DEFINE m == Len(stack)
<1>1. /\ stack \in Seq(Frames) /\ Rising(stack) /\ StackRight(p, r.ends, stack, q)
      /\ m \in Nat /\ q \in Nat
  BY StepFacts, LenProperties DEF OnCourse
<1>2. PICK i \in LoopStarts(p) : r.ends[i] = q
  BY StepFacts
<1>3. i \in Nat /\ i < q
  BY <1>2, StepFacts
<1>4. PICK k \in 1 .. m : stack[k].start = i
  BY <1>1, <1>2, <1>3 DEF StackRight
<1>5. m # 0 /\ m \in 1 .. m
  BY <1>1, <1>4
<1>6. stack[m].start \in LoopStarts(p) /\ stack[m].start < q /\ q <= r.ends[stack[m].start]
      /\ stack[m].remaining \in 1 .. Rounds(p, stack[m].start)
  BY <1>1, <1>5 DEF StackRight
<1>7. k = m
  <2>1. ASSUME k < m PROVE FALSE
    <3>1. i < stack[m].start
      BY <1>1, <1>4, <1>5, <2>1 DEF Rising
    <3>2. r.ends[stack[m].start] < r.ends[i]
      BY <1>2, <1>6, <3>1, StepFacts
    <3>3. r.ends[stack[m].start] \in Nat
      BY <1>6, StepFacts
    <3> QED
      BY <1>1, <1>2, <1>6, <3>2, <3>3
  <2> HIDE DEF m
  <2> QED
    BY <1>1, <1>4, <2>1
<1>8. stack # <<>>
  BY <1>5, EmptySeq
<1> QED
  BY <1>1, <1>2, <1>4, <1>5, <1>6, <1>7, <1>8

\* Only the innermost loop of a stack is replaced, or left.
Below(r, stack, owing) ==
    /\ owing \in [0 .. Len(stack) -> Seq(Emissions)]
    /\ owing[0] = <<>>
    /\ \A k \in 1 .. Len(stack) - 1 : owing[k] = After(r, stack[k]) \o owing[k - 1]

RoundOver(r, stack, sent, owing) ==
    /\ Below(r, stack, owing)
    /\ owing[Len(stack) - 1] \in Seq(Emissions)
    /\ sent \o (After(r, stack[Len(stack)]) \o owing[Len(stack) - 1]) = r.rest[0]

\* At a LOOP_END the round is over: what is left is owed by the open loops.
LEMMA EndBalance ==
    ASSUME NEW p, NEW r, IsProgram(p, r), NEW stack, NEW sent,
           NEW q \in LoopEnds(p), OnCourse(p, r, stack, q, sent)
    PROVE  \E owing : RoundOver(r, stack, sent, owing)
<1> DEFINE m == Len(stack)
<1>1. /\ m \in Nat /\ m # 0 /\ stack[m].start \in LoopStarts(p)
      /\ stack[m].remaining \in 1 .. Rounds(p, stack[m].start)
      /\ sent \in Seq(Emissions) /\ Balance(r, stack, q, sent)
  BY EndIsTops DEF OnCourse
<1> HIDE DEF m
<1>2. PICK owing : Owing(r, stack, owing)
                   /\ sent \o (r.rest[q] \o owing[m]) = r.rest[0]
  BY <1>1 DEF Balance, m
<1>3. /\ owing \in [0 .. m -> Seq(Emissions)] /\ owing[0] = <<>>
      /\ \A k \in 1 .. m : owing[k] = After(r, stack[k]) \o owing[k - 1]
  BY <1>2 DEF Owing, m
<1>4. m - 1 \in 0 .. m /\ m \in 0 .. m /\ m \in 1 .. m
  BY <1>1
<1>5. owing[m] \in Seq(Emissions) /\ owing[m - 1] \in Seq(Emissions)
  BY <1>3, <1>4
<1>6. r.rest[q] \o owing[m] = owing[m]
  <2>1. r.rest[q] = <<>>
    BY ReadingFacts DEF RestRight
  <2> QED
    BY <1>5, <2>1, ConcatEmptySeq
<1>7. owing[m] = After(r, stack[m]) \o owing[m - 1]
  BY <1>3, <1>4, Zenon
<1>8. Below(r, stack, owing)
  <2>1. \A k \in 1 .. m - 1 : k \in 1 .. m
    BY <1>1
  <2> QED
    BY <1>3, <2>1, Zenon DEF Below, m
<1>9. sent \o (After(r, stack[m]) \o owing[m - 1]) = r.rest[0]
  BY <1>2, <1>6, <1>7
<1> QED
  BY <1>5, <1>8, <1>9 DEF m, RoundOver

\* LOOP_END with more than one round left: the next round begins.
LEMMA AgainOnCourse ==
    ASSUME NEW p, NEW r, IsProgram(p, r), NEW stack, NEW sent,
           NEW q \in LoopEnds(p), OnCourse(p, r, stack, q, sent),
           NEW f \in Frames, f.start = stack[Len(stack)].start,
           stack[Len(stack)].remaining # 1,
           f.remaining = stack[Len(stack)].remaining - 1,
           NEW again \in Seq(Frames), Len(again) = Len(stack),
           \A k \in 1 .. Len(stack) - 1 : again[k] = stack[k],
           again[Len(stack)] = f
    PROVE  OnCourse(p, r, again, f.start + 1, sent)
<1> DEFINE m == Len(stack)
           top == stack[m]
           s == f.start
           n == top.remaining
<1>1. /\ m \in Nat /\ m # 0 /\ s \in LoopStarts(p) /\ r.ends[s] = q
      /\ n \in 1 .. Rounds(p, s) /\ s = top.start
  BY EndIsTops
<1>2. /\ stack \in Seq(Frames) /\ Rising(stack) /\ sent \in Seq(Emissions)
      /\ StackRight(p, r.ends, stack, q)
  BY DEF OnCourse
<1>3. /\ s \in Nat /\ s < q /\ q \in Nat /\ q < Len(p) /\ Len(p) \in Nat
      /\ Rounds(p, s) \in Nat
  <2>1. Rounds(p, s) \in Operands /\ s \in Nat /\ s < q
    BY <1>1, StepFacts
  <2>2. q \in Nat /\ q < Len(p) /\ Len(p) \in Nat
    BY StepFacts, ProgramFacts
  <2> QED
    BY <2>1, <2>2, SizeAssumption DEF Operands
<1>4. n \in Nat /\ n > 1 /\ f.remaining = n - 1
  BY <1>1, <1>3
<1>5. /\ Len(again) = m /\ again[m] = f
      /\ \A k \in 1 .. m - 1 : again[k] = stack[k]
  OBVIOUS
<1>6. \A k \in 1 .. m : (k \in 1 .. m - 1 /\ k # m) \/ k = m
  BY <1>1
<1>7. m \in 1 .. m
  BY <1>1
<1> HIDE DEF m, top, s, n
<1>8. \A k \in 1 .. m : again[k].start = stack[k].start
  BY <1>1, <1>5, <1>6 DEF s, top
<1>9. Rising(again)
  BY <1>2, <1>5, <1>8 DEF Rising, m
<1>10. \A k \in 1 .. m : stack[k].start <= s /\ stack[k].start \in LoopStarts(p)
  <2>1. \A k \in 1 .. m : stack[k].start \in LoopStarts(p)
    BY <1>2 DEF StackRight, m
  <2>2. \A k \in 1 .. m : k # m => stack[k].start < stack[m].start
    BY <1>1, <1>2, <1>7 DEF Rising, m
  <2> QED
    <3> TAKE k \in 1 .. m
    <3>1. stack[k].start \in Nat /\ stack[k].start \in LoopStarts(p)
      BY <2>1, StepFacts
    <3>2. stack[m].start = s
      BY <1>1 DEF top
    <3>3. CASE k = m
      BY <1>3, <3>1, <3>2, <3>3
    <3>4. CASE k # m
      BY <1>3, <2>2, <3>1, <3>2, <3>4
    <3> QED
      BY <3>3, <3>4
<1>11. StackRight(p, r.ends, again, s + 1)
  <2>1. \A i \in LoopStarts(p) : i \in Nat /\ r.ends[i] \in Nat
    BY StepFacts
  <2>2. \A k \in 1 .. m :
           /\ again[k].start \in LoopStarts(p)
           /\ again[k].start < s + 1 /\ s + 1 <= r.ends[again[k].start]
    <3> TAKE k \in 1 .. m
    <3>1. stack[k].start < q /\ q <= r.ends[stack[k].start]
      BY <1>2 DEF StackRight, m
    <3>2. stack[k].start \in Nat /\ r.ends[stack[k].start] \in Nat
      BY <1>10, <2>1
    <3> QED
      BY <1>3, <1>8, <1>10, <3>1, <3>2
  <2>3. \A k \in 1 .. m : again[k].remaining \in 1 .. Rounds(p, again[k].start)
    <3>1. \A k \in 1 .. m - 1 : again[k].remaining \in 1 .. Rounds(p, again[k].start)
      BY <1>1, <1>2, <1>5, <1>6 DEF StackRight, m
    <3>2. again[m].remaining \in 1 .. Rounds(p, again[m].start)
      BY <1>1, <1>3, <1>4, <1>5 DEF s
    <3> QED
      BY <1>6, <3>1, <3>2
  <2>4. ASSUME NEW i \in LoopStarts(p), i < s + 1, s + 1 <= r.ends[i]
        PROVE  \E k \in 1 .. m : again[k].start = i
    <3>1. CASE i = s
      BY <1>5, <1>7, <3>1 DEF s
    <3>2. CASE i # s
      <4>1. i \in Nat /\ r.ends[i] \in Nat
        BY <2>1
      <4>2. i < s /\ s < r.ends[i]
        BY <1>3, <2>4, <3>2, <4>1
      <4>3. q < r.ends[i]
        BY <1>1, <4>2, StepFacts
      <4>4. i < q /\ q <= r.ends[i]
        BY <1>3, <4>1, <4>2, <4>3
      <4>5. PICK k \in 1 .. m : stack[k].start = i
        BY <1>2, <4>4 DEF StackRight, m
      <4> QED
        BY <1>8, <4>5
    <3> QED
      BY <3>1, <3>2
  <2> QED
    BY <1>5, <2>2, <2>3, <2>4 DEF StackRight
<1>12. Balance(r, again, s + 1, sent)
  <2>0. PICK owing : RoundOver(r, stack, sent, owing)
    BY EndBalance
  <2>1. /\ Below(r, stack, owing) /\ owing[m - 1] \in Seq(Emissions)
        /\ sent \o (After(r, top) \o owing[m - 1]) = r.rest[0]
    BY <2>0 DEF RoundOver, m, top
  <2>2. /\ owing \in [0 .. m -> Seq(Emissions)] /\ owing[0] = <<>>
        /\ \A k \in 1 .. m - 1 : owing[k] = After(r, stack[k]) \o owing[k - 1]
    BY <2>1 DEF Below, m
  <2>3. f.start \in LoopStarts(p) /\ f.remaining \in 1 .. Rounds(p, f.start)
    BY <1>1, <1>3, <1>4 DEF s
  <2> DEFINE x == After(r, f) \o owing[m - 1]
             more == [owing EXCEPT ![m] = x]
  <2>4. After(r, f) \in Seq(Emissions) /\ x \in Seq(Emissions)
    BY <2>1, <2>3, AfterFacts, ConcatProperties
  <2> HIDE DEF x
  <2>5. /\ more \in [0 .. m -> Seq(Emissions)] /\ more[0] = <<>> /\ more[m] = x
        /\ \A k \in 0 .. m - 1 : more[k] = owing[k]
    BY <1>1, <2>2, <2>4
  <2> HIDE DEF more
  <2>6. \A k \in 1 .. m - 1 : more[k] = After(r, again[k]) \o more[k - 1]
    <3> TAKE k \in 1 .. m - 1
    <3>1. k \in 0 .. m - 1 /\ k - 1 \in 0 .. m - 1
      BY <1>1
    <3>2. more[k] = owing[k] /\ more[k - 1] = owing[k - 1] /\ again[k] = stack[k]
      BY <1>5, <2>5, <3>1
    <3> QED
      BY <2>2, <3>2
  <2>7. more[m] = After(r, again[m]) \o more[m - 1]
    <3>1. m - 1 \in 0 .. m - 1
      BY <1>1
    <3>2. more[m - 1] = owing[m - 1]
      BY <2>5, <3>1
    <3> QED
      BY <1>5, <2>5, <3>2 DEF x
  <2>8. Owing(r, again, more)
    <3>1. \A k \in 1 .. m : more[k] = After(r, again[k]) \o more[k - 1]
      BY <1>6, <2>6, <2>7
    <3> QED
      BY <1>5, <2>5, <3>1 DEF Owing
  <2>9. After(r, top) \o owing[m - 1] = r.rest[s + 1] \o x
    <3> DEFINE a == r.rest[s + 1]
               b == r.rounds[s][n - 1 - 1]
               c == r.rest[r.ends[s] + 1]
               d == owing[m - 1]
    <3>1. r.rounds[s][n - 1] = a \o b
      <4>1. \A k \in 1 .. Rounds(p, s) :
               r.rounds[s][k] = r.rest[s + 1] \o r.rounds[s][k - 1]
        <5>1. RoundsRight(p, r) /\ s \in LoopStarts(p)
          BY <1>1, ReadingFacts
        <5> HIDE DEF a, b, c, d
        <5> QED
          BY <5>1, Zenon DEF RoundsRight
      <4>2. n - 1 \in 1 .. Rounds(p, s)
        BY <1>1, <1>3, <1>4
      <4> QED
        BY <4>1, <4>2, Zenon
    <3>2. After(r, top) = (a \o b) \o c
      BY <1>1, <3>1 DEF After, n
    <3>3. After(r, f) = b \o c
      BY <1>4 DEF After, s
    <3>4. a \in Seq(Emissions)
      <4>1. s + 1 \in 0 .. Len(p)
        BY <1>3
      <4> QED
        BY <4>1, ProgramFacts
    <3>5. b \in Seq(Emissions) /\ c \in Seq(Emissions) /\ d \in Seq(Emissions)
      BY <1>4, <2>1, <2>3, AfterFacts DEF s
    <3> HIDE DEF a, b, c, d
    <3>6. ((a \o b) \o c) \o d = a \o ((b \o c) \o d)
      <4>1. AreSent(a, b, c, d)
        BY <3>4, <3>5 DEF AreSent, a, b, c, d
      <4>2. Regroup(a, b, c, d)
        BY <4>1, Regrouped
      <4> QED
        BY <4>2 DEF Regroup
    <3>7. After(r, top) \o d = a \o (After(r, f) \o d)
      BY <3>2, <3>3, <3>6
    <3> QED
      BY <3>7 DEF a, d, x
  <2> QED
    BY <1>5, <2>1, <2>5, <2>8, <2>9 DEF Balance
<1>13. s + 1 \in 0 .. Len(p)
  BY <1>3
<1> QED
  BY <1>2, <1>9, <1>11, <1>12, <1>13 DEF OnCourse, s

\* LOOP_END after the last round: the loop is closed.
LEMMA DoneOnCourse ==
    ASSUME NEW p, NEW r, IsProgram(p, r), NEW stack, NEW sent,
           NEW q \in LoopEnds(p), OnCourse(p, r, stack, q, sent),
           stack[Len(stack)].remaining = 1,
           NEW outer \in Seq(Frames), Len(outer) = Len(stack) - 1,
           \A k \in 1 .. Len(stack) - 1 : outer[k] = stack[k]
    PROVE  OnCourse(p, r, outer, q + 1, sent)
<1> DEFINE m == Len(stack)
           top == stack[m]
           s == top.start
<1>1. /\ m \in Nat /\ m # 0 /\ s \in LoopStarts(p) /\ r.ends[s] = q
      /\ top.remaining = 1 /\ top.remaining \in 1 .. Rounds(p, s)
  BY EndIsTops
<1>2. /\ stack \in Seq(Frames) /\ Rising(stack) /\ sent \in Seq(Emissions)
      /\ StackRight(p, r.ends, stack, q)
  BY DEF OnCourse
<1>3. /\ s \in Nat /\ s < q /\ q \in Nat /\ q < Len(p) /\ Len(p) \in Nat
      /\ p[q + 1].op = "end"
  BY <1>1, StepFacts, ProgramFacts
<1>4. /\ Len(outer) = m - 1 /\ \A k \in 1 .. m - 1 : outer[k] = stack[k]
  OBVIOUS
<1>5. \A k \in 1 .. m : (k \in 1 .. m - 1 /\ k # m) \/ k = m
  BY <1>1
<1>6. m \in 1 .. m /\ \A k \in 1 .. m - 1 : k \in 1 .. m /\ k < m
  BY <1>1
<1> HIDE DEF m, top, s
<1>7. Rising(outer)
  BY <1>2, <1>4, <1>6 DEF Rising, m
<1>8. StackRight(p, r.ends, outer, q + 1)
  <2>1. \A i \in LoopStarts(p) : i \in Nat /\ r.ends[i] \in Nat /\ i # q
    BY <1>3, StepFacts
  <2>2. \A k \in 1 .. m - 1 :
           /\ outer[k].start \in LoopStarts(p)
           /\ outer[k].start < q + 1 /\ q + 1 <= r.ends[outer[k].start]
           /\ outer[k].remaining \in 1 .. Rounds(p, outer[k].start)
    <3> TAKE k \in 1 .. m - 1
    <3>1. k \in 1 .. m /\ k < m
      BY <1>6
    <3>2. /\ stack[k].start \in LoopStarts(p)
          /\ stack[k].start < q /\ q <= r.ends[stack[k].start]
          /\ stack[k].remaining \in 1 .. Rounds(p, stack[k].start)
      BY <1>2, <3>1 DEF StackRight, m
    <3>3. stack[k].start < s
      BY <1>2, <1>6, <3>1 DEF Rising, m, s, top
    <3>4. stack[k].start \in Nat /\ r.ends[stack[k].start] \in Nat
      BY <2>1, <3>2
    <3>5. s < r.ends[stack[k].start]
      BY <1>3, <3>2, <3>4
    <3>6. q < r.ends[stack[k].start]
      BY <1>1, <3>2, <3>3, <3>5, StepFacts
    <3> QED
      BY <1>3, <1>4, <3>2, <3>4, <3>6
  <2>3. ASSUME NEW i \in LoopStarts(p), i < q + 1, q + 1 <= r.ends[i]
        PROVE  \E k \in 1 .. m - 1 : outer[k].start = i
    <3>1. i \in Nat /\ r.ends[i] \in Nat /\ i # q
      BY <2>1
    <3>2. i < q /\ q <= r.ends[i] /\ r.ends[i] # q
      BY <1>3, <2>3, <3>1
    <3>3. PICK k \in 1 .. m : stack[k].start = i
      BY <1>2, <3>2 DEF StackRight, m
    <3>4. k # m
      BY <1>1, <3>2, <3>3 DEF s, top
    <3> QED
      BY <1>4, <1>5, <3>3, <3>4
  <2> QED
    BY <1>4, <2>2, <2>3 DEF StackRight
<1>9. Balance(r, outer, q + 1, sent)
  <2>0. PICK owing : RoundOver(r, stack, sent, owing)
    BY EndBalance
  <2>1. /\ Below(r, stack, owing) /\ owing[m - 1] \in Seq(Emissions)
        /\ sent \o (After(r, top) \o owing[m - 1]) = r.rest[0]
    BY <2>0 DEF RoundOver, m, top
  <2>2. /\ owing \in [0 .. m -> Seq(Emissions)] /\ owing[0] = <<>>
        /\ \A k \in 1 .. m - 1 : owing[k] = After(r, stack[k]) \o owing[k - 1]
    BY <2>1 DEF Below, m
  <2> DEFINE less == [k \in 0 .. m - 1 |-> owing[k]]
  <2>3. /\ less \in [0 .. m - 1 -> Seq(Emissions)]
        /\ \A k \in 0 .. m - 1 : less[k] = owing[k]
    BY <1>1, <2>2
  <2> HIDE DEF less
  <2>4. less[0] = <<>> /\ less[m - 1] = owing[m - 1]
    BY <1>1, <2>2, <2>3
  <2>5. \A k \in 1 .. m - 1 : less[k] = After(r, outer[k]) \o less[k - 1]
    <3> TAKE k \in 1 .. m - 1
    <3>1. k \in 0 .. m - 1 /\ k - 1 \in 0 .. m - 1
      BY <1>1
    <3>2. less[k] = owing[k] /\ less[k - 1] = owing[k - 1] /\ outer[k] = stack[k]
      BY <1>4, <2>3, <3>1
    <3> QED
      BY <2>2, <3>2
  <2>6. Owing(r, outer, less)
    BY <1>4, <2>3, <2>4, <2>5 DEF Owing
  <2>7. After(r, top) = r.rest[q + 1]
    <3>1. r.rounds[s][0] = <<>>
      <4>1. RoundsRight(p, r) /\ s \in LoopStarts(p)
        BY <1>1, ReadingFacts
      <4> QED
        BY <4>1, Zenon DEF RoundsRight
    <3>2. After(r, top) = r.rounds[s][1 - 1] \o r.rest[q + 1]
      BY <1>1 DEF After, s
    <3>5. 1 - 1 = 0
      OBVIOUS
    <3>4. After(r, top) = <<>> \o r.rest[q + 1]
      BY <3>1, <3>2, <3>5, Zenon
    <3>3. r.rest[q + 1] \in Seq(Emissions)
      BY <1>3, ProgramFacts
    <3> QED
      BY <3>3, <3>4, ConcatEmptySeq
  <2> QED
    BY <1>4, <2>1, <2>4, <2>6, <2>7 DEF Balance
<1>10. q + 1 \in 0 .. Len(p)
  BY <1>3
<1> QED
  BY <1>2, <1>7, <1>8, <1>9, <1>10 DEF OnCourse

\* At the end of the program no loop is open and everything has been sent; before
\* it, what has been sent is a beginning of that.
LEMMA EndOfCourse ==
    ASSUME NEW p, NEW r, IsProgram(p, r), NEW stack, NEW sent,
           OnCourse(p, r, stack, Len(p), sent)
    PROVE  sent = r.rest[0]
<1> DEFINE m == Len(stack)
<1>1. /\ m \in Nat /\ Len(p) \in Nat
      /\ sent \in Seq(Emissions)
      /\ StackRight(p, r.ends, stack, Len(p))
      /\ Balance(r, stack, Len(p), sent)
  BY ProgramFacts, LenProperties DEF OnCourse
<1>2. m = 0
  <2>1. ASSUME m # 0 PROVE FALSE
    <3>1. m \in 1 .. m
      BY <1>1, <2>1
    <3>2. stack[m].start \in LoopStarts(p) /\ Len(p) <= r.ends[stack[m].start]
      BY <1>1, <3>1 DEF StackRight
    <3>3. r.ends[stack[m].start] \in LoopEnds(p)
      BY <3>2, StepFacts
    <3>4. r.ends[stack[m].start] \in Nat /\ r.ends[stack[m].start] < Len(p)
      BY <3>3, StepFacts
    <3> QED
      BY <1>1, <3>2, <3>4
  <2> QED
    BY <2>1
<1>3. PICK owing : Owing(r, stack, owing)
                   /\ sent \o (r.rest[Len(p)] \o owing[m]) = r.rest[0]
  BY <1>1 DEF Balance
<1>4. owing[m] = <<>> /\ r.rest[Len(p)] = <<>>
  BY <1>2, <1>3, ReadingFacts DEF Owing, RestRight
<1>5. <<>> \o <<>> = <<>> /\ sent \o <<>> = sent
  BY <1>1, EmptySeq, ConcatEmptySeq
<1> QED
  BY <1>3, <1>4, <1>5

LEMMA ConcatHasPrefix ==
    ASSUME NEW S, NEW s \in Seq(S), NEW t \in Seq(S)
    PROVE  IsPrefix(s, s \o t)
<1> DEFINE u == s \o t
           n == Len(s)
<1>1. /\ u \in Seq(S) /\ n \in Nat /\ Len(t) \in Nat /\ Len(u) = n + Len(t)
      /\ \A i \in 1 .. n + Len(t) : u[i] = IF i <= n THEN s[i] ELSE t[i - n]
  BY ConcatProperties, LenProperties
<1> HIDE DEF u, n
<1>2. \A i \in 1 .. n : u[i] = s[i]
  BY <1>1
<1>3. \A v \in Seq(S) : n <= Len(v) =>
         /\ SubSeq(v, 1, n) \in Seq(S)
         /\ Len(SubSeq(v, 1, n)) = n
         /\ \A i \in 1 .. n : SubSeq(v, 1, n)[i] = v[i]
  <2> TAKE v \in Seq(S)
  <2> HAVE n <= Len(v)
  <2>1. \A i \in 1 .. n : v[i] \in S
    BY <1>1, LenProperties, ElementOfSeq
  <2>2. /\ SubSeq(v, 1, n) \in Seq(S)
        /\ Len(SubSeq(v, 1, n)) = IF 1 <= n THEN n - 1 + 1 ELSE 0
        /\ \A i \in 1 .. n - 1 + 1 : SubSeq(v, 1, n)[i] = v[1 + i - 1]
    BY <1>1, <2>1, SubSeqProperties
  <2> QED
    BY <1>1, <2>2
<1>4. n <= Len(u) /\ n <= Len(s)
  BY <1>1 DEF n
<1>5. /\ SubSeq(u, 1, n) \in Seq(S) /\ SubSeq(s, 1, n) \in Seq(S)
      /\ Len(SubSeq(u, 1, n)) = n /\ Len(SubSeq(s, 1, n)) = n
      /\ \A i \in 1 .. n : SubSeq(u, 1, n)[i] = u[i] /\ SubSeq(s, 1, n)[i] = s[i]
  BY <1>1, <1>3, <1>4
<1>6. SubSeq(s, 1, n) = SubSeq(u, 1, n)
  BY <1>2, <1>5, SeqEqual
<1> QED
  BY <1>4, <1>6 DEF IsPrefix, u, n

LEMMA CourseIsPrefix ==
    ASSUME NEW p, NEW r, IsProgram(p, r), NEW stack, NEW q, NEW sent,
           OnCourse(p, r, stack, q, sent)
    PROVE  IsPrefix(sent, r.rest[0])
<1>1. /\ Len(stack) \in Nat /\ q \in 0 .. Len(p)
      /\ sent \in Seq(Emissions) /\ Balance(r, stack, q, sent)
  BY LenProperties DEF OnCourse
<1>2. PICK owing : Owing(r, stack, owing)
                   /\ sent \o (r.rest[q] \o owing[Len(stack)]) = r.rest[0]
  BY <1>1 DEF Balance
<1>3. owing[Len(stack)] \in Seq(Emissions) /\ r.rest[q] \in Seq(Emissions)
  BY <1>1, <1>2, ProgramFacts DEF Owing
<1>4. r.rest[q] \o owing[Len(stack)] \in Seq(Emissions)
  BY <1>3, ConcatProperties
<1> QED
  BY <1>1, <1>2, <1>4, ConcatHasPrefix

-------------------------------------------------------------------------------
(***************************************************************************)
(* A macro that is left alone stays on course, and is idle at its end.     *)
(***************************************************************************)
Told == intact /\ Program \in DOMAIN Readings

AsWritten ==
    Told => /\ OnCourse(Program, Readings[Program], loops, At, emitted)
            /\ state = "idle" => At = Len(Program)

LEMMA ToldFacts ==
    ASSUME Told
    PROVE  IsProgram(Program, Readings[Program])
  BY ReadingAssumption DEF Told, IsProgram

\* A step that changes neither what is told nor where the interpreter is.
LEMMA StaysOnCourse ==
    ASSUME AsWritten, Told' => Told, Told' => UNCHANGED <<Program, loops, At, emitted>>,
           Told' => (state' = "idle" => (state = "idle" \/ At = Len(Program)))
    PROVE  AsWritten'
  BY DEF AsWritten

\* The end of a tick is idle only behind the last step.
LEMMA GoesOn ==
    ASSUME NEW n, NEW ops, Control, Data, Fetched(ops), GoOnAt(n), n \in 0 .. Len(Program),
           Len(Program) \in Nat
    PROVE  At' = n /\ (state' = "idle" => n = Len(Program))
<1>1. Mode \in {"running", "error"}
  BY FetchedFacts
<1>2. pc' = n /\ state' # "waiting"
  BY <1>1, GoOnFacts
<1>3. state' = "idle" => n >= Len(Program)
  BY <1>1 DEF GoOnAt
<1> QED
  BY <1>2, <1>3 DEF At

LEMMA StepAsWritten == Control /\ Data /\ AsWritten /\ [Next]_vars => AsWritten'
<1> SUFFICES ASSUME Control, Data, AsWritten, [Next]_vars, Told'
             PROVE  /\ OnCourse(Program, Readings[Program], loops, At, emitted)'
                    /\ (state = "idle" => At = Len(Program))'
  BY DEF AsWritten
<1> DEFINE Goal == /\ OnCourse(Program, Readings[Program], loops, At, emitted)'
                   /\ (state = "idle" => At = Len(Program))'
           p == Program
           r == Readings[Program]
<1>1. ASSUME Told, UNCHANGED <<Program, loops, At, emitted>>,
             state' = "idle" => (state = "idle" \/ At = Len(Program))
      PROVE  Goal
  BY <1>1 DEF AsWritten
<1>2. ASSUME NEW s \in Slots, NEW x \in Programs, Define(s, x) PROVE Goal
  <2>1. intact /\ s # active
    BY <1>2 DEF Define, Told
  <2>2. UNCHANGED <<Program, loops, At, emitted, state>>
    BY <1>2, <2>1 DEF Define, Program, At, Data
  <2>3. Told
    BY <2>1, <2>2 DEF Told
  <2> QED
    BY <1>1, <2>2, <2>3
<1>3. ASSUME NEW s \in Slots, Run(s) PROVE Goal
  <2>1. loops' = <<>> /\ emitted' = <<>> /\ At' = 0 /\ state' = "running"
    BY <1>3 DEF Run, At
  <2>2. IsProgram(Program, Readings[Program])'
    BY ReadingAssumption DEF Told, IsProgram
  <2> QED
    BY <2>1, <2>2, StartsOnCourse
<1>4. CASE Stop
  BY <1>4 DEF Stop, Told
<1>5. CASE Clock
  <2>1. UNCHANGED <<Program, loops, At, emitted, state, intact>>
    BY <1>5 DEF Clock, Program, At
  <2> QED
    BY <1>1, <2>1 DEF Told
<1>6. CASE Tick
  <2>1. UNCHANGED runVars
    BY <1>6 DEF Tick, TickWaits, vars, TickPastEnd, TickSimple, TickDelay, TickLoopStart,
                TickLoopTooDeep, TickLoopAgain, TickLoopDone, TickHalt, runVars
  <2>2. Told /\ p' = p /\ r' = r
    BY <2>1 DEF runVars, Told, Program
  <2>3. IsProgram(p, r) /\ OnCourse(p, r, loops, At, emitted)
    BY <2>2, ToldFacts DEF AsWritten
  <2>4. Len(p) \in Nat /\ At \in 0 .. Len(p)
    BY <2>3, ProgramFacts DEF OnCourse
  <2>5. \A ops : Fetched(ops) => At \in StepsOf(p, ops)
    BY <2>4 DEF Fetched, StepsOf
  <2> HIDE DEF p, r
  <2>6. CASE TickWaits
    <3>1. UNCHANGED <<Program, loops, At, emitted, state>>
      BY <2>6 DEF TickWaits, vars, At, Program
    <3> QED
      BY <1>1, <2>2, <3>1
  <2>7. CASE TickPastEnd
    <3>1. At = Len(Program)
      BY <2>4, <2>7 DEF TickPastEnd, p
    <3>2. UNCHANGED <<Program, loops, At, emitted>>
      BY <2>2, <2>7 DEF TickPastEnd, At, p
    <3> QED
      BY <1>1, <2>2, <3>1, <3>2
  <2>8. CASE TickSimple
    <3>1. At \in StepsOf(p, Plain) /\ At + 1 \in 0 .. Len(p)
      BY <2>4, <2>8 DEF TickSimple, Fetched, StepsOf, Plain, p
    <3>2. At' = At + 1 /\ (state' = "idle" => At + 1 = Len(p))
      BY <2>4, <2>8, <3>1, GoesOn DEF TickSimple, p
    <3>3. loops' = loops /\ emitted' = emitted \o Sends(p[At + 1])
      BY <2>2, <2>8 DEF TickSimple, Told, p
    <3>4. OnCourse(p, r, loops, At + 1, emitted \o Sends(p[At + 1]))
      BY <2>3, <3>1, PlainOnCourse
    <3> QED
      BY <2>2, <3>2, <3>3, <3>4 DEF p, r
  <2>9. CASE TickDelay
    <3>1. At \in StepsOf(p, Plain) /\ p[At + 1].op = "delay"
      BY <2>4, <2>9 DEF TickDelay, Fetched, StepsOf, Plain, p
    <3>2. At' = At + 1 /\ state' = "waiting" /\ loops' = loops /\ emitted' = emitted
      BY <2>9 DEF TickDelay, At
    <3>3. emitted \o Sends(p[At + 1]) = emitted
      <4>1. Sends(p[At + 1]) = <<>>
        BY <3>1 DEF Sends
      <4>2. emitted \in Seq(Emissions)
        BY <2>3 DEF OnCourse
      <4> QED
        BY <4>1, <4>2, ConcatEmptySeq
    <3>4. OnCourse(p, r, loops, At + 1, emitted)
      BY <2>3, <3>1, <3>3, PlainOnCourse
    <3> QED
      BY <2>2, <3>2, <3>4 DEF p, r
  <2>10. CASE TickLoopStart
    <3>1. At \in LoopStarts(p) /\ At + 1 \in 0 .. Len(p) /\ Operand = Rounds(p, At)
      BY <2>4, <2>5, <2>10 DEF TickLoopStart, Fetched, LoopStarts, Operand, Rounds, p
    <3>2. At' = At + 1 /\ (state' = "idle" => At + 1 = Len(p))
      BY <2>4, <2>10, <3>1, GoesOn DEF TickLoopStart, p
    <3>3. /\ loops' = Append(loops, [start |-> At, remaining |-> Rounds(p, At)])
          /\ emitted' = emitted
      BY <2>10, <3>1 DEF TickLoopStart
    <3>4. OnCourse(p, r, Append(loops, [start |-> At, remaining |-> Rounds(p, At)]),
                   At + 1, emitted)
      BY <2>3, <3>1, EnterOnCourse
    <3> QED
      BY <2>2, <3>2, <3>3, <3>4 DEF p, r
  <2>11. CASE TickLoopTooDeep
    <3>1. UNCHANGED <<Program, loops, At, emitted>> /\ state' = "error"
      BY <2>2, <2>11 DEF TickLoopTooDeep, At, p
    <3> QED
      BY <1>1, <2>2, <3>1
  <2>12. CASE TickLoopAgain
    <3> DEFINE f == [start |-> Top.start, remaining |-> Top.remaining - 1]
    <3>1. At \in LoopEnds(p) /\ loops # <<>> /\ Top.remaining # 1
      BY <2>5, <2>12 DEF TickLoopAgain, LoopEnds
    <3>2. /\ Top = loops[Len(loops)] /\ Top \in Frames /\ Outer \in Seq(Frames)
          /\ Len(loops) \in Nat \ {0}
          /\ Len(Outer) = Len(loops) - 1 /\ \A k \in 1 .. Len(Outer) : Outer[k] = loops[k]
      BY <3>1, OuterFacts
    <3>3. Top.start \in LoopStarts(p) /\ Top.remaining \in 1 .. Rounds(p, Top.start)
      BY <2>3, <3>1, <3>2, EndIsTops
    <3>4. Top.remaining \in Operands /\ Top.remaining # 0 /\ Top.start \in 0 .. MaxSteps - 1
      BY <3>2, <3>3, SizeAssumption DEF Frames, Operands
    <3>5. f \in Frames /\ f.start = Top.start /\ f.remaining = Top.remaining - 1
      BY <3>4, SizeAssumption DEF Frames, Operands
    <3>6. [Top EXCEPT !.remaining = @ - 1] = f
      BY <3>2 DEF Frames
    <3> HIDE DEF f
    <3>7. loops' = Append(Outer, f) /\ emitted' = emitted
      BY <2>12, <3>4, <3>6 DEF TickLoopAgain
    <3>8. /\ Append(Outer, f) \in Seq(Frames)
          /\ Len(Append(Outer, f)) = Len(loops)
          /\ \A k \in 1 .. Len(loops) - 1 : Append(Outer, f)[k] = loops[k]
          /\ Append(Outer, f)[Len(loops)] = f
      <4>1. /\ Append(Outer, f) \in Seq(Frames)
            /\ Len(Append(Outer, f)) = Len(Outer) + 1
            /\ \A k \in 1 .. Len(Outer) : Append(Outer, f)[k] = Outer[k]
            /\ Append(Outer, f)[Len(Outer) + 1] = f
        BY <3>2, <3>5, PushFacts
      <4>2. Len(Outer) + 1 = Len(loops)
        BY <3>2
      <4> QED
        BY <3>2, <4>1, <4>2
    <3>9. OnCourse(p, r, Append(Outer, f), f.start + 1, emitted)
      BY <2>3, <3>1, <3>2, <3>5, <3>8, AgainOnCourse
    <3>10. f.start + 1 \in 0 .. Len(p)
      BY <3>9 DEF OnCourse
    <3>11. At' = f.start + 1 /\ (state' = "idle" => f.start + 1 = Len(p))
      BY <2>4, <2>12, <3>5, <3>10, GoesOn DEF TickLoopAgain, p
    <3> QED
      BY <2>2, <3>7, <3>9, <3>11 DEF p, r
  <2>13. CASE TickLoopDone
    <3>1. At \in LoopEnds(p) /\ At + 1 \in 0 .. Len(p)
      BY <2>4, <2>5, <2>13 DEF TickLoopDone, Fetched, LoopEnds, p
    <3>2. loops # <<>>
      BY <2>3, <3>1, EndIsTops
    <3>3. /\ Top = loops[Len(loops)] /\ Outer \in Seq(Frames)
          /\ Len(Outer) = Len(loops) - 1 /\ \A k \in 1 .. Len(Outer) : Outer[k] = loops[k]
      BY <3>2, OuterFacts
    <3>4. loops' = Outer /\ Top.remaining = 1 /\ emitted' = emitted
      BY <2>13, <3>2 DEF TickLoopDone
    <3>5. At' = At + 1 /\ (state' = "idle" => At + 1 = Len(p))
      BY <2>4, <2>13, <3>1, GoesOn DEF TickLoopDone, p
    <3>6. \A k \in 1 .. Len(loops) - 1 : Outer[k] = loops[k]
      BY <3>3
    <3>7. OnCourse(p, r, Outer, At + 1, emitted)
      BY <2>3, <3>1, <3>3, <3>4, <3>6, DoneOnCourse
    <3> QED
      BY <2>2, <3>4, <3>5, <3>7 DEF p, r
  <2>14. CASE TickHalt
    <3>1. At \in StepsOf(p, {"halt"})
      BY <2>5, <2>14 DEF TickHalt
    <3> QED
      BY <2>3, <3>1 DEF IsProgram, IsReading
  <2> QED
    BY <1>6, <2>6, <2>7, <2>8, <2>9, <2>10, <2>11, <2>12, <2>13, <2>14 DEF Tick
<1>7. CASE UNCHANGED vars
  <2>1. UNCHANGED <<Program, loops, At, emitted, state, intact>>
    BY <1>7 DEF vars, Program, At
  <2> QED
    BY <1>1, <2>1 DEF Told
<1> QED
  BY <1>2, <1>3, <1>4, <1>5, <1>6, <1>7 DEF Next

\* Whatever the programs, a macro that is left alone sends what its program is
\* written to send, in that order and no more, through any nesting of loops and
\* any delays, and has sent all of it when it is idle (vm.c:60-158).
THEOREM MacrosRunAsWritten == Spec => []RunsAsWritten
<1>1. Control /\ Data /\ AsWritten => RunsAsWritten
  <2> SUFFICES ASSUME AsWritten, Told
               PROVE  /\ IsPrefix(emitted, Readings[Program].rest[0])
                      /\ state = "idle" => emitted = Readings[Program].rest[0]
    BY DEF RunsAsWritten, Told, Written
  <2>1. /\ IsProgram(Program, Readings[Program])
        /\ OnCourse(Program, Readings[Program], loops, At, emitted)
        /\ state = "idle" => At = Len(Program)
    BY ToldFacts DEF AsWritten
  <2>2. IsPrefix(emitted, Readings[Program].rest[0])
    BY <2>1, CourseIsPrefix
  <2>3. state = "idle" => emitted = Readings[Program].rest[0]
    BY <2>1, EndOfCourse
  <2> QED
    BY <2>2, <2>3
<1>2. Init => AsWritten
  BY DEF Init, AsWritten, Told
<1> QED
  BY <1>1, <1>2, InitInv, StepControl, StepData, StepAsWritten, PTL DEF Spec
==============================================================================
