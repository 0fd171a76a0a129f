------------------------------ MODULE MCMacroVM ------------------------------
(***************************************************************************)
(* Constants for model-checking MacroVM.  A macro is written as a tree: a  *)
(* sequence of instructions and of loops, a loop being a count and a tree. *)
(* Flat gives the program the host uploads for a tree and Sent what the    *)
(* tree is written to emit.                                                *)
(***************************************************************************)
EXTENDS MacroVM

I(op, arg) == [op |-> op, arg |-> arg]
Leaf(op, arg) == [count |-> 0, body |-> <<>>, insn |-> I(op, arg)]
Loop(count, body) == [count |-> count, body |-> body, insn |-> I("nop", 0)]

RECURSIVE Flat(_)
Flat(tree) ==
    IF tree = <<>> THEN <<>>
    ELSE (IF Head(tree).count = 0 THEN <<Head(tree).insn>>
          ELSE <<I("loop", Head(tree).count)>> \o Flat(Head(tree).body) \o <<I("end", 0)>>)
         \o Flat(Tail(tree))

RECURSIVE Sent(_)
Sent(tree) ==
    IF tree = <<>> THEN <<>>
    ELSE (IF Head(tree).count = 0 THEN Sends(Head(tree).insn)
          ELSE FlattenSeq([k \in 1 .. Head(tree).count |-> Sent(Head(tree).body)]))
         \o Sent(Tail(tree))

Trees ==
    { << Loop(2, << Leaf("down", 1), Loop(3, << Leaf("send", 2) >>), Leaf("up", 1) >>) >>,
      << Loop(2, << Leaf("delay", 1) >>), Loop(2, << Loop(1, <<>>), Leaf("nop", 0) >>),
         Leaf("tap", 2), Leaf("delay", 3) >> }

\* Programs that never end, nest too deep, or end a loop they did not begin.
Others ==
    { <<>>,
      << I("loop", 0), I("tap", 1), I("end", 0) >>,
      << I("loop", 1), I("loop", 1), I("loop", 1), I("halt", 0) >>,
      << I("end", 0), I("delay", 2), I("halt", 0) >> }

MCTerminating == {Flat(t) : t \in Trees}
MCPrograms == Others \cup MCTerminating

\* The reading of a program: the LOOP_END of the loop at step i is the first
\* behind it with as many loops begun as ended between the two.
Count(p, op, i, j) == Cardinality({k \in i .. j : p[k + 1].op = op})
EndOf(p, i) ==
    Min({j \in i .. Len(p) - 1 : Count(p, "loop", i, j) = Count(p, "end", i, j)})

Times(s, n) == FlattenSeq([k \in 1 .. n |-> s])

RECURSIVE RestFrom(_, _)
RestFrom(p, i) ==
    IF i = Len(p) \/ i \in LoopEnds(p) THEN <<>>
    ELSE IF i \in LoopStarts(p)
         THEN Times(RestFrom(p, i + 1), Rounds(p, i)) \o RestFrom(p, EndOf(p, i) + 1)
         ELSE Sends(p[i + 1]) \o RestFrom(p, i + 1)

MCReadings ==
    [p \in MCTerminating |->
       [ends |-> [i \in LoopStarts(p) |-> EndOf(p, i)],
        rest |-> [i \in 0 .. Len(p) |-> RestFrom(p, i)],
        rounds |-> [i \in LoopStarts(p) |->
                      [k \in 0 .. Rounds(p, i) |-> Times(RestFrom(p, i + 1), k)]]]]

\* A reading says what the tree was written to emit.
ASSUME \A t \in Trees : Written(Flat(t)) = Sent(t)
==============================================================================
