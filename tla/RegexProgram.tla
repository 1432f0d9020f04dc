---------------------------- MODULE RegexProgram ----------------------------
(***************************************************************************)
(* The instructions of the regular-expression machine (inst) and what the  *)
(* compiler promises of a program.  Instructions count from 1.  CHAR, ANY  *)
(* and CLASS are one instruction: the set of characters it accepts.        *)
(***************************************************************************)
EXTENDS Naturals, Sequences, FiniteSets

Ops == {"set", "match", "jmp", "split", "save", "bol", "eol", "wb", "nwb"}

\* One inst: x and y are targets, x the slot of a save, accepts the class.
Inst(op) == [op |-> op, accepts |-> {}, x |-> 0, y |-> 0]
Accept(chars) == [Inst("set") EXCEPT !.accepts = chars]
Jump(x) == [Inst("jmp") EXCEPT !.x = x]
Split(x, y) == [Inst("split") EXCEPT !.x = x, !.y = y]
Save(slot) == [Inst("save") EXCEPT !.x = slot]

Instructions == [op : Ops, accepts : SUBSET STRING, x : Nat, y : Nat]

\* What hre_compile makes, whatever the pattern: the whole match is saved
\* around it, and every target lies in between or on the final save.
WellFormed(prog, ngroup) ==
    LET n == Len(prog) IN
    /\ n >= 3
    /\ prog[1] = Save(0) /\ prog[n - 1] = Save(1) /\ prog[n] = Inst("match")
    /\ \A pc \in 2 .. n - 2 :
           LET in == prog[pc] IN
           /\ in.op \in Ops \ {"match"}
           /\ in.op = "save" => in.x \in 2 .. 2 * ngroup + 1
           /\ in.op \in {"jmp", "split"} => in.x \in 2 .. n - 1
           /\ in.op = "split" => in.y \in 2 .. n - 1

\* Where an instruction lets the machine go on.
Nexts(prog, pc) ==
    LET in == prog[pc] IN
    CASE in.op = "match" -> {}
      [] in.op = "jmp" -> {in.x}
      [] in.op = "split" -> {in.x, in.y}
      [] OTHER -> {pc + 1}

Saves(in, slot) == in.op = "save" /\ in.x = slot

\* An instruction lies in group g if more of its beginnings than of its ends
\* come before it: every copy of a group is laid out between its two saves.
Inside(prog, pc, g) ==
    LET Before(slot) == Cardinality({i \in 1 .. pc - 1 : Saves(prog[i], slot)})
    IN  Before(2 * g) > Before(2 * g + 1)

\* Groups are entered and left through their saves only, and what is entered
\* is left before the pattern has matched.
Bracketed(prog, ngroup) ==
    \A g \in 1 .. ngroup :
        /\ ~Inside(prog, 1, g) /\ ~Inside(prog, Len(prog), g)
        /\ \A pc \in DOMAIN prog :
               /\ Saves(prog[pc], 2 * g + 1) => Inside(prog, pc, g)
               /\ \A next \in Nexts(prog, pc) :
                      Inside(prog, next, g) <=>
                          \/ Saves(prog[pc], 2 * g)
                          \/ Inside(prog, pc, g) /\ ~Saves(prog[pc], 2 * g + 1)
=============================================================================
