---------------------------- MODULE RegexMachine ----------------------------
(***************************************************************************)
(* The regular-expression machine (vm, hre_match) and the loop of          *)
(* regexall() and replace() around it: from every offset of the subject the*)
(* program is run by backtracking, within a budget of steps, and the search*)
(* goes on behind each match.                                              *)
(*                                                                         *)
(* vm calls itself where a failing branch must come back: at a SPLIT for   *)
(* the first branch, at a SAVE for the rest of the program.  stack holds   *)
(* what these activations keep.  Once one returns true, all do.            *)
(*                                                                         *)
(* Offsets into the text count from 0, as in the code.                     *)
(***************************************************************************)
EXTENDS Integers, Sequences, RegexProgram

CONSTANTS
    Jobs,          \* compiled patterns, each with a text it is applied to
    StepBudget,    \* steps a start offset may take: 20000000 in hre_match
    WordChars      \* the characters of a word: isalnum or '_'

\* ok: hre_compile accepted the pattern; mixed: some of its groups are named
\* and some are not.
JobOK(j) ==
    /\ j.prog \in Seq(Instructions) /\ j.text \in Seq(STRING) /\ j.ngroup \in Nat
    /\ j.ok \in BOOLEAN /\ j.mixed \in BOOLEAN
    /\ j.ok => WellFormed(j.prog, j.ngroup) /\ Bracketed(j.prog, j.ngroup)

ASSUME JobsAssumption == \A j \in Jobs : JobOK(j)

ASSUME StepBudgetAssumption == StepBudget \in Nat

VARIABLES
    job,       \* the pattern's program and the text
    run,       \* "rejected", "seek", "vm", "back", "matched", "over" or "mixed"
    from,      \* where the current hre_match was told to begin
    start,     \* the offset it has got to
    pc, sp,    \* vm's program counter and offset
    cap,       \* the offset in each save slot, -1 for none
    stack,     \* what vm's activations wait for, the innermost last
    steps,     \* what is left of the budget
    found,     \* the captures of each match so far
    last,      \* bi_replace: the end of the last match
    kept       \* bi_replace: the stretches copied from the text

vars == <<job, run, from, start, pc, sp, cap, stack, steps, found, last, kept>>
search == <<job, from, start, found, last, kept>>

Prog == job.prog
Text == job.text
NGroup == job.ngroup

End == Len(Text)
Slots == 0 .. 2 * NGroup + 1
Char(offset) == Text[offset + 1]
Here == Prog[pc]

Alternative(target, offset) ==
    [fn |-> "split", pc |-> target, sp |-> offset, slot |-> 0, old |-> 0]
Undo(slot, old) == [fn |-> "save", pc |-> 0, sp |-> 0, slot |-> slot, old |-> old]

Init ==
    /\ job \in Jobs
    /\ run = IF job.ok THEN "seek" ELSE "rejected"
    /\ from = 0 /\ start = 0 /\ pc = 1 /\ sp = 0
    /\ cap = [slot \in Slots |-> -1]
    /\ stack = <<>> /\ steps = 0
    /\ found = <<>> /\ last = 0 /\ kept = <<>>

\* hre_match: the next start offset, with nothing captured and a new budget.
Attempt ==
    /\ run = "seek" /\ start <= End
    /\ run' = "vm" /\ pc' = 1 /\ sp' = start
    /\ cap' = [slot \in Slots |-> -1]
    /\ stack' = <<>> /\ steps' = StepBudget
    /\ UNCHANGED search

\* hre_match has no offset left: replace() copies the rest of the text.
NoMatch ==
    /\ run = "seek" /\ start > End
    /\ run' = "over"
    /\ kept' = Append(kept, <<last, End>>)
    /\ UNCHANGED <<job, from, start, pc, sp, cap, stack, steps, found, last>>

-----------------------------------------------------------------------------
(* One round of vm's loop. *)

InBudget == run = "vm" /\ steps > 0 /\ steps' = steps - 1

Return(result) ==
    /\ run' = IF result THEN "matched" ELSE "back"
    /\ UNCHANGED <<pc, sp, cap, stack>>

OutOfSteps ==
    /\ run = "vm" /\ steps = 0
    /\ Return(FALSE)
    /\ UNCHANGED <<search, steps>>

Consume ==
    /\ InBudget /\ Here.op = "set"
    /\ IF sp < End /\ Char(sp) \in Here.accepts
       THEN pc' = pc + 1 /\ sp' = sp + 1 /\ UNCHANGED <<run, cap, stack>>
       ELSE Return(FALSE)
    /\ UNCHANGED search

WordAt(offset) == offset \in 0 .. End - 1 /\ Char(offset) \in WordChars
AtBoundary == WordAt(sp - 1) # WordAt(sp)

\* What the assertions test; none consumes a character.
Holds ==
    \/ Here.op = "bol" /\ (sp = 0 \/ (sp > 0 /\ Char(sp - 1) = "nl"))
    \/ Here.op = "eol" /\ (sp = End \/ (sp < End /\ Char(sp) = "nl"))
    \/ Here.op = "wb" /\ AtBoundary
    \/ Here.op = "nwb" /\ ~AtBoundary

Test ==
    /\ InBudget /\ Here.op \in {"bol", "eol", "wb", "nwb"}
    /\ IF Holds THEN pc' = pc + 1 /\ UNCHANGED <<run, sp, cap, stack>> ELSE Return(FALSE)
    /\ UNCHANGED search

Goto ==
    /\ InBudget /\ Here.op = "jmp"
    /\ pc' = Here.x
    /\ UNCHANGED <<search, run, sp, cap, stack>>

Fork ==
    /\ InBudget /\ Here.op = "split"
    /\ stack' = Append(stack, Alternative(Here.y, sp))
    /\ pc' = Here.x
    /\ UNCHANGED <<search, run, sp, cap>>

Record ==
    /\ InBudget /\ Here.op = "save"
    /\ stack' = Append(stack, Undo(Here.x, cap[Here.x]))
    /\ cap' = [cap EXCEPT ![Here.x] = sp]
    /\ pc' = pc + 1
    /\ UNCHANGED <<search, run, sp>>

Accepted ==
    /\ InBudget /\ Here.op = "match"
    /\ Return(TRUE)
    /\ UNCHANGED search

\* Mutant: a failing branch leaves its captures behind.
BacktrackKeepsCaptures ==
    /\ run = "back" /\ stack # <<>>
    /\ LET top == stack[Len(stack)] IN
       IF top.fn = "split"
       THEN run' = "vm" /\ pc' = top.pc /\ sp' = top.sp /\ cap' = cap
       ELSE UNCHANGED <<run, pc, sp, cap>>
    /\ stack' = SubSeq(stack, 1, Len(stack) - 1)
    /\ UNCHANGED <<search, steps>>

\* An activation returned false to the one that waits for it.
Backtrack ==
    /\ run = "back" /\ stack # <<>>
    /\ LET top == stack[Len(stack)] IN
       IF top.fn = "split"
       THEN run' = "vm" /\ pc' = top.pc /\ sp' = top.sp /\ cap' = cap
       ELSE cap' = [cap EXCEPT ![top.slot] = top.old] /\ UNCHANGED <<run, pc, sp>>
    /\ stack' = SubSeq(stack, 1, Len(stack) - 1)
    /\ UNCHANGED <<search, steps>>

NextStart ==
    /\ run = "back" /\ stack = <<>>
    /\ run' = "seek" /\ start' = start + 1
    /\ UNCHANGED <<job, from, pc, sp, cap, stack, steps, found, last, kept>>

-----------------------------------------------------------------------------
(* The loop of bi_regexall and bi_replace. *)

\* Mutants: the search goes on inside the match, or where an empty match ended.
ResumeInside == cap[0] + 1
ResumeOnSpot == cap[1]

\* An empty match moves the search on by one character.
Resume == IF cap[1] > cap[0] THEN cap[1] ELSE cap[1] + 1

\* Mutant: replace() copies from where the search began, not from where the
\* last match ended.
FoundKeepsFrom ==
    /\ run = "matched"
    /\ found' = Append(found, cap)
    /\ kept' = Append(kept, <<from, cap[0]>>)
    /\ last' = cap[1]
    /\ from' = Resume /\ start' = Resume
    /\ run' = "seek"
    /\ UNCHANGED <<job, pc, sp, cap, stack, steps>>


Found ==
    /\ run = "matched"
    /\ found' = Append(found, cap)
    /\ kept' = Append(kept, <<last, cap[0]>>)
    /\ last' = cap[1]
    /\ from' = Resume /\ start' = Resume
    /\ run' = "seek"
    /\ UNCHANGED <<job, pc, sp, cap, stack, steps>>

\* hre_submatch_value: regexall() cannot return groups with and without a name
\* together; replace() does not ask for its value.
CannotMix ==
    /\ run = "matched" /\ job.mixed
    /\ run' = "mixed"
    /\ UNCHANGED <<search, pc, sp, cap, stack, steps>>

Done == run \in {"over", "rejected", "mixed"} /\ UNCHANGED vars

Step == Consume \/ Test \/ Goto \/ Fork \/ Record \/ Accepted \/ OutOfSteps
Next ==
    \/ Attempt \/ NoMatch \/ Step \/ Backtrack \/ NextStart \/ Found \/ CannotMix
    \/ Done

Spec == Init /\ [][Next]_vars

-----------------------------------------------------------------------------
TypeOK ==
    /\ JobOK(job)
    /\ run \in {"rejected", "seek", "vm", "back", "matched", "over", "mixed"}
    /\ run # "rejected" => job.ok
    /\ from \in Nat /\ start \in Nat /\ last \in Nat /\ steps \in Nat
    /\ pc \in Nat /\ (run = "vm" => pc \in DOMAIN Prog)
    /\ sp \in 0 .. End
    /\ cap \in [Slots -> -1 .. End]
    /\ stack \in Seq([fn : {"split", "save"}, pc : Nat, sp : 0 .. End, slot : Slots,
                      old : -1 .. End])
    /\ found \in Seq([Slots -> -1 .. End])
    /\ kept \in Seq(Nat \X Nat)

\* The matches of regexall() and replace() follow one another: each lies in
\* the text, ends where it begins or later, and begins where the one before
\* ended or later.  The lengths handed to mkstr_n and sb_put are differences
\* of these offsets, in unsigned arithmetic.
MatchesInOrder ==
    \A i \in DOMAIN found :
        /\ 0 <= found[i][0] /\ found[i][0] <= found[i][1] /\ found[i][1] <= End
        /\ i > 1 => found[i - 1][1] <= found[i][0]

\* What replace() copies and what it replaces, taken in turn, is the text:
\* every stretch begins where the match before it ended and ends where the
\* next match begins, the last one at the end of the text.
NothingLost ==
    /\ \A i \in DOMAIN found :
           /\ kept[i][1] = IF i = 1 THEN 0 ELSE found[i - 1][1]
           /\ kept[i][2] = found[i][0]
           /\ kept[i][1] <= kept[i][2]
    /\ run = "over" =>
           kept[Len(kept)] = <<IF found = <<>> THEN 0 ELSE found[Len(found)][1], End>>
           /\ last <= End

\* A group that took part in a match has an end no earlier than its beginning,
\* both within the match: a group that is repeated, or given up in
\* backtracking, leaves no mixture of two attempts behind.
GroupsInMatch ==
    \A i \in DOMAIN found : \A g \in 1 .. NGroup :
        found[i][2 * g] >= 0 /\ found[i][2 * g + 1] >= 0 =>
            /\ found[i][0] <= found[i][2 * g]
            /\ found[i][2 * g] <= found[i][2 * g + 1]
            /\ found[i][2 * g + 1] <= found[i][1]

\* The search gets on: a new search begins behind the one before, a new
\* attempt at the next offset, and a round of the machine costs a step.  With
\* an end of the text and a budget, this is why regexall() returns.
GetsOn ==
    [][/\ from' # from \/ found' # found => from' > from
       /\ start' # start => start' > start
       /\ run = "vm" /\ run' = "vm" => steps' < steps]_vars
=============================================================================
