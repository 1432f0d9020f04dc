------------------------ MODULE RegexMachine_proofs ------------------------
(* Proofs about RegexMachine, for every well-formed program, text and       *)
(* budget: the machine keeps to its program and its text, the searches of   *)
(* regexall() and replace() report matches in order and lose nothing, and   *)
(* the groups of a match lie in it.                                         *)
EXTENDS RegexMachine, BasicLemmas

\* What vm's activations wait for: a branch of the program at an offset the
\* attempt has reached, or a slot; the outermost is that of slot 0.
StackOK ==
    run \in {"vm", "back"} =>
        \A i \in DOMAIN stack :
            /\ stack[i].fn = "split" =>
                   i > 1 /\ stack[i].pc \in 2 .. Len(Prog) - 1 /\ start <= stack[i].sp
            /\ stack[i].fn = "save" => (stack[i].slot = 0 <=> i = 1)

\* Within an attempt, slot 0 is where the attempt began once it is set, and
\* slot 1 is where it is when it has come to the end of the program.
AttemptOK ==
    /\ run \in {"vm", "back", "matched"} => start <= sp /\ start <= End
    /\ run = "vm" =>
           /\ pc = 1 <=> stack = <<>>
           /\ pc = 1 => sp = start
           /\ pc > 1 => cap[0] = start
           /\ pc = Len(Prog) => cap[1] = sp
    /\ run = "back" /\ stack # <<>> => cap[0] = start
    /\ run = "matched" => cap[0] = start /\ cap[1] = sp

LastEnd == IF found = <<>> THEN 0 ELSE found[Len(found)][1]

\* The search stands behind the last match, and what has been copied belongs
\* to the matches so far.
SearchOK ==
    /\ last = LastEnd /\ last <= from /\ from <= start /\ start <= End + 1
    /\ last <= End
    /\ Len(kept) = Len(found) + (IF run = "over" THEN 1 ELSE 0)
    /\ MatchesInOrder
    /\ NothingLost

IInv == TypeOK /\ StackOK /\ AttemptOK /\ SearchOK

Frames == [fn : {"split", "save"}, pc : Nat, sp : 0 .. End, slot : Slots, old : -1 .. End]

-----------------------------------------------------------------------------
(* What a program counter points at. *)

LEMMA JobTypes ==
    ASSUME TypeOK
    PROVE  /\ Prog \in Seq(Instructions) /\ Len(Prog) \in Nat
           /\ Text \in Seq(STRING) /\ End \in Nat
           /\ NGroup \in Nat
           /\ 0 \in Slots /\ 1 \in Slots /\ Slots \subseteq Nat
BY ElementType DEF TypeOK, JobOK, Prog, Text, NGroup, End, Slots

\* At the first instruction, the last two, and in between.
LEMMA AtHere ==
    ASSUME TypeOK, run = "vm"
    PROVE  /\ Len(Prog) \in Nat /\ Len(Prog) >= 3 /\ pc \in 1 .. Len(Prog)
           /\ pc = 1 => Here.op = "save" /\ Here.x = 0
           /\ pc = Len(Prog) - 1 => Here.op = "save" /\ Here.x = 1
           /\ pc = Len(Prog) <=> Here.op = "match"
           /\ pc \in 2 .. Len(Prog) - 2 /\ Here.op = "save" => Here.x \in Slots \ {0, 1}
           /\ Here.op = "save" => Here.x \in Slots
           /\ Here.op \in {"set", "bol", "eol", "wb", "nwb"} => pc \in 2 .. Len(Prog) - 2
           /\ Here.op \in {"jmp", "split"} => Here.x \in 2 .. Len(Prog) - 1
           /\ Here.op = "split" => Here.y \in 2 .. Len(Prog) - 1
<1>1. WellFormed(Prog, NGroup)
  BY DEF TypeOK, JobOK, Prog, NGroup
<1>2. Prog \in Seq(Instructions) /\ Len(Prog) \in Nat /\ pc \in 1 .. Len(Prog) /\ NGroup \in Nat
  BY JobTypes, ElementType DEF TypeOK
<1> DEFINE n == Len(Prog)
<1>3. /\ n >= 3
      /\ Prog[1].op = "save" /\ Prog[1].x = 0
      /\ Prog[n - 1].op = "save" /\ Prog[n - 1].x = 1
      /\ Prog[n].op = "match"
  BY <1>1 DEF WellFormed, Save, Inst
<1>4. \A i \in 2 .. n - 2 :
         /\ Prog[i].op # "match"
         /\ Prog[i].op = "save" => Prog[i].x \in 2 .. 2 * NGroup + 1
         /\ Prog[i].op \in {"jmp", "split"} => Prog[i].x \in 2 .. n - 1
         /\ Prog[i].op = "split" => Prog[i].y \in 2 .. n - 1
  BY <1>1 DEF WellFormed
<1>5. CASE pc = 1
  BY <1>2, <1>3, <1>5 DEF Here, Slots
<1>6. CASE pc \in 2 .. n - 2
  BY <1>2, <1>3, <1>4, <1>6 DEF Here, Slots
<1>7. CASE pc = n - 1
  BY <1>2, <1>3, <1>7 DEF Here, Slots
<1>8. CASE pc = n
  BY <1>2, <1>3, <1>8 DEF Here, Slots
<1> QED
  BY <1>2, <1>3, <1>5, <1>6, <1>7, <1>8

-----------------------------------------------------------------------------
(* The machine: one lemma for each kind of step of an attempt. *)

Attempts == TypeOK /\ StackOK /\ AttemptOK

\* Pushing a frame that fits keeps the stack in order.
LEMMA PushFrame ==
    ASSUME Attempts, run = "vm", NEW f \in Frames, UNCHANGED <<job, start>>, stack' = Append(stack, f),
           f.fn = "split" => /\ stack # <<>> /\ f.pc \in 2 .. Len(Prog) - 1
                             /\ start <= f.sp,
           f.fn = "save" => (f.slot = 0 <=> stack = <<>>)
    PROVE  stack' \in Seq(Frames) /\ stack' # <<>> /\ StackOK'
<1>1. stack \in Seq(Frames)
  BY DEF Attempts, TypeOK, Frames
<1>2. /\ stack' \in Seq(Frames) /\ Len(stack') = Len(stack) + 1
      /\ stack'[Len(stack) + 1] = f
      /\ \A i \in 1 .. Len(stack) : stack'[i] = stack[i]
      /\ Len(stack) \in Nat /\ DOMAIN stack = 1 .. Len(stack)
      /\ DOMAIN stack' = 1 .. Len(stack) + 1
  BY <1>1, StackPush, ElementType
<1>3. stack # <<>> <=> Len(stack) >= 1
  BY <1>1, <1>2
<1>4. ASSUME NEW i \in DOMAIN stack', i # Len(stack) + 1
      PROVE  i \in DOMAIN stack /\ stack'[i] = stack[i]
  BY <1>2, <1>4
<1>5. StackOK'
  BY <1>2, <1>3, <1>4 DEF Attempts, StackOK, Prog
<1>6. stack' # <<>>
  BY <1>2
<1> QED
  BY <1>2, <1>5, <1>6

\* An activation that returns false goes back, one that returns true is done.
LEMMA ReturnInv ==
    ASSUME Attempts, run = "vm", NEW result \in BOOLEAN, Return(result),
           UNCHANGED search, steps' \in Nat,
           result => Here.op = "match"
    PROVE  Attempts'
<1>1. /\ run' \in {"matched", "back"} /\ (run' = "matched" => Here.op = "match")
      /\ UNCHANGED <<job, start, pc, sp, cap, stack, from, found, last, kept>>
  BY DEF Return, search
<1>2. pc = Len(Prog) <=> Here.op = "match"
  BY AtHere DEF Attempts
<1>3. TypeOK'
  BY <1>1 DEF Attempts, TypeOK, End, Slots, Text, Prog, NGroup
<1>4. StackOK'
  BY <1>1 DEF Attempts, StackOK, Prog
<1>5. run' = "back" /\ stack' # <<>> => cap'[0] = start'
  <2>1. stack # <<>> => pc > 1
    BY AtHere DEF Attempts, AttemptOK
  <2> QED
    BY <1>1, <2>1 DEF Attempts, AttemptOK
<1>6. run' = "matched" => cap'[0] = start' /\ cap'[1] = sp'
  BY <1>1, <1>2, AtHere DEF Attempts, AttemptOK
<1>7. start' <= sp' /\ start' <= End'
  BY <1>1 DEF Attempts, AttemptOK, End, Text
<1> QED
  BY <1>1, <1>3, <1>4, <1>5, <1>6, <1>7 DEF Attempts, AttemptOK

\* Going on at the next instruction, from inside the program.
LEMMA AdvanceInv ==
    ASSUME Attempts, run = "vm", pc \in 2 .. Len(Prog) - 2, pc' = pc + 1,
           sp' \in sp .. End, UNCHANGED <<search, run, cap, stack>>, steps' \in Nat
    PROVE  Attempts'
<1>1. UNCHANGED <<job, start, from, found, last, kept>>
  BY DEF search
<1>2. Len(Prog) \in Nat /\ pc' \in 2 .. Len(Prog) - 1 /\ End \in Nat
  BY AtHere, JobTypes DEF Attempts
<1>3. pc' \in DOMAIN Prog' /\ pc' \in Nat /\ sp' \in 0 .. End
  BY <1>1, <1>2, JobTypes, ElementType DEF Attempts, TypeOK, Prog
<1>4. TypeOK'
  BY <1>1, <1>3 DEF Attempts, TypeOK, End, Slots, Text, NGroup
<1>5. StackOK'
  BY <1>1 DEF Attempts, StackOK, Prog
<1>6. start' <= sp' /\ start' <= End'
  BY <1>1, <1>2 DEF Attempts, AttemptOK, TypeOK, End, Text
<1>7. pc > 1 /\ stack # <<>>
  BY <1>2 DEF Attempts, AttemptOK
<1>8. pc' # 1 /\ pc' # Len(Prog') /\ cap'[0] = start'
  BY <1>1, <1>2, <1>7 DEF Attempts, AttemptOK, Prog
<1> QED
  BY <1>1, <1>4, <1>5, <1>6, <1>7, <1>8 DEF Attempts, AttemptOK

LEMMA ConsumeInv == Attempts /\ Consume => Attempts'
<1> SUFFICES ASSUME Attempts, Consume PROVE Attempts'
  OBVIOUS
<1>1. run = "vm" /\ steps' \in Nat /\ Here.op = "set" /\ UNCHANGED search
  BY DEF Consume, InBudget, Attempts, TypeOK
<1>2. pc \in 2 .. Len(Prog) - 2 /\ sp \in 0 .. End /\ End \in Nat
  BY <1>1, AtHere, JobTypes DEF Attempts, TypeOK
<1>3. CASE sp < End /\ Char(sp) \in Here.accepts
  <2>1. sp + 1 \in sp .. End
    BY <1>2, <1>3
  <2> QED
    BY <1>1, <1>2, <1>3, <2>1, AdvanceInv DEF Consume
<1>4. CASE ~(sp < End /\ Char(sp) \in Here.accepts)
  BY <1>1, <1>4, ReturnInv DEF Consume
<1> QED
  BY <1>3, <1>4

LEMMA TestInv == Attempts /\ Test => Attempts'
<1> SUFFICES ASSUME Attempts, Test PROVE Attempts'
  OBVIOUS
<1>1. run = "vm" /\ steps' \in Nat /\ Here.op \in {"bol", "eol", "wb", "nwb"} /\ UNCHANGED search
  BY DEF Test, InBudget, Attempts, TypeOK
<1>2. pc \in 2 .. Len(Prog) - 2 /\ sp \in sp .. End
  BY <1>1, AtHere, JobTypes DEF Attempts, TypeOK
<1>3. CASE Holds
  BY <1>1, <1>2, <1>3, AdvanceInv DEF Test
<1>4. CASE ~Holds
  BY <1>1, <1>4, ReturnInv DEF Test
<1> QED
  BY <1>3, <1>4

LEMMA AcceptedInv == Attempts /\ Accepted => Attempts'
<1> SUFFICES ASSUME Attempts, Accepted PROVE Attempts'
  OBVIOUS
<1>1. run = "vm" /\ steps' \in Nat /\ Here.op = "match" /\ UNCHANGED search
  BY DEF Accepted, InBudget, Attempts, TypeOK
<1>2. PICK result \in BOOLEAN : Return(result) /\ result
  BY Zenon DEF Accepted
<1> QED
  BY <1>1, <1>2, ReturnInv

LEMMA OutOfStepsInv == Attempts /\ OutOfSteps => Attempts'
<1> SUFFICES ASSUME Attempts, OutOfSteps PROVE Attempts'
  OBVIOUS
<1>1. run = "vm" /\ steps' \in Nat /\ UNCHANGED search /\ Return(FALSE)
  BY DEF OutOfSteps, Attempts, TypeOK
<1> QED
  BY <1>1, ReturnInv

\* Going on at a target, with what was pushed before.
LEMMA GotoInv == Attempts /\ Goto => Attempts'
<1> SUFFICES ASSUME Attempts, Goto PROVE Attempts'
  OBVIOUS
<1>1. /\ run = "vm" /\ steps' \in Nat /\ Here.op = "jmp" /\ pc' = Here.x
      /\ UNCHANGED <<job, start, from, found, last, kept, run, sp, cap, stack>>
  BY DEF Goto, InBudget, Attempts, TypeOK, search
<1>2. /\ pc \in 1 .. Len(Prog) /\ Len(Prog) \in Nat /\ pc' \in 2 .. Len(Prog) - 1
      /\ pc # 1
  BY <1>1, AtHere DEF Attempts
<1>3. pc' \in DOMAIN Prog' /\ pc' \in Nat
  BY <1>1, <1>2, JobTypes, ElementType DEF Attempts, Prog
<1>4. TypeOK'
  BY <1>1, <1>3 DEF Attempts, TypeOK, End, Slots, Text, NGroup
<1>5. StackOK'
  BY <1>1 DEF Attempts, StackOK, Prog
<1>6. stack # <<>> /\ cap[0] = start /\ start <= sp /\ start <= End
  BY <1>1, <1>2 DEF Attempts, AttemptOK
<1>7. pc' # 1 /\ pc' # Len(Prog') /\ start' <= sp' /\ start' <= End' /\ cap'[0] = start'
  BY <1>1, <1>2, <1>6 DEF Prog, End, Text
<1> QED
  BY <1>1, <1>4, <1>5, <1>6, <1>7 DEF Attempts, AttemptOK

LEMMA ForkInv == Attempts /\ Fork => Attempts'
<1> SUFFICES ASSUME Attempts, Fork PROVE Attempts'
  OBVIOUS
<1> DEFINE f == Alternative(Here.y, sp)
<1>1. /\ run = "vm" /\ steps' \in Nat /\ Here.op = "split" /\ pc' = Here.x
      /\ stack' = Append(stack, f)
      /\ UNCHANGED <<job, start, from, found, last, kept, run, sp, cap>>
  BY DEF Fork, InBudget, Attempts, TypeOK, search
<1>2. /\ pc \in 1 .. Len(Prog) /\ Len(Prog) \in Nat /\ pc' \in 2 .. Len(Prog) - 1
      /\ pc # 1 /\ Here.y \in 2 .. Len(Prog) - 1
  BY <1>1, AtHere DEF Attempts
<1>3. pc' \in DOMAIN Prog' /\ pc' \in Nat
  BY <1>1, <1>2, JobTypes, ElementType DEF Attempts, Prog
<1>4. stack # <<>> /\ cap[0] = start /\ start <= sp /\ start <= End
  BY <1>1, <1>2 DEF Attempts, AttemptOK
<1>5. f \in Frames /\ f.fn = "split" /\ f.pc = Here.y /\ f.sp = sp
  BY <1>2, JobTypes DEF Alternative, Frames, Attempts, TypeOK
<1>6. stack' \in Seq(Frames) /\ stack' # <<>> /\ StackOK'
  <2> HIDE DEF f
  <2> QED
    BY <1>1, <1>2, <1>4, <1>5, PushFrame
<1>7. TypeOK'
  BY <1>1, <1>3, <1>6 DEF Attempts, TypeOK, Frames, End, Slots, Text, NGroup
<1>8. pc' # 1 /\ pc' # Len(Prog') /\ start' <= sp' /\ start' <= End' /\ cap'[0] = start'
  BY <1>1, <1>2, <1>4 DEF Prog, End, Text
<1> QED
  BY <1>1, <1>6, <1>7, <1>8 DEF Attempts, AttemptOK

\* A save: the first of the program sets slot 0, the last slot 1, the others
\* neither.
LEMMA RecordInv == Attempts /\ Record => Attempts'
<1> SUFFICES ASSUME Attempts, Record PROVE Attempts'
  OBVIOUS
<1> DEFINE slot == Here.x
           f == Undo(slot, cap[slot])
<1>1. /\ run = "vm" /\ steps' \in Nat /\ Here.op = "save" /\ pc' = pc + 1
      /\ stack' = Append(stack, f) /\ cap' = [cap EXCEPT ![slot] = sp]
      /\ UNCHANGED <<job, start, from, found, last, kept, run, sp>>
  BY DEF Record, InBudget, Attempts, TypeOK, search
<1>2. /\ pc \in 1 .. Len(Prog) - 1 /\ Len(Prog) \in Nat /\ Len(Prog) >= 3
      /\ slot \in Slots
      /\ pc = 1 => slot = 0
      /\ pc = Len(Prog) - 1 => slot = 1
      /\ pc \in 2 .. Len(Prog) - 2 => slot # 0 /\ slot # 1
  BY <1>1, AtHere DEF Attempts
<1>3. /\ pc' \in DOMAIN Prog' /\ pc' \in Nat /\ pc' \in 2 .. Len(Prog)
  BY <1>1, <1>2, JobTypes, ElementType DEF Attempts, Prog
<1>4. start <= sp /\ start <= End /\ (pc = 1 <=> stack = <<>>) /\ (pc > 1 => cap[0] = start)
  BY <1>1 DEF Attempts, AttemptOK
<1>5. cap \in [Slots -> -1 .. End] /\ sp \in 0 .. End /\ End \in Nat /\ 0 \in Slots /\ 1 \in Slots
  BY JobTypes DEF Attempts, TypeOK
<1>6. f \in Frames /\ f.fn = "save" /\ f.slot = slot
  BY <1>2, <1>5 DEF Undo, Frames
<1>7. slot = 0 <=> stack = <<>>
  BY <1>2, <1>4
<1>8. stack' \in Seq(Frames) /\ stack' # <<>> /\ StackOK'
  <2> HIDE DEF f
  <2> QED
    BY <1>1, <1>6, <1>7, PushFrame
<1>9. cap' \in [Slots -> -1 .. End]
  BY <1>1, <1>2, <1>5
<1>10. TypeOK'
  BY <1>1, <1>3, <1>8, <1>9 DEF Attempts, TypeOK, Frames, End, Slots, Text, NGroup
<1>11. cap'[0] = start'
  <2>1. CASE pc = 1
    <3>1. sp = start
      BY <1>1, <2>1 DEF Attempts, AttemptOK
    <3> QED
      BY <1>1, <1>2, <1>5, <2>1, <3>1
  <2>2. CASE pc # 1
    BY <1>1, <1>2, <1>4, <1>5, <2>2
  <2> QED
    BY <2>1, <2>2
<1>12. pc' = Len(Prog') => cap'[1] = sp'
  BY <1>1, <1>2, <1>5 DEF Prog
<1>13. pc' # 1 /\ start' <= sp' /\ start' <= End'
  BY <1>1, <1>3, <1>4 DEF End, Text
<1> QED
  BY <1>1, <1>8, <1>10, <1>11, <1>12, <1>13 DEF Attempts, AttemptOK

LEMMA BacktrackInv == Attempts /\ Backtrack => Attempts'
<1> SUFFICES ASSUME Attempts, Backtrack PROVE Attempts'
  OBVIOUS
<1> DEFINE top == stack[Len(stack)]
           rest == SubSeq(stack, 1, Len(stack) - 1)
<1>1. /\ run = "back" /\ stack # <<>> /\ stack' = rest /\ steps' = steps
      /\ UNCHANGED <<job, start, from, found, last, kept>>
      /\ IF top.fn = "split"
         THEN run' = "vm" /\ pc' = top.pc /\ sp' = top.sp /\ cap' = cap
         ELSE cap' = [cap EXCEPT ![top.slot] = top.old] /\ UNCHANGED <<run, pc, sp>>
  BY DEF Backtrack, search
<1>2. stack \in Seq(Frames) /\ cap \in [Slots -> -1 .. End] /\ End \in Nat /\ 0 \in Slots
  BY JobTypes DEF Attempts, TypeOK, Frames
<1>3. /\ Len(stack) \in Nat /\ Len(stack) >= 1 /\ DOMAIN stack = 1 .. Len(stack)
      /\ top \in Frames
  BY <1>1, <1>2, StackTop
<1>4. /\ rest \in Seq(Frames) /\ Len(rest) = Len(stack) - 1
      /\ \A i \in 1 .. Len(stack) - 1 : rest[i] = stack[i]
      /\ DOMAIN rest = 1 .. Len(stack) - 1
  BY <1>1, <1>2, StackPop, ElementType
<1>5. StackOK'
  <2>1. \A i \in DOMAIN rest : i \in DOMAIN stack /\ rest[i] = stack[i]
    BY <1>3, <1>4
  <2> HIDE DEF rest
  <2> QED
    BY <1>1, <2>1 DEF Attempts, StackOK, Prog
<1>6. cap[0] = start /\ start <= sp /\ start <= End
  BY <1>1 DEF Attempts, AttemptOK
<1>7. /\ top.fn = "split" => Len(stack) > 1 /\ top.pc \in 2 .. Len(Prog) - 1 /\ start <= top.sp
      /\ top.fn = "save" => (top.slot = 0 <=> Len(stack) = 1)
      /\ top.fn \in {"split", "save"} /\ top.slot \in Slots /\ top.old \in -1 .. End
      /\ top.pc \in Nat /\ top.sp \in 0 .. End
  BY <1>1, <1>3 DEF Attempts, StackOK, Frames
<1>8. rest = <<>> <=> Len(stack) = 1
  BY <1>2, <1>3, <1>4
<1> HIDE DEF rest, top
<1>9. CASE top.fn = "split"
  <2>1. /\ run' = "vm" /\ pc' = top.pc /\ sp' = top.sp /\ cap' = cap /\ stack' # <<>>
    BY <1>1, <1>3, <1>7, <1>8, <1>9
  <2>2. Len(Prog) \in Nat /\ pc' \in DOMAIN Prog' /\ pc' \in Nat /\ pc' # 1 /\ pc' # Len(Prog')
    BY <1>1, <1>7, <1>9, <2>1, JobTypes, ElementType DEF Attempts, Prog
  <2>3. job.ok
    BY <1>1 DEF Attempts, TypeOK
  <2>4. TypeOK'
    BY <1>1, <1>4, <1>7, <2>1, <2>2, <2>3 DEF Attempts, TypeOK, Frames, End, Slots, Text, NGroup
  <2>5. start' <= sp' /\ start' <= End' /\ cap'[0] = start'
    BY <1>1, <1>6, <1>7, <1>9, <2>1 DEF End, Text
  <2> QED
    BY <1>5, <2>1, <2>2, <2>4, <2>5 DEF Attempts, AttemptOK
<1>10. CASE top.fn = "save"
  <2>1. /\ run' = "back" /\ cap' = [cap EXCEPT ![top.slot] = top.old]
        /\ UNCHANGED <<pc, sp>>
    BY <1>1, <1>10
  <2>2. cap' \in [Slots -> -1 .. End]
    BY <1>2, <1>7, <2>1
  <2>3. TypeOK'
    BY <1>1, <1>4, <2>1, <2>2 DEF Attempts, TypeOK, Frames, End, Slots, Text, NGroup, Prog
  <2>4. stack' # <<>> => cap'[0] = start'
    BY <1>1, <1>2, <1>6, <1>7, <1>8, <1>10, <2>1
  <2>5. start' <= sp' /\ start' <= End'
    BY <1>1, <1>6, <2>1 DEF End, Text
  <2> QED
    BY <1>5, <2>1, <2>3, <2>4, <2>5 DEF Attempts, AttemptOK
<1> QED
  BY <1>7, <1>9, <1>10

LEMMA StepAttempts == Attempts /\ (Step \/ Backtrack) => Attempts'
BY ConsumeInv, TestInv, GotoInv, ForkInv, RecordInv, AcceptedInv, OutOfStepsInv, BacktrackInv
   DEF Step

-----------------------------------------------------------------------------
(* The search: attempts begin and end, matches are recorded. *)

\* A step of the machine leaves what the search has found alone.
LEMMA SearchKept ==
    ASSUME SearchOK, UNCHANGED search, run # "over", run' # "over"
    PROVE  SearchOK'
BY DEF SearchOK, search, LastEnd, MatchesInOrder, NothingLost, End, Text

LEMMA StepSearch == IInv /\ (Step \/ Backtrack) => SearchOK'
<1> SUFFICES ASSUME IInv, Step \/ Backtrack PROVE SearchOK'
  OBVIOUS
<1>1. UNCHANGED search /\ run # "over" /\ run' # "over"
  BY DEF Step, Consume, Test, Goto, Fork, Record, Accepted, OutOfSteps, InBudget, Return, Backtrack
<1> QED
  BY <1>1, SearchKept DEF IInv

LEMMA AttemptInv == IInv /\ Attempt => IInv'
<1> SUFFICES ASSUME IInv, Attempt PROVE IInv'
  OBVIOUS
<1>1. /\ run = "seek" /\ start <= End /\ run' = "vm" /\ pc' = 1 /\ sp' = start
      /\ cap' = [slot \in Slots |-> -1] /\ stack' = <<>> /\ steps' = StepBudget
      /\ UNCHANGED <<job, from, start, found, last, kept>>
  BY DEF Attempt, search
<1>2. job.ok /\ Len(Prog) >= 3 /\ Len(Prog) \in Nat /\ 1 \in DOMAIN Prog
  <2>1. job.ok /\ WellFormed(Prog, NGroup)
    BY <1>1 DEF IInv, TypeOK, JobOK, Prog, NGroup
  <2> QED
    BY <2>1, JobTypes, ElementType DEF IInv, WellFormed
<1>3. End \in Nat /\ start \in 0 .. End
  BY <1>1, JobTypes DEF IInv, TypeOK
<1>4. TypeOK'
  BY <1>1, <1>2, <1>3, StepBudgetAssumption
     DEF IInv, TypeOK, End, Slots, Text, NGroup, Prog
<1>5. StackOK'
  BY <1>1 DEF StackOK
<1>6. AttemptOK'
  <2>0. pc' = 1 /\ stack' = <<>> /\ run' = "vm" /\ job' = job
    BY <1>1
  <2>1. pc' # Len(Prog')
    <3>1. Len(Prog') = Len(Prog)
      BY <2>0 DEF Prog
    <3> QED
      BY <1>2, <2>0, <3>1
  <2>2. start' <= sp' /\ start' <= End' /\ sp' = start'
    BY <1>1, <1>3 DEF End, Text
  <2> QED
    BY <2>0, <2>1, <2>2 DEF AttemptOK
<1>7. SearchOK'
  BY <1>1, SearchKept DEF IInv, search
<1> QED
  BY <1>4, <1>5, <1>6, <1>7 DEF IInv

LEMMA NextStartInv == IInv /\ NextStart => IInv'
<1> SUFFICES ASSUME IInv, NextStart PROVE IInv'
  OBVIOUS
<1>1. /\ run = "back" /\ stack = <<>> /\ run' = "seek" /\ start' = start + 1
      /\ UNCHANGED <<job, from, pc, sp, cap, stack, steps, found, last, kept>>
  BY DEF NextStart
<1>2. start <= End /\ End \in Nat /\ start \in Nat /\ from \in Nat
  BY <1>1, JobTypes DEF IInv, AttemptOK, TypeOK
<1>3. TypeOK'
  BY <1>1, <1>2 DEF IInv, TypeOK, End, Slots, Text, NGroup, Prog
<1>4. StackOK' /\ AttemptOK'
  BY <1>1 DEF StackOK, AttemptOK
<1>5. SearchOK'
  BY <1>1, <1>2 DEF IInv, SearchOK, LastEnd, MatchesInOrder, NothingLost, End, Text
<1> QED
  BY <1>3, <1>4, <1>5 DEF IInv

\* A match is recorded behind those so far, with the stretch before it.
LEMMA FoundInv == IInv /\ Found => IInv'
<1> SUFFICES ASSUME IInv, Found PROVE IInv'
  OBVIOUS
<1> DEFINE stretch == <<last, cap[0]>>
<1>1. /\ run = "matched" /\ run' = "seek"
      /\ found' = Append(found, cap) /\ kept' = Append(kept, stretch) /\ last' = cap[1]
      /\ from' = Resume /\ start' = Resume
      /\ UNCHANGED <<job, pc, sp, cap, stack, steps>>
  BY DEF Found
<1>2. /\ cap[0] = start /\ cap[1] = sp /\ start <= sp /\ sp \in 0 .. End /\ End \in Nat
      /\ last \in Nat /\ start \in Nat /\ from \in Nat
      /\ last <= from /\ from <= start
      /\ NGroup \in Nat
  BY <1>1, JobTypes DEF IInv, AttemptOK, SearchOK, TypeOK
<1>3. Resume \in Nat /\ cap[1] <= Resume /\ Resume <= End + 1
  BY <1>2 DEF Resume
<1>4. cap \in [Slots -> -1 .. End] /\ found \in Seq([Slots -> -1 .. End]) /\ kept \in Seq(Nat \X Nat)
  BY DEF IInv, TypeOK
<1>5. stretch \in Nat \X Nat /\ stretch[1] = last /\ stretch[2] = cap[0]
  BY <1>2
<1> HIDE DEF stretch
<1>6. /\ found' \in Seq([Slots -> -1 .. End]) /\ Len(found') = Len(found) + 1
      /\ found'[Len(found) + 1] = cap
      /\ \A i \in 1 .. Len(found) : found'[i] = found[i]
      /\ Len(found) \in Nat /\ DOMAIN found = 1 .. Len(found)
      /\ DOMAIN found' = 1 .. Len(found) + 1
  BY <1>1, <1>4, StackPush, ElementType
<1>7. /\ kept' \in Seq(Nat \X Nat) /\ Len(kept') = Len(kept) + 1
      /\ kept'[Len(kept) + 1] = stretch
      /\ \A i \in 1 .. Len(kept) : kept'[i] = kept[i]
      /\ Len(kept) = Len(found)
  BY <1>1, <1>4, <1>5, StackPush DEF IInv, SearchOK
<1>8. TypeOK'
  BY <1>1, <1>2, <1>3, <1>6, <1>7 DEF IInv, TypeOK, End, Slots, Text, NGroup, Prog
<1>9. StackOK' /\ AttemptOK'
  BY <1>1 DEF IInv, StackOK, AttemptOK, Prog
<1>10. found' # <<>> /\ LastEnd' = cap[1]
  BY <1>6 DEF LastEnd
<1>11. last = IF Len(found) = 0 THEN 0 ELSE found[Len(found)][1]
  BY <1>4, <1>6 DEF IInv, SearchOK, LastEnd
<1>12. MatchesInOrder'
  <2> SUFFICES ASSUME NEW i \in DOMAIN found'
               PROVE  /\ 0 <= found'[i][0] /\ found'[i][0] <= found'[i][1] /\ found'[i][1] <= End
                      /\ i > 1 => found'[i - 1][1] <= found'[i][0]
    BY <1>1 DEF MatchesInOrder, End, Text
  <2>1. CASE i = Len(found) + 1
    BY <1>2, <1>6, <1>11, <2>1
  <2>2. CASE i # Len(found) + 1
    <3>1. i \in DOMAIN found /\ found'[i] = found[i] /\ (i > 1 => found'[i - 1] = found[i - 1])
      BY <1>6, <2>2
    <3> QED
      BY <3>1 DEF IInv, SearchOK, MatchesInOrder
  <2> QED
    BY <2>1, <2>2
<1>13. NothingLost'
  <2> SUFFICES ASSUME NEW i \in DOMAIN found'
               PROVE  /\ kept'[i][1] = IF i = 1 THEN 0 ELSE found'[i - 1][1]
                      /\ kept'[i][2] = found'[i][0]
                      /\ kept'[i][1] <= kept'[i][2]
    BY <1>1 DEF NothingLost
  <2>1. CASE i = Len(found) + 1
    BY <1>2, <1>5, <1>6, <1>7, <1>11, <2>1
  <2>2. CASE i # Len(found) + 1
    <3>1. /\ i \in DOMAIN found /\ found'[i] = found[i] /\ (i > 1 => found'[i - 1] = found[i - 1])
          /\ kept'[i] = kept[i]
      BY <1>6, <1>7, <2>2
    <3>2. /\ kept[i][1] = IF i = 1 THEN 0 ELSE found[i - 1][1]
          /\ kept[i][2] = found[i][0]
          /\ kept[i][1] <= kept[i][2]
      BY <3>1 DEF IInv, SearchOK, NothingLost
    <3>3. i \in Nat /\ (i # 1 => i > 1)
      BY <1>6
    <3> QED
      BY <3>1, <3>2, <3>3
  <2> QED
    BY <2>1, <2>2
<1>14. /\ last' = LastEnd' /\ last' <= from' /\ from' <= start' /\ start' <= End' + 1 /\ last' <= End'
       /\ Len(kept') = Len(found') + (IF run' = "over" THEN 1 ELSE 0)
  BY <1>1, <1>2, <1>3, <1>6, <1>7, <1>10 DEF End, Text
<1> QED
  BY <1>8, <1>9, <1>12, <1>13, <1>14 DEF IInv, SearchOK

LEMMA NoMatchInv == IInv /\ NoMatch => IInv'
<1> SUFFICES ASSUME IInv, NoMatch PROVE IInv'
  OBVIOUS
<1> DEFINE rest == <<last, End>>
<1>1. /\ run = "seek" /\ run' = "over" /\ kept' = Append(kept, rest)
      /\ UNCHANGED <<job, from, start, pc, sp, cap, stack, steps, found, last>>
  BY DEF NoMatch
<1>2. /\ last \in Nat /\ End \in Nat /\ last <= End /\ last = LastEnd
      /\ kept \in Seq(Nat \X Nat) /\ found \in Seq([Slots -> -1 .. End])
  BY JobTypes DEF IInv, TypeOK, SearchOK
<1>3. rest \in Nat \X Nat /\ rest = <<LastEnd, End>>
  BY <1>2
<1> HIDE DEF rest
<1>4. /\ kept' \in Seq(Nat \X Nat) /\ Len(kept') = Len(kept) + 1
      /\ kept'[Len(kept) + 1] = rest
      /\ \A i \in 1 .. Len(kept) : kept'[i] = kept[i]
      /\ Len(kept) = Len(found) /\ Len(found) \in Nat /\ DOMAIN found = 1 .. Len(found)
  BY <1>1, <1>2, <1>3, StackPush, ElementType DEF IInv, SearchOK
<1>5. TypeOK'
  BY <1>1, <1>4 DEF IInv, TypeOK, End, Slots, Text, NGroup, Prog
<1>6. StackOK' /\ AttemptOK'
  BY <1>1 DEF IInv, StackOK, AttemptOK, Prog
<1>7. MatchesInOrder' /\ LastEnd' = LastEnd
  BY <1>1 DEF IInv, SearchOK, MatchesInOrder, LastEnd, End, Text
<1>8. NothingLost'
  <2>1. \A i \in DOMAIN found' :
           /\ kept'[i][1] = IF i = 1 THEN 0 ELSE found'[i - 1][1]
           /\ kept'[i][2] = found'[i][0]
           /\ kept'[i][1] <= kept'[i][2]
    BY <1>1, <1>4 DEF IInv, SearchOK, NothingLost
  <2>2. kept'[Len(kept')] = <<LastEnd', End'>> /\ last' <= End'
    BY <1>1, <1>2, <1>3, <1>4, <1>7 DEF End, Text
  <2> QED
    BY <2>1, <2>2 DEF NothingLost, LastEnd
<1>9. /\ last' = LastEnd' /\ last' <= from' /\ from' <= start' /\ start' <= End' + 1 /\ last' <= End'
      /\ Len(kept') = Len(found') + (IF run' = "over" THEN 1 ELSE 0)
  BY <1>1, <1>2, <1>4, <1>7 DEF IInv, SearchOK, End, Text
<1> QED
  BY <1>5, <1>6, <1>7, <1>8, <1>9 DEF IInv, SearchOK

LEMMA InitInv == Init => IInv
<1> SUFFICES ASSUME Init PROVE IInv
  OBVIOUS
<1>1. /\ JobOK(job) /\ run = (IF job.ok THEN "seek" ELSE "rejected")
      /\ from = 0 /\ start = 0 /\ pc = 1 /\ sp = 0 /\ cap = [slot \in Slots |-> -1]
      /\ stack = <<>> /\ steps = 0 /\ found = <<>> /\ last = 0 /\ kept = <<>>
  BY JobsAssumption DEF Init
<1>2. End \in Nat
  BY <1>1, ElementType DEF JobOK, End, Text
<1>3. TypeOK
  BY <1>1, <1>2 DEF TypeOK
<1>4. StackOK /\ AttemptOK
  BY <1>1 DEF StackOK, AttemptOK
<1>5. SearchOK
  BY <1>1, <1>2 DEF SearchOK, LastEnd, MatchesInOrder, NothingLost
<1> QED
  BY <1>3, <1>4, <1>5 DEF IInv

LEMMA NextInv == IInv /\ [Next]_vars => IInv'
<1> SUFFICES ASSUME IInv, [Next]_vars PROVE IInv'
  OBVIOUS
<1>1. CASE Attempt
  BY <1>1, AttemptInv
<1>2. CASE NoMatch
  BY <1>2, NoMatchInv
<1>3. CASE Step \/ Backtrack
  BY <1>3, StepAttempts, StepSearch DEF IInv, Attempts
<1>4. CASE NextStart
  BY <1>4, NextStartInv
<1>5. CASE Found
  BY <1>5, FoundInv
<1>6. CASE CannotMix
  <2>1. run' = "mixed" /\ run = "matched" /\ UNCHANGED <<search, pc, sp, cap, stack, steps>>
    BY <1>6 DEF CannotMix
  <2>2. TypeOK' /\ StackOK' /\ AttemptOK'
    BY <2>1 DEF IInv, TypeOK, StackOK, AttemptOK, search, End, Slots, Text, NGroup, Prog
  <2> QED
    BY <2>1, <2>2, SearchKept DEF IInv
<1>7. CASE UNCHANGED vars
  BY <1>7 DEF vars, IInv, TypeOK, StackOK, AttemptOK, SearchOK, LastEnd, MatchesInOrder,
              NothingLost, End, Slots, Text, NGroup, Prog
<1> QED
  BY <1>1, <1>2, <1>3, <1>4, <1>5, <1>6, <1>7, Zenon DEF Next, Done

LEMMA Invariance == Spec => []IInv
<1> QED
  BY InitInv, NextInv, PTL DEF Spec

-----------------------------------------------------------------------------
(* The theorems. *)

\* The program counter stays in the program, offsets stay in the text and save
\* slots are those of the pattern, whatever the program and however small the
\* budget (vm, hre_match).
THEOREM TypeCorrect == Spec => []TypeOK
<1>1. IInv => TypeOK
  BY DEF IInv
<1> QED
  BY <1>1, Invariance, PTL

\* regexall() and replace() report matches that lie in the text, one behind the
\* other, so that no length computed from them is negative.
THEOREM SearchInOrder == Spec => []MatchesInOrder
<1>1. IInv => MatchesInOrder
  BY DEF IInv, SearchOK
<1> QED
  BY <1>1, Invariance, PTL

\* replace() copies exactly what lies between the matches.
THEOREM ReplaceLosesNothing == Spec => []NothingLost
<1>1. IInv => NothingLost
  BY DEF IInv, SearchOK
<1> QED
  BY <1>1, Invariance, PTL

\* The search moves on with every match and every attempt, and each round of the
\* machine costs a step of its budget.
THEOREM SearchGetsOn == Spec => GetsOn
<1> DEFINE A == /\ from' # from \/ found' # found => from' > from
                /\ start' # start => start' > start
                /\ run = "vm" /\ run' = "vm" => steps' < steps
<1>1. IInv /\ [Next]_vars => [A]_vars
  <2> SUFFICES ASSUME IInv, Next PROVE A \/ UNCHANGED vars
    OBVIOUS
  <2>1. /\ from \in Nat /\ start \in Nat /\ steps \in Nat /\ from <= start
        /\ (run = "matched" => cap[0] = start /\ cap[1] = sp /\ start <= sp /\ sp \in Nat)
    BY JobTypes DEF IInv, TypeOK, SearchOK, AttemptOK
  <2>2. CASE Step
    <3>1. UNCHANGED search /\ (run' = "vm" => steps' = steps - 1)
      BY <2>2 DEF Step, Consume, Test, Goto, Fork, Record, Accepted, OutOfSteps, InBudget, Return
    <3> QED
      BY <2>1, <3>1 DEF search
  <2>3. CASE Found
    <3>1. from' = Resume /\ start' = Resume /\ run = "matched"
      BY <2>3 DEF Found
    <3>2. Resume \in Nat /\ Resume > start
      BY <2>1, <3>1 DEF Resume
    <3>3. from' > from /\ start' > start
      BY <2>1, <3>1, <3>2
    <3> QED
      BY <3>1, <3>3
  <2>4. CASE NextStart
    BY <2>1, <2>4 DEF NextStart
  <2>5. CASE Attempt \/ NoMatch \/ Backtrack \/ CannotMix \/ Done
    <3>1. (UNCHANGED <<from, found, start>> /\ run # "vm") \/ UNCHANGED vars
      BY <2>5 DEF Attempt, NoMatch, Backtrack, CannotMix, Done, search
    <3>2. CASE UNCHANGED <<from, found, start>> /\ run # "vm"
      BY <3>2
    <3>3. CASE UNCHANGED vars
      BY <3>3
    <3> QED
      BY <3>1, <3>2, <3>3
  <2> QED
    BY <2>2, <2>3, <2>4, <2>5 DEF Next
<1> QED
  BY <1>1, Invariance, PTL DEF Spec, GetsOn

-----------------------------------------------------------------------------
(* Groups.  A group that is repeated holds a new beginning and an old end   *)
(* while the machine is inside it, so that GroupsInMatch is not inductive;  *)
(* what holds depends on where the program counter is.  A branch that comes *)
(* back finds the captures it had, because the frames above it undo theirs. *)

Captures == [Slots -> -1 .. End]

\* What the slots of a group say at instruction p with the text read up to o.
GroupsAt(p, o, c) ==
    \A g \in 1 .. NGroup :
        /\ Inside(Prog, p, g) => start <= c[2 * g] /\ c[2 * g] <= o
        /\ ~Inside(Prog, p, g) /\ c[2 * g] >= 0 /\ c[2 * g + 1] >= 0 =>
              /\ start <= c[2 * g]
              /\ c[2 * g] <= c[2 * g + 1]
              /\ c[2 * g + 1] <= o

\* past[i] is what the captures are once the frames from i on are undone.
Unwinds(past, st, c) ==
    /\ past \in Seq(Captures) /\ Len(past) = Len(st) + 1 /\ past[Len(st) + 1] = c
    /\ \A i \in 1 .. Len(st) :
          /\ st[i].fn = "save" => past[i] = [past[i + 1] EXCEPT ![st[i].slot] = st[i].old]
          /\ st[i].fn = "split" => past[i] = past[i + 1] /\ GroupsAt(st[i].pc, st[i].sp, past[i])

GroupsIn(c) ==
    \A g \in 1 .. NGroup :
        c[2 * g] >= 0 /\ c[2 * g + 1] >= 0 =>
            /\ c[0] <= c[2 * g]
            /\ c[2 * g] <= c[2 * g + 1]
            /\ c[2 * g + 1] <= c[1]

GroupsInv ==
    /\ run \in {"vm", "back"} => \E past : Unwinds(past, stack, cap)
    /\ run = "vm" => GroupsAt(pc, sp, cap)
    /\ run = "matched" => GroupsIn(cap)
    /\ GroupsInMatch

LEMMA GroupSlots ==
    ASSUME TypeOK, NEW g \in 1 .. NGroup
    PROVE  /\ g \in Nat /\ 2 * g \in Slots /\ 2 * g + 1 \in Slots
           /\ 2 * g # 0 /\ 2 * g # 1 /\ 2 * g + 1 # 0 /\ 2 * g + 1 # 1
           /\ \A h \in Nat : 2 * g # 2 * h + 1 /\ (2 * g = 2 * h => g = h) /\ (2 * g + 1 = 2 * h + 1 => g = h)
<1>1. NGroup \in Nat /\ g \in Nat /\ g >= 1 /\ g <= NGroup
  BY JobTypes
<1> QED
  BY <1>1 DEF Slots

LEMMA Brackets ==
    ASSUME TypeOK, run = "vm", NEW g \in 1 .. NGroup
    PROVE  /\ ~Inside(Prog, 1, g) /\ ~Inside(Prog, Len(Prog), g)
           /\ Saves(Here, 2 * g + 1) => Inside(Prog, pc, g)
           /\ \A next \in Nexts(Prog, pc) :
                 Inside(Prog, next, g) <=> \/ Saves(Here, 2 * g)
                                           \/ Inside(Prog, pc, g) /\ ~Saves(Here, 2 * g + 1)
<1>1. Bracketed(Prog, NGroup) /\ pc \in DOMAIN Prog
  BY DEF TypeOK, JobOK, Prog, NGroup
<1> QED
  BY <1>1 DEF Bracketed, Here

\* Going on without a save.
LEMMA GroupsGoOn ==
    ASSUME Attempts, run = "vm", GroupsAt(pc, sp, cap), Here.op # "save",
           NEW next \in Nexts(Prog, pc), NEW o \in sp .. End
    PROVE  GroupsAt(next, o, cap)
<1> SUFFICES ASSUME NEW g \in 1 .. NGroup
             PROVE  /\ Inside(Prog, next, g) => start <= cap[2 * g] /\ cap[2 * g] <= o
                    /\ ~Inside(Prog, next, g) /\ cap[2 * g] >= 0 /\ cap[2 * g + 1] >= 0 =>
                          start <= cap[2 * g] /\ cap[2 * g] <= cap[2 * g + 1] /\ cap[2 * g + 1] <= o
  BY DEF GroupsAt
<1>1. Inside(Prog, next, g) <=> Inside(Prog, pc, g)
  BY Brackets DEF Saves, Attempts
<1>2. cap[2 * g] \in -1 .. End /\ cap[2 * g + 1] \in -1 .. End /\ End \in Nat /\ sp \in 0 .. End
  BY GroupSlots, JobTypes DEF Attempts, TypeOK
<1> QED
  BY <1>1, <1>2 DEF GroupsAt

\* Entering or leaving a group, or saving where the match begins or ends.
LEMMA GroupsSave ==
    ASSUME Attempts, run = "vm", GroupsAt(pc, sp, cap), Here.op = "save",
           NEW c, c = [cap EXCEPT ![Here.x] = sp]
    PROVE  GroupsAt(pc + 1, sp, c)
<1> SUFFICES ASSUME NEW g \in 1 .. NGroup
             PROVE  /\ Inside(Prog, pc + 1, g) => start <= c[2 * g] /\ c[2 * g] <= sp
                    /\ ~Inside(Prog, pc + 1, g) /\ c[2 * g] >= 0 /\ c[2 * g + 1] >= 0 =>
                          start <= c[2 * g] /\ c[2 * g] <= c[2 * g + 1] /\ c[2 * g + 1] <= sp
  BY DEF GroupsAt
<1>1. pc + 1 \in Nexts(Prog, pc)
  BY DEF Nexts, Here
<1>2. /\ Saves(Here, 2 * g + 1) => Inside(Prog, pc, g)
      /\ Inside(Prog, pc + 1, g) <=> \/ Saves(Here, 2 * g)
                                     \/ Inside(Prog, pc, g) /\ ~Saves(Here, 2 * g + 1)
  BY <1>1, Brackets DEF Attempts
<1>3. /\ cap \in [Slots -> -1 .. End] /\ End \in Nat /\ sp \in 0 .. End /\ start <= sp /\ start \in Nat
      /\ 2 * g \in Slots /\ 2 * g + 1 \in Slots /\ 2 * g # 2 * g + 1
  BY GroupSlots, JobTypes DEF Attempts, TypeOK, AttemptOK
<1>4. /\ c[2 * g] = IF Saves(Here, 2 * g) THEN sp ELSE cap[2 * g]
      /\ c[2 * g + 1] = IF Saves(Here, 2 * g + 1) THEN sp ELSE cap[2 * g + 1]
  BY <1>3 DEF Saves
<1>5. cap[2 * g] \in -1 .. End /\ cap[2 * g + 1] \in -1 .. End
  BY <1>3
<1>6. /\ Inside(Prog, pc, g) => start <= cap[2 * g] /\ cap[2 * g] <= sp
      /\ ~Inside(Prog, pc, g) /\ cap[2 * g] >= 0 /\ cap[2 * g + 1] >= 0 =>
            start <= cap[2 * g] /\ cap[2 * g] <= cap[2 * g + 1] /\ cap[2 * g + 1] <= sp
  BY DEF GroupsAt
<1>7. ~(Saves(Here, 2 * g) /\ Saves(Here, 2 * g + 1))
  BY <1>3 DEF Saves
<1> QED
  BY <1>2, <1>3, <1>4, <1>5, <1>6, <1>7

LEMMA UnwindPush ==
    ASSUME NEW past, NEW st \in Seq(Frames), NEW c, Unwinds(past, st, c), NEW f \in Frames,
           NEW c2 \in Captures,
           f.fn = "save" => c = [c2 EXCEPT ![f.slot] = f.old],
           f.fn = "split" => c = c2 /\ GroupsAt(f.pc, f.sp, c)
    PROVE  Unwinds(Append(past, c2), Append(st, f), c2)
<1> DEFINE more == Append(past, c2)
           st2 == Append(st, f)
<1>1. /\ past \in Seq(Captures) /\ Len(past) = Len(st) + 1 /\ past[Len(st) + 1] = c /\ Len(st) \in Nat
  BY ElementType DEF Unwinds
<1>2. /\ more \in Seq(Captures) /\ Len(more) = Len(past) + 1 /\ more[Len(past) + 1] = c2
      /\ \A i \in 1 .. Len(past) : more[i] = past[i]
  BY <1>1, StackPush
<1>3. /\ Len(st2) = Len(st) + 1 /\ st2[Len(st) + 1] = f /\ \A i \in 1 .. Len(st) : st2[i] = st[i]
  BY StackPush
<1> HIDE DEF more, st2
<1>4. ASSUME NEW i \in 1 .. Len(st2)
      PROVE  /\ st2[i].fn = "save" => more[i] = [more[i + 1] EXCEPT ![st2[i].slot] = st2[i].old]
             /\ st2[i].fn = "split" => more[i] = more[i + 1] /\ GroupsAt(st2[i].pc, st2[i].sp, more[i])
  <2>1. CASE i = Len(st) + 1
    <3>1. more[i] = c /\ more[i + 1] = c2 /\ st2[i] = f
      BY <1>1, <1>2, <1>3, <2>1
    <3> QED
      BY <3>1
  <2>2. CASE i # Len(st) + 1
    <3>1. i \in 1 .. Len(st) /\ i \in 1 .. Len(past) /\ i + 1 \in 1 .. Len(past)
      BY <1>1, <1>3, <2>2
    <3>2. more[i] = past[i] /\ more[i + 1] = past[i + 1] /\ st2[i] = st[i]
      BY <1>2, <1>3, <3>1
    <3> QED
      BY <3>1, <3>2 DEF Unwinds
  <2> QED
    BY <2>1, <2>2
<1>5. Unwinds(more, st2, c2)
  BY <1>1, <1>2, <1>3, <1>4 DEF Unwinds
<1> QED
  BY <1>5 DEF more, st2

LEMMA UnwindPop ==
    ASSUME NEW past, NEW st \in Seq(Frames), st # <<>>, NEW c, Unwinds(past, st, c)
    PROVE  Unwinds(SubSeq(past, 1, Len(st)), SubSeq(st, 1, Len(st) - 1), past[Len(st)])
<1> DEFINE less == SubSeq(past, 1, Len(past) - 1)
           st2 == SubSeq(st, 1, Len(st) - 1)
<1>1. /\ past \in Seq(Captures) /\ Len(past) = Len(st) + 1 /\ Len(st) \in Nat /\ Len(st) >= 1
  BY StackTop DEF Unwinds
<1>2. past # <<>>
  BY <1>1
<1>3. /\ less \in Seq(Captures) /\ Len(less) = Len(past) - 1
      /\ \A i \in 1 .. Len(past) - 1 : less[i] = past[i]
  BY <1>1, <1>2, StackPop
<1>4. Len(st2) = Len(st) - 1 /\ \A i \in 1 .. Len(st) - 1 : st2[i] = st[i]
  BY StackPop
<1>5. SubSeq(past, 1, Len(st)) = less
  BY <1>1
<1> HIDE DEF less, st2
<1>6. ASSUME NEW i \in 1 .. Len(st2)
      PROVE  /\ st2[i].fn = "save" => less[i] = [less[i + 1] EXCEPT ![st2[i].slot] = st2[i].old]
             /\ st2[i].fn = "split" => less[i] = less[i + 1] /\ GroupsAt(st2[i].pc, st2[i].sp, less[i])
  <2>1. i \in 1 .. Len(st) /\ i \in 1 .. Len(past) - 1 /\ i + 1 \in 1 .. Len(past) - 1 /\ i \in 1 .. Len(st) - 1
    BY <1>1, <1>4
  <2>2. less[i] = past[i] /\ less[i + 1] = past[i + 1] /\ st2[i] = st[i]
    BY <1>3, <1>4, <2>1
  <2> QED
    BY <2>1, <2>2 DEF Unwinds
<1>7. Len(less) = Len(st2) + 1 /\ less[Len(st2) + 1] = past[Len(st)]
  <2>1. Len(st2) + 1 = Len(st) /\ Len(st) \in 1 .. Len(past) - 1
    BY <1>1, <1>4
  <2> QED
    BY <1>1, <1>3, <2>1
<1>8. Unwinds(less, st2, past[Len(st)])
  BY <1>3, <1>6, <1>7 DEF Unwinds
<1> QED
  BY <1>5, <1>8 DEF st2

LEMMA GroupsPrime ==
    ASSUME UNCHANGED <<job, start>>
    PROVE  /\ \A p, o, c : GroupsAt(p, o, c)' <=> GroupsAt(p, o, c)
           /\ \A past, st, c : Unwinds(past, st, c)' <=> Unwinds(past, st, c)
           /\ \A c : GroupsIn(c)' <=> GroupsIn(c)
<1>1. \A p, o, c : GroupsAt(p, o, c)' <=> GroupsAt(p, o, c)
  BY DEF GroupsAt, Prog, NGroup
<1>2. Captures' = Captures
  BY DEF Captures, Slots, End, Text, NGroup
<1> QED
  BY <1>1, <1>2 DEF Unwinds, GroupsIn, NGroup

\* A step of the machine that keeps the frames and the captures.
LEMMA GroupsKeepStack ==
    ASSUME GroupsInv, run = "vm", run' \in {"vm", "back", "matched"},
           UNCHANGED <<job, start, found, stack, cap>>,
           run' = "vm" => GroupsAt(pc', sp', cap),
           run' = "matched" => GroupsIn(cap)
    PROVE  GroupsInv'
<1>1. PICK past : Unwinds(past, stack, cap)
  BY DEF GroupsInv
<1>2. Unwinds(past, stack', cap')
  BY <1>1
<1>3. run' = "vm" => GroupsAt(pc, sp, cap)'
  BY GroupsPrime
<1>4. run' = "matched" => GroupsIn(cap)'
  BY GroupsPrime
<1>5. GroupsInMatch'
  BY DEF GroupsInv, GroupsInMatch, NGroup
<1>6. \E p : Unwinds(p, stack, cap)'
  BY <1>2, GroupsPrime
<1> QED
  BY <1>3, <1>4, <1>5, <1>6 DEF GroupsInv

LEMMA GroupsReturn ==
    ASSUME Attempts, GroupsInv, run = "vm", UNCHANGED search, NEW result \in BOOLEAN, Return(result),
           result => Here.op = "match"
    PROVE  GroupsInv'
<1>1. /\ run' \in {"back", "matched"} /\ (run' = "matched" => Here.op = "match")
      /\ UNCHANGED <<job, start, found, stack, cap>>
  BY DEF Return, search
<1>2. ASSUME run' = "matched" PROVE GroupsIn(cap)
  <2>1. pc = Len(Prog) /\ cap[0] = start /\ cap[1] = sp
    BY <1>1, <1>2, AtHere DEF Attempts, AttemptOK
  <2>2. \A g \in 1 .. NGroup : ~Inside(Prog, pc, g)
    BY <2>1, Brackets DEF Attempts
  <2> QED
    BY <2>1, <2>2 DEF GroupsInv, GroupsAt, GroupsIn
<1> QED
  BY <1>1, <1>2, GroupsKeepStack

LEMMA GroupsMove ==
    ASSUME Attempts, GroupsInv, run = "vm", UNCHANGED search, run' = run, UNCHANGED <<cap, stack>>,
           Here.op # "save", pc' \in Nexts(Prog, pc), sp' \in sp .. End
    PROVE  GroupsInv'
<1>1. GroupsAt(pc', sp', cap)
  BY GroupsGoOn DEF GroupsInv
<1> QED
  BY <1>1, GroupsKeepStack DEF search

LEMMA GroupsPush ==
    ASSUME Attempts, GroupsInv, run = "vm", run' = "vm", UNCHANGED <<job, start, found>>,
           NEW f \in Frames, stack' = Append(stack, f), cap' \in Captures,
           f.fn = "save" => cap = [cap' EXCEPT ![f.slot] = f.old],
           f.fn = "split" => cap = cap' /\ GroupsAt(f.pc, f.sp, cap),
           GroupsAt(pc', sp', cap')
    PROVE  GroupsInv'
<1>1. PICK past : Unwinds(past, stack, cap)
  BY DEF GroupsInv
<1>2. stack \in Seq(Frames)
  BY DEF Attempts, TypeOK, Frames
<1>3. Unwinds(Append(past, cap'), Append(stack, f), cap')
  BY <1>1, <1>2, UnwindPush
<1>4. \E p : Unwinds(p, stack, cap)'
  BY <1>3, GroupsPrime
<1>5. GroupsAt(pc, sp, cap)'
  BY GroupsPrime
<1>6. GroupsInMatch'
  BY DEF GroupsInv, GroupsInMatch, NGroup
<1> QED
  BY <1>4, <1>5, <1>6 DEF GroupsInv

LEMMA GroupsStep == Attempts /\ Attempts' /\ GroupsInv /\ Step => GroupsInv'
<1> SUFFICES ASSUME Attempts, Attempts', GroupsInv, Step PROVE GroupsInv'
  OBVIOUS
<1>t. /\ cap \in Captures /\ sp \in 0 .. End /\ End \in Nat /\ sp \in sp .. End
      /\ NGroup \in Nat
  BY JobTypes DEF Attempts, TypeOK, Captures
<1>r. run = "vm"
  BY DEF Step, Consume, Test, Goto, Fork, Record, Accepted, OutOfSteps, InBudget
<1>1. CASE Consume
  <2>1. Here.op = "set" /\ UNCHANGED search
    BY <1>1 DEF Consume
  <2>2. CASE sp < End /\ Char(sp) \in Here.accepts
    <3>1. pc' = pc + 1 /\ sp' = sp + 1 /\ UNCHANGED <<run, cap, stack>>
      BY <1>1, <2>2 DEF Consume
    <3>2. pc' \in Nexts(Prog, pc) /\ sp' \in sp .. End
      BY <1>t, <2>1, <2>2, <3>1 DEF Nexts, Here
    <3> QED
      BY <1>r, <2>1, <3>1, <3>2, GroupsMove
  <2>3. CASE ~(sp < End /\ Char(sp) \in Here.accepts)
    BY <1>1, <1>r, <2>1, <2>3, GroupsReturn DEF Consume
  <2> QED
    BY <2>2, <2>3
<1>2. CASE Test
  <2>1. Here.op \in {"bol", "eol", "wb", "nwb"} /\ UNCHANGED search
    BY <1>2 DEF Test
  <2>2. CASE Holds
    <3>1. pc' = pc + 1 /\ UNCHANGED <<run, sp, cap, stack>>
      BY <1>2, <2>2 DEF Test
    <3>2. pc' \in Nexts(Prog, pc)
      BY <2>1, <3>1 DEF Nexts, Here
    <3> QED
      BY <1>r, <1>t, <2>1, <3>1, <3>2, GroupsMove
  <2>3. CASE ~Holds
    BY <1>2, <1>r, <2>1, <2>3, GroupsReturn DEF Test
  <2> QED
    BY <2>2, <2>3
<1>3. CASE Goto
  <2>1. /\ Here.op = "jmp" /\ UNCHANGED search /\ pc' = Here.x /\ UNCHANGED <<run, sp, cap, stack>>
    BY <1>3 DEF Goto
  <2>2. pc' \in Nexts(Prog, pc)
    BY <2>1 DEF Nexts, Here
  <2> QED
    BY <1>r, <1>t, <2>1, <2>2, GroupsMove
<1>4. CASE Fork
  <2> DEFINE f == Alternative(Here.y, sp)
  <2>1. /\ Here.op = "split" /\ UNCHANGED <<job, start, found>> /\ pc' = Here.x /\ UNCHANGED <<run, sp, cap>>
        /\ stack' = Append(stack, f)
    BY <1>4 DEF Fork, search
  <2>2. Here.x \in Nexts(Prog, pc) /\ Here.y \in Nexts(Prog, pc)
    BY <2>1 DEF Nexts, Here
  <2>3. GroupsAt(Here.x, sp, cap) /\ GroupsAt(Here.y, sp, cap)
    BY <1>r, <1>t, <2>1, <2>2, GroupsGoOn DEF GroupsInv
  <2>4. f.fn = "split" /\ f.pc = Here.y /\ f.sp = sp
    BY DEF Alternative
  <2>5. f \in Frames
    <3>1. Here.y \in Nat
      BY <1>r, <2>1, AtHere DEF Attempts
    <3> QED
      BY <1>t, <3>1, JobTypes DEF Alternative, Frames, Attempts
  <2> HIDE DEF f
  <2> QED
    BY <1>r, <1>t, <2>1, <2>3, <2>4, <2>5, GroupsPush
<1>5. CASE Record
  <2> DEFINE slot == Here.x
             f == Undo(slot, cap[slot])
             c == [cap EXCEPT ![slot] = sp]
  <2>1. /\ Here.op = "save" /\ UNCHANGED <<job, start, found>> /\ pc' = pc + 1 /\ UNCHANGED <<run, sp>>
        /\ stack' = Append(stack, f) /\ cap' = c
    BY <1>5 DEF Record, search
  <2>2. slot \in Slots
    BY <1>r, <2>1, AtHere DEF Attempts
  <2>3. c \in Captures /\ cap = [c EXCEPT ![slot] = cap[slot]]
    <3>1. c \in Captures
      BY <1>t, <2>2 DEF Captures
    <3> DEFINE d == [c EXCEPT ![slot] = cap[slot]]
    <3>2. d = [s \in Slots |-> cap[s]]
      BY <1>t, <2>2 DEF Captures
    <3>3. cap = [s \in Slots |-> cap[s]]
      BY <1>t DEF Captures
    <3> QED
      BY <3>1, <3>2, <3>3
  <2>4. GroupsAt(pc + 1, sp, c)
    BY <1>r, <2>1, GroupsSave DEF GroupsInv
  <2>5. f \in Frames /\ f.fn = "save" /\ f.slot = slot /\ f.old = cap[slot]
    BY <1>t, <2>2, JobTypes DEF Undo, Frames, Captures, Attempts
  <2> HIDE DEF f, c, slot
  <2> QED
    BY <1>r, <2>1, <2>3, <2>4, <2>5, GroupsPush
<1>6. CASE Accepted
  <2>1. PICK result \in BOOLEAN : Return(result) /\ Here.op = "match" /\ UNCHANGED search
    BY <1>6, Zenon DEF Accepted
  <2> QED
    BY <1>r, <2>1, GroupsReturn
<1>7. CASE OutOfSteps
  <2>1. UNCHANGED search /\ Return(FALSE)
    BY <1>7 DEF OutOfSteps
  <2> QED
    BY <1>r, <2>1, GroupsReturn
<1> QED
  BY <1>1, <1>2, <1>3, <1>4, <1>5, <1>6, <1>7 DEF Step

LEMMA GroupsBack == Attempts /\ GroupsInv /\ Backtrack => GroupsInv'
<1> SUFFICES ASSUME Attempts, GroupsInv, Backtrack PROVE GroupsInv'
  OBVIOUS
<1> DEFINE top == stack[Len(stack)]
<1>1. /\ run = "back" /\ stack # <<>> /\ stack' = SubSeq(stack, 1, Len(stack) - 1)
      /\ UNCHANGED <<job, start, found>>
      /\ IF top.fn = "split"
         THEN run' = "vm" /\ pc' = top.pc /\ sp' = top.sp /\ cap' = cap
         ELSE cap' = [cap EXCEPT ![top.slot] = top.old] /\ UNCHANGED <<run, pc, sp>>
  BY DEF Backtrack, search
<1>2. /\ stack \in Seq(Frames) /\ Len(stack) \in Nat /\ Len(stack) \in 1 .. Len(stack)
      /\ top.fn \in {"split", "save"}
  <2>1. stack \in Seq(Frames)
    BY DEF Attempts, TypeOK, Frames
  <2>2. Len(stack) \in Nat /\ Len(stack) >= 1 /\ top \in Frames
    BY <1>1, <2>1, StackTop
  <2> QED
    BY <2>1, <2>2 DEF Frames
<1>3. PICK past : Unwinds(past, stack, cap)
  BY <1>1 DEF GroupsInv
<1>4. /\ past[Len(stack) + 1] = cap
      /\ top.fn = "save" => past[Len(stack)] = [cap EXCEPT ![top.slot] = top.old]
      /\ top.fn = "split" => past[Len(stack)] = cap /\ GroupsAt(top.pc, top.sp, cap)
  BY <1>2, <1>3 DEF Unwinds
<1>5. cap' = past[Len(stack)]
  BY <1>1, <1>2, <1>4
<1>6. Unwinds(SubSeq(past, 1, Len(stack)), stack', cap')
  BY <1>1, <1>2, <1>3, <1>5, UnwindPop
<1>7. \E p : Unwinds(p, stack, cap)'
  BY <1>1, <1>6, GroupsPrime
<1>8. run' = "vm" => GroupsAt(pc, sp, cap)'
  BY <1>1, <1>2, <1>4, GroupsPrime
<1>9. GroupsInMatch'
  BY <1>1 DEF GroupsInv, GroupsInMatch, NGroup
<1> QED
  BY <1>1, <1>7, <1>8, <1>9 DEF GroupsInv

LEMMA GroupsAttempt == IInv /\ GroupsInv /\ Attempt => GroupsInv'
<1> SUFFICES ASSUME IInv, GroupsInv, Attempt PROVE GroupsInv'
  OBVIOUS
<1> DEFINE none == [slot \in Slots |-> -1]
<1>1. /\ run' = "vm" /\ pc' = 1 /\ sp' = start /\ cap' = none
      /\ stack' = <<>> /\ UNCHANGED <<job, start, found>> /\ run = "seek"
  BY DEF Attempt, search
<1>2. none \in Captures /\ NGroup \in Nat
  BY JobTypes DEF Captures, IInv
<1>3. Unwinds(<<none>>, <<>>, none)
  BY <1>2 DEF Unwinds
<1>4. GroupsAt(1, start, none)
  <2>1. ASSUME NEW g \in 1 .. NGroup PROVE ~Inside(Prog, 1, g) /\ none[2 * g] = -1
    <3>1. Bracketed(Prog, NGroup)
      BY <1>1 DEF IInv, TypeOK, JobOK, Prog, NGroup
    <3> QED
      BY <3>1, GroupSlots DEF Bracketed, IInv
  <2> HIDE DEF none
  <2> QED
    BY <2>1 DEF GroupsAt
<1> HIDE DEF none
<1>5. (\E p : Unwinds(p, stack, cap)') /\ GroupsAt(pc, sp, cap)'
  BY <1>1, <1>3, <1>4, GroupsPrime
<1>6. GroupsInMatch'
  BY <1>1 DEF GroupsInv, GroupsInMatch, NGroup
<1> QED
  BY <1>1, <1>5, <1>6 DEF GroupsInv

LEMMA GroupsFound == IInv /\ GroupsInv /\ Found => GroupsInv'
<1> SUFFICES ASSUME IInv, GroupsInv, Found PROVE GroupsInv'
  OBVIOUS
<1>1. run = "matched" /\ run' = "seek" /\ found' = Append(found, cap) /\ job' = job
  BY DEF Found
<1>2. GroupsIn(cap)
  BY <1>1 DEF GroupsInv
<1>3. found \in Seq(Captures) /\ cap \in Captures
  BY DEF IInv, TypeOK, Captures
<1>4. /\ Len(found') = Len(found) + 1 /\ found'[Len(found) + 1] = cap
      /\ \A i \in 1 .. Len(found) : found'[i] = found[i]
      /\ DOMAIN found = 1 .. Len(found) /\ DOMAIN found' = 1 .. Len(found) + 1 /\ Len(found) \in Nat
  BY <1>1, <1>3, StackPush, ElementType
<1>5. ASSUME NEW i \in DOMAIN found' PROVE GroupsIn(found'[i])
  <2>1. CASE i = Len(found) + 1
    BY <1>2, <1>4, <2>1
  <2>2. CASE i # Len(found) + 1
    <3>1. i \in DOMAIN found /\ found'[i] = found[i]
      BY <1>4, <2>2
    <3> QED
      BY <3>1 DEF GroupsInv, GroupsInMatch, GroupsIn
  <2> QED
    BY <2>1, <2>2
<1>6. GroupsInMatch'
  BY <1>1, <1>5 DEF GroupsInMatch, GroupsIn, NGroup
<1> QED
  BY <1>1, <1>6 DEF GroupsInv

LEMMA GroupsNext == IInv /\ IInv' /\ GroupsInv /\ [Next]_vars => GroupsInv'
<1> SUFFICES ASSUME IInv, IInv', GroupsInv, [Next]_vars PROVE GroupsInv'
  OBVIOUS
<1>1. CASE Attempt
  BY <1>1, GroupsAttempt
<1>2. CASE Step
  BY <1>2, GroupsStep DEF IInv, Attempts
<1>3. CASE Backtrack
  BY <1>3, GroupsBack DEF IInv, Attempts
<1>4. CASE Found
  BY <1>4, GroupsFound
<1>5. CASE NoMatch \/ NextStart \/ CannotMix
  <2>1. run' \in {"over", "seek", "mixed"} /\ found' = found /\ job' = job
    BY <1>5 DEF NoMatch, NextStart, CannotMix, search
  <2> QED
    BY <2>1 DEF GroupsInv, GroupsInMatch, NGroup
<1>6. CASE UNCHANGED vars
  <2>1. UNCHANGED <<job, start, run, pc, sp, cap, stack, found>>
    BY <1>6 DEF vars
  <2> QED
    BY <2>1, GroupsPrime DEF GroupsInv, GroupsInMatch, NGroup
<1> QED
  BY <1>1, <1>2, <1>3, <1>4, <1>5, <1>6, Zenon DEF Next, Done

\* In every match that regexall() and replace() report, a group that took part
\* lies in the match and ends no earlier than it begins, for every program whose
\* groups are bracketed, every text and every budget: backtracking out of a group
\* or repeating it leaves no mixture of two attempts in the captures.
THEOREM MatchesHoldTheirGroups == Spec => []GroupsInMatch
<1>1. Init => GroupsInv
  BY DEF Init, GroupsInv, GroupsInMatch
<1>2. GroupsInv => GroupsInMatch
  BY DEF GroupsInv
<1> QED
  BY <1>1, <1>2, GroupsNext, Invariance, PTL DEF Spec
=============================================================================
