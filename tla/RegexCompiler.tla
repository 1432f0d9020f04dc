---------------------------- MODULE RegexCompiler ----------------------------
(***************************************************************************)
(* The regular-expression compiler (hre_compile): a recursive descent that *)
(* emits the program while it reads the pattern.  A quantifier or an       *)
(* alternative found behind an operand moves or copies the operand's       *)
(* instructions, whose targets are absolute and must follow.               *)
(*                                                                         *)
(* A pattern is a sequence of tokens: the text of a class, an escape or the*)
(* head of a group is one token.  Running out of memory is left out.       *)
(***************************************************************************)
EXTENDS Integers, SequencesExt, RegexProgram

Token(t) == [t |-> t, accepts |-> {}, lo |-> 0, hi |-> 0]
Chars(set) == [Token("set") EXCEPT !.accepts = set]
Brace(lo, hi) == [Token("brace") EXCEPT !.lo = lo, !.hi = hi]
Quantifiers == {"star", "plus", "quest", "brace"}

NameSlots == 64     \* names[64] of struct hregex

\* Tokens of a pattern: set (a character, '.', a class or an escape), bol, eol, wb and
\* nwb; open, open_nc and open_named, the heads of a group; bar, star, plus, quest;
\* brace, {lo,hi} with hi = -1 when it is missing; bad, what is not well-formed.
\* pstate: p, the program so far, and of each group whether it has a name.
Start == [p |-> 1, prog |-> <<Save(0)>>, named |-> <<>>, ok |-> TRUE]
Emit(st, in) == [st EXCEPT !.prog = Append(@, in)]
Skip(st) == [st EXCEPT !.p = @ + 1]
Fail(st) == [st EXCEPT !.ok = FALSE]
More(pat, st) == st.p <= Len(pat)
At(pat, st) == IF More(pat, st) THEN pat[st.p].t ELSE "end"

\* Mutant: a target on the first moved instruction stays behind.
FollowBehind(in, base, d) ==
    LET moved(target) == IF target > base THEN target + d ELSE target
    IN  [in EXCEPT !.x = IF in.op \in {"jmp", "split"} THEN moved(@) ELSE @,
                   !.y = IF in.op = "split" THEN moved(@) ELSE @]

\* An instruction moved by d, with the targets from base on.
Follow(in, base, d) ==
    LET moved(target) == IF target >= base THEN target + d ELSE target
    IN  [in EXCEPT !.x = IF in.op \in {"jmp", "split"} THEN moved(@) ELSE @,
                   !.y = IF in.op = "split" THEN moved(@) ELSE @]
Moved(body, base, d) == [i \in DOMAIN body |-> Follow(body[i], base, d)]

Before(prog, a) == SubSeq(prog, 1, a - 1)
From(prog, a) == SubSeq(prog, a, Len(prog))

\* The two branches of a quantifier's split: in and out, or out and in.
Choice(lazy, in, out) == IF lazy THEN Split(out, in) ELSE Split(in, out)

\* apply_quant on the instructions from a on.
Star(prog, a, lazy) ==
    LET body == From(prog, a)
    IN  Before(prog, a) \o <<Choice(lazy, a + 1, a + Len(body) + 2)>>
            \o Moved(body, a, 1) \o <<Jump(a)>>
Plus(prog, a, lazy) == Append(prog, Choice(lazy, a, Len(prog) + 2))
Quest(prog, a, lazy) ==
    LET body == From(prog, a)
    IN  Before(prog, a) \o <<Choice(lazy, a + 1, a + Len(body) + 1)>> \o Moved(body, a, 1)

\* Copy number r + 1 of a body that was emitted at a.  The targets of the
\* third and every later copy are compared with the place of the copy before,
\* not with that of the body they are in.
Copy(body, a, r) ==
    IF r = 0 THEN body ELSE Moved(body, a + (r - 1) * Len(body), Len(body))
Copies(body, a, n) == FlattenSeq([r \in 1 .. n |-> Copy(body, a, r - 1)])

\* One optional copy more; only the first is moved to where it stands.
OptionalCopy(prog, body, a, first, lazy) ==
    LET cs == Len(prog) + 1
        b2 == IF first THEN a ELSE cs
    IN  Quest(prog \o Moved(body, b2, cs - b2), cs, lazy)
OptionalCopies(prog, body, a, n, lazy) ==
    FoldLeft(LAMBDA made, r : OptionalCopy(made, body, a, r = 1, lazy),
             prog, [r \in 1 .. n |-> r])

\* {lo}, {lo,} and {lo,hi}: the body is emitted again and again.
Repeated(prog, a, brace, lazy) ==
    LET body == From(prog, a)
        base == IF brace.lo = 0 THEN a ELSE a + (brace.lo - 1) * Len(body)
        cs == a + brace.lo * Len(body)
        copies == Before(prog, a) \o Copies(body, a, brace.lo)
    IN  IF brace.hi < 0 THEN Star(copies \o Moved(body, base, cs - base), cs, lazy)
        ELSE OptionalCopies(copies, body, a, brace.hi - brace.lo, lazy)

Quantified(prog, a, q, lazy) ==
    CASE q.t = "star"  -> Star(prog, a, lazy)
      [] q.t = "plus"  -> Plus(prog, a, lazy)
      [] q.t = "quest" -> Quest(prog, a, lazy)
      [] q.t = "brace" -> Repeated(prog, a, q, lazy)

\* parse_repeat's loop over the quantifiers behind an atom.
RECURSIVE QuantifiersFrom(_, _, _)
QuantifiersFrom(pat, st, a) ==
    IF At(pat, st) \notin Quantifiers THEN st
    ELSE LET q == pat[st.p]
             lazy == At(pat, Skip(st)) = "quest"
             next == IF lazy THEN Skip(Skip(st)) ELSE Skip(st)
         IN  QuantifiersFrom(pat, [next EXCEPT !.prog = Quantified(@, a, q, lazy)], a)

RECURSIVE ParseAlt(_, _), ParseConcat(_, _)

\* parse_atom behind what a group's head stands for: what is in it, and its end.
GroupEnd(pat, st) == IF At(pat, st) = "close" THEN Skip(st) ELSE Fail(st)
Capturing(pat, st, named) ==
    LET g == Len(st.named) + 1
        opened == Emit([Skip(st) EXCEPT !.named = Append(@, named /\ g < NameSlots)], Save(2 * g))
    IN  GroupEnd(pat, Emit(ParseAlt(pat, opened), Save(2 * g + 1)))

\* parse_atom on the head of a group.
ParseGroup(pat, st) ==
    CASE At(pat, st) = "open" -> Capturing(pat, st, FALSE)
      [] At(pat, st) = "open_named" -> Capturing(pat, st, TRUE)
      [] At(pat, st) = "open_nc" -> GroupEnd(pat, ParseAlt(pat, Skip(st)))

\* parse_atom: a quantifier that follows no atom is a character.
ParseAtom(pat, st) ==
    LET t == At(pat, st)
    IN  CASE t \in {"open", "open_nc", "open_named"} -> ParseGroup(pat, st)
          [] t \in {"bol", "eol", "wb", "nwb"} -> Emit(Skip(st), Inst(t))
          [] t = "set" -> Emit(Skip(st), Accept(pat[st.p].accepts))
          [] t = "bad" -> Fail(st)
          [] t \in Quantifiers -> Emit(Skip(st), Accept({t}))

ParseRepeat(pat, st) ==
    LET quantified(atom) ==
            IF atom.ok THEN QuantifiersFrom(pat, atom, Len(st.prog) + 1) ELSE atom
    IN  quantified(ParseAtom(pat, st))

\* parse_concat stops where an operand emitted nothing.
ParseConcat(pat, st) ==
    LET goOn(item) ==
            IF ~item.ok \/ Len(item.prog) = Len(st.prog) THEN item ELSE ParseConcat(pat, item)
    IN  IF ~More(pat, st) \/ At(pat, st) \in {"bar", "close"} THEN st
        ELSE goOn(ParseRepeat(pat, st))

\* The left side from a on moves behind a split; the jump at its end, which
\* skips the right side, gets its target when that is known.
Forked(prog, a) ==
    LET body == From(prog, a)
    IN  Before(prog, a) \o <<Split(a + 1, a + Len(body) + 2)>> \o Moved(body, a, 1) \o <<Jump(0)>>
ParseRight(pat, left, a) ==
    LET forked == Forked(left.prog, a)
        joined(right) == [right EXCEPT !.prog[Len(forked)] = Jump(Len(right.prog) + 1)]
    IN  joined(ParseAlt(pat, [Skip(left) EXCEPT !.prog = forked]))

\* parse_alt
ParseAlt(pat, st) ==
    LET goOn(left) ==
            IF ~left.ok \/ At(pat, left) # "bar" THEN left
            ELSE ParseRight(pat, left, Len(st.prog) + 1)
    IN  goOn(ParseConcat(pat, st))

\* The program and what hre_compile says of it, if it accepts the pattern.
Compiled(st, accepted) ==
    [prog |-> st.prog \o <<Save(1), Inst("match")>>, ngroup |-> Len(st.named),
     ok |-> accepted, mixed |-> Cardinality(ToSet(st.named)) = 2]

\* Mutant: what follows the pattern is not looked at.
CompilePrefix(pat) ==
    LET finished(st) == Compiled(st, st.ok)
    IN  finished(ParseAlt(pat, Start))

\* hre_compile: the pattern must be read to its end.
Compile(pat) ==
    LET finished(st) == Compiled(st, st.ok /\ st.p = Len(pat) + 1)
    IN  finished(ParseAlt(pat, Start))
=============================================================================
