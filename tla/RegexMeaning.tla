---------------------------- MODULE RegexMeaning ----------------------------
(***************************************************************************)
(* What a pattern matches: its tree, read off the balanced groups, and the *)
(* matches of a tree from an offset, in the order a backtracking search    *)
(* prefers them.  No program, no relocation, no machine.                   *)
(***************************************************************************)
EXTENDS Integers, SequencesExt, FiniteSetsExt

LOCAL INSTANCE RegexCompiler

Heads == {"open", "open_nc", "open_named"}

\* How many groups are open before token i.
DepthBefore(pat, i) ==
    Quantify(1 .. i - 1, LAMBDA j : pat[j].t \in Heads)
        - Quantify(1 .. i - 1, LAMBDA j : pat[j].t = "close")

\* Groups are balanced and no group's head or class is malformed.
Balanced(pat) ==
    /\ \A i \in 1 .. Len(pat) + 1 : DepthBefore(pat, i) >= 0
    /\ DepthBefore(pat, Len(pat) + 1) = 0
    /\ \A i \in DOMAIN pat : pat[i].t # "bad"

\* A pattern of the language: and every quantifier has something to repeat.
InLanguage(pat) ==
    /\ Balanced(pat)
    /\ \A i \in DOMAIN pat : pat[i].t \in Quantifiers =>
           i > 1 /\ pat[i - 1].t \notin Heads \cup {"bar"}

CloseOf(pat, i) ==
    Min({j \in i + 1 .. Len(pat) : pat[j].t = "close" /\ DepthBefore(pat, j + 1) = DepthBefore(pat, i)})
TopBars(pat) == {i \in DOMAIN pat : pat[i].t = "bar" /\ DepthBefore(pat, i) = 0}
AtomEnd(pat) == IF pat[1].t \in Heads THEN CloseOf(pat, 1) ELSE 1
GroupsIn(pat) == Quantify(DOMAIN pat, LAMBDA i : pat[i].t \in {"open", "open_named"})

Leaf(token) == [k |-> token.t, accepts |-> token.accepts, lo |-> 0, hi |-> 0,
                lazy |-> FALSE, g |-> 0, l |-> 0, r |-> 0]
Nothing == Leaf(Token("empty"))
Bounds == [star |-> <<0, -1>>, plus |-> <<1, -1>>, quest |-> <<0, 1>>]

\* Tree(pat, n): n groups were opened before pat begins.
RECURSIVE Tree(_, _), Item(_, _, _)
Tree(pat, n) ==
    IF TopBars(pat) # {}
    THEN LET i == Min(TopBars(pat))
             left == SubSeq(pat, 1, i - 1)
         IN  [Nothing EXCEPT !.k = "alt", !.l = Tree(left, n),
                  !.r = Tree(SubSeq(pat, i + 1, Len(pat)), n + GroupsIn(left))]
    ELSE IF pat = <<>> THEN Nothing
    ELSE LET e == AtomEnd(pat)
             behind == {i \in e + 1 .. Len(pat) + 1 :
                            i = Len(pat) + 1 \/ pat[i].t \notin Quantifiers}
             i == Min(behind)
         IN  [Nothing EXCEPT !.k = "cat",
                  !.l = Item(SubSeq(pat, 1, e), SubSeq(pat, e + 1, i - 1), n),
                  !.r = Tree(SubSeq(pat, i, Len(pat)), n + GroupsIn(SubSeq(pat, 1, e)))]

\* An atom with the quantifiers behind it, the last one outermost; a '?'
\* behind a quantifier makes it lazy.
Item(atom, quantifiers, n) ==
    LET q == Len(quantifiers)
        \* whether token j is a quantifier of its own, or makes another lazy
        own[j \in 0 .. q] == j = 0 \/ j = 1 \/ quantifiers[j].t # "quest" \/ ~own[j - 1]
        lazy == ~own[q]
        m == IF lazy THEN q - 1 ELSE q
        last == quantifiers[m]
        bounds == IF last.t = "brace" THEN <<last.lo, last.hi>> ELSE Bounds[last.t]
        inner == SubSeq(atom, 2, Len(atom) - 1)
    IN  IF q > 0
        THEN [Nothing EXCEPT !.k = "rep", !.lo = bounds[1], !.hi = bounds[2], !.lazy = lazy,
                  !.l = Item(atom, SubSeq(quantifiers, 1, m - 1), n)]
        ELSE IF atom[1].t = "open_nc" THEN Tree(inner, n)
        ELSE IF atom[1].t \in Heads
        THEN [Nothing EXCEPT !.k = "group", !.g = n + 1, !.l = Tree(inner, n + 1)]
        ELSE Leaf(atom[1])

RECURSIVE Nullable(_)
Nullable(t) ==
    CASE t.k = "set" -> FALSE
      [] t.k = "cat" -> Nullable(t.l) /\ Nullable(t.r)
      [] t.k = "alt" -> Nullable(t.l) \/ Nullable(t.r)
      [] t.k = "group" -> Nullable(t.l)
      [] t.k = "rep" -> t.lo = 0 \/ Nullable(t.l)
      [] OTHER -> TRUE

RECURSIVE Subtrees(_)
Subtrees(t) ==
    <<t>> \o (IF t.k \in {"cat", "alt", "group", "rep"} THEN Subtrees(t.l) ELSE <<>>)
          \o (IF t.k \in {"cat", "alt"} THEN Subtrees(t.r) ELSE <<>>)

Some(t, Test(_)) == \E i \in DOMAIN Subtrees(t) : Test(Subtrees(t)[i])

\* An operand for which nothing is emitted: an empty group, or no copies.
RECURSIVE NoInstructions(_)
NoInstructions(t) ==
    CASE t.k = "empty" -> TRUE
      [] t.k = "cat" -> NoInstructions(t.l)
      [] t.k = "rep" -> t.hi = 0 \/ (t.hi = t.lo /\ NoInstructions(t.l))
      [] OTHER -> FALSE
HasEmptyOperand(t) == Some(t, LAMBDA u : u.k = "cat" /\ NoInstructions(u.l))

\* Unbounded repetition of what may match nothing.
IdleLoop(t) == t.k = "rep" /\ t.hi < 0 /\ Nullable(t.l)

\* A {n,m} that needs a third copy of, or a second optional copy of, an operand
\* whose instructions have targets.
HasTargets(t) == t.k \in {"alt", "rep"}
FarCopy(t) ==
    /\ t.k = "rep" /\ Some(t.l, HasTargets)
    /\ \/ t.lo > 2
       \/ t.hi < 0 /\ t.lo > 1
       \/ t.hi > t.lo + 1

-----------------------------------------------------------------------------
\* The matches of t at offset i of text, each with its end and its captures.
WordChar(text, i, words) == i \in 0 .. Len(text) - 1 /\ text[i + 1] \in words

Boundary(text, i, words) == WordChar(text, i - 1, words) # WordChar(text, i, words)

RECURSIVE Matches(_, _, _, _, _), Repeats(_, _, _, _, _, _, _)
Matches(t, text, words, i, cap) ==
    LET here(condition) == IF condition THEN << [end |-> i, cap |-> cap] >> ELSE <<>>
    IN  CASE t.k = "empty" -> here(TRUE)
          [] t.k = "set" -> IF i < Len(text) /\ text[i + 1] \in t.accepts
                            THEN << [end |-> i + 1, cap |-> cap] >> ELSE <<>>
          [] t.k = "bol" -> here(i = 0 \/ text[i] = "nl")
          [] t.k = "eol" -> here(i = Len(text) \/ text[i + 1] = "nl")
          [] t.k = "wb" -> here(Boundary(text, i, words))
          [] t.k = "nwb" -> here(~Boundary(text, i, words))
          [] t.k = "alt" -> Matches(t.l, text, words, i, cap) \o Matches(t.r, text, words, i, cap)
          [] t.k = "cat" ->
                 LET left == Matches(t.l, text, words, i, cap)
                 IN  FlattenSeq([j \in DOMAIN left |->
                         Matches(t.r, text, words, left[j].end, left[j].cap)])
          [] t.k = "group" ->
                 LET inner == Matches(t.l, text, words, i, [cap EXCEPT ![2 * t.g] = i])
                 IN  [j \in DOMAIN inner |->
                         [inner[j] EXCEPT !.cap[2 * t.g + 1] = inner[j].end]]
          [] t.k = "rep" -> Repeats(t, t.lo, t.hi, text, words, i, cap)

\* lo more are needed, hi more allowed (-1: any number).
Repeats(t, lo, hi, text, words, i, cap) ==
    LET once == Matches(t.l, text, words, i, cap)
        less(n) == IF n > 0 THEN n - 1 ELSE n
        more == FlattenSeq([j \in DOMAIN once |->
                    IF hi < 0 /\ lo = 0 /\ once[j].end = i THEN <<>>
                    ELSE Repeats(t, less(lo), less(hi), text, words, once[j].end, once[j].cap)])
        stop == << [end |-> i, cap |-> cap] >>
    IN  IF lo > 0 THEN more
        ELSE IF hi = 0 THEN stop
        ELSE IF t.lazy THEN stop \o more ELSE more \o stop

\* Where a match begins at start, it is the preferred one.
MatchAt(tree, ngroup, text, words, start) ==
    LET none == [slot \in 0 .. 2 * ngroup + 1 |-> -1]
        all == Matches(tree, text, words, start, none)
    IN  IF all = <<>> THEN <<>>
        ELSE << [all[1].cap EXCEPT ![0] = start, ![1] = all[1].end] >>

\* The matches of regexall() from an offset on, given those at each offset:
\* the leftmost, then those from its end.
RECURSIVE Leftmost(_, _)
Leftmost(matches, from) ==
    LET starts == {i \in DOMAIN matches : i >= from /\ matches[i] # <<>>}
        first == matches[Min(starts)][1]
        next == IF first[1] > first[0] THEN first[1] ELSE first[1] + 1
    IN  IF starts = {} THEN <<>> ELSE <<first>> \o Leftmost(matches, next)

AllMatches(tree, ngroup, text, words) ==
    Leftmost([i \in 0 .. Len(text) |-> MatchAt(tree, ngroup, text, words, i)], 0)
=============================================================================
