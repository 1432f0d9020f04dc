------------------------------ MODULE MCRegex ------------------------------
(* Small instances of RegexMachine: patterns compiled by RegexCompiler.     *)
EXTENDS RegexMachine, RegexCompiler, RegexMeaning, TLC

CONSTANT Patterns

A == Chars({"a"})
B == Chars({"b"})
Dot == Chars({"a", "b", "-"})
Open == Token("open")
Group == Token("open_nc")
Named == Token("open_named")
Close == Token("close")
Bar == Token("bar")
Maybe == Token("quest")
Many == Token("star")
Some1 == Token("plus")

\* All concatenations of a sequence in s and one in t.
Cross(s, t) == {u \o v : u \in s, v \in t}

\* Every short sequence of tokens, well-formed or not.
Tokens == {<<A>>, <<B>>, <<Open>>, <<Group>>, <<Close>>, <<Bar>>, <<Many>>, <<Maybe>>,
             <<Token("bad")>>}
Fewer == {<<A>>, <<Open>>, <<Group>>, <<Close>>, <<Bar>>, <<Many>>}
Pairs == Cross(Tokens, Tokens)
Short == {<<>>} \cup Tokens \cup Pairs \cup Cross(Pairs, Tokens)
            \cup Cross(Cross(Fewer, Fewer), Cross(Fewer, Fewer))

\* Quantified groups: a body, a quantifier, and what follows.
Bodies == {<<A>>, <<A, B>>, <<A, Bar, B>>, <<A, Maybe, B>>, <<A, B, Bar, A>>,
             <<A, Some1, B>>, <<A, Some1, Maybe>>, <<Bar, A>>, <<A, Bar, A, B, Bar, B>>,
             <<Open, A, Close, B, Bar, B>>}
Counts == {<<Maybe>>, <<Maybe, Maybe>>, <<Many>>, <<Many, Maybe>>, <<Some1>>, <<Some1, Maybe>>,
             <<Brace(2, 2)>>, <<Brace(0, 1)>>, <<Brace(1, 2)>>, <<Brace(1, -1)>>,
             <<Brace(1, -1), Maybe>>, <<Brace(0, 2)>>, <<Brace(3, 3)>>, <<Brace(2, -1)>>,
             <<Maybe, Brace(2, 2)>>, <<Brace(1, 2), Many>>}
Closing == {<<Close>>}
Tails == {<<>>, <<B>>, <<Token("eol")>>}
Repeating == Cross(Cross(Cross({<<Open>>, <<Group>>}, Bodies), Closing), Cross(Counts, Tails))
Repeated3 == Cross(Cross(Cross({<<Open>>}, Bodies), Closing), {<<Brace(3, 3)>>})

\* Assertions, and groups with names.
Others == {<<Token("bol"), A, Dot, Many, Token("wb")>>,
             <<Token("wb"), Dot, Some1, Maybe, Token("eol")>>,
             <<Token("nwb"), B>>, <<Token("nwb")>>, <<A, Bar, Token("bol")>>,
             <<Named, A, Close, Bar, Named, B, Close>>, <<Named, A, Close, Open, B, Close>>,
             <<Dot, Many, Maybe, Open, B, Bar, A, B, Close>>,
             <<Open, A, Bar, A, B, Close, Open, B, A, Bar, A, Close, Maybe>>}

\* Those the compiler gets right and the machine finishes, and a few others.
Behaved(pat) == ~Some(Tree(pat, 0), FarCopy) /\ ~Some(Tree(pat, 0), IdleLoop)
AllPatterns == Short \cup {pat \in Repeating : Behaved(pat)} \cup Repeated3 \cup Others

Texts == {<<>>, <<"a", "b", "a", "a", "b">>, <<"a", "a", "a", "b">>, <<"b", "-", "nl", "a">>}

Job(pat, text) ==
    LET c == Compile(pat)
    IN  [pat |-> pat, text |-> text, prog |-> c.prog, ngroup |-> c.ngroup, ok |-> c.ok,
         mixed |-> c.mixed]
TheJobs == {Job(pat, text) : pat \in Patterns, text \in Texts}

Pattern == job.pat
TreeOf == Tree(Pattern, 0)

\* hre_compile accepts no unbalanced or malformed pattern, and all of the
\* language but those with an operand that has no instructions, at which
\* parse_concat stops.
CompilesLanguage ==
    /\ run = "rejected" => ~InLanguage(Pattern) \/ HasEmptyOperand(TreeOf)
    /\ run = "seek" /\ start = 0 => Balanced(Pattern)

Expected == AllMatches(TreeOf, NGroup, Text, WordChars)

\* The matches are those of the pattern, found leftmost and with the preference
\* of Perl and Go (regex_engine.c:13-19).
FindsMatches == run = "over" /\ InLanguage(Pattern) => found = Expected

\* The same without a repetition that needs a far copy (finding) and without
\* loops over nothing, which use the budget up.
FindsNearMatches ==
    run = "over" /\ InLanguage(Pattern) /\ ~Some(TreeOf, FarCopy) /\ ~Some(TreeOf, IdleLoop)
        => found = Expected
=============================================================================
