---------------------------- MODULE MCBodyParser ----------------------------
(* Small instances of BodyParser: every short token sequence, broken into   *)
(* lines in every way, and every short sequence of typical lines.           *)
EXTENDS BodyParser, SequencesExt

CONSTANTS MaxTokens, MaxLines, Lexemes

\* Every sequence of at most n tokens, each on the line of the one before it
\* or on the next.
TokenDocs(n) ==
    UNION {{[i \in 1 .. k |-> [kind |-> w[i], line |-> 1 + Cardinality({b \in brk : b <= i})]] :
               w \in [1 .. k -> Lexemes], brk \in SUBSET (2 .. k)} : k \in 0 .. n}

\* Lines as people write them, right and wrong.
Menu == {<<"id", "=", "num">>, <<"id", "{">>, <<"id", "id", "{">>, <<"}">>,
         <<"id", "=", "{">>, <<"id", "=", "err">>, <<"=", "num">>, <<"=", "err">>,
         <<"id", "=", "}", "err">>, <<"id", "id">>}

MenuLines == {ln \in Menu : \A i \in DOMAIN ln : ln[i] \in Lexemes}

\* The lines of ls, one after the other.
Typeset(ls) ==
    FlattenSeq([k \in DOMAIN ls |->
        [i \in DOMAIN ls[k] |-> [kind |-> ls[k][i], line |-> k]]])

LineDocs(n) == {Typeset(ls) : ls \in BoundedSeq(MenuLines, n)}

SmallDocuments == TokenDocs(MaxTokens) \cup LineDocs(MaxLines)
=============================================================================
