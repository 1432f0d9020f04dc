------------------------------ MODULE MCLexer ------------------------------
(* Small instances of Lexer: all short texts over the characters that one   *)
(* scanner looks at, and heredocs put together from lines.                  *)
EXTENDS LexerMeaning
LOCAL INSTANCE SequencesExt

Over(chars, n) == UNION {[1 .. k -> chars] : k \in 0 .. n}

Strings == {<<"\"">> \o w : w \in Over({"\"", "$", "{", "}", "\\", "a"}, 5)}
               \cup {<<"\"", "$", "{">> \o w : w \in Over({"\"", "$", "{", "}", "\\"}, 5)}
Comments == Over({"/", "*", "#", Newline, "="}, 5)
Numbers == Over({"1", ".", "e", "-", "a"}, 4)
Operators == Over({"=", "<", ">", "!", "&", "~"}, 3)

Heads == {<<"<", "<">> \o w : w \in {<<"e", Newline>>, <<"-", "e", Newline>>, <<"e", " ", Newline>>,
                                    <<"-", Newline>>, <<"-", "e", "a", Newline>>, <<"e", "a", "b", Newline>>,
                                    <<"e", "=", Newline>>}}
Lines == {<<>>, <<"e">>, <<" ", "e", " ">>, <<" ", " ", "a">>, <<" ", "\t", " ", "e", "a">>, <<"a">>, <<" ">>}

Heredocs == {h \o FlattenSeq([i \in DOMAIN ls |-> Append(ls[i], Newline)]) \o end :
                h \in Heads, ls \in Over(Lines, 2), end \in {<<>>, <<"e">>, <<" ", "e", "a">>}}

SmallTexts == Strings \cup Comments \cup Numbers \cup Operators \cup Heredocs

------------------------------------------------------------------------------
(* Properties *)

TokenOf(k) == <<tokens[k].kind, tokens[k].from, tokens[k].to, tokens[k].content>>

\* A text is cut into the lexemes of the grammar, the longest at every place,
\* with nothing but spaces and whole comments between them; the first place
\* where the grammar has no lexeme is the first invalid token, and the first
\* message is about it.
LexesGrammar ==
    pc = "end" /\ failures = 0 =>
        LET expected == TokensFrom(text, 1)
            n == Len(expected)
            complete == n > 0 /\ expected[n][1] = "eof"
        IN  /\ n <= Len(tokens) /\ \A k \in 1 .. n : TokenOf(k) = expected[k]
            /\ complete => err = 0
            /\ ~complete /\ ~Has(text, GapEnd(text, IF n = 0 THEN 1 ELSE expected[n][3]), <<"/", "*">>) =>
                   tokens[n + 1].kind = "error" /\ err = tokens[n + 1].from

\* The lexer and the renderer read the same markers in the same string: where
\* the lexer stopped counting braces, the renderer finds the closing brace.
ScannersAgree ==
    \A k \in DOMAIN tokens :
        LET tk == tokens[k]
            found == [i \in DOMAIN tk.marks |-> <<tk.marks[i][1] - tk.from, tk.marks[i][2] - tk.from>>]
        IN  tk.kind = "string" /\ Plain(tk.content, found) => MarkersFrom(tk.content, 1) = found

\* A caller that goes on calling comes to the end of the text.
Terminating == <>(pc = "end")
==============================================================================
