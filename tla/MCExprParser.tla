---------------------------- MODULE MCExprParser ----------------------------
(* Small instances of ExprParser: short sentences of every production, and  *)
(* what becomes of them when a token is dropped or replaced.                *)
EXTENDS ExprGrammar

CONSTANTS MaxTokens,    \* length of the sentences
          MaxBroken,    \* length of the sentences that are also damaged
          Operators     \* the binary operators used

\* shorter[n] holds the sentences of n tokens; one length more.
Longer(shorter) ==
    LET n == Len(shorter) + 1
        E(k) == IF k \in 1 .. n - 1 THEN shorter[k] ELSE {}
        around(a, k, z) == {a \o x \o z : x \in E(k)}
        pairs(k, mid, a, z) ==      \* a x mid y z
            UNION {{a \o x \o <<mid>> \o y \o z : x \in E(i), y \in E(k - 1 - i)} : i \in 1 .. k - 2}
    IN  Append(shorter, UNION {
            around(<<"-">>, n - 1, <<>>),
            UNION {pairs(n, op, <<>>, <<>>) : op \in Operators},
            around(<<"(">>, n - 2, <<")">>),
            UNION {{x \o <<"?">> \o r : x \in E(i), r \in pairs(n - 1 - i, ":", <<>>, <<>>)} :
                      i \in 1 .. n},
            around(<<>>, n - 2, <<".", "id">>), around(<<>>, n - 2, <<".", "*">>),
            around(<<>>, n - 3, <<"[", "*", "]">>),
            UNION {{x \o <<"[">> \o y \o <<"]">> : x \in E(i), y \in E(n - 2 - i)} : i \in 1 .. n},
            around(<<"id", "(">>, n - 3, <<")">>), around(<<"id", "(">>, n - 4, <<"...", ")">>),
            around(<<"[">>, n - 2, <<"]">>), around(<<"[">>, n - 3, <<",", "]">>),
            pairs(n - 2, ",", <<"[">>, <<"]">>),
            around(<<"{", "id", "=">>, n - 4, <<"}">>)})

RECURSIVE UpTo(_)
UpTo(n) == IF n = 1 THEN << {<<"id">>} >> ELSE Longer(UpTo(n - 1))

\* Constructs too long for the above, and tokens it does not use.
Special == {
    <<"num">>, <<"str">>, <<"!", "!", "id">>, <<"id", "(", ")">>, <<"[", "]">>, <<"{", "}">>,
    <<"[", "in", "]">>, <<"in", "(", "for", ")">>, <<"id", ".", "if">>,
    <<"{", "str", ":", "num", ",", "id", "=", "id", "}">>,
    <<"{", "id", "=", "id", "if", "=", "id", ",", "}">>,
    <<"{", "id", "=", "id", "?", "id", ":", "id", "id", ":", "num", "}">>,
    <<"id", "(", "id", ",", "id", "...", ")">>, <<"id", "(", "id", ",", ")">>,
    <<"[", "for", "id", "in", "id", ":", "id", "]">>,
    <<"[", "for", "in", "in", "in", ":", "in", "if", "if", "]">>,
    <<"[", "for", "id", ",", "id", "in", "id", "?", "id", ":", "id", ":", "id", "if", "id", "]">>,
    <<"{", "for", "id", "in", "id", ":", "id", "=>", "id", "}">>,
    <<"{", "for", "id", ",", "id", "in", "id", ":", "id", "=>", "id", "...", "if", "id", "}">>,
    <<"id", "[", "*", "]", ".", "id", "[", "num", "]", ".", "*", ".", "id">>,
    <<"id", ".", "*", "[", "*", "]", "[", "*", "]">>,
    <<"id", "||", "id", "&&", "id", "==", "id", "+", "id", "*", "-", "id", ".", "id">>,
    <<"id", "*", "id", "+", "id", "==", "id", "&&", "id", "||", "id">>,
    <<"id", "-", "id", "-", "(", "id", "-", "id", ")">>,
    <<"id", "?", "id", ":", "id", "?", "id", ":", "id">>}

Dropped(s) == {SubSeq(s, 1, i - 1) \o SubSeq(s, i + 1, Len(s)) : i \in DOMAIN s}
Replaced(s) == {[s EXCEPT ![i] = t] : i \in DOMAIN s, t \in {"id", "err", ",", "*"}}

Damaged(set) == UNION {Dropped(s) \cup Replaced(s) : s \in set}

SmallSources ==
    LET all == UpTo(MaxTokens)
    IN  UNION ToSet(all) \cup Damaged(UNION ToSet(SubSeq(all, 1, MaxBroken))) \cup Special \cup Damaged(Special)
=============================================================================
