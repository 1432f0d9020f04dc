------------------------------- MODULE Lexer -------------------------------
(***************************************************************************)
(* The lexer (lexer.c) over a text of characters, called until the end of  *)
(* the text as the body parser calls it while it recovers from errors.     *)
(* Positions count from 1; a cursor behind the text is Len(text) + 1.      *)
(* The scanners with a state of their own, for quoted strings and for      *)
(* heredocs, take one step per character and per line; the others find the *)
(* end of their lexeme in one step.                                        *)
(***************************************************************************)
EXTENDS Integers, Sequences

CONSTANTS
    Texts,          \* the texts, sequences of characters
    MaxDelimiter,   \* the longest heredoc delimiter (255)
    MaxFailures     \* how many allocations may fail

ASSUME LexerAssumption ==
    /\ \A t \in Texts : t \in Seq(STRING)
    /\ MaxDelimiter \in Nat
    /\ MaxFailures \in Nat

VARIABLES
    text,       \* the text, start .. end
    pc,         \* where the scan stands: between calls, in a gap, in a string, in a heredoc, at the end
    p,          \* the cursor
    tokpos,     \* where the token begins
    prevend,    \* where the token before it ended
    err,        \* the error buffer: the position of the first message, 0 while empty
    scan,       \* the locals of the string scanner and of lex_heredoc
    marks,      \* history: the template markers the scan of this string went through
    tokens,     \* history: the tokens handed out
    failures    \* allocations that failed

vars == <<text, pc, p, tokpos, prevend, err, scan, marks, tokens, failures>>

------------------------------------------------------------------------------
(* Characters and lexemes *)

Newline == "\n"
Blanks == {" ", "\t"}
Spaces == Blanks \cup {"\r", Newline}
Digits == {"0", "1", "2"}
Letters == {"a", "b", "e", "E", "n"}
Word == Letters \cup Digits \cup {"_"}
Name == Word \cup {"-"}

Symbols ==
    {<<c>> : c \in {"(", ")", "[", "]", "{", "}", ",", ".", ":", "?", "+", "-", "*", "/", "%",
                    "=", "!", "<", ">"}}
    \cup {<<".", ".", ".">>, <<"=", "=">>, <<"=", ">">>, <<"!", "=">>, <<"<", "=">>,
          <<">", "=">>, <<"&", "&">>, <<"|", "|">>}

\* The text has the word w at position q.
Has(t, q, w) == \A i \in DOMAIN w : q + i - 1 \in DOMAIN t /\ t[q + i - 1] = w[i]

\* The first position from q on that is not among the inner ones.
Past(t, q, inner) ==
    IF q .. Len(t) \subseteq inner THEN Len(t) + 1
    ELSE CHOOSE r \in q .. Len(t) : r \notin inner /\ q .. (r - 1) \subseteq inner

Those(t, chars) == {q \in DOMAIN t : t[q] \in chars}
Others(t, chars) == {q \in DOMAIN t : t[q] \notin chars}

\* The characters a number goes on with: a sign only behind the e, and no dot
\* that begins a spread.
InNumber(t, from) ==
    {q \in DOMAIN t :
        /\ t[q] \in Digits \cup {".", "e", "E", "+", "-"}
        /\ ~Has(t, q, <<".", ".">>)
        /\ t[q] \in {"+", "-"} => q > from /\ t[q - 1] \in {"e", "E"}}

\* The symbol at q: the longest one.
SymbolsAt(t, q) == {w \in Symbols : Has(t, q, w)}
SymbolAt(t, q) == CHOOSE w \in SymbolsAt(t, q) : \A v \in SymbolsAt(t, q) : Len(v) <= Len(w)

------------------------------------------------------------------------------
(* Handing out a token *)

Idle == [in |-> "none"]

\* lex returns with a token that covers the text up to `to`.
Return(kind, to, content) ==
    /\ tokens' = Append(tokens, [kind |-> kind, from |-> tokpos, to |-> to, content |-> content,
                                 marks |-> marks, after |-> prevend])
    /\ pc' = IF kind = "eof" THEN "end" ELSE "call"
    /\ p' = to
    /\ scan' = Idle
    /\ UNCHANGED <<text, tokpos, prevend, marks>>

\* lx_err: only the first message is kept, at the place of its token.
Fail(to) ==
    /\ Return("error", to, <<>>)
    /\ err' = IF err = 0 THEN tokpos ELSE err
    /\ UNCHANGED failures

Give(kind, to, content) == Return(kind, to, content) /\ UNCHANGED <<err, failures>>

\* A token with a text of its own.  When settext cannot store it, the token is
\* invalid, without a message, and the cursor is where it was: at `at`.
Store(kind, to, content, at) ==
    \/ Give(kind, to, content)
    \/ /\ failures < MaxFailures
       /\ Return("error", at, <<>>)
       /\ failures' = failures + 1
       /\ UNCHANGED err

------------------------------------------------------------------------------
(* lex: the gap before the token *)

Init ==
    /\ text \in Texts
    /\ pc = "call" /\ p = 1 /\ tokpos = 1 /\ prevend = 1
    /\ err = 0 /\ scan = Idle /\ marks = <<>> /\ tokens = <<>> /\ failures = 0

Call ==
    /\ pc = "call"
    /\ pc' = "gap"
    /\ prevend' = p
    /\ marks' = <<>>
    /\ UNCHANGED <<text, p, tokpos, err, scan, tokens, failures>>

Moves(to) ==
    /\ p' = to
    /\ UNCHANGED <<text, pc, tokpos, prevend, err, scan, marks, tokens, failures>>

SkipSpaces ==
    /\ pc = "gap"
    /\ p \in Those(text, Spaces)
    /\ Moves(Past(text, p, Those(text, Spaces)))

SkipLineComment ==
    /\ pc = "gap"
    /\ Has(text, p, <<"#">>) \/ Has(text, p, <<"/", "/">>)
    /\ Moves(Past(text, p, Others(text, {Newline})))

\* Mutant: the begin of a comment that does not end is not skipped.
SkipClosedComment ==
    /\ pc = "gap"
    /\ Has(text, p, <<"/", "*">>)
    /\ LET stop == Past(text, p + 2, {q \in 1 .. (Len(text) - 1) : ~Has(text, q, <<"*", "/">>)})
       IN  Moves(IF stop < Len(text) THEN stop + 2 ELSE p)

\* The scan needs two characters to look at and stops when one is left.
SkipBlockComment ==
    /\ pc = "gap"
    /\ Has(text, p, <<"/", "*">>)
    /\ LET stop == Past(text, p + 2, {q \in 1 .. (Len(text) - 1) : ~Has(text, q, <<"*", "/">>)})
       IN  Moves(IF stop < Len(text) THEN stop + 2 ELSE stop)

GapEnds ==
    /\ pc = "gap"
    /\ p \notin Those(text, Spaces)
    /\ \A w \in {<<"#">>, <<"/", "/">>, <<"/", "*">>} : ~Has(text, p, w)
    /\ pc' = "token"
    /\ tokpos' = p
    /\ UNCHANGED <<text, p, prevend, err, scan, marks, tokens, failures>>

------------------------------------------------------------------------------
(* lex: tokens found in one step *)

Sees(chars) == pc = "token" /\ p \in Those(text, chars)

EndOfText == pc = "token" /\ p > Len(text) /\ Give("eof", p, <<>>)

Symbol ==
    /\ pc = "token"
    /\ SymbolsAt(text, p) # {}
    /\ ~Has(text, p, <<"<", "<">>)
    /\ Give("symbol", p + Len(SymbolAt(text, p)), SymbolAt(text, p))

Number ==
    /\ Sees(Digits)
    /\ LET to == Past(text, p, InNumber(text, p))
       IN  Store("number", to, SubSeq(text, p, to - 1), to)

Identifier ==
    /\ Sees(Letters \cup {"_"})
    /\ LET to == Past(text, p, Those(text, Name))
       IN  Store("name", to, SubSeq(text, p, to - 1), to)

\* Also a single & or |.
InvalidCharacter ==
    /\ pc = "token"
    /\ p \in DOMAIN text
    /\ SymbolsAt(text, p) = {}
    /\ text[p] \notin Word \cup {"\""}
    /\ Fail(p + 1)

------------------------------------------------------------------------------
(* lex: a quoted string, one character at a time *)

StringBegins ==
    /\ Sees({"\""})
    /\ pc' = "string"
    /\ p' = p + 1
    /\ scan' = [in |-> "string", depth |-> 0, nested |-> FALSE, open |-> 0]
    /\ UNCHANGED <<text, tokpos, prevend, err, marks, tokens, failures>>

Reads == pc = "string" /\ p <= Len(text)
Escape == text[p] = "\\" /\ p < Len(text)
Marker == Has(text, p, <<"$", "{">>) \/ Has(text, p, <<"%", "{">>)

GoesOn(to, state) ==
    /\ p' = to
    /\ scan' = state
    /\ UNCHANGED <<text, pc, tokpos, prevend, err, tokens, failures>>

StringEscape == Reads /\ Escape /\ GoesOn(p + 2, scan) /\ UNCHANGED marks

\* Mutant: a nested string ends behind the character after its quote.
InNestedStringLate ==
    /\ Reads /\ ~Escape /\ scan.nested
    /\ IF text[p] = "\"" THEN GoesOn(p + 2, [scan EXCEPT !.nested = FALSE])
                         ELSE GoesOn(p + 1, scan)
    /\ UNCHANGED marks

InNestedString ==
    /\ Reads /\ ~Escape /\ scan.nested
    /\ GoesOn(p + 1, [scan EXCEPT !.nested = text[p] # "\""])
    /\ UNCHANGED marks

StringText ==
    /\ Reads /\ ~Escape /\ ~scan.nested /\ scan.depth = 0 /\ ~Marker
    /\ text[p] # "\""
    /\ GoesOn(p + 1, scan)
    /\ UNCHANGED marks

MarkerOpens ==
    /\ Reads /\ ~Escape /\ ~scan.nested /\ scan.depth = 0 /\ Marker
    /\ GoesOn(p + 2, [scan EXCEPT !.depth = 1, !.open = p])
    /\ UNCHANGED marks

\* Inside a marker braces are counted, and a quote begins a string.
InMarker ==
    /\ Reads /\ ~Escape /\ ~scan.nested /\ scan.depth > 0
    /\ GoesOn(IF Marker THEN p + 2 ELSE p + 1,
              [scan EXCEPT !.nested = text[p] = "\"",
                           !.depth = CASE Marker \/ text[p] = "{" -> scan.depth + 1
                                       [] text[p] = "}" -> scan.depth - 1
                                       [] OTHER -> scan.depth])
    /\ marks' = IF text[p] = "}" /\ scan.depth = 1 THEN Append(marks, <<scan.open, p>>) ELSE marks

StringEnds ==
    /\ Reads /\ ~scan.nested /\ scan.depth = 0
    /\ text[p] = "\""
    /\ Store("string", p + 1, SubSeq(text, tokpos + 1, p - 1), p)

StringUnterminated == pc = "string" /\ p > Len(text) /\ Fail(p)

------------------------------------------------------------------------------
(* lex_heredoc, one line at a time *)

\* The positions of text[from .. to) that are kept, as a sequence of characters.
Keep(t, from, to, kept) ==
    LET at == SelectSeq([k \in 1 .. (to - from) |-> from + k - 1], LAMBDA q : q \in kept)
    IN  [k \in DOMAIN at |-> t[at[k]]]

LineOf(t, q) == CHOOSE r \in 1 .. q : /\ r = 1 \/ t[r - 1] = Newline
                                      /\ \A s \in r .. (q - 1) : t[s] # Newline

\* Position q is indentation: nothing but blanks from the begin of its line to it.
Indentation(t, q) == \A r \in LineOf(t, q) .. q : t[r] \in Blanks

\* Mutant: the width of blank lines counts too.
MarginOfAll(t, from, to) ==
    LET width(q) == Past(t, LineOf(t, q), Those(t, Blanks)) - LineOf(t, q)
        widths == {width(q) : q \in from .. (to - 1)}
    IN  IF widths = {} THEN 0 ELSE CHOOSE m \in widths : \A n \in widths : m <= n

\* The least indentation of the lines of text[from .. to) that are not blank.
Margin(t, from, to) ==
    LET width(q) == Past(t, LineOf(t, q), Those(t, Blanks)) - LineOf(t, q)
        widths == {width(q) : q \in {r \in from .. (to - 1) : t[r] \notin Blanks \cup {Newline}}}
    IN  IF widths = {} THEN 0 ELSE CHOOSE m \in widths : \A n \in widths : m <= n

Undented(t, from, to) ==
    Keep(t, from, to, {q \in from .. (to - 1) :
                           ~(Indentation(t, q) /\ q - LineOf(t, q) < Margin(t, from, to))})

Sequel(t, q) == Past(t, q, Those(t, Blanks \cup {"\r"}))

AtLineEnd(t, q) == q <= Len(t) => t[q] = Newline

HeredocBegins ==
    /\ pc = "token"
    /\ Has(text, p, <<"<", "<">>)
    /\ LET indented == Has(text, p + 2, <<"-">>)
           from == IF indented THEN p + 3 ELSE p + 2
           to == Past(text, from, Those(text, Word))
       IN  \/ /\ to - from \notin 1 .. MaxDelimiter
              /\ Fail(to)
           \/ /\ to - from \in 1 .. MaxDelimiter
              /\ Sequel(text, to) \notin Those(text, {Newline})
              /\ Fail(Sequel(text, to))
           \/ /\ to - from \in 1 .. MaxDelimiter
              /\ Sequel(text, to) \in Those(text, {Newline})
              /\ pc' = "heredoc"
              /\ p' = Sequel(text, to) + 1
              /\ scan' = [in |-> "heredoc", delim |-> SubSeq(text, from, to - 1),
                          indented |-> indented, line |-> Sequel(text, to) + 1]
              /\ UNCHANGED <<text, tokpos, prevend, err, marks, tokens, failures>>

\* Where the delimiter has to be on this line.
DelimiterAt == IF scan.indented THEN Past(text, scan.line, Those(text, Blanks)) ELSE scan.line

Behind == Sequel(text, DelimiterAt + Len(scan.delim))

Terminates == Has(text, DelimiterAt, scan.delim) /\ AtLineEnd(text, Behind)

LineEnd == Past(text, scan.line, Others(text, {Newline}))

HeredocLine ==
    /\ pc = "heredoc"
    /\ ~Terminates
    /\ LineEnd <= Len(text)
    /\ scan' = [scan EXCEPT !.line = LineEnd + 1]
    /\ UNCHANGED <<text, pc, p, tokpos, prevend, err, marks, tokens, failures>>

\* The cursor stays at the begin of the body.
HeredocUnterminated ==
    /\ pc = "heredoc"
    /\ ~Terminates
    /\ LineEnd > Len(text)
    /\ Fail(p)

HeredocEnds ==
    /\ pc = "heredoc"
    /\ Terminates
    /\ LET next == IF Behind <= Len(text) THEN Behind + 1 ELSE Behind
       IN  Store("heredoc", next,
                 IF scan.indented THEN Undented(text, p, scan.line)
                                  ELSE SubSeq(text, p, scan.line - 1), next)

------------------------------------------------------------------------------
Done == pc = "end" /\ UNCHANGED vars

Gap == SkipSpaces \/ SkipLineComment \/ SkipBlockComment \/ GapEnds
OneStepToken == EndOfText \/ Symbol \/ Number \/ Identifier \/ InvalidCharacter
StringScan ==
    \/ StringBegins \/ StringEscape \/ InNestedString \/ StringText
    \/ MarkerOpens \/ InMarker \/ StringEnds \/ StringUnterminated
HeredocScan == HeredocBegins \/ HeredocLine \/ HeredocUnterminated \/ HeredocEnds

Next == Call \/ Gap \/ OneStepToken \/ StringScan \/ HeredocScan \/ Done

\* A caller that goes on to the end of the text, as recovery in body.c does.
Spec == Init /\ [][Next]_vars /\ WF_vars(Next)

==============================================================================
