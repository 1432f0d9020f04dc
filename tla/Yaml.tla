-------------------------------- MODULE Yaml --------------------------------
(***************************************************************************)
(* yamldecode (builtin/yamldecode.c) in its passes over the text: block    *)
(* scalars become quoted ones, the text becomes lines without comments,    *)
(* the lines documents, a document a value by recursive descent over lines *)
(* (block style) and characters (flow style).  And yamlencode.             *)
(*                                                                         *)
(* A line is [indent, text].  A parser returns what it has read, the place *)
(* behind it (a line number in block style, a character in flow style) and *)
(* the anchors, a function from names to values.                           *)
(***************************************************************************)
EXTENDS JsonText
LOCAL INSTANCE SequencesExt
LOCAL INSTANCE FiniteSetsExt

NoAnchors == [name \in {} |-> Null]
Read(v, at, anchors) == [v |-> v, at |-> at, anchors |-> anchors]
Unread == Read(Error, 0, NoAnchors)

Blank == {" "}
White == {" ", "\t"}
LineEnd == {" ", "\t", "\r"}

------------------------------------------------------------------------------
(* Scalars *)

YamlEscapes == "n" :> "\n" @@ "t" :> "\t" @@ "r" :> "\r" @@ "b" :> "_" @@ "f" :> "\f" @@ "0" :> "@"

\* parse_quoted from i on, behind the quote q; any other escaped character is
\* itself.
RECURSIVE QuotedFrom(_, _, _, _)
QuotedFrom(s, i, q, out) ==
    LET c == Char(s, i)
        e == Char(s, i + 1)
    IN  CASE c = "" -> Bad
          [] q = "'" /\ c = q /\ e = q -> QuotedFrom(s, i + 2, q, out \o q)
          [] c = q -> Got(CString(out), i + 1)
          [] q = "\"" /\ c = "\\" ->
                 IF e = "" THEN Bad
                 ELSE QuotedFrom(s, i + 2, q, out \o (IF e \in DOMAIN YamlEscapes THEN YamlEscapes[e] ELSE e))
          [] OTHER -> QuotedFrom(s, i + 1, q, out \o c)

Quoted(s, i) == QuotedFrom(s, i + 1, Char(s, i), "")

OpensQuote(s, i) == Char(s, i) \in {"\"", "'"}

Constants == [w \in {"", "null", "~"} |-> Null] @@ "true" :> Bool(TRUE) @@ "false" :> Bool(FALSE)

\* numeric_token and strtod; what they do not take is a text.
Plain(s) ==
    CASE s \in DOMAIN Constants -> Constants[s]
      [] Strtod(s) # Error -> Strtod(s)
      [] OTHER -> Str(s)

\* parse_scalar
Scalar(s) ==
    LET alone(quoted) == IF IsBad(quoted) \/ Skip(s, quoted.at, Blank) <= Len(s) THEN Error
                         ELSE Str(quoted.v)
    IN  IF OpensQuote(s, 1) THEN alone(Quoted(s, 1)) ELSE Plain(s)

\* apply_tag
ApplyTag(v, tag) ==
    CASE v = Error -> v
      [] tag = "null" -> Null
      [] tag = "str" /\ Kind(v) \in {"number", "bool"} -> Str(Text(v))
      [] tag = "str" /\ v = Null -> Str("null")
      [] tag = "bool" /\ v \in {Str("true"), Str("false")} -> Bool(v = Str("true"))
      [] tag \in {"int", "float"} /\ v = Str("") -> Number(0)
      [] tag \in {"int", "float"} /\ Kind(v) = "string" /\ Strtod(v[2]) # Error -> Strtod(v[2])
      [] OTHER -> v

\* parse_prefix from i on: the last anchor and the last tag, and what is behind.
RECURSIVE Prefix(_, _, _, _)
Prefix(s, at, anchor, tag) ==
    LET named(mark, word, end) ==
            IF mark = "&" THEN Prefix(s, end, <<word>>, tag)
            ELSE Prefix(s, end, anchor, TrimLeft(word, {"!"}))
        upTo(i, end) == named(Char(s, i), SubSeq(s, i + 1, end - 1), end)
        from(i) == IF Char(s, i) \in {"&", "!"} THEN upTo(i, Find(s, i + 1, {" ", ",", "]", "}"}))
                   ELSE [anchor |-> anchor, tag |-> tag, at |-> i]
    IN  from(Skip(s, at, Blank))

PrefixAt(s, i) == Prefix(s, i, <<>>, "")

\* The anchor of a node, if it has one, is its value: the last one of a name.
Anchored(r, prefix) ==
    LET named(v) == IF v = Error THEN Unread
                    ELSE Read(v, r.at, [a \in Range(prefix.anchor) |-> v] @@ r.anchors)
    IN  named(ApplyTag(r.v, prefix.tag))

Alias(name, at, anchors) ==
    IF name \in DOMAIN anchors THEN Read(anchors[name], at, anchors) ELSE Unread

------------------------------------------------------------------------------
(* Flow style: one line, character by character *)

\* flow_plain
PlainEnd(s, i) == Find(s, i, {",", "]", "}", ":"})
FlowPlain(s, i) == TrimRight(SubSeq(s, i, PlainEnd(s, i) - 1), White)

FlowKey(s, i) == IF OpensQuote(s, i) THEN Quoted(s, i) ELSE Got(FlowPlain(s, i), PlainEnd(s, i))

\* Behind an element: the next one, or the end, which a comma may precede.
AfterFlow(s, i, close) ==
    LET comma(next) == IF Char(s, next) = close THEN [more |-> FALSE, at |-> next + 1]
                       ELSE [more |-> TRUE, at |-> next]
        from(at) == CASE Char(s, at) = close -> [more |-> FALSE, at |-> at + 1]
                      [] Char(s, at) = "," -> comma(Skip(s, at + 1, White))
                      [] OTHER -> [more |-> FALSE, at |-> 0]
    IN  from(Skip(s, i, White))

RECURSIVE FlowValue(_, _, _), FlowSeq(_, _, _, _), FlowMap(_, _, _, _)

FlowSeq(s, i, items, anchors) ==
    LET with(all, after, known) ==
            CASE after.at = 0 -> Unread
              [] after.more -> FlowSeq(s, after.at, all, known)
              [] OTHER -> Read(Tuple(all), after.at, known)
        element(el) == IF el.v = Error THEN Unread
                       ELSE with(Append(items, el.v), AfterFlow(s, el.at, "]"), el.anchors)
    IN  element(FlowValue(s, i, anchors))

FlowMap(s, i, object, anchors) ==
    LET with(all, after, known) ==
            CASE after.at = 0 -> Unread
              [] after.more -> FlowMap(s, after.at, all, known)
              [] OTHER -> Read(all, after.at, known)
        field(key, val) == IF val.v = Error THEN Unread
                           ELSE with(ObjectSet(object, key, val.v), AfterFlow(s, val.at, "}"), val.anchors)
        keyed(key, colon) == IF Char(s, colon) # ":" THEN Unread
                             ELSE field(key, FlowValue(s, colon + 1, anchors))
        named(key) == IF IsBad(key) THEN Unread ELSE keyed(key.v, Skip(s, key.at, White))
    IN  named(FlowKey(s, i))

FlowNode(s, i, anchors) ==
    LET alias(end) == Alias(SubSeq(s, i + 1, end - 1), end, anchors)
        seq(inside) == IF Char(s, inside) = "]" THEN Read(Tuple(<<>>), inside + 1, anchors)
                       ELSE FlowSeq(s, inside, <<>>, anchors)
        map(inside) == IF Char(s, inside) = "}" THEN Read(Object(<<>>), inside + 1, anchors)
                       ELSE FlowMap(s, inside, Object(<<>>), anchors)
        text(quoted) == IF IsBad(quoted) THEN Unread ELSE Read(Str(quoted.v), quoted.at, anchors)
    IN  CASE Char(s, i) = "*" -> alias(Find(s, i, {" ", ",", "]", "}"}))
          [] Char(s, i) = "[" -> seq(Skip(s, i + 1, White))
          [] Char(s, i) = "{" -> map(Skip(s, i + 1, White))
          [] OpensQuote(s, i) -> text(Quoted(s, i))
          [] OTHER -> Read(Plain(FlowPlain(s, i)), PlainEnd(s, i), anchors)

FlowValue(s, i, anchors) ==
    LET behind(prefix) == Anchored(FlowNode(s, Skip(s, prefix.at, White), anchors), prefix)
    IN  behind(PrefixAt(s, Skip(s, i, White)))

\* parse_token: an inline value; at is the place it leaves to the block parser.
\* What follows a flow collection on its line is not looked at.
Token(s, at, anchors) ==
    CASE Char(s, 1) = "*" -> Alias(SubSeq(s, 2, Find(s, 2, Blank) - 1), at, anchors)
      [] Char(s, 1) \in {"[", "{"} -> [FlowValue(s, 1, anchors) EXCEPT !.at = at]
      [] OTHER -> Read(Scalar(s), at, anchors)

------------------------------------------------------------------------------
(* Block style: lines *)

IsSeqLine(t) == Char(t, 1) = "-" /\ Char(t, 2) \in {" ", ""}

\* map_colon: the colon outside quotes and brackets that ends a key, or 0.
RECURSIVE MapColon(_, _, _, _)
MapColon(t, i, depth, q) ==
    LET c == Char(t, i)
    IN  CASE c = "" -> 0
          [] q # "" -> MapColon(t, i + 1, depth, IF c = q THEN "" ELSE q)
          [] c \in {"\"", "'"} -> MapColon(t, i + 1, depth, c)
          [] c \in {"[", "{"} -> MapColon(t, i + 1, depth + 1, q)
          [] c \in {"]", "}"} -> MapColon(t, i + 1, depth - 1, q)
          [] c = ":" /\ depth = 0 /\ Char(t, i + 1) \in {" ", ""} -> i
          [] OTHER -> MapColon(t, i + 1, depth, q)

ColonOf(t) == MapColon(t, 1, 0, "")

\* The text of a key up to the colon; what follows the quote of one is ignored.
KeyOf(t, colon) ==
    LET key == TrimRight(SubSeq(t, 1, colon - 1), Blank)
    IN  IF OpensQuote(key, 1) THEN Quoted(key, 1) ELSE Got(key, colon)

\* merge_into: a map, or a sequence of maps and sequences, earlier ones first;
\* a key that is there stays.
RECURSIVE MergeInto(_, _)
MergeInto(object, src) ==
    CASE object = Error -> Error
      [] IsKeyed(src) ->
             FoldLeft(LAMBDA o, field : IF Get(o, field[1]) # Error THEN o
                                        ELSE ObjectSet(o, field[1], field[2]), object, src[2])
      [] IsSeq(src) -> FoldLeft(LAMBDA o, el : MergeInto(o, el), object, src[2])
      [] OTHER -> Error

RECURSIVE BlockNode(_, _, _), BlockMap(_, _, _, _, _), BlockSeq(_, _, _, _, _)

\* value_for_key: what stands on the lines below a key without a value.
ValueForKey(lines, pos, keyIndent, anchors) ==
    IF pos <= Len(lines) /\ (\/ lines[pos].indent > keyIndent
                             \/ lines[pos].indent = keyIndent /\ IsSeqLine(lines[pos].text))
    THEN BlockNode(lines, pos, anchors)
    ELSE Read(Null, pos, anchors)

BelowDash(lines, pos, indent, anchors) ==
    IF pos <= Len(lines) /\ lines[pos].indent > indent
    THEN BlockNode(lines, pos, anchors)
    ELSE Read(Null, pos, anchors)

\* parse_map from line pos on: the lines of its indentation that are not items.
BlockMap(lines, pos, indent, object, anchors) ==
    LET t == lines[pos].text
        value(prefix) ==
            Anchored(IF prefix.at > Len(t) THEN ValueForKey(lines, pos + 1, indent, anchors)
                     ELSE Token(From(t, prefix.at), pos + 1, anchors), prefix)
        rest(all, val) == IF all = Error THEN Unread
                          ELSE BlockMap(lines, val.at, indent, all, val.anchors)
        with(key, val) ==
            IF val.v = Error THEN Unread
            ELSE rest(IF key = "<<" THEN MergeInto(object, val.v) ELSE ObjectSet(object, key, val.v), val)
        named(key, colon) == IF IsBad(key) THEN Unread ELSE with(key.v, value(PrefixAt(t, colon + 1)))
        line(colon) == IF colon = 0 THEN Unread ELSE named(KeyOf(t, colon), colon)
    IN  IF pos > Len(lines) \/ lines[pos].indent # indent \/ IsSeqLine(t) THEN Read(object, pos, anchors)
        ELSE line(ColonOf(t))

\* The item of a dash: on the lines below, an alias or a node with properties,
\* or what the line is without the dash, a line of its own indentation.
SeqItem(lines, pos, indent, anchors) ==
    LET t == lines[pos].text
        below == BelowDash(lines, pos + 1, indent, anchors)
        value(prefix) ==
            Anchored(IF prefix.at > Len(t) THEN below ELSE Token(From(t, prefix.at), pos + 1, anchors), prefix)
        from(c) ==
            CASE c > Len(t) -> below
              [] Char(t, c) \in {"*", "&", "!"} -> value(PrefixAt(t, c))
              [] OTHER -> BlockNode([lines EXCEPT ![pos] = [indent |-> indent + c - 1, text |-> From(t, c)]],
                                    pos, anchors)
    IN  from(Skip(t, 2, Blank))

\* parse_seq from line pos on.
BlockSeq(lines, pos, indent, items, anchors) ==
    LET with(item) == IF item.v = Error THEN Unread
                      ELSE BlockSeq(lines, item.at, indent, Append(items, item.v), item.anchors)
    IN  IF pos > Len(lines) \/ lines[pos].indent # indent \/ ~IsSeqLine(lines[pos].text)
        THEN Read(Tuple(items), pos, anchors)
        ELSE with(SeqItem(lines, pos, indent, anchors))

\* parse_node_at: the node that begins on line pos has its indentation.
BlockNode(lines, pos, anchors) ==
    LET t == lines[pos].text
        indent == lines[pos].indent
    IN  CASE Char(t, 1) \in {"[", "{"} -> [FlowValue(t, 1, anchors) EXCEPT !.at = pos + 1]
          [] IsSeqLine(t) -> BlockSeq(lines, pos, indent, <<>>, anchors)
          [] ColonOf(t) > 0 -> BlockMap(lines, pos, indent, Object(<<>>), anchors)
          [] OTHER -> Read(Scalar(t), pos + 1, anchors)

------------------------------------------------------------------------------
(* Lines and documents *)

\* The lines of a text; a newline at its end does not begin one.
RawLines(s) ==
    LET pieces == Pieces(s, "\n")
    IN  IF pieces[Len(pieces)] = "" THEN SubSeq(pieces, 1, Len(pieces) - 1) ELSE pieces

Indent(line) == Skip(line, 1, Blank) - 1

\* Where a comment begins: at a # outside quotes, at the start or behind a space.
RECURSIVE CommentAt(_, _, _)
CommentAt(t, i, q) ==
    LET c == Char(t, i)
    IN  CASE c = "" -> i
          [] q # "" -> CommentAt(t, i + 1, IF c = q THEN "" ELSE q)
          [] c \in {"\"", "'"} -> CommentAt(t, i + 1, c)
          [] c = "#" /\ (i = 1 \/ Char(t, i - 1) = " ") -> i
          [] OTHER -> CommentAt(t, i + 1, q)

\* Mutant: a # behind a letter begins a comment too.
StrippedAnywhere(t) == TrimRight(SubSeq(t, 1, Find(t, 1, {"#"}) - 1), LineEnd)

Stripped(t) == TrimRight(SubSeq(t, 1, CommentAt(t, 1, "") - 1), LineEnd)

IsSeparator(t) == t \in {"---", "..."}

\* The documents of a text: the lines that are not blank, cut at separators.
Documents(raw) ==
    LET line(i) == [indent |-> Indent(raw[i]), text |-> Stripped(TrimLeft(raw[i], Blank))]
        put(docs, l) == CASE l.text = "" -> docs
                          [] IsSeparator(l.text) -> Append(docs, <<>>)
                          [] OTHER -> [docs EXCEPT ![Len(docs)] = Append(@, l)]
    IN  SelectSeq(FoldLeft(put, << <<>> >>, [i \in DOMAIN raw |-> line(i)]), LAMBDA doc : doc # <<>>)

\* One document: all its lines make one node; anchors are its own.
Document(lines) ==
    LET all(r) == IF r.at = Len(lines) + 1 THEN r.v ELSE Error
    IN  all(BlockNode(lines, 1, NoAnchors))

------------------------------------------------------------------------------
(* yaml_unblock: block scalars become quoted ones *)

\* The header of a block scalar, as [from, style, chomp] with the place of its
\* bar on the line, or a style "".  A quoted key may hide its own colon.
Header(line) ==
    LET ind == Indent(line)
        content == TrimRight(From(line, ind + 1), LineEnd)
        colons == {i \in 1 .. Len(content) : Char(content, i) = ":" /\ Char(content, i + 1) \in {" ", ""}}
        after == IF colons # {} THEN Min(colons) + 1 ELSE IF IsSeqLine(content) THEN 2 ELSE 1
        at == Skip(content, after, Blank)
        marks == SelectSeq(Chars(From(content, at + 1)), LAMBDA c : ~IsDigit(c))
        is == /\ Char(content, at) \in {"|", ">"}
              /\ marks \in {<<>>, <<"-">>, <<"+">>}
    IN  [from |-> ind + at, style |-> IF is THEN Char(content, at) ELSE "",
         chomp |-> IF is /\ marks # <<>> THEN marks[1] ELSE ""]

IsBlank(line) == Indent(line) = Len(line)

\* The lines of raw from i on that belong to a block scalar whose header is
\* indented by ind: those not indented less than the first that is not blank.
BodyOf(raw, i, ind) ==
    LET filled == {j \in i .. Len(raw) : ~IsBlank(raw[j])}
        deep == Indent(raw[Min(filled)])
        less == {j \in filled : Indent(raw[j]) < deep}
        end == IF less = {} THEN Len(raw) + 1 ELSE Min(less)
    IN  IF filled = {} \/ deep <= ind THEN [lines |-> <<>>, end |-> i]
        ELSE [lines |-> [j \in 1 .. end - i |-> [text |-> From(raw[i + j - 1], deep + 1),
                                                 blank |-> IsBlank(raw[i + j - 1])]],
              end |-> end]

\* emit_escaped
YamlEscaped(c) ==
    CASE c = "_" -> "\\u0008"
      [] c = "\f" -> "\\u000c"
      [] OTHER -> Escaped(c)

EscapedText(s) == Join([i \in 1 .. Len(s) |-> YamlEscaped(Char(s, i))], "")

\* Line i of a folded scalar: a blank one is a newline, a text behind a text
\* gets a space.
Folded(body, i) ==
    IF body[i].blank THEN "\\n"
    ELSE (IF i > 1 /\ ~body[i - 1].blank THEN " " ELSE "") \o EscapedText(body[i].text)

Content(body, style, chomp) ==
    LET end == Max({0} \cup {i \in DOMAIN body : ~body[i].blank})
        text == IF style = "|" THEN Join([i \in 1 .. end |-> EscapedText(body[i].text)], "\\n")
                ELSE Join([i \in 1 .. end |-> Folded(body, i)], "")
    IN  text \o CASE end = 0 \/ chomp = "-" -> ""
                  [] chomp = "+" -> Repeat("\\n", Len(body) - end + 1)
                  [] OTHER -> "\\n"

RECURSIVE Unblock(_, _)
Unblock(raw, i) ==
    LET header == Header(raw[i])
        body == BodyOf(raw, i + 1, Indent(raw[i]))
        quoted == SubSeq(raw[i], 1, header.from - 1)
                      \o "\"" \o Content(body.lines, header.style, header.chomp) \o "\""
    IN  CASE i > Len(raw) -> <<>>
          [] header.style = "" -> <<raw[i]>> \o Unblock(raw, i + 1)
          [] OTHER -> <<quoted>> \o Unblock(raw, body.end)

\* bi_yamldecode: several documents become a tuple.
YamlDecode(s) ==
    LET stream(vals) == CASE vals = <<>> -> Null
                          [] \E d \in DOMAIN vals : vals[d] = Error -> Error
                          [] Len(vals) = 1 -> vals[1]
                          [] OTHER -> Tuple(vals)
        values(docs) == stream([d \in DOMAIN docs |-> Document(docs[d])])
    IN  values(Documents(Unblock(RawLines(s), 1)))

------------------------------------------------------------------------------
(* yamlencode *)

YamlString(s) == "\"" \o EscapedText(s) \o "\""

IsScalar(v) == ~IsSeq(v) /\ ~IsKeyed(v)
YamlScalar(v) ==
    CASE Kind(v) = "string" -> YamlString(v[2])
      [] Kind(v) \in {"bool", "number"} -> Text(v)
      [] OTHER -> "null"

Empty(v) == IF IsSeq(v) THEN "[]" ELSE "{}"

SortedFields(fields) == SortSeq(fields, LAMBDA f, g : Before(f[1], g[1]))

\* emit_block; behind a key a sequence keeps the indentation, a map is deeper.
RECURSIVE EmitBlock(_, _)
EmitBlock(v, indent) ==
    LET margin == Repeat(" ", indent)
        inline(w) == CASE IsScalar(w) -> " " \o YamlScalar(w) \o "\n"
                       [] w[2] = <<>> -> " " \o Empty(w) \o "\n"
                       [] OTHER -> ""
        item(w) == margin \o "-" \o (IF inline(w) # "" THEN inline(w) ELSE "\n" \o EmitBlock(w, indent + 2))
        field(f) == margin \o YamlString(f[1]) \o ":"
                    \o (IF inline(f[2]) # "" THEN inline(f[2])
                        ELSE "\n" \o EmitBlock(f[2], IF IsSeq(f[2]) THEN indent ELSE indent + 2))
        fields == SortedFields(v[2])
    IN  CASE IsScalar(v) -> margin \o YamlScalar(v) \o "\n"
          [] v[2] = <<>> -> margin \o Empty(v) \o "\n"
          [] IsSeq(v) -> Join([i \in DOMAIN v[2] |-> item(v[2][i])], "")
          [] IsKeyed(v) -> Join([i \in DOMAIN fields |-> field(fields[i])], "")
=============================================================================
