---------------------------- MODULE MCEvaluator ----------------------------
(* Small instances of Evaluator: expressions built in up to three layers    *)
(* over an unknown u, an unknown number t, and known values, and calls of   *)
(* the functions on texts.                                                  *)
EXTENDS TextMeaning
LOCAL INSTANCE SequencesExt

CONSTANT Menu       \* which expressions: "open" or "equality"

------------------------------------------------------------------------------
(* Calls of the functions on texts, with nothing unknown.                   *)

NoVars == [n \in Names |-> Unset]

OnLits(f, vals) == <<"call", f, [i \in DOMAIN vals |-> <<"lit", vals[i]>>], FALSE>>
OnTextsOf(f, texts) == OnLits(f, [i \in DOMAIN texts |-> Str(texts[i])])

\* A tree with paths that patterns tell apart, and files of what is not UTF-8: half of
\* a pair, more bytes than needed, too large, cut off.
File(path, bytes) == [path |-> path, regular |-> TRUE, bytes |-> bytes]
SmallFiles == <<File("a/b/x.t", <<97>>), File("a/y.t", <<>>), File("x.t", <<195, 169, 0, 97>>), File("ab", <<97>>),
                File("c/ab", <<>>), File("c/b", <<>>), [path |-> "pipe", regular |-> FALSE, bytes |-> <<>>],
                File("f1", <<237, 159, 191>>), File("f2", <<237, 160, 128>>), File("f3", <<237, 176, 128>>),
                File("f4", <<192, 128>>), File("f5", <<224, 159, 191>>), File("f6", <<224, 160, 128>>),
                File("f7", <<240, 143, 191, 191>>), File("f8", <<244, 143, 191, 191>>), File("f9", <<244, 144, 128, 128>>),
                File("f10", <<97, 226, 130>>), File("f11", <<226, 130, 97>>), File("f12", <<128>>), File("f13", <<248>>)>>

\* JSON: short words over the tokens, and words one token away from long ones.
JsonTokens == {"[", "]", "{", "}", ",", ":", "1", "\"a\""}
LongWords == {<<"[", "1", ",", "[", "-20", "]", ",", "true", "]">>,
              <<"{", "\"a\"", ":", "1", ",", "\"\\u00e9\"", ":", "null", "}">>,
              <<"{", "\"a\"", ":", "[", "]", ",", "\"a\"", ":", "{", "}", "}">>,
              <<"[", "\"\\n\\\"\"", ",", "\"\\u20aCb\"", ",", "{", "}", "]">>}
Near(w) == {w} \cup {RemoveAt(w, i) : i \in DOMAIN w}
               \cup {ReplaceAt(w, i, t) : i \in DOMAIN w, t \in JsonTokens}
               \cup {InsertAt(w, i, t) : i \in DOMAIN w, t \in {",", "]", "1"}}
Words == UNION {[1 .. n -> JsonTokens] : n \in 1 .. 4} \cup UNION {Near(w) : w \in LongWords}

SmallTables == {<< <<"k", "v">>, <<"1", "a">>, <<"2", "b,c">> >>,
                << <<"k">>, <<"a\"b\"">>, <<"x\ny">> >>,
                << <<"k", "v">>, <<"", "">>, <<"p", "">> >>,
                << <<"k", "v">> >>}

SmallStyles == [nest : {"flow", "compact", "below"}, quote : {"plain", "single", "double"},
                indent : {2, 3}, comment : BOOLEAN]

Scalars == {Number(7), Bool(TRUE), Null} \cup {Str(s) : s \in {"x y", "7", "a: b", "a # b", "it's", "", "- x"}}
Pairs == {Tuple(<<a, Number(7)>>) : a \in Scalars} \cup {Object(<< <<"k", a>>, <<"m n", Null>> >>) : a \in Scalars}
SmallShown == Scalars \cup Pairs
    \cup {Tuple(<<p, Str("x y")>>) : p \in Pairs} \cup {Object(<< <<"k", p>>, <<"l", Number(7)>> >>) : p \in Pairs}
    \cup {Object(<< <<"k", Str(s)>>, <<"l", a>> >>) : s \in {"p\nq\n", "p\n\n  q", "# p\nq: r\n"},
                                                    a \in {Number(7), Str("s\n")}}
    \cup {Tuple(<<Str("p\nq\n"), Object(<< <<"k", Str("- s\nt")>>, <<"l", Null>> >>), Str("u\nv")>>), Tuple(<<>>), Object(<<>>),
          Tuple(<<Tuple(<<Tuple(<<>>), Object(<<>>)>>)>>)}

Coded == {Str("a\"b\\c\n\td"), Str("<"), Str("/#: "), Str("a\" #b"), Str("- a"), Str("true"), Str("12"), Number(-120), Null, Bool(FALSE),
          Tuple(<<>>), Object(<<>>)}
Nested == Coded \cup {Tuple(<<a, Object(<< <<"b", a>>, <<"a c", Tuple(<<a, a>>)>> >>)>>) : a \in Coded}
    \cup {Object(<< <<"z", a>>, <<"a", <<"set", <<b>> >> >>, <<"m", <<"map", << <<"k", a>> >> >> >> >>) : a, b \in Coded}

\* Short texts over the characters that decoders look for.
Awkward == {Join(w, "") : w \in UNION {[1 .. n -> {"\"", " ", "#", ":", "\\", "'", "-", "\n", "|", "&"}] : n \in 0 .. 2}}
AwkwardlyNested == UNION {{Str(s), Tuple(<<Str(s), Null>>), Object(<< <<"k", Tuple(<<Object(<< <<s, Str(s)>> >>)>>)>> >>)} : s \in Awkward}

Decodings ==
    {OnTextsOf("jsondecode", <<Join(w, " ")>>) : w \in Words}
    \cup {OnTextsOf("yamldecode", <<way[1]>>) : way \in YamlWritten \cup MergeWritten}
    \cup {OnTextsOf("csvdecode", <<way[1]>>) : way \in CsvWritten}
    \cup {<<"call", codec[1], <<OnLits(codec[2], <<v>>)>>, FALSE>> :
             codec \in {c \in Codecs : c[1] # "base64decode"}, v \in Nested \cup AwkwardlyNested}
    \cup {<<"call", "base64decode", <<OnTextsOf("base64encode", <<s>>)>>, FALSE>> :
             s \in {"", "a", "Za", "9 z", "ab/+", "0azZ9"}}

SmallParents == {"10.0.0.0/8", "192.168.77.130/25", "0.0.0.0/0", "255.255.255.0/28", "10.9.8.7/32",
                 "fd00::/48", "::/0", "2001:db8:0:0:1:0:0:1/61", "ffff:ffff::/127", "1:2:3:4:5:6:7:8/128",
                 "10.0.0/8", "fd00::1::/8", "10.0.0.0"}
Sizes == UNION {[1 .. n -> {0, 1, 2, 3, 5}] : n \in 0 .. 3} \cup {<<2, 2, 2, 2, 2>>, <<4, 3, 4, 4, 3, 1>>, <<9, 8, 16, 1>>}

Networks ==
    {OnLits("cidrsubnets", <<Str(p)>> \o [i \in DOMAIN s |-> Number(s[i])]) : p \in SmallParents, s \in Sizes}
    \cup {OnLits("cidrsubnet", <<Str(p), Number(b), Number(n)>>) :
             p \in SmallParents, b \in {0, 1, 4, 7, 12, 20, 33}, n \in {0, 1, 5, 15, 16, 127, 1000, 1048575}}
    \cup {OnLits("cidrhost", <<Str(p), Number(n)>>) :
             p \in SmallParents, n \in {-1, 0, 1, 127, 128, 255, 256, 65535, 65536, 16777215}}
    \cup {OnLits("cidrnetmask", <<Str(p)>>) : p \in SmallParents}

\* Days around the ends of months and centuries, and minutes around midnight.
Days == {"1970-01-01", "1969-12-31", "1968-02-29", "1900-02-28", "1900-03-01", "2000-02-29", "2000-12-31",
         "2023-02-28", "2024-02-29", "2100-03-01", "1600-01-01", "2400-12-31", "1999-10-31", "0004-02-29"}
Stamps == {d \o "T" \o t \o z : d \in Days, t \in {"00:00:00", "23:59:59", "12:29:30"},
                                z \in {"Z", "+05:30", "-08:00", "-00:30"}}
Durations == {"1s", "-1s", "24h", "-24h", "1h30m", "-36h", "8760h", "-1ms", "500ms0.5s", "1x", "59m60s"}

Calendars ==
    {OnTextsOf("timeadd", <<s, d>>) : s \in Stamps, d \in Durations}
    \cup {OnTextsOf("formatdate", <<FormatOfAll, s>>) : s \in Stamps}
    \cup {OnTextsOf("timecmp", <<s, r>>) : s \in Stamps, r \in {d \o "T00:29:59" \o z : d \in {"1969-12-31", "2000-02-29"}, z \in {"Z", "+05:30"}}}

Directives == {[index |-> 0, flag |-> "", width |-> 0, verb |-> verb] : verb \in {"d", "s", "v"}}
    \cup {[index |-> 0, flag |-> fl, width |-> w, verb |-> "d"] : fl \in {"", "-", "0"}, w \in {3, 12}}
    \cup {[index |-> 0, flag |-> "-", width |-> 4, verb |-> "s"]}
    \cup {[index |-> i, flag |-> "", width |-> 3, verb |-> "d"] : i \in 1 .. 2}
SmallFormats ==
    {FormatWritten(ds, <<Number(-7), Number(42)>>) :
       ds \in {ds \in UNION {[1 .. n -> Directives] : n \in 1 .. 3} :
                 Cardinality({i \in DOMAIN ds : ds[i].index = 0}) <= 2}}
    \cup {FormatWritten(<<[index |-> 2, flag |-> "", width |-> w, verb |-> "q"], [index |-> 0, flag |-> "-", width |-> 5, verb |-> "s"]>>,
                        <<Str(s), Str("x")>>) : w \in {0, 6}, s \in {"a", "-"}}
    \cup {<<"%#x|%05o|%.3X|%b", <<Number(171), Number(8), Number(171), Number(-6)>>, "0xab|00010|0AB|-110">>}

ShortTexts == UNION {[1 .. n -> {"a", "b"}] : n \in 0 .. 4}
ListsOf(els) == {Tuple(l) : l \in UNION {[1 .. n -> els] : n \in 0 .. 3}}
Keyed(k1, l1, k2, l2) == Object(<< <<k1, l1>>, <<k2, l2>> >>)
Patterns == {"*", "**", "**/*.t", "a/*", "a/**", "?.t", "*/?.t", "[xy].t", "a/[^x].t", "[a-c]*/**", "{a,c}/*",
             "{a/{b,x},c}*", "{x,a/y}.t", "*{.t,}", "{a/{y,q}.t,x.t}", "**/b", "a/**/x.t", "a/**/*", "**/*b", "a[!x]", "", "*b*"}
SomePaths == {a \o b \o c : a \in {"", "/", "..", "a/", "./"}, b \in {"", "b", "../", "b//", "../../", "a/b/.."},
                         c \in {"", "/..", "c", "/../..", ".x/."}}

Writings ==
    {OnTextsOf("split", <<Join(p, ""), Join(s, "")>>) : p \in {<<"a">>, <<"a", "a">>, <<"a", "b">>, <<"a", "b", "a">>}, s \in ShortTexts}
    \cup {OnTextsOf("replace", <<Join(s, ""), o, n>>) : s \in ShortTexts, o \in {"", "a", "aa", "ab", "aba"}, n \in {"", "b", "aa"}}
    \cup {OnTextsOf("trim", <<Join(s, ""), cut>>) : s \in ShortTexts, cut \in {"", "a", "ab"}}
    \cup {OnLits("substr", <<Str("abcd"), Number(o), Number(n)>>) : o \in -6 .. 6, n \in -2 .. 6}
    \cup {OnLits("sort", <<l>>) : l \in ListsOf({Str("b"), Str("a"), Str("ab"), Str("B")})}
    \cup {OnLits("transpose", <<Keyed("k", l, "j", m)>>) : l, m \in ListsOf({Str("a"), Str("b")})}
    \cup {OnLits("parseint", <<Str(s), Number(b)>>) : s \in {"0", "-10", "+7f", "00zZ", "12", "", "-", "8", "1 "}, b \in {1, 2, 8, 10, 16, 36}}
    \cup {OnLits("format", <<Str(way[1])>> \o way[2]) : way \in SmallFormats}
    \cup {OnTextsOf(f, <<p>>) : f \in {"abspath", "dirname", "basename"}, p \in SomePaths}
    \cup {OnTextsOf("fileset", <<base, p>>) : base \in {"", ".", "a", "no"}, p \in Patterns}
    \cup {OnTextsOf("file", <<SmallFiles[i].path>>) : i \in DOMAIN SmallFiles}
    \cup {OnTextsOf(f, <<p>>) : f \in {"file", "fileexists", "pathexpand"}, p \in {"a", "no", "pipe", "x.t", "~", "~/a", "~a"}}

TextSessions == (Decodings \cup Networks \cup Calendars \cup Writings) \X {NoVars}

------------------------------------------------------------------------------
(* Expressions over unknowns.                                               *)

Var(n) == <<"var", n>>
Lit(v) == <<"lit", v>>
u == Var("u")
t == Var("t")
xs == Var("xs")
one == Lit(Number(1))
yes == Lit(Bool(TRUE))

SmallNames == {"u", "t", "xs", "x", "k"}

SmallFacts == [any |-> {Number(0), Number(1), Str("a"), Bool(TRUE), Null,
                        Tuple(<<Number(1)>>), Object(<< <<"a", Number(1)>> >>)},
               number |-> {Number(0), Number(2)}]

SmallContexts == {[u |-> Unknown("any"), t |-> Unknown("number"), x |-> Unset, k |-> Unset,
                   xs |-> Object(<< <<"a", Number(2)>>, <<"b", Number(1)>> >>)],
                  [u |-> Unset, t |-> Unknown("number"), x |-> Null, k |-> Str("a"),
                   xs |-> <<"list", <<Number(1), Number(2), Number(1)>> >>]}

Atoms == {u, t, xs, one, yes, Lit(Str("a")), <<"tuple", <<u, one>> >>}

\* Every kind of node around e.
Around(e) ==
    {<<"binary", op, e, a>> : op \in {"+", "%", "<", "==", "&&"}, a \in {u, t, one}}
    \cup {<<"binary", op, a, e>> : op \in {"%", "!=", "||"}, a \in {u, one, yes}}
    \cup {<<"unary", op, e>> : op \in {"-", "!"}}
    \cup {<<"cond", e, a, b>> : a \in {t, one}, b \in {u, one}}
    \cup {<<"cond", u, e, one>>, <<"cond", yes, e, u>>}
    \cup {<<"attr", e, "a">>, <<"index", e, t>>, <<"index", e, Lit(Number(0))>>,
          <<"index", xs, e>>, <<"index", <<"tuple", <<e, one>> >>, t>>}
    \cup {<<"tuple", <<e, u>> >>, <<"template", <<Lit(Str("a")), e>> >>,
          <<"object", << <<"a", e>>, <<"b", t>>, <<"a", one>> >> >>,
          <<"object", << <<"b", u>>, <<"a", e>> >> >>}
    \cup {<<"for", "x", NoVar, e, <<"binary", "+", Var("x"), t>>, NoFilter>>,
          <<"for", "x", "k", <<"tuple", <<e, t>> >>, <<"tuple", <<Var("k"), Var("x")>> >>, NoFilter>>,
          <<"for", "x", NoVar, <<"tuple", <<one, one>> >>, e, Lit(Bool(TRUE))>>,
          <<"for", "u", NoVar, xs, e, NoFilter>>,
          <<"forobject", "x", "k", xs, Lit(Str("a")), e, NoFilter, FALSE>>,
          <<"forobject", "x", NoVar, <<"tuple", <<u, e, one>> >>, Lit(Str("b")), Var("x"), NoFilter, TRUE>>,
          <<"forobject", "x", "k", xs, Var("k"), e, <<"binary", "<", Var("x"), Lit(Number(2))>>, TRUE>>,
          <<"forobject", "k", "x", <<"tuple", <<e, one>> >>, <<"template", <<Var("k")>> >>, Var("x"), NoFilter, TRUE>>}
    \cup {<<"call", "length", <<e>>, FALSE>>, <<"call", "max", <<one, e>>, FALSE>>,
          <<"call", "coalesce", <<e, t>>, FALSE>>, <<"call", "max", <<t, xs>>, TRUE>>,
          <<"call", "tag", <<e>>, FALSE>>, <<"call", "coalesce", <<one, e>>, TRUE>>,
          <<"call", "contains", <<xs, e>>, FALSE>>, <<"call", "absent", <<e>>, FALSE>>,
          <<"call", "try", <<e, one>>, FALSE>>, <<"call", "can", <<e>>, FALSE>>,
          <<"call", "try", << <<"index", one, one>>, one>>, FALSE>>,
          <<"call", "can", <<one>>, FALSE>>, <<"call", "can", << <<"unary", "-", yes>> >>, FALSE>>}

\* Loops whose key, filter and grouping depend on the element.
Loops == {<<"forobject", "x", "k", xs, key, val, filter, grouping>> :
             key \in {<<"template", <<Var("x")>> >>, Var("k")},
             val \in {Var("x"), <<"tuple", <<Var("k"), t>> >>},
             filter \in {NoFilter, <<"binary", "<", Var("x"), Lit(Number(2))>>, Var("x")},
             grouping \in BOOLEAN}

Call(f, xargs) == <<"call", f, xargs, FALSE>>

\* Elements that are equal, equal after conversion, or equal but for the order of
\* fields.
Samples == {Number(1), Str("1"), Object(<< <<"a", Null>>, <<"b", Null>> >>),
             Object(<< <<"b", Null>>, <<"a", Null>> >>)}
Lists == {Lit(Tuple(l)) : l \in UNION {[1 .. n -> Samples] : n \in 0 .. 2}}
             \cup {Lit(<<"set", <<el, Str("")>> >>) : el \in Samples}
Objects == {Lit(Object(fs)) : fs \in UNION {[1 .. n -> {<<"a", Null>>, <<"b", Str("1")>>, <<"c", Null>>}] :
                                             n \in 0 .. 1}}
             \cup {Lit(Object(<< <<"b", Null>>, <<"a", Bool(TRUE)>> >>))}
Numbers == {Lit(Number(n)) : n \in -1 .. 3}
Hidden == {<<"tuple", <<e, one>> >> : e \in {u, t, xs}} \cup {xs, u}

Calls ==
    {Call(f, <<l, m>>) : f \in {"setunion", "setintersection", "setsubtract", "setproduct", "zipmap"},
                         l, m \in Lists \cup {u, one}}
    \cup {Call(f, <<l>>) : f \in CollectionBuiltins, l \in Lists \cup Objects \cup Hidden \cup {one}}
    \cup {Call(f, <<l, n>>) : f \in {"chunklist", "element", "index", "range", "coalescelist", "concat"},
                              l \in Lists \cup Hidden \cup {one}, n \in Numbers \cup Hidden}
    \cup {Call("merge", <<l, m>>) : l, m \in Objects \cup {xs, u}}
    \cup {Call("lookup", <<l, Lit(Str(key)), e>>) : l \in Objects \cup {xs, one}, key \in {"a", "c"},
                                                   e \in {one, u}}
    \cup {Call("slice", <<l, m, n>>) : l \in Hidden \cup {Lit(Tuple(<<>>))}, m, n \in Numbers}
    \cup {Call("range", <<l, m, n>>) : l, m, n \in Numbers}
    \cup {Call("matchkeys", <<l, m, n>>) : l \in Hidden \cup {Lit(Tuple(<<Number(1), Str("a")>>))},
                                          m \in Lists, n \in {Lit(Tuple(<<el>>)) : el \in Samples}}
    \cup {Call("setproduct", <<l, m, n>>) : l, m, n \in Hidden \cup {Lit(Tuple(<<>>)), one}}
    \cup {Call(f, <<Lit(Tuple(l))>>) : f \in {"sum", "alltrue", "anytrue", "compact"},
               l \in UNION {[1 .. n -> {Number(1), Bool(TRUE), Bool(FALSE), Str(""), Str("a")}] :
                                n \in 0 .. 2}}

Types == LET simple == {<<k>> : k \in {"any", "bool", "number", "string"}}
             collections == {<<k, type>> : k \in {"list", "set", "map"}, type \in simple}
         IN  simple \cup collections \cup {<<"list", <<"set", <<"string">> >> >>, <<"map", <<"list", AnyType>> >>}

Conversions ==
    {<<"convert", type, e>> : type \in Types,
         e \in Lists \cup Objects \cup Hidden \cup Atoms
               \cup {<<"tuple", <<e, f, t>> >> : e, f \in Hidden \cup {one, Lit(Str("true"))}}
               \cup {<<"object", << <<"a", e>>, <<"b", f>> >> >> : e, f \in Hidden \cup {one, t}}}

OpenExprs ==
    Calls \cup Conversions \cup Atoms \cup UNION {Around(e) : e \in Atoms \cup UNION {Around(a) : a \in Atoms}}
        \cup Loops

Equalities == {<<"binary", op, <<"tuple", <<a>> >>, <<"tuple", <<b>> >> >> :
                  op \in {"==", "!="}, a \in {u, t}, b \in {one, t}}

SmallSessions == IF Menu = "open" THEN OpenExprs \X SmallContexts \cup TextSessions
                 ELSE Equalities \X SmallContexts
=============================================================================
