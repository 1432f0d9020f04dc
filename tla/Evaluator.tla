----------------------------- MODULE Evaluator -----------------------------
(***************************************************************************)
(* Evaluation of expressions (hcl2_eval_node) when some values are not     *)
(* known yet.  A program that plans evaluates an expression with unknowns  *)
(* in its context, learns a value, evaluates the same expression again,    *)
(* and so on: the session below.  What it was told early must still be     *)
(* true later.                                                             *)
(*                                                                         *)
(* An expression is a tuple that begins with the kind of its node:         *)
(*   <<"lit", value>>  <<"var", name>>  <<"template", parts>>              *)
(*   <<"attr", e, key>>  <<"index", e, e>>  <<"unary", op, e>>             *)
(*   <<"binary", op, e, e>>  <<"cond", e, e, e>>                           *)
(*   <<"tuple", es>>  <<"object", <<key, e>> pairs>>                       *)
(*   <<"for", v, k, e, body, filter>>                                      *)
(*   <<"forobject", v, k, e, key, body, filter, grouping>>                 *)
(*   <<"call", name, es, spread>>                                          *)
(* and, of the program that asked, <<"convert", type, e>>: hcl2_convert on *)
(* the value of e.                                                         *)
(* An absent variable k is NoVar and an absent filter <<"none">>.          *)
(* Directives of templates are in Template, scopes and failing allocations *)
(* of loops in LoopScope.                                                  *)
(***************************************************************************)
EXTENDS Library, FiniteSets

CONSTANTS
    Names,      \* names of variables
    NoVar,      \* a loop without a key variable
    Sessions,   \* what a session may ask for: pairs of an expression and the
                \* variables it starts with, Names -> values
    Facts,      \* Facts[kind]: the values an unknown of that type turns out to be
    Registered  \* functions the program registers: their calls yield a fixed text

Unset == <<"unset">>
NoFilter == <<"none">>

ASSUME NoVarIsNotAName == NoVar \notin Names

VARIABLES
    expr,       \* the expression
    vars,       \* the context's variables
    answer      \* what the last evaluation returned; Unset before the first

state == <<expr, vars, answer>>

\* The first error of a sequence of results ends its evaluation.
Failed(results) == \E i \in DOMAIN results : results[i] = Error

AnyUnknown(results) == \E i \in DOMAIN results : IsUnknown(results[i])

------------------------------------------------------------------------------
\* A function of the context hides a builtin of its name.
Apply(f, args) == IF f \in Registered THEN Str("registered") ELSE OnLibrary(f, args)

\* A call with evaluated arguments: an unknown one makes the result unknown;
\* a spread tuple becomes the last arguments, whatever it holds.
CallWith(f, args, spread) ==
    IF AnyUnknown(args) THEN Unknown("any")
    ELSE IF ~spread THEN Apply(f, args)
    ELSE LET last == args[Len(args)] IN
         IF Kind(last) # "tuple" THEN Error
         ELSE Apply(f, SubSeq(args, 1, Len(args) - 1) \o last[2])

------------------------------------------------------------------------------
\* The scope of a loop's body: the value variable is bound first.
Bind(scope, v, k, element) ==
    LET withVal == [scope EXCEPT ![v] = element[2]]
    IN  IF k = NoVar THEN withVal ELSE [withVal EXCEPT ![k] = element[1]]

\* Mutant: a value for a key that has a group starts it again.
CollectRestart(result, key, val, grouping) ==
    ObjectSet(result, key, IF grouping THEN Tuple(<<val>>) ELSE val)

\* What one more pair makes of an object for-expression's result.
Collect(result, key, val, grouping) ==
    LET group == Get(result, key) IN
    ObjectSet(result, key,
              IF ~grouping THEN val
              ELSE IF group = Error THEN Tuple(<<val>>) ELSE TuplePush(group, val))

RECURSIVE Concat(_)
Concat(parts) == IF parts = <<>> THEN "" ELSE Text(Head(parts)) \o Concat(Tail(parts))

\* eval_template without directives.
Interpolated(parts) ==
    IF \E i \in DOMAIN parts : ~IsUnknown(parts[i]) /\ ~HasText(parts[i]) THEN Error
    ELSE IF AnyUnknown(parts) THEN Unknown("string") ELSE Str(Concat(parts))

Index(base, idx) ==
    IF base = Error \/ idx = Error THEN Error
    ELSE IF IsUnknown(base) \/ IsUnknown(idx) THEN Unknown("any") ELSE At(base, idx)

RECURSIVE Eval(_, _), LoopFrom(_, _, _, _, _), ObjectFrom(_, _, _, _)

EvalAll(xs, scope) == [i \in DOMAIN xs |-> Eval(xs[i], scope)]

\* The filter of a loop for one element: TRUE without one; must be a boolean.
Keeps(filter, inner) == IF filter = NoFilter THEN Bool(TRUE) ELSE Eval(filter, inner)

\* eval_for from element i on; result is what the elements before it made.
LoopFrom(x, els, i, result, scope) ==
    IF i > Len(els) THEN result
    ELSE LET inner == Bind(scope, x[2], x[3], els[i])
             object == x[1] = "forobject"
             keep == Keeps(IF object THEN x[7] ELSE x[6], inner)
             key == IF object THEN Eval(x[5], inner) ELSE Null
             val == Eval(IF object THEN x[6] ELSE x[5], inner)
         IN  CASE Kind(keep) # "bool" -> Error
               [] keep = Bool(FALSE) -> LoopFrom(x, els, i + 1, result, scope)
               [] object /\ Kind(key) # "string" -> Error
               [] val = Error -> Error
               [] object -> LoopFrom(x, els, i + 1, Collect(result, key[2], val, x[8]), scope)
               [] OTHER -> LoopFrom(x, els, i + 1, TuplePush(result, val), scope)

EvalFor(x, scope) ==
    LET coll == Eval(x[4], scope)
    IN  CASE coll = Error -> Error
          [] IsUnknown(coll) -> Unknown("any")
          [] ~IsSeq(coll) /\ ~IsKeyed(coll) -> Error
          [] OTHER -> LoopFrom(x, Elements(coll), 1,
                               IF x[1] = "forobject" THEN Object(<<>>) ELSE Tuple(<<>>), scope)

\* Fields are set in turn, so a key written twice has its last value.
ObjectFrom(fields, i, result, scope) ==
    IF i > Len(fields) THEN result
    ELSE LET val == Eval(fields[i][2], scope)
         IN  IF val = Error THEN Error
             ELSE ObjectFrom(fields, i + 1, ObjectSet(result, fields[i][1], val), scope)

\* try and can evaluate their arguments lazily; errors are swallowed.
EvalTry(xs, scope) ==
    LET good == {i \in DOMAIN xs : Eval(xs[i], scope) # Error}
    IN  IF good = {} THEN Error
        ELSE Eval(xs[CHOOSE i \in good : \A j \in good : i <= j], scope)

EvalCan(xs, scope) ==
    IF Len(xs) # 1 THEN Error
    ELSE LET v == Eval(xs[1], scope)
         IN  CASE v = Error -> Bool(FALSE)
               [] IsUnknown(v) -> Unknown("any")
               [] OTHER -> Bool(TRUE)

EvalCall(f, xs, spread, scope) ==
    CASE f = "try" /\ f \notin Registered -> EvalTry(xs, scope)
      [] f = "can" /\ f \notin Registered -> EvalCan(xs, scope)
      [] f \notin {"try", "can"} \cup Builtins \cup Registered -> Error
      [] OTHER -> LET args == EvalAll(xs, scope)
                  IN  IF Failed(args) THEN Error ELSE CallWith(f, args, spread)

\* Mutant: an unknown condition counts as false.
EvalCondElse(c, x, scope) ==
    CASE c = Error -> Error
      [] IsUnknown(c) -> Eval(x[4], scope)
      [] Kind(c) # "bool" -> Error
      [] OTHER -> Eval(IF c[2] THEN x[3] ELSE x[4], scope)

EvalCond(c, x, scope) ==
    CASE c = Error -> Error
      [] IsUnknown(c) -> Unknown("any")
      [] Kind(c) # "bool" -> Error
      [] OTHER -> Eval(IF c[2] THEN x[3] ELSE x[4], scope)

EvalAttr(o, key) ==
    CASE o = Error -> Error
      [] IsUnknown(o) -> Unknown("any")
      [] OTHER -> Get(o, key)

Eval(x, scope) ==
    CASE x[1] = "lit" -> x[2]
      [] x[1] = "var" -> IF scope[x[2]] = Unset THEN Error ELSE scope[x[2]]
      [] x[1] = "template" -> LET parts == EvalAll(x[2], scope)
                              IN  IF Failed(parts) THEN Error ELSE Interpolated(parts)
      [] x[1] = "attr" -> EvalAttr(Eval(x[2], scope), x[3])
      [] x[1] = "index" -> Index(Eval(x[2], scope), Eval(x[3], scope))
      [] x[1] = "unary" -> LET v == Eval(x[3], scope)
                           IN  IF v = Error THEN Error ELSE Unary(x[2], v)
      [] x[1] = "binary" -> LET both == EvalAll(<<x[3], x[4]>>, scope)
                            IN  IF Failed(both) THEN Error ELSE Binary(x[2], both[1], both[2])
      [] x[1] = "cond" -> EvalCond(Eval(x[2], scope), x, scope)
      [] x[1] = "tuple" -> LET items == EvalAll(x[2], scope)
                           IN  IF Failed(items) THEN Error ELSE Tuple(items)
      [] x[1] = "object" -> ObjectFrom(x[2], 1, Object(<<>>), scope)
      [] x[1] \in {"for", "forobject"} -> EvalFor(x, scope)
      [] x[1] = "call" -> EvalCall(x[2], x[3], x[4], scope)
      [] x[1] = "convert" -> LET v == Eval(x[3], scope)
                             IN  IF v = Error THEN Error ELSE Convert(v, x[2])

------------------------------------------------------------------------------
Init ==
    /\ \E session \in Sessions : expr = session[1] /\ vars = session[2]
    /\ answer = Unset

\* hcl2_eval against the context as it is.
Evaluate ==
    /\ answer' = Eval(expr, vars)
    /\ UNCHANGED <<expr, vars>>

\* The program sets a variable to what its unknown stood for.
Learn ==
    /\ \E n \in Names :
         /\ vars[n] # Unset /\ IsUnknown(vars[n])
         /\ \E v \in Facts[vars[n][2][1]] : vars' = [vars EXCEPT ![n] = v]
    /\ UNCHANGED <<expr, answer>>

Next == Evaluate \/ Learn

Spec == Init /\ [][Next]_state

------------------------------------------------------------------------------
\* Nothing becomes unknown that did not come from an unknown, and an answer is a
\* value through and through, with nothing missing inside.
KnownInKnownOut ==
    [][/\ answer' # answer => answer' \in {Unset, Error} \/ IsValue(answer')
       /\ (\A n \in Names : vars[n] = Unset \/ WhollyKnown(vars[n])) =>
          answer' = Unset \/ answer' = Error \/ WhollyKnown(answer')
          \/ answer' = answer]_state

(***************************************************************************)
(* Where an unknown is looked at without being an operand: inside a        *)
(* collection that is compared, spread, made a set or passed to a function *)
(* that looks at elements, in the filter or the key of a loop, in what try *)
(* and can attempt.                                                        *)
(***************************************************************************)
Parts(x) ==
    CASE x[1] \in {"lit", "var", "none"} -> <<>>
      [] x[1] \in {"template", "tuple"} -> x[2]
      [] x[1] = "attr" -> <<x[2]>>
      [] x[1] = "index" -> <<x[2], x[3]>>
      [] x[1] = "unary" -> <<x[3]>>
      [] x[1] = "binary" -> <<x[3], x[4]>>
      [] x[1] = "cond" -> <<x[2], x[3], x[4]>>
      [] x[1] = "object" -> [i \in DOMAIN x[2] |-> x[2][i][2]]
      [] x[1] = "for" -> <<x[4], x[5], x[6]>>
      [] x[1] = "forobject" -> <<x[4], x[5], x[6], x[7]>>
      [] x[1] = "call" -> x[3]
      [] x[1] = "convert" -> <<x[3]>>

RECURSIVE Within(_)
Within(x) == {x} \cup UNION {Within(Parts(x)[i]) : i \in DOMAIN Parts(x)}

\* An unknown can be part of what x evaluates to: a variable is taken to be
\* unknown, a loop variable too.
OnUnknown(x) == \E y \in Within(x) : y[1] = "var"

Hides(x) == /\ OnUnknown(x)
            /\ \E y \in Within(x) : y[1] \in {"tuple", "object", "for", "forobject"}

RECURSIVE HasSet(_)
HasSet(type) == Kind(type) = "set" \/ (Len(type) = 2 /\ HasSet(type[2]))

Peeks(x) ==
    CASE x[1] = "binary" /\ x[2] \in {"==", "!="} -> Hides(x[3]) \/ Hides(x[4])
      [] x[1] = "for" -> OnUnknown(x[6])
      [] x[1] = "forobject" -> OnUnknown(x[5]) \/ OnUnknown(x[7])
      [] x[1] = "call" /\ x[2] \in {"try", "can"} -> \E i \in DOMAIN x[3] : OnUnknown(x[3][i])
      [] x[1] = "call" -> /\ x[4] \/ LooksInside(x[2])
                          /\ \E i \in DOMAIN x[3] : Hides(x[3][i])
      [] x[1] = "convert" -> HasSet(x[2]) /\ Hides(x[3])
      [] OTHER -> FALSE

\* What was answered is never taken back: as the program learns the values of
\* unknowns, every known part of an answer stays, an unknown part becomes
\* something of the type it was announced with, and an error stays an error.
AnswersHold == [][answer # Unset /\ answer' # answer => Allows(answer, answer')]_state

\* For expressions in which no operation looks at an unknown inside something.
OpenAnswersHold == [][(answer # Unset /\ answer' # answer
                        /\ \A y \in Within(expr) : ~Peeks(y)) =>
                          Allows(answer, answer')]_state

(***************************************************************************)
(* A for-expression as a comprehension: which elements it takes, what each *)
(* becomes, and in which order keys appear, without a result that grows.   *)
(***************************************************************************)
LoopMeaning(x) ==
    LET coll == Eval(x[4], vars)
        els == Elements(coll)
        inner == [i \in DOMAIN els |-> Bind(vars, x[2], x[3], els[i])]
        kept == {i \in DOMAIN els : Keeps(x[7], inner[i]) = Bool(TRUE)}
        key == [i \in kept |-> Eval(x[5], inner[i])]
        val == [i \in kept |-> Eval(x[6], inner[i])]
        good == /\ \A i \in DOMAIN els : Kind(Keeps(x[7], inner[i])) = "bool"
                /\ \A i \in kept : Kind(key[i]) = "string" /\ val[i] # Error
        of(k) == {i \in kept : key[i] = k}
        group(k) == [n \in 1 .. Cardinality(of(k)) |->
                       val[CHOOSE i \in of(k) : Cardinality({j \in of(k) : j <= i}) = n]]
        last(k) == val[CHOOSE i \in of(k) : \A j \in of(k) : j <= i]
        firsts == {i \in kept : \A j \in of(key[i]) : i <= j}
        nth(n) == key[CHOOSE i \in firsts : Cardinality({j \in firsts : j <= i}) = n]
    IN  IF ~good THEN Error
        ELSE Object([n \in 1 .. Cardinality(firsts) |->
                       <<nth(n)[2], IF x[8] THEN Tuple(group(nth(n))) ELSE last(nth(n))>>])

\* An object for-expression takes the elements its filter keeps; a key appears
\* where it came first, with the last of its values or, grouping, with all of
\* them in order.
ObjectLoopsMean ==
    [][expr[1] = "forobject" /\ answer' # answer =>
         LET coll == Eval(expr[4], vars) IN
         coll # Error /\ (IsSeq(coll) \/ IsKeyed(coll)) => answer' = LoopMeaning(expr)]_state

(***************************************************************************)
(* What the set functions and some others mean, on known arguments, by the *)
(* sets of their elements.  Whole(v) is v without the order of fields.     *)
(***************************************************************************)
RECURSIVE Whole(_)
Whole(v) ==
    CASE IsSeq(v) -> <<Kind(v), [i \in DOMAIN v[2] |-> Whole(v[2][i])]>>
      [] IsKeyed(v) -> <<Kind(v), [key \in {v[2][i][1] : i \in DOMAIN v[2]} |-> Whole(Get(v, key))]>>
      [] OTHER -> v

SetOf(v) == {Whole(v[2][i]) : i \in DOMAIN v[2]}

\* The value the last of the objects that have the key gives it.
LastOf(objects, key) ==
    LET with == {i \in DOMAIN objects : Get(objects[i], key) # Error}
    IN  Get(objects[CHOOSE i \in with : \A j \in with : j <= i], key)

\* The place of choice c in the product of lists, counted from 0.
RECURSIVE PlaceOf(_, _)
PlaceOf(c, lens) ==
    IF c = <<>> THEN 0
    ELSE PlaceOf(SubSeq(c, 1, Len(c) - 1), lens) * lens[Len(c)] + c[Len(c)] - 1

Means(f, args, r) ==
    CASE f = "setunion" -> SetOf(r) = UNION {SetOf(args[i]) : i \in DOMAIN args}
      [] f = "setintersection" ->
             SetOf(r) = {el \in SetOf(args[1]) : \A i \in DOMAIN args : el \in SetOf(args[i])}
      [] f = "setsubtract" -> SetOf(r) = SetOf(args[1]) \ SetOf(args[2])
      [] f \in {"toset", "distinct"} ->
             SetOf(r) = SetOf(args[1]) /\ Cardinality(SetOf(r)) = Len(r[2])
      [] f = "setproduct" ->
             LET lens == [i \in DOMAIN args |-> Len(args[i][2])]
                 choices == {c \in [DOMAIN args -> 1 .. MaxElements] :
                                \A i \in DOMAIN args : c[i] <= lens[i]}
             IN  /\ Len(r[2]) = Cardinality(choices)
                 /\ \A c \in choices : r[2][PlaceOf(c, lens) + 1]
                                           = Tuple([i \in DOMAIN args |-> args[i][2][c[i]]])
      [] f = "chunklist" /\ args[2][2] > 0 ->
             \A i \in DOMAIN args[1][2] :
                 r[2][(i - 1) \div args[2][2] + 1][2][((i - 1) % args[2][2]) + 1] = args[1][2][i]
      [] f = "merge" -> \A i \in DOMAIN args : \A j \in DOMAIN args[i][2] :
             LET key == args[i][2][j][1] IN Get(r, key) = LastOf(args, key)
      [] f = "matchkeys" ->
             SetOf(r) = {Whole(args[1][2][i]) : i \in {j \in DOMAIN args[1][2] :
                                                    Whole(args[2][2][j]) \in SetOf(args[3])}}
      [] OTHER -> TRUE

\* A builtin on collections returns what the mathematical sets, products and maps
\* of its arguments say, however it compares, counts and overwrites; and what a
\* program converted to a type, and reads back and converts again, stays as it is.
CollectionsMean ==
    [][answer' # answer /\ answer' # Error =>
         /\ expr[1] = "call" /\ expr[2] \in CollectionBuiltins /\ ~expr[4] =>
                LET args == EvalAll(expr[3], vars)
                IN  (\A i \in DOMAIN args : WhollyKnown(args[i])) => Means(expr[2], args, answer')
         /\ expr[1] = "convert" =>
                Conforms(answer', expr[2]) /\ Convert(answer', expr[2]) = answer']_state
=============================================================================
