---------------------------- MODULE Collections ----------------------------
(***************************************************************************)
(* Conversion to a type constraint (convert.c) and the builtins on         *)
(* collections (builtin/*.c), each a function of its argument list.  They  *)
(* see an unknown only inside an argument: the evaluator keeps unknown     *)
(* arguments away.                                                         *)
(***************************************************************************)
EXTENDS Values
LOCAL INSTANCE SequencesExt
LOCAL INSTANCE FiniteSetsExt

CONSTANT MaxElements    \* the most elements range and setproduct make (1000000)

ASSUME MaxElementsAssumption == MaxElements \in Nat

Seen(items, el) == \E i \in DOMAIN items : VEqual(items[i], el)

\* The elements without repetitions, each where it came first.
Unique(items) ==
    FoldLeft(LAMBDA out, el : IF Seen(out, el) THEN out ELSE Append(out, el), <<>>, items)

HasError(results) == \E i \in DOMAIN results : results[i] = Error

------------------------------------------------------------------------------
(* hcl2_convert *)

\* strtod, on the texts that the model's numbers have.
Numerals(s) == {n \in -9 .. 99 : ToString(n) = s}

ToBool(v) ==
    CASE Kind(v) = "bool" -> v
      [] v \in {Str("true"), Str("false")} -> Bool(v = Str("true"))
      [] OTHER -> Error
ToNumber(v) ==
    CASE Kind(v) = "number" -> v
      [] Kind(v) = "string" /\ Numerals(v[2]) # {} -> Number(CHOOSE n \in Numerals(v[2]) : TRUE)
      [] OTHER -> Error
ToText(v) == IF HasText(v) THEN Str(Text(v)) ELSE Error

\* Mutant: an element is looked for before it is converted.
ConvertedItemsLate(kind, items, converted) ==
    IF kind = "set" THEN [i \in DOMAIN Unique(items) |->
                             converted[CHOOSE j \in DOMAIN items : items[j] = Unique(items)[i]]]
    ELSE converted

\* A set drops the elements that conversion has made equal to one before.
ConvertedItems(kind, items, converted) == IF kind = "set" THEN Unique(converted) ELSE converted

\* An unknown takes on the type it is converted to.
RECURSIVE Convert(_, _)
Convert(v, type) ==
    LET items(w) == [i \in DOMAIN w[2] |-> Convert(w[2][i], type[2])]
        fields(w) == [i \in DOMAIN w[2] |-> Convert(w[2][i][2], type[2])]
    IN  CASE IsUnknown(v) -> IF type = AnyType THEN v ELSE UnknownOf(type)
          [] type = AnyType -> v
          [] Kind(type) = "bool" -> ToBool(v)
          [] Kind(type) = "number" -> ToNumber(v)
          [] Kind(type) = "string" -> ToText(v)
          [] Kind(type) \in {"list", "set"} ->
                 IF ~IsSeq(v) \/ HasError(items(v)) THEN Error
                 ELSE <<Kind(type), ConvertedItems(Kind(type), v[2], items(v))>>
          [] Kind(type) = "map" ->
                 IF ~IsKeyed(v) \/ HasError(fields(v)) THEN Error
                 ELSE <<"map", [i \in DOMAIN v[2] |-> <<v[2][i][1], fields(v)[i]>>]>>

------------------------------------------------------------------------------
(* Sets.  The arguments are sets or lists, the result is a set. *)

AllSeq(args) == \A i \in DOMAIN args : IsSeq(args[i])
Joined(args) == FlattenSeq([i \in DOMAIN args |-> args[i][2]])

SetUnion(args) ==
    IF args = <<>> \/ ~AllSeq(args) THEN Error ELSE <<"set", Unique(Joined(args))>>

SetIntersection(args) ==
    LET inAll(el) == \A i \in 2 .. Len(args) : Seen(args[i][2], el)
    IN  IF args = <<>> \/ ~AllSeq(args) THEN Error
        ELSE <<"set", Unique(SelectSeq(args[1][2], inAll))>>

SetSubtract(args) ==
    LET isLeft(el) == ~Seen(args[2][2], el)
    IN  IF Len(args) # 2 \/ ~AllSeq(args) THEN Error
        ELSE <<"set", Unique(SelectSeq(args[1][2], isLeft))>>

\* The indices count up like an odometer whose last wheel turns fastest.
\* Mutant: the first wheel does.
AdvanceFirst(idx, lens) ==
    LET carried == {i \in DOMAIN idx : \A j \in 1 .. i : idx[j] = lens[j]}
    IN  [i \in DOMAIN idx |-> IF i \in carried THEN 1
                              ELSE IF i = Cardinality(carried) + 1 THEN idx[i] + 1 ELSE idx[i]]
Advance(idx, lens) ==
    LET carried == {i \in DOMAIN idx : \A j \in i .. Len(idx) : idx[j] = lens[j]}
    IN  [i \in DOMAIN idx |-> IF i \in carried THEN 1
                              ELSE IF i = Len(idx) - Cardinality(carried) THEN idx[i] + 1 ELSE idx[i]]

\* The first argument that is no list, has no elements, or makes the product too
\* large decides; the ones behind it are not looked at.
SetProduct(args) ==
    LET lens == [i \in DOMAIN args |-> IF IsSeq(args[i]) THEN Len(args[i][2]) ELSE 0]
        total(n) == FoldLeft(LAMBDA p, len : p * len, 1, SubSeq(lens, 1, n))
        deciding == {i \in DOMAIN args : lens[i] = 0 \/ total(i) > MaxElements}
        indices[c \in 1 .. total(Len(args))] ==
            IF c = 1 THEN [i \in DOMAIN args |-> 1] ELSE Advance(indices[c - 1], lens)
    IN  CASE args = <<>> -> Error
          [] deciding = {} -> Tuple([c \in DOMAIN indices |->
                                 Tuple([i \in DOMAIN args |-> args[i][2][indices[c][i]]])])
          [] OTHER -> LET i == Min(deciding)
                      IN  IF IsSeq(args[i]) /\ lens[i] = 0 THEN Tuple(<<>>) ELSE Error

------------------------------------------------------------------------------
(* Lists *)

IsListCall(args, n) == Len(args) = n /\ IsSeq(args[1])
IsNumber(v) == Kind(v) = "number"

Distinct(args) == IF IsListCall(args, 1) THEN Tuple(Unique(args[1][2])) ELSE Error
ConcatLists(args) == IF AllSeq(args) THEN Tuple(Joined(args)) ELSE Error
ReverseList(args) == IF IsListCall(args, 1) THEN Tuple(Reverse(args[1][2])) ELSE Error

\* flatten_into
RECURSIVE Leaves(_)
Leaves(v) ==
    IF IsSeq(v) THEN FlattenSeq([i \in DOMAIN v[2] |-> Leaves(v[2][i])]) ELSE <<v>>
Flatten(args) == IF IsListCall(args, 1) THEN Tuple(Leaves(args[1])) ELSE Error

\* Size 0 asks for a single chunk.
ChunkList(args) ==
    IF ~IsListCall(args, 2) \/ ~IsNumber(args[2]) \/ args[2][2] < 0 THEN Error
    ELSE LET items == args[1][2]
             step == IF args[2][2] = 0 THEN Max({Len(items), 1}) ELSE args[2][2]
         IN  Tuple([c \in 1 .. (Len(items) + step - 1) \div step |->
                       Tuple(SubSeq(items, (c - 1) * step + 1, Min({c * step, Len(items)})))])

Slice(args) ==
    IF /\ IsListCall(args, 3) /\ IsNumber(args[2]) /\ IsNumber(args[3])
       /\ 0 <= args[2][2] /\ args[2][2] <= args[3][2] /\ args[3][2] <= Len(args[1][2])
    THEN Tuple(SubSeq(args[1][2], args[2][2] + 1, args[3][2]))
    ELSE Error

ElementAt(args) ==
    IF ~IsListCall(args, 2) \/ ~IsNumber(args[2]) \/ args[1][2] = <<>> \/ args[2][2] < 0 THEN Error
    ELSE args[1][2][(args[2][2] % Len(args[1][2])) + 1]

IndexOf(args) ==
    IF IsListCall(args, 2) /\ Seen(args[1][2], args[2])
    THEN Number(Min({i \in DOMAIN args[1][2] : VEqual(args[1][2][i], args[2])}) - 1)
    ELSE Error

\* The values whose keys are in the search set.
MatchKeys(args) ==
    IF Len(args) # 3 \/ ~AllSeq(args) \/ Len(args[1][2]) # Len(args[2][2]) THEN Error
    ELSE Tuple(FlattenSeq([i \in DOMAIN args[1][2] |->
                   IF Seen(args[3][2], args[2][2][i]) THEN <<args[1][2][i]>> ELSE <<>>]))

One(args) ==
    CASE ~IsListCall(args, 1) \/ Len(args[1][2]) > 1 -> Error
      [] args[1][2] = <<>> -> Null
      [] OTHER -> args[1][2][1]

\* The first argument that is no list or not empty decides.
CoalesceList(args) ==
    LET deciding == {i \in DOMAIN args : ~IsSeq(args[i]) \/ args[i][2] # <<>>}
    IN  IF deciding = {} \/ ~IsSeq(args[Min(deciding)]) THEN Error ELSE args[Min(deciding)]

Compact(args) ==
    IF IsListCall(args, 1) /\ \A i \in DOMAIN args[1][2] : Kind(args[1][2][i]) = "string"
    THEN Tuple(SelectSeq(args[1][2], LAMBDA el : el # Str("")))
    ELSE Error

Sum(args) ==
    IF /\ IsListCall(args, 1) /\ args[1][2] # <<>>
       /\ \A i \in DOMAIN args[1][2] : IsNumber(args[1][2][i])
    THEN Number(FoldLeft(LAMBDA s, el : s + el[2], 0, args[1][2]))
    ELSE Error

\* boollist: alltrue and anytrue stop at the first element that decides.
BoolList(args, all) ==
    IF ~IsListCall(args, 1) THEN Error
    ELSE LET items == args[1][2]
             deciding == {i \in DOMAIN items : items[i] # Bool(all)}
         IN  CASE deciding = {} -> Bool(all)
               [] Kind(items[Min(deciding)]) # "bool" -> Error
               [] OTHER -> Bool(~all)

\* From start, 0 if there is one argument, by steps of 1 if there is no third.
RangeOf(args) ==
    LET start == IF Len(args) = 1 THEN 0 ELSE args[1][2]
        limit == IF Len(args) = 1 THEN args[1][2] ELSE args[2][2]
        step == IF Len(args) = 3 THEN args[3][2] ELSE 1
        outside(v) == IF step > 0 THEN v >= limit ELSE v <= limit
        ends == {n \in 0 .. MaxElements : outside(start + n * step)}
    IN  IF \/ Len(args) \notin 1 .. 3 \/ \E i \in DOMAIN args : ~IsNumber(args[i])
           \/ step = 0 \/ ends = {}
        THEN Error
        ELSE Tuple([n \in 1 .. Min(ends) |-> Number(start + (n - 1) * step)])

------------------------------------------------------------------------------
(* Objects *)

SetAll(fields) == FoldLeft(LAMBDA o, f : ObjectSet(o, f[1], f[2]), Object(<<>>), fields)

ZipMap(args) ==
    IF \/ Len(args) # 2 \/ ~AllSeq(args) \/ Len(args[1][2]) # Len(args[2][2])
       \/ \E i \in DOMAIN args[1][2] : Kind(args[1][2][i]) # "string"
    THEN Error
    ELSE SetAll([i \in DOMAIN args[1][2] |-> <<args[1][2][i][2], args[2][2][i]>>])

Merge(args) ==
    IF \A i \in DOMAIN args : IsKeyed(args[i]) THEN SetAll(Joined(args)) ELSE Error

IsObjectCall(args, n) == Len(args) = n /\ IsKeyed(args[1])

KeysOf(args) ==
    IF IsObjectCall(args, 1) THEN Tuple([i \in DOMAIN args[1][2] |-> Str(args[1][2][i][1])])
    ELSE Error
ValuesOf(args) ==
    IF IsObjectCall(args, 1) THEN Tuple([i \in DOMAIN args[1][2] |-> args[1][2][i][2]]) ELSE Error
LookUp(args) ==
    IF ~IsObjectCall(args, 3) \/ Kind(args[2]) # "string" THEN Error
    ELSE LET field == Get(args[1], args[2][2]) IN IF field = Error THEN args[3] ELSE field

------------------------------------------------------------------------------
ConversionTo(type, args) == IF Len(args) = 1 THEN Convert(args[1], type) ELSE Error

Setters == {"toset", "setunion", "setintersection", "setsubtract"}

CollectionBuiltins ==
    Setters \cup {"tobool", "tonumber", "tostring", "tolist", "tomap", "setproduct", "distinct",
        "concat", "reverse", "flatten", "chunklist", "slice", "element", "index", "matchkeys",
        "one", "coalescelist", "compact", "sum", "alltrue", "anytrue", "range", "zipmap",
        "merge", "keys", "values", "lookup"}

OnCollections(f, args) ==
    CASE f \in {"tobool", "tonumber", "tostring"} ->
             ConversionTo(CASE f = "tobool" -> <<"bool">> [] f = "tonumber" -> <<"number">>
                            [] OTHER -> <<"string">>, args)
      [] f = "tolist" -> ConversionTo(<<"list", AnyType>>, args)
      [] f = "toset" -> ConversionTo(<<"set", AnyType>>, args)
      [] f = "tomap" -> ConversionTo(<<"map", AnyType>>, args)
      [] f = "setunion" -> SetUnion(args)
      [] f = "setintersection" -> SetIntersection(args)
      [] f = "setsubtract" -> SetSubtract(args)
      [] f = "setproduct" -> SetProduct(args)
      [] f = "distinct" -> Distinct(args)
      [] f = "concat" -> ConcatLists(args)
      [] f = "reverse" -> ReverseList(args)
      [] f = "flatten" -> Flatten(args)
      [] f = "chunklist" -> ChunkList(args)
      [] f = "slice" -> Slice(args)
      [] f = "element" -> ElementAt(args)
      [] f = "index" -> IndexOf(args)
      [] f = "matchkeys" -> MatchKeys(args)
      [] f = "one" -> One(args)
      [] f = "coalescelist" -> CoalesceList(args)
      [] f = "compact" -> Compact(args)
      [] f = "sum" -> Sum(args)
      [] f \in {"alltrue", "anytrue"} -> BoolList(args, f = "alltrue")
      [] f = "range" -> RangeOf(args)
      [] f = "zipmap" -> ZipMap(args)
      [] f = "merge" -> Merge(args)
      [] f = "keys" -> KeysOf(args)
      [] f = "values" -> ValuesOf(args)
      [] f = "lookup" -> LookUp(args)
=============================================================================
