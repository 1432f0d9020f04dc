------------------------------- MODULE Values -------------------------------
(***************************************************************************)
(* The value model (value.c) and the operators on values (eval_unary,      *)
(* eval_binary).  A value is a tuple that begins with its kind; an unknown *)
(* carries the type it stands for, a sequence its elements, an object or a *)
(* map its fields in the order they were first set.  Numbers are integers: *)
(* what a double adds is not what the properties are about.  A type is a   *)
(* tuple too: <<"any">>, <<"bool">>, <<"number">>, <<"string">>, or "list",*)
(* "set", "map" with the type of the elements.                             *)
(***************************************************************************)
EXTENDS Integers, Sequences, TLC

Null == <<"null">>
AnyType == <<"any">>
UnknownOf(type) == <<"unknown", type>>
Unknown(kind) == UnknownOf(<<kind>>)
Bool(b) == <<"bool", b>>
Number(n) == <<"number", n>>
Str(s) == <<"string", s>>
Tuple(items) == <<"tuple", items>>
Object(fields) == <<"object", fields>>

\* NULL: no value, an error has been reported.
Error == <<"error">>

Kind(v) == v[1]
IsUnknown(v) == Kind(v) = "unknown"
IsSeq(v) == Kind(v) \in {"tuple", "list", "set"}
IsKeyed(v) == Kind(v) \in {"object", "map"}

\* hcl2_value_get
Get(v, key) ==
    LET hits == {i \in DOMAIN v[2] : v[2][i][1] = key}
    IN  IF IsKeyed(v) /\ hits # {} THEN v[2][CHOOSE i \in hits : TRUE][2] ELSE Error

\* hcl2_object_set: a key keeps its place and takes the new value.
ObjectSet(v, key, val) ==
    IF \E i \in DOMAIN v[2] : v[2][i][1] = key
    THEN <<Kind(v), [i \in DOMAIN v[2] |-> IF v[2][i][1] = key THEN <<key, val>> ELSE v[2][i]]>>
    ELSE <<Kind(v), Append(v[2], <<key, val>>)>>

\* hcl2_tuple_push
TuplePush(v, val) == <<Kind(v), Append(v[2], val)>>

\* vequal: two unknowns are equal, whatever they stand for.
RECURSIVE VEqual(_, _)
VEqual(a, b) ==
    /\ Kind(a) = Kind(b)
    /\ CASE Kind(a) \in {"null", "unknown"} -> TRUE
         [] Kind(a) \in {"bool", "number", "string"} -> a[2] = b[2]
         [] IsSeq(a) -> /\ Len(a[2]) = Len(b[2])
                        /\ \A i \in DOMAIN a[2] : VEqual(a[2][i], b[2][i])
         [] IsKeyed(a) -> /\ Len(a[2]) = Len(b[2])
                          /\ \A i \in DOMAIN a[2] :
                               LET other == Get(b, a[2][i][1])
                               IN  other # Error /\ VEqual(a[2][i][2], other)

\* Mutant: an operand of the wrong type gives an unknown.
UnaryLenient(op, v) ==
    CASE op = "-" /\ Kind(v) = "number" -> Number(-v[2])
      [] op = "!" /\ Kind(v) = "bool" -> Bool(~v[2])
      [] OTHER -> Unknown(IF op = "!" THEN "bool" ELSE "number")

Unary(op, v) ==
    CASE IsUnknown(v) -> Unknown(IF op = "!" THEN "bool" ELSE "number")
      [] op = "-" /\ Kind(v) = "number" -> Number(-v[2])
      [] op = "!" /\ Kind(v) = "bool" -> Bool(~v[2])
      [] OTHER -> Error

\* fmod: the result has the sign of the dividend.
Fmod(a, b) ==
    LET Abs(n) == IF n < 0 THEN -n ELSE n
    IN  IF a < 0 THEN -(Abs(a) % Abs(b)) ELSE a % Abs(b)

\* "/" has the guard of "%" and is left out with the fractions it makes.
Arithmetic == {"+", "-", "*", "%"}

OfNumbers(op, a, b) ==
    CASE op = "+" -> Number(a + b)
      [] op = "-" -> Number(a - b)
      [] op = "*" -> Number(a * b)
      [] op = "%" -> IF b = 0 THEN Error ELSE Number(Fmod(a, b))
      [] op = "<" -> Bool(a < b)
      [] op = "<=" -> Bool(a <= b)
      [] op = ">" -> Bool(a > b)
      [] op = ">=" -> Bool(a >= b)

OfBools(op, a, b) == Bool(IF op = "&&" THEN a /\ b ELSE a \/ b)

\* eval_binary: an unknown operand comes before any check of types.
Binary(op, l, r) ==
    CASE IsUnknown(l) \/ IsUnknown(r) -> Unknown(IF op \in Arithmetic THEN "number" ELSE "bool")
      [] op = "==" -> Bool(VEqual(l, r))
      [] op = "!=" -> Bool(~VEqual(l, r))
      [] op \in {"&&", "||"} ->
             IF Kind(l) = "bool" /\ Kind(r) = "bool" THEN OfBools(op, l[2], r[2]) ELSE Error
      [] Kind(l) = "number" /\ Kind(r) = "number" -> OfNumbers(op, l[2], r[2])
      [] OTHER -> Error

\* base[idx] of known values.
At(base, idx) ==
    CASE IsSeq(base) /\ Kind(idx) = "number" ->
             IF 0 <= idx[2] /\ idx[2] < Len(base[2]) THEN base[2][idx[2] + 1] ELSE Error
      [] IsKeyed(base) /\ Kind(idx) = "string" -> Get(base, idx[2])
      [] OTHER -> Error

\* val_to_text
Text(v) ==
    CASE Kind(v) = "string" -> v[2]
      [] Kind(v) = "number" -> ToString(v[2])
      [] Kind(v) = "bool" -> IF v[2] THEN "true" ELSE "false"

HasText(v) == Kind(v) \in {"string", "number", "bool"}

\* The elements a loop goes through: what its two variables are bound to.
Elements(v) ==
    [i \in DOMAIN v[2] |-> IF IsSeq(v) THEN <<Number(i - 1), v[2][i]>>
                                       ELSE <<Str(v[2][i][1]), v[2][i][2]>>]

------------------------------------------------------------------------------
RECURSIVE IsType(_)
IsType(type) ==
    \/ type \in {AnyType, <<"bool">>, <<"number">>, <<"string">>}
    \/ Kind(type) \in {"list", "set", "map"} /\ IsType(type[2])

\* A well-formed value has no error inside, no key twice, and a set no element
\* twice.
RECURSIVE IsValue(_)
IsValue(v) ==
    CASE Kind(v) = "null" -> v = Null
      [] Kind(v) = "unknown" -> IsType(v[2])
      [] Kind(v) = "bool" -> v[2] \in BOOLEAN
      [] Kind(v) = "number" -> v[2] \in Int
      [] Kind(v) = "string" -> v[2] \in STRING
      [] IsSeq(v) -> /\ \A i \in DOMAIN v[2] : IsValue(v[2][i])
                     /\ Kind(v) = "set" =>
                            \A i, j \in DOMAIN v[2] : VEqual(v[2][i], v[2][j]) => i = j
      [] IsKeyed(v) -> /\ \A i \in DOMAIN v[2] : v[2][i][1] \in STRING /\ IsValue(v[2][i][2])
                       /\ \A i, j \in DOMAIN v[2] : v[2][i][1] = v[2][j][1] => i = j
      [] OTHER -> FALSE

\* Nothing in v is left to be learnt.
RECURSIVE WhollyKnown(_)
WhollyKnown(v) ==
    CASE IsUnknown(v) -> FALSE
      [] IsSeq(v) -> \A i \in DOMAIN v[2] : WhollyKnown(v[2][i])
      [] IsKeyed(v) -> \A i \in DOMAIN v[2] : WhollyKnown(v[2][i][2])
      [] OTHER -> TRUE

\* v is what an unknown of the type can turn out to be.
RECURSIVE Conforms(_, _)
Conforms(v, type) ==
    CASE type = AnyType -> TRUE
      [] IsUnknown(v) -> v[2] = type
      [] Kind(type) # Kind(v) -> FALSE
      [] IsSeq(v) -> \A i \in DOMAIN v[2] : Conforms(v[2][i], type[2])
      [] IsKeyed(v) -> \A i \in DOMAIN v[2] : Conforms(v[2][i][2], type[2])
      [] OTHER -> TRUE

\* b is an answer that a, given when less was known, allows: a promises the
\* parts it knows and the types of the parts it does not; it does not promise
\* that nothing fails.
RECURSIVE Allows(_, _)
Allows(a, b) ==
    CASE b = Error -> TRUE
      [] a = Error -> b = Error
      [] IsUnknown(a) -> Conforms(b, a[2])
      [] IsSeq(a) -> /\ Kind(b) = Kind(a) /\ Len(b[2]) = Len(a[2])
                     /\ \A i \in DOMAIN a[2] : Allows(a[2][i], b[2][i])
      [] IsKeyed(a) -> /\ Kind(b) = Kind(a) /\ Len(b[2]) = Len(a[2])
                       /\ \A i \in DOMAIN a[2] : a[2][i][1] = b[2][i][1]
                                                 /\ Allows(a[2][i][2], b[2][i][2])
      [] OTHER -> a = b
=============================================================================
