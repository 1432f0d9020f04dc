------------------------------ MODULE Library ------------------------------
(***************************************************************************)
(* The builtins a context has (registry.c), on flat argument lists: those  *)
(* of Collections, Texts, Subnets, Dates and Paths, and some on numbers    *)
(* and values of any kind.  All see their arguments as eval_node hands     *)
(* them over.                                                              *)
(***************************************************************************)
EXTENDS Collections, Texts, Subnets, Dates, Paths

\* minmax: the greatest number times sign, if all are numbers.
Best(args, sign) ==
    IF args # <<>> /\ \A i \in DOMAIN args : Kind(args[i]) = "number"
    THEN args[CHOOSE i \in DOMAIN args : \A j \in DOMAIN args : sign * args[j][2] <= sign * args[i][2]]
    ELSE Error

\* Elements, fields or characters.
LengthOf(args) ==
    CASE Len(args) = 1 /\ (IsSeq(args[1]) \/ IsKeyed(args[1])) -> Number(Len(args[1][2]))
      [] Len(args) = 1 /\ Kind(args[1]) = "string" -> Number(Len(args[1][2]))
      [] OTHER -> Error

Coalesce(args) ==
    LET some == {i \in DOMAIN args : args[i] # Null}
    IN  IF some = {} THEN Error ELSE args[CHOOSE i \in some : \A j \in some : i <= j]

HasElement(args) ==
    IF Len(args) = 2 /\ IsSeq(args[1])
    THEN Bool(\E i \in DOMAIN args[1][2] : VEqual(args[1][2][i], args[2]))
    ELSE Error

Sign(n) == CASE n > 0 -> 1 [] n < 0 -> -1 [] OTHER -> 0

Builtins == {"max", "min", "abs", "signum", "length", "coalesce", "contains"}
                \cup CollectionBuiltins \cup TextBuiltins \cup AddressBuiltins
                \cup DateBuiltins \cup PathBuiltins

OnNumber(f, args) ==
    IF Takes(args, <<"number">>)
    THEN Number(IF f = "abs" THEN AbsOf(args[1][2]) ELSE Sign(args[1][2])) ELSE Error

OnLibrary(f, args) ==
    CASE f = "max" -> Best(args, 1)
      [] f = "min" -> Best(args, -1)
      [] f \in {"abs", "signum"} -> OnNumber(f, args)
      [] f = "length" -> LengthOf(args)
      [] f = "coalesce" -> Coalesce(args)
      [] f = "contains" -> HasElement(args)
      [] f \in CollectionBuiltins -> OnCollections(f, args)
      [] f \in TextBuiltins -> OnTexts(f, args)
      [] f \in AddressBuiltins -> OnAddresses(f, args)
      [] f \in DateBuiltins -> OnDates(f, args)
      [] f \in PathBuiltins -> OnPaths(f, args)

\* Those that look at what an element is: a set compares it, a sum adds it, an
\* encoder writes it.
LooksInside(f) ==
    f \in Setters \cup {"contains", "distinct", "index", "matchkeys", "flatten", "compact", "sum",
                       "alltrue", "anytrue", "zipmap", "join", "sort", "transpose", "format",
                       "formatlist", "jsonencode", "yamlencode"}
=============================================================================
