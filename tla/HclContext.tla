----------------------------- MODULE HclContext -----------------------------
(***************************************************************************)
(* The variable table of an evaluation context (struct hcl2_ctx): a        *)
(* growing array of (name, value) pairs searched from the front.  A value  *)
(* is represented by the heap cell that holds it, because ownership of the *)
(* cell is what set_var and take_var move around.                          *)
(***************************************************************************)
EXTENDS Naturals, Sequences

CONSTANTS
    Names,      \* identifiers a context can bind
    Cells,      \* heap cells; one cell stands for a whole hcl2_value tree
    NoCell      \* the NULL value pointer

ASSUME NoCellIsNotACell == NoCell \notin Cells

Tables == Seq([name : Names, val : Cells])

Hits(vars, n) == {i \in DOMAIN vars : vars[i].name = n}

Bound(vars, n) == Hits(vars, n) # {}

\* The loops over c->vars stop at the first entry with a matching name.
Position(vars, n) ==
    CHOOSE i \in Hits(vars, n) : \A j \in Hits(vars, n) : i <= j

\* ctx_var: the value bound to n, NULL when there is none.
Lookup(vars, n) ==
    IF Bound(vars, n) THEN vars[Position(vars, n)].val ELSE NoCell

\* Mutant: a set that appends without looking for the name.
SetVarAppends(vars, n, c) == Append(vars, [name |-> n, val |-> c])

\* The table hcl2_ctx_set_var leaves when it returns true: the value of an
\* existing entry is replaced, a new name goes to the end.
SetVar(vars, n, c) ==
    IF Bound(vars, n)
    THEN [i \in DOMAIN vars |->
            IF i = Position(vars, n) THEN [name |-> n, val |-> c] ELSE vars[i]]
    ELSE Append(vars, [name |-> n, val |-> c])

\* The table ctx_take_var leaves: the entry is removed and the later ones
\* move down by one (the memmove).
TakeVar(vars, n) ==
    IF Bound(vars, n)
    THEN [i \in 1 .. Len(vars) - 1 |->
            vars[IF i < Position(vars, n) THEN i ELSE i + 1]]
    ELSE vars

\* What a program can observe of a table: a partial map from names to cells.
EnvOf(vars) == [n \in Names |-> Lookup(vars, n)]

\* hcl2_ctx_set_var never adds a second entry for a name.
NamesUnique(vars) ==
    \A i, j \in DOMAIN vars : vars[i].name = vars[j].name => i = j

CellsOf(vars) == {vars[i].val : i \in DOMAIN vars}
=============================================================================
