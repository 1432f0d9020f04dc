----------------------------- MODULE MCJsonBody -----------------------------
(* Small instances of JsonBody: short documents under six schemas.          *)
EXTENDS JsonMeaning

Value(k) == [k |-> k, fields |-> <<>>, items |-> <<>>]
Atom == Value("atom")
String == Value("string")
Object(fields) == [Value("object") EXCEPT !.fields = fields]
Array(items) == [Value("array") EXCEPT !.items = items]
F(key, val) == [key |-> key, val |-> val]

\* Objects of at most two fields and arrays of at most two elements over vals.
Singles(vals) == {Object(<<F(key, v)>>) : key \in {"a", "x"}, v \in vals}
                     \cup {Array(<<v>>) : v \in vals}
Doubles(vals) == {Object(<<F("a", v), F("x", w)>>) : v \in vals, w \in vals}
                     \cup {Object(<<F("x", v), F("a", w)>>) : v \in vals, w \in vals}
                     \cup {Array(<<v, w>>) : v \in vals, w \in vals}

Flat == {Atom, String, Object(<<>>), Array(<<>>)}
Nested == Flat \cup Singles(Flat) \cup Doubles(Flat)
Deep == Nested \cup Singles(Nested)
            \cup {Object(<<F("a", Object(<<>>)), F("x", v)>>) : v \in Nested}
            \cup {Array(<<Object(<<>>), v>>) : v \in Nested}
Values == Deep \cup Singles(Deep) \cup {Object(<<F("x", v), F("a", Atom)>>) : v \in Deep}

Attribute(name, required) == [name |-> name, required |-> required]
BlockType(type, nlabels, child) == [type |-> type, nlabels |-> nlabels, child |-> child]
Schema(attrs, blocks) == [attrs |-> attrs, blocks |-> blocks]

Empty == Schema(<<>>, <<>>)
Attributes == Schema(<<Attribute("a", TRUE), Attribute("x", FALSE)>>, <<>>)
Inner == Schema(<<Attribute("a", TRUE)>>, <<BlockType("x", 0, Empty)>>)
TopSchemas == {
    Attributes,
    Schema(<<>>, <<BlockType("x", 1, Attributes)>>),
    Schema(<<Attribute("a", FALSE)>>, <<BlockType("x", 2, Empty)>>),
    Schema(<<Attribute("a", FALSE)>>, <<BlockType("x", 0, Inner)>>),
    Schema(<<>>, <<BlockType("x", 1, Empty), BlockType("a", 0, Empty)>>),
    Schema(<<Attribute("x", FALSE)>>, <<BlockType("x", 1, Schema(<<Attribute("a", FALSE)>>, <<>>))>>)}

AllSchemas ==
    TopSchemas \cup {Empty, Inner, Schema(<<Attribute("a", FALSE)>>, <<>>)}
AllInputs == {[value |-> v, schema |-> schema] : v \in Values, schema \in TopSchemas}
=============================================================================
