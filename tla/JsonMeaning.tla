---------------------------- MODULE JsonMeaning ----------------------------
(***************************************************************************)
(* What it means for a JSON value to fit a schema and to be decoded by it, *)
(* without stack, buffer or memory, and what JsonBody makes of it.         *)
(***************************************************************************)
EXTENDS JsonBody

\* hcl2.h: "unrecognized properties, a missing required attribute, or a block
\* whose JSON shape does not match its label count are errors".
RECURSIVE Fits(_, _), FitsBlocks(_, _, _)
Fits(v, schema) ==
    /\ Keyed(v)
    /\ Keys(v) \subseteq Names(schema)
    /\ \A i \in DOMAIN schema.attrs :
           schema.attrs[i].required => schema.attrs[i].name \in Keys(v)
    /\ \A i \in DOMAIN schema.blocks :
           LET spec == schema.blocks[i]
           IN  spec.type \in Keys(v) => FitsBlocks(Get(v, spec.type), spec.nlabels, spec.child)
FitsBlocks(v, nlabels, child) ==
    IF nlabels > 0
    THEN Keyed(v) /\ \A i \in DOMAIN v.fields : FitsBlocks(v.fields[i].val, nlabels - 1, child)
    ELSE (Keyed(v) \/ Listed(v)) /\ \A i \in DOMAIN Bodies(v) : Fits(Bodies(v)[i], child)

\* The values n levels below v, each with the keys that lead there.
RECURSIVE Places(_, _)
Places(v, n) ==
    IF n = 0 THEN << [labels |-> <<>>, val |-> v] >>
    ELSE FlattenSeq([i \in DOMAIN v.fields |->
             LET below == Places(v.fields[i].val, n - 1)
             IN  [j \in DOMAIN below |->
                     [below[j] EXCEPT !.labels = <<v.fields[i].key>> \o @]]])

\* The attributes and blocks of an object that fits: one specification after the
\* other, blocks in the order of the document.
RECURSIVE Meaning(_, _)
Meaning(v, schema) ==
    LET attrs == SelectSeq(schema.attrs, LAMBDA spec : spec.name \in Keys(v))
        blocks == SelectSeq(schema.blocks, LAMBDA spec : spec.type \in Keys(v))
        atPlace(spec, place) ==
            [i \in DOMAIN Bodies(place.val) |->
                [type |-> spec.type, labels |-> place.labels,
                 body |-> Meaning(Bodies(place.val)[i], spec.child)]]
        ofSpec(spec) ==
            LET places == Places(Get(v, spec.type), spec.nlabels)
            IN  FlattenSeq([i \in DOMAIN places |-> atPlace(spec, places[i])])
    IN  [attrs |-> [i \in DOMAIN attrs |-> <<attrs[i].name, Get(v, attrs[i].name)>>],
         blocks |-> FlattenSeq([i \in DOMAIN blocks |-> ofSpec(blocks[i])])]

-----------------------------------------------------------------------------
\* What a node evaluates to, in a document whose strings hold no markers.
RECURSIVE Evaluated(_)
Evaluated(node) ==
    LET item(i) == Evaluated(node.items[i])
        isObject == node.kind = "N_OBJECT"
    IN  [k |-> CASE node.kind = "N_TEMPLATE" -> "string" [] node.kind = "N_LIT" -> "atom"
                 [] node.kind = "N_TUPLE" -> "array" [] OTHER -> "object",
         fields |-> IF isObject
                    THEN [i \in DOMAIN node.keys |-> [key |-> node.keys[i], val |-> item(i)]]
                    ELSE <<>>,
         items |-> IF isObject THEN <<>> ELSE [i \in DOMAIN node.items |-> item(i)]]

\* A body without its cells, its attributes evaluated.
RECURSIVE Plain(_)
Plain(body) ==
    [attrs |-> [i \in DOMAIN body.attrs |-> <<body.attrs[i].name, Evaluated(body.attrs[i].node)>>],
     blocks |-> [i \in DOMAIN body.blocks |->
                    [type |-> body.blocks[i].type, labels |-> body.blocks[i].labels,
                     body |-> Plain(body.blocks[i].body)]]]

\* The cells of a body found by walking through it, as hcl2_body_free does.
RECURSIVE TreeCells(_)
TreeCells(body) ==
    IF body = NoBody THEN <<>>
    ELSE <<body.cell>>
        \o FlattenSeq([i \in DOMAIN body.attrs |-> <<body.attrs[i].cell, body.attrs[i].expr>>])
        \o FlattenSeq([i \in DOMAIN body.blocks |->
                          <<body.blocks[i].cell>> \o TreeCells(body.blocks[i].body)])
HeldIsTree ==
    \A body \in {made} \cup {calls[i].b : i \in {j \in DOMAIN calls : calls[j].fn = "body"}} :
        ToSet(TreeCells(body)) = body.held /\ Len(TreeCells(body)) = Cardinality(body.held)

\* A document that is handed out fits the schema and is all of it, also when an
\* allocation failed on the way: no body is cut short, and freeing it frees all of
\* it.  As long as memory lasts, a document that fits is handed out, and one that
\* does not is refused with a message.
DecodesWhatFits ==
    /\ HeldIsTree
    /\ doc = "made" => /\ Fits(input.value, input.schema)
                       /\ Plain(made) = Meaning(input.value, input.schema)
    /\ doc = "null" /\ faults = 0 => ~Fits(input.value, input.schema) /\ err
=============================================================================
