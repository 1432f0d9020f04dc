------------------------------ MODULE JsonBody ------------------------------
(***************************************************************************)
(* The decoder of the JSON body profile (hcl2_json_decode): a schema says  *)
(* which properties of an object are attributes and which are blocks, and  *)
(* how many levels of objects stand for the labels of a block.             *)
(*                                                                         *)
(* calls is the C stack.  decode_body owns the body it builds and the label*)
(* buffer of the block type it is at; decode_blocks writes into both from  *)
(* below; make_block owns a block until it is added.  Any allocation may   *)
(* fail, and every error frees what its function owns and returns.         *)
(***************************************************************************)
EXTENDS Integers, SequencesExt, FiniteSetsExt

CONSTANTS
    JsonValues,    \* the parsed JSON values
    Schemas,       \* the schemas of bodies
    Inputs,        \* the values that are decoded, each with a schema
    NoLabel,       \* a place of the label buffer that was not written
    MaxFaults      \* how many allocations may fail

\* Below each block type there is a schema again; NULL is the empty one.
BlockTypes == UNION {ToSet(schema.blocks) : schema \in Schemas}
ASSUME SchemasAssumption ==
    /\ \A schema \in Schemas : schema.blocks \in Seq(BlockTypes)
    /\ \A type \in BlockTypes : type.nlabels \in Nat /\ type.child \in Schemas
ASSUME InputsAssumption == Inputs \subseteq [value : JsonValues, schema : Schemas]
ASSUME MaxFaultsAssumption == MaxFaults \in Nat

VARIABLES
    input,     \* the document and the schema
    calls,     \* the C stack
    ret,       \* what the last call returned: "none" while one runs, "ok", "failed"
    made,      \* the body the last decode_body returned
    err,       \* has a message been written?
    next,      \* the next cell to be allocated
    live,      \* cells allocated and not freed
    faults,    \* allocations that failed
    doc        \* "none", then "made" or "null": what hcl2_json_decode returned

vars == <<input, calls, ret, made, err, next, live, faults, doc>>

(***************************************************************************)
(* A value has a kind: "object" with its fields, "array" with its items,   *)
(* "string", or "atom" for numbers, booleans and null.                     *)
(***************************************************************************)
Keyed(v) == v.k = "object"
Listed(v) == v.k = "array"
Keys(v) == {v.fields[i].key : i \in DOMAIN v.fields}
\* hcl2_value_get, on a value that has the key.
Get(v, key) == v.fields[CHOOSE i \in DOMAIN v.fields : v.fields[i].key = key].val

Names(schema) ==
    {schema.attrs[i].name : i \in DOMAIN schema.attrs}
        \cup {schema.blocks[i].type : i \in DOMAIN schema.blocks}

\* The bodies a value stands for below the labels: an object is one, an array
\* of objects several.
Bodies(v) == IF Keyed(v) THEN <<v>> ELSE v.items

\* jnode: the expression of an attribute.  A string becomes a template, expanded
\* when the attribute is evaluated; a collection becomes its constructor.
JNode[v \in JsonValues] ==
    CASE v.k = "string" -> [kind |-> "N_TEMPLATE", keys |-> <<>>, items |-> <<>>]
      [] v.k = "atom" -> [kind |-> "N_LIT", keys |-> <<>>, items |-> <<>>]
      [] Listed(v) -> [kind |-> "N_TUPLE", keys |-> <<>>,
                       items |-> [i \in DOMAIN v.items |-> JNode[v.items[i]]]]
      [] Keyed(v) -> [kind |-> "N_OBJECT", keys |-> [i \in DOMAIN v.fields |-> v.fields[i].key],
                      items |-> [i \in DOMAIN v.fields |-> JNode[v.fields[i].val]]]

\* The cell of a struct stands for its strings and arrays too, that of an
\* expression for its nodes.  held is what hcl2_body_free gives back: the cells
\* of the body and of all its attributes, blocks and bodies of blocks.
NoBody == [cell |-> 0, held |-> {}, attrs |-> <<>>, blocks |-> <<>>]
NewBody(cell) == [NoBody EXCEPT !.cell = cell, !.held = {cell}]
WithAttr(body, attr) ==
    [body EXCEPT !.attrs = Append(@, attr), !.held = @ \cup {attr.cell, attr.expr}]

\* What free_block gives back.
BlockCells(block) == {block.cell} \cup block.body.held
WithBlock(body, block) ==
    [body EXCEPT !.blocks = Append(@, block), !.held = @ \cup BlockCells(block)]

\* decode_body: at "enter", "attrs" or "blocks"; i counts the schema's
\* specifications; labels is the buffer and buffer its cell, 0 for NULL.
BodyFrame(obj, schema) ==
    [fn |-> "body", at |-> "enter", obj |-> obj, schema |-> schema, b |-> NoBody, i |-> 1,
     labels |-> <<>>, buffer |-> 0]

\* decode_blocks: i counts the fields of val, or its elements.
BlocksFrame(val, spec, filled) ==
    [fn |-> "blocks", val |-> val, spec |-> spec, filled |-> filled, i |-> 1]

\* make_block, while decode_body runs for it.
BlockFrame(block) == [fn |-> "block", block |-> block]

Top == calls[Len(calls)]
Below == Front(calls)
In(fn) == calls # <<>> /\ Top.fn = fn
Running(fn) == In(fn) /\ ret = "none"

\* The decode_body whose body and label buffer a decode_blocks was given.
OutAt == Max({i \in DOMAIN calls : calls[i].fn = "body"})

Init ==
    /\ input \in Inputs
    /\ calls = <<BodyFrame(input.value, input.schema)>>
    /\ ret = "none" /\ made = NoBody /\ err = FALSE
    /\ next = 1 /\ live = {} /\ faults = 0
    /\ doc = "none"

-----------------------------------------------------------------------------
(* What steps have in common. *)

Alloc(n) == next' = next + n /\ live' = live \cup next .. next + n - 1 /\ UNCHANGED faults
Free(freed) == live' = live \ freed /\ UNCHANGED <<next, faults>>
NoAlloc == Free({})

Go(frames) == calls' = Below \o frames /\ ret' = "none" /\ UNCHANGED <<made, err>>
Return(result) == calls' = Below /\ ret' = result

\* An error of the document: a message, and what the function owns is freed.
Refuse(freed) == Return("failed") /\ Free(freed) /\ err' = TRUE /\ UNCHANGED made

\* An allocation fails: likewise, without a message.
Lose(freed) ==
    /\ faults < MaxFaults /\ faults' = faults + 1
    /\ live' = live \ freed /\ UNCHANGED <<next, err>>

-----------------------------------------------------------------------------
(* decode_body *)

AtBody(at) == Running("body") /\ Top.at = at

BodyBegins ==
    /\ AtBody("enter") /\ Keyed(Top.obj)
    /\ Alloc(1) /\ Go(<<[Top EXCEPT !.at = "attrs", !.b = NewBody(next)]>>)
BodyNotAnObject == AtBody("enter") /\ ~Keyed(Top.obj) /\ Refuse({})

Attr == Top.schema.attrs[Top.i]
AtAttr == AtBody("attrs") /\ Top.i <= Len(Top.schema.attrs)
HasAttr == Attr.name \in Keys(Top.obj)

AttrAbsent ==
    AtAttr /\ ~HasAttr /\ ~Attr.required /\ Go(<<[Top EXCEPT !.i = @ + 1]>>) /\ NoAlloc

AttrMissing == AtAttr /\ ~HasAttr /\ Attr.required /\ Refuse(Top.b.held)

\* add_attr.
AttrAdded ==
    /\ AtAttr /\ HasAttr /\ Alloc(2)
    /\ LET attr == [cell |-> next, expr |-> next + 1, name |-> Attr.name,
                    node |-> JNode[Get(Top.obj, Attr.name)]]
       IN  Go(<<[Top EXCEPT !.i = @ + 1, !.b = WithAttr(@, attr)]>>)
AttrsDone ==
    /\ AtBody("attrs") /\ Top.i > Len(Top.schema.attrs)
    /\ Go(<<[Top EXCEPT !.at = "blocks", !.i = 1]>>) /\ NoAlloc

BlockSpec == Top.schema.blocks[Top.i]
AtSpec == AtBody("blocks") /\ Top.i <= Len(Top.schema.blocks)
HasBlocks == BlockSpec.type \in Keys(Top.obj)

SpecAbsent == AtSpec /\ ~HasBlocks /\ Go(<<[Top EXCEPT !.i = @ + 1]>>) /\ NoAlloc

\* The label buffer, if there are labels, then decode_blocks.
SpecBegins ==
    /\ AtSpec /\ HasBlocks
    /\ LET n == BlockSpec.nlabels
           buffer == IF n > 0 THEN next ELSE 0
       IN  /\ IF n > 0 THEN Alloc(1) ELSE NoAlloc
           /\ Go(<< [Top EXCEPT !.labels = [j \in 1 .. n |-> NoLabel], !.buffer = buffer],
                    BlocksFrame(Get(Top.obj, BlockSpec.type), BlockSpec, 0) >>)
SpecDone ==
    /\ In("body") /\ ret = "ok" /\ Free({Top.buffer})
    /\ Go(<<[Top EXCEPT !.i = @ + 1, !.labels = <<>>, !.buffer = 0]>>)

\* Mutant: the buffer is freed only when all went well.
SpecFailsKeepsBuffer ==
    /\ In("body") /\ ret = "failed" /\ Free(Top.b.held)
    /\ Return("failed") /\ UNCHANGED <<made, err>>
SpecFails ==
    /\ In("body") /\ ret = "failed" /\ Free({Top.buffer} \cup Top.b.held)
    /\ Return("failed") /\ UNCHANGED <<made, err>>

AtEnd == AtBody("blocks") /\ Top.i > Len(Top.schema.blocks)

\* name_is_known, for every property.
AllKnown == Keys(Top.obj) \subseteq Names(Top.schema)

\* Mutant: the body is returned whatever else the object has.
BodyDoneUnchecked == AtEnd /\ made' = Top.b /\ Return("ok") /\ NoAlloc /\ UNCHANGED err
BodyDone == AtEnd /\ AllKnown /\ made' = Top.b /\ Return("ok") /\ NoAlloc /\ UNCHANGED err
PropertyUnknown == AtEnd /\ ~AllKnown /\ Refuse(Top.b.held)

\* The body, an attribute or the label buffer cannot be had.
NeedsMemory ==
    \/ AtBody("enter") /\ Keyed(Top.obj)
    \/ AtAttr /\ HasAttr
    \/ AtSpec /\ HasBlocks /\ BlockSpec.nlabels > 0
BodyLost == NeedsMemory /\ Lose(Top.b.held) /\ Return("failed") /\ UNCHANGED made

-----------------------------------------------------------------------------
(* decode_blocks and make_block *)

AtLabel == Running("blocks") /\ Top.filled < Top.spec.nlabels

\* Mutant: the label is written at the end of the buffer.
LabelBeginsAtEnd ==
    /\ AtLabel /\ Keyed(Top.val) /\ Top.i <= Len(Top.val.fields)
    /\ LET field == Top.val.fields[Top.i]
       IN  calls' = Append([calls EXCEPT ![OutAt].labels[Top.spec.nlabels] = field.key],
                           BlocksFrame(field.val, Top.spec, Top.filled + 1))
    /\ NoAlloc /\ UNCHANGED <<ret, made, err>>

\* The key is borrowed as the next label in the shared buffer.
LabelBegins ==
    /\ AtLabel /\ Keyed(Top.val) /\ Top.i <= Len(Top.val.fields)
    /\ LET field == Top.val.fields[Top.i]
       IN  calls' = Append([calls EXCEPT ![OutAt].labels[Top.filled + 1] = field.key],
                           BlocksFrame(field.val, Top.spec, Top.filled + 1))
    /\ NoAlloc /\ UNCHANGED <<ret, made, err>>
LabelDone == In("blocks") /\ ret = "ok" /\ Go(<<[Top EXCEPT !.i = @ + 1]>>) /\ NoAlloc
LabelFails ==
    In("blocks") /\ ret = "failed" /\ Return("failed") /\ NoAlloc /\ UNCHANGED <<made, err>>

AtLeaf == Running("blocks") /\ Top.filled = Top.spec.nlabels /\ (Keyed(Top.val) \/ Listed(Top.val))
Leaf == Bodies(Top.val)[Top.i]
AtBlock == AtLeaf /\ Top.i <= Len(Bodies(Top.val)) /\ Keyed(Leaf)

\* make_block: a block with copies of its labels, then decode_body.
BlockBegins ==
    /\ AtBlock /\ Alloc(1)
    /\ LET labels == SubSeq(calls[OutAt].labels, 1, Top.filled)
           block == [cell |-> next, type |-> Top.spec.type, labels |-> labels, body |-> NoBody]
       IN  calls' = calls \o <<BlockFrame(block), BodyFrame(Leaf, Top.spec.child)>>
    /\ UNCHANGED <<ret, made, err>>
BlockLost == AtBlock /\ Lose({}) /\ Return("failed") /\ UNCHANGED made

\* The body is there: decode_blocks adds the block, or has to free it.
Block == [Top.block EXCEPT !.body = made]
BlockAdded ==
    /\ In("block") /\ ret = "ok"
    /\ calls' = [Below EXCEPT ![OutAt].b = WithBlock(@, Block), ![Len(Below)].i = @ + 1]
    /\ ret' = "none" /\ made' = NoBody /\ NoAlloc /\ UNCHANGED err
BlockNotAdded ==
    /\ In("block") /\ ret = "ok" /\ Lose(BlockCells(Block))
    /\ calls' = Front(Below) /\ ret' = "failed" /\ made' = NoBody
BlockFails ==
    /\ In("block") /\ ret = "failed" /\ Free({Top.block.cell})
    /\ calls' = Front(Below) /\ UNCHANGED <<ret, made, err>>

BlocksDone ==
    /\ \/ AtLabel /\ Keyed(Top.val) /\ Top.i > Len(Top.val.fields)
       \/ AtLeaf /\ Top.i > Len(Bodies(Top.val))
    /\ Return("ok") /\ NoAlloc /\ UNCHANGED <<made, err>>

\* No object for labels, no object in an array of blocks, neither for a block.
WrongShape ==
    /\ \/ AtLabel /\ ~Keyed(Top.val)
       \/ AtLeaf /\ Top.i <= Len(Bodies(Top.val)) /\ ~Keyed(Leaf)
       \/ Running("blocks") /\ ~AtLabel /\ ~Keyed(Top.val) /\ ~Listed(Top.val)
    /\ Refuse({})

-----------------------------------------------------------------------------
(* hcl2_json_decode *)

Returned == calls = <<>> /\ doc = "none"
Made ==
    /\ Returned /\ ret = "ok" /\ doc' = "made" /\ Alloc(1)
    /\ UNCHANGED <<input, calls, ret, made, err>>
MadeLost ==
    /\ Returned /\ ret = "ok" /\ doc' = "null" /\ Lose(made.held) /\ made' = NoBody
    /\ UNCHANGED <<input, calls, ret>>
NotMade ==
    /\ Returned /\ ret = "failed" /\ doc' = "null"
    /\ UNCHANGED <<input, calls, ret, made, err, next, live, faults>>
Over == doc # "none" /\ UNCHANGED vars

BodyStep ==
    \/ BodyBegins \/ BodyNotAnObject \/ BodyLost
    \/ AttrAbsent \/ AttrMissing \/ AttrAdded \/ AttrsDone
    \/ SpecAbsent \/ SpecBegins \/ SpecDone \/ SpecFails \/ BodyDone \/ PropertyUnknown
BlocksStep ==
    \/ LabelBegins \/ LabelDone \/ LabelFails \/ BlocksDone \/ WrongShape
    \/ BlockBegins \/ BlockLost \/ BlockAdded \/ BlockNotAdded \/ BlockFails
Step == (BodyStep \/ BlocksStep) /\ UNCHANGED <<input, doc>>
Next == Step \/ Made \/ MadeLost \/ NotMade \/ Over

Spec == Init /\ [][Next]_vars

-----------------------------------------------------------------------------
(* What activations look like, and which calls which. *)
IsBody(b) == DOMAIN b = {"cell", "held", "attrs", "blocks"}
BodyOK(f) ==
    /\ f.fn = "body"
    /\ DOMAIN f = {"fn", "at", "obj", "schema", "b", "i", "labels", "buffer"}
    /\ f.at \in {"enter", "attrs", "blocks"} /\ f.schema \in Schemas /\ f.i \in Nat \ {0}
    /\ IsBody(f.b) /\ (f.at = "enter" => f.b = NoBody)
BlocksOK(f) ==
    /\ f.fn = "blocks" /\ DOMAIN f = {"fn", "val", "spec", "filled", "i"}
    /\ f.spec \in BlockTypes /\ f.filled \in 0 .. f.spec.nlabels /\ f.i \in Nat \ {0}
BlockOK(f) ==
    /\ f.fn = "block" /\ DOMAIN f = {"fn", "block"}
    /\ DOMAIN f.block = {"cell", "type", "labels", "body"} /\ f.block.body = NoBody

\* decode_body runs for the document or for a block; decode_blocks for the value
\* of a block type, then once for each level of labels; make_block below them.
Calls(f, g) ==
    \/ f.fn = "block" /\ g.fn = "body"
    \/ f.fn = "blocks" /\ g.fn = "block" /\ f.filled = f.spec.nlabels
    \/ /\ f.fn = "body" /\ f.at = "blocks" /\ DOMAIN f.labels = 1 .. g.spec.nlabels
       /\ g.fn = "blocks" /\ g.filled = 0
    \/ f.fn = "blocks" /\ g.fn = "blocks" /\ g.filled = f.filled + 1 /\ g.spec = f.spec

StackOK(cs) ==
    /\ cs \in Seq(ToSet(cs))
    /\ \A i \in DOMAIN cs :
           /\ BodyOK(cs[i]) \/ BlocksOK(cs[i]) \/ BlockOK(cs[i])
           /\ IF i = 1 THEN cs[i].fn = "body" ELSE Calls(cs[i - 1], cs[i])

TypeOK ==
    /\ input \in Inputs
    /\ StackOK(calls)
    /\ ret \in {"none", "ok", "failed"} /\ IsBody(made) /\ err \in BOOLEAN
    /\ next \in Nat \ {0} /\ live \subseteq 1 .. next - 1
    /\ faults \in 0 .. MaxFaults
    /\ doc \in {"none", "made", "null"}

\* Who owns cells: the locals of an activation (the body or the block it makes,
\* and its label buffer), a body that is being returned, and the document.
Owners == ({"data", "buffer"} \X DOMAIN calls) \cup {<<"made", 0>>, <<"doc", 0>>}
Data(f) ==
    CASE f.fn = "body" -> f.b.held [] f.fn = "block" -> BlockCells(f.block) [] OTHER -> {}
Buffer(f) == IF f.fn = "body" THEN {f.buffer} \ {0} ELSE {}
Owned(owner) ==
    CASE owner[1] = "data" -> Data(calls[owner[2]])
      [] owner[1] = "buffer" -> Buffer(calls[owner[2]])
      [] owner[1] = "made" -> made.held
      [] owner[1] = "doc" -> IF doc = "made" THEN {next - 1} ELSE {}

\* Whatever fails, every cell has one owner, a function that runs or the result,
\* and no cell has none: nothing leaks, nothing is freed twice.
OwnedOnce ==
    /\ live = UNION {Owned(o) : o \in Owners}
    /\ \A o1, o2 \in Owners : o1 # o2 => Owned(o1) \cap Owned(o2) = {}

\* All the decode_blocks of a block type share the label buffer, and its keys are
\* borrowed: the places filled so far hold the keys that led to the value each of
\* them is at.
LabelsArePath ==
    \A i \in DOMAIN calls :
        calls[i].fn = "blocks" /\ calls[i].filled > 0 =>
            LET owner == Max({j \in 1 .. i : calls[j].fn = "body"})
                above == calls[i - 1]
            IN  calls[owner].labels[calls[i].filled] = above.val.fields[above.i].key
=============================================================================
