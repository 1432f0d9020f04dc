------------------------------ MODULE LoopScope ------------------------------
(***************************************************************************)
(* How for-expressions (eval_for) and template for-directives (handle_for, *)
(* which runs the same protocol) bind their variables in the caller's      *)
(* context and put the hidden bindings back.  Evaluation is recursive: the *)
(* body of a loop may evaluate another loop, and any evaluation may fail   *)
(* or run out of memory half way.  The C stack is the sequence frames.     *)
(*                                                                         *)
(* What a body computes is abstracted: it may start nested loops, succeed  *)
(* or fail.  A loop that failed returns to a body that may go on, because  *)
(* try() and can() swallow the error of their arguments.                   *)
(***************************************************************************)
EXTENDS HclContext, FiniteSets

CONSTANTS
    NoVar,      \* kvar = NULL
    Headers,    \* loop headers that occur: [v |-> name, k |-> name or NoVar]
    MaxDepth,   \* bound on the nesting of loops
    MaxCount    \* bound on the elements of an iterated collection

ASSUME NoVarIsNotAName == NoVar \notin Names
ASSUME HeadersAreHeaders == Headers \subseteq [v : Names, k : Names \cup {NoVar}]
ASSUME BoundsAreNaturals == MaxDepth \in Nat /\ MaxCount \in Nat

VARIABLES
    haveCtx,    \* FALSE when the evaluation was given a NULL context
    vars,       \* the context's variable table
    frames,     \* activations of eval_for / handle_for, outermost first
    live,       \* heap cells allocated and not freed
    leaked      \* history: cells whose last pointer a restore has dropped

state == <<haveCtx, vars, frames, live, leaked>>

Maybe == Cells \cup {NoCell}

Steps == {"iterate", "body", "restoreVal", "restoreKey", "leave"}

(***************************************************************************)
(* A frame holds the locals of the function (saved_v and saved_k are       *)
(* NoCell once handed back to the context) and, for the properties, three  *)
(* history fields: the environment on entry and the cells bound by the     *)
(* current iteration.                                                      *)
(***************************************************************************)
Frames == [head : Headers, left : 0 .. MaxCount, step : Steps, tmp : BOOLEAN,
           saved_v : Maybe, saved_k : Maybe,
           outer : [Names -> Maybe], bound_v : Maybe, bound_k : Maybe]

Depth == Len(frames)
Top == frames[Depth]
At(step) == frames # <<>> /\ Top.step = step

\* Evaluation of an expression is in progress, in the caller's code or in a body.
Evaluating == frames = <<>> \/ At("body")

SetTop(f) == [frames EXCEPT ![Depth] = f]

FreeOne(cells, c) == cells \ {c}      \* hcl2_value_free; NULL is ignored

------------------------------------------------------------------------------
Init == /\ haveCtx \in BOOLEAN
        /\ vars = <<>>
        /\ frames = <<>>
        /\ live = {}
        /\ leaked = {}

\* The owner of the context binds a variable between evaluations.
CallerBinds(n) ==
    /\ frames = <<>> /\ haveCtx
    /\ \E c \in Cells \ live :
         /\ vars' = SetVar(vars, n, c)
         /\ live' = FreeOne(live, Lookup(vars, n)) \cup {c}
    /\ UNCHANGED <<haveCtx, frames, leaked>>

\* hcl2_ctx_free: everything the table still owns goes with it.
CallerFreesCtx ==
    /\ frames = <<>> /\ haveCtx
    /\ haveCtx' = FALSE
    /\ live' = live \ CellsOf(vars)
    /\ vars' = <<>>
    /\ UNCHANGED <<frames, leaked>>

CallerMakesCtx ==
    /\ frames = <<>> /\ ~haveCtx
    /\ haveCtx' = TRUE
    /\ UNCHANGED <<vars, frames, live, leaked>>

(***************************************************************************)
(* A loop starts once its collection is evaluated: a context is made up if *)
(* there is none, and the bindings the loop's variables hide are taken out *)
(* of the table, the value variable's first.  Allocating the result may    *)
(* fail, which skips straight to the restoring.                            *)
(***************************************************************************)
EnterLoop(h) ==
    /\ Evaluating /\ Depth < MaxDepth
    /\ \E count \in 0 .. MaxCount, ok \in BOOLEAN :
         frames' = Append(frames,
             [head |-> h, left |-> count,
              step |-> IF ok THEN "iterate" ELSE "restoreVal",
              tmp |-> ~haveCtx,
              saved_v |-> Lookup(vars, h.v),
              saved_k |-> Lookup(TakeVar(vars, h.v), h.k),
              outer |-> EnvOf(vars), bound_v |-> NoCell, bound_k |-> NoCell])
    /\ vars' = TakeVar(TakeVar(vars, h.v), h.k)
    /\ haveCtx' = TRUE
    /\ UNCHANGED <<live, leaked>>

\* One iteration binds a clone of the element and, with a key variable, its key.
BindValueOnly ==
    /\ At("iterate") /\ Top.left > 0 /\ Top.head.k = NoVar
    /\ \E c \in Cells \ live :
         /\ vars' = SetVar(vars, Top.head.v, c)
         /\ live' = FreeOne(live, Lookup(vars, Top.head.v)) \cup {c}
         /\ frames' = SetTop([Top EXCEPT !.step = "body", !.left = @ - 1, !.bound_v = c])
    /\ UNCHANGED <<haveCtx, leaked>>

BindValueAndKey ==
    /\ At("iterate") /\ Top.left > 0 /\ Top.head.k # NoVar
    /\ \E c \in Cells \ live : \E d \in Cells \ (live \cup {c}) :
         LET withVal == SetVar(vars, Top.head.v, c) IN
         /\ vars' = SetVar(withVal, Top.head.k, d)
         /\ live' = FreeOne(FreeOne(live, Lookup(vars, Top.head.v)) \cup {c},
                            Lookup(withVal, Top.head.k)) \cup {d}
         /\ frames' = SetTop([Top EXCEPT !.step = "body", !.left = @ - 1,
                                         !.bound_v = c, !.bound_k = d])
    /\ UNCHANGED <<haveCtx, leaked>>

\* Mutant: an early return on the first failed allocation.
BindFailsEarly ==
    /\ At("iterate") /\ Top.left > 0
    /\ frames' = SetTop([Top EXCEPT !.step = "leave"])
    /\ UNCHANGED <<haveCtx, vars, live, leaked>>

\* The clone, the key or the new table entry cannot be allocated: what was
\* allocated is freed and the table is as before.
BindFails ==
    /\ At("iterate") /\ Top.left > 0
    /\ frames' = SetTop([Top EXCEPT !.step = "restoreVal"])
    /\ UNCHANGED <<haveCtx, vars, live, leaked>>

\* Mutant: the second failure path frees the value like the first one does.
KeyBindFailsFreesBoth ==
    /\ At("iterate") /\ Top.left > 0 /\ Top.head.k # NoVar
    /\ \E c \in Cells \ live :
         LET withVal == SetVar(vars, Top.head.v, c) IN
         /\ ~Bound(withVal, Top.head.k)
         /\ vars' = withVal
         /\ live' = FreeOne(live, Lookup(vars, Top.head.v))
    /\ frames' = SetTop([Top EXCEPT !.step = "restoreVal"])
    /\ UNCHANGED <<haveCtx, leaked>>

\* The value is bound but the table cannot grow for the key.
KeyBindFails ==
    /\ At("iterate") /\ Top.left > 0 /\ Top.head.k # NoVar
    /\ \E c \in Cells \ live :
         LET withVal == SetVar(vars, Top.head.v, c) IN
         /\ ~Bound(withVal, Top.head.k)
         /\ vars' = withVal
         /\ live' = FreeOne(live, Lookup(vars, Top.head.v)) \cup {c}
    /\ frames' = SetTop([Top EXCEPT !.step = "restoreVal"])
    /\ UNCHANGED <<haveCtx, leaked>>

\* The iteration's filter, key and body are evaluated (or the filter is false).
BodyDone ==
    /\ At("body")
    /\ frames' = SetTop([Top EXCEPT !.step = "iterate"])
    /\ UNCHANGED <<haveCtx, vars, live, leaked>>

\* Mutant: an error in the body returns without restoring.
BodyFailsEarly ==
    /\ At("body")
    /\ frames' = SetTop([Top EXCEPT !.step = "leave"])
    /\ UNCHANGED <<haveCtx, vars, live, leaked>>

BodyFails ==
    /\ At("body")
    /\ frames' = SetTop([Top EXCEPT !.step = "restoreVal"])
    /\ UNCHANGED <<haveCtx, vars, live, leaked>>

LoopEnds ==
    /\ At("iterate") /\ Top.left = 0
    /\ frames' = SetTop([Top EXCEPT !.step = "restoreVal"])
    /\ UNCHANGED <<haveCtx, vars, live, leaked>>

\* Mutant: the saved value is set before the loop's binding is taken out.
RestoreValSwapped ==
    /\ At("restoreVal")
    /\ vars' = TakeVar(vars, Top.head.v)
    /\ live' = live \ {Lookup(vars, Top.head.v), Top.saved_v}
    /\ frames' = SetTop([Top EXCEPT !.step = "restoreKey", !.saved_v = NoCell])
    /\ UNCHANGED <<haveCtx, leaked>>

(***************************************************************************)
(* Restoring one variable: take out and free what the loop left there, put *)
(* the hidden value back.  The result of hcl2_ctx_set_var is ignored, so   *)
(* when the table cannot grow the hidden value is owned by nobody.         *)
(***************************************************************************)
RestoreVal ==
    /\ At("restoreVal")
    /\ LET rest == TakeVar(vars, Top.head.v) IN
         \/ /\ vars' = IF Top.saved_v = NoCell THEN rest
                       ELSE SetVar(rest, Top.head.v, Top.saved_v)
            /\ UNCHANGED leaked
         \/ /\ Top.saved_v # NoCell /\ ~Bound(rest, Top.head.v)
            /\ vars' = rest
            /\ leaked' = leaked \cup {Top.saved_v}
    /\ live' = FreeOne(live, Lookup(vars, Top.head.v))
    /\ frames' = SetTop([Top EXCEPT !.step = "restoreKey", !.saved_v = NoCell])
    /\ UNCHANGED haveCtx

RestoreKey ==
    /\ At("restoreKey")
    /\ LET rest == TakeVar(vars, Top.head.k) IN
         \/ /\ vars' = IF Top.saved_k = NoCell THEN rest
                       ELSE SetVar(rest, Top.head.k, Top.saved_k)
            /\ UNCHANGED leaked
         \/ /\ Top.saved_k # NoCell /\ ~Bound(rest, Top.head.k)
            /\ vars' = rest
            /\ leaked' = leaked \cup {Top.saved_k}
    /\ live' = FreeOne(live, Lookup(vars, Top.head.k))
    /\ frames' = SetTop([Top EXCEPT !.step = "leave", !.saved_k = NoCell])
    /\ UNCHANGED haveCtx

\* The function returns, freeing the context it made up.
LeaveLoop ==
    /\ At("leave")
    /\ frames' = SubSeq(frames, 1, Depth - 1)
    /\ IF Top.tmp
       THEN /\ haveCtx' = FALSE
            /\ vars' = <<>>
            /\ live' = live \ CellsOf(vars)
       ELSE UNCHANGED <<haveCtx, vars, live>>
    /\ UNCHANGED leaked

Next ==
    \/ \E n \in Names : CallerBinds(n)
    \/ CallerFreesCtx
    \/ CallerMakesCtx
    \/ \E h \in Headers : EnterLoop(h)
    \/ BindValueOnly
    \/ BindValueAndKey
    \/ BindFails
    \/ KeyBindFails
    \/ BodyDone
    \/ BodyFails
    \/ LoopEnds
    \/ RestoreVal
    \/ RestoreKey
    \/ LeaveLoop

Spec == Init /\ [][Next]_state

------------------------------------------------------------------------------
\* A NULL context has no table; only the outermost loop can have made up its
\* context, and then nothing was bound outside it; a loop without a key
\* variable has saved nothing for it.
Shape ==
    /\ ~haveCtx => vars = <<>> /\ frames = <<>>
    /\ \A i \in 1 .. Depth : frames[i].tmp =>
           i = 1 /\ \A n \in Names : frames[i].outer[n] = NoCell
    /\ \A i \in 1 .. Depth : frames[i].head.k = NoVar => frames[i].saved_k = NoCell

\* The type invariant: types, the context's shape, and no name listed twice in
\* the table (hcl2_ctx_set_var replaces, ctx_take_var removes one entry).
TypeOK ==
    /\ haveCtx \in BOOLEAN
    /\ vars \in Tables
    /\ frames \in Seq(Frames)
    /\ live \subseteq Cells
    /\ leaked \subseteq Cells
    /\ NamesUnique(vars)
    /\ Shape

\* What the body of a frame should see: the environment of the loop
\* expression itself, overridden by this iteration's variables.
BodyEnv(f) ==
    [n \in Names |-> CASE n = f.head.k -> f.bound_k
                       [] n = f.head.v /\ n # f.head.k -> f.bound_v
                       [] OTHER -> f.outer[n]]

SameBinding(before, after, gone) ==
    after = before \/ (after = NoCell /\ before \in gone)

SameScope(before, after, gone) ==
    \A n \in Names : SameBinding(before[n], after[n], gone)

\* While a body is evaluated, whatever nested loops have come and gone in it,
\* it sees its own loop's variables of this iteration and otherwise the scope
\* the loop itself was written in (eval_for's loop, handle_for's rewound body).
BodyScope ==
    At("body") => SameScope(BodyEnv(Top), EnvOf(vars), leaked)

\* "any shadowed outer bindings are restored afterwards" (eval.c, above
\* eval_for): when a loop returns, by whatever path, every name is bound to
\* the very value it was bound to before, or that value was lost to a failed
\* allocation in the restore.
ScopeRestored ==
    At("leave") => SameScope(Top.outer, EnvOf(vars), leaked)

(***************************************************************************)
(* The inductive strengthening of BodyScope and ScopeRestored.  A loop is  *)
(* entered from the body of the loop below it, so that body's scope is the *)
(* entered loop's outer scope; and a saved pointer is the outer binding    *)
(* until it is handed back.                                                *)
(***************************************************************************)
Nested ==
    \A i \in 1 .. Depth - 1 :
        /\ frames[i].step = "body"
        /\ SameScope(BodyEnv(frames[i]), frames[i + 1].outer, leaked)

SavedIsOuter(f) ==
    /\ f.step \in {"iterate", "body", "restoreVal"} =>
           f.saved_v = f.outer[f.head.v]
    /\ f.step \in {"iterate", "body", "restoreVal", "restoreKey"} =>
           f.saved_k = IF f.head.k = NoVar THEN NoCell ELSE f.outer[f.head.k]

\* The names of the innermost loop that its current step leaves unlike the
\* scope it was entered from.
Hidden(f) ==
    CASE f.step = "leave" -> {}
      [] f.step = "restoreKey" -> {f.head.k}
      [] OTHER -> {f.head.v, f.head.k}

TopScope ==
    frames # <<>> =>
        \A n \in Names \ Hidden(Top) :
            SameBinding(Top.outer[n], Lookup(vars, n), leaked)

ScopeInv == /\ Nested
            /\ \A i \in 1 .. Depth : SavedIsOuter(frames[i])
            /\ TopScope
            /\ BodyScope

\* The slots that own a cell.
Slots == ({"table"} \X DOMAIN vars) \cup ({"v", "k"} \X DOMAIN frames)

Holds(s) == CASE s[1] = "table" -> vars[s[2]].val
              [] s[1] = "v" -> frames[s[2]].saved_v
              [] s[1] = "k" -> frames[s[2]].saved_k

Owned == {Holds(s) : s \in Slots} \ {NoCell}

\* Every cell a pointer leads to is allocated and has one owner (no use after
\* free, no double free), and a cell without an owner is one that a failed
\* restore has dropped (no other path leaks).
OwnedOnce ==
    /\ \A s, t \in Slots : Holds(s) = Holds(t) /\ Holds(s) # NoCell => s = t
    /\ live = Owned \cup leaked
    /\ Owned \cap leaked = {}

------------------------------------------------------------------------------
\* The loops being evaluated, without the program's bookkeeping.
Loops == [i \in 1 .. Depth |-> [head |-> frames[i].head, outer |-> frames[i].outer]]

Scope == INSTANCE LexicalScope
           WITH env <- EnvOf(vars), loops <- Loops, lost <- leaked

\* The protocol of eval_for and handle_for implements lexical scoping.
LexicallyScoped == Scope!Spec
=============================================================================
