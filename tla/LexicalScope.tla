---------------------------- MODULE LexicalScope ----------------------------
(***************************************************************************)
(* What for-expressions and template for-directives promise about scope,   *)
(* without saying how: a loop hides the bindings of its own variables,     *)
(* changes nothing else while it runs, and when it is over every name is   *)
(* bound as it was before, except that running out of memory may leave one *)
(* of the hidden names unbound (its value is then in lost).                *)
(***************************************************************************)
EXTENDS Naturals, Sequences

CONSTANTS
    Names,      \* identifiers
    Cells,      \* values, by identity
    NoCell,     \* no binding
    NoVar,      \* "this loop has no key variable"
    Headers     \* loop headers [v |-> name, k |-> name or NoVar]

VARIABLES
    env,        \* the bindings an expression sees now
    loops,      \* the loops being evaluated, outermost first
    lost        \* values whose binding could not be put back

scope == <<env, loops, lost>>

Envs == [Names -> Cells \cup {NoCell}]

LoopNames(h) == {h.v, h.k} \ {NoVar}

\* after is before, up to bindings whose value has been lost.
SameScope(before, after, gone) ==
    \A n \in Names : \/ after[n] = before[n]
                     \/ after[n] = NoCell /\ before[n] \in gone

Innermost == loops[Len(loops)]

Init == /\ env = [n \in Names |-> NoCell]
        /\ loops = <<>>
        /\ lost = {}

\* Between evaluations the owner of the context binds what it likes.
Outside == /\ loops = <<>>
           /\ env' \in Envs
           /\ UNCHANGED <<loops, lost>>

Enter(h) ==
    /\ loops' = Append(loops, [head |-> h, outer |-> env])
    /\ env' = [n \in Names |-> IF n \in LoopNames(h) THEN NoCell ELSE env[n]]
    /\ UNCHANGED lost

\* A running loop touches only its own variables, and loses at most what it hid.
Within ==
    /\ loops # <<>>
    /\ env' \in Envs
    /\ \A n \in Names : n \notin LoopNames(Innermost.head) => env'[n] = env[n]
    /\ lost \subseteq lost'
    /\ lost' \subseteq lost \cup {Innermost.outer[n] : n \in LoopNames(Innermost.head)}
    /\ UNCHANGED loops

Leave ==
    /\ loops # <<>>
    /\ loops' = SubSeq(loops, 1, Len(loops) - 1)
    /\ env' \in Envs
    /\ SameScope(Innermost.outer, env', lost)
    /\ UNCHANGED lost

Next == \/ Outside
        \/ \E h \in Headers : Enter(h)
        \/ Within
        \/ Leave

Spec == Init /\ [][Next]_scope
=============================================================================
