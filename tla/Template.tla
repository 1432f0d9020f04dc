------------------------------ MODULE Template ------------------------------
(***************************************************************************)
(* The template renderer (trender, handle_if, handle_for, eval_template):  *)
(* text with interpolations and %{ if } / %{ for } directives is rendered  *)
(* in one pass over the source, without an AST.  The cursor p moves through*)
(* a branch that is not taken as it does through one that is, with active  *)
(* switched off, and goes back to the start of a loop's body for every     *)
(* element.                                                                *)
(*                                                                         *)
(* A source is a sequence of pieces: characters and whole markers.  What   *)
(* an expression evaluates to is written in its marker; only the loop      *)
(* variable (bound as LoopScope shows) depends on where it is evaluated.   *)
(* Running out of memory has the outcome of an evaluation error and is not *)
(* told apart from it.                                                     *)
(***************************************************************************)
EXTENDS Naturals, Sequences

CONSTANT Sources    \* the templates that are rendered

\* What an expression in a marker gives: text, white space, the loop variable,
\* an unknown value, or an error; a condition: true, false, whether this is
\* the loop's first element; a collection: how many elements it has.
Exprs == {"text", "blank", "var", "unk", "err", "true", "false", "first",
          "none", "one", "two", "-"}

\* A char is one character of the text or an escape for it (\n, \", a complete
\* \u or \U, $${ and %%{); e = "blank" is an escape for white space, which no
\* marker skips.  "escape" is a \u or \U, outside of a heredoc, without the digits
\* it needs.  "bad" is a directive trender does not know or whose head it cannot
\* read, or a marker that is not terminated.
Kinds == {"char", "space", "escape", "interp", "if", "else", "endif", "for", "endfor", "bad"}

\* l and r: the ~ that strips white space before and after a marker.
Pieces == [k : Kinds, e : Exprs, l : BOOLEAN, r : BOOLEAN]

ASSUME SourcesArePieces == \A t \in Sources : t \in Seq(Pieces)

VARIABLES
    src,        \* the template
    p,          \* the cursor: index of the next piece
    s,          \* the output so far
    active,     \* emit and evaluate, or traverse structurally
    unknown,    \* something unknown makes the whole result unknown
    fail,       \* an error has been reported
    frames,     \* activations of handle_if and handle_for, outermost first
    run,        \* "render": trender runs; "back": it has returned; "over"
    stop,       \* why trender returned
    result      \* what eval_template returned

state == <<src, p, s, active, unknown, fail, frames, run, stop, result>>

End == Len(src) + 1

Depth == Len(frames)
Top == frames[Depth]
Push(f) == frames' = Append(frames, f)
Pop == frames' = SubSeq(frames, 1, Depth - 1)

\* handle_if: save, cond and cunk are its locals; part is the branch trender
\* is in.
IfFrame(save, cond, cunk) ==
    [fn |-> "if", save |-> save, cond |-> cond, cunk |-> cunk, part |-> "then",
     start |-> 1, count |-> 0, i |-> 0]

\* handle_for: save is the value active has again afterwards; a body that is
\* only traversed has count 0; i is the element the body is rendered for.
ForFrame(save, start, count) ==
    [fn |-> "for", save |-> save, cond |-> FALSE, cunk |-> FALSE, part |-> "body",
     start |-> start, count |-> count, i |-> 0]

Iterating(f) == f.fn = "for" /\ f.count > 0

\* The loop variable as an expression sees it: that of the innermost loop that
\* iterates.  Without one the name is unbound.
Loops == {d \in 1 .. Depth : Iterating(frames[d])}
InLoop == Loops # {}
Index == frames[CHOOSE d \in Loops : \A c \in Loops : c <= d].i

ValueOf(e) ==
    CASE e = "var" -> IF InLoop THEN <<"item", Index>> ELSE <<"err">>
      [] e = "first" -> IF ~InLoop THEN <<"err">>
                        ELSE IF Index = 0 THEN <<"true">> ELSE <<"false">>
      [] OTHER -> <<e>>

\* Characters of the output, white space apart.
Blank == <<"blank">>

\* sb_rtrim: how much of the output is left without its trailing white space.
RTrim(o) ==
    LET inked == {n \in DOMAIN o : o[n] # Blank}
    IN  SubSeq(o, 1, CHOOSE n \in inked \cup {0} : \A m \in inked : m <= n)

\* Mutant: ~} eats the next piece without looking at it.
AfterUnchecked(t, n) == IF t[n].r THEN n + 2 ELSE n + 1

\* The cursor after the marker at n: past it, and with ~} past white space.
After(t, n) ==
    IF ~t[n].r THEN n + 1
    ELSE CHOOSE m \in n + 1 .. Len(t) + 1 :
           /\ \A b \in n + 1 .. m - 1 : t[b].k = "space"
           /\ m <= Len(t) => t[m].k # "space"

Piece == src[p]
Rendering(kinds) == run = "render" /\ p < End /\ Piece.k \in kinds

\* {~ before anything else, when its branch is rendered.
Stripped == IF active /\ Piece.l THEN RTrim(s) ELSE s

Moves == p' = After(src, p)

\* everr and t->fail: trender and every handler return.
Fails == fail' = TRUE /\ run' = "back"

------------------------------------------------------------------------------
Init ==
    /\ src \in Sources
    /\ p = 1
    /\ s = <<>>
    /\ active = TRUE
    /\ unknown = FALSE
    /\ fail = FALSE
    /\ frames = <<>>
    /\ run = "render"
    /\ stop = "end"
    /\ result = <<"none">>

\* trender

Text ==
    /\ Rendering({"char", "space"})
    /\ s' = IF ~active THEN s
            ELSE Append(s, IF Piece.k = "space" \/ Piece.e = "blank" THEN Blank ELSE <<"text">>)
    /\ p' = p + 1
    /\ UNCHANGED <<src, active, unknown, fail, frames, run, stop, result>>

\* The digits of an escape are looked at before active is.
BadEscape ==
    /\ Rendering({"escape"})
    /\ Fails
    /\ UNCHANGED <<src, p, s, active, unknown, frames, stop, result>>

SkipInterpolation ==
    /\ Rendering({"interp"}) /\ ~active
    /\ Moves
    /\ UNCHANGED <<src, s, active, unknown, fail, frames, run, stop, result>>

\* Mutant: an unknown interpolation is rendered as nothing.
InterpolateUnknownAsNothing ==
    /\ Rendering({"interp"}) /\ active /\ ValueOf(Piece.e) = <<"unk">>
    /\ s' = Stripped
    /\ Moves
    /\ UNCHANGED <<src, active, unknown, fail, frames, run, stop, result>>

InterpolateUnknown ==
    /\ Rendering({"interp"}) /\ active /\ ValueOf(Piece.e) = <<"unk">>
    /\ s' = Stripped
    /\ unknown' = TRUE
    /\ Moves
    /\ UNCHANGED <<src, active, fail, frames, run, stop, result>>

InterpolateText ==
    /\ Rendering({"interp"}) /\ active
    /\ ValueOf(Piece.e)[1] \in {"text", "blank", "item"}
    /\ s' = Append(Stripped, ValueOf(Piece.e))
    /\ Moves
    /\ UNCHANGED <<src, active, unknown, fail, frames, run, stop, result>>

\* The expression of an active marker cannot be evaluated, or its value is of
\* the wrong type for the marker.
EvaluationFails ==
    /\ Rendering({"interp", "if", "for"}) /\ active
    /\ ValueOf(Piece.e) = <<"err">>
    /\ s' = Stripped
    /\ Fails
    /\ UNCHANGED <<src, p, active, unknown, frames, stop, result>>

\* Likewise the end of a marker.
BadDirective ==
    /\ Rendering({"bad"})
    /\ s' = Stripped
    /\ Fails
    /\ UNCHANGED <<src, p, active, unknown, frames, stop, result>>

\* else, endif and endfor return to the handler that is waiting for them.
Returns ==
    /\ Rendering({"else", "endif", "endfor"})
    /\ s' = Stripped
    /\ Moves
    /\ stop' = Piece.k
    /\ run' = "back"
    /\ UNCHANGED <<src, active, unknown, fail, frames, result>>

EndOfText ==
    /\ run = "render" /\ p = End
    /\ stop' = "end"
    /\ run' = "back"
    /\ UNCHANGED <<src, p, s, active, unknown, fail, frames, result>>

------------------------------------------------------------------------------
\* handle_if

\* In a branch that is not taken the condition is not evaluated.
EnterIfInactive ==
    /\ Rendering({"if"}) /\ ~active
    /\ Push(IfFrame(active, FALSE, FALSE))
    /\ active' = FALSE
    /\ Moves
    /\ UNCHANGED <<src, s, unknown, fail, run, stop, result>>

EnterIf ==
    /\ Rendering({"if"}) /\ active
    /\ LET c == ValueOf(Piece.e) IN
         /\ c[1] \in {"true", "false", "unk"}
         /\ Push(IfFrame(active, c[1] = "true", c[1] = "unk"))
         /\ active' = (c[1] = "true")
         /\ unknown' = (unknown \/ c[1] = "unk")
    /\ s' = Stripped
    /\ Moves
    /\ UNCHANGED <<src, fail, run, stop, result>>

Back(fn) == run = "back" /\ ~fail /\ frames # <<>> /\ Top.fn = fn

\* Mutant: the else branch of an if that is not rendered is.
ElseForgetsOuter ==
    /\ Back("if") /\ Top.part = "then" /\ stop = "else"
    /\ active' = ~Top.cond
    /\ frames' = [frames EXCEPT ![Depth].part = "else"]
    /\ run' = "render"
    /\ UNCHANGED <<src, p, s, unknown, fail, stop, result>>

Else ==
    /\ Back("if") /\ Top.part = "then" /\ stop = "else"
    /\ active' = (Top.save /\ ~Top.cond /\ ~Top.cunk)
    /\ frames' = [frames EXCEPT ![Depth].part = "else"]
    /\ run' = "render"
    /\ UNCHANGED <<src, p, s, unknown, fail, stop, result>>

\* Mutant: the state of the last branch stays.
EndIfKeepsActive ==
    /\ Back("if") /\ stop = "endif"
    /\ Pop
    /\ run' = "render"
    /\ UNCHANGED <<src, p, s, active, unknown, fail, stop, result>>

EndIf ==
    /\ Back("if") /\ stop = "endif"
    /\ active' = Top.save
    /\ Pop
    /\ run' = "render"
    /\ UNCHANGED <<src, p, s, unknown, fail, stop, result>>

IfNotClosed ==
    /\ Back("if") /\ stop # "endif" /\ ~(Top.part = "then" /\ stop = "else")
    /\ active' = Top.save
    /\ Fails
    /\ UNCHANGED <<src, p, s, unknown, frames, stop, result>>

------------------------------------------------------------------------------
\* handle_for

CountOf(e) == CASE e = "one" -> 1 [] e = "two" -> 2 [] OTHER -> 0

\* Rendering is off, or there is no element, or nobody knows: the body is
\* traversed once to find its end.
EnterForOnce ==
    /\ Rendering({"for"})
    /\ ~active \/ Piece.e \in {"none", "unk"}
    /\ s' = Stripped
    /\ unknown' = (unknown \/ (active /\ Piece.e = "unk"))
    /\ Push(ForFrame(active, After(src, p), 0))
    /\ active' = FALSE
    /\ Moves
    /\ UNCHANGED <<src, fail, run, stop, result>>

EnterFor ==
    /\ Rendering({"for"}) /\ active /\ Piece.e \in {"one", "two"}
    /\ s' = Stripped
    /\ Push(ForFrame(active, After(src, p), CountOf(Piece.e)))
    /\ Moves
    /\ UNCHANGED <<src, active, unknown, fail, run, stop, result>>

MoreElements == Iterating(Top) /\ Top.i + 1 < Top.count

\* Mutant: the counter is not advanced.
NextElementForever ==
    /\ Back("for") /\ MoreElements
    /\ p' = Top.start
    /\ run' = "render"
    /\ UNCHANGED <<src, s, active, unknown, fail, frames, stop, result>>

\* Whatever the body stopped at, the next element starts it again.
NextElement ==
    /\ Back("for") /\ MoreElements
    /\ p' = Top.start
    /\ frames' = [frames EXCEPT ![Depth].i = @ + 1]
    /\ run' = "render"
    /\ UNCHANGED <<src, s, active, unknown, fail, stop, result>>

EndFor ==
    /\ Back("for") /\ ~MoreElements /\ stop = "endfor"
    /\ active' = Top.save
    /\ Pop
    /\ run' = "render"
    /\ UNCHANGED <<src, p, s, unknown, fail, stop, result>>

ForNotClosed ==
    /\ Back("for") /\ ~MoreElements /\ stop # "endfor"
    /\ active' = Top.save
    /\ Fails
    /\ UNCHANGED <<src, p, s, unknown, frames, stop, result>>

------------------------------------------------------------------------------
\* After an error every handler returns.
Unwind ==
    /\ run = "back" /\ fail /\ frames # <<>>
    /\ Pop
    /\ UNCHANGED <<src, p, s, active, unknown, fail, run, stop, result>>

\* eval_template: an error or a directive nobody waits for is an error, and
\* anything unknown makes the text unknown.
Finish ==
    /\ run = "back" /\ frames = <<>>
    /\ run' = "over"
    /\ result' = IF fail \/ stop # "end" THEN <<"error">>
                 ELSE IF unknown THEN <<"unknown">> ELSE <<"string", s>>
    /\ UNCHANGED <<src, p, s, active, unknown, fail, frames, stop>>

Done == run = "over" /\ UNCHANGED state

Next ==
    \/ Text \/ BadEscape \/ SkipInterpolation \/ InterpolateUnknown \/ InterpolateText
    \/ EvaluationFails \/ BadDirective \/ Returns \/ EndOfText
    \/ EnterIfInactive \/ EnterIf \/ Else \/ EndIf \/ IfNotClosed
    \/ EnterForOnce \/ EnterFor \/ NextElement \/ EndFor \/ ForNotClosed
    \/ Unwind \/ Finish \/ Done

\* One call of eval_template: it steps as long as it can.
Spec == Init /\ [][Next]_state /\ WF_state(Next)

------------------------------------------------------------------------------
Frames == [fn : {"if", "for"}, save : BOOLEAN, cond : BOOLEAN, cunk : BOOLEAN,
           part : {"then", "else", "body"}, start : 1 .. End, count : Nat, i : Nat]

Symbols == {<<"text">>, Blank} \cup ({"item"} \X Nat)

\* The type invariant.
TypeOK ==
    /\ src \in Seq(Pieces)
    /\ p \in 1 .. End
    /\ s \in Seq(Symbols)
    /\ active \in BOOLEAN /\ unknown \in BOOLEAN /\ fail \in BOOLEAN
    /\ frames \in Seq(Frames)
    /\ run \in {"render", "back", "over"}
    /\ stop \in {"end", "else", "endif", "endfor"}

\* Does a directive render the part of its body the cursor is in?
Renders(f) ==
    CASE f.part = "then" -> f.cond
      [] f.part = "else" -> ~f.cond /\ ~f.cunk
      [] f.part = "body" -> f.count > 0

\* The flag that handle_if and handle_for save, set and restore around their
\* recursive calls says, at every moment, exactly whether every directive
\* around the cursor renders the branch it is in.
ActiveIsNesting ==
    run = "render" => (active <=> \A d \in 1 .. Depth : Renders(frames[d]))

\* The inductive strengthening: what a handler saved is whether the directives
\* around it render, also while trender returns to it.
ActivityInv ==
    /\ \A d \in 1 .. Depth :
         /\ frames[d].save <=> \A e \in 1 .. d - 1 : Renders(frames[e])
         /\ frames[d].cunk => ~frames[d].cond
         /\ frames[d].fn = "if" <=> frames[d].part # "body"
    /\ fail => run # "render"
    /\ ~fail => (active <=> \A d \in 1 .. Depth : Renders(frames[d]))

\* Errors of the text itself, which no value of an expression avoids.
Malformed == {"bad", "escape"}

\* A branch that is not taken leaves no trace: under a directive that does not
\* render it nothing is emitted, stripped, evaluated, or found unknown.  It is
\* read, though: the whole template fails where the text of the branch is
\* malformed (a directive that cannot be read, a marker without its end, a \u
\* escape without its digits), and for no other reason.
SilentBranches ==
    [][(run = "render" /\ \E d \in 1 .. Depth : ~Renders(frames[d])) =>
           /\ s' = s
           /\ unknown' = unknown
           /\ fail' => fail \/ Piece.k \in Malformed]_state

\* Every template is rendered in finitely many steps, although loops move the
\* cursor back.
Terminates == <>(run = "over")
=============================================================================
