--------------------------- MODULE Template_proofs ---------------------------
(* Proofs about Template: its type invariant, that the active flag says     *)
(* what the directives around the cursor say, and that branches which are   *)
(* not taken leave no trace.                                                *)
EXTENDS Template, BasicLemmas

\* The marker's ~} leaves the cursor further on, and not past the end.
LEMMA AfterType ==
    ASSUME NEW t \in Seq(Pieces), NEW n \in DOMAIN t
    PROVE  After(t, n) \in n + 1 .. Len(t) + 1
<1>1. DOMAIN t = 1 .. Len(t) /\ Len(t) \in Nat
  BY ElementType
<1> DEFINE stops == {m \in n + 1 .. Len(t) + 1 : m <= Len(t) => t[m].k # "space"}
<1>2. stops \subseteq Nat /\ Len(t) + 1 \in stops
  BY <1>1
<1>3. PICK m \in stops : \A x \in stops : m <= x
  <2> HIDE DEF stops
  <2> QED
    BY <1>2, LeastNumber
<1>4. \A b \in n + 1 .. m - 1 : t[b].k = "space"
  <2> SUFFICES ASSUME NEW b \in n + 1 .. m - 1, t[b].k # "space"
               PROVE  FALSE
    OBVIOUS
  <2>1. b \in stops /\ b < m
    BY <1>1, <1>3
  <2> QED
    BY <1>1, <1>3, <2>1
<1>5. \E x \in n + 1 .. Len(t) + 1 :
         /\ \A b \in n + 1 .. x - 1 : t[b].k = "space"
         /\ x <= Len(t) => t[x].k # "space"
  BY <1>3, <1>4
<1>6. n + 1 \in n + 1 .. Len(t) + 1
  BY <1>1
<1> QED
  BY <1>5, <1>6 DEF After

LEMMA RTrimType ==
    ASSUME NEW o \in Seq(Symbols)
    PROVE  RTrim(o) \in Seq(Symbols)
<1> DEFINE inked == {n \in DOMAIN o : o[n] # Blank}
           last == CHOOSE n \in inked \cup {0} : \A m \in inked : m <= n
<1>1. DOMAIN o = 1 .. Len(o) /\ Len(o) \in Nat /\ \A i \in 1 .. Len(o) : o[i] \in Symbols
  BY ElementType
<1>2. inked \cup {0} \subseteq 0 .. Len(o) /\ inked \cup {0} # {}
  BY <1>1
<1>3. \E n \in inked \cup {0} : \A m \in inked \cup {0} : m <= n
  <2> HIDE DEF inked
  <2> QED
    BY <1>1, <1>2, GreatestNumber
<1>4. last \in 0 .. Len(o)
  BY <1>2, <1>3
<1>5. SubSeq(o, 1, last) \in Seq(Symbols)
  <2> HIDE DEF last
  <2> QED
    BY <1>1, <1>4
<1> QED
  BY <1>5 DEF RTrim

LEMMA StrippedType ==
    ASSUME TypeOK
    PROVE  Stripped \in Seq(Symbols)
BY RTrimType DEF TypeOK, Stripped

LEMMA PieceType ==
    ASSUME TypeOK, p < End
    PROVE  /\ p \in DOMAIN src
           /\ Piece \in Pieces
           /\ After(src, p) \in 1 .. End
<1>1. DOMAIN src = 1 .. Len(src) /\ Len(src) \in Nat /\ p \in 1 .. Len(src)
  BY ElementType DEF TypeOK, End
<1>2. After(src, p) \in p + 1 .. Len(src) + 1
  BY <1>1, AfterType DEF TypeOK
<1> QED
  BY <1>1, <1>2, ElementType DEF TypeOK, Piece, End

LEMMA TopType ==
    ASSUME TypeOK, frames # <<>>
    PROVE  /\ Depth \in Nat /\ Depth >= 1
           /\ Top \in Frames
BY StackTop DEF TypeOK, Depth, Top

\* The loop variable, when there is one, is the index of an element.
LEMMA IndexType ==
    ASSUME TypeOK, InLoop
    PROVE  Index \in Nat
<1>1. DOMAIN frames = 1 .. Depth /\ Depth \in Nat
  BY ElementType DEF TypeOK, Depth
<1>2. Loops \subseteq 0 .. Depth /\ Loops # {}
  BY <1>1 DEF Loops, InLoop
<1>3. \E d \in Loops : \A c \in Loops : c <= d
  BY <1>1, <1>2, GreatestNumber
<1>4. PICK d \in Loops : Index = frames[d].i
  BY <1>3 DEF Index
<1>5. frames[d] \in Frames
  BY <1>1, <1>4, ElementType DEF Loops, TypeOK
<1> QED
  BY <1>4, <1>5 DEF Frames

LEMMA ValueType ==
    ASSUME TypeOK, NEW e \in Exprs, ValueOf(e)[1] \in {"text", "blank", "item"}
    PROVE  ValueOf(e) \in Symbols
<1>1. CASE e = "var"
  BY <1>1, IndexType DEF ValueOf, Symbols
<1>2. CASE e = "first"
  BY <1>2 DEF ValueOf
<1>3. CASE e \notin {"var", "first"}
  <2>1. ValueOf(e) = <<e>>
    BY <1>3 DEF ValueOf
  <2>2. e \in {"text", "blank"}
    BY <2>1 DEF Exprs
  <2> QED
    BY <2>1, <2>2 DEF Symbols, Blank
<1> QED
  BY <1>1, <1>2, <1>3

LEMMA FrameTypes ==
    ASSUME TypeOK,
           NEW save \in BOOLEAN, NEW cond \in BOOLEAN, NEW cunk \in BOOLEAN,
           NEW start \in 1 .. End, NEW count \in Nat
    PROVE  /\ IfFrame(save, cond, cunk) \in Frames
           /\ ForFrame(save, start, count) \in Frames
BY ElementType DEF IfFrame, ForFrame, Frames, TypeOK, End

LEMMA PushType ==
    ASSUME TypeOK, NEW f \in Frames, Push(f)
    PROVE  /\ frames' \in Seq(Frames)
           /\ Depth' = Depth + 1 /\ Depth \in Nat
           /\ frames'[Depth + 1] = f
           /\ \A d \in 1 .. Depth : frames'[d] = frames[d]
BY StackPush, ElementType DEF TypeOK, Push, Depth

LEMMA PopType ==
    ASSUME TypeOK, frames # <<>>, Pop
    PROVE  /\ frames' \in Seq(Frames)
           /\ Depth' = Depth - 1 /\ Depth \in Nat /\ Depth >= 1
           /\ \A d \in 1 .. Depth - 1 : frames'[d] = frames[d]
BY StackPop, StackTop DEF TypeOK, Pop, Depth

\* A handler changes a local variable of its own.
LEMMA UpdateType ==
    ASSUME TypeOK, frames # <<>>, NEW f \in Frames,
           frames' = [frames EXCEPT ![Depth] = f]
    PROVE  /\ frames' \in Seq(Frames)
           /\ Depth' = Depth /\ Depth \in Nat /\ Depth >= 1
           /\ frames'[Depth] = f
           /\ \A d \in 1 .. Depth - 1 : frames'[d] = frames[d]
<1> DEFINE t == [frames EXCEPT ![Len(frames)] = f]
<1>1. frames \in Seq(Frames) /\ frames' = t
  BY DEF TypeOK, Depth
<1> HIDE DEF t
<1>2. /\ t \in Seq(Frames)
      /\ Len(t) = Len(frames) /\ t # <<>>
      /\ t[Len(frames)] = f
      /\ \A i \in 1 .. Len(frames) - 1 : t[i] = frames[i]
  BY <1>1, StackUpdate DEF t
<1>3. Len(frames) \in Nat /\ Len(frames) >= 1
  BY <1>1, StackTop
<1> QED
  BY <1>1, <1>2, <1>3 DEF Depth

LEMMA ElseFrame ==
    ASSUME TypeOK, Else
    PROVE  /\ frames # <<>>
           /\ [Top EXCEPT !.part = "else"] \in Frames
           /\ frames' = [frames EXCEPT ![Depth] = [Top EXCEPT !.part = "else"]]
<1>1. frames # <<>> /\ Top \in Frames
  BY TopType DEF Else, Back
<1>2. [Top EXCEPT !.part = "else"] \in Frames
  BY <1>1 DEF Frames
<1> QED
  BY <1>1, <1>2 DEF Else, Top

LEMMA NextElementFrame ==
    ASSUME TypeOK, NextElement
    PROVE  /\ frames # <<>>
           /\ [Top EXCEPT !.i = @ + 1] \in Frames
           /\ frames' = [frames EXCEPT ![Depth] = [Top EXCEPT !.i = @ + 1]]
<1>1. frames # <<>> /\ Top \in Frames
  BY TopType DEF NextElement, Back
<1>2. Top.i + 1 \in Nat
  BY <1>1 DEF Frames
<1>3. [Top EXCEPT !.i = @ + 1] \in Frames
  BY <1>1, <1>2 DEF Frames
<1> QED
  BY <1>1, <1>3 DEF NextElement, Top

------------------------------------------------------------------------------
LEMMA TypeInit == Init => TypeOK
<1> SUFFICES ASSUME Init
             PROVE  TypeOK
  OBVIOUS
<1>1. src \in Seq(Pieces) /\ p = 1
  BY SourcesArePieces DEF Init
<1>2. p \in 1 .. End
  BY <1>1, ElementType DEF End
<1>3. s \in Seq(Symbols) /\ frames \in Seq(Frames)
  BY DEF Init
<1> QED
  BY <1>1, <1>2, <1>3 DEF Init, TypeOK

LEMMA TypeStep == TypeOK /\ [Next]_state => TypeOK'
<1> SUFFICES ASSUME TypeOK, [Next]_state
             PROVE  TypeOK'
  OBVIOUS
<1>0. src' = src => Frames' = Frames /\ End' = End
  BY DEF Frames, End
<1>1. CASE Text
  <2>1. p < End /\ p + 1 \in 1 .. End
    BY <1>1, PieceType, ElementType DEF Text, Rendering, TypeOK, End
  <2>2. <<"text">> \in Symbols /\ Blank \in Symbols
    BY DEF Symbols
  <2>3. s' \in Seq(Symbols)
    BY <1>0, <1>1, <2>2 DEF Text, TypeOK
  <2> QED
    BY <1>0, <1>1, <2>1, <2>3 DEF Text, TypeOK
<1>22. CASE BadEscape
  BY <1>0, <1>22 DEF BadEscape, Fails, TypeOK
<1>2. CASE SkipInterpolation
  BY <1>0, <1>2, PieceType DEF SkipInterpolation, Rendering, Moves, TypeOK
<1>3. CASE InterpolateUnknown
  BY <1>0, <1>3, PieceType, StrippedType DEF InterpolateUnknown, Rendering, Moves, TypeOK
<1>4. CASE InterpolateText
  <2>1. p < End /\ After(src, p) \in 1 .. End /\ Piece.e \in Exprs
    BY <1>4, PieceType DEF InterpolateText, Rendering, Pieces
  <2>2. ValueOf(Piece.e) \in Symbols
    BY <1>4, <2>1, ValueType DEF InterpolateText
  <2>3. s' \in Seq(Symbols)
    <3> DEFINE v == ValueOf(Piece.e)
    <3>1. s' = Append(Stripped, v)
      BY <1>4 DEF InterpolateText
    <3> HIDE DEF v
    <3> QED
      BY <2>2, <3>1, StrippedType DEF v
  <2> QED
    BY <1>0, <1>4, <2>1, <2>3 DEF InterpolateText, Moves, TypeOK
<1>5. CASE EvaluationFails
  BY <1>0, <1>5, StrippedType DEF EvaluationFails, Fails, TypeOK
<1>6. CASE BadDirective
  BY <1>0, <1>6, StrippedType DEF BadDirective, Fails, TypeOK
<1>7. CASE Returns
  BY <1>0, <1>7, PieceType, StrippedType DEF Returns, Rendering, Moves, TypeOK
<1>8. CASE EndOfText
  BY <1>0, <1>8 DEF EndOfText, TypeOK
<1>9. CASE EnterIfInactive
  <2>1. frames' \in Seq(Frames)
    BY <1>9, FrameTypes, PushType DEF EnterIfInactive, TypeOK
  <2> QED
    BY <1>0, <1>9, <2>1, PieceType DEF EnterIfInactive, Rendering, Moves, TypeOK
<1>10. CASE EnterIf
  <2>1. frames' \in Seq(Frames) /\ active' \in BOOLEAN /\ unknown' \in BOOLEAN
    <3> DEFINE c == ValueOf(Piece.e)
    <3>1. /\ Push(IfFrame(active, c[1] = "true", c[1] = "unk"))
          /\ active' = (c[1] = "true")
          /\ unknown' = (unknown \/ c[1] = "unk")
      BY <1>10 DEF EnterIf
    <3> HIDE DEF c
    <3> QED
      BY <3>1, FrameTypes, PushType DEF TypeOK
  <2> QED
    BY <1>0, <1>10, <2>1, PieceType, StrippedType DEF EnterIf, Rendering, Moves, TypeOK
<1>11. CASE Else
  <2>1. frames' \in Seq(Frames) /\ Top \in Frames
    BY <1>11, ElseFrame, UpdateType, TopType
  <2>2. active' \in BOOLEAN
    BY <1>11, <2>1 DEF Else, Frames
  <2> QED
    BY <1>0, <1>11, <2>1, <2>2 DEF Else, TypeOK
<1>12. CASE EndIf
  <2>1. frames' \in Seq(Frames) /\ Top \in Frames
    BY <1>12, PopType, TopType DEF EndIf, Back
  <2>2. active' \in BOOLEAN
    BY <1>12, <2>1 DEF EndIf, Frames
  <2> QED
    BY <1>0, <1>12, <2>1, <2>2 DEF EndIf, TypeOK
<1>13. CASE IfNotClosed
  <2>1. active' \in BOOLEAN
    BY <1>13, TopType DEF IfNotClosed, Back, Frames
  <2> QED
    BY <1>0, <1>13, <2>1 DEF IfNotClosed, Fails, TypeOK
<1>14. CASE EnterForOnce
  <2>1. After(src, p) \in 1 .. End /\ After(src, p) \in Nat
    BY <1>14, PieceType DEF EnterForOnce, Rendering
  <2>2. frames' \in Seq(Frames)
    BY <1>14, <2>1, FrameTypes, PushType DEF EnterForOnce, TypeOK
  <2>3. unknown' \in BOOLEAN
    BY <1>0, <1>14 DEF EnterForOnce, TypeOK
  <2> QED
    BY <1>0, <1>14, <2>1, <2>2, <2>3, StrippedType DEF EnterForOnce, Moves, TypeOK
<1>15. CASE EnterFor
  <2>1. After(src, p) \in 1 .. End /\ After(src, p) \in Nat
    BY <1>15, PieceType DEF EnterFor, Rendering
  <2>2. CountOf(Piece.e) \in Nat
    BY DEF CountOf
  <2>3. frames' \in Seq(Frames)
    BY <1>15, <2>1, <2>2, FrameTypes, PushType DEF EnterFor, TypeOK
  <2> QED
    BY <1>0, <1>15, <2>1, <2>3, StrippedType DEF EnterFor, Moves, TypeOK
<1>16. CASE NextElement
  <2>1. frames' \in Seq(Frames)
    BY <1>16, NextElementFrame, UpdateType
  <2>2. p' \in 1 .. End
    BY <1>16, NextElementFrame, TopType DEF NextElement, Frames
  <2>3. /\ run' = "render"
        /\ UNCHANGED <<src, s, active, unknown, fail, stop>>
    BY <1>16 DEF NextElement
  <2> QED
    BY <1>0, <2>1, <2>2, <2>3 DEF TypeOK
<1>17. CASE EndFor
  <2>1. frames' \in Seq(Frames) /\ Top \in Frames
    BY <1>17, PopType, TopType DEF EndFor, Back
  <2>2. active' \in BOOLEAN
    BY <1>17, <2>1 DEF EndFor, Frames
  <2> QED
    BY <1>0, <1>17, <2>1, <2>2 DEF EndFor, TypeOK
<1>18. CASE ForNotClosed
  <2>1. active' \in BOOLEAN
    BY <1>18, TopType DEF ForNotClosed, Back, Frames
  <2> QED
    BY <1>0, <1>18, <2>1 DEF ForNotClosed, Fails, TypeOK
<1>19. CASE Unwind
  <2>1. frames' \in Seq(Frames)
    BY <1>19, PopType DEF Unwind
  <2> QED
    BY <1>0, <1>19, <2>1 DEF Unwind, TypeOK
<1>20. CASE Finish
  BY <1>0, <1>20 DEF Finish, TypeOK
<1>21. CASE UNCHANGED state
  BY <1>0, <1>21 DEF state, TypeOK
<1> QED
  BY <1>1, <1>2, <1>3, <1>4, <1>5, <1>6, <1>7, <1>8, <1>9, <1>10, <1>11, <1>12, <1>13,
     <1>14, <1>15, <1>16, <1>17, <1>18, <1>19, <1>20, <1>21, <1>22 DEF Next, Done

\* Every reachable state is well typed, for templates of every length.
THEOREM TypeCorrect == Spec => []TypeOK
BY TypeInit, TypeStep, PTL DEF Spec

------------------------------------------------------------------------------
(* The active flag.  One lemma for each thing a step does to the frames.    *)

FrameOK(f) == /\ f.cunk => ~f.cond
              /\ f.fn = "if" <=> f.part # "body"

LEMMA ActivityKept ==
    ASSUME ActivityInv, frames' = frames,
           fail' => run' # "render",
           ~fail' => ~fail /\ active' = active
    PROVE  ActivityInv'
<1>1. Depth' = Depth
  BY DEF Depth
<1>2. /\ \A d \in 1 .. Depth :
           /\ frames[d].save <=> \A e \in 1 .. d - 1 : Renders(frames[e])
           /\ FrameOK(frames[d])
      /\ ~fail => (active <=> \A d \in 1 .. Depth : Renders(frames[d]))
  BY DEF ActivityInv, FrameOK
<1>3. /\ \A d \in 1 .. Depth' :
           /\ frames'[d].save <=> \A e \in 1 .. d - 1 : Renders(frames'[e])
           /\ FrameOK(frames'[d])
      /\ ~fail' => (active' <=> \A d \in 1 .. Depth' : Renders(frames'[d]))
  BY <1>1, <1>2
<1> QED
  BY <1>3 DEF ActivityInv, FrameOK, Renders

LEMMA ActivityPush ==
    ASSUME TypeOK, ActivityInv, ~fail, ~fail', NEW f \in Frames, Push(f),
           f.save = active, FrameOK(f), active' <=> active /\ Renders(f)
    PROVE  ActivityInv'
<1>1. /\ Depth' = Depth + 1 /\ Depth \in Nat
      /\ frames'[Depth + 1] = f
      /\ \A d \in 1 .. Depth : frames'[d] = frames[d]
  BY PushType
<1>2. \A d \in 1 .. Depth : d \in 1 .. Depth + 1 /\ \A e \in 1 .. d - 1 : e \in 1 .. Depth
  BY <1>1
<1>3. active <=> \A d \in 1 .. Depth : Renders(frames[d])
  BY DEF ActivityInv
<1>4. \A d \in 1 .. Depth' :
         /\ frames'[d].save <=> \A e \in 1 .. d - 1 : Renders(frames'[e])
         /\ FrameOK(frames'[d])
  <2> SUFFICES ASSUME NEW d \in 1 .. Depth'
               PROVE  /\ frames'[d].save <=> \A e \in 1 .. d - 1 : Renders(frames'[e])
                      /\ FrameOK(frames'[d])
    OBVIOUS
  <2>1. CASE d = Depth + 1
    <3>1. d - 1 = Depth
      BY <1>1, <2>1
    <3> QED
      BY <1>1, <1>3, <2>1, <3>1
  <2>2. CASE d # Depth + 1
    <3>1. d \in 1 .. Depth
      BY <1>1, <2>2
    <3> QED
      BY <1>1, <1>2, <3>1 DEF ActivityInv, FrameOK
  <2> QED
    BY <2>1, <2>2
<1>5. active' <=> \A d \in 1 .. Depth' : Renders(frames'[d])
  <2>1. \A d \in 1 .. Depth + 1 : d \in 1 .. Depth \/ d = Depth + 1
    BY <1>1
  <2>2. Depth + 1 \in 1 .. Depth + 1
    BY <1>1
  <2> QED
    BY <1>1, <1>2, <1>3, <2>1, <2>2
<1> QED
  BY <1>4, <1>5 DEF ActivityInv, FrameOK, Renders

LEMMA ActivityUpdate ==
    ASSUME TypeOK, ActivityInv, ~fail', frames # <<>>, NEW f \in Frames,
           frames' = [frames EXCEPT ![Depth] = f],
           f.save = Top.save, FrameOK(f), active' <=> f.save /\ Renders(f)
    PROVE  ActivityInv'
<1>1. /\ Depth' = Depth /\ Depth \in Nat /\ Depth >= 1
      /\ frames'[Depth] = f
      /\ \A d \in 1 .. Depth - 1 : frames'[d] = frames[d]
  BY UpdateType
<1>2. \A d \in 1 .. Depth : \A e \in 1 .. d - 1 : frames'[e] = frames[e]
  BY <1>1
<1>3. \A d \in 1 .. Depth :
         /\ frames'[d].save <=> \A e \in 1 .. d - 1 : Renders(frames'[e])
         /\ FrameOK(frames'[d])
  <2> SUFFICES ASSUME NEW d \in 1 .. Depth
               PROVE  /\ frames'[d].save <=> \A e \in 1 .. d - 1 : Renders(frames'[e])
                      /\ FrameOK(frames'[d])
    OBVIOUS
  <2>1. frames[d].save <=> \A e \in 1 .. d - 1 : Renders(frames[e])
    BY DEF ActivityInv
  <2>2. frames[d].save <=> \A e \in 1 .. d - 1 : Renders(frames'[e])
    BY <1>2, <2>1, Zenon
  <2>3. CASE d = Depth
    BY <1>1, <2>2, <2>3, Zenon DEF Top
  <2>4. CASE d # Depth
    <3>1. frames'[d] = frames[d]
      BY <1>1, <2>4
    <3>2. FrameOK(frames[d])
      BY DEF ActivityInv, FrameOK
    <3> QED
      BY <2>2, <3>1, <3>2, Zenon
  <2> QED
    BY <2>3, <2>4
<1>4. f.save <=> \A e \in 1 .. Depth - 1 : Renders(frames'[e])
  BY <1>1, <1>3
<1>5. active' <=> \A d \in 1 .. Depth : Renders(frames'[d])
  <2>1. \A d \in 1 .. Depth : d \in 1 .. Depth - 1 \/ d = Depth
    BY <1>1
  <2>2. Depth \in 1 .. Depth /\ \A d \in 1 .. Depth - 1 : d \in 1 .. Depth
    BY <1>1
  <2> QED
    BY <1>1, <1>4, <2>1, <2>2, Zenon
<1> QED
  BY <1>1, <1>3, <1>5 DEF ActivityInv, FrameOK, Renders

LEMMA ActivityPop ==
    ASSUME TypeOK, ActivityInv, frames # <<>>, Pop,
           fail' => run' # "render",
           ~fail' => (active' <=> Top.save)
    PROVE  ActivityInv'
<1>1. /\ Depth' = Depth - 1 /\ Depth \in Nat /\ Depth >= 1
      /\ \A d \in 1 .. Depth - 1 : frames'[d] = frames[d]
  BY PopType
<1>2. /\ \A d \in 1 .. Depth - 1 : d \in 1 .. Depth /\ \A e \in 1 .. d - 1 : e \in 1 .. Depth - 1
      /\ Depth \in 1 .. Depth
  BY <1>1
<1>3. Top.save <=> \A e \in 1 .. Depth - 1 : Renders(frames[e])
  BY <1>2 DEF ActivityInv, Top
<1>4. \A d \in 1 .. Depth' :
         /\ frames'[d].save <=> \A e \in 1 .. d - 1 : Renders(frames'[e])
         /\ FrameOK(frames'[d])
  BY <1>1, <1>2 DEF ActivityInv, FrameOK
<1>5. ~fail' => (active' <=> \A d \in 1 .. Depth' : Renders(frames'[d]))
  BY <1>1, <1>3
<1> QED
  BY <1>4, <1>5 DEF ActivityInv, FrameOK, Renders

LEMMA ActivityInit == Init => ActivityInv
BY DEF Init, ActivityInv, Depth

LEMMA ActivityStep == TypeOK /\ ActivityInv /\ [Next]_state => ActivityInv'
<1> SUFFICES ASSUME TypeOK, ActivityInv, [Next]_state
             PROVE  ActivityInv'
  OBVIOUS
<1>0. run = "render" => ~fail
  BY DEF ActivityInv
<1>1. CASE \/ Text \/ SkipInterpolation \/ InterpolateUnknown \/ InterpolateText
           \/ Returns \/ EndOfText
  BY <1>0, <1>1, ActivityKept
     DEF Text, SkipInterpolation, InterpolateUnknown, InterpolateText, Returns,
         EndOfText, Rendering
<1>2. CASE \/ BadEscape \/ EvaluationFails \/ BadDirective \/ IfNotClosed \/ ForNotClosed
  BY <1>2, ActivityKept
     DEF BadEscape, EvaluationFails, BadDirective, IfNotClosed, ForNotClosed, Fails
<1>3. CASE EnterIfInactive
  <2> DEFINE f == IfFrame(active, FALSE, FALSE)
  <2>1. f \in Frames
    BY <1>3, FrameTypes, PieceType DEF EnterIfInactive, Rendering, TypeOK, IfFrame, Frames
  <2>2. f.save = active /\ FrameOK(f) /\ ~Renders(f)
    BY DEF IfFrame, FrameOK, Renders
  <2>3. ~fail /\ ~fail' /\ Push(f) /\ ~active'
    BY <1>0, <1>3 DEF EnterIfInactive, Rendering
  <2> QED
    BY <2>1, <2>2, <2>3, ActivityPush
<1>4. CASE EnterIf
  <2> DEFINE c == ValueOf(Piece.e)[1]
             f == IfFrame(active, c = "true", c = "unk")
  <2>1. c \in {"true", "false", "unk"} /\ Push(f) /\ (active' <=> c = "true")
    BY <1>4 DEF EnterIf
  <2>2. f \in Frames
    BY <1>4, FrameTypes, PieceType DEF EnterIf, Rendering, TypeOK, IfFrame, Frames
  <2>3. f.save = active /\ FrameOK(f) /\ (Renders(f) <=> c = "true")
    BY DEF IfFrame, FrameOK, Renders
  <2>4. ~fail /\ ~fail' /\ active
    BY <1>0, <1>4 DEF EnterIf, Rendering
  <2> QED
    BY <2>1, <2>2, <2>3, <2>4, ActivityPush
<1>5. CASE Else
  <2> DEFINE f == [Top EXCEPT !.part = "else"]
  <2>1. /\ frames # <<>> /\ f \in Frames
        /\ frames' = [frames EXCEPT ![Depth] = f]
    BY <1>5, ElseFrame
  <2>2. Top \in Frames /\ Depth \in 1 .. Depth
    BY <2>1, TopType
  <2>3. /\ f.save = Top.save /\ f.cond = Top.cond /\ f.cunk = Top.cunk
        /\ f.fn = "if" /\ f.part = "else"
    BY <1>5, <2>2 DEF Else, Back, Frames
  <2>4. FrameOK(f)
    BY <2>2, <2>3 DEF ActivityInv, FrameOK, Top
  <2>5. active' <=> f.save /\ Renders(f)
    BY <1>5, <2>3 DEF Else, Renders
  <2>6. ~fail'
    BY <1>5 DEF Else, Back
  <2> QED
    BY <2>1, <2>3, <2>4, <2>5, <2>6, ActivityUpdate
<1>6. CASE EndIf \/ EndFor
  BY <1>6, ActivityPop DEF EndIf, EndFor, Back
<1>7. CASE EnterForOnce
  <2> DEFINE f == ForFrame(active, After(src, p), 0)
  <2>1. f \in Frames
    BY <1>7, FrameTypes, PieceType DEF EnterForOnce, Rendering, TypeOK
  <2>2. f.save = active /\ FrameOK(f) /\ ~Renders(f)
    BY DEF ForFrame, FrameOK, Renders
  <2>3. ~fail /\ ~fail' /\ Push(f) /\ ~active'
    BY <1>0, <1>7 DEF EnterForOnce, Rendering
  <2> QED
    BY <2>1, <2>2, <2>3, ActivityPush
<1>8. CASE EnterFor
  <2> DEFINE n == CountOf(Piece.e)
             f == ForFrame(active, After(src, p), n)
  <2>1. n \in Nat /\ n > 0
    BY <1>8 DEF EnterFor, CountOf
  <2>2. f \in Frames
    BY <1>8, <2>1, FrameTypes, PieceType DEF EnterFor, Rendering, TypeOK
  <2>3. f.save = active /\ FrameOK(f) /\ Renders(f)
    BY <2>1 DEF ForFrame, FrameOK, Renders
  <2>4. ~fail /\ ~fail' /\ Push(f) /\ active' = active
    BY <1>0, <1>8 DEF EnterFor, Rendering
  <2> QED
    BY <2>2, <2>3, <2>4, ActivityPush
<1>9. CASE NextElement
  <2> DEFINE f == [Top EXCEPT !.i = @ + 1]
  <2>1. /\ frames # <<>> /\ f \in Frames
        /\ frames' = [frames EXCEPT ![Depth] = f]
    BY <1>9, NextElementFrame
  <2>2. Top \in Frames /\ Depth \in 1 .. Depth /\ Depth \in Nat
    BY <2>1, TopType
  <2>3. /\ f.save = Top.save /\ f.cond = Top.cond /\ f.cunk = Top.cunk
        /\ f.fn = Top.fn /\ f.part = Top.part /\ f.count = Top.count
    BY <2>2 DEF Frames
  <2>4. FrameOK(f) /\ Renders(f) = Renders(Top)
    BY <2>2, <2>3 DEF ActivityInv, FrameOK, Top, Renders
  <2>5. active <=> Top.save /\ Renders(Top)
    <3>1. Top.save <=> \A e \in 1 .. Depth - 1 : Renders(frames[e])
      BY <2>2 DEF ActivityInv, Top
    <3>2. active <=> \A d \in 1 .. Depth : Renders(frames[d])
      BY <1>9 DEF ActivityInv, NextElement, Back
    <3>3. \A d \in 1 .. Depth : d \in 1 .. Depth - 1 \/ d = Depth
      BY <2>2
    <3>4. \A d \in 1 .. Depth - 1 : d \in 1 .. Depth
      BY <2>2
    <3> QED
      BY <2>2, <3>1, <3>2, <3>3, <3>4, Zenon DEF Top
  <2>6. ~fail' /\ active' = active
    BY <1>9 DEF NextElement, Back
  <2> QED
    BY <2>1, <2>3, <2>4, <2>5, <2>6, ActivityUpdate
<1>10. CASE Unwind
  BY <1>10, ActivityPop DEF Unwind
<1>11. CASE Finish
  BY <1>11, ActivityKept DEF Finish, ActivityInv
<1>12. CASE UNCHANGED state
  BY <1>12, ActivityKept DEF state, ActivityInv
<1> QED
  BY <1>1, <1>2, <1>3, <1>4, <1>5, <1>6, <1>7, <1>8, <1>9, <1>10, <1>11, <1>12
     DEF Next, Done

LEMMA ActivityInvariant == Spec => [](TypeOK /\ ActivityInv)
<1>1. Init => TypeOK /\ ActivityInv
  BY TypeInit, ActivityInit
<1>2. TypeOK /\ ActivityInv /\ [Next]_state => (TypeOK /\ ActivityInv)'
  BY TypeStep, ActivityStep
<1> QED
  BY <1>1, <1>2, PTL DEF Spec

\* While pieces are rendered, active says whether every directive around the
\* cursor renders the branch it is in, for every template and nesting.
THEOREM ActiveCorrect == Spec => []ActiveIsNesting
<1>1. TypeOK /\ ActivityInv => ActiveIsNesting
  BY DEF ActivityInv, ActiveIsNesting
<1> QED
  BY <1>1, ActivityInvariant, PTL

\* A step taken under a directive that does not render its branch emits, strips
\* and evaluates nothing, and fails only where the text is malformed.
THEOREM SilentCorrect == Spec => SilentBranches
<1> DEFINE Off == run = "render" /\ \E d \in 1 .. Depth : ~Renders(frames[d])
           Silent == /\ s' = s
                     /\ unknown' = unknown
                     /\ fail' => fail \/ Piece.k \in Malformed
<1>1. TypeOK /\ ActivityInv /\ [Next]_state => (Off => Silent)
  <2> SUFFICES ASSUME TypeOK, ActivityInv, [Next]_state, Off
               PROVE  Silent
    OBVIOUS
  <2>1. ~active /\ run = "render" /\ ~fail
    BY DEF ActivityInv
  <2>2. Stripped = s
    BY <2>1 DEF Stripped
  <2>3. CASE UNCHANGED state
    BY <2>3 DEF state
  <2>4. CASE Text \/ SkipInterpolation
    BY <2>1, <2>4 DEF Text, SkipInterpolation, Rendering
  <2>5. CASE BadEscape \/ BadDirective
    BY <2>2, <2>5 DEF BadEscape, BadDirective, Rendering, Malformed
  <2>6. CASE Returns \/ EndOfText
    BY <2>2, <2>6 DEF Returns, EndOfText
  <2>7. CASE EnterIfInactive
    BY <2>7 DEF EnterIfInactive
  <2>8. CASE EnterForOnce
    <3>1. s' = s /\ fail' = fail
      BY <2>2, <2>8 DEF EnterForOnce
    <3>2. unknown' = unknown
      BY <2>1, <2>8 DEF EnterForOnce, TypeOK
    <3> QED
      BY <3>1, <3>2
  <2>9. ~InterpolateUnknown /\ ~InterpolateText /\ ~EvaluationFails
        /\ ~EnterIf /\ ~EnterFor
    BY <2>1 DEF InterpolateUnknown, InterpolateText, EvaluationFails, EnterIf, EnterFor
  <2>10. ~Else /\ ~EndIf /\ ~IfNotClosed /\ ~NextElement /\ ~EndFor
         /\ ~ForNotClosed /\ ~Unwind /\ ~Finish /\ ~Done
    BY <2>1 DEF Else, EndIf, IfNotClosed, NextElement, EndFor, ForNotClosed, Unwind,
                Finish, Done, Back
  <2> QED
    BY <2>3, <2>4, <2>5, <2>6, <2>7, <2>8, <2>9, <2>10, Zenon DEF Next
<1>2. TypeOK /\ ActivityInv /\ [Next]_state => [Off => Silent]_state
  BY <1>1
<1> QED
  BY <1>2, ActivityInvariant, PTL DEF Spec, SilentBranches
=============================================================================
