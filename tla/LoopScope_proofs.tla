--------------------------- MODULE LoopScope_proofs ---------------------------
(* Proofs about LoopScope: its type invariant, that every loop restores    *)
(* the scope it was entered from, that the protocol implements             *)
(* LexicalScope, and that every cell has one owner.                        *)
EXTENDS LoopScope, BasicLemmas

------------------------------------------------------------------------------
(* The variable table seen as a partial map: what a lookup answers after   *)
(* hcl2_ctx_set_var and ctx_take_var, for tables of every length.          *)

LEMMA EntryType ==
    ASSUME NEW t \in Tables
    PROVE  /\ DOMAIN t = 1 .. Len(t)
           /\ Len(t) \in Nat
           /\ \A i \in DOMAIN t : t[i] \in [name : Names, val : Cells]
BY ElementType DEF Tables

\* With unique names the entry the search finds is the only one.
LEMMA PositionIsTheEntry ==
    ASSUME NEW t \in Tables, NamesUnique(t), NEW i \in DOMAIN t
    PROVE  /\ Bound(t, t[i].name)
           /\ Position(t, t[i].name) = i
<1> DEFINE n == t[i].name
<1>1. i \in Hits(t, n)
  BY DEF Hits
<1>2. \A j \in Hits(t, n) : j = i
  BY DEF Hits, NamesUnique
<1>3. DOMAIN t = 1 .. Len(t) /\ Len(t) \in Nat
  BY DEF Tables
<1>4. \A j \in Hits(t, n) : i <= j
  BY <1>2, <1>3
<1>5. Position(t, n) = i
  BY <1>1, <1>2, <1>4 DEF Position
<1> QED
  BY <1>1, <1>5 DEF Bound

LEMMA LookupOfEntry ==
    ASSUME NEW t \in Tables, NamesUnique(t), NEW i \in DOMAIN t
    PROVE  Lookup(t, t[i].name) = t[i].val
BY PositionIsTheEntry DEF Lookup

LEMMA LookupOfUnbound ==
    ASSUME NEW t, NEW n, \A i \in DOMAIN t : t[i].name # n
    PROVE  Lookup(t, n) = NoCell /\ ~Bound(t, n)
BY DEF Lookup, Bound, Hits

LEMMA BoundHasEntry ==
    ASSUME NEW t \in Tables, NamesUnique(t), NEW n, Bound(t, n)
    PROVE  /\ Position(t, n) \in DOMAIN t
           /\ t[Position(t, n)].name = n
<1>1. PICK i \in DOMAIN t : t[i].name = n
  BY DEF Bound, Hits
<1> QED
  BY <1>1, PositionIsTheEntry

LEMMA LookupType ==
    ASSUME NEW t \in Tables, NamesUnique(t), NEW n
    PROVE  /\ Lookup(t, n) \in Cells \cup {NoCell}
           /\ Bound(t, n) <=> Lookup(t, n) # NoCell
<1>1. CASE Bound(t, n)
  <2>1. t[Position(t, n)].val \in Cells
    BY <1>1, BoundHasEntry, EntryType
  <2> QED
    BY <1>1, <2>1, NoCellIsNotACell DEF Lookup
<1>2. CASE ~Bound(t, n)
  BY <1>2 DEF Lookup
<1> QED
  BY <1>1, <1>2

\* hcl2_ctx_set_var changes the binding of one name and keeps the table well
\* formed.
LEMMA SetVarCorrect ==
    ASSUME NEW t \in Tables, NamesUnique(t), NEW n \in Names, NEW c \in Cells
    PROVE  /\ SetVar(t, n, c) \in Tables
           /\ NamesUnique(SetVar(t, n, c))
           /\ \A m : Lookup(SetVar(t, n, c), m) =
                       IF m = n THEN c ELSE Lookup(t, m)
<1> DEFINE new == SetVar(t, n, c)
<1>0. DOMAIN t = 1 .. Len(t) /\ Len(t) \in Nat
  BY DEF Tables
<1>1. CASE Bound(t, n)
  <2> DEFINE p == Position(t, n)
  <2>1. p \in DOMAIN t /\ t[p].name = n
    BY <1>1, BoundHasEntry
  <2>2. new = [i \in DOMAIN t |-> IF i = p THEN [name |-> n, val |-> c] ELSE t[i]]
    BY <1>1 DEF SetVar
  <2>3. new \in Tables /\ DOMAIN new = DOMAIN t
    <3>1. \A i \in 1 .. Len(t) : new[i] \in [name : Names, val : Cells]
      BY <2>2, <1>0, EntryType
    <3> HIDE DEF p, new
    <3>2. new = [i \in 1 .. Len(t) |-> new[i]]
      BY <2>2, <1>0
    <3> QED
      BY <3>1, <3>2, <1>0 DEF Tables
  <2>4. \A i \in DOMAIN t : new[i].name = t[i].name
    BY <2>1, <2>2
  <2>5. NamesUnique(new)
    BY <2>3, <2>4 DEF NamesUnique
  <2>6. ASSUME NEW m PROVE Lookup(new, m) = IF m = n THEN c ELSE Lookup(t, m)
    <3>1. CASE Bound(t, m)
      <4>1. PICK i \in DOMAIN t : t[i].name = m
        BY <3>1 DEF Bound, Hits
      <4>2. Lookup(new, m) = new[i].val /\ Lookup(t, m) = t[i].val
        BY <4>1, <2>3, <2>4, <2>5, LookupOfEntry
      <4>3. m = n <=> i = p
        BY <4>1, <2>1 DEF NamesUnique
      <4> QED
        BY <4>2, <4>3, <2>2
    <3>2. CASE ~Bound(t, m)
      <4>1. \A i \in DOMAIN t : t[i].name # m
        BY <3>2 DEF Bound, Hits
      <4>2. Lookup(new, m) = NoCell /\ Lookup(t, m) = NoCell
        BY <4>1, <2>3, <2>4, LookupOfUnbound
      <4> QED
        BY <4>2, <3>2, <1>1
    <3> QED
      BY <3>1, <3>2
  <2> HIDE DEF new
  <2> QED
    BY <2>3, <2>5, <2>6 DEF new
<1>2. CASE ~Bound(t, n)
  <2> DEFINE e == [name |-> n, val |-> c]
  <2>1. new = Append(t, e) /\ \A i \in DOMAIN t : t[i].name # n
    BY <1>2 DEF SetVar, Bound, Hits
  <2>2. new \in Tables /\ DOMAIN new = 1 .. Len(t) + 1
    BY <2>1 DEF Tables
  <2>3. /\ \A i \in DOMAIN t : i \in DOMAIN new /\ new[i] = t[i]
        /\ Len(t) + 1 \in DOMAIN new /\ new[Len(t) + 1] = e
    BY <2>1, <1>0 DEF Tables
  <2>4. \A i \in DOMAIN new : i \in DOMAIN t \/ i = Len(t) + 1
    BY <2>2, <1>0
  <2>5. NamesUnique(new)
    BY <2>1, <2>3, <2>4 DEF NamesUnique
  <2>6. ASSUME NEW m PROVE Lookup(new, m) = IF m = n THEN c ELSE Lookup(t, m)
    <3>1. CASE m = n
      BY <3>1, <2>2, <2>3, <2>5, LookupOfEntry
    <3>2. CASE m # n /\ Bound(t, m)
      <4>1. PICK i \in DOMAIN t : t[i].name = m
        BY <3>2 DEF Bound, Hits
      <4>2. Lookup(new, m) = new[i].val /\ Lookup(t, m) = t[i].val
        BY <4>1, <2>2, <2>3, <2>5, LookupOfEntry
      <4> QED
        BY <4>1, <4>2, <2>3, <3>2
    <3>3. CASE m # n /\ ~Bound(t, m)
      <4>1. \A i \in DOMAIN t : t[i].name # m
        BY <3>3 DEF Bound, Hits
      <4>2. \A i \in DOMAIN new : new[i].name # m
        BY <4>1, <2>3, <2>4, <3>3
      <4> QED
        BY <4>1, <4>2, <3>3, LookupOfUnbound
    <3> QED
      BY <3>1, <3>2, <3>3
  <2> HIDE DEF new
  <2> QED
    BY <2>2, <2>5, <2>6 DEF new
<1> QED
  BY <1>1, <1>2

\* ctx_take_var unbinds one name and keeps the table well formed: the memmove
\* neither drops nor doubles another entry.
LEMMA TakeVarCorrect ==
    ASSUME NEW t \in Tables, NamesUnique(t), NEW n
    PROVE  /\ TakeVar(t, n) \in Tables
           /\ NamesUnique(TakeVar(t, n))
           /\ ~Bound(TakeVar(t, n), n)
           /\ \A m : Lookup(TakeVar(t, n), m) =
                       IF m = n THEN NoCell ELSE Lookup(t, m)
<1> DEFINE new == TakeVar(t, n)
<1>0. DOMAIN t = 1 .. Len(t) /\ Len(t) \in Nat
  BY DEF Tables
<1>1. CASE ~Bound(t, n)
  <2>1. new = t
    BY <1>1 DEF TakeVar
  <2> QED
    BY <1>1, <2>1 DEF Lookup
<1>2. CASE Bound(t, n)
  <2> DEFINE p == Position(t, n)
             from(i) == IF i < p THEN i ELSE i + 1
  <2>1. p \in 1 .. Len(t) /\ t[p].name = n
    BY <1>2, <1>0, BoundHasEntry
  <2>2. new = [i \in 1 .. Len(t) - 1 |-> t[from(i)]]
    BY <1>2 DEF TakeVar
  <2> HIDE DEF p, new
  <2>3. DOMAIN new = 1 .. Len(t) - 1 /\ \A i \in DOMAIN new : new[i] = t[from(i)]
    BY <2>2
  <2>4. \A i \in DOMAIN new : from(i) \in DOMAIN t /\ from(i) # p
    BY <2>1, <2>3, <1>0
  <2>5. \A i, j \in DOMAIN new : from(i) = from(j) => i = j
    BY <2>1, <2>3
  <2>6. \A j \in DOMAIN t : j # p => \E i \in DOMAIN new : from(i) = j
    <3> SUFFICES ASSUME NEW j \in DOMAIN t, j # p
                 PROVE  \E i \in DOMAIN new : from(i) = j
      OBVIOUS
    <3>1. CASE j < p
      BY <3>1, <2>1, <2>3, <1>0
    <3>2. CASE j > p
      <4>1. j - 1 \in DOMAIN new /\ from(j - 1) = j
        BY <3>2, <2>1, <2>3, <1>0
      <4> QED
        BY <4>1
    <3> QED
      BY <3>1, <3>2, <2>1, <1>0
  <2>7. new \in Tables
    <3>1. \A i \in 1 .. Len(t) - 1 : t[from(i)] \in [name : Names, val : Cells]
      BY <2>3, <2>4, EntryType
    <3>2. Len(t) - 1 \in Nat
      BY <2>1, <1>0
    <3> HIDE DEF from
    <3> QED
      BY <3>1, <3>2, <2>2 DEF Tables
  <2> HIDE DEF from
  <2>8. NamesUnique(new)
    BY <2>3, <2>4, <2>5 DEF NamesUnique
  <2>9. \A i \in DOMAIN new : new[i].name # n
    BY <2>1, <2>3, <2>4, <1>0 DEF NamesUnique
  <2>10. ASSUME NEW m PROVE Lookup(new, m) = IF m = n THEN NoCell ELSE Lookup(t, m)
    <3>1. CASE m = n
      BY <3>1, <2>9, LookupOfUnbound
    <3>2. CASE m # n /\ Bound(t, m)
      <4>1. PICK j \in DOMAIN t : t[j].name = m
        BY <3>2 DEF Bound, Hits
      <4>2. PICK i \in DOMAIN new : from(i) = j
        BY <4>1, <3>2, <2>1, <2>6
      <4>3. new[i] = t[j]
        BY <4>2, <2>3
      <4> QED
        BY <4>1, <4>2, <4>3, <3>2, <2>7, <2>8, LookupOfEntry
    <3>3. CASE m # n /\ ~Bound(t, m)
      <4>1. \A j \in DOMAIN t : t[j].name # m
        BY <3>3 DEF Bound, Hits
      <4>2. \A i \in DOMAIN new : new[i].name # m
        BY <4>1, <2>3, <2>4
      <4> QED
        BY <4>1, <4>2, <3>3, LookupOfUnbound
    <3> QED
      BY <3>1, <3>2, <3>3
  <2> QED
    BY <2>7, <2>8, <2>9, <2>10, LookupOfUnbound DEF new
<1> QED
  BY <1>1, <1>2

------------------------------------------------------------------------------
(* The type invariant.                                                     *)

LEMMA EnvType ==
    ASSUME NEW t \in Tables, NamesUnique(t)
    PROVE  EnvOf(t) \in [Names -> Maybe]
BY LookupType DEF EnvOf, Maybe

LEMMA EmptyTable ==
    /\ <<>> \in Tables
    /\ NamesUnique(<<>>)
    /\ \A n : Lookup(<<>>, n) = NoCell
BY DEF Tables, NamesUnique, Lookup, Bound, Hits

LEMMA TopType ==
    ASSUME TypeOK, frames # <<>>
    PROVE  /\ Depth \in Nat /\ Depth >= 1
           /\ Top \in Frames
           /\ Top.head \in [v : Names, k : Names \cup {NoVar}]
           /\ Top.left \in 0 .. MaxCount
           /\ Top.saved_v \in Maybe /\ Top.saved_k \in Maybe
           /\ Top.outer \in [Names -> Maybe]
<1>1. Depth \in Nat /\ Depth >= 1 /\ Top \in Frames
  BY StackTop DEF TypeOK, Depth, Top
<1> QED
  BY <1>1, HeadersAreHeaders DEF Frames

\* A step of the running loop changes its own frame only, and neither which
\* loop it is nor the scope it was entered from.
LEMMA StepTop ==
    ASSUME TypeOK, frames # <<>>, NEW f \in Frames, frames' = SetTop(f),
           f.tmp = Top.tmp, f.outer = Top.outer, f.head = Top.head
    PROVE  /\ frames' \in Seq(Frames) /\ frames' # <<>>
           /\ Depth' = Depth /\ Top' = f
           /\ \A i \in 1 .. Depth - 1 : frames'[i] = frames[i]
           /\ \A i \in 1 .. Depth : /\ frames'[i].tmp = frames[i].tmp
                                    /\ frames'[i].outer = frames[i].outer
                                    /\ frames'[i].head = frames[i].head
<1> DEFINE t == [frames EXCEPT ![Len(frames)] = f]
<1>1. frames \in Seq(Frames) /\ frames' = t
  BY DEF TypeOK, SetTop, Depth
<1> HIDE DEF t
<1>2. /\ t \in Seq(Frames)
      /\ Len(t) = Len(frames) /\ t # <<>>
      /\ t[Len(frames)] = f
      /\ \A i \in 1 .. Len(frames) - 1 : t[i] = frames[i]
  BY <1>1, StackUpdate DEF t
<1>3. Len(frames) \in Nat /\ Len(frames) >= 1
  BY <1>1, StackTop
<1> QED
  BY <1>1, <1>2, <1>3 DEF Depth, Top

\* What a step of the running loop has to show for the type invariant.
LEMMA StepType ==
    ASSUME TypeOK, frames # <<>>, NEW f \in Frames, frames' = SetTop(f),
           f.tmp = Top.tmp, f.outer = Top.outer, f.head = Top.head,
           f.saved_k \in {Top.saved_k, NoCell}, haveCtx' = haveCtx,
           vars' \in Tables, NamesUnique(vars'),
           live' \subseteq Cells, leaked' \subseteq Cells
    PROVE  TypeOK'
<1>1. haveCtx
  BY DEF TypeOK, Shape
<1>2. \A i \in 1 .. Depth : frames'[i].head.k = NoVar => frames'[i].saved_k = NoCell
  <2> SUFFICES ASSUME NEW i \in 1 .. Depth, frames[i].head.k = NoVar
               PROVE  frames'[i].saved_k = NoCell
    BY StepTop
  <2>1. frames[i].saved_k = NoCell
    BY DEF TypeOK, Shape
  <2>2. CASE i \in 1 .. Depth - 1
    BY <2>1, <2>2, StepTop
  <2>3. CASE i = Depth
    <3>1. Top.saved_k = NoCell /\ frames'[i] = f
      BY <2>1, <2>3, StepTop DEF Top
    <3> QED
      BY <3>1
  <2> QED
    BY <2>2, <2>3, TopType
<1>3. Shape'
  BY <1>1, <1>2, StepTop DEF TypeOK, Shape
<1> QED
  BY <1>3, StepTop DEF TypeOK

LEMMA BindFrame ==
    ASSUME NEW f \in Frames, f.left > 0, NEW c \in Cells, NEW d \in Cells
    PROVE  /\ [f EXCEPT !.step = "body", !.left = @ - 1, !.bound_v = c] \in Frames
           /\ [f EXCEPT !.step = "body", !.left = @ - 1,
                        !.bound_v = c, !.bound_k = d] \in Frames
<1> DEFINE l == f.left - 1
<1>1. l \in 0 .. MaxCount
  BY BoundsAreNaturals DEF Frames
<1>2. "body" \in Steps /\ c \in Maybe /\ d \in Maybe
  BY DEF Steps, Maybe
<1> HIDE DEF l
<1>3. [f EXCEPT !.step = "body", !.left = l, !.bound_v = c] \in Frames
  BY <1>1, <1>2 DEF Frames
<1>4. [f EXCEPT !.step = "body", !.left = l, !.bound_v = c, !.bound_k = d] \in Frames
  BY <1>1, <1>2 DEF Frames
<1> QED
  BY <1>3, <1>4 DEF l

LEMMA TypeInit == Init => TypeOK
BY EmptyTable DEF Init, TypeOK, Shape, Depth

LEMMA TypeStep == TypeOK /\ [Next]_state => TypeOK'
<1> SUFFICES ASSUME TypeOK, [Next]_state PROVE TypeOK'
  OBVIOUS
<1>t. vars \in Tables /\ NamesUnique(vars)
  BY DEF TypeOK
<1>1. ASSUME NEW n \in Names, CallerBinds(n) PROVE TypeOK'
  <2>1. PICK c \in Cells \ live : /\ vars' = SetVar(vars, n, c)
                                  /\ live' = FreeOne(live, Lookup(vars, n)) \cup {c}
    BY <1>1 DEF CallerBinds
  <2>2. vars' \in Tables /\ NamesUnique(vars')
    BY <1>t, <2>1, SetVarCorrect
  <2> QED
    BY <1>1, <2>1, <2>2 DEF CallerBinds, TypeOK, Shape, Depth, FreeOne
<1>2. CASE CallerFreesCtx
  BY <1>2, EmptyTable DEF CallerFreesCtx, TypeOK, Shape, Depth
<1>3. CASE CallerMakesCtx
  BY <1>3 DEF CallerMakesCtx, TypeOK, Shape, Depth
<1>4. ASSUME NEW h \in Headers, EnterLoop(h) PROVE TypeOK'
  <2> DEFINE rest == TakeVar(vars, h.v)
  <2>0. h.v \in Names
    BY HeadersAreHeaders
  <2>1. rest \in Tables /\ NamesUnique(rest)
    BY <1>t, TakeVarCorrect
  <2>2. vars' \in Tables /\ NamesUnique(vars')
    BY <1>4, <2>1, TakeVarCorrect DEF EnterLoop
  <2>3. PICK count \in 0 .. MaxCount, ok \in BOOLEAN :
          frames' = Append(frames,
             [head |-> h, left |-> count,
              step |-> IF ok THEN "iterate" ELSE "restoreVal",
              tmp |-> ~haveCtx,
              saved_v |-> Lookup(vars, h.v),
              saved_k |-> Lookup(rest, h.k),
              outer |-> EnvOf(vars), bound_v |-> NoCell, bound_k |-> NoCell])
    BY <1>4 DEF EnterLoop
  <2> DEFINE f == [head |-> h, left |-> count,
              step |-> IF ok THEN "iterate" ELSE "restoreVal",
              tmp |-> ~haveCtx,
              saved_v |-> Lookup(vars, h.v),
              saved_k |-> Lookup(rest, h.k),
              outer |-> EnvOf(vars), bound_v |-> NoCell, bound_k |-> NoCell]
  <2>4. Lookup(vars, h.v) \in Maybe /\ Lookup(rest, h.k) \in Maybe
    BY <1>t, <2>1, LookupType DEF Maybe
  <2>5. EnvOf(vars) \in [Names -> Maybe]
    BY <1>t, EnvType
  <2>6. haveCtx \in BOOLEAN /\ NoCell \in Maybe
    BY DEF TypeOK, Maybe
  <2> HIDE DEF rest
  <2>7. f \in Frames
    BY <2>4, <2>5, <2>6 DEF Frames, Steps
  <2>8. frames' = Append(frames, f) /\ frames \in Seq(Frames)
    BY <2>3 DEF TypeOK
  <2>9. ~haveCtx => frames = <<>> /\ \A n \in Names : f.outer[n] = NoCell
    BY EmptyTable DEF TypeOK, Shape, EnvOf
  <2>10. f.tmp = ~haveCtx /\ (f.head.k = NoVar => f.saved_k = NoCell)
    <3>1. h.k = NoVar => Lookup(rest, h.k) = NoCell
      BY <2>1, EntryType, LookupOfUnbound, NoVarIsNotAName
    <3> QED
      BY <3>1
  <2> HIDE DEF f
  <2>11. /\ frames' \in Seq(Frames)
         /\ Depth' = Depth + 1 /\ Depth \in Nat
         /\ frames'[Depth + 1] = f
         /\ \A i \in 1 .. Depth : frames'[i] = frames[i]
    BY <2>7, <2>8, StackPush, ElementType DEF Depth
  <2>12. haveCtx' = TRUE
    BY <1>4 DEF EnterLoop
  <2>13. Shape'
    <3>a. ASSUME NEW i \in 1 .. Depth + 1, frames'[i].head.k = NoVar
          PROVE  frames'[i].saved_k = NoCell
      <4>1. CASE i = Depth + 1
        BY <3>a, <4>1, <2>10, <2>11
      <4>2. CASE i \in 1 .. Depth
        BY <3>a, <4>2, <2>11 DEF TypeOK, Shape
      <4> QED
        BY <4>1, <4>2, <2>11
    <3> SUFFICES ASSUME NEW i \in 1 .. Depth + 1, frames'[i].tmp
                 PROVE  i = 1 /\ \A n \in Names : frames'[i].outer[n] = NoCell
      BY <3>a, <2>11, <2>12 DEF Shape
    <3>1. CASE i = Depth + 1
      <4>1. ~haveCtx
        BY <3>1, <2>10, <2>11
      <4>2. Depth = 0
        BY <4>1, <2>9 DEF Depth
      <4> QED
        BY <3>1, <4>1, <4>2, <2>9, <2>11
    <3>2. CASE i \in 1 .. Depth
      BY <3>2, <2>11 DEF TypeOK, Shape
    <3> QED
      BY <3>1, <3>2, <2>11
  <2> QED
    BY <1>4, <2>2, <2>11, <2>12, <2>13 DEF EnterLoop, TypeOK
<1>5. CASE BindValueOnly
  <2>1. PICK c \in Cells \ live :
          /\ vars' = SetVar(vars, Top.head.v, c)
          /\ live' = FreeOne(live, Lookup(vars, Top.head.v)) \cup {c}
          /\ frames' = SetTop([Top EXCEPT !.step = "body", !.left = @ - 1, !.bound_v = c])
    BY <1>5 DEF BindValueOnly
  <2>2. frames # <<>> /\ Top \in Frames /\ Top.head.v \in Names /\ Top.left > 0
    BY <1>5, TopType DEF BindValueOnly, At
  <2>3. vars' \in Tables /\ NamesUnique(vars')
    BY <1>t, <2>1, <2>2, SetVarCorrect
  <2>4. [Top EXCEPT !.step = "body", !.left = @ - 1, !.bound_v = c] \in Frames
    BY <2>2, BindFrame
  <2>5. live' \subseteq Cells /\ leaked' \subseteq Cells /\ haveCtx' = haveCtx
    BY <1>5, <2>1 DEF BindValueOnly, TypeOK, FreeOne
  <2> QED
    BY <2>1, <2>2, <2>3, <2>4, <2>5, StepType DEF Frames
<1>6. CASE BindValueAndKey
  <2>1. PICK c \in Cells \ live : \E d \in Cells \ (live \cup {c}) :
          LET withVal == SetVar(vars, Top.head.v, c) IN
          /\ vars' = SetVar(withVal, Top.head.k, d)
          /\ live' = FreeOne(FreeOne(live, Lookup(vars, Top.head.v)) \cup {c},
                             Lookup(withVal, Top.head.k)) \cup {d}
          /\ frames' = SetTop([Top EXCEPT !.step = "body", !.left = @ - 1,
                                          !.bound_v = c, !.bound_k = d])
    BY <1>6 DEF BindValueAndKey
  <2> DEFINE withVal == SetVar(vars, Top.head.v, c)
  <2>2. PICK d \in Cells \ (live \cup {c}) :
          /\ vars' = SetVar(withVal, Top.head.k, d)
          /\ live' = FreeOne(FreeOne(live, Lookup(vars, Top.head.v)) \cup {c},
                             Lookup(withVal, Top.head.k)) \cup {d}
          /\ frames' = SetTop([Top EXCEPT !.step = "body", !.left = @ - 1,
                                          !.bound_v = c, !.bound_k = d])
    BY <2>1
  <2>3. /\ frames # <<>> /\ Top \in Frames
        /\ Top.head.v \in Names /\ Top.head.k \in Names /\ Top.left > 0
    BY <1>6, TopType DEF BindValueAndKey, At
  <2>4. withVal \in Tables /\ NamesUnique(withVal)
    BY <1>t, <2>3, SetVarCorrect
  <2> HIDE DEF withVal
  <2>5. vars' \in Tables /\ NamesUnique(vars')
    BY <2>2, <2>3, <2>4, SetVarCorrect
  <2>6. [Top EXCEPT !.step = "body", !.left = @ - 1,
              !.bound_v = c, !.bound_k = d] \in Frames
    BY <2>3, BindFrame
  <2>7. live' \subseteq Cells /\ leaked' \subseteq Cells /\ haveCtx' = haveCtx
    BY <1>6, <2>2 DEF BindValueAndKey, TypeOK, FreeOne
  <2> QED
    BY <2>2, <2>3, <2>5, <2>6, <2>7, StepType DEF Frames
<1>7. CASE KeyBindFails
  <2>1. PICK c \in Cells \ live :
          /\ vars' = SetVar(vars, Top.head.v, c)
          /\ live' = FreeOne(live, Lookup(vars, Top.head.v)) \cup {c}
    BY <1>7 DEF KeyBindFails
  <2>2. frames # <<>> /\ Top \in Frames /\ Top.head.v \in Names
    BY <1>7, TopType DEF KeyBindFails, At
  <2>3. vars' \in Tables /\ NamesUnique(vars')
    BY <1>t, <2>1, <2>2, SetVarCorrect
  <2>4. [Top EXCEPT !.step = "restoreVal"] \in Frames
    BY <2>2 DEF Frames, Steps
  <2>5. live' \subseteq Cells /\ leaked' \subseteq Cells /\ haveCtx' = haveCtx
    BY <1>7, <2>1 DEF KeyBindFails, TypeOK, FreeOne
  <2>6. frames' = SetTop([Top EXCEPT !.step = "restoreVal"])
    BY <1>7 DEF KeyBindFails
  <2> QED
    BY <2>2, <2>3, <2>4, <2>5, <2>6, StepType DEF Frames
<1>8. CASE BindFails \/ BodyFails \/ LoopEnds
  <2>1. /\ frames # <<>>
        /\ frames' = SetTop([Top EXCEPT !.step = "restoreVal"])
        /\ UNCHANGED <<haveCtx, vars, live, leaked>>
    BY <1>8 DEF BindFails, BodyFails, LoopEnds, At
  <2>2. Top \in Frames
    BY <2>1, TopType
  <2>3. [Top EXCEPT !.step = "restoreVal"] \in Frames
    BY <2>2 DEF Frames, Steps
  <2>4. live' \subseteq Cells /\ leaked' \subseteq Cells
    BY <2>1 DEF TypeOK
  <2> QED
    BY <1>t, <2>1, <2>2, <2>3, <2>4, StepType DEF Frames
<1>9. CASE BodyDone
  <2>1. /\ frames # <<>>
        /\ frames' = SetTop([Top EXCEPT !.step = "iterate"])
        /\ UNCHANGED <<haveCtx, vars, live, leaked>>
    BY <1>9 DEF BodyDone, At
  <2>2. Top \in Frames
    BY <2>1, TopType
  <2>3. [Top EXCEPT !.step = "iterate"] \in Frames
    BY <2>2 DEF Frames, Steps
  <2>4. live' \subseteq Cells /\ leaked' \subseteq Cells
    BY <2>1 DEF TypeOK
  <2> QED
    BY <1>t, <2>1, <2>2, <2>3, <2>4, StepType DEF Frames
<1>10. CASE RestoreVal
  <2> DEFINE rest == TakeVar(vars, Top.head.v)
             f == [Top EXCEPT !.step = "restoreKey", !.saved_v = NoCell]
  <2>1. /\ frames # <<>> /\ Top \in Frames
        /\ Top.head.v \in Names \cup {NoVar} /\ Top.saved_v \in Maybe
    BY <1>10, TopType DEF RestoreVal, At
  <2>2. rest \in Tables /\ NamesUnique(rest)
    BY <1>t, TakeVarCorrect
  <2>3. Top.saved_v # NoCell => Top.head.v \in Names
    BY <2>1, TopType
  <2>4. frames' = SetTop(f) /\ haveCtx' = haveCtx /\ live' \subseteq Cells
    BY <1>10 DEF RestoreVal, TypeOK, FreeOne
  <2>5. f \in Frames
    BY <2>1 DEF Frames, Steps, Maybe
  <2>6. /\ \/ vars' = rest
           \/ Top.saved_v # NoCell /\ vars' = SetVar(rest, Top.head.v, Top.saved_v)
        /\ leaked' \subseteq leaked \cup {Top.saved_v}
        /\ Top.saved_v = NoCell => leaked' = leaked
    BY <1>10 DEF RestoreVal
  <2>7. leaked' \subseteq Cells
    BY <2>1, <2>6 DEF TypeOK, Maybe
  <2> HIDE DEF rest
  <2>8. vars' \in Tables /\ NamesUnique(vars')
    BY <2>1, <2>2, <2>3, <2>6, SetVarCorrect DEF Maybe
  <2> QED
    BY <2>1, <2>4, <2>5, <2>7, <2>8, StepType DEF Frames
<1>11. CASE RestoreKey
  <2> DEFINE rest == TakeVar(vars, Top.head.k)
             f == [Top EXCEPT !.step = "leave", !.saved_k = NoCell]
  <2>1. /\ frames # <<>> /\ Top \in Frames
        /\ Top.head.k \in Names \cup {NoVar} /\ Top.saved_k \in Maybe
    BY <1>11, TopType DEF RestoreKey, At
  <2>2. rest \in Tables /\ NamesUnique(rest)
    BY <1>t, TakeVarCorrect
  <2>3. Top.saved_k # NoCell => Top.head.k \in Names
    BY <2>1, TopType DEF TypeOK, Shape, Top
  <2>4. frames' = SetTop(f) /\ haveCtx' = haveCtx /\ live' \subseteq Cells
    BY <1>11 DEF RestoreKey, TypeOK, FreeOne
  <2>5. f \in Frames
    BY <2>1 DEF Frames, Steps, Maybe
  <2>6. /\ \/ vars' = rest
           \/ Top.saved_k # NoCell /\ vars' = SetVar(rest, Top.head.k, Top.saved_k)
        /\ leaked' \subseteq leaked \cup {Top.saved_k}
        /\ Top.saved_k = NoCell => leaked' = leaked
    BY <1>11 DEF RestoreKey
  <2>7. leaked' \subseteq Cells
    BY <2>1, <2>6 DEF TypeOK, Maybe
  <2> HIDE DEF rest
  <2>8. vars' \in Tables /\ NamesUnique(vars')
    BY <2>1, <2>2, <2>3, <2>6, SetVarCorrect DEF Maybe
  <2> QED
    BY <2>1, <2>4, <2>5, <2>7, <2>8, StepType DEF Frames
<1>12. CASE LeaveLoop
  <2>1. /\ frames # <<>>
        /\ frames' = SubSeq(frames, 1, Len(frames) - 1)
        /\ leaked' = leaked
    BY <1>12 DEF LeaveLoop, At, Depth
  <2>2. /\ frames' \in Seq(Frames)
        /\ Depth' = Depth - 1 /\ Depth \in Nat /\ Depth >= 1
        /\ \A i \in 1 .. Depth - 1 : frames'[i] = frames[i]
    BY <2>1, StackPop, StackTop DEF TypeOK, Depth
  <2>3. CASE Top.tmp
    <3>1. Depth = 1
      BY <2>2, <2>3 DEF TypeOK, Shape, Top
    <3>2. frames' = <<>>
      BY <2>2, <3>1 DEF Depth
    <3>3. vars' = <<>> /\ haveCtx' = FALSE /\ live' \subseteq Cells
      BY <1>12, <2>3 DEF LeaveLoop, TypeOK
    <3>4. Depth' = 0
      BY <2>2, <3>1
    <3>5. Shape'
      BY <3>2, <3>3, <3>4 DEF Shape
    <3> QED
      BY <2>1, <2>2, <3>3, <3>5, EmptyTable DEF TypeOK
  <2>4. CASE ~Top.tmp
    <3>1. UNCHANGED <<haveCtx, vars, live>> /\ haveCtx
      BY <1>12, <2>1, <2>4 DEF LeaveLoop, TypeOK, Shape
    <3>2. Shape'
      BY <2>2, <3>1 DEF TypeOK, Shape
    <3> QED
      BY <2>1, <2>2, <3>1, <3>2 DEF TypeOK
  <2> QED
    BY <2>3, <2>4
<1>15. CASE UNCHANGED state
  BY <1>15 DEF state, TypeOK, Shape, Depth
<1> QED
  BY <1>1, <1>2, <1>3, <1>4, <1>5, <1>6, <1>7, <1>8, <1>9, <1>10, <1>11,
     <1>12, <1>15, Zenon DEF Next

\* Spec keeps the type invariant.
THEOREM TypeCorrect == Spec => []TypeOK
BY TypeInit, TypeStep, PTL DEF Spec

------------------------------------------------------------------------------
(* Scope.  The code keeps these promises for loops whose two variables     *)
(* differ; `for x, x in ...` is the exception the model's other run shows. *)

DistinctVars == \A h \in Headers : h.v # h.k

LEMMA SameTrans ==
    ASSUME NEW gone \in SUBSET Cells, NEW a, NEW b, NEW c,
           SameBinding(a, b, gone), SameBinding(b, c, gone)
    PROVE  SameBinding(a, c, gone)
BY NoCellIsNotACell DEF SameBinding

LEMMA SameGrows ==
    ASSUME NEW gone, NEW more, gone \subseteq more, NEW a, NEW b,
           SameBinding(a, b, gone)
    PROVE  SameBinding(a, b, more)
BY DEF SameBinding

LEMMA ScopeInit == Init => ScopeInv
BY DEF Init, ScopeInv, Nested, TopScope, BodyScope, At, Depth

\* What a step of the running loop has to show for the scope invariant.
LEMMA StepScope ==
    ASSUME TypeOK, ScopeInv, frames # <<>>, NEW f \in Frames, frames' = SetTop(f),
           f.tmp = Top.tmp, f.outer = Top.outer, f.head = Top.head,
           leaked \subseteq leaked', SavedIsOuter(f),
           \A n \in Names \ Hidden(f) :
               SameBinding(f.outer[n], Lookup(vars', n), leaked'),
           f.step = "body" => SameScope(BodyEnv(f), EnvOf(vars'), leaked')
    PROVE  ScopeInv'
<1>1. /\ frames' # <<>> /\ Depth' = Depth /\ Top' = f
      /\ \A i \in 1 .. Depth - 1 : frames'[i] = frames[i]
      /\ \A i \in 1 .. Depth : frames'[i].outer = frames[i].outer
      /\ Depth \in Nat /\ Depth >= 1 /\ frames'[Depth] = f
  <2>1. Depth \in Nat /\ Depth >= 1
    BY TopType
  <2> QED
    BY <2>1, StepTop DEF Top
<1>2. Nested'
  <2> SUFFICES ASSUME NEW i \in 1 .. Depth - 1
               PROVE  /\ frames'[i].step = "body"
                      /\ SameScope(BodyEnv(frames'[i]), frames'[i + 1].outer, leaked')
    BY <1>1 DEF Nested
  <2>1. /\ frames'[i] = frames[i] /\ frames'[i + 1].outer = frames[i + 1].outer
    BY <1>1
  <2>2. /\ frames[i].step = "body"
        /\ SameScope(BodyEnv(frames[i]), frames[i + 1].outer, leaked)
    BY DEF ScopeInv, Nested
  <2> QED
    BY <2>1, <2>2, SameGrows DEF SameScope
<1>3. \A i \in 1 .. Depth : SavedIsOuter(frames'[i])
  <2> SUFFICES ASSUME NEW i \in 1 .. Depth PROVE SavedIsOuter(frames'[i])
    OBVIOUS
  <2>1. CASE i = Depth
    BY <2>1, <1>1
  <2>2. CASE i \in 1 .. Depth - 1
    BY <2>2, <1>1 DEF ScopeInv
  <2> QED
    BY <2>1, <2>2, <1>1
<1>4. TopScope'
  BY <1>1 DEF TopScope
<1>5. BodyScope'
  BY <1>1 DEF BodyScope, At
<1> QED
  BY <1>1, <1>2, <1>3, <1>4, <1>5 DEF ScopeInv

\* What every step of the running loop can use: the top of ScopeInv.
LEMMA TopFacts ==
    ASSUME TypeOK, ScopeInv, frames # <<>>
    PROVE  /\ vars \in Tables /\ NamesUnique(vars) /\ leaked \in SUBSET Cells
           /\ Top \in Frames /\ SavedIsOuter(Top)
           /\ Top.head \in Headers /\ Top.head.v \in Names
           /\ Top.head.k \in Names \cup {NoVar}
           /\ \A n \in Names \ Hidden(Top) :
                  SameBinding(Top.outer[n], Lookup(vars, n), leaked)
BY TopType DEF TypeOK, ScopeInv, TopScope, Top, Frames

\* What a body sees is the outer scope overridden by the iteration's variables.
LEMMA BodyEnvHolds ==
    ASSUME NEW f \in Frames, NEW t \in Tables, NamesUnique(t), NEW gone,
           \A n \in Names \ {f.head.v, f.head.k} :
               SameBinding(f.outer[n], Lookup(t, n), gone),
           \A n \in Names : n = f.head.k => Lookup(t, n) = f.bound_k,
           \A n \in Names : n = f.head.v /\ n # f.head.k => Lookup(t, n) = f.bound_v
    PROVE  SameScope(BodyEnv(f), EnvOf(t), gone)
<1> SUFFICES ASSUME NEW n \in Names
             PROVE  SameBinding(BodyEnv(f)[n], EnvOf(t)[n], gone)
  BY DEF SameScope
<1>1. EnvOf(t)[n] = Lookup(t, n)
  BY DEF EnvOf
<1>2. CASE n = f.head.k
  BY <1>1, <1>2 DEF BodyEnv, SameBinding
<1>3. CASE n = f.head.v /\ n # f.head.k
  BY <1>1, <1>3 DEF BodyEnv, SameBinding
<1>4. CASE n # f.head.v /\ n # f.head.k
  BY <1>1, <1>4 DEF BodyEnv
<1> QED
  BY <1>2, <1>3, <1>4

LEMMA ScopeStep ==
    ASSUME DistinctVars, TypeOK, TypeOK', ScopeInv, [Next]_state
    PROVE  ScopeInv'
<1>t. vars' \in Tables /\ NamesUnique(vars')
  BY DEF TypeOK
<1>1. CASE (\E n \in Names : CallerBinds(n)) \/ CallerFreesCtx \/ CallerMakesCtx
  <2>1. frames = <<>> /\ frames' = <<>>
    BY <1>1 DEF CallerBinds, CallerFreesCtx, CallerMakesCtx
  <2> QED
    BY <2>1 DEF ScopeInv, Nested, TopScope, BodyScope, At, Depth
<1>2. ASSUME NEW h \in Headers, EnterLoop(h) PROVE ScopeInv'
  <2> DEFINE rest == TakeVar(vars, h.v)
  <2>0. /\ vars \in Tables /\ NamesUnique(vars) /\ h.v \in Names /\ h.k # h.v
        /\ frames \in Seq(Frames) /\ Depth \in Nat
        /\ frames # <<>> => Depth >= 1
    BY HeadersAreHeaders, ElementType, TopType DEF TypeOK, DistinctVars, Depth
  <2>1. /\ rest \in Tables /\ NamesUnique(rest)
        /\ \A m : Lookup(rest, m) = IF m = h.v THEN NoCell ELSE Lookup(vars, m)
    BY <2>0, TakeVarCorrect
  <2>2. PICK count \in 0 .. MaxCount, ok \in BOOLEAN :
          frames' = Append(frames,
             [head |-> h, left |-> count,
              step |-> IF ok THEN "iterate" ELSE "restoreVal",
              tmp |-> ~haveCtx,
              saved_v |-> Lookup(vars, h.v),
              saved_k |-> Lookup(rest, h.k),
              outer |-> EnvOf(vars), bound_v |-> NoCell, bound_k |-> NoCell])
    BY <1>2 DEF EnterLoop
  <2> DEFINE f == [head |-> h, left |-> count,
              step |-> IF ok THEN "iterate" ELSE "restoreVal",
              tmp |-> ~haveCtx,
              saved_v |-> Lookup(vars, h.v),
              saved_k |-> Lookup(rest, h.k),
              outer |-> EnvOf(vars), bound_v |-> NoCell, bound_k |-> NoCell]
  <2>3. /\ f.head = h /\ f.outer = EnvOf(vars) /\ f.step \in {"iterate", "restoreVal"}
        /\ f.saved_v = Lookup(vars, h.v) /\ f.saved_k = Lookup(rest, h.k)
        /\ frames' = Append(frames, f)
    BY <2>2
  <2> HIDE DEF f, rest
  <2>4. /\ \A m : Lookup(vars', m) = IF m = h.k THEN NoCell ELSE Lookup(rest, m)
        /\ leaked' = leaked
    BY <1>2, <2>1, TakeVarCorrect DEF EnterLoop, rest
  <2>5. /\ Depth' = Depth + 1 /\ frames' # <<>> /\ Top' = f
        /\ frames'[Depth + 1] = f
        /\ \A i \in 1 .. Depth : frames'[i] = frames[i]
    BY <2>0, <2>3 DEF Depth, Top
  <2>6. Nested'
    <3> SUFFICES ASSUME NEW i \in 1 .. Depth
                 PROVE  /\ frames'[i].step = "body"
                        /\ SameScope(BodyEnv(frames'[i]), frames'[i + 1].outer, leaked')
      BY <2>5, <2>0 DEF Nested
    <3>1. CASE i \in 1 .. Depth - 1
      BY <3>1, <2>0, <2>4, <2>5 DEF ScopeInv, Nested
    <3>2. CASE i = Depth
      <4>1. frames # <<>>
        BY <3>2, <2>0 DEF Depth
      <4>2. At("body")
        BY <1>2, <4>1 DEF EnterLoop, Evaluating
      <4>3. Top.step = "body" /\ SameScope(BodyEnv(Top), EnvOf(vars), leaked)
        BY <4>2 DEF ScopeInv, BodyScope, At
      <4> QED
        BY <3>2, <4>3, <2>3, <2>4, <2>5 DEF Top
    <3> QED
      BY <3>1, <3>2, <2>0
  <2>7. \A i \in 1 .. Depth + 1 : SavedIsOuter(frames'[i])
    <3>1. SavedIsOuter(f)
      <4>1. f.saved_v = f.outer[f.head.v]
        BY <2>0, <2>3 DEF EnvOf
      <4>2. f.saved_k = IF f.head.k = NoVar THEN NoCell ELSE f.outer[f.head.k]
        <5>1. CASE h.k = NoVar
          <6>1. Lookup(vars, NoVar) = NoCell
            BY <2>0, EntryType, LookupOfUnbound, NoVarIsNotAName
          <6> QED
            BY <5>1, <6>1, <2>0, <2>1, <2>3
        <5>2. CASE h.k \in Names
          BY <5>2, <2>0, <2>1, <2>3, NoVarIsNotAName DEF EnvOf
        <5> QED
          BY <5>1, <5>2, HeadersAreHeaders
      <4> QED
        BY <4>1, <4>2 DEF SavedIsOuter
    <3>2. \A i \in 1 .. Depth : SavedIsOuter(frames'[i])
      BY <2>5 DEF ScopeInv
    <3> QED
      BY <3>1, <3>2, <2>0, <2>5
  <2>8. TopScope'
    <3> SUFFICES ASSUME NEW n \in Names \ Hidden(f)
                 PROVE  SameBinding(f.outer[n], Lookup(vars', n), leaked')
      BY <2>5 DEF TopScope
    <3>1. n # h.v /\ n # h.k
      BY <2>3 DEF Hidden
    <3>2. f.outer[n] = Lookup(vars, n) /\ Lookup(vars', n) = Lookup(vars, n)
      BY <3>1, <2>1, <2>3, <2>4 DEF EnvOf
    <3> QED
      BY <3>2 DEF SameBinding
  <2>9. BodyScope'
    BY <2>3, <2>5 DEF BodyScope, At
  <2> QED
    BY <2>5, <2>6, <2>7, <2>8, <2>9 DEF ScopeInv
<1>3. CASE BindValueOnly
  <2>1. PICK c \in Cells \ live :
          /\ vars' = SetVar(vars, Top.head.v, c)
          /\ frames' = SetTop([Top EXCEPT !.step = "body", !.left = @ - 1, !.bound_v = c])
    BY <1>3 DEF BindValueOnly
  <2> DEFINE f == [Top EXCEPT !.step = "body", !.left = @ - 1, !.bound_v = c]
  <2>2. frames # <<>> /\ Top.left > 0 /\ Top.step = "iterate" /\ Top.head.k = NoVar
        /\ leaked' = leaked
    BY <1>3 DEF BindValueOnly, At
  <2>3. /\ f \in Frames /\ f.head = Top.head /\ f.outer = Top.outer /\ f.tmp = Top.tmp
        /\ f.step = "body" /\ f.bound_v = c
        /\ f.saved_v = Top.saved_v /\ f.saved_k = Top.saved_k
    BY <2>2, TopFacts, BindFrame DEF Frames
  <2> HIDE DEF f
  <2>4. \A m : Lookup(vars', m) = IF m = Top.head.v THEN c ELSE Lookup(vars, m)
    BY <2>1, <2>2, TopFacts, SetVarCorrect
  <2>5. SavedIsOuter(f)
    BY <2>2, <2>3, TopFacts DEF SavedIsOuter
  <2>6. Hidden(f) = {f.head.v, f.head.k} /\ Hidden(Top) = {f.head.v, f.head.k}
    BY <2>2, <2>3 DEF Hidden
  <2>7. \A n \in Names \ {f.head.v, f.head.k} :
            SameBinding(f.outer[n], Lookup(vars', n), leaked')
    BY <2>2, <2>3, <2>4, <2>6, TopFacts
  <2>8. SameScope(BodyEnv(f), EnvOf(vars'), leaked')
    BY <1>t, <2>2, <2>3, <2>4, <2>7, BodyEnvHolds, NoVarIsNotAName
  <2>9. frames' = SetTop(f)
    BY <2>1 DEF f
  <2> QED
    BY <2>2, <2>3, <2>5, <2>6, <2>7, <2>8, <2>9, StepScope
<1>4. CASE BindValueAndKey
  <2> DEFINE withVal(c) == SetVar(vars, Top.head.v, c)
  <2>1. PICK c \in Cells \ live : \E d \in Cells \ (live \cup {c}) :
          /\ vars' = SetVar(withVal(c), Top.head.k, d)
          /\ frames' = SetTop([Top EXCEPT !.step = "body", !.left = @ - 1,
                                          !.bound_v = c, !.bound_k = d])
    BY <1>4 DEF BindValueAndKey
  <2>2. PICK d \in Cells \ (live \cup {c}) :
          /\ vars' = SetVar(withVal(c), Top.head.k, d)
          /\ frames' = SetTop([Top EXCEPT !.step = "body", !.left = @ - 1,
                                          !.bound_v = c, !.bound_k = d])
    BY <2>1
  <2> DEFINE f == [Top EXCEPT !.step = "body", !.left = @ - 1,
                             !.bound_v = c, !.bound_k = d]
  <2>3. frames # <<>> /\ Top.left > 0 /\ Top.step = "iterate" /\ Top.head.k # NoVar
        /\ leaked' = leaked
    BY <1>4 DEF BindValueAndKey, At
  <2>4. /\ f \in Frames /\ f.head = Top.head /\ f.outer = Top.outer /\ f.tmp = Top.tmp
        /\ f.step = "body" /\ f.bound_v = c /\ f.bound_k = d
        /\ f.saved_v = Top.saved_v /\ f.saved_k = Top.saved_k
    BY <2>3, TopFacts, BindFrame DEF Frames
  <2>5. frames' = SetTop(f)
    BY <2>2 DEF f
  <2> HIDE DEF f
  <2>6. /\ withVal(c) \in Tables /\ NamesUnique(withVal(c))
        /\ \A m : Lookup(withVal(c), m) = IF m = Top.head.v THEN c ELSE Lookup(vars, m)
    BY <2>3, TopFacts, SetVarCorrect
  <2> HIDE DEF withVal
  <2>7. \A m : Lookup(vars', m) = IF m = Top.head.k THEN d
                                 ELSE Lookup(withVal(c), m)
    BY <2>2, <2>3, <2>6, TopFacts, SetVarCorrect
  <2>8. SavedIsOuter(f)
    BY <2>3, <2>4, TopFacts DEF SavedIsOuter
  <2>9. Hidden(f) = {f.head.v, f.head.k} /\ Hidden(Top) = {f.head.v, f.head.k}
    BY <2>3, <2>4 DEF Hidden
  <2>10. \A n \in Names \ {f.head.v, f.head.k} :
            SameBinding(f.outer[n], Lookup(vars', n), leaked')
    BY <2>3, <2>4, <2>6, <2>7, <2>9, TopFacts
  <2>11. SameScope(BodyEnv(f), EnvOf(vars'), leaked')
    BY <1>t, <2>3, <2>4, <2>6, <2>7, <2>10, BodyEnvHolds
  <2> QED
    BY <2>3, <2>4, <2>5, <2>8, <2>9, <2>10, <2>11, StepScope
<1>5. CASE BindFails \/ BodyFails \/ LoopEnds \/ KeyBindFails
  <2> DEFINE f == [Top EXCEPT !.step = "restoreVal"]
  <2>1. /\ frames # <<>> /\ Top.step \in {"iterate", "body"}
        /\ frames' = SetTop(f) /\ leaked' = leaked
    BY <1>5 DEF BindFails, BodyFails, LoopEnds, KeyBindFails, At
  <2>2. /\ f \in Frames /\ f.head = Top.head /\ f.outer = Top.outer /\ f.tmp = Top.tmp
        /\ f.step = "restoreVal"
        /\ f.saved_v = Top.saved_v /\ f.saved_k = Top.saved_k
    BY <2>1, TopFacts DEF Frames, Steps
  <2> HIDE DEF f
  <2>3. \A m : m # Top.head.v => Lookup(vars', m) = Lookup(vars, m)
    <3>1. CASE KeyBindFails
      <4>1. PICK c \in Cells \ live : vars' = SetVar(vars, Top.head.v, c)
        BY <3>1 DEF KeyBindFails
      <4> QED
        BY <4>1, <2>1, TopFacts, SetVarCorrect
    <3>2. CASE BindFails \/ BodyFails \/ LoopEnds
      BY <3>2 DEF BindFails, BodyFails, LoopEnds
    <3> QED
      BY <1>5, <3>1, <3>2
  <2>4. SavedIsOuter(f)
    BY <2>1, <2>2, TopFacts DEF SavedIsOuter
  <2>5. Hidden(f) = {f.head.v, f.head.k} /\ Hidden(Top) = {f.head.v, f.head.k}
    BY <2>1, <2>2 DEF Hidden
  <2>6. \A n \in Names \ Hidden(f) :
            SameBinding(f.outer[n], Lookup(vars', n), leaked')
    BY <2>1, <2>2, <2>3, <2>5, TopFacts
  <2> QED
    BY <2>1, <2>2, <2>4, <2>6, StepScope
<1>6. CASE RestoreVal
  <2> DEFINE rest == TakeVar(vars, Top.head.v)
             f == [Top EXCEPT !.step = "restoreKey", !.saved_v = NoCell]
  <2>1. /\ frames # <<>> /\ Top.step = "restoreVal" /\ frames' = SetTop(f)
    BY <1>6 DEF RestoreVal, At
  <2>2. /\ f \in Frames /\ f.head = Top.head /\ f.outer = Top.outer /\ f.tmp = Top.tmp
        /\ f.step = "restoreKey" /\ f.saved_k = Top.saved_k
    BY <2>1, TopFacts DEF Frames, Steps, Maybe
  <2> HIDE DEF f
  <2>3. /\ rest \in Tables /\ NamesUnique(rest)
        /\ \A m : Lookup(rest, m) = IF m = Top.head.v THEN NoCell ELSE Lookup(vars, m)
    BY <2>1, TopFacts, TakeVarCorrect
  <2>4. \/ /\ vars' = IF Top.saved_v = NoCell THEN rest
                      ELSE SetVar(rest, Top.head.v, Top.saved_v)
           /\ leaked' = leaked
        \/ /\ Top.saved_v # NoCell
           /\ vars' = rest
           /\ leaked' = leaked \cup {Top.saved_v}
    BY <1>6 DEF RestoreVal
  <2> HIDE DEF rest
  <2>5. leaked \subseteq leaked' /\ Top.saved_v \in Cells \cup {NoCell}
    BY <2>1, <2>4, TopType DEF Maybe
  <2>6. Top.saved_v # NoCell => Top.head.v \in Names
    BY <2>1, TopFacts, TopType DEF TypeOK, Shape, Top
  <2>7. /\ \A m : m # Top.head.v => Lookup(vars', m) = Lookup(vars, m)
        /\ SameBinding(Top.saved_v, Lookup(vars', Top.head.v), leaked')
    <3>1. CASE Top.saved_v = NoCell /\ vars' = rest
      BY <3>1, <2>3 DEF SameBinding
    <3>2. CASE Top.saved_v # NoCell /\ vars' = SetVar(rest, Top.head.v, Top.saved_v)
      BY <3>2, <2>3, <2>5, <2>6, SetVarCorrect DEF SameBinding
    <3>3. CASE Top.saved_v \in leaked' /\ vars' = rest
      BY <3>3, <2>3 DEF SameBinding
    <3> QED
      BY <3>1, <3>2, <3>3, <2>4
  <2>8. SavedIsOuter(f)
    BY <2>1, <2>2, TopFacts DEF SavedIsOuter
  <2>9. /\ Hidden(f) = {f.head.k} /\ Hidden(Top) = {f.head.v, f.head.k}
    BY <2>1, <2>2 DEF Hidden
  <2>10. \A n \in Names \ Hidden(f) :
            SameBinding(f.outer[n], Lookup(vars', n), leaked')
    <3> SUFFICES ASSUME NEW n \in Names \ Hidden(f)
                 PROVE  SameBinding(f.outer[n], Lookup(vars', n), leaked')
      OBVIOUS
    <3>1. CASE n = f.head.v
      <4>1. Top.saved_v = Top.outer[n]
        BY <3>1, <2>1, <2>2, TopFacts, NoVarIsNotAName DEF SavedIsOuter
      <4> QED
        BY <3>1, <4>1, <2>2, <2>7
    <3>2. CASE n # f.head.v
      <4>1. n \in Names \ Hidden(Top)
        BY <3>2, <2>9
      <4>2. SameBinding(Top.outer[n], Lookup(vars, n), leaked)
        BY <4>1, <2>1, TopFacts
      <4>3. Lookup(vars', n) = Lookup(vars, n)
        BY <3>2, <2>2, <2>7
      <4> QED
        BY <4>2, <4>3, <2>2, <2>5, SameGrows
    <3> QED
      BY <3>1, <3>2
  <2> QED
    BY <2>1, <2>2, <2>5, <2>8, <2>10, StepScope
<1>7. CASE RestoreKey
  <2> DEFINE rest == TakeVar(vars, Top.head.k)
             f == [Top EXCEPT !.step = "leave", !.saved_k = NoCell]
  <2>1. /\ frames # <<>> /\ Top.step = "restoreKey" /\ frames' = SetTop(f)
    BY <1>7 DEF RestoreKey, At
  <2>2. /\ f \in Frames /\ f.head = Top.head /\ f.outer = Top.outer /\ f.tmp = Top.tmp
        /\ f.step = "leave" /\ f.saved_v = Top.saved_v
    BY <2>1, TopFacts DEF Frames, Steps, Maybe
  <2> HIDE DEF f
  <2>3. /\ rest \in Tables /\ NamesUnique(rest)
        /\ \A m : Lookup(rest, m) = IF m = Top.head.k THEN NoCell ELSE Lookup(vars, m)
    BY <2>1, TopFacts, TakeVarCorrect
  <2>4. \/ /\ vars' = IF Top.saved_k = NoCell THEN rest
                      ELSE SetVar(rest, Top.head.k, Top.saved_k)
           /\ leaked' = leaked
        \/ /\ Top.saved_k # NoCell
           /\ vars' = rest
           /\ leaked' = leaked \cup {Top.saved_k}
    BY <1>7 DEF RestoreKey
  <2> HIDE DEF rest
  <2>5. leaked \subseteq leaked' /\ Top.saved_k \in Cells \cup {NoCell}
    BY <2>1, <2>4, TopType DEF Maybe
  <2>6. Top.saved_k # NoCell => Top.head.k \in Names
    BY <2>1, TopFacts, TopType DEF TypeOK, Shape, Top
  <2>7. /\ \A m : m # Top.head.k => Lookup(vars', m) = Lookup(vars, m)
        /\ SameBinding(Top.saved_k, Lookup(vars', Top.head.k), leaked')
    <3>1. CASE Top.saved_k = NoCell /\ vars' = rest
      BY <3>1, <2>3 DEF SameBinding
    <3>2. CASE Top.saved_k # NoCell /\ vars' = SetVar(rest, Top.head.k, Top.saved_k)
      BY <3>2, <2>3, <2>5, <2>6, SetVarCorrect DEF SameBinding
    <3>3. CASE Top.saved_k \in leaked' /\ vars' = rest
      BY <3>3, <2>3 DEF SameBinding
    <3> QED
      BY <3>1, <3>2, <3>3, <2>4
  <2>8. SavedIsOuter(f)
    BY <2>1, <2>2, TopFacts DEF SavedIsOuter
  <2>9. /\ Hidden(f) = {} /\ Hidden(Top) = {f.head.k}
    BY <2>1, <2>2 DEF Hidden
  <2>10. \A n \in Names \ Hidden(f) :
            SameBinding(f.outer[n], Lookup(vars', n), leaked')
    <3> SUFFICES ASSUME NEW n \in Names \ Hidden(f)
                 PROVE  SameBinding(f.outer[n], Lookup(vars', n), leaked')
      OBVIOUS
    <3>1. CASE n = f.head.k
      <4>1. Top.saved_k = Top.outer[n]
        BY <3>1, <2>1, <2>2, TopFacts, NoVarIsNotAName DEF SavedIsOuter
      <4> QED
        BY <3>1, <4>1, <2>2, <2>7
    <3>2. CASE n # f.head.k
      <4>1. n \in Names \ Hidden(Top)
        BY <3>2, <2>9
      <4>2. SameBinding(Top.outer[n], Lookup(vars, n), leaked)
        BY <4>1, <2>1, TopFacts
      <4>3. Lookup(vars', n) = Lookup(vars, n)
        BY <3>2, <2>2, <2>7
      <4> QED
        BY <4>2, <4>3, <2>2, <2>5, SameGrows
    <3> QED
      BY <3>1, <3>2
  <2> QED
    BY <2>1, <2>2, <2>5, <2>8, <2>10, StepScope
<1>8. CASE BodyDone
  <2> DEFINE f == [Top EXCEPT !.step = "iterate"]
  <2>1. /\ frames # <<>> /\ Top.step = "body"
        /\ frames' = SetTop(f) /\ leaked' = leaked /\ vars' = vars
    BY <1>8 DEF BodyDone, At
  <2>2. /\ f \in Frames /\ f.head = Top.head /\ f.outer = Top.outer /\ f.tmp = Top.tmp
        /\ f.step = "iterate"
        /\ f.saved_v = Top.saved_v /\ f.saved_k = Top.saved_k
    BY <2>1, TopFacts DEF Frames, Steps
  <2> HIDE DEF f
  <2>3. SavedIsOuter(f)
    BY <2>1, <2>2, TopFacts DEF SavedIsOuter
  <2>4. Hidden(f) = {f.head.v, f.head.k} /\ Hidden(Top) = {f.head.v, f.head.k}
    BY <2>1, <2>2 DEF Hidden
  <2>5. \A n \in Names \ Hidden(f) :
            SameBinding(f.outer[n], Lookup(vars', n), leaked')
    BY <2>1, <2>2, <2>4, TopFacts
  <2> QED
    BY <2>1, <2>2, <2>3, <2>5, StepScope
<1>9. CASE LeaveLoop
  <2>1. /\ frames # <<>> /\ Top.step = "leave" /\ leaked' = leaked
        /\ frames' = SubSeq(frames, 1, Len(frames) - 1)
    BY <1>9 DEF LeaveLoop, At, Depth
  <2>2. /\ Depth \in Nat /\ Depth >= 1 /\ Depth' = Depth - 1
        /\ \A i \in 1 .. Depth - 1 : frames'[i] = frames[i]
    BY <2>1, StackPop, StackTop DEF TypeOK, Depth
  <2>3. Nested' /\ \A i \in 1 .. Depth' : SavedIsOuter(frames'[i])
    <3>1. \A i \in 1 .. Depth' - 1 : /\ i \in 1 .. Depth - 1
                                    /\ i + 1 \in 1 .. Depth - 1
      BY <2>2
    <3>2. \A i \in 1 .. Depth' : i \in 1 .. Depth
      BY <2>2
    <3> QED
      BY <2>1, <2>2, <3>1, <3>2 DEF ScopeInv, Nested
  <2>4. CASE Depth = 1
    <3>1. frames' = <<>>
      BY <2>1, <2>2, <2>4 DEF Depth
    <3> QED
      BY <2>3, <3>1 DEF ScopeInv, TopScope, BodyScope, At
  <2>5. CASE Depth > 1
    <3> DEFINE g == frames[Depth - 1]
    <3>1. frames' # <<>> /\ Top' = g
      BY <2>2, <2>5 DEF Depth, Top
    <3>2. vars' = vars
      <4>1. ~Top.tmp
        BY <2>2, <2>5 DEF TypeOK, Shape, Top
      <4> QED
        BY <1>9, <4>1 DEF LeaveLoop
    <3>3. g.step = "body" /\ SameScope(BodyEnv(g), Top.outer, leaked)
      BY <2>2, <2>5 DEF ScopeInv, Nested, Top
    <3> HIDE DEF g
    <3>4. SameScope(Top.outer, EnvOf(vars), leaked)
      BY <2>1, TopFacts DEF Hidden, SameScope, EnvOf
    <3>5. SameScope(BodyEnv(g), EnvOf(vars), leaked)
      BY <2>1, <3>3, <3>4, TopFacts, SameTrans DEF SameScope
    <3>6. BodyScope'
      BY <2>1, <3>1, <3>2, <3>5 DEF BodyScope
    <3>7. TopScope'
      <4> SUFFICES ASSUME NEW n \in Names \ Hidden(g)
                   PROVE  SameBinding(g.outer[n], Lookup(vars, n), leaked)
        BY <2>1, <3>1, <3>2 DEF TopScope
      <4>1. n # g.head.v /\ n # g.head.k
        BY <3>3 DEF Hidden
      <4>2. BodyEnv(g)[n] = g.outer[n] /\ EnvOf(vars)[n] = Lookup(vars, n)
        BY <4>1 DEF BodyEnv, EnvOf
      <4> QED
        BY <4>2, <3>5 DEF SameScope
    <3> QED
      BY <2>3, <3>6, <3>7 DEF ScopeInv
  <2> QED
    BY <2>2, <2>4, <2>5
<1>10. CASE UNCHANGED state
  BY <1>10 DEF state, ScopeInv, Nested, TopScope, BodyScope, At, Top, Depth
<1> QED
  BY <1>1, <1>2, <1>3, <1>4, <1>5, <1>6, <1>7, <1>8, <1>9, <1>10, Zenon DEF Next

LEMMA ScopeImplied == ScopeInv => BodyScope /\ ScopeRestored
BY DEF ScopeInv, TopScope, ScopeRestored, Hidden, SameScope, EnvOf, At

\* Bodies see their own loop's variables over the enclosing scope, and every
\* loop puts back what it hid, up to values lost to a failed allocation: for
\* any names, any nesting, any collections and any pattern of failures.
THEOREM ScopeSafe ==
    ASSUME DistinctVars
    PROVE  Spec => [](BodyScope /\ ScopeRestored)
<1>1. TypeOK /\ TypeOK' /\ ScopeInv /\ [Next]_state => ScopeInv'
  BY ScopeStep
<1> QED
  BY ScopeInit, <1>1, TypeCorrect, ScopeImplied, PTL DEF Spec

\* Whenever a loop returns, every name is bound as it was when the loop was
\* entered, or to nothing if a failed restore lost the value (eval_for and
\* handle_for on every path: normal end, failed body, failed allocation).
THEOREM LoopsRestoreTheirScope ==
    ASSUME DistinctVars
    PROVE  Spec => []ScopeRestored
BY ScopeSafe, PTL

------------------------------------------------------------------------------
(* Refinement.                                                             *)

LEMMA LoopsUnchanged ==
    ASSUME Depth' = Depth,
           \A i \in 1 .. Depth : /\ frames'[i].outer = frames[i].outer
                                /\ frames'[i].head = frames[i].head
    PROVE  Loops' = Loops
BY DEF Loops

LEMMA LoopsTop ==
    ASSUME TypeOK, frames # <<>>
    PROVE  /\ Loops # <<>> /\ Len(Loops) = Depth
           /\ Loops[Len(Loops)] = [head |-> Top.head, outer |-> Top.outer]
<1>1. Depth \in Nat /\ Depth >= 1
  BY TopType
<1>2. Len(Loops) = Depth
  BY <1>1 DEF Loops
<1>3. Loops[Depth] = [head |-> Top.head, outer |-> Top.outer]
  BY <1>1 DEF Loops, Top
<1>4. Loops # <<>>
  BY <1>1, <1>2
<1> QED
  BY <1>2, <1>3, <1>4

\* A step of the running loop that binds only its own names, and loses at most
\* what it hid, is a step Within the loop.
LEMMA StepWithin ==
    ASSUME TypeOK, TypeOK', ScopeInv, frames # <<>>,
           NEW f \in Frames, frames' = SetTop(f),
           f.tmp = Top.tmp, f.outer = Top.outer, f.head = Top.head,
           \A n \in Names \ {Top.head.v, Top.head.k} :
               Lookup(vars', n) = Lookup(vars, n),
           leaked \subseteq leaked',
           leaked' \subseteq leaked \cup
               {Top.outer[n] : n \in {Top.head.v, Top.head.k} \ {NoVar}}
    PROVE  Scope!Within
<1>1. Loops' = Loops
  BY StepTop, LoopsUnchanged
<1>2. Scope!Innermost = [head |-> Top.head, outer |-> Top.outer] /\ Loops # <<>>
  BY LoopsTop DEF Scope!Innermost
<1>3. EnvOf(vars)' \in Scope!Envs
  BY EnvType DEF TypeOK, Scope!Envs, Maybe
<1>4. \A n \in Names : n \notin Scope!LoopNames(Top.head) =>
          EnvOf(vars)'[n] = EnvOf(vars)[n]
  BY NoVarIsNotAName DEF EnvOf, Scope!LoopNames
<1> QED
  BY <1>1, <1>2, <1>3, <1>4 DEF Scope!Within, Scope!LoopNames

LEMMA RefineInit == Init => Scope!Init
BY EmptyTable DEF Init, Scope!Init, EnvOf, Loops, Depth

LEMMA RefineStep ==
    ASSUME DistinctVars, TypeOK, TypeOK', ScopeInv, ScopeInv', [Next]_state
    PROVE  [Scope!Next]_(Scope!scope)
<1>1. CASE (\E n \in Names : CallerBinds(n)) \/ CallerFreesCtx \/ CallerMakesCtx
  <2>1. frames = <<>> /\ frames' = frames /\ leaked' = leaked
    BY <1>1 DEF CallerBinds, CallerFreesCtx, CallerMakesCtx
  <2>2. Loops = <<>> /\ Loops' = Loops
    BY <2>1 DEF Loops, Depth
  <2>3. EnvOf(vars)' \in Scope!Envs
    BY EnvType DEF TypeOK, Scope!Envs, Maybe
  <2> QED
    BY <2>1, <2>2, <2>3 DEF Scope!Next, Scope!Outside
<1>2. ASSUME NEW h \in Headers, EnterLoop(h) PROVE Scope!Next
  <2>1. PICK f : frames' = Append(frames, f) /\ f.head = h /\ f.outer = EnvOf(vars)
    BY <1>2 DEF EnterLoop
  <2>2. /\ frames \in Seq(Frames) /\ Depth \in Nat
        /\ vars \in Tables /\ NamesUnique(vars)
        /\ h.v \in Names
    BY ElementType, HeadersAreHeaders DEF TypeOK, Depth
  <2>3. /\ Depth' = Depth + 1 /\ frames'[Depth + 1] = f
        /\ \A i \in 1 .. Depth : frames'[i] = frames[i]
    BY <2>1, <2>2 DEF Depth
  <2>4. Loops' = Append(Loops, [head |-> h, outer |-> EnvOf(vars)])
    <3> DEFINE e == [head |-> h, outer |-> EnvOf(vars)]
               S == {Loops[i] : i \in 1 .. Depth} \cup {e}
               push == Append(Loops, e)
    <3>1. Loops \in Seq(S) /\ e \in S /\ Len(Loops) = Depth
      <4>1. Loops = [i \in 1 .. Depth |-> Loops[i]]
        BY DEF Loops
      <4>2. (\A i \in 1 .. Depth : Loops[i] \in S) /\ e \in S
        OBVIOUS
      <4> HIDE DEF S
      <4>3. Loops \in Seq(S)
        BY <2>2, <4>1, <4>2
      <4>4. Len(Loops) = Depth
        BY <2>2, <4>1
      <4> QED
        BY <4>2, <4>3, <4>4
    <3> HIDE DEF S, e
    <3>2. /\ push \in Seq(S) /\ Len(push) = Depth + 1
          /\ push[Depth + 1] = e
          /\ \A i \in 1 .. Depth : push[i] = Loops[i]
      BY <3>1, StackPush
    <3> HIDE DEF push
    <3>3. push = [i \in 1 .. Depth + 1 |-> push[i]]
      BY <3>2
    <3>4. Loops' = [i \in 1 .. Depth + 1 |-> [head |-> frames'[i].head, outer |-> frames'[i].outer]]
      BY <2>3 DEF Loops
    <3>5. \A i \in 1 .. Depth + 1 :
              [head |-> frames'[i].head, outer |-> frames'[i].outer] = push[i]
      <4>1. [head |-> f.head, outer |-> f.outer] = e
        BY <2>1 DEF e
      <4>2. \A i \in 1 .. Depth :
              [head |-> frames'[i].head, outer |-> frames'[i].outer] = Loops[i]
        BY <2>3 DEF Loops
      <4>3. \A i \in 1 .. Depth + 1 : i \in 1 .. Depth \/ i = Depth + 1
        BY <2>2
      <4> QED
        BY <2>3, <3>2, <4>1, <4>2, <4>3
    <3>6. Loops' = push
      BY <3>3, <3>4, <3>5
    <3> QED
      BY <3>6 DEF push, e
  <2>5. EnvOf(vars)' = [n \in Names |-> IF n \in Scope!LoopNames(h) THEN NoCell
                                        ELSE EnvOf(vars)[n]]
    <3> DEFINE rest == TakeVar(vars, h.v)
    <3>1. /\ rest \in Tables /\ NamesUnique(rest)
          /\ \A m : Lookup(rest, m) = IF m = h.v THEN NoCell ELSE Lookup(vars, m)
      BY <2>2, TakeVarCorrect
    <3> HIDE DEF rest
    <3>2. \A m : Lookup(vars', m) = IF m = h.k THEN NoCell ELSE Lookup(rest, m)
      BY <1>2, <3>1, TakeVarCorrect DEF EnterLoop, rest
    <3> QED
      BY <3>1, <3>2, NoVarIsNotAName DEF EnvOf, Scope!LoopNames
  <2>6. leaked' = leaked
    BY <1>2 DEF EnterLoop
  <2> QED
    BY <2>4, <2>5, <2>6 DEF Scope!Next, Scope!Enter
<1>3. CASE BindValueOnly
  <2>1. PICK c \in Cells \ live :
          /\ vars' = SetVar(vars, Top.head.v, c)
          /\ frames' = SetTop([Top EXCEPT !.step = "body", !.left = @ - 1, !.bound_v = c])
    BY <1>3 DEF BindValueOnly
  <2> DEFINE f == [Top EXCEPT !.step = "body", !.left = @ - 1, !.bound_v = c]
  <2>2. frames # <<>> /\ Top.left > 0 /\ leaked' = leaked
    BY <1>3 DEF BindValueOnly, At
  <2>3. f \in Frames /\ f.head = Top.head /\ f.outer = Top.outer /\ f.tmp = Top.tmp
    BY <2>2, TopFacts, BindFrame DEF Frames
  <2>4. frames' = SetTop(f)
    BY <2>1
  <2> HIDE DEF f
  <2>5. \A n \in Names \ {Top.head.v, Top.head.k} : Lookup(vars', n) = Lookup(vars, n)
    BY <2>1, <2>2, TopFacts, SetVarCorrect
  <2> QED
    BY <2>2, <2>3, <2>4, <2>5, StepWithin DEF Scope!Next
<1>4. CASE BindValueAndKey
  <2> DEFINE withVal(c) == SetVar(vars, Top.head.v, c)
  <2>1. PICK c \in Cells \ live : \E d \in Cells \ (live \cup {c}) :
          /\ vars' = SetVar(withVal(c), Top.head.k, d)
          /\ frames' = SetTop([Top EXCEPT !.step = "body", !.left = @ - 1,
                                          !.bound_v = c, !.bound_k = d])
    BY <1>4 DEF BindValueAndKey
  <2>2. PICK d \in Cells \ (live \cup {c}) :
          /\ vars' = SetVar(withVal(c), Top.head.k, d)
          /\ frames' = SetTop([Top EXCEPT !.step = "body", !.left = @ - 1,
                                          !.bound_v = c, !.bound_k = d])
    BY <2>1
  <2> DEFINE f == [Top EXCEPT !.step = "body", !.left = @ - 1,
                             !.bound_v = c, !.bound_k = d]
  <2>3. frames # <<>> /\ Top.left > 0 /\ Top.head.k # NoVar /\ leaked' = leaked
    BY <1>4 DEF BindValueAndKey, At
  <2>4. f \in Frames /\ f.head = Top.head /\ f.outer = Top.outer /\ f.tmp = Top.tmp
    BY <2>3, TopFacts, BindFrame DEF Frames
  <2>5. frames' = SetTop(f)
    BY <2>2
  <2> HIDE DEF f
  <2>6. /\ withVal(c) \in Tables /\ NamesUnique(withVal(c))
        /\ \A m : Lookup(withVal(c), m) = IF m = Top.head.v THEN c ELSE Lookup(vars, m)
    BY <2>3, TopFacts, SetVarCorrect
  <2> HIDE DEF withVal
  <2>7. \A n \in Names \ {Top.head.v, Top.head.k} : Lookup(vars', n) = Lookup(vars, n)
    BY <2>2, <2>3, <2>6, TopFacts, SetVarCorrect
  <2> QED
    BY <2>3, <2>4, <2>5, <2>7, StepWithin DEF Scope!Next
<1>5. CASE BindFails \/ BodyFails \/ LoopEnds \/ KeyBindFails \/ BodyDone
  <2>1. PICK step \in {"restoreVal", "iterate"} :
          frames' = SetTop([Top EXCEPT !.step = step])
    BY <1>5 DEF BindFails, BodyFails, LoopEnds, KeyBindFails, BodyDone
  <2> DEFINE f == [Top EXCEPT !.step = step]
  <2>2. frames # <<>> /\ leaked' = leaked
    BY <1>5 DEF BindFails, BodyFails, LoopEnds, KeyBindFails, BodyDone, At
  <2>3. f \in Frames /\ f.head = Top.head /\ f.outer = Top.outer /\ f.tmp = Top.tmp
    BY <2>2, TopFacts DEF Frames, Steps
  <2>4. frames' = SetTop(f)
    BY <2>1
  <2> HIDE DEF f
  <2>5. \A n \in Names \ {Top.head.v, Top.head.k} : Lookup(vars', n) = Lookup(vars, n)
    <3>1. CASE KeyBindFails
      <4>1. PICK c \in Cells \ live : vars' = SetVar(vars, Top.head.v, c)
        BY <3>1 DEF KeyBindFails
      <4> QED
        BY <4>1, <2>2, TopFacts, SetVarCorrect
    <3>2. CASE BindFails \/ BodyFails \/ LoopEnds \/ BodyDone
      BY <3>2 DEF BindFails, BodyFails, LoopEnds, BodyDone
    <3> QED
      BY <1>5, <3>1, <3>2
  <2> QED
    BY <2>2, <2>3, <2>4, <2>5, StepWithin DEF Scope!Next
<1>6. CASE RestoreVal
  <2> DEFINE rest == TakeVar(vars, Top.head.v)
             f == [Top EXCEPT !.step = "restoreKey", !.saved_v = NoCell]
  <2>1. /\ frames # <<>> /\ Top.step = "restoreVal" /\ frames' = SetTop(f)
    BY <1>6 DEF RestoreVal, At
  <2>2. f \in Frames /\ f.head = Top.head /\ f.outer = Top.outer /\ f.tmp = Top.tmp
    BY <2>1, TopFacts DEF Frames, Steps, Maybe
  <2> HIDE DEF f
  <2>3. /\ rest \in Tables /\ NamesUnique(rest)
        /\ \A m : Lookup(rest, m) = IF m = Top.head.v THEN NoCell ELSE Lookup(vars, m)
    BY <2>1, TopFacts, TakeVarCorrect
  <2>4. /\ \/ vars' = rest
           \/ Top.saved_v # NoCell /\ vars' = SetVar(rest, Top.head.v, Top.saved_v)
        /\ leaked \subseteq leaked'
        /\ leaked' # leaked => leaked' = leaked \cup {Top.saved_v} /\ Top.saved_v # NoCell
    BY <1>6 DEF RestoreVal
  <2> HIDE DEF rest
  <2>5. Top.saved_v # NoCell => /\ Top.head.v \in Names
                               /\ Top.saved_v = Top.outer[Top.head.v]
    BY <2>1, TopFacts, TopType DEF TypeOK, Shape, Top, SavedIsOuter
  <2>6. \A m : m # Top.head.v => Lookup(vars', m) = Lookup(vars, m)
    BY <2>1, <2>3, <2>4, <2>5, TopType, SetVarCorrect DEF Maybe
  <2>7. leaked' \subseteq leaked \cup
            {Top.outer[n] : n \in {Top.head.v, Top.head.k} \ {NoVar}}
    BY <2>4, <2>5, NoVarIsNotAName
  <2> QED
    BY <2>1, <2>2, <2>4, <2>6, <2>7, StepWithin DEF Scope!Next
<1>7. CASE RestoreKey
  <2> DEFINE rest == TakeVar(vars, Top.head.k)
             f == [Top EXCEPT !.step = "leave", !.saved_k = NoCell]
  <2>1. /\ frames # <<>> /\ Top.step = "restoreKey" /\ frames' = SetTop(f)
    BY <1>7 DEF RestoreKey, At
  <2>2. f \in Frames /\ f.head = Top.head /\ f.outer = Top.outer /\ f.tmp = Top.tmp
    BY <2>1, TopFacts DEF Frames, Steps, Maybe
  <2> HIDE DEF f
  <2>3. /\ rest \in Tables /\ NamesUnique(rest)
        /\ \A m : Lookup(rest, m) = IF m = Top.head.k THEN NoCell ELSE Lookup(vars, m)
    BY <2>1, TopFacts, TakeVarCorrect
  <2>4. /\ \/ vars' = rest
           \/ Top.saved_k # NoCell /\ vars' = SetVar(rest, Top.head.k, Top.saved_k)
        /\ leaked \subseteq leaked'
        /\ leaked' # leaked => leaked' = leaked \cup {Top.saved_k} /\ Top.saved_k # NoCell
    BY <1>7 DEF RestoreKey
  <2> HIDE DEF rest
  <2>5. Top.saved_k # NoCell => /\ Top.head.k \in Names
                               /\ Top.saved_k = Top.outer[Top.head.k]
    BY <2>1, TopFacts, TopType DEF TypeOK, Shape, Top, SavedIsOuter
  <2>6. \A m : m # Top.head.k => Lookup(vars', m) = Lookup(vars, m)
    BY <2>1, <2>3, <2>4, <2>5, TopType, SetVarCorrect DEF Maybe
  <2>7. leaked' \subseteq leaked \cup
            {Top.outer[n] : n \in {Top.head.v, Top.head.k} \ {NoVar}}
    BY <2>4, <2>5, NoVarIsNotAName
  <2> QED
    BY <2>1, <2>2, <2>4, <2>6, <2>7, StepWithin DEF Scope!Next
<1>8. CASE LeaveLoop
  <2>1. /\ frames # <<>> /\ Top.step = "leave" /\ leaked' = leaked
        /\ frames' = SubSeq(frames, 1, Len(frames) - 1)
    BY <1>8 DEF LeaveLoop, At, Depth
  <2>2. /\ Depth \in Nat /\ Depth >= 1 /\ Depth' = Depth - 1
        /\ \A i \in 1 .. Depth - 1 : frames'[i] = frames[i]
    BY <2>1, StackPop, StackTop DEF TypeOK, Depth
  <2>3. Loops' = SubSeq(Loops, 1, Len(Loops) - 1)
    <3> DEFINE S == {Loops[i] : i \in 1 .. Depth}
               pop == SubSeq(Loops, 1, Len(Loops) - 1)
    <3>1. Len(Loops) = Depth /\ Loops \in Seq(S) /\ Loops # <<>>
      <4>1. Loops = [i \in 1 .. Depth |-> Loops[i]]
        BY DEF Loops
      <4>2. \A i \in 1 .. Depth : Loops[i] \in S
        OBVIOUS
      <4> HIDE DEF S
      <4>3. Loops \in Seq(S)
        BY <2>2, <4>1, <4>2
      <4> QED
        BY <2>1, <4>3, LoopsTop
    <3> HIDE DEF S
    <3>2. /\ pop \in Seq(S) /\ Len(pop) = Depth - 1
          /\ \A i \in 1 .. Depth - 1 : pop[i] = Loops[i]
      BY <3>1, StackPop
    <3> HIDE DEF pop
    <3>3. pop = [i \in 1 .. Depth - 1 |-> Loops[i]]
      BY <3>2
    <3>4. Loops' = [i \in 1 .. Depth - 1 |-> Loops[i]]
      <4>1. \A i \in 1 .. Depth - 1 : i \in 1 .. Depth
        BY <2>2
      <4> QED
        BY <2>2, <4>1 DEF Loops
    <3> QED
      BY <3>3, <3>4 DEF pop
  <2>4. SameScope(Top.outer, EnvOf(vars'), leaked)
    <3>1. SameScope(Top.outer, EnvOf(vars), leaked)
      BY <2>1, ScopeImplied DEF ScopeRestored, At
    <3>2. CASE Top.tmp
      <4>1. vars' = <<>>
        BY <1>8, <3>2 DEF LeaveLoop
      <4>2. \A n \in Names : Top.outer[n] = NoCell
        BY <3>2, <2>2 DEF TypeOK, Shape, Top
      <4> QED
        BY <4>1, <4>2, EmptyTable DEF SameScope, SameBinding, EnvOf
    <3>3. CASE ~Top.tmp
      BY <1>8, <3>1, <3>3 DEF LeaveLoop
    <3> QED
      BY <3>2, <3>3
  <2>5. EnvOf(vars)' \in Scope!Envs
    BY EnvType DEF TypeOK, Scope!Envs, Maybe
  <2>6. Scope!Innermost = [head |-> Top.head, outer |-> Top.outer] /\ Loops # <<>>
    BY <2>1, LoopsTop DEF Scope!Innermost
  <2>7. Scope!SameScope(Scope!Innermost.outer, EnvOf(vars)', leaked)
    BY <2>4, <2>6 DEF SameScope, SameBinding, Scope!SameScope
  <2> QED
    BY <2>1, <2>3, <2>5, <2>6, <2>7 DEF Scope!Next, Scope!Leave
<1>9. CASE UNCHANGED state
  BY <1>9 DEF state, Scope!scope, EnvOf, Loops, Depth
<1> QED
  BY <1>1, <1>2, <1>3, <1>4, <1>5, <1>6, <1>7, <1>8, <1>9, Zenon DEF Next

\* The protocol of eval_for and handle_for implements LexicalScope.
THEOREM ImplementsLexicalScope ==
    ASSUME DistinctVars
    PROVE  Spec => LexicallyScoped
<1>1. TypeOK /\ TypeOK' /\ ScopeInv /\ [Next]_state => ScopeInv'
  BY ScopeStep
<1>2. TypeOK /\ TypeOK' /\ ScopeInv /\ ScopeInv' /\ [Next]_state
          => [Scope!Next]_(Scope!scope)
  BY RefineStep
<1> QED
  BY ScopeInit, RefineInit, <1>1, <1>2, TypeCorrect, PTL
     DEF Spec, LexicallyScoped, Scope!Spec

------------------------------------------------------------------------------
(* Every cell of the protocol has one owner.  The owners are turned into a  *)
(* total function from slots to pointers: one slot for each name of the     *)
(* context, two for each activation.  Every operation of the code is then a *)
(* put, a free, a move between two slots or the loss of one slot's pointer, *)
(* whatever the table's layout.                                             *)

\* The slots that own a cell: a name of the context, and for each activation the
\* value ("v") and the key ("k") it has taken out of the context.
StackSlots == {"v", "k"} \X (Nat \ {0})
OwnerSlots == ({"name"} \X Names) \cup StackSlots

\* What the activations keep, and with the table what every slot owns: total
\* functions, holding nothing for an unbound name or beyond the stack.
Saved(fs) ==
    [s \in StackSlots |->
       IF s[2] \notin DOMAIN fs THEN NoCell
       ELSE IF s[1] = "v" THEN fs[s[2]].saved_v ELSE fs[s[2]].saved_k]

Held(t, kept) ==
    [s \in OwnerSlots |-> IF s \in StackSlots THEN kept[s] ELSE Lookup(t, s[2])]

\* The function h with the value at s changed to c.
With(h, s, c) == [r \in DOMAIN h |-> IF r = s THEN c ELSE h[r]]

\* h names at most one owner for a cell, the cells with an owner or lost are the
\* allocated ones, and a lost cell has no owner.
OneOwner(h, cells, gone) ==
    /\ h \in [OwnerSlots -> Maybe]
    /\ cells \subseteq Cells /\ gone \subseteq Cells
    /\ \A s, t \in OwnerSlots : h[s] = h[t] /\ h[s] # NoCell => s = t
    /\ \A c \in Cells : c \in cells <=> c \in gone \/ \E s \in OwnerSlots : h[s] = c
    /\ \A s \in OwnerSlots : h[s] \notin gone

\* An activation that has handed its saved values back owns nothing.
HandedBack ==
    \A i \in 1 .. Depth :
        /\ frames[i].step \in {"restoreKey", "leave"} => frames[i].saved_v = NoCell
        /\ frames[i].step = "leave" => frames[i].saved_k = NoCell

OwnInv == OneOwner(Held(vars, Saved(frames)), live, leaked) /\ HandedBack

------------------------------------------------------------------------------
(* The four things that happen to owners.                                  *)

LEMMA OwnerPut ==
    ASSUME NEW h, NEW cells, NEW gone, OneOwner(h, cells, gone),
           NEW s \in OwnerSlots, NEW c \in Cells \ cells
    PROVE  OneOwner(With(h, s, c), FreeOne(cells, h[s]) \cup {c}, gone)
BY NoCellIsNotACell DEF OneOwner, FreeOne, Maybe, With

LEMMA OwnerFree ==
    ASSUME NEW h, NEW cells, NEW gone, OneOwner(h, cells, gone),
           NEW s \in OwnerSlots
    PROVE  OneOwner(With(h, s, NoCell), FreeOne(cells, h[s]), gone)
BY NoCellIsNotACell DEF OneOwner, FreeOne, Maybe, With

LEMMA OwnerMove ==
    ASSUME NEW h, NEW cells, NEW gone, OneOwner(h, cells, gone),
           NEW s \in OwnerSlots, NEW t \in OwnerSlots, s # t, h[t] = NoCell
    PROVE  OneOwner(With(With(h, t, h[s]), s, NoCell), cells, gone)
BY NoCellIsNotACell DEF OneOwner, Maybe, With

LEMMA OwnerLeak ==
    ASSUME NEW h, NEW cells, NEW gone, OneOwner(h, cells, gone),
           NEW s \in OwnerSlots, h[s] # NoCell
    PROVE  OneOwner(With(h, s, NoCell), cells, gone \cup {h[s]})
BY NoCellIsNotACell DEF OneOwner, Maybe, With

------------------------------------------------------------------------------
(* What the operations on the table do to the owners.                      *)

LEMMA SlotKinds ==
    /\ \A n \in Names : <<"name", n>> \in OwnerSlots /\ <<"name", n>> \notin StackSlots
    /\ \A n, m \in Names : <<"name", n>> = <<"name", m>> => n = m
    /\ \A s \in OwnerSlots : s \in StackSlots \/ \E n \in Names : s = <<"name", n>>
    /\ StackSlots \subseteq OwnerSlots
BY DEF OwnerSlots, StackSlots

LEMMA HeldAt ==
    ASSUME NEW t \in Tables, NamesUnique(t), NEW kept \in [StackSlots -> Maybe]
    PROVE  /\ Held(t, kept) \in [OwnerSlots -> Maybe]
           /\ \A n \in Names : Held(t, kept)[<<"name", n>>] = Lookup(t, n)
           /\ \A s \in StackSlots : Held(t, kept)[s] = kept[s]
<1>1. \A n : Lookup(t, n) \in Maybe
  BY LookupType DEF Maybe
<1>2. \A n \in Names : Held(t, kept)[<<"name", n>>] = Lookup(t, n)
  BY SlotKinds DEF Held
<1>3. \A s \in StackSlots : Held(t, kept)[s] = kept[s]
  BY SlotKinds DEF Held
<1>4. \A s \in OwnerSlots : Held(t, kept)[s] \in Maybe
  BY <1>1, <1>2, <1>3, SlotKinds
<1>5. Held(t, kept) = [s \in OwnerSlots |-> Held(t, kept)[s]]
  BY DEF Held
<1> HIDE DEF Held
<1>6. Held(t, kept) \in [OwnerSlots -> Maybe]
  BY <1>4, <1>5
<1> QED
  BY <1>2, <1>3, <1>6

LEMMA HeldSet ==
    ASSUME NEW t \in Tables, NamesUnique(t), NEW kept \in [StackSlots -> Maybe],
           NEW n \in Names, NEW c \in Cells
    PROVE  Held(SetVar(t, n, c), kept) = With(Held(t, kept), <<"name", n>>, c)
<1> DEFINE u == SetVar(t, n, c)
<1>1. /\ u \in Tables /\ NamesUnique(u)
      /\ \A m : Lookup(u, m) = IF m = n THEN c ELSE Lookup(t, m)
  BY SetVarCorrect
<1> HIDE DEF u
<1>2. /\ Held(t, kept) \in [OwnerSlots -> Maybe] /\ Held(u, kept) \in [OwnerSlots -> Maybe]
      /\ c \in Maybe
  BY <1>1, HeldAt DEF Maybe
<1>3. ASSUME NEW s \in OwnerSlots
      PROVE  Held(u, kept)[s] = IF s = <<"name", n>> THEN c ELSE Held(t, kept)[s]
  <2>1. CASE s \in StackSlots
    BY <2>1, <1>1, HeldAt, SlotKinds
  <2>2. ASSUME NEW m \in Names, s = <<"name", m>>
        PROVE  Held(u, kept)[s] = IF s = <<"name", n>> THEN c ELSE Held(t, kept)[s]
    BY <2>2, <1>1, HeldAt
  <2> QED
    BY <2>1, <2>2, SlotKinds
<1>4. <<"name", n>> \in OwnerSlots
  BY SlotKinds
<1> QED
  BY <1>2, <1>3, <1>4 DEF u, With

LEMMA HeldTake ==
    ASSUME NEW t \in Tables, NamesUnique(t), NEW kept \in [StackSlots -> Maybe],
           NEW n \in Names
    PROVE  Held(TakeVar(t, n), kept) = With(Held(t, kept), <<"name", n>>, NoCell)
<1> DEFINE u == TakeVar(t, n)
<1>1. /\ u \in Tables /\ NamesUnique(u)
      /\ \A m : Lookup(u, m) = IF m = n THEN NoCell ELSE Lookup(t, m)
  BY TakeVarCorrect
<1> HIDE DEF u
<1>2. /\ Held(t, kept) \in [OwnerSlots -> Maybe] /\ Held(u, kept) \in [OwnerSlots -> Maybe]
      /\ NoCell \in Maybe
  BY <1>1, HeldAt DEF Maybe
<1>3. ASSUME NEW s \in OwnerSlots
      PROVE  Held(u, kept)[s] = IF s = <<"name", n>> THEN NoCell ELSE Held(t, kept)[s]
  <2>1. CASE s \in StackSlots
    BY <2>1, <1>1, HeldAt, SlotKinds
  <2>2. ASSUME NEW m \in Names, s = <<"name", m>>
        PROVE  Held(u, kept)[s] = IF s = <<"name", n>> THEN NoCell ELSE Held(t, kept)[s]
    BY <2>2, <1>1, HeldAt
  <2> QED
    BY <2>1, <2>2, SlotKinds
<1>4. <<"name", n>> \in OwnerSlots
  BY SlotKinds
<1> QED
  BY <1>2, <1>3, <1>4 DEF u, With

LEMMA HeldKept ==
    ASSUME NEW t \in Tables, NamesUnique(t), NEW kept \in [StackSlots -> Maybe],
           NEW s \in StackSlots, NEW c \in Maybe
    PROVE  /\ With(kept, s, c) \in [StackSlots -> Maybe]
           /\ Held(t, With(kept, s, c)) = With(Held(t, kept), s, c)
<1> DEFINE now == With(kept, s, c)
<1>1. now \in [StackSlots -> Maybe] /\ \A r \in StackSlots : now[r] = IF r = s THEN c ELSE kept[r]
  BY DEF With
<1> HIDE DEF now
<1>2. Held(t, kept) \in [OwnerSlots -> Maybe] /\ Held(t, now) \in [OwnerSlots -> Maybe]
  BY <1>1, HeldAt
<1>3. ASSUME NEW r \in OwnerSlots
      PROVE  Held(t, now)[r] = IF r = s THEN c ELSE Held(t, kept)[r]
  <2>1. CASE r \in StackSlots
    BY <2>1, <1>1, HeldAt, SlotKinds
  <2>2. ASSUME NEW m \in Names, r = <<"name", m>>
        PROVE  Held(t, now)[r] = IF r = s THEN c ELSE Held(t, kept)[r]
    BY <2>2, <1>1, HeldAt, SlotKinds
  <2> QED
    BY <2>1, <2>2, SlotKinds
<1>4. Held(t, now) = With(Held(t, kept), s, c)
  BY <1>2, <1>3, SlotKinds DEF With
<1> QED
  BY <1>1, <1>4 DEF now

LEMMA VarPut ==
    ASSUME NEW t \in Tables, NamesUnique(t), NEW kept \in [StackSlots -> Maybe],
           NEW cells, NEW gone, OneOwner(Held(t, kept), cells, gone),
           NEW n \in Names, NEW c \in Cells \ cells
    PROVE  OneOwner(Held(SetVar(t, n, c), kept), FreeOne(cells, Lookup(t, n)) \cup {c}, gone)
<1>1. <<"name", n>> \in OwnerSlots /\ Held(t, kept)[<<"name", n>>] = Lookup(t, n)
  BY HeldAt, SlotKinds
<1> QED
  BY <1>1, HeldSet, OwnerPut

LEMMA VarFreed ==
    ASSUME NEW t \in Tables, NamesUnique(t), NEW kept \in [StackSlots -> Maybe],
           NEW cells, NEW gone, OneOwner(Held(t, kept), cells, gone), NEW n
    PROVE  OneOwner(Held(TakeVar(t, n), kept), FreeOne(cells, Lookup(t, n)), gone)
<1>1. CASE n \in Names
  <2>1. <<"name", n>> \in OwnerSlots /\ Held(t, kept)[<<"name", n>>] = Lookup(t, n)
    BY <1>1, HeldAt, SlotKinds
  <2> QED
    BY <1>1, <2>1, HeldTake, OwnerFree
<1>2. CASE n \notin Names
  <2>1. Lookup(t, n) = NoCell /\ ~Bound(t, n)
    BY <1>2, EntryType, LookupOfUnbound
  <2>2. TakeVar(t, n) = t
    BY <2>1 DEF TakeVar
  <2>3. cells \subseteq Cells
    BY DEF OneOwner
  <2> QED
    BY <2>1, <2>2, <2>3, NoCellIsNotACell DEF FreeOne
<1> QED
  BY <1>1, <1>2

LEMMA VarHidden ==
    ASSUME NEW t \in Tables, NamesUnique(t), NEW kept \in [StackSlots -> Maybe],
           NEW cells, NEW gone, OneOwner(Held(t, kept), cells, gone), NEW n,
           NEW s \in StackSlots, kept[s] = NoCell
    PROVE  OneOwner(Held(TakeVar(t, n), With(kept, s, Lookup(t, n))), cells, gone)
<1>1. CASE n \in Names
  <2> DEFINE r == <<"name", n>>
             u == TakeVar(t, n)
             h == Held(t, kept)
  <2>a. h[r] = Lookup(t, n) /\ h[s] = NoCell
    BY <1>1, HeldAt
  <2>b. r \in OwnerSlots /\ r \notin StackSlots /\ s \in OwnerSlots
    BY <1>1, SlotKinds
  <2>1. r # s
    BY <2>b
  <2>2. u \in Tables /\ NamesUnique(u) /\ Lookup(t, n) \in Maybe
    BY TakeVarCorrect, LookupType DEF Maybe
  <2>3. Held(u, kept) = With(h, r, NoCell)
    BY <1>1, HeldTake
  <2> HIDE DEF u
  <2>4. Held(u, With(kept, s, Lookup(t, n))) = With(Held(u, kept), s, Lookup(t, n))
    BY <2>2, HeldKept
  <2>5. h \in [OwnerSlots -> Maybe]
    BY HeldAt
  <2> HIDE DEF h, r
  <2>6. With(With(h, s, h[r]), r, NoCell) = With(With(h, r, NoCell), s, h[r])
    BY <2>1, <2>b, <2>5 DEF With
  <2>7. OneOwner(With(With(h, s, h[r]), r, NoCell), cells, gone)
    BY <2>1, <2>a, <2>b, OwnerMove DEF h
  <2> QED
    BY <2>1, <2>a, <2>3, <2>4, <2>6, <2>7 DEF u
<1>2. CASE n \notin Names
  <2>1. Lookup(t, n) = NoCell /\ ~Bound(t, n)
    BY <1>2, EntryType, LookupOfUnbound
  <2>2. TakeVar(t, n) = t
    BY <2>1 DEF TakeVar
  <2>3. With(kept, s, NoCell) = kept
    BY DEF With
  <2> QED
    BY <2>1, <2>2, <2>3
<1> QED
  BY <1>1, <1>2

LEMMA VarHandedBack ==
    ASSUME NEW t \in Tables, NamesUnique(t), NEW kept \in [StackSlots -> Maybe],
           NEW cells, NEW gone, OneOwner(Held(t, kept), cells, gone),
           NEW n \in Names, ~Bound(t, n), NEW s \in StackSlots, kept[s] # NoCell
    PROVE  OneOwner(Held(SetVar(t, n, kept[s]), With(kept, s, NoCell)), cells, gone)
<1> DEFINE r == <<"name", n>>
           u == SetVar(t, n, kept[s])
           h == Held(t, kept)
<1>a. h[r] = NoCell /\ h[s] = kept[s]
  BY HeldAt, LookupType
<1>b. r \in OwnerSlots /\ r \notin StackSlots /\ s \in OwnerSlots
  BY SlotKinds
<1>1. r # s
  BY <1>b
<1>2. kept[s] \in Cells /\ NoCell \in Maybe
  BY DEF Maybe
<1>3. u \in Tables /\ NamesUnique(u)
  BY <1>2, SetVarCorrect
<1>4. Held(u, kept) = With(h, r, kept[s])
  BY <1>2, HeldSet
<1> HIDE DEF u
<1>5. Held(u, With(kept, s, NoCell)) = With(Held(u, kept), s, NoCell)
  BY <1>2, <1>3, HeldKept
<1>6. OneOwner(With(With(h, r, h[s]), s, NoCell), cells, gone)
  BY <1>1, <1>a, <1>b, OwnerMove
<1> QED
  BY <1>1, <1>a, <1>4, <1>5, <1>6 DEF u

LEMMA SavedLost ==
    ASSUME NEW t \in Tables, NamesUnique(t), NEW kept \in [StackSlots -> Maybe],
           NEW cells, NEW gone, OneOwner(Held(t, kept), cells, gone),
           NEW s \in StackSlots, kept[s] # NoCell
    PROVE  OneOwner(Held(t, With(kept, s, NoCell)), cells, gone \cup {kept[s]})
<1>1. s \in OwnerSlots /\ Held(t, kept)[s] = kept[s] /\ NoCell \in Maybe
  BY HeldAt, SlotKinds DEF Maybe
<1>2. Held(t, With(kept, s, NoCell)) = With(Held(t, kept), s, NoCell)
  BY <1>1, HeldKept
<1> QED
  BY <1>1, <1>2, OwnerLeak

LEMMA TableFreed ==
    ASSUME NEW t \in Tables, NamesUnique(t), NEW kept \in [StackSlots -> Maybe],
           NEW cells, NEW gone, OneOwner(Held(t, kept), cells, gone)
    PROVE  OneOwner(Held(<<>>, kept), cells \ CellsOf(t), gone)
<1> DEFINE h == Held(t, kept)
           g == Held(<<>>, kept)
<1>1. /\ h \in [OwnerSlots -> Maybe] /\ g \in [OwnerSlots -> Maybe]
      /\ \A n \in Names : h[<<"name", n>>] = Lookup(t, n) /\ g[<<"name", n>>] = NoCell
      /\ \A s \in StackSlots : g[s] = h[s]
  BY HeldAt, EmptyTable
<1>2. \A c \in Cells : c \in CellsOf(t) <=> \E n \in Names : Lookup(t, n) = c
  <2>1. \A i \in DOMAIN t : t[i].name \in Names /\ Lookup(t, t[i].name) = t[i].val
    BY EntryType, LookupOfEntry
  <2>2. ASSUME NEW c \in Cells, NEW n \in Names, Lookup(t, n) = c
        PROVE  \E i \in DOMAIN t : t[i].val = c
    <3>1. Bound(t, n)
      BY <2>2, LookupType, NoCellIsNotACell
    <3> QED
      BY <3>1, <2>2, BoundHasEntry DEF Lookup
  <2> QED
    BY <2>1, <2>2 DEF CellsOf
<1> HIDE DEF h, g
<1>3. OneOwner(h, cells, gone)
  BY DEF h
<1>4. \A s \in OwnerSlots : g[s] # NoCell => s \in StackSlots /\ g[s] = h[s]
  BY <1>1, SlotKinds
<1>5. ASSUME NEW c \in Cells
      PROVE  c \in cells \ CellsOf(t) <=> c \in gone \/ \E s \in OwnerSlots : g[s] = c
  <2>1. ASSUME c \in cells, c \notin CellsOf(t), c \notin gone
        PROVE  \E s \in OwnerSlots : g[s] = c
    <3>1. PICK s \in OwnerSlots : h[s] = c
      BY <1>3, <2>1 DEF OneOwner
    <3>2. s \in StackSlots
      BY <3>1, <1>1, <1>2, <2>1, SlotKinds
    <3> QED
      BY <3>1, <3>2, <1>1
  <2>2. ASSUME c \in gone PROVE c \in cells \ CellsOf(t)
    <3>1. c \in cells /\ \A s \in OwnerSlots : h[s] # c
      BY <2>2, <1>3 DEF OneOwner
    <3>2. \A n \in Names : Lookup(t, n) # c
      BY <3>1, <1>1, SlotKinds
    <3> QED
      BY <3>1, <3>2, <1>2
  <2>3. ASSUME NEW s \in OwnerSlots, g[s] = c PROVE c \in cells \ CellsOf(t)
    <3>1. s \in StackSlots /\ h[s] = c
      BY <2>3, <1>4, NoCellIsNotACell
    <3>2. c \in cells
      BY <3>1, <1>3 DEF OneOwner
    <3>3. \A n \in Names : h[<<"name", n>>] # c
      <4>1. c # NoCell
        BY NoCellIsNotACell
      <4>2. \A r \in OwnerSlots : h[r] = c => r = s
        BY <3>1, <4>1, <1>3 DEF OneOwner
      <4> QED
        BY <3>1, <4>2, SlotKinds
    <3> QED
      BY <3>2, <3>3, <1>1, <1>2
  <2> QED
    BY <2>1, <2>2, <2>3
<1>6. \A s \in OwnerSlots : g[s] \notin gone
  BY <1>3, <1>4, NoCellIsNotACell DEF OneOwner
<1>7. \A s, r \in OwnerSlots : g[s] = g[r] /\ g[s] # NoCell => s = r
  BY <1>3, <1>4 DEF OneOwner
<1>8. cells \ CellsOf(t) \subseteq Cells /\ gone \subseteq Cells
  BY <1>3 DEF OneOwner
<1>9. OneOwner(g, cells \ CellsOf(t), gone)
  BY <1>1, <1>5, <1>6, <1>7, <1>8 DEF OneOwner
<1> QED
  BY <1>9 DEF g

------------------------------------------------------------------------------
(* What the activations keep, when one starts, moves on or returns.        *)

LEMMA SavedAt ==
    ASSUME NEW fs \in Seq(Frames)
    PROVE  /\ Saved(fs) \in [StackSlots -> Maybe]
           /\ \A i \in Nat \ {0} :
                 /\ <<"v", i>> \in StackSlots /\ <<"k", i>> \in StackSlots
                 /\ Saved(fs)[<<"v", i>>] = IF i \in 1 .. Len(fs) THEN fs[i].saved_v ELSE NoCell
                 /\ Saved(fs)[<<"k", i>>] = IF i \in 1 .. Len(fs) THEN fs[i].saved_k ELSE NoCell
           /\ \A s \in StackSlots : \E i \in Nat \ {0} : s = <<"v", i>> \/ s = <<"k", i>>
<1>1. DOMAIN fs = 1 .. Len(fs) /\ \A i \in 1 .. Len(fs) : fs[i] \in Frames
  BY ElementType
<1>2. \A i \in 1 .. Len(fs) : fs[i].saved_v \in Maybe /\ fs[i].saved_k \in Maybe
  BY <1>1 DEF Frames
<1>3. \A i \in Nat \ {0} : <<"v", i>> \in StackSlots /\ <<"k", i>> \in StackSlots
  BY DEF StackSlots
<1>4. \A s \in StackSlots : \E i \in Nat \ {0} : s = <<"v", i>> \/ s = <<"k", i>>
  BY DEF StackSlots
<1>5. \A i \in Nat \ {0} :
          /\ Saved(fs)[<<"v", i>>] = IF i \in 1 .. Len(fs) THEN fs[i].saved_v ELSE NoCell
          /\ Saved(fs)[<<"k", i>>] = IF i \in 1 .. Len(fs) THEN fs[i].saved_k ELSE NoCell
  BY <1>1, <1>3 DEF Saved
<1>6. \A s \in StackSlots : Saved(fs)[s] \in Maybe
  BY <1>2, <1>4, <1>5 DEF Maybe
<1>7. Saved(fs) = [s \in StackSlots |-> Saved(fs)[s]]
  BY DEF Saved
<1>8. Saved(fs) \in [StackSlots -> Maybe]
  BY <1>6, <1>7
<1> QED
  BY <1>3, <1>4, <1>5, <1>8

\* Two stacks of which one keeps what the other does, but for activation d.
LEMMA SavedBut ==
    ASSUME NEW fs \in Seq(Frames), NEW gs \in Seq(Frames), NEW d \in Nat \ {0},
           \A i \in Nat \ {0} : i # d =>
              /\ Saved(gs)[<<"v", i>>] = Saved(fs)[<<"v", i>>]
              /\ Saved(gs)[<<"k", i>>] = Saved(fs)[<<"k", i>>]
    PROVE  Saved(gs) = With(With(Saved(fs), <<"v", d>>, Saved(gs)[<<"v", d>>]),
                            <<"k", d>>, Saved(gs)[<<"k", d>>])
<1> DEFINE a == Saved(fs)
           b == Saved(gs)
           v(i) == <<"v", i>>
           k(i) == <<"k", i>>
<1>1. /\ a \in [StackSlots -> Maybe] /\ b \in [StackSlots -> Maybe]
      /\ \A i \in Nat \ {0} : v(i) \in StackSlots /\ k(i) \in StackSlots
      /\ \A s \in StackSlots : \E i \in Nat \ {0} : s = v(i) \/ s = k(i)
  BY SavedAt
<1>2. \A i, j : (v(i) = v(j) => i = j) /\ (k(i) = k(j) => i = j) /\ v(i) # k(j)
  OBVIOUS
<1>3. \A i \in Nat \ {0} : i # d => b[v(i)] = a[v(i)] /\ b[k(i)] = a[k(i)]
  OBVIOUS
<1> HIDE DEF a, b, v, k
<1>4. \A s \in StackSlots : s # v(d) /\ s # k(d) => b[s] = a[s]
  BY <1>1, <1>3
<1>5. b = With(With(a, v(d), b[v(d)]), k(d), b[k(d)])
  BY <1>1, <1>2, <1>4 DEF With
<1> QED
  BY <1>5 DEF a, b, v, k

LEMMA SavedPush ==
    ASSUME NEW fs \in Seq(Frames), NEW f \in Frames
    PROVE  LET d == Len(fs) + 1 IN
           /\ Saved(fs)[<<"v", d>>] = NoCell /\ Saved(fs)[<<"k", d>>] = NoCell
           /\ Saved(Append(fs, f)) = With(With(Saved(fs), <<"v", d>>, f.saved_v),
                                          <<"k", d>>, f.saved_k)
<1> DEFINE d == Len(fs) + 1
           gs == Append(fs, f)
<1>1. /\ Len(fs) \in Nat /\ gs \in Seq(Frames) /\ Len(gs) = d /\ gs[d] = f
      /\ \A i \in 1 .. Len(fs) : gs[i] = fs[i]
  BY StackPush, ElementType
<1> HIDE DEF gs
<1>2. \A i \in Nat \ {0} : i # d => (i \in 1 .. d <=> i \in 1 .. Len(fs))
  BY <1>1
<1>3. d \in Nat \ {0} /\ d \in 1 .. d /\ d \notin 1 .. Len(fs)
  BY <1>1
<1> HIDE DEF d
<1>4. \A i \in Nat \ {0} : i # d =>
          /\ Saved(gs)[<<"v", i>>] = Saved(fs)[<<"v", i>>]
          /\ Saved(gs)[<<"k", i>>] = Saved(fs)[<<"k", i>>]
  BY <1>1, <1>2, SavedAt
<1>5. Saved(gs)[<<"v", d>>] = f.saved_v /\ Saved(gs)[<<"k", d>>] = f.saved_k
  BY <1>1, <1>3, SavedAt
<1>6. Saved(fs)[<<"v", d>>] = NoCell /\ Saved(fs)[<<"k", d>>] = NoCell
  BY <1>3, SavedAt
<1>7. Saved(gs) = With(With(Saved(fs), <<"v", d>>, Saved(gs)[<<"v", d>>]),
                       <<"k", d>>, Saved(gs)[<<"k", d>>])
  BY <1>1, <1>3, <1>4, SavedBut
<1> QED
  BY <1>5, <1>6, <1>7 DEF gs, d

LEMMA SavedTop ==
    ASSUME NEW fs \in Seq(Frames), fs # <<>>, NEW f \in Frames,
           NEW gs, gs = [fs EXCEPT ![Len(fs)] = f]
    PROVE  LET d == Len(fs) IN
           Saved(gs) = With(With(Saved(fs), <<"v", d>>, f.saved_v), <<"k", d>>, f.saved_k)
<1> DEFINE d == Len(fs)
<1>1. /\ gs \in Seq(Frames) /\ Len(gs) = d /\ gs[d] = f
      /\ \A i \in 1 .. d - 1 : gs[i] = fs[i]
  BY StackUpdate
<1>2. d \in Nat \ {0} /\ d \in 1 .. d
  BY StackTop
<1>3. \A i \in Nat \ {0} : i # d => (i \in 1 .. d <=> i \in 1 .. d - 1)
  BY <1>2
<1>b. Len(fs) = d
  OBVIOUS
<1> HIDE DEF d
<1>4. \A i \in Nat \ {0} : i # d =>
          /\ Saved(gs)[<<"v", i>>] = Saved(fs)[<<"v", i>>]
          /\ Saved(gs)[<<"k", i>>] = Saved(fs)[<<"k", i>>]
  <2> SUFFICES ASSUME NEW i \in Nat \ {0}, i # d
               PROVE  /\ Saved(gs)[<<"v", i>>] = Saved(fs)[<<"v", i>>]
                      /\ Saved(gs)[<<"k", i>>] = Saved(fs)[<<"k", i>>]
    OBVIOUS
  <2>1. CASE i \in 1 .. d - 1
    <3>1. i \in 1 .. d /\ gs[i] = fs[i]
      BY <2>1, <1>1, <1>2
    <3> QED
      BY <3>1, <1>1, <1>b, SavedAt
  <2>2. CASE i \notin 1 .. d - 1
    <3>1. i \notin 1 .. d
      BY <2>2, <1>3
    <3> QED
      BY <3>1, <1>1, <1>b, SavedAt
  <2> QED
    BY <2>1, <2>2
<1>5. Saved(gs)[<<"v", d>>] = f.saved_v /\ Saved(gs)[<<"k", d>>] = f.saved_k
  BY <1>1, <1>2, SavedAt
<1>6. Saved(gs) = With(With(Saved(fs), <<"v", d>>, Saved(gs)[<<"v", d>>]),
                       <<"k", d>>, Saved(gs)[<<"k", d>>])
  BY <1>1, <1>2, <1>4, SavedBut
<1> QED
  BY <1>5, <1>6 DEF d

\* A return loses nothing: the activation had handed everything back.
LEMMA SavedPop ==
    ASSUME NEW fs \in Seq(Frames), fs # <<>>,
           fs[Len(fs)].saved_v = NoCell, fs[Len(fs)].saved_k = NoCell
    PROVE  Saved(SubSeq(fs, 1, Len(fs) - 1)) = Saved(fs)
<1> DEFINE d == Len(fs)
           gs == SubSeq(fs, 1, d - 1)
<1>1. /\ gs \in Seq(Frames) /\ Len(gs) = d - 1
      /\ \A i \in 1 .. d - 1 : gs[i] = fs[i]
  BY StackPop
<1> HIDE DEF gs
<1>2. d \in Nat \ {0} /\ d \in 1 .. d
  BY StackTop
<1>3. \A i \in Nat \ {0} : i # d => (i \in 1 .. d <=> i \in 1 .. d - 1)
  BY <1>2
<1>4. d \notin 1 .. d - 1
  BY <1>2
<1>5. \A i \in Nat \ {0} :
          /\ Saved(gs)[<<"v", i>>] = Saved(fs)[<<"v", i>>]
          /\ Saved(gs)[<<"k", i>>] = Saved(fs)[<<"k", i>>]
  BY <1>1, <1>2, <1>3, <1>4, SavedAt
<1>6. \A s \in StackSlots : Saved(gs)[s] = Saved(fs)[s]
  BY <1>1, <1>5, SavedAt
<1>7. Saved(gs) = Saved(fs)
  BY <1>1, <1>6, SavedAt
<1> QED
  BY <1>7 DEF gs

LEMMA OwnTop ==
    ASSUME TypeOK, HandedBack, frames # <<>>, NEW f \in Frames, frames' = SetTop(f),
           f.tmp = Top.tmp, f.outer = Top.outer, f.head = Top.head,
           f.step \in {"restoreKey", "leave"} => f.saved_v = NoCell,
           f.step = "leave" => f.saved_k = NoCell
    PROVE  LET kept == Saved(frames)
               v == <<"v", Depth>>
               k == <<"k", Depth>> IN
           /\ HandedBack'
           /\ kept \in [StackSlots -> Maybe] /\ v \in StackSlots /\ k \in StackSlots
           /\ kept[v] = Top.saved_v /\ kept[k] = Top.saved_k
           /\ f.saved_v = Top.saved_v /\ f.saved_k = Top.saved_k => Saved(frames') = kept
           /\ f.saved_v = NoCell /\ f.saved_k = Top.saved_k
                 => Saved(frames') = With(kept, v, NoCell)
           /\ f.saved_v = Top.saved_v /\ f.saved_k = NoCell
                 => Saved(frames') = With(kept, k, NoCell)
<1> DEFINE kept == Saved(frames)
           v == <<"v", Depth>>
           k == <<"k", Depth>>
           now == Saved(frames')
<1>1. frames \in Seq(Frames) /\ Depth = Len(frames) /\ Depth \in Nat \ {0} /\ Depth \in 1 .. Depth
  BY TopType DEF TypeOK, Depth
<1>2. HandedBack'
  <2>1. Depth' = Depth /\ frames'[Depth] = f /\ \A i \in 1 .. Depth - 1 : frames'[i] = frames[i]
    BY StepTop DEF Top
  <2>2. \A i \in 1 .. Depth : i = Depth \/ i \in 1 .. Depth - 1
    BY <1>1
  <2> QED
    BY <2>1, <2>2 DEF HandedBack
<1>3. kept \in [StackSlots -> Maybe] /\ v \in StackSlots /\ k \in StackSlots
  BY <1>1, SavedAt
<1>4. kept[v] = Top.saved_v /\ kept[k] = Top.saved_k
  BY <1>1, SavedAt DEF Top
<1>5. now = With(With(kept, v, f.saved_v), k, f.saved_k)
  BY <1>1, SavedTop DEF SetTop, Depth
<1>6. v # k
  OBVIOUS
<1> HIDE DEF kept, v, k, now
<1>7. f.saved_v = Top.saved_v /\ f.saved_k = Top.saved_k => now = kept
  BY <1>3, <1>4, <1>5, <1>6 DEF With
<1>8. f.saved_v = NoCell /\ f.saved_k = Top.saved_k => now = With(kept, v, NoCell)
  BY <1>3, <1>4, <1>5, <1>6 DEF With
<1>9. f.saved_v = Top.saved_v /\ f.saved_k = NoCell => now = With(kept, k, NoCell)
  BY <1>3, <1>4, <1>5, <1>6 DEF With
<1> QED
  BY <1>2, <1>3, <1>4, <1>7, <1>8, <1>9 DEF kept, v, k, now

------------------------------------------------------------------------------
(* The invariant.                                                          *)

LEMMA OwnInit == Init => OwnInv
<1> SUFFICES ASSUME Init PROVE OwnInv
  OBVIOUS
<1>1. HandedBack
  BY DEF Init, HandedBack, Depth
<1>a. frames = <<>> /\ vars = <<>>
  BY DEF Init
<1>2. frames \in Seq(Frames) /\ Len(frames) = 0 /\ vars \in Tables /\ NamesUnique(vars)
  BY <1>a, EmptyTable
<1>3. Saved(frames) \in [StackSlots -> Maybe] /\ \A s \in StackSlots : Saved(frames)[s] = NoCell
  <2>1. \A i \in Nat \ {0} : i \notin 1 .. Len(frames)
    BY <1>2
  <2> QED
    BY <1>2, <2>1, SavedAt
<1>4. \A n \in Names : Lookup(vars, n) = NoCell
  BY EmptyTable DEF Init
<1> DEFINE h == Held(vars, Saved(frames))
<1>5. h \in [OwnerSlots -> Maybe]
  BY <1>2, <1>3, HeldAt
<1>6. \A s \in OwnerSlots : h[s] = NoCell
  BY <1>2, <1>3, <1>4, HeldAt, SlotKinds
<1> HIDE DEF h
<1>7. OneOwner(h, {}, {})
  BY <1>5, <1>6, NoCellIsNotACell DEF OneOwner
<1> QED
  BY <1>1, <1>7 DEF Init, OwnInv, h

LEMMA OwnStep == TypeOK /\ OwnInv /\ [Next]_state => OwnInv'
<1> SUFFICES ASSUME TypeOK, OwnInv, [Next]_state PROVE OwnInv'
  OBVIOUS
<1> DEFINE kept == Saved(frames)
           v == <<"v", Depth>>
           k == <<"k", Depth>>
<1>t. /\ vars \in Tables /\ NamesUnique(vars) /\ frames \in Seq(Frames)
      /\ kept \in [StackSlots -> Maybe]
  BY SavedAt DEF TypeOK
<1>o. OneOwner(Held(vars, kept), live, leaked) /\ HandedBack
  BY DEF OwnInv
<1> HIDE DEF kept, v, k
<1>same. ASSUME frames' = frames PROVE Saved(frames') = kept /\ HandedBack'
  BY <1>same, <1>o DEF kept, HandedBack, Depth
<1>top. ASSUME frames # <<>>, NEW f \in Frames, frames' = SetTop(f),
               f.tmp = Top.tmp, f.outer = Top.outer, f.head = Top.head,
               f.step \in {"restoreKey", "leave"} => f.saved_v = NoCell,
               f.step = "leave" => f.saved_k = NoCell
        PROVE  /\ HandedBack'
               /\ v \in StackSlots /\ k \in StackSlots
               /\ kept[v] = Top.saved_v /\ kept[k] = Top.saved_k
               /\ f.saved_v = Top.saved_v /\ f.saved_k = Top.saved_k => Saved(frames') = kept
               /\ f.saved_v = NoCell /\ f.saved_k = Top.saved_k
                     => Saved(frames') = With(kept, v, NoCell)
               /\ f.saved_v = Top.saved_v /\ f.saved_k = NoCell
                     => Saved(frames') = With(kept, k, NoCell)
  BY <1>top, <1>o, OwnTop DEF kept, v, k
<1>1. ASSUME NEW n \in Names, CallerBinds(n) PROVE OwnInv'
  <2>1. PICK c \in Cells \ live : /\ vars' = SetVar(vars, n, c)
                                  /\ live' = FreeOne(live, Lookup(vars, n)) \cup {c}
    BY <1>1 DEF CallerBinds
  <2>2. frames' = frames /\ leaked' = leaked
    BY <1>1 DEF CallerBinds
  <2>3. OneOwner(Held(vars', kept), live', leaked')
    BY <1>t, <1>o, <2>1, <2>2, VarPut
  <2> QED
    BY <1>same, <2>2, <2>3 DEF OwnInv
<1>2. CASE CallerFreesCtx
  <2>1. frames' = frames /\ leaked' = leaked /\ vars' = <<>> /\ live' = live \ CellsOf(vars)
    BY <1>2 DEF CallerFreesCtx
  <2>2. OneOwner(Held(vars', kept), live', leaked')
    BY <1>t, <1>o, <2>1, TableFreed
  <2> QED
    BY <1>same, <2>1, <2>2 DEF OwnInv
<1>3. CASE CallerMakesCtx \/ UNCHANGED state
  <2>1. UNCHANGED <<vars, frames, live, leaked>>
    BY <1>3 DEF CallerMakesCtx, state
  <2> QED
    BY <1>same, <1>o, <2>1 DEF OwnInv
<1>4. ASSUME NEW h \in Headers, EnterLoop(h) PROVE OwnInv'
  <2> DEFINE rest == TakeVar(vars, h.v)
             d == Len(frames) + 1
             vd == <<"v", d>>
             kd == <<"k", d>>
  <2>1. PICK count \in 0 .. MaxCount, ok \in BOOLEAN :
          frames' = Append(frames,
             [head |-> h, left |-> count,
              step |-> IF ok THEN "iterate" ELSE "restoreVal",
              tmp |-> ~haveCtx,
              saved_v |-> Lookup(vars, h.v),
              saved_k |-> Lookup(rest, h.k),
              outer |-> EnvOf(vars), bound_v |-> NoCell, bound_k |-> NoCell])
    BY <1>4 DEF EnterLoop
  <2> DEFINE f == [head |-> h, left |-> count,
              step |-> IF ok THEN "iterate" ELSE "restoreVal",
              tmp |-> ~haveCtx,
              saved_v |-> Lookup(vars, h.v),
              saved_k |-> Lookup(rest, h.k),
              outer |-> EnvOf(vars), bound_v |-> NoCell, bound_k |-> NoCell]
  <2>2. vars' = TakeVar(rest, h.k) /\ live' = live /\ leaked' = leaked
    BY <1>4 DEF EnterLoop
  <2>3. rest \in Tables /\ NamesUnique(rest)
    BY <1>t, TakeVarCorrect
  <2>4. Lookup(vars, h.v) \in Maybe /\ Lookup(rest, h.k) \in Maybe
    BY <1>t, <2>3, LookupType DEF Maybe
  <2>5. f \in Frames
    BY <1>t, <2>4, EnvType DEF Frames, Steps, Maybe, TypeOK
  <2>6. /\ frames' = Append(frames, f)
        /\ f.saved_v = Lookup(vars, h.v) /\ f.saved_k = Lookup(rest, h.k)
        /\ f.step \notin {"restoreKey", "leave"}
    BY <2>1
  <2> HIDE DEF f, rest
  <2>7. /\ kept[vd] = NoCell /\ kept[kd] = NoCell
        /\ Saved(frames') = With(With(kept, vd, f.saved_v), kd, f.saved_k)
    BY <1>t, <2>5, <2>6, SavedPush DEF kept
  <2>8. d \in Nat \ {0} /\ Depth' = d /\ frames'[d] = f
        /\ \A i \in 1 .. Depth : frames'[i] = frames[i]
    BY <1>t, <2>5, <2>6, StackPush, ElementType DEF Depth
  <2>9. vd \in StackSlots /\ kd \in StackSlots /\ vd # kd
    BY <2>8 DEF StackSlots
  <2>10. HandedBack'
    <3>1. \A i \in 1 .. d : i = d \/ i \in 1 .. Depth
      BY <2>8, <1>t, ElementType DEF Depth
    <3> QED
      BY <3>1, <2>6, <2>8, <1>o DEF HandedBack
  <2> DEFINE mid == With(kept, vd, Lookup(vars, h.v))
  <2> HIDE DEF d, vd, kd
  <2>11. OneOwner(Held(rest, mid), live, leaked)
    BY <1>t, <1>o, <2>7, <2>9, VarHidden DEF rest
  <2>12. mid \in [StackSlots -> Maybe] /\ mid[kd] = NoCell
    BY <1>t, <2>4, <2>7, <2>9 DEF With
  <2> HIDE DEF mid
  <2>13. OneOwner(Held(TakeVar(rest, h.k), With(mid, kd, Lookup(rest, h.k))), live, leaked)
    BY <2>3, <2>9, <2>11, <2>12, VarHidden
  <2>14. Saved(frames') = With(mid, kd, Lookup(rest, h.k))
    BY <2>6, <2>7 DEF mid
  <2> QED
    BY <2>2, <2>10, <2>13, <2>14 DEF OwnInv
<1>5. CASE BindValueOnly
  <2>1. PICK c \in Cells \ live :
          /\ vars' = SetVar(vars, Top.head.v, c)
          /\ live' = FreeOne(live, Lookup(vars, Top.head.v)) \cup {c}
          /\ frames' = SetTop([Top EXCEPT !.step = "body", !.left = @ - 1, !.bound_v = c])
    BY <1>5 DEF BindValueOnly
  <2> DEFINE f == [Top EXCEPT !.step = "body", !.left = @ - 1, !.bound_v = c]
  <2>2. frames # <<>> /\ Top \in Frames /\ Top.head.v \in Names /\ Top.left > 0 /\ leaked' = leaked
    BY <1>5, TopType DEF BindValueOnly, At
  <2>3. f \in Frames
    BY <2>2, BindFrame
  <2>4. /\ f.tmp = Top.tmp /\ f.outer = Top.outer /\ f.head = Top.head
        /\ f.step \notin {"restoreKey", "leave"}
        /\ f.saved_v = Top.saved_v /\ f.saved_k = Top.saved_k
    BY <2>2 DEF Frames
  <2>5. frames' = SetTop(f)
    BY <2>1
  <2> HIDE DEF f
  <2>6. Saved(frames') = kept /\ HandedBack'
    BY <1>top, <2>2, <2>3, <2>4, <2>5
  <2>7. OneOwner(Held(vars', kept), live', leaked')
    BY <1>t, <1>o, <2>1, <2>2, VarPut
  <2> QED
    BY <2>6, <2>7 DEF OwnInv
<1>6. CASE BindValueAndKey
  <2> DEFINE withVal(c) == SetVar(vars, Top.head.v, c)
             paid(c) == FreeOne(live, Lookup(vars, Top.head.v)) \cup {c}
  <2>1. PICK c \in Cells \ live : \E d \in Cells \ (live \cup {c}) :
          /\ vars' = SetVar(withVal(c), Top.head.k, d)
          /\ live' = FreeOne(paid(c), Lookup(withVal(c), Top.head.k)) \cup {d}
          /\ frames' = SetTop([Top EXCEPT !.step = "body", !.left = @ - 1,
                                          !.bound_v = c, !.bound_k = d])
    BY <1>6 DEF BindValueAndKey
  <2>2. PICK d \in Cells \ (live \cup {c}) :
          /\ vars' = SetVar(withVal(c), Top.head.k, d)
          /\ live' = FreeOne(paid(c), Lookup(withVal(c), Top.head.k)) \cup {d}
          /\ frames' = SetTop([Top EXCEPT !.step = "body", !.left = @ - 1,
                                          !.bound_v = c, !.bound_k = d])
    BY <2>1
  <2> DEFINE f == [Top EXCEPT !.step = "body", !.left = @ - 1,
                             !.bound_v = c, !.bound_k = d]
  <2>3. /\ frames # <<>> /\ Top \in Frames /\ leaked' = leaked
        /\ Top.head.v \in Names /\ Top.head.k \in Names /\ Top.left > 0
    BY <1>6, TopType DEF BindValueAndKey, At
  <2>4. f \in Frames
    BY <2>3, BindFrame
  <2>5. /\ f.tmp = Top.tmp /\ f.outer = Top.outer /\ f.head = Top.head
        /\ f.step \notin {"restoreKey", "leave"}
        /\ f.saved_v = Top.saved_v /\ f.saved_k = Top.saved_k
    BY <2>3 DEF Frames
  <2>6. frames' = SetTop(f)
    BY <2>2
  <2> HIDE DEF f
  <2>7. Saved(frames') = kept /\ HandedBack'
    BY <1>top, <2>3, <2>4, <2>5, <2>6
  <2>8. withVal(c) \in Tables /\ NamesUnique(withVal(c))
    BY <1>t, <2>3, SetVarCorrect
  <2>9. OneOwner(Held(withVal(c), kept), paid(c), leaked)
    BY <1>t, <1>o, <2>3, VarPut
  <2>10. d \in Cells \ paid(c)
    BY DEF FreeOne
  <2> HIDE DEF withVal, paid
  <2>11. OneOwner(Held(vars', kept), live', leaked')
    BY <1>t, <2>2, <2>3, <2>8, <2>9, <2>10, VarPut
  <2> QED
    BY <2>7, <2>11 DEF OwnInv
<1>7. CASE KeyBindFails
  <2>1. PICK c \in Cells \ live :
          /\ vars' = SetVar(vars, Top.head.v, c)
          /\ live' = FreeOne(live, Lookup(vars, Top.head.v)) \cup {c}
    BY <1>7 DEF KeyBindFails
  <2> DEFINE f == [Top EXCEPT !.step = "restoreVal"]
  <2>2. /\ frames # <<>> /\ Top \in Frames /\ Top.head.v \in Names /\ leaked' = leaked
        /\ frames' = SetTop(f)
    BY <1>7, TopType DEF KeyBindFails, At
  <2>3. /\ f \in Frames /\ f.tmp = Top.tmp /\ f.outer = Top.outer /\ f.head = Top.head
        /\ f.step \notin {"restoreKey", "leave"}
        /\ f.saved_v = Top.saved_v /\ f.saved_k = Top.saved_k
    BY <2>2 DEF Frames, Steps
  <2> HIDE DEF f
  <2>4. Saved(frames') = kept /\ HandedBack'
    BY <1>top, <2>2, <2>3
  <2>5. OneOwner(Held(vars', kept), live', leaked')
    BY <1>t, <1>o, <2>1, <2>2, VarPut
  <2> QED
    BY <2>4, <2>5 DEF OwnInv
<1>8. CASE BindFails \/ BodyFails \/ LoopEnds \/ BodyDone
  <2>1. PICK step \in {"restoreVal", "iterate"} :
          frames' = SetTop([Top EXCEPT !.step = step])
    BY <1>8 DEF BindFails, BodyFails, LoopEnds, BodyDone
  <2> DEFINE f == [Top EXCEPT !.step = step]
  <2>2. /\ frames # <<>> /\ Top \in Frames /\ UNCHANGED <<vars, live, leaked>>
    BY <1>8, TopType DEF BindFails, BodyFails, LoopEnds, BodyDone, At
  <2>3. /\ f \in Frames /\ f.tmp = Top.tmp /\ f.outer = Top.outer /\ f.head = Top.head
        /\ f.step \notin {"restoreKey", "leave"}
        /\ f.saved_v = Top.saved_v /\ f.saved_k = Top.saved_k
    BY <2>2 DEF Frames, Steps
  <2>4. frames' = SetTop(f)
    BY <2>1
  <2> HIDE DEF f
  <2>5. Saved(frames') = kept /\ HandedBack'
    BY <1>top, <2>2, <2>3, <2>4
  <2> QED
    BY <1>o, <2>2, <2>5 DEF OwnInv
<1>9. CASE RestoreVal
  <2> DEFINE rest == TakeVar(vars, Top.head.v)
             f == [Top EXCEPT !.step = "restoreKey", !.saved_v = NoCell]
             paid == FreeOne(live, Lookup(vars, Top.head.v))
  <2>1. /\ frames # <<>> /\ frames' = SetTop(f) /\ live' = paid
        /\ Top \in Frames /\ Top.head.v \in Names
    BY <1>9, TopType DEF RestoreVal, At
  <2>2. \/ Top.saved_v = NoCell /\ vars' = rest /\ leaked' = leaked
        \/ Top.saved_v # NoCell /\ vars' = SetVar(rest, Top.head.v, Top.saved_v) /\ leaked' = leaked
        \/ Top.saved_v # NoCell /\ vars' = rest /\ leaked' = leaked \cup {Top.saved_v}
    BY <1>9 DEF RestoreVal
  <2>3. /\ f \in Frames /\ f.tmp = Top.tmp /\ f.outer = Top.outer /\ f.head = Top.head
        /\ f.step = "restoreKey" /\ f.saved_v = NoCell /\ f.saved_k = Top.saved_k
    BY <2>1 DEF Frames, Steps, Maybe
  <2> HIDE DEF f
  <2>4. /\ HandedBack' /\ v \in StackSlots /\ kept[v] = Top.saved_v
        /\ Saved(frames') = With(kept, v, NoCell)
    BY <1>top, <2>1, <2>3
  <2>5. rest \in Tables /\ NamesUnique(rest) /\ ~Bound(rest, Top.head.v)
    BY <1>t, TakeVarCorrect
  <2>6. OneOwner(Held(rest, kept), paid, leaked)
    BY <1>t, <1>o, VarFreed
  <2> HIDE DEF rest, paid
  <2>7. OneOwner(Held(vars', With(kept, v, NoCell)), live', leaked')
    <3>1. CASE Top.saved_v = NoCell /\ vars' = rest /\ leaked' = leaked
      <4>1. With(kept, v, NoCell) = kept
        BY <1>t, <2>4, <3>1 DEF With
      <4> QED
        BY <2>1, <2>6, <3>1, <4>1
    <3>2. CASE /\ Top.saved_v # NoCell /\ leaked' = leaked
               /\ vars' = SetVar(rest, Top.head.v, Top.saved_v)
      BY <1>t, <2>1, <2>4, <2>5, <2>6, <3>2, VarHandedBack
    <3>3. CASE Top.saved_v # NoCell /\ vars' = rest /\ leaked' = leaked \cup {Top.saved_v}
      BY <1>t, <2>1, <2>4, <2>5, <2>6, <3>3, SavedLost
    <3> QED
      BY <2>2, <3>1, <3>2, <3>3
  <2> QED
    BY <2>4, <2>7 DEF OwnInv
<1>10. CASE RestoreKey
  <2> DEFINE rest == TakeVar(vars, Top.head.k)
             f == [Top EXCEPT !.step = "leave", !.saved_k = NoCell]
             paid == FreeOne(live, Lookup(vars, Top.head.k))
  <2>1. /\ frames # <<>> /\ frames' = SetTop(f) /\ live' = paid /\ Top.step = "restoreKey"
        /\ Top \in Frames
    BY <1>10, TopType DEF RestoreKey, At
  <2>2. \/ Top.saved_k = NoCell /\ vars' = rest /\ leaked' = leaked
        \/ Top.saved_k # NoCell /\ vars' = SetVar(rest, Top.head.k, Top.saved_k) /\ leaked' = leaked
        \/ Top.saved_k # NoCell /\ vars' = rest /\ leaked' = leaked \cup {Top.saved_k}
    BY <1>10 DEF RestoreKey
  <2>a. Top.saved_v = NoCell
    BY <2>1, <1>o, TopType DEF HandedBack, Top
  <2>b. Top.saved_k # NoCell => Top.head.k \in Names
    BY <2>1, TopType DEF TypeOK, Shape, Top
  <2>3. /\ f \in Frames /\ f.tmp = Top.tmp /\ f.outer = Top.outer /\ f.head = Top.head
        /\ f.step = "leave" /\ f.saved_v = Top.saved_v /\ f.saved_k = NoCell
    BY <2>1 DEF Frames, Steps, Maybe
  <2> HIDE DEF f
  <2>4. /\ HandedBack' /\ k \in StackSlots /\ kept[k] = Top.saved_k
        /\ Saved(frames') = With(kept, k, NoCell)
    BY <1>top, <2>1, <2>a, <2>3
  <2>5. rest \in Tables /\ NamesUnique(rest) /\ ~Bound(rest, Top.head.k)
    BY <1>t, TakeVarCorrect
  <2>6. OneOwner(Held(rest, kept), paid, leaked)
    BY <1>t, <1>o, VarFreed
  <2> HIDE DEF rest, paid
  <2>7. OneOwner(Held(vars', With(kept, k, NoCell)), live', leaked')
    <3>1. CASE Top.saved_k = NoCell /\ vars' = rest /\ leaked' = leaked
      <4>1. With(kept, k, NoCell) = kept
        BY <1>t, <2>4, <3>1 DEF With
      <4> QED
        BY <2>1, <2>6, <3>1, <4>1
    <3>2. CASE /\ Top.saved_k # NoCell /\ leaked' = leaked
               /\ vars' = SetVar(rest, Top.head.k, Top.saved_k)
      BY <1>t, <2>1, <2>b, <2>4, <2>5, <2>6, <3>2, VarHandedBack
    <3>3. CASE Top.saved_k # NoCell /\ vars' = rest /\ leaked' = leaked \cup {Top.saved_k}
      BY <1>t, <2>1, <2>4, <2>5, <2>6, <3>3, SavedLost
    <3> QED
      BY <2>2, <3>1, <3>2, <3>3
  <2> QED
    BY <2>4, <2>7 DEF OwnInv
<1>11. CASE LeaveLoop
  <2>1. /\ frames # <<>> /\ Top.step = "leave" /\ leaked' = leaked
        /\ frames' = SubSeq(frames, 1, Len(frames) - 1)
        /\ \/ vars' = <<>> /\ live' = live \ CellsOf(vars)
           \/ vars' = vars /\ live' = live
    BY <1>11 DEF LeaveLoop, At, Depth
  <2>2. Depth \in Nat /\ Depth >= 1 /\ Depth = Len(frames)
    BY <2>1, TopType DEF Depth
  <2>3. Top.saved_v = NoCell /\ Top.saved_k = NoCell
    BY <2>1, <2>2, <1>o DEF HandedBack, Top
  <2>4. Saved(frames') = kept
    BY <1>t, <2>1, <2>2, <2>3, SavedPop DEF kept, Top
  <2>5. HandedBack'
    <3>1. Depth' = Depth - 1 /\ \A i \in 1 .. Depth - 1 : i \in 1 .. Depth /\ frames'[i] = frames[i]
      BY <1>t, <2>1, <2>2, StackPop DEF Depth
    <3> QED
      BY <3>1, <1>o DEF HandedBack
  <2>6. OneOwner(Held(vars', kept), live', leaked')
    BY <1>t, <1>o, <2>1, TableFreed
  <2> QED
    BY <2>4, <2>5, <2>6 DEF OwnInv
<1> QED
  BY <1>1, <1>2, <1>3, <1>4, <1>5, <1>6, <1>7, <1>8, <1>9, <1>10, <1>11, Zenon DEF Next

\* Slots of the property and of the invariant: a table entry is the slot of its
\* name, a saved value the slot of its activation.
LEMMA OwnImplies == TypeOK /\ OwnInv => OwnedOnce
<1> SUFFICES ASSUME TypeOK, OwnInv PROVE OwnedOnce
  OBVIOUS
<1> DEFINE kept == Saved(frames)
           h == Held(vars, kept)
           slot(s) == IF s[1] = "table" THEN <<"name", vars[s[2]].name>> ELSE s
<1>1. /\ vars \in Tables /\ NamesUnique(vars) /\ frames \in Seq(Frames) /\ leaked \subseteq Cells
      /\ DOMAIN frames = 1 .. Len(frames) /\ Len(frames) \in Nat
      /\ kept \in [StackSlots -> Maybe]
  BY ElementType, SavedAt DEF TypeOK
<1>2. OneOwner(h, live, leaked)
  BY DEF OwnInv
<1>3. \A i \in DOMAIN vars : /\ <<"table", i>> \in Slots
                             /\ slot(<<"table", i>>) = <<"name", vars[i].name>>
                             /\ slot(<<"table", i>>) \in OwnerSlots \ StackSlots
                             /\ Holds(<<"table", i>>) = vars[i].val
                             /\ h[slot(<<"table", i>>)] = vars[i].val
  <2> SUFFICES ASSUME NEW i \in DOMAIN vars
               PROVE  /\ <<"table", i>> \in Slots
                      /\ slot(<<"table", i>>) = <<"name", vars[i].name>>
                      /\ slot(<<"table", i>>) \in OwnerSlots \ StackSlots
                      /\ Holds(<<"table", i>>) = vars[i].val
                      /\ h[slot(<<"table", i>>)] = vars[i].val
    OBVIOUS
  <2>1. vars[i].name \in Names /\ Lookup(vars, vars[i].name) = vars[i].val
    BY <1>1, LookupOfEntry, EntryType
  <2>2. slot(<<"table", i>>) = <<"name", vars[i].name>>
    OBVIOUS
  <2>3. <<"table", i>> \in Slots /\ Holds(<<"table", i>>) = vars[i].val
    BY DEF Slots, Holds
  <2>4. h[<<"name", vars[i].name>>] = vars[i].val
    BY <1>1, <2>1, HeldAt
  <2>5. <<"name", vars[i].name>> \in OwnerSlots \ StackSlots
    BY <2>1, SlotKinds
  <2> QED
    BY <2>2, <2>3, <2>4, <2>5
<1>4. \A i \in 1 .. Len(frames) :
          /\ <<"v", i>> \in Slots /\ <<"k", i>> \in Slots
          /\ slot(<<"v", i>>) = <<"v", i>> /\ slot(<<"k", i>>) = <<"k", i>>
          /\ <<"v", i>> \in StackSlots /\ <<"k", i>> \in StackSlots
          /\ Holds(<<"v", i>>) = h[<<"v", i>>]
          /\ Holds(<<"k", i>>) = h[<<"k", i>>]
  <2> SUFFICES ASSUME NEW i \in 1 .. Len(frames)
               PROVE  /\ <<"v", i>> \in Slots /\ <<"k", i>> \in Slots
                      /\ slot(<<"v", i>>) = <<"v", i>> /\ slot(<<"k", i>>) = <<"k", i>>
                      /\ <<"v", i>> \in StackSlots /\ <<"k", i>> \in StackSlots
                      /\ Holds(<<"v", i>>) = h[<<"v", i>>]
                      /\ Holds(<<"k", i>>) = h[<<"k", i>>]
    OBVIOUS
  <2>1. i \in Nat \ {0}
    BY <1>1
  <2>2. /\ <<"v", i>> \in StackSlots /\ <<"k", i>> \in StackSlots
        /\ kept[<<"v", i>>] = frames[i].saved_v /\ kept[<<"k", i>>] = frames[i].saved_k
    BY <1>1, <2>1, SavedAt
  <2>3. h[<<"v", i>>] = kept[<<"v", i>>] /\ h[<<"k", i>>] = kept[<<"k", i>>]
    BY <1>1, <2>2, HeldAt
  <2>4. Holds(<<"v", i>>) = frames[i].saved_v /\ Holds(<<"k", i>>) = frames[i].saved_k
    BY DEF Holds
  <2>5. <<"v", i>> \in Slots /\ <<"k", i>> \in Slots
    BY <1>1 DEF Slots
  <2> QED
    BY <2>2, <2>3, <2>4, <2>5
<1>5. \A s \in Slots : \/ \E i \in DOMAIN vars : s = <<"table", i>>
                       \/ \E i \in 1 .. Len(frames) : s = <<"v", i>> \/ s = <<"k", i>>
  BY <1>1 DEF Slots
<1>6. \A i, j \in DOMAIN vars : vars[i].name = vars[j].name => i = j
  BY <1>1 DEF NamesUnique
<1>7. ASSUME NEW c \in OwnerSlots, h[c] # NoCell PROVE \E s \in Slots : slot(s) = c
  <2>1. CASE c \in StackSlots
    <3>1. PICK i \in Nat \ {0} : c = <<"v", i>> \/ c = <<"k", i>>
      BY <1>1, <2>1, SavedAt
    <3>2. kept[c] # NoCell
      BY <1>1, <1>7, <2>1, HeldAt
    <3>3. i \in 1 .. Len(frames)
      BY <1>1, <3>1, <3>2, SavedAt
    <3> QED
      BY <1>4, <3>1, <3>3
  <2>2. ASSUME NEW n \in Names, c = <<"name", n>> PROVE \E s \in Slots : slot(s) = c
    <3>1. Bound(vars, n)
      BY <1>1, <1>7, <2>2, HeldAt, LookupType
    <3>2. PICK i \in DOMAIN vars : vars[i].name = n
      BY <3>1 DEF Bound, Hits
    <3> QED
      BY <1>3, <2>2, <3>2
  <2> QED
    BY <2>1, <2>2, SlotKinds
<1>8. \A s \in Slots : slot(s) \in OwnerSlots /\ Holds(s) = h[slot(s)]
  <2> HIDE DEF h, slot
  <2> SUFFICES ASSUME NEW s \in Slots PROVE slot(s) \in OwnerSlots /\ Holds(s) = h[slot(s)]
    OBVIOUS
  <2>1. ASSUME NEW i \in DOMAIN vars, s = <<"table", i>>
        PROVE  slot(s) \in OwnerSlots /\ Holds(s) = h[slot(s)]
    BY <2>1, <1>3
  <2>2. ASSUME NEW i \in 1 .. Len(frames), s = <<"v", i>> \/ s = <<"k", i>>
        PROVE  slot(s) \in OwnerSlots /\ Holds(s) = h[slot(s)]
    BY <2>2, <1>4, SlotKinds
  <2> QED
    BY <2>1, <2>2, <1>5
<1>9. \A s, t \in Slots : slot(s) = slot(t) => s = t
  <2> SUFFICES ASSUME NEW s \in Slots, NEW t \in Slots, slot(s) = slot(t) PROVE s = t
    OBVIOUS
  <2>1. CASE slot(s) \in StackSlots
    <3>1. ASSUME NEW r \in Slots, slot(r) \in StackSlots PROVE slot(r) = r
      BY <3>1, <1>3, <1>4, <1>5
    <3> QED
      BY <2>1, <3>1
  <2>2. CASE slot(s) \notin StackSlots
    <3>1. ASSUME NEW r \in Slots, slot(r) \notin StackSlots
          PROVE  \E i \in DOMAIN vars : r = <<"table", i>>
      BY <3>1, <1>4, <1>5
    <3>2. PICK i \in DOMAIN vars : s = <<"table", i>>
      BY <2>2, <3>1
    <3>3. PICK j \in DOMAIN vars : t = <<"table", j>>
      BY <2>2, <3>1
    <3>4. <<"name", vars[i].name>> = <<"name", vars[j].name>>
      BY <1>3, <3>2, <3>3
    <3> QED
      BY <1>6, <3>2, <3>3, <3>4
  <2> QED
    BY <2>1, <2>2
<1> HIDE DEF h, slot
<1>10. \A s, t \in Slots : Holds(s) = Holds(t) /\ Holds(s) # NoCell => s = t
  BY <1>2, <1>8, <1>9 DEF OneOwner
<1>11. live = Owned \cup leaked
  <2>1. \A c \in Cells : c \in live <=> c \in Owned \cup leaked
    BY <1>2, <1>7, <1>8, NoCellIsNotACell DEF OneOwner, Owned
  <2>2. live \subseteq Cells /\ Owned \cup leaked \subseteq Cells
    BY <1>1, <1>2, <1>8 DEF OneOwner, Owned, Maybe
  <2> QED
    BY <2>1, <2>2
<1>12. Owned \cap leaked = {}
  BY <1>2, <1>8 DEF OneOwner, Owned
<1> QED
  BY <1>10, <1>11, <1>12 DEF OwnedOnce

\* No use after free and no double free, and no leak but the one of a restore
\* that cannot grow the table: every cell a table entry or an activation of
\* eval_for / handle_for points to is allocated and has no second owner, for any
\* names, headers (k = v included), nesting and pattern of failures.
THEOREM CellsOwnedOnce == Spec => []OwnedOnce
<1>1. TypeOK /\ OwnInv /\ [Next]_state => OwnInv'
  BY OwnStep
<1> QED
  BY OwnInit, <1>1, OwnImplies, TypeCorrect, PTL DEF Spec
===============================================================================
