-------------------------- MODULE JsonBody_proofs --------------------------
(***************************************************************************)
(* What holds of the decoder of JSON bodies for every document and schema  *)
(* and any number of failing allocations: its activations are well-formed, *)
(* every cell has one owner, and labels are the keys on the way.           *)
(***************************************************************************)
EXTENDS JsonBody, BasicLemmas

FrameOK(f) == BodyOK(f) \/ BlocksOK(f) \/ BlockOK(f)

(***************************************************************************)
(* A decode_blocks at level n of the labels stands n + 1 activations above *)
(* the decode_body whose buffer it fills, with the levels in between.      *)
(***************************************************************************)
OwnerOf(cs, i) == i - 1 - cs[i].filled

PathAt(cs, i) ==
    cs[i].fn = "blocks" =>
        /\ OwnerOf(cs, i) \in 1 .. i - 1
        /\ cs[OwnerOf(cs, i)].fn = "body" /\ cs[OwnerOf(cs, i)].at = "blocks"
        /\ DOMAIN cs[OwnerOf(cs, i)].labels = 1 .. cs[i].spec.nlabels
        /\ \A j \in OwnerOf(cs, i) + 1 .. i : cs[j].fn = "blocks"
        /\ cs[i].filled > 0 =>
              cs[OwnerOf(cs, i)].labels[cs[i].filled] = cs[i - 1].val.fields[cs[i - 1].i].key

Shape(cs) == StackOK(cs) /\ \A i \in DOMAIN cs : PathAt(cs, i)

-----------------------------------------------------------------------------
(* Stacks. *)

LEMMA SelfTyped ==
    ASSUME NEW S, NEW cs \in Seq(S)
    PROVE  cs \in Seq(ToSet(cs))
BY ElementType DEF ToSet

LEMMA Push ==
    ASSUME NEW cs, cs \in Seq(ToSet(cs)), NEW f
    PROVE  LET t == Append(cs, f) IN
           /\ t \in Seq(ToSet(t))
           /\ DOMAIN t = 1 .. Len(cs) + 1 /\ Len(t) = Len(cs) + 1 /\ Len(cs) \in Nat
           /\ t[Len(cs) + 1] = f /\ \A i \in 1 .. Len(cs) : t[i] = cs[i]
           /\ DOMAIN cs = 1 .. Len(cs) /\ t # <<>>
<1> DEFINE S == ToSet(cs) \cup {f}
           t == Append(cs, f)
<1>1. cs \in Seq(S)
  BY ElementType
<1>2. /\ t \in Seq(S) /\ Len(t) = Len(cs) + 1 /\ t[Len(cs) + 1] = f
      /\ \A i \in 1 .. Len(cs) : t[i] = cs[i]
  <2> HIDE DEF S
  <2>1. f \in S
    BY DEF S
  <2> QED
    BY <1>1, <2>1, StackPush
<1>3. DOMAIN t = 1 .. Len(t) /\ Len(cs) \in Nat /\ DOMAIN cs = 1 .. Len(cs)
  BY <1>1, <1>2, ElementType
<1>4. t \in Seq(ToSet(t))
  <2> HIDE DEF t
  <2> QED
    BY <1>2, SelfTyped
<1>5. t # <<>>
  BY <1>2, <1>3
<1> QED
  BY <1>2, <1>3, <1>4, <1>5

LEMMA Pop ==
    ASSUME NEW cs, cs \in Seq(ToSet(cs)), cs # <<>>
    PROVE  LET t == Front(cs) IN
           /\ t \in Seq(ToSet(t))
           /\ DOMAIN t = 1 .. Len(cs) - 1 /\ Len(t) = Len(cs) - 1
           /\ Len(cs) \in Nat /\ Len(cs) >= 1 /\ DOMAIN cs = 1 .. Len(cs)
           /\ \A i \in 1 .. Len(cs) - 1 : t[i] = cs[i]
           /\ t # <<>> <=> Len(cs) > 1
<1> DEFINE t == Front(cs)
           S == ToSet(cs)
<1>1. /\ t \in Seq(S) /\ Len(t) = Len(cs) - 1 /\ \A i \in 1 .. Len(cs) - 1 : t[i] = cs[i]
  <2> HIDE DEF S
  <2>1. cs \in Seq(S)
    BY DEF S
  <2> QED
    BY <2>1, StackPop DEF Front
<1>2. Len(cs) \in Nat /\ Len(cs) >= 1 /\ DOMAIN cs = 1 .. Len(cs)
  BY StackTop
<1>3. DOMAIN t = 1 .. Len(t) /\ (t # <<>> <=> Len(t) > 0)
  <2> HIDE DEF S, t
  <2> QED
    BY <1>1, ElementType
<1>4. t \in Seq(ToSet(t))
  <2> HIDE DEF t, S
  <2> QED
    BY <1>1, SelfTyped
<1> QED
  BY <1>1, <1>2, <1>3, <1>4

LEMMA Update ==
    ASSUME NEW cs, cs \in Seq(ToSet(cs)), NEW t, DOMAIN t = DOMAIN cs,
           t = [i \in DOMAIN cs |-> t[i]]
    PROVE  t \in Seq(ToSet(t)) /\ Len(t) = Len(cs)
<1>1. DOMAIN cs = 1 .. Len(cs) /\ Len(cs) \in Nat
  BY ElementType
<1>2. \A i \in DOMAIN t : t[i] \in ToSet(t)
  BY DEF ToSet
<1> QED
  BY <1>1, <1>2

LEMMA Joins ==
    ASSUME NEW cs, cs \in Seq(ToSet(cs)), NEW f, NEW g
    PROVE  /\ cs \o <<f>> = Append(cs, f)
           /\ cs \o <<f, g>> = Append(Append(cs, f), g)
<1> DEFINE S == ToSet(cs) \cup {f, g}
<1>1. cs \in Seq(S) /\ f \in S /\ g \in S
  BY ElementType
<1> HIDE DEF S
<1>2. cs \o <<f>> = Append(cs, f)
  BY <1>1
<1>3. cs \o <<f, g>> = Append(Append(cs, f), g)
  BY <1>1
<1> QED
  BY <1>2, <1>3

LEMMA StackFacts ==
    ASSUME NEW cs, Shape(cs)
    PROVE  /\ cs \in Seq(ToSet(cs)) /\ DOMAIN cs = 1 .. Len(cs) /\ Len(cs) \in Nat
           /\ cs # <<>> => Len(cs) >= 1
           /\ \A i \in 1 .. Len(cs) :
                 /\ FrameOK(cs[i]) /\ PathAt(cs, i)
                 /\ IF i = 1 THEN cs[i].fn = "body" ELSE Calls(cs[i - 1], cs[i])
<1>1. cs \in Seq(ToSet(cs))
  BY DEF Shape, StackOK
<1>2. DOMAIN cs = 1 .. Len(cs) /\ Len(cs) \in Nat
  BY <1>1, ElementType
<1>3. cs # <<>> => Len(cs) >= 1
  BY <1>1
<1> QED
  BY <1>1, <1>2, <1>3 DEF Shape, StackOK, FrameOK

LEMMA PathKept ==
    ASSUME NEW cs, NEW t, NEW i \in Nat, i >= 1, PathAt(cs, i),
           \A j \in 1 .. i : t[j] = cs[j]
    PROVE  PathAt(t, i)
<1>1. t[i] = cs[i] /\ OwnerOf(t, i) = OwnerOf(cs, i)
  BY DEF OwnerOf
<1>2. CASE cs[i].fn = "blocks"
  <2> DEFINE o == OwnerOf(cs, i)
  <2>1. o \in 1 .. i - 1 /\ o \in 1 .. i /\ i - 1 \in 1 .. i
    BY <1>2 DEF PathAt
  <2>2. t[o] = cs[o] /\ t[i - 1] = cs[i - 1]
    BY <2>1
  <2>3. \A j \in o + 1 .. i : j \in 1 .. i
    BY <2>1
  <2> HIDE DEF o
  <2>4. \A j \in o + 1 .. i : t[j].fn = "blocks"
    BY <1>2, <2>3 DEF PathAt, o
  <2> QED
    BY <1>1, <1>2, <2>1, <2>2, <2>4 DEF PathAt, o
<1>3. CASE cs[i].fn # "blocks"
  BY <1>1, <1>3 DEF PathAt
<1> QED
  BY <1>2, <1>3

LEMMA ShapePop ==
    ASSUME NEW cs, Shape(cs), cs # <<>>
    PROVE  Shape(Front(cs))
<1> DEFINE t == Front(cs)
<1>1. /\ t \in Seq(ToSet(t)) /\ DOMAIN t = 1 .. Len(cs) - 1 /\ Len(t) = Len(cs) - 1
      /\ Len(cs) \in Nat /\ Len(cs) >= 1
      /\ \A i \in 1 .. Len(cs) - 1 : t[i] = cs[i]
  BY StackFacts, Pop
<1> HIDE DEF t
<1>2. ASSUME NEW i \in 1 .. Len(cs) - 1
      PROVE  /\ FrameOK(t[i]) /\ PathAt(t, i)
             /\ IF i = 1 THEN t[i].fn = "body" ELSE Calls(t[i - 1], t[i])
  <2>1. i \in 1 .. Len(cs) /\ t[i] = cs[i] /\ i \in Nat /\ i >= 1
    BY <1>1
  <2>2. i # 1 => t[i - 1] = cs[i - 1]
    BY <1>1, <2>1
  <2>3. \A j \in 1 .. i : t[j] = cs[j]
    BY <1>1
  <2>4. PathAt(t, i)
    BY <2>1, <2>3, StackFacts, PathKept
  <2> QED
    BY <2>1, <2>2, <2>4, StackFacts
<1> QED
  BY <1>1, <1>2 DEF Shape, StackOK, FrameOK, t

LEMMA ShapePush ==
    ASSUME NEW cs, Shape(cs), NEW f, FrameOK(f),
           cs = <<>> => f.fn = "body",
           cs # <<>> => Calls(Last(cs), f),
           f.fn = "blocks" /\ f.filled > 0 =>
               cs[OwnerOf(cs, Len(cs))].labels[f.filled] = Last(cs).val.fields[Last(cs).i].key
    PROVE  Shape(Append(cs, f))
<1> DEFINE t == Append(cs, f)
           n == Len(cs)
<1>1. /\ t \in Seq(ToSet(t)) /\ DOMAIN t = 1 .. n + 1 /\ Len(t) = n + 1 /\ n \in Nat
      /\ t[n + 1] = f /\ \A i \in 1 .. n : t[i] = cs[i]
  BY StackFacts, Push
<1>2. /\ n = 0 <=> cs = <<>>
      /\ n = Len(cs)
  BY StackFacts
<1> HIDE DEF t, n
<1>3. ASSUME NEW i \in 1 .. n
      PROVE  /\ FrameOK(t[i]) /\ PathAt(t, i)
             /\ IF i = 1 THEN t[i].fn = "body" ELSE Calls(t[i - 1], t[i])
  <2>1. t[i] = cs[i] /\ i \in Nat /\ i >= 1
    BY <1>1
  <2>2. i # 1 => t[i - 1] = cs[i - 1]
    BY <1>1, <2>1
  <2>3. \A j \in 1 .. i : t[j] = cs[j]
    BY <1>1
  <2>4. PathAt(t, i)
    BY <1>2, <2>1, <2>3, StackFacts, PathKept
  <2> QED
    BY <1>2, <2>1, <2>2, <2>4, StackFacts
<1>4. IF n + 1 = 1 THEN t[n + 1].fn = "body" ELSE Calls(t[n + 1 - 1], t[n + 1])
  <2>1. CASE n = 0
    BY <1>1, <1>2, <2>1
  <2>2. CASE n # 0
    <3>1. t[n] = Last(cs) /\ n + 1 - 1 = n /\ n + 1 # 1
      BY <1>1, <1>2, <2>2 DEF Last
    <3> QED
      BY <1>1, <1>2, <2>2, <3>1
  <2> QED
    BY <2>1, <2>2
<1>5. ASSUME f.fn = "blocks"
      PROVE  PathAt(t, n + 1)
  <2>1. BlocksOK(f) /\ f.filled \in Nat /\ cs # <<>>
    <3>1. BlocksOK(f) /\ cs # <<>>
      BY <1>5 DEF FrameOK, BodyOK, BlockOK
    <3> QED
      BY <3>1, SchemasAssumption DEF BlocksOK
  <2>2. n >= 1 /\ Last(cs) = cs[n] /\ t[n] = cs[n] /\ n + 1 - 1 = n
    BY <1>1, <1>2, <2>1 DEF Last
  <2>6. FrameOK(cs[n])
    BY <1>1, <1>2, <2>2, StackFacts
  <2>7. cs[n].fn = "blocks" => BlocksOK(cs[n]) /\ cs[n].filled \in Nat
    BY <2>6, SchemasAssumption DEF FrameOK, BodyOK, BlockOK, BlocksOK
  <2>8. Calls(cs[n], f)
    BY <2>1, <2>2
  <2>3. OwnerOf(t, n + 1) = n - f.filled
    BY <1>1, <2>1 DEF OwnerOf
  <2>4. CASE f.filled = 0
    <3>1. cs[n].fn = "body" /\ cs[n].at = "blocks" /\ DOMAIN cs[n].labels = 1 .. f.spec.nlabels
      BY <1>5, <2>4, <2>7, <2>8 DEF Calls
    <3>2. OwnerOf(t, n + 1) = n
      BY <1>1, <2>3, <2>4
    <3> QED
      BY <1>1, <1>5, <2>2, <2>4, <3>1, <3>2 DEF PathAt
  <2>5. CASE f.filled # 0
    <3>1. /\ cs[n].fn = "blocks" /\ f.filled = cs[n].filled + 1 /\ f.spec = cs[n].spec
          /\ cs[n].filled \in Nat
      BY <1>5, <2>5, <2>7, <2>8 DEF Calls
    <3>2. OwnerOf(cs, n) = OwnerOf(t, n + 1) /\ OwnerOf(cs, n) = n - f.filled
      BY <1>1, <2>1, <2>3, <3>1 DEF OwnerOf
    <3>3. PathAt(cs, n)
      BY <1>1, <1>2, <2>2, StackFacts
    <3> DEFINE o == OwnerOf(cs, n)
    <3>4. /\ o \in 1 .. n - 1 /\ o \in 1 .. n /\ cs[o].fn = "body" /\ cs[o].at = "blocks"
          /\ DOMAIN cs[o].labels = 1 .. f.spec.nlabels
          /\ \A j \in o + 1 .. n : cs[j].fn = "blocks"
      BY <1>1, <3>1, <3>3 DEF PathAt
    <3>5. cs[o].labels[f.filled] = cs[n].val.fields[cs[n].i].key
      BY <1>2, <1>5, <2>1, <2>2, <2>5
    <3>6. t[o] = cs[o]
      BY <1>1, <3>4
    <3> HIDE DEF o
    <3>7. \A j \in o + 1 .. n + 1 : t[j].fn = "blocks"
      <4>1. \A j \in o + 1 .. n + 1 : j = n + 1 \/ (j \in o + 1 .. n /\ j \in 1 .. n)
        BY <1>1, <3>4
      <4> QED
        BY <1>1, <1>5, <3>4, <4>1
    <3> QED
      BY <1>1, <1>5, <2>2, <3>2, <3>4, <3>5, <3>6, <3>7 DEF PathAt, o
  <2> QED
    BY <2>4, <2>5
<1>6. f.fn # "blocks" => PathAt(t, n + 1)
  BY <1>1 DEF PathAt
<1>7. \A i \in 1 .. n + 1 : i \in 1 .. n \/ i = n + 1
  BY <1>1
<1> QED
  BY <1>1, <1>3, <1>4, <1>5, <1>6, <1>7 DEF Shape, StackOK, FrameOK, t

LEMMA LastIs ==
    ASSUME NEW cs, Shape(cs), cs # <<>>
    PROVE  /\ Len(cs) \in 1 .. Len(cs) /\ FrameOK(Last(cs)) /\ PathAt(cs, Len(cs))
           /\ Last(cs).fn = "body" => BodyOK(Last(cs))
           /\ Last(cs).fn = "blocks" => BlocksOK(Last(cs)) /\ Last(cs).filled \in Nat /\ Len(cs) > 1
           /\ Last(cs).fn = "block" => BlockOK(Last(cs)) /\ Len(cs) > 2 /\ Last(Front(cs)).fn = "blocks"
           /\ Len(cs) = 1 => Last(cs).fn = "body"
           /\ Len(cs) > 1 => Front(cs) # <<>> /\ Calls(Last(Front(cs)), Last(cs))
           /\ Len(cs) > 1 /\ Last(cs).fn = "body" => Last(Front(cs)).fn = "block"
<1> DEFINE n == Len(cs)
           g == Front(cs)
<1>1. n \in Nat /\ n >= 1 /\ n \in 1 .. n /\ cs \in Seq(ToSet(cs))
  BY StackFacts
<1>2. /\ FrameOK(cs[n]) /\ PathAt(cs, n)
      /\ IF n = 1 THEN cs[n].fn = "body" ELSE Calls(cs[n - 1], cs[n])
  BY <1>1, StackFacts
<1>3. /\ Len(g) = n - 1 /\ (g # <<>> <=> n > 1) /\ \A i \in 1 .. n - 1 : g[i] = cs[i]
  BY <1>1, Pop
<1> HIDE DEF n, g
<1>4. n > 1 => Last(g) = cs[n - 1] /\ g # <<>> /\ n # 1
  BY <1>1, <1>3 DEF Last
<1>5. /\ cs[n].fn = "body" => BodyOK(cs[n])
      /\ cs[n].fn = "blocks" => BlocksOK(cs[n]) /\ cs[n].filled \in Nat /\ n > 1
      /\ cs[n].fn = "block" => BlockOK(cs[n]) /\ n > 1
  BY <1>1, <1>2, SchemasAssumption DEF FrameOK, BodyOK, BlocksOK, BlockOK
<1>6. cs[n].fn = "block" => n > 2
  <2>1. CASE n = 2
    <3>1. 1 \in 1 .. Len(cs)
      BY <1>1, <2>1 DEF n
    <3>2. cs[1].fn = "body"
      BY <3>1, StackFacts
    <3> QED
      BY <1>2, <2>1, <3>2 DEF Calls
  <2> QED
    BY <1>1, <1>5, <2>1
<1>7. n > 1 /\ cs[n].fn = "block" => Last(g).fn = "blocks"
  BY <1>2, <1>4 DEF Calls
<1>8. n > 1 /\ cs[n].fn = "body" => Last(g).fn = "block"
  BY <1>2, <1>4 DEF Calls
<1> QED
  BY <1>1, <1>2, <1>4, <1>5, <1>6, <1>7, <1>8 DEF Last, n, g

\* The running function goes on.
LEMMA ShapeTop ==
    ASSUME NEW cs, Shape(cs), cs # <<>>, NEW f, FrameOK(f), f.fn = Last(cs).fn,
           f.fn = "blocks" => f.filled = Last(cs).filled /\ f.spec = Last(cs).spec
    PROVE  /\ Shape(Append(Front(cs), f)) /\ Append(Front(cs), f) # <<>>
           /\ Len(Append(Front(cs), f)) = Len(cs) /\ Last(Append(Front(cs), f)) = f
<1> DEFINE g == Front(cs)
           n == Len(cs)
<1>1. /\ Shape(g) /\ g \in Seq(ToSet(g)) /\ Len(g) = n - 1 /\ n \in Nat /\ n >= 1
      /\ \A i \in 1 .. n - 1 : g[i] = cs[i]
      /\ g # <<>> <=> n > 1
  BY ShapePop, StackFacts, Pop
<1>2. PathAt(cs, n) /\ (n = 1 => Last(cs).fn = "body") /\ (n > 1 => Calls(Last(g), Last(cs)))
  BY LastIs
<1>3. Last(cs).fn = "blocks" => BlocksOK(Last(cs)) /\ Last(cs).filled \in Nat
  BY LastIs
<1>4. Last(cs) = cs[n]
  BY DEF Last
<1> HIDE DEF g, n
<1>5. g = <<>> => f.fn = "body"
  BY <1>1, <1>2
<1>6. g # <<>> => Calls(Last(g), f)
  <2>1. CASE f.fn = "blocks"
    BY <1>1, <1>2, <2>1 DEF Calls
  <2>2. CASE f.fn # "blocks"
    BY <1>1, <1>2, <2>2 DEF Calls
  <2> QED
    BY <2>1, <2>2
<1>7. ASSUME f.fn = "blocks", f.filled > 0
      PROVE  g[OwnerOf(g, Len(g))].labels[f.filled] = Last(g).val.fields[Last(g).i].key
  <2> DEFINE o == OwnerOf(cs, n)
  <2>1. /\ o \in 1 .. n - 1 /\ g[o] = cs[o] /\ n > 1 /\ cs[n].filled = f.filled
        /\ cs[o].labels[f.filled] = cs[n - 1].val.fields[cs[n - 1].i].key
    BY <1>1, <1>2, <1>3, <1>4, <1>7 DEF PathAt
  <2>2. Last(g) = cs[n - 1] /\ Last(g).fn = "blocks" /\ Last(g).filled = f.filled - 1
    <3>1. Last(g) = cs[n - 1]
      BY <1>1, <2>1 DEF Last
    <3>2. Calls(Last(g), cs[n]) /\ cs[n].fn = "blocks" /\ cs[n].filled \in Nat /\ cs[n].filled # 0
      BY <1>2, <1>3, <1>4, <1>7, <2>1
    <3>3. Shape(g) /\ g # <<>>
      BY <1>1, <2>1
    <3>4. Last(g).fn = "blocks" => Last(g).filled \in Nat
      BY <3>3, LastIs
    <3> QED
      BY <2>1, <3>1, <3>2, <3>4 DEF Calls
  <2>3. OwnerOf(g, Len(g)) = o
    <3>1. Len(g) = n - 1 /\ g[Len(g)] = Last(g) /\ f.filled \in Nat
      BY <1>1, <1>3, <1>4, <1>7, <2>1 DEF Last
    <3> QED
      BY <1>1, <2>1, <2>2, <3>1 DEF OwnerOf
  <2> HIDE DEF o
  <2> QED
    BY <2>1, <2>2, <2>3
<1>8. Shape(Append(g, f))
  BY <1>1, <1>5, <1>6, <1>7, ShapePush
<1>9. Append(g, f) # <<>> /\ Len(Append(g, f)) = n /\ Last(Append(g, f)) = f
  BY <1>1, Push DEF Last
<1> QED
  BY <1>8, <1>9 DEF g, n

\* Activations below the last may change what no other refers to.
LEMMA ShapeAlike ==
    ASSUME NEW cs, Shape(cs), NEW t, t \in Seq(ToSet(t)), Len(t) = Len(cs),
           \A i \in 1 .. Len(cs) :
               /\ FrameOK(t[i]) /\ t[i].fn = cs[i].fn
               /\ cs[i].fn = "blocks" => /\ t[i].filled = cs[i].filled /\ t[i].spec = cs[i].spec
                                         /\ t[i].val = cs[i].val
                                         /\ i < Len(cs) => t[i].i = cs[i].i
               /\ cs[i].fn = "body" => t[i].at = cs[i].at /\ DOMAIN t[i].labels = DOMAIN cs[i].labels
               /\ cs[i].fn = "blocks" /\ cs[i].filled > 0 =>
                     t[OwnerOf(cs, i)].labels[cs[i].filled] = cs[OwnerOf(cs, i)].labels[cs[i].filled]
    PROVE  Shape(t)
<1> DEFINE n == Len(cs)
<1>1. n \in Nat /\ DOMAIN t = 1 .. n /\ DOMAIN cs = 1 .. n
  BY StackFacts, ElementType
<1>2. ASSUME NEW i \in 1 .. n
      PROVE  IF i = 1 THEN t[i].fn = "body" ELSE Calls(t[i - 1], t[i])
  <2>1. IF i = 1 THEN cs[i].fn = "body" ELSE Calls(cs[i - 1], cs[i])
    BY StackFacts
  <2>2. CASE i = 1
    BY <2>1, <2>2
  <2>3. CASE i # 1
    <3>1. i - 1 \in 1 .. n
      BY <1>1, <2>3
    <3>2. Calls(cs[i - 1], cs[i])
      BY <2>1, <2>3
    <3>3. /\ t[i].fn = cs[i].fn /\ t[i - 1].fn = cs[i - 1].fn
          /\ cs[i].fn = "blocks" => t[i].filled = cs[i].filled /\ t[i].spec = cs[i].spec
          /\ cs[i - 1].fn = "blocks" =>
                t[i - 1].filled = cs[i - 1].filled /\ t[i - 1].spec = cs[i - 1].spec
          /\ cs[i - 1].fn = "body" => /\ t[i - 1].at = cs[i - 1].at
                                      /\ DOMAIN t[i - 1].labels = DOMAIN cs[i - 1].labels
      BY <3>1
    <3>4. Calls(t[i - 1], t[i])
      BY <3>2, <3>3 DEF Calls
    <3> QED
      BY <2>3, <3>4
  <2> QED
    BY <2>2, <2>3
<1>3. ASSUME NEW i \in 1 .. n, cs[i].fn = "blocks"
      PROVE  PathAt(t, i)
  <2> DEFINE o == OwnerOf(cs, i)
  <2>1. /\ PathAt(cs, i) /\ t[i].fn = "blocks" /\ t[i].filled = cs[i].filled /\ t[i].spec = cs[i].spec
        /\ cs[i].filled > 0 => t[o].labels[cs[i].filled] = cs[o].labels[cs[i].filled]
    BY <1>3, StackFacts
  <2>2. /\ o \in 1 .. i - 1 /\ cs[o].fn = "body" /\ cs[o].at = "blocks"
        /\ DOMAIN cs[o].labels = 1 .. cs[i].spec.nlabels
        /\ \A j \in o + 1 .. i : cs[j].fn = "blocks"
        /\ cs[i].filled > 0 => cs[o].labels[cs[i].filled] = cs[i - 1].val.fields[cs[i - 1].i].key
    BY <1>3, <2>1 DEF PathAt
  <2>3. OwnerOf(t, i) = o
    BY <2>1 DEF OwnerOf
  <2>4. o = i - 1 - cs[i].filled /\ cs[i].filled \in Nat
    <3>1. FrameOK(cs[i])
      BY StackFacts
    <3> QED
      BY <1>3, <3>1, SchemasAssumption DEF OwnerOf, FrameOK, BodyOK, BlocksOK, BlockOK
  <2> HIDE DEF o
  <2>5. o \in 1 .. n /\ \A j \in o + 1 .. i : j \in 1 .. n
    BY <1>1, <2>2
  <2>6. t[o].fn = "body" /\ t[o].at = "blocks" /\ DOMAIN t[o].labels = DOMAIN cs[o].labels
    BY <2>2, <2>5
  <2>7. \A j \in o + 1 .. i : t[j].fn = "blocks"
    BY <2>2, <2>5
  <2>8. cs[i].filled > 0 => t[i - 1].val = cs[i - 1].val /\ t[i - 1].i = cs[i - 1].i
    <3>1. cs[i].filled > 0 => i - 1 \in o + 1 .. i /\ i - 1 \in 1 .. n /\ i - 1 < n
      BY <1>1, <2>2, <2>4
    <3> QED
      BY <2>2, <3>1
  <2> QED
    BY <2>1, <2>2, <2>3, <2>6, <2>7, <2>8 DEF PathAt
<1>4. ASSUME NEW i \in 1 .. n, cs[i].fn # "blocks"
      PROVE  PathAt(t, i)
  BY <1>4 DEF PathAt
<1> QED
  BY <1>1, <1>2, <1>3, <1>4 DEF Shape, StackOK, FrameOK

\* The body and the buffer a decode_blocks was given are those of its owner.
LEMMA OutAtIs ==
    ASSUME NEW cs, Shape(cs), NEW i \in 1 .. Len(cs), cs[i].fn = "blocks"
    PROVE  Max({j \in 1 .. i : cs[j].fn = "body"}) = OwnerOf(cs, i)
<1> DEFINE T == {j \in 1 .. i : cs[j].fn = "body"}
           o == OwnerOf(cs, i)
<1>1. PathAt(cs, i) /\ i \in Nat
  BY StackFacts
<1>2. o \in 1 .. i - 1 /\ cs[o].fn = "body" /\ \A j \in o + 1 .. i : cs[j].fn = "blocks"
  BY <1>1 DEF PathAt
<1> HIDE DEF o
<1>3. o \in T /\ \A j \in T : o >= j /\ j \in Nat
  BY <1>1, <1>2
<1> HIDE DEF T
<1>4. \A x \in T : (\A y \in T : x >= y) => x = o
  BY <1>2, <1>3
<1>5. Max(T) = o
  BY <1>3, <1>4, Zenon DEF Max
<1> QED
  BY <1>5 DEF T, o

\* A key is written as the next label.
Labelled(cs, key) == [cs EXCEPT ![OwnerOf(cs, Len(cs))].labels[Last(cs).filled + 1] = key]

LEMMA ShapeLabel ==
    ASSUME NEW cs, Shape(cs), cs # <<>>, Last(cs).fn = "blocks",
           Last(cs).filled < Last(cs).spec.nlabels, NEW key, NEW t, t = Labelled(cs, key)
    PROVE  LET o == OwnerOf(cs, Len(cs)) IN
           /\ Shape(t) /\ Len(t) = Len(cs) /\ t # <<>>
           /\ o \in 1 .. Len(cs) - 1 /\ \A i \in 1 .. Len(cs) : i # o => t[i] = cs[i]
           /\ cs[o].fn = "body" /\ t[o].fn = "body"
           /\ t[o].b = cs[o].b /\ t[o].buffer = cs[o].buffer
           /\ t[o].labels[Last(cs).filled + 1] = key
<1> DEFINE n == Len(cs)
           o == OwnerOf(cs, n)
           k == Last(cs).filled + 1
           f == [cs[o] EXCEPT !.labels = [@ EXCEPT ![k] = key]]
<1>1. n \in Nat /\ n >= 1 /\ DOMAIN cs = 1 .. n /\ cs \in Seq(ToSet(cs)) /\ Last(cs) = cs[n]
  BY StackFacts DEF Last
<1>2. /\ PathAt(cs, n) /\ BlocksOK(Last(cs)) /\ Last(cs).filled \in Nat
  BY LastIs
<1>3. /\ o \in 1 .. n - 1 /\ o \in 1 .. n /\ cs[o].fn = "body"
      /\ DOMAIN cs[o].labels = 1 .. Last(cs).spec.nlabels
  BY <1>1, <1>2 DEF PathAt
<1>4. BodyOK(cs[o])
  BY <1>3, StackFacts DEF FrameOK, BlocksOK, BlockOK
<1>5. k \in 1 .. Last(cs).spec.nlabels
  BY <1>2, SchemasAssumption DEF BlocksOK
<1>6. t = [cs EXCEPT ![o] = f]
  BY DEF Labelled
<1>7. DOMAIN t = 1 .. n /\ t = [i \in 1 .. n |-> t[i]] /\ \A i \in 1 .. n : t[i] = IF i = o THEN f ELSE cs[i]
  <2> HIDE DEF o, f, n
  <2> QED
    BY <1>1, <1>6
<1>8. /\ f.fn = "body" /\ f.at = cs[o].at /\ f.obj = cs[o].obj /\ f.schema = cs[o].schema /\ f.b = cs[o].b
      /\ f.i = cs[o].i /\ f.buffer = cs[o].buffer
      /\ f.labels = [cs[o].labels EXCEPT ![k] = key]
      /\ DOMAIN f = DOMAIN cs[o]
  <2> HIDE DEF o, k
  <2> QED
    BY <1>4 DEF BodyOK
<1> HIDE DEF f, o, k, n
<1>9. BodyOK(f)
  BY <1>4, <1>8 DEF BodyOK
<1>10. DOMAIN f.labels = DOMAIN cs[o].labels /\ f.labels[k] = key
       /\ \A l \in DOMAIN cs[o].labels : l # k => f.labels[l] = cs[o].labels[l]
  BY <1>3, <1>5, <1>8
<1>11. t \in Seq(ToSet(t)) /\ Len(t) = n
  BY <1>1, <1>7, Update DEF n
<1>12. ASSUME NEW i \in 1 .. n
       PROVE  /\ FrameOK(t[i]) /\ t[i].fn = cs[i].fn
              /\ cs[i].fn = "blocks" => t[i] = cs[i]
              /\ cs[i].fn = "body" => t[i].at = cs[i].at /\ DOMAIN t[i].labels = DOMAIN cs[i].labels
              /\ cs[i].fn = "blocks" /\ cs[i].filled > 0 =>
                     t[OwnerOf(cs, i)].labels[cs[i].filled] = cs[OwnerOf(cs, i)].labels[cs[i].filled]
  <2>1. FrameOK(cs[i]) /\ PathAt(cs, i)
    BY StackFacts DEF n
  <2>2. FrameOK(t[i]) /\ t[i].fn = cs[i].fn
    BY <1>3, <1>7, <1>8, <1>9, <2>1 DEF FrameOK
  <2>3. cs[i].fn = "blocks" => t[i] = cs[i]
    BY <1>3, <1>7
  <2>4. cs[i].fn = "body" => t[i].at = cs[i].at /\ DOMAIN t[i].labels = DOMAIN cs[i].labels
    BY <1>7, <1>8, <1>10
  <2>5. ASSUME cs[i].fn = "blocks", cs[i].filled > 0
        PROVE  t[OwnerOf(cs, i)].labels[cs[i].filled] = cs[OwnerOf(cs, i)].labels[cs[i].filled]
    <3>1. /\ OwnerOf(cs, i) \in 1 .. i - 1 /\ OwnerOf(cs, i) = i - 1 - cs[i].filled
          /\ cs[i].filled \in 1 .. cs[i].spec.nlabels
          /\ DOMAIN cs[OwnerOf(cs, i)].labels = 1 .. cs[i].spec.nlabels
      BY <2>1, <2>5, SchemasAssumption DEF PathAt, OwnerOf, FrameOK, BodyOK, BlocksOK, BlockOK
    <3>2. OwnerOf(cs, i) \in 1 .. n
      BY <1>1, <3>1
    <3>3. CASE OwnerOf(cs, i) = o
      <4>1. cs[i].filled < k
        BY <1>1, <1>2, <1>3, <3>1, <3>3 DEF OwnerOf, o, k
      <4>2. cs[i].filled \in DOMAIN cs[o].labels
        BY <3>1, <3>3, Zenon
      <4>3. cs[i].filled # k
        <5>1. cs[i].filled \in Nat /\ k \in Nat
          BY <1>2, <2>1, <2>5, SchemasAssumption DEF k, FrameOK, BodyOK, BlocksOK, BlockOK
        <5> QED
          BY <4>1, <5>1
      <4> QED
        BY <1>3, <1>7, <1>10, <3>3, <4>2, <4>3
    <3>4. CASE OwnerOf(cs, i) # o
      BY <1>7, <3>2, <3>4
    <3> QED
      BY <3>3, <3>4
  <2> QED
    BY <2>2, <2>3, <2>4, <2>5
<1>13. Shape(t)
  <2> USE DEF n
  <2> QED
    BY <1>11, <1>12, ShapeAlike
<1>14. t # <<>>
  BY <1>1, <1>11
<1> QED
  BY <1>3, <1>7, <1>8, <1>10, <1>11, <1>13, <1>14 DEF n, o, k

-----------------------------------------------------------------------------
(* Ownership.  A step is made of three moves: an activation ends and gives  *)
(* its cells back or hands them on, one begins with cells just allocated,   *)
(* or the owner of a block grows.                                           *)

CellsOf(f) == Data(f) \cup Buffer(f)

OneOwner(cs, m, d, cells) ==
    /\ \A i \in 1 .. Len(cs) :
           Data(cs[i]) \cap Buffer(cs[i]) = {} /\ CellsOf(cs[i]) \cap (m \cup d) = {}
    /\ \A i, j \in 1 .. Len(cs) : i # j => CellsOf(cs[i]) \cap CellsOf(cs[j]) = {}
    /\ m \cap d = {}
    /\ \A c : c \in cells <=> c \in m \cup d \/ \E i \in 1 .. Len(cs) : c \in CellsOf(cs[i])

LEMMA OwnPush ==
    ASSUME NEW cs, cs \in Seq(ToSet(cs)), NEW m, NEW d, NEW cells, OneOwner(cs, m, d, cells),
           NEW f, Data(f) \cap Buffer(f) = {}, CellsOf(f) \cap cells = {}
    PROVE  OneOwner(Append(cs, f), m, d, cells \cup CellsOf(f))
<1> DEFINE t == Append(cs, f)
           n == Len(cs)
<1>1. /\ Len(t) = n + 1 /\ n \in Nat /\ t[n + 1] = f /\ \A i \in 1 .. n : t[i] = cs[i]
  BY Push
<1> HIDE DEF t
<1>2. \A i \in 1 .. n + 1 : i = n + 1 \/ (i \in 1 .. n /\ t[i] = cs[i])
  BY <1>1
<1>3. \A i \in 1 .. n : i \in 1 .. n + 1 /\ i # n + 1
  BY <1>1
<1>4. n + 1 \in 1 .. n + 1
  BY <1>1
<1> HIDE DEF n
<1>5. \A i \in 1 .. n : CellsOf(cs[i]) \subseteq cells
  BY DEF OneOwner, n
<1>6. m \cup d \subseteq cells
  BY DEF OneOwner
<1>7. \A i \in 1 .. n + 1 : Data(t[i]) \cap Buffer(t[i]) = {} /\ CellsOf(t[i]) \cap (m \cup d) = {}
  BY <1>1, <1>2, <1>6 DEF OneOwner, n
<1>8. \A i, j \in 1 .. n + 1 : i # j => CellsOf(t[i]) \cap CellsOf(t[j]) = {}
  <2>1. \A i, j \in 1 .. n : i # j => CellsOf(cs[i]) \cap CellsOf(cs[j]) = {}
    BY DEF OneOwner, n
  <2>2. \A i \in 1 .. n : CellsOf(cs[i]) \cap CellsOf(f) = {}
    BY <1>5
  <2> QED
    BY <1>1, <1>2, <2>1, <2>2
<1>9. ASSUME NEW c
      PROVE  c \in cells \cup CellsOf(f)
                 <=> c \in m \cup d \/ \E i \in 1 .. n + 1 : c \in CellsOf(t[i])
  <2>1. (\E i \in 1 .. n + 1 : c \in CellsOf(t[i]))
            <=> c \in CellsOf(f) \/ \E i \in 1 .. n : c \in CellsOf(cs[i])
    BY <1>1, <1>2, <1>3, <1>4
  <2> QED
    BY <2>1 DEF OneOwner, n
<1> QED
  BY <1>1, <1>7, <1>8, <1>9 DEF OneOwner, t

LEMMA OwnPop ==
    ASSUME NEW cs, cs \in Seq(ToSet(cs)), cs # <<>>,
           NEW m, NEW d, NEW cells, OneOwner(cs, m, d, cells)
    PROVE  /\ OneOwner(Front(cs), m, d, cells \ CellsOf(Last(cs)))
           /\ m = {} /\ Buffer(Last(cs)) = {} => OneOwner(Front(cs), Data(Last(cs)), d, cells)
           /\ CellsOf(Last(cs)) \subseteq cells /\ CellsOf(Last(cs)) \cap (m \cup d) = {}
           /\ Data(Last(cs)) \cap Buffer(Last(cs)) = {}
<1> DEFINE t == Front(cs)
           n == Len(cs)
           f == cs[n]
<1>1. /\ Len(t) = n - 1 /\ n \in Nat /\ n >= 1 /\ \A i \in 1 .. n - 1 : t[i] = cs[i]
  BY Pop
<1> HIDE DEF t
<1>2. \A i \in 1 .. n : i = n \/ (i \in 1 .. n - 1 /\ t[i] = cs[i])
  BY <1>1
<1>3. \A i \in 1 .. n - 1 : i \in 1 .. n /\ i # n /\ t[i] = cs[i]
  BY <1>1
<1>4. n \in 1 .. n
  BY <1>1
<1> HIDE DEF n, f
<1>5. \A i \in 1 .. n - 1 : /\ Data(t[i]) \cap Buffer(t[i]) = {} /\ CellsOf(t[i]) \cap (m \cup d) = {}
                            /\ CellsOf(t[i]) \cap CellsOf(f) = {}
  BY <1>3, <1>4 DEF OneOwner, n, f
<1>6. \A i, j \in 1 .. n - 1 : i # j => CellsOf(t[i]) \cap CellsOf(t[j]) = {}
  BY <1>3 DEF OneOwner, n
<1>7. /\ CellsOf(f) \subseteq cells /\ CellsOf(f) \cap (m \cup d) = {} /\ Data(f) \cap Buffer(f) = {}
  BY <1>4 DEF OneOwner, n, f
<1>8. ASSUME NEW c
      PROVE  c \in cells <=> c \in m \cup d \/ c \in CellsOf(f) \/ \E i \in 1 .. n - 1 : c \in CellsOf(t[i])
  <2>1. (\E i \in 1 .. n : c \in CellsOf(cs[i]))
            <=> c \in CellsOf(f) \/ \E i \in 1 .. n - 1 : c \in CellsOf(t[i])
    BY <1>2, <1>3, <1>4 DEF f
  <2> QED
    BY <2>1 DEF OneOwner, n
<1>9. m \cap d = {}
  BY DEF OneOwner
<1>10. OneOwner(t, m, d, cells \ CellsOf(f))
  <2>1. \A c : c \in cells \ CellsOf(f) <=> c \in m \cup d \/ \E i \in 1 .. n - 1 : c \in CellsOf(t[i])
    BY <1>5, <1>7, <1>8
  <2> QED
    BY <1>1, <1>5, <1>6, <1>9, <2>1 DEF OneOwner
<1>11. ASSUME m = {}, Buffer(f) = {}
       PROVE  OneOwner(t, Data(f), d, cells)
  <2>1. CellsOf(f) = Data(f)
    BY <1>11 DEF CellsOf
  <2>2. \A c : c \in cells <=> c \in Data(f) \cup d \/ \E i \in 1 .. n - 1 : c \in CellsOf(t[i])
    BY <1>8, <1>11, <2>1
  <2>3. \A i \in 1 .. n - 1 :
            Data(t[i]) \cap Buffer(t[i]) = {} /\ CellsOf(t[i]) \cap (Data(f) \cup d) = {}
    BY <1>5, <2>1
  <2>4. Data(f) \cap d = {}
    BY <1>7, <2>1
  <2> HIDE DEF f
  <2> QED
    BY <1>1, <1>6, <2>2, <2>3, <2>4 DEF OneOwner
<1>12. Last(cs) = f
  BY DEF Last, f, n
<1> QED
  BY <1>7, <1>10, <1>11, <1>12 DEF t

\* What is under construction becomes a part of what an activation owns.
LEMMA OwnGrow ==
    ASSUME NEW cs, NEW m, NEW d, NEW cells, OneOwner(cs, m, d, cells),
           NEW t, Len(t) = Len(cs), NEW o \in 1 .. Len(cs), NEW k, k \cap cells = {},
           \A i \in 1 .. Len(cs) : i # o => Data(t[i]) = Data(cs[i]) /\ Buffer(t[i]) = Buffer(cs[i]),
           Data(t[o]) = Data(cs[o]) \cup k \cup m, Buffer(t[o]) = Buffer(cs[o])
    PROVE  OneOwner(t, {}, d, cells \cup k)
<1> DEFINE n == Len(cs)
<1>1. \A i \in 1 .. n : i # o => CellsOf(t[i]) = CellsOf(cs[i])
  BY DEF CellsOf
<1>2. CellsOf(t[o]) = CellsOf(cs[o]) \cup k \cup m
  BY DEF CellsOf
<1>3. \A i \in 1 .. n : CellsOf(cs[i]) \subseteq cells /\ m \cup d \subseteq cells
  BY DEF OneOwner
<1>4. \A i, j \in 1 .. n : i # j => CellsOf(cs[i]) \cap CellsOf(cs[j]) = {}
  BY DEF OneOwner
<1>5. \A i \in 1 .. n : CellsOf(cs[i]) \cap (m \cup d) = {} /\ m \cap d = {} /\ Data(cs[i]) \cap Buffer(cs[i]) = {}
  BY DEF OneOwner
<1>6. \A i, j \in 1 .. n : i # j => CellsOf(t[i]) \cap CellsOf(t[j]) = {}
  <2>1. \A i, j \in 1 .. n : i # j /\ i # o /\ j # o => CellsOf(t[i]) \cap CellsOf(t[j]) = {}
    BY <1>1, <1>4
  <2>2. \A j \in 1 .. n : j # o => CellsOf(t[o]) \cap CellsOf(t[j]) = {}
    BY <1>1, <1>2, <1>3, <1>4, <1>5
  <2> QED
    BY <2>1, <2>2
<1>7. \A i \in 1 .. n : Data(t[i]) \cap Buffer(t[i]) = {} /\ CellsOf(t[i]) \cap d = {}
  <2>1. \A i \in 1 .. n : Buffer(cs[i]) \subseteq CellsOf(cs[i])
    BY DEF CellsOf
  <2>2. Data(t[o]) \cap Buffer(t[o]) = {}
    BY <1>3, <1>5, <2>1
  <2>3. CellsOf(t[o]) \cap d = {}
    BY <1>2, <1>3, <1>5
  <2> QED
    BY <1>1, <1>5, <2>2, <2>3
<1>8. ASSUME NEW c
      PROVE  c \in cells \cup k <=> c \in d \/ \E i \in 1 .. n : c \in CellsOf(t[i])
  <2>1. (\E i \in 1 .. n : c \in CellsOf(t[i])) <=> c \in k \cup m \/ \E i \in 1 .. n : c \in CellsOf(cs[i])
    BY <1>1, <1>2
  <2>2. c \in cells <=> c \in m \cup d \/ \E i \in 1 .. n : c \in CellsOf(cs[i])
    BY DEF OneOwner
  <2> QED
    BY <2>1, <2>2
<1> QED
  BY <1>6, <1>7, <1>8 DEF OneOwner

\* What was under construction is given back.
LEMMA OwnForget ==
    ASSUME NEW cs, NEW m, NEW d, NEW cells, OneOwner(cs, m, d, cells)
    PROVE  OneOwner(cs, {}, d, cells \ m)
<1>1. \A i \in 1 .. Len(cs) : CellsOf(cs[i]) \cap m = {} /\ m \cap d = {}
  BY DEF OneOwner
<1>2. \A c : c \in cells \ m <=> c \in d \/ \E i \in 1 .. Len(cs) : c \in CellsOf(cs[i])
  BY <1>1 DEF OneOwner
<1> QED
  BY <1>2 DEF OneOwner

\* An activation goes on with what it allocated and without what it freed.
LEMMA OwnTop ==
    ASSUME NEW cs, cs \in Seq(ToSet(cs)), cs # <<>>,
           NEW m, NEW d, NEW cells, OneOwner(cs, m, d, cells),
           NEW f, Data(f) \cap Buffer(f) = {}, CellsOf(f) \cap (cells \ CellsOf(Last(cs))) = {}
    PROVE  OneOwner(Append(Front(cs), f), m, d, (cells \ CellsOf(Last(cs))) \cup CellsOf(f))
BY OwnPop, Pop, OwnPush

-----------------------------------------------------------------------------
(* The inductive invariant.  A body that was returned has not been taken yet, *)
(* and only the maker of a block can have asked for it; a label buffer is     *)
(* there only while decode_blocks runs or has just returned.                  *)

Scalars ==
    /\ input \in Inputs
    /\ ret \in {"none", "ok", "failed"} /\ IsBody(made) /\ err \in BOOLEAN
    /\ next \in Nat \ {0} /\ live \subseteq 1 .. next - 1
    /\ faults \in 0 .. MaxFaults
    /\ doc \in {"none", "made", "null"}

DocCells(dc, n) == IF dc = "made" THEN {n - 1} ELSE {}

Quiet(cs, r, m, dc) ==
    /\ m # {} => r = "ok" /\ (cs # <<>> => Last(cs).fn = "block")
    /\ dc # "none" => cs = <<>>
    /\ \A i \in 1 .. Len(cs) : cs[i].fn = "body" /\ cs[i].buffer # 0 => i < Len(cs) \/ r # "none"

IInv ==
    /\ Scalars
    /\ Shape(calls)
    /\ OneOwner(calls, made.held, DocCells(doc, next), live)
    /\ Quiet(calls, ret, made.held, doc)

LEMMA TypeOfInv == IInv => TypeOK
BY DEF IInv, Scalars, Shape, TypeOK

\* What the last activation owns.
LEMMA TopCells ==
    ASSUME IInv, calls # <<>>
    PROVE  /\ Top = Last(calls) /\ doc = "none" /\ CellsOf(Top) \subseteq live /\ 0 \notin live
           /\ CellsOf(Top) \cap made.held = {} /\ made.held \subseteq live
           /\ Data(Top) \cap Buffer(Top) = {}
           /\ made.held # {} => ret = "ok" /\ Top.fn = "block"
           /\ Top.fn = "body" => BodyOK(Top) /\ CellsOf(Top) = Top.b.held \cup ({Top.buffer} \ {0})
           /\ Top.fn = "body" /\ ret = "none" => Top.buffer = 0 /\ CellsOf(Top) = Top.b.held
           /\ Top.fn = "blocks" => BlocksOK(Top) /\ CellsOf(Top) = {}
           /\ Top.fn = "block" => /\ BlockOK(Top) /\ CellsOf(Top) = {Top.block.cell}
                                  /\ Buffer(Top) = {}
           /\ Len(calls) \in Nat /\ Len(calls) >= 1 /\ calls \in Seq(ToSet(calls))
<1>1. Shape(calls) /\ Quiet(calls, ret, made.held, doc) /\ Scalars
      /\ OneOwner(calls, made.held, DocCells(doc, next), live)
  BY DEF IInv
<1>2. /\ Top = Last(calls) /\ Len(calls) \in Nat /\ Len(calls) >= 1 /\ calls \in Seq(ToSet(calls))
      /\ Len(calls) \in 1 .. Len(calls)
  BY <1>1, StackFacts DEF Top, Last
<1>3. CellsOf(Top) \subseteq live /\ CellsOf(Top) \cap made.held = {} /\ Data(Top) \cap Buffer(Top) = {}
  BY <1>1, <1>2, OwnPop
<1>4. made.held \subseteq live
  BY <1>1 DEF OneOwner
<1>5. 0 \notin live
  BY <1>1 DEF Scalars
<1>6. /\ Top.fn = "body" => BodyOK(Top)
      /\ Top.fn = "blocks" => BlocksOK(Top)
      /\ Top.fn = "block" => BlockOK(Top)
  BY <1>1, <1>2, LastIs
<1>7. Top.fn = "body" => CellsOf(Top) = Top.b.held \cup ({Top.buffer} \ {0})
  BY DEF CellsOf, Data, Buffer
<1>8. Top.fn = "blocks" => CellsOf(Top) = {}
  BY DEF CellsOf, Data, Buffer
<1>9. Top.fn = "block" => CellsOf(Top) = {Top.block.cell} /\ Buffer(Top) = {}
  <2>1. ASSUME Top.fn = "block"
        PROVE  Top.block.body.held = {} /\ Data(Top) = BlockCells(Top.block) /\ Buffer(Top) = {}
    <3>1. Top.block.body = NoBody
      BY <1>6, <2>1 DEF BlockOK
    <3> QED
      BY <2>1, <3>1 DEF NoBody, Data, Buffer
  <2> QED
    BY <2>1 DEF CellsOf, BlockCells
<1>10. Top.fn = "body" /\ ret = "none" => Top.buffer = 0
  BY <1>1, <1>2 DEF Quiet, Last
<1>11. doc = "none" /\ (made.held # {} => ret = "ok" /\ Top.fn = "block")
  BY <1>1, <1>2 DEF Quiet
<1> QED
  BY <1>2, <1>3, <1>4, <1>5, <1>6, <1>7, <1>8, <1>9, <1>10, <1>11

\* A function returns and frees what it owns.
LEMMA Ends ==
    ASSUME IInv, calls # <<>>, made.held = {}, calls' = Front(calls), ret' \in {"ok", "failed"},
           UNCHANGED <<input, made, next, doc>>, live' = live \ CellsOf(Top),
           faults' \in 0 .. MaxFaults, err' \in BOOLEAN
    PROVE  IInv'
<1>1. /\ Shape(calls) /\ OneOwner(calls, made.held, DocCells(doc, next), live) /\ Scalars
      /\ Top = Last(calls) /\ doc = "none" /\ calls \in Seq(ToSet(calls))
  BY TopCells DEF IInv
<1>2. Shape(Front(calls))
  BY <1>1, ShapePop
<1>3. OneOwner(Front(calls), made.held, DocCells(doc, next), live \ CellsOf(Top))
  BY <1>1, OwnPop
<1>4. Scalars'
  BY <1>1 DEF Scalars
<1>5. Quiet(calls', ret', made.held, doc')
  BY <1>1 DEF Quiet
<1> QED
  BY <1>2, <1>3, <1>4, <1>5 DEF IInv

\* A function goes on, having allocated or freed something.
LEMMA GoesOn ==
    ASSUME IInv, calls # <<>>, made.held = {}, NEW f, FrameOK(f), f.fn = Top.fn,
           f.fn = "blocks" => f.filled = Top.filled /\ f.spec = Top.spec,
           f.fn = "body" => f.buffer = 0,
           calls' = Append(Front(calls), f), ret' = "none", UNCHANGED <<input, made, err, doc>>,
           Data(f) \cap Buffer(f) = {}, CellsOf(f) \cap (live \ CellsOf(Top)) = {},
           live' = (live \ CellsOf(Top)) \cup CellsOf(f),
           next' \in Nat \ {0}, live' \subseteq 1 .. next' - 1, faults' = faults
    PROVE  IInv'
<1>1. /\ Shape(calls) /\ OneOwner(calls, made.held, DocCells(doc, next), live) /\ Scalars
      /\ Top = Last(calls) /\ doc = "none" /\ calls \in Seq(ToSet(calls))
      /\ Quiet(calls, ret, made.held, doc) /\ Len(calls) \in Nat /\ Len(calls) >= 1
  BY TopCells DEF IInv
<1>2. /\ Shape(calls') /\ Len(calls') = Len(calls) /\ Last(calls') = f
  BY <1>1, ShapeTop
<1>3. OneOwner(calls', made.held, DocCells(doc, next), live')
  BY <1>1, OwnTop
<1>4. DocCells(doc', next') = DocCells(doc, next)
  BY <1>1 DEF DocCells
<1>5. Scalars'
  BY <1>1 DEF Scalars
<1>6. Quiet(calls', ret', made.held, doc')
  <2>1. calls'[Len(calls')].fn = "body" => calls'[Len(calls')].buffer = 0
    BY <1>2 DEF Last
  <2>2. \A i \in 1 .. Len(calls') : i < Len(calls') \/ i = Len(calls')
    BY <1>1, <1>2
  <2> QED
    BY <1>1, <2>1, <2>2 DEF Quiet
<1> QED
  BY <1>2, <1>3, <1>4, <1>5, <1>6 DEF IInv

-----------------------------------------------------------------------------
(* The steps. *)

LEMMA Errors ==
    ASSUME IInv, UNCHANGED <<input, doc>>,
           \/ BodyNotAnObject \/ AttrMissing \/ SpecFails \/ PropertyUnknown \/ BodyLost
           \/ LabelFails \/ BlocksDone \/ BlockLost \/ WrongShape
    PROVE  IInv'
<1> DEFINE Leaves(freed) ==
               /\ calls # <<>> /\ ret # "ok" /\ live \ freed = live \ CellsOf(Top)
               /\ calls' = Front(calls) /\ ret' \in {"ok", "failed"}
               /\ UNCHANGED <<made, next>> /\ live' = live \ freed
               /\ faults' \in 0 .. MaxFaults /\ err' \in BOOLEAN
<1>1. faults \in 0 .. MaxFaults /\ err \in BOOLEAN
  BY DEF IInv, Scalars
<1>2. faults < MaxFaults => faults + 1 \in 0 .. MaxFaults
  BY <1>1, MaxFaultsAssumption
<1>3. \E freed : Leaves(freed)
  <2>1. CASE BodyNotAnObject
    <3>1. calls # <<>> /\ Top.fn = "body" /\ ret = "none" /\ Top.at = "enter"
      BY <2>1 DEF BodyNotAnObject, AtBody, Running, In
    <3>2. CellsOf(Top) = {}
      BY <3>1, TopCells DEF BodyOK, NoBody
    <3>3. Leaves({})
      BY <1>1, <2>1, <3>1, <3>2 DEF BodyNotAnObject, Refuse, Return, Free, Below
    <3> QED
      BY <3>3
  <2>2. CASE AttrMissing \/ PropertyUnknown
    <3>1. calls # <<>> /\ Top.fn = "body" /\ ret = "none"
      BY <2>2 DEF AttrMissing, PropertyUnknown, AtAttr, AtEnd, AtBody, Running, In
    <3>2. CellsOf(Top) = Top.b.held
      BY <3>1, TopCells
    <3>3. Leaves(Top.b.held)
      BY <1>1, <2>2, <3>1, <3>2 DEF AttrMissing, PropertyUnknown, Refuse, Return, Free, Below
    <3> QED
      BY <3>3
  <2>3. CASE SpecFails
    <3>1. calls # <<>> /\ Top.fn = "body" /\ ret = "failed"
      BY <2>3 DEF SpecFails, In
    <3>2. CellsOf(Top) = Top.b.held \cup ({Top.buffer} \ {0}) /\ 0 \notin live
      BY <3>1, TopCells
    <3>3. live \ ({Top.buffer} \cup Top.b.held) = live \ CellsOf(Top)
      BY <3>2
    <3>4. Leaves({Top.buffer} \cup Top.b.held)
      BY <1>1, <2>3, <3>1, <3>3 DEF SpecFails, Return, Free, Below
    <3> QED
      BY <3>4
  <2>4. CASE BodyLost
    <3>1. calls # <<>> /\ Top.fn = "body" /\ ret = "none"
      BY <2>4 DEF BodyLost, NeedsMemory, AtAttr, AtSpec, AtBody, Running, In
    <3>2. CellsOf(Top) = Top.b.held
      BY <3>1, TopCells
    <3>3. Leaves(Top.b.held)
      BY <1>1, <1>2, <2>4, <3>1, <3>2 DEF BodyLost, Lose, Return, Below
    <3> QED
      BY <3>3
  <2>5. CASE LabelFails
    <3>1. calls # <<>> /\ Top.fn = "blocks" /\ ret = "failed"
      BY <2>5 DEF LabelFails, In
    <3>2. CellsOf(Top) = {}
      BY <3>1, TopCells
    <3>3. Leaves({})
      BY <1>1, <2>5, <3>1, <3>2 DEF LabelFails, NoAlloc, Return, Free, Below
    <3> QED
      BY <3>3
  <2>6. CASE BlocksDone \/ WrongShape
    <3>1. calls # <<>> /\ Top.fn = "blocks" /\ ret = "none"
      BY <2>6 DEF BlocksDone, WrongShape, AtLabel, AtLeaf, Running, In
    <3>2. CellsOf(Top) = {}
      BY <3>1, TopCells
    <3>3. Leaves({})
      BY <1>1, <2>6, <3>1, <3>2 DEF BlocksDone, WrongShape, Refuse, NoAlloc, Return, Free, Below
    <3> QED
      BY <3>3
  <2>7. CASE BlockLost
    <3>1. calls # <<>> /\ Top.fn = "blocks" /\ ret = "none"
      BY <2>7 DEF BlockLost, AtBlock, AtLeaf, Running, In
    <3>2. CellsOf(Top) = {}
      BY <3>1, TopCells
    <3>3. Leaves({})
      BY <1>1, <1>2, <2>7, <3>1, <3>2 DEF BlockLost, Lose, Return, Below
    <3> QED
      BY <3>3
  <2> QED
    BY <2>1, <2>2, <2>3, <2>4, <2>5, <2>6, <2>7
<1>4. made.held = {} /\ calls # <<>>
  <2>1. calls # <<>> /\ ret # "ok"
    BY <1>3
  <2> QED
    BY <2>1, TopCells
<1> QED
  BY <1>3, <1>4, Ends

LEMMA FreshCells ==
    ASSUME IInv
    PROVE  /\ next \in Nat /\ next \notin live /\ next + 1 \notin live /\ next >= 1
           /\ live \subseteq 1 .. next - 1 /\ live \subseteq 1 .. next /\ live \subseteq 1 .. next + 1
BY DEF IInv, Scalars

LEMMA Moved ==
    ASSUME NEW c, BodyOK(c), NEW f,
           \/ f = [c EXCEPT !.i = @ + 1, !.labels = <<>>, !.buffer = 0]
           \/ f = [c EXCEPT !.i = @ + 1] /\ c.buffer = 0
           \/ f = [c EXCEPT !.at = "blocks", !.i = 1] /\ c.buffer = 0
    PROVE  BodyOK(f) /\ f.fn = "body" /\ f.b = c.b /\ f.buffer = 0
<1>1. /\ f.fn = "body" /\ f.at \in {c.at, "blocks"} /\ f.schema = c.schema /\ f.b = c.b
      /\ f.i \in Nat \ {0} /\ f.buffer = 0 /\ DOMAIN f = DOMAIN c
  <2>1. CASE f = [c EXCEPT !.i = @ + 1, !.labels = <<>>, !.buffer = 0]
    BY <2>1 DEF BodyOK
  <2>2. CASE f = [c EXCEPT !.i = @ + 1] /\ c.buffer = 0
    BY <2>2 DEF BodyOK
  <2>3. CASE f = [c EXCEPT !.at = "blocks", !.i = 1] /\ c.buffer = 0
    BY <2>3 DEF BodyOK
  <2> QED
    BY <2>1, <2>2, <2>3
<1> QED
  BY <1>1 DEF BodyOK

\* A function goes on with another place in its loop.
LEMMA Counts ==
    ASSUME IInv, UNCHANGED <<input, doc>>,
           AttrAbsent \/ AttrsDone \/ SpecAbsent \/ SpecDone \/ LabelDone
    PROVE  IInv'
<1>1. calls # <<>>
  BY DEF AttrAbsent, AttrsDone, SpecAbsent, SpecDone, LabelDone, AtAttr, AtSpec, AtBody, Running, In
<1>2. /\ calls \in Seq(ToSet(calls)) /\ 0 \notin live /\ CellsOf(Top) \subseteq live
      /\ Top.fn = "body" => BodyOK(Top) /\ CellsOf(Top) = Top.b.held \cup ({Top.buffer} \ {0})
      /\ Top.fn = "body" /\ ret = "none" => Top.buffer = 0
      /\ Top.fn = "blocks" => BlocksOK(Top) /\ CellsOf(Top) = {}
      /\ made.held # {} => ret = "ok" /\ Top.fn = "block"
  BY <1>1, TopCells
<1>3. Front(calls) \in Seq(ToSet(Front(calls)))
  BY <1>1, <1>2, Pop
<1>4. next \in Nat \ {0} /\ live \subseteq 1 .. next - 1
  BY DEF IInv, Scalars
<1>5. CASE SpecDone
  <2> DEFINE f == [Top EXCEPT !.i = @ + 1, !.labels = <<>>, !.buffer = 0]
  <2>1. Top.fn = "body" /\ ret = "ok"
    BY <1>5 DEF SpecDone, In
  <2>2. BodyOK(Top)
    BY <1>2, <2>1
  <2>3. BodyOK(f) /\ f.fn = "body" /\ f.b = Top.b /\ f.buffer = 0
    BY <2>2, Moved
  <2>4. calls' = Append(Front(calls), f) /\ ret' = "none" /\ UNCHANGED <<made, err, next, faults>>
        /\ live' = live \ {Top.buffer}
    BY <1>3, <1>5, Joins DEF SpecDone, Go, Free, Below
  <2> HIDE DEF f
  <2>5. CellsOf(f) = Top.b.held /\ Buffer(f) = {}
    BY <2>3 DEF CellsOf, Data, Buffer
  <2>6. Top.b.held \subseteq live /\ CellsOf(Top) = Top.b.held \cup ({Top.buffer} \ {0})
    BY <1>2, <2>1
  <2>7. Top.b.held \cap ({Top.buffer} \ {0}) = {}
    BY <1>1, <2>1, TopCells DEF Data, Buffer
  <2>8. live' = (live \ CellsOf(Top)) \cup CellsOf(f)
    BY <1>2, <2>4, <2>5, <2>6, <2>7
  <2>9. CellsOf(f) \cap (live \ CellsOf(Top)) = {}
    BY <2>5, <2>6
  <2>10. live' \subseteq 1 .. next' - 1
    BY <1>4, <2>4
  <2>11. FrameOK(f) /\ made.held = {}
    BY <1>2, <2>1, <2>3 DEF FrameOK
  <2> QED
    BY <1>1, <1>4, <2>1, <2>3, <2>4, <2>5, <2>8, <2>9, <2>10, <2>11, GoesOn
<1>6. CASE ~SpecDone
  <2> DEFINE f == IF AttrsDone THEN [Top EXCEPT !.at = "blocks", !.i = 1]
                  ELSE [Top EXCEPT !.i = @ + 1]
  <2>1. /\ (Top.fn = "body" /\ ret = "none" /\ Top.at # "enter") \/ (Top.fn = "blocks" /\ ret = "ok")
        /\ AttrsDone => Top.fn = "body"
        /\ made.held = {}
    BY <1>2, <1>6 DEF AttrAbsent, AttrsDone, SpecAbsent, LabelDone, AtAttr, AtSpec, AtBody, Running, In
  <2>2. calls' = Append(Front(calls), f) /\ ret' = "none" /\ UNCHANGED <<made, err, next, faults>>
        /\ live' = live
    <3>1. calls' = Front(calls) \o <<f>> /\ ret' = "none" /\ UNCHANGED <<made, err, next, faults>>
          /\ live' = live \ {}
      BY <1>6, <2>1 DEF AttrAbsent, AttrsDone, SpecAbsent, LabelDone, Go, NoAlloc, Free, Below,
                   AtAttr, AtSpec, AtBody
    <3> QED
      BY <1>3, <3>1, Joins
  <2>3. CASE Top.fn = "body"
    <3>1. BodyOK(Top) /\ Top.at # "enter" /\ Top.buffer = 0 /\ CellsOf(Top) = Top.b.held
      BY <1>2, <2>1, <2>3
    <3>2. BodyOK(f) /\ f.fn = "body" /\ f.b = Top.b /\ f.buffer = 0
      BY <3>1, Moved
    <3> HIDE DEF f
    <3>3. CellsOf(f) = CellsOf(Top) /\ Buffer(f) = {}
      BY <3>1, <3>2 DEF CellsOf, Data, Buffer
    <3>4. FrameOK(f)
      BY <3>2 DEF FrameOK
    <3> QED
      BY <1>1, <1>2, <1>4, <2>1, <2>2, <2>3, <3>2, <3>3, <3>4, GoesOn
  <2>4. CASE Top.fn = "blocks"
    <3>1. BlocksOK(Top) /\ ~AttrsDone
      BY <1>2, <2>1, <2>4
    <3>2. BlocksOK(f) /\ f.fn = "blocks" /\ f.filled = Top.filled /\ f.spec = Top.spec
      BY <3>1 DEF BlocksOK
    <3> HIDE DEF f
    <3>3. CellsOf(f) = {} /\ CellsOf(Top) = {} /\ Buffer(f) = {}
      BY <1>2, <2>4, <3>2 DEF CellsOf, Data, Buffer
    <3>4. FrameOK(f)
      BY <3>2 DEF FrameOK
    <3> QED
      BY <1>1, <1>4, <2>1, <2>2, <2>4, <3>2, <3>3, <3>4, GoesOn
  <2> QED
    BY <2>1, <2>3, <2>4
<1> QED
  BY <1>5, <1>6


\* A body grows by what was allocated for it.
LEMMA Builds ==
    ASSUME IInv, UNCHANGED <<input, doc>>, BodyBegins \/ AttrAdded
    PROVE  IInv'
<1>1. calls # <<>> /\ Top.fn = "body" /\ ret = "none"
  BY DEF BodyBegins, AttrAdded, AtAttr, AtBody, Running, In
<1>2. /\ calls \in Seq(ToSet(calls)) /\ BodyOK(Top) /\ Top.buffer = 0 /\ made.held = {}
      /\ CellsOf(Top) = Top.b.held /\ Top.b.held \subseteq live
  BY <1>1, TopCells
<1>3. Front(calls) \in Seq(ToSet(Front(calls)))
  BY <1>1, <1>2, Pop
<1>4. next \in Nat \ {0} /\ live \subseteq 1 .. next - 1 /\ next \notin live /\ next + 1 \notin live
  BY FreshCells
<1>5. \E f, new :
         /\ BodyOK(f) /\ f.fn = "body" /\ f.buffer = 0 /\ f.b.held = Top.b.held \cup new
         /\ calls' = Append(Front(calls), f) /\ ret' = "none" /\ UNCHANGED <<made, err, faults>>
         /\ new \cap live = {} /\ live' = live \cup new
         /\ next' \in Nat \ {0} /\ live' \subseteq 1 .. next' - 1
  <2>1. CASE BodyBegins
    <3> DEFINE b == NewBody(next)
               f == [Top EXCEPT !.at = "attrs", !.b = b]
    <3>1. Top.at = "enter" /\ Top.b.held = {}
      BY <1>2, <2>1 DEF BodyBegins, AtBody, BodyOK, NoBody
    <3>2. IsBody(b) /\ b.held = {next}
      BY DEF NewBody, NoBody, IsBody
    <3>3. live' = live \cup next .. next + 1 - 1 /\ next' = next + 1 /\ UNCHANGED faults
          /\ calls' = Front(calls) \o <<f>> /\ ret' = "none" /\ UNCHANGED <<made, err>>
      BY <2>1 DEF BodyBegins, Alloc, Go, Below
    <3>4. next .. next + 1 - 1 = {next}
      BY <1>4
    <3> HIDE DEF b
    <3>8. f = [Top EXCEPT !.at = "attrs", !.b = b]
      OBVIOUS
    <3> HIDE DEF f
    <3>5. BodyOK(f) /\ f.fn = "body" /\ f.buffer = 0 /\ f.b = b
      BY <1>2, <3>2, <3>8 DEF BodyOK
    <3>6. calls' = Append(Front(calls), f)
      BY <1>3, <3>3, Joins
    <3>7. live' = live \cup {next} /\ {next} \cap live = {} /\ next' \in Nat \ {0} /\ live' \subseteq 1 .. next' - 1
      BY <1>4, <3>3, <3>4
    <3> QED
      BY <3>1, <3>2, <3>3, <3>5, <3>6, <3>7
  <2>2. CASE AttrAdded
    <3> DEFINE attr == [cell |-> next, expr |-> next + 1, name |-> Attr.name,
                        node |-> JNode[Get(Top.obj, Attr.name)]]
               b == WithAttr(Top.b, attr)
               f == [Top EXCEPT !.i = @ + 1, !.b = b]
    <3>1. Top.at # "enter"
      BY <2>2 DEF AttrAdded, AtAttr, AtBody
    <3>2. IsBody(b) /\ b.held = Top.b.held \cup {next, next + 1}
      <4>1. attr.cell = next /\ attr.expr = next + 1
        OBVIOUS
      <4> HIDE DEF attr
      <4>2. IsBody(Top.b)
        BY <1>2 DEF BodyOK
      <4> QED
        BY <4>1, <4>2 DEF WithAttr, IsBody
    <3>3. live' = live \cup next .. next + 2 - 1 /\ next' = next + 2 /\ UNCHANGED faults
          /\ calls' = Front(calls) \o <<f>> /\ ret' = "none" /\ UNCHANGED <<made, err>>
      BY <2>2 DEF AttrAdded, Alloc, Go, Below
    <3>4. next .. next + 2 - 1 = {next, next + 1}
      BY <1>4
    <3> HIDE DEF b
    <3>8. f = [Top EXCEPT !.i = @ + 1, !.b = b]
      OBVIOUS
    <3> HIDE DEF f
    <3>5. BodyOK(f) /\ f.fn = "body" /\ f.buffer = 0 /\ f.b = b
      BY <1>2, <3>1, <3>2, <3>8 DEF BodyOK
    <3>6. calls' = Append(Front(calls), f)
      BY <1>3, <3>3, Joins
    <3>7. live' = live \cup {next, next + 1} /\ {next, next + 1} \cap live = {}
          /\ next' \in Nat \ {0} /\ live' \subseteq 1 .. next' - 1
      BY <1>4, <3>3, <3>4
    <3> QED
      BY <3>2, <3>3, <3>5, <3>6, <3>7
  <2> QED
    BY <2>1, <2>2
<1>6. PICK f, new :
         /\ BodyOK(f) /\ f.fn = "body" /\ f.buffer = 0 /\ f.b.held = Top.b.held \cup new
         /\ calls' = Append(Front(calls), f) /\ ret' = "none" /\ UNCHANGED <<made, err, faults>>
         /\ new \cap live = {} /\ live' = live \cup new
         /\ next' \in Nat \ {0} /\ live' \subseteq 1 .. next' - 1
  BY <1>5
<1>7. CellsOf(f) = Top.b.held \cup new /\ Buffer(f) = {} /\ FrameOK(f)
  BY <1>6 DEF CellsOf, Data, Buffer, FrameOK
<1>8. live' = (live \ CellsOf(Top)) \cup CellsOf(f)
  BY <1>2, <1>6, <1>7
<1>9. CellsOf(f) \cap (live \ CellsOf(Top)) = {}
  BY <1>2, <1>6, <1>7
<1> QED
  BY <1>1, <1>2, <1>6, <1>7, <1>8, <1>9, GoesOn

LEMMA Hands ==
    ASSUME IInv, UNCHANGED <<input, doc>>, BodyDone
    PROVE  IInv'
<1>1. calls # <<>> /\ Top.fn = "body" /\ ret = "none"
  BY DEF BodyDone, AtEnd, AtBody, Running, In
<1>2. /\ calls \in Seq(ToSet(calls)) /\ BodyOK(Top) /\ Top.buffer = 0 /\ made.held = {} /\ doc = "none"
      /\ Top = Last(calls)
  BY <1>1, TopCells
<1>3. /\ calls' = Front(calls) /\ ret' = "ok" /\ made' = Top.b /\ live' = live /\ UNCHANGED <<next, err, faults>>
  BY DEF BodyDone, Return, NoAlloc, Free, Below
<1>4. /\ Shape(calls) /\ Scalars /\ OneOwner(calls, made.held, DocCells(doc, next), live)
  BY DEF IInv
<1>5. Shape(calls') /\ (calls' # <<>> => Last(calls').fn = "block")
  <2>1. calls' # <<>> => Len(calls) > 1
    BY <1>1, <1>2, <1>3, Pop
  <2> QED
    BY <1>1, <1>2, <1>3, <1>4, <2>1, ShapePop, LastIs
<1>6. Data(Top) = Top.b.held /\ Buffer(Top) = {}
  BY <1>1, <1>2 DEF Data, Buffer
<1>7. OneOwner(calls', made'.held, DocCells(doc', next'), live')
  <2>1. OneOwner(Front(calls), Data(Top), DocCells(doc, next), live)
    <3> DEFINE d == DocCells(doc, next)
    <3> HIDE DEF d
    <3>1. OneOwner(calls, {}, d, live)
      BY <1>2, <1>4 DEF d
    <3>2. Buffer(Last(calls)) = {} /\ Data(Last(calls)) = Data(Top)
      BY <1>2, <1>6
    <3>3. OneOwner(Front(calls), Data(Last(calls)), d, live)
      BY <1>1, <1>2, <3>1, <3>2, OwnPop
    <3> QED
      BY <3>2, <3>3 DEF d
  <2>2. made'.held = Data(Top)
    BY <1>3, <1>6
  <2> QED
    BY <1>3, <2>1, <2>2
<1>8. Scalars'
  BY <1>2, <1>3, <1>4 DEF Scalars, BodyOK
<1>9. Quiet(calls', ret', made'.held, doc')
  BY <1>2, <1>3, <1>5 DEF Quiet
<1> QED
  BY <1>5, <1>7, <1>8, <1>9 DEF IInv

\* decode_body hands its body and a new label buffer to decode_blocks.
LEMMA Descends ==
    ASSUME IInv, UNCHANGED <<input, doc>>, SpecBegins
    PROVE  IInv'
<1> DEFINE n == BlockSpec.nlabels
           buffer == IF n > 0 THEN next ELSE 0
           f == [Top EXCEPT !.labels = [j \in 1 .. n |-> NoLabel], !.buffer = buffer]
           g == BlocksFrame(Get(Top.obj, BlockSpec.type), BlockSpec, 0)
           t == Append(Front(calls), f)
           d == DocCells(doc, next)
<1>1. calls # <<>> /\ Top.fn = "body" /\ ret = "none" /\ Top.at = "blocks" /\ Top.i <= Len(Top.schema.blocks)
  BY DEF SpecBegins, AtSpec, AtBody, Running, In
<1>2. /\ calls \in Seq(ToSet(calls)) /\ BodyOK(Top) /\ Top.buffer = 0 /\ made.held = {} /\ doc = "none"
      /\ CellsOf(Top) = Top.b.held /\ Top.b.held \subseteq live /\ Top = Last(calls) /\ 0 \notin live
      /\ Len(calls) \in Nat /\ Len(calls) >= 1
  BY <1>1, TopCells
<1>3. /\ Shape(calls) /\ Scalars /\ OneOwner(calls, made.held, d, live)
      /\ Quiet(calls, ret, made.held, doc)
  BY DEF IInv
<1>4. Front(calls) \in Seq(ToSet(Front(calls)))
  BY <1>1, <1>2, Pop
<1>5. next \in Nat \ {0} /\ live \subseteq 1 .. next - 1 /\ next \notin live
  BY FreshCells
<1>6. BlockSpec \in BlockTypes /\ n \in Nat
  <2>1. Top.schema \in Schemas /\ Top.i \in Nat \ {0}
    BY <1>2 DEF BodyOK
  <2>2. Top.schema.blocks \in Seq(BlockTypes)
    BY <2>1, SchemasAssumption
  <2>3. Top.schema.blocks[Top.i] \in BlockTypes
    BY <1>1, <2>1, <2>2
  <2> QED
    BY <2>3, SchemasAssumption DEF BlockSpec
<1>7. /\ calls' = Append(t, g) /\ ret' = "none" /\ UNCHANGED <<made, err, faults>>
      /\ live' = live \cup ({buffer} \ {0}) /\ next' \in Nat \ {0} /\ live' \subseteq 1 .. next' - 1
  <2> HIDE DEF f, g
  <2>1. calls' = Front(calls) \o <<f, g>> /\ ret' = "none" /\ UNCHANGED <<made, err>>
    BY DEF SpecBegins, Go, Below, f, g
  <2>2. calls' = Append(t, g)
    BY <1>4, <2>1, Joins
  <2>3. IF n > 0 THEN live' = live \cup {next} /\ next' = next + 1 /\ UNCHANGED faults
        ELSE live' = live /\ UNCHANGED <<next, faults>>
    <3>1. next .. next + 1 - 1 = {next}
      BY <1>5
    <3> QED
      BY <3>1 DEF SpecBegins, Alloc, NoAlloc, Free
  <2>4. live' = live \cup ({buffer} \ {0})
    BY <1>5, <2>3
  <2>5. next' \in Nat \ {0} /\ live' \subseteq 1 .. next' - 1
    <3> HIDE DEF n
    <3>1. CASE n > 0
      <4>1. live' = live \cup {next} /\ next' = next + 1
        BY <2>3, <3>1
      <4> QED
        BY <1>5, <4>1
    <3>2. CASE ~(n > 0)
      <4>1. live' = live /\ next' = next
        BY <2>3, <3>2
      <4> QED
        BY <1>5, <4>1
    <3> QED
      BY <3>1, <3>2
  <2> QED
    BY <2>1, <2>2, <2>3, <2>4, <2>5
<1>8. /\ f.fn = "body" /\ BodyOK(f) /\ f.b = Top.b /\ f.at = "blocks" /\ f.buffer = buffer /\ DOMAIN f.labels = 1 .. n
  <2> HIDE DEF n, buffer
  <2> QED
    BY <1>1, <1>2 DEF BodyOK
<1>9. g.fn = "blocks" /\ g.filled = 0 /\ g.spec = BlockSpec /\ BlocksOK(g)
  <2>1. g.fn = "blocks" /\ g.filled = 0 /\ g.spec = BlockSpec /\ g.i = 1
        /\ DOMAIN g = {"fn", "val", "spec", "filled", "i"}
    BY DEF BlocksFrame
  <2> HIDE DEF g
  <2> QED
    BY <1>6, <2>1 DEF BlocksOK
<1> HIDE DEF f, g, t, d, buffer
<1>10. /\ CellsOf(f) = Top.b.held \cup ({buffer} \ {0}) /\ Data(f) \cap Buffer(f) = {}
       /\ CellsOf(g) = {} /\ Data(g) \cap Buffer(g) = {}
  <2>1. Data(f) = Top.b.held /\ Buffer(f) = {buffer} \ {0} /\ Data(g) = {} /\ Buffer(g) = {}
    BY <1>8, <1>9 DEF Data, Buffer
  <2>2. buffer \notin live
    BY <1>2, <1>5 DEF buffer
  <2> QED
    BY <1>2, <2>1, <2>2 DEF CellsOf
<1>11. Shape(t) /\ t # <<>> /\ Len(t) = Len(calls) /\ Last(t) = f
  BY <1>1, <1>2, <1>3, <1>8, ShapeTop DEF FrameOK, t
<1>12. Shape(calls') /\ t \in Seq(ToSet(t))
  <2>1. Calls(Last(t), g)
    BY <1>8, <1>9, <1>11 DEF Calls
  <2>2. Shape(Append(t, g))
    BY <1>9, <1>11, <2>1, ShapePush DEF FrameOK
  <2> QED
    BY <1>7, <1>11, <2>2, StackFacts
<1>13. OneOwner(calls', made.held, d, live')
  <2> DEFINE cells == (live \ CellsOf(Last(calls))) \cup CellsOf(f)
  <2>1. CellsOf(f) \cap (live \ CellsOf(Last(calls))) = {}
    BY <1>2, <1>5, <1>10 DEF buffer
  <2>2. OneOwner(t, made.held, d, cells)
    <3> HIDE DEF cells
    <3>1. OneOwner(Append(Front(calls), f), made.held, d, cells)
      BY <1>1, <1>2, <1>3, <1>10, <2>1, OwnTop DEF cells
    <3> QED
      BY <3>1 DEF t
  <2>3. cells = live'
    BY <1>2, <1>7, <1>10
  <2> HIDE DEF cells
  <2>4. OneOwner(Append(t, g), made.held, d, cells \cup CellsOf(g))
    BY <1>10, <1>12, <2>2, OwnPush
  <2> QED
    BY <1>7, <1>10, <2>3, <2>4
<1>14. Scalars'
  BY <1>3, <1>7 DEF Scalars
<1>15. Quiet(calls', ret', made.held, doc')
  <2>1. /\ Len(calls') = Len(t) + 1 /\ Len(t) \in Nat /\ calls'[Len(t) + 1] = g
    BY <1>7, <1>12, Push
  <2>2. \A i \in 1 .. Len(calls') : i < Len(calls') \/ calls'[i] = g
    BY <2>1
  <2> QED
    BY <1>2, <1>9, <2>2 DEF Quiet
<1>16. DocCells(doc', next') = d
  BY <1>2 DEF DocCells, d
<1> QED
  BY <1>7, <1>12, <1>13, <1>14, <1>15, <1>16 DEF IInv

\* decode_blocks writes a key into the buffer and calls itself for its value.
LEMMA Labels ==
    ASSUME IInv, UNCHANGED <<input, doc>>, LabelBegins
    PROVE  IInv'
<1> DEFINE field == Top.val.fields[Top.i]
           o == OwnerOf(calls, Len(calls))
           t == [calls EXCEPT ![o].labels[Top.filled + 1] = field.key]
           g == BlocksFrame(field.val, Top.spec, Top.filled + 1)
           d == DocCells(doc, next)
<1>1. calls # <<>> /\ Top.fn = "blocks" /\ ret = "none" /\ Top.filled < Top.spec.nlabels
  BY DEF LabelBegins, AtLabel, Running, In
<1>2. /\ calls \in Seq(ToSet(calls)) /\ BlocksOK(Top) /\ made.held = {} /\ doc = "none"
      /\ Top = Last(calls) /\ Len(calls) \in Nat /\ Len(calls) >= 1
  BY <1>1, TopCells
<1>3. /\ Shape(calls) /\ Scalars /\ OneOwner(calls, made.held, d, live)
      /\ Quiet(calls, ret, made.held, doc)
  BY DEF IInv
<1>4. OutAt = o
  <2>1. DOMAIN calls = 1 .. Len(calls) /\ Len(calls) \in 1 .. Len(calls) /\ calls[Len(calls)] = Top
    BY <1>2, ElementType DEF Last
  <2>2. Max({j \in 1 .. Len(calls) : calls[j].fn = "body"}) = o
    BY <1>1, <1>3, <2>1, OutAtIs
  <2> QED
    BY <2>1, <2>2 DEF OutAt
<1>5. calls' = Append(t, g) /\ live' = live \ {} /\ UNCHANGED <<ret, made, err, next, faults>>
  BY <1>4 DEF LabelBegins, NoAlloc, Free
<1>6. g.fn = "blocks" /\ g.filled = Top.filled + 1 /\ g.spec = Top.spec /\ BlocksOK(g)
  <2>1. g.fn = "blocks" /\ g.filled = Top.filled + 1 /\ g.spec = Top.spec /\ g.i = 1
        /\ DOMAIN g = {"fn", "val", "spec", "filled", "i"}
    BY DEF BlocksFrame
  <2> HIDE DEF g
  <2> QED
    BY <1>1, <1>2, <2>1, SchemasAssumption DEF BlocksOK
<1>7. /\ Shape(t) /\ Len(t) = Len(calls) /\ t # <<>>
      /\ o \in 1 .. Len(calls) - 1 /\ \A i \in 1 .. Len(calls) : i # o => t[i] = calls[i]
      /\ calls[o].fn = "body" /\ t[o].fn = "body"
      /\ t[o].b = calls[o].b /\ t[o].buffer = calls[o].buffer
      /\ t[o].labels[Top.filled + 1] = field.key
  <2> DEFINE key == field.key
  <2> HIDE DEF key
  <2>1. t = Labelled(calls, key)
    BY <1>2 DEF key, Labelled
  <2> HIDE DEF t
  <2>2. Last(calls).fn = "blocks" /\ Last(calls).filled < Last(calls).spec.nlabels
    BY <1>1, <1>2
  <2>3. LET w == OwnerOf(calls, Len(calls)) IN
        /\ Shape(t) /\ Len(t) = Len(calls) /\ t # <<>>
        /\ w \in 1 .. Len(calls) - 1 /\ \A i \in 1 .. Len(calls) : i # w => t[i] = calls[i]
        /\ calls[w].fn = "body" /\ t[w].fn = "body"
        /\ t[w].b = calls[w].b /\ t[w].buffer = calls[w].buffer
        /\ t[w].labels[Last(calls).filled + 1] = key
    BY <1>1, <1>3, <2>1, <2>2, ShapeLabel
  <2> QED
    BY <1>2, <2>3 DEF key
<1> HIDE DEF g, t, d
<1>8. Last(t) = Top /\ o # Len(calls) /\ o \in 1 .. Len(calls) /\ OwnerOf(t, Len(t)) = o
  <2>1. t[Len(t)] = Top /\ o # Len(calls) /\ o \in 1 .. Len(calls)
    BY <1>2, <1>7 DEF Last
  <2> QED
    BY <1>2, <1>7, <2>1 DEF Last, OwnerOf
<1>9. Shape(calls')
  <2>1. Calls(Last(t), g)
    BY <1>1, <1>6, <1>8 DEF Calls
  <2>2. t[OwnerOf(t, Len(t))].labels[g.filled] = Last(t).val.fields[Last(t).i].key
    BY <1>6, <1>7, <1>8
  <2> HIDE DEF o, field
  <2> QED
    BY <1>5, <1>6, <1>7, <2>1, <2>2, ShapePush DEF FrameOK
<1>10. OneOwner(calls', made.held, d, live')
  <2>1. \A i \in 1 .. Len(calls) : Data(t[i]) = Data(calls[i]) /\ Buffer(t[i]) = Buffer(calls[i])
    <3>1. Data(t[o]) = Data(calls[o]) /\ Buffer(t[o]) = Buffer(calls[o])
      BY <1>7 DEF Data, Buffer
    <3> HIDE DEF o
    <3> QED
      BY <1>7, <3>1
  <2>2. Data(t[o]) = Data(calls[o]) \cup {} \cup made.held
    BY <1>2, <1>8, <2>1
  <2>3. OneOwner(t, {}, d, live \cup {})
    <3> HIDE DEF o
    <3>1. Len(t) = Len(calls) /\ o \in 1 .. Len(calls) /\ {} \cap live = {}
          /\ Buffer(t[o]) = Buffer(calls[o])
      BY <1>7, <1>8, <2>1
    <3> QED
      BY <1>3, <2>1, <2>2, <3>1, OwnGrow
  <2>4. CellsOf(g) = {} /\ Data(g) \cap Buffer(g) = {}
    BY <1>6 DEF CellsOf, Data, Buffer
  <2>5. t \in Seq(ToSet(t))
    BY <1>7, StackFacts
  <2>6. OneOwner(Append(t, g), {}, d, (live \cup {}) \cup CellsOf(g))
    BY <2>3, <2>4, <2>5, OwnPush
  <2> QED
    BY <1>2, <1>5, <2>4, <2>6
<1>11. Scalars'
  BY <1>3, <1>5 DEF Scalars
<1>12. Quiet(calls', ret', made.held, doc')
  <2>1. /\ Len(calls') = Len(t) + 1 /\ Len(t) \in Nat /\ calls'[Len(t) + 1] = g
    BY <1>5, <1>7, StackFacts, Push
  <2>2. \A i \in 1 .. Len(calls') : i < Len(calls') \/ calls'[i] = g
    BY <2>1
  <2> QED
    BY <1>2, <1>6, <2>2 DEF Quiet
<1> QED
  BY <1>2, <1>5, <1>9, <1>10, <1>11, <1>12 DEF IInv, DocCells, d

\* make_block begins a block, and decode_body the body of it.
LEMMA Opens ==
    ASSUME IInv, UNCHANGED <<input, doc>>, BlockBegins
    PROVE  IInv'
<1> DEFINE labels == SubSeq(calls[OutAt].labels, 1, Top.filled)
           block == [cell |-> next, type |-> Top.spec.type, labels |-> labels, body |-> NoBody]
           f == BlockFrame(block)
           g == BodyFrame(Leaf, Top.spec.child)
           t == Append(calls, f)
           d == DocCells(doc, next)
<1>1. calls # <<>> /\ Top.fn = "blocks" /\ ret = "none" /\ Top.filled = Top.spec.nlabels
  BY DEF BlockBegins, AtBlock, AtLeaf, Running, In
<1>2. /\ calls \in Seq(ToSet(calls)) /\ BlocksOK(Top) /\ made.held = {} /\ doc = "none"
      /\ Top = Last(calls) /\ Len(calls) \in Nat /\ Len(calls) >= 1
  BY <1>1, TopCells
<1>3. /\ Shape(calls) /\ Scalars /\ OneOwner(calls, made.held, d, live)
      /\ Quiet(calls, ret, made.held, doc)
  BY DEF IInv
<1>4. next \in Nat \ {0} /\ live \subseteq 1 .. next - 1 /\ next \notin live
  BY FreshCells
<1>5. f.fn = "block" /\ f.block.cell = next /\ f.block.body = NoBody /\ BlockOK(f)
  <2>1. f.fn = "block" /\ f.block = block /\ DOMAIN f = {"fn", "block"}
    BY DEF BlockFrame
  <2>2. block.cell = next /\ block.body = NoBody /\ DOMAIN block = {"cell", "type", "labels", "body"}
    OBVIOUS
  <2> HIDE DEF f, block
  <2> QED
    BY <2>1, <2>2 DEF BlockOK
<1>6. g.fn = "body" /\ g.b = NoBody /\ g.buffer = 0 /\ BodyOK(g)
  <2>1. /\ g.fn = "body" /\ g.at = "enter" /\ g.schema = Top.spec.child /\ g.b = NoBody /\ g.i = 1
        /\ g.buffer = 0 /\ DOMAIN g = {"fn", "at", "obj", "schema", "b", "i", "labels", "buffer"}
    BY DEF BodyFrame
  <2>2. Top.spec.child \in Schemas
    BY <1>2, SchemasAssumption DEF BlocksOK
  <2>3. IsBody(NoBody)
    BY DEF NoBody, IsBody
  <2> HIDE DEF g
  <2> QED
    BY <2>1, <2>2, <2>3 DEF BodyOK
<1> HIDE DEF f, g
<1>7. /\ calls' = Append(t, g) /\ UNCHANGED <<ret, made, err, faults>>
      /\ next' = next + 1 /\ live' = live \cup {next}
  <2>1. calls' = calls \o <<f, g>> /\ UNCHANGED <<ret, made, err>> /\ Alloc(1)
    BY DEF BlockBegins, f, g
  <2>2. calls' = Append(t, g)
    BY <1>2, <2>1, Joins
  <2>3. next .. next + 1 - 1 = {next}
    BY <1>4
  <2> QED
    BY <2>1, <2>2, <2>3 DEF Alloc
<1> HIDE DEF d
<1>8. /\ CellsOf(f) = {next} /\ Data(f) \cap Buffer(f) = {}
      /\ CellsOf(g) = {} /\ Data(g) \cap Buffer(g) = {}
  <2>1. Data(f) = {next} /\ Buffer(f) = {}
    BY <1>5 DEF Data, Buffer, BlockCells, NoBody
  <2>2. Data(g) = {} /\ Buffer(g) = {}
    BY <1>6 DEF Data, Buffer, NoBody
  <2> QED
    BY <2>1, <2>2 DEF CellsOf
<1>9. Shape(t) /\ t \in Seq(ToSet(t)) /\ t # <<>> /\ Last(t) = f
  <2>1. Calls(Last(calls), f)
    BY <1>1, <1>2, <1>5 DEF Calls
  <2>2. Shape(t)
    BY <1>1, <1>3, <1>5, <2>1, ShapePush DEF FrameOK
  <2>3. t \in Seq(ToSet(t)) /\ t # <<>> /\ Last(t) = f
    BY <1>2, Push DEF Last
  <2> QED
    BY <2>2, <2>3
<1>10. Shape(calls')
  <2>1. Calls(Last(t), g)
    BY <1>5, <1>6, <1>9 DEF Calls
  <2> HIDE DEF t
  <2> QED
    BY <1>6, <1>7, <1>9, <2>1, ShapePush DEF FrameOK
<1>11. OneOwner(calls', made.held, d, live')
  <2>1. OneOwner(t, made.held, d, live \cup CellsOf(f))
    <3>1. CellsOf(f) \cap live = {}
      BY <1>4, <1>8
    <3> QED
      BY <1>2, <1>3, <1>8, <3>1, OwnPush
  <2> DEFINE cells == live \cup CellsOf(f)
  <2> HIDE DEF t, cells
  <2>2. OneOwner(t, made.held, d, cells) /\ CellsOf(g) \cap cells = {}
    BY <1>8, <2>1 DEF cells
  <2>3. OneOwner(Append(t, g), made.held, d, cells \cup CellsOf(g))
    BY <1>8, <1>9, <2>2, OwnPush
  <2>4. cells \cup CellsOf(g) = live'
    BY <1>7, <1>8 DEF cells
  <2> QED
    BY <1>7, <2>3, <2>4
<1>12. Scalars'
  <2>1. next' \in Nat \ {0} /\ live' \subseteq 1 .. next' - 1
    BY <1>4, <1>7
  <2> QED
    BY <1>3, <1>7, <2>1 DEF Scalars
<1>13. Quiet(calls', ret', made.held, doc')
  <2>1. /\ Len(calls') = Len(t) + 1 /\ Len(t) \in Nat /\ calls'[Len(t) + 1] = g
    BY <1>7, <1>9, Push
  <2>2. \A i \in 1 .. Len(calls') : i < Len(calls') \/ calls'[i] = g
    BY <2>1
  <2> QED
    BY <1>2, <1>6, <2>2 DEF Quiet
<1>14. DocCells(doc', next') = d
  BY <1>2 DEF DocCells, d
<1> QED
  BY <1>7, <1>10, <1>11, <1>12, <1>13, <1>14 DEF IInv

\* A block is not finished or cannot be added: it is freed with what was made of it.
LEMMA Drops ==
    ASSUME IInv, UNCHANGED <<input, doc>>, BlockFails \/ BlockNotAdded
    PROVE  IInv'
<1> DEFINE g == Front(calls)
           d == DocCells(doc, next)
<1>1. calls # <<>> /\ Top.fn = "block"
  BY DEF BlockFails, BlockNotAdded, In
<1>2. /\ calls \in Seq(ToSet(calls)) /\ BlockOK(Top) /\ doc = "none" /\ Top = Last(calls)
      /\ CellsOf(Top) = {Top.block.cell} /\ (made.held # {} => ret = "ok")
  BY <1>1, TopCells
<1>3. /\ Shape(calls) /\ Scalars /\ OneOwner(calls, made.held, d, live)
  BY DEF IInv
<1>4. /\ calls' = Front(g) /\ ret' = "failed" /\ made'.held = {} /\ IsBody(made') /\ UNCHANGED <<next, err>>
      /\ live' = (live \ CellsOf(Top)) \ made.held /\ faults' \in 0 .. MaxFaults
  <2>1. CASE BlockFails
    <3>1. made.held = {}
      BY <1>1, <1>2, <2>1 DEF BlockFails
    <3> QED
      BY <1>2, <1>3, <2>1, <3>1 DEF BlockFails, Free, Below, Scalars
  <2>2. CASE BlockNotAdded
    <3>1. BlockCells(Block) = {Top.block.cell} \cup made.held
      <4>1. Block.cell = Top.block.cell /\ Block.body = made
        BY <1>2 DEF Block, BlockOK
      <4> QED
        BY <4>1 DEF BlockCells
    <3>2. faults + 1 \in 0 .. MaxFaults
      BY <1>3, <2>2, MaxFaultsAssumption DEF BlockNotAdded, Lose, Scalars
    <3>3. made' = NoBody /\ IsBody(NoBody) /\ NoBody.held = {}
      BY <2>2 DEF BlockNotAdded, NoBody, IsBody
    <3>4. live' = live \ BlockCells(Block)
      BY <2>2 DEF BlockNotAdded, Lose
    <3> QED
      BY <1>2, <2>2, <3>1, <3>2, <3>3, <3>4 DEF BlockNotAdded, Lose, Below
  <2> QED
    BY <2>1, <2>2
<1>5. Shape(g) /\ g # <<>> /\ Last(g).fn = "blocks" /\ g \in Seq(ToSet(g))
  <2>1. Len(calls) > 2 /\ Last(g).fn = "blocks" /\ (Len(calls) > 1 => g # <<>>) /\ Shape(g)
    BY <1>1, <1>2, <1>3, LastIs, ShapePop
  <2>2. Len(calls) \in Nat
    BY <1>3, StackFacts
  <2> QED
    BY <2>1, <2>2, StackFacts
<1> HIDE DEF d
<1>6. OneOwner(g, made.held, d, live \ CellsOf(Top))
  BY <1>1, <1>2, <1>3, OwnPop
<1> DEFINE cells == live \ CellsOf(Top)
<1> HIDE DEF g
<1>7. OneOwner(Front(g), made.held, d, cells)
  <2> HIDE DEF cells
  <2>1. CellsOf(Last(g)) = {}
    BY <1>5 DEF CellsOf, Data, Buffer
  <2>2. OneOwner(g, made.held, d, cells)
    BY <1>6 DEF cells
  <2>3. OneOwner(Front(g), made.held, d, cells \ CellsOf(Last(g)))
    BY <1>5, <2>2, OwnPop
  <2>4. cells \ CellsOf(Last(g)) = cells
    BY <2>1
  <2> QED
    BY <2>3, <2>4
<1>8. OneOwner(Front(g), {}, d, cells \ made.held)
  <2> HIDE DEF cells
  <2> QED
    BY <1>7, OwnForget
<1>9. Shape(calls')
  BY <1>4, <1>5, ShapePop
<1>10. Scalars'
  BY <1>3, <1>4 DEF Scalars
<1>11. Quiet(calls', ret', made'.held, doc')
  BY <1>2, <1>4 DEF Quiet
<1>12. DocCells(doc', next') = d
  BY <1>4 DEF d
<1> QED
  BY <1>4, <1>8, <1>9, <1>10, <1>11, <1>12 DEF IInv

\* A block joins the body its decode_blocks was given.
LEMMA Adds ==
    ASSUME IInv, UNCHANGED <<input, doc>>, BlockAdded
    PROVE  IInv'
<1> DEFINE g == Front(calls)
           n == Len(g)
           o == OwnerOf(g, n)
           d == DocCells(doc, next)
           k == CellsOf(Top)
<1>1. calls # <<>> /\ Top.fn = "block" /\ ret = "ok"
  BY DEF BlockAdded, In
<1>2. /\ calls \in Seq(ToSet(calls)) /\ BlockOK(Top) /\ doc = "none" /\ Top = Last(calls)
      /\ k = {Top.block.cell} /\ k \subseteq live /\ Buffer(Top) = {}
  BY <1>1, TopCells
<1>3. /\ Shape(calls) /\ Scalars /\ OneOwner(calls, made.held, d, live)
      /\ Quiet(calls, ret, made.held, doc)
  BY DEF IInv
<1>4. /\ Shape(g) /\ g # <<>> /\ Last(g).fn = "blocks" /\ g \in Seq(ToSet(g)) /\ DOMAIN g = 1 .. n
      /\ n = Len(calls) - 1 /\ n \in Nat /\ n >= 1 /\ \A i \in 1 .. n : g[i] = calls[i]
      /\ DOMAIN calls = 1 .. Len(calls) /\ Len(calls) \in Nat
  <2>1. Len(calls) > 2 /\ Last(g).fn = "blocks" /\ (Len(calls) > 1 => g # <<>>) /\ Shape(g)
    BY <1>1, <1>2, <1>3, LastIs, ShapePop
  <2>2. Len(calls) \in Nat /\ DOMAIN calls = 1 .. Len(calls)
    BY <1>3, StackFacts
  <2>3. Len(g) = Len(calls) - 1 /\ \A i \in 1 .. Len(calls) - 1 : g[i] = calls[i]
    BY <1>1, <1>2, Pop
  <2> QED
    BY <2>1, <2>2, <2>3, StackFacts
<1> HIDE DEF g, d, k
<1>5. /\ Last(g) = g[n] /\ PathAt(g, n) /\ BlocksOK(g[n])
      /\ o \in 1 .. n - 1 /\ o \in 1 .. n /\ o # n /\ n \in 1 .. n /\ g[o].fn = "body" /\ BodyOK(g[o])
      /\ g[n].fn = "blocks"
  <2>1. Last(g) = g[n] /\ PathAt(g, n) /\ BlocksOK(g[n]) /\ g[n].fn = "blocks"
    BY <1>4, LastIs DEF Last
  <2>2. o \in 1 .. n - 1 /\ g[o].fn = "body"
    BY <2>1 DEF PathAt
  <2>3. o \in 1 .. n /\ o # n /\ n \in 1 .. n
    BY <1>4, <2>2
  <2>4. FrameOK(g[o])
    <3> HIDE DEF o
    <3> QED
      BY <1>4, <2>3, StackFacts
  <2>5. BodyOK(g[o])
    BY <2>2, <2>4 DEF FrameOK, BlocksOK, BlockOK
  <2> QED
    BY <2>1, <2>2, <2>3, <2>5
<1>6. OutAt = o
  <2>1. n \in 1 .. Len(calls) /\ calls[n] = g[n] /\ calls[n].fn = "blocks"
    BY <1>4, <1>5
  <2>2. Max({j \in 1 .. n : calls[j].fn = "body"}) = OwnerOf(calls, n)
    BY <1>3, <2>1, OutAtIs
  <2>3. OwnerOf(calls, n) = o
    BY <2>1 DEF OwnerOf
  <2>4. {j \in DOMAIN calls : calls[j].fn = "body"} = {j \in 1 .. n : calls[j].fn = "body"}
    <3>1. calls[Len(calls)].fn = "block"
      BY <1>1, <1>2 DEF Last
    <3>2. \A j \in DOMAIN calls : j \in 1 .. n \/ j = Len(calls)
      BY <1>4
    <3>3. \A j \in 1 .. n : j \in DOMAIN calls
      BY <1>4
    <3> QED
      BY <3>1, <3>2, <3>3
  <2> QED
    BY <2>2, <2>3, <2>4 DEF OutAt
<1> DEFINE body == [g[o] EXCEPT !.b = WithBlock(g[o].b, Block)]
           blocks == [g[n] EXCEPT !.i = @ + 1]
           t == calls'
<1>7. /\ t = [[g EXCEPT ![o] = body] EXCEPT ![n] = blocks]
      /\ ret' = "none" /\ made' = NoBody /\ live' = live \ {} /\ UNCHANGED <<next, faults, err>>
  <2>1. t = [g EXCEPT ![o].b = WithBlock(@, Block), ![n].i = @ + 1]
    BY <1>6 DEF BlockAdded, Below, g
  <2> HIDE DEF t
  <2>2. t = [[g EXCEPT ![o] = body] EXCEPT ![n] = blocks]
    <3> HIDE DEF o, n
    <3> QED
      BY <1>4, <1>5, <2>1
  <2> QED
    BY <2>2 DEF BlockAdded, NoAlloc, Free, t
<1>8. /\ BodyOK(body) /\ body.fn = "body" /\ body.b.held = g[o].b.held \cup k \cup made.held
      /\ body.labels = g[o].labels /\ body.buffer = g[o].buffer
  <2> DEFINE b == WithBlock(g[o].b, Block)
  <2>1. Block.cell = Top.block.cell /\ Block.body = made
    BY <1>2 DEF Block, BlockOK
  <2>2. IsBody(g[o].b)
    BY <1>5 DEF BodyOK
  <2>3. IsBody(b) /\ b.held = g[o].b.held \cup k \cup made.held
    BY <1>2, <2>1, <2>2 DEF WithBlock, BlockCells, IsBody
  <2>4. g[o].at = "blocks"
    BY <1>5 DEF PathAt
  <2>5. body = [g[o] EXCEPT !.b = b]
    OBVIOUS
  <2> HIDE DEF b, o, body
  <2> QED
    BY <1>5, <2>3, <2>4, <2>5 DEF BodyOK
<1>9. /\ BlocksOK(blocks) /\ blocks.fn = "blocks" /\ blocks.filled = g[n].filled
      /\ blocks.spec = g[n].spec /\ blocks.val = g[n].val
  <2> HIDE DEF n
  <2> QED
    BY <1>5 DEF BlocksOK
<1> HIDE DEF body, blocks, t
<1>10. /\ DOMAIN t = 1 .. n /\ t = [i \in 1 .. n |-> t[i]] /\ t[o] = body /\ t[n] = blocks
       /\ \A i \in 1 .. n : i # o /\ i # n => t[i] = g[i]
  <2> HIDE DEF n, o
  <2> QED
    BY <1>4, <1>5, <1>7 DEF t
<1>11. t \in Seq(ToSet(t)) /\ Len(t) = n
  <2> USE DEF n
  <2> QED
    BY <1>4, <1>10, Update
<1>12. Shape(t)
  <2>1. ASSUME NEW i \in 1 .. n
        PROVE  /\ FrameOK(t[i]) /\ t[i].fn = g[i].fn
               /\ g[i].fn = "blocks" => /\ t[i].filled = g[i].filled /\ t[i].spec = g[i].spec
                                        /\ t[i].val = g[i].val
                                        /\ i < n => t[i].i = g[i].i
               /\ g[i].fn = "body" => t[i].at = g[i].at /\ DOMAIN t[i].labels = DOMAIN g[i].labels
               /\ t[i].labels = g[i].labels \/ g[i].fn # "body"
    <3>1. CASE i = o
      BY <1>5, <1>8, <1>10, <3>1 DEF FrameOK, BodyOK, body
    <3>2. CASE i = n
      BY <1>5, <1>9, <1>10, <3>2 DEF FrameOK
    <3>3. CASE i # o /\ i # n
      BY <1>4, <1>10, <3>3, StackFacts
    <3> QED
      BY <3>1, <3>2, <3>3
  <2>2. ASSUME NEW i \in 1 .. n, g[i].fn = "blocks"
        PROVE  t[OwnerOf(g, i)].labels = g[OwnerOf(g, i)].labels
    <3>1. OwnerOf(g, i) \in 1 .. i - 1 /\ g[OwnerOf(g, i)].fn = "body"
      BY <1>4, <2>2, StackFacts DEF PathAt
    <3>2. OwnerOf(g, i) \in 1 .. n
      BY <1>4, <3>1
    <3> QED
      BY <2>1, <3>1, <3>2
  <2> QED
    BY <1>4, <1>11, <2>1, <2>2, ShapeAlike
<1>13. OneOwner(t, {}, d, live)
  <2> DEFINE cells == live \ k
  <2>1. OneOwner(g, made.held, d, cells)
    BY <1>1, <1>2, <1>3, OwnPop DEF g, k
  <2>2. Data(t[o]) = Data(g[o]) \cup k \cup made.held /\ Buffer(t[o]) = Buffer(g[o])
    BY <1>5, <1>8, <1>10 DEF Data, Buffer
  <2>3. ASSUME NEW i \in 1 .. n, i # o
        PROVE  Data(t[i]) = Data(g[i]) /\ Buffer(t[i]) = Buffer(g[i])
    <3>1. CASE i = n
      BY <1>5, <1>9, <1>10, <3>1 DEF Data, Buffer
    <3>2. CASE i # n
      BY <1>10, <2>3, <3>2
    <3> QED
      BY <3>1, <3>2
  <2> HIDE DEF cells
  <2>4. k \cap cells = {} /\ cells \cup k = live
    BY <1>2 DEF cells
  <2>5. OneOwner(t, {}, d, cells \cup k)
    <3> HIDE DEF o
    <3> QED
      BY <1>5, <1>11, <2>1, <2>2, <2>3, <2>4, OwnGrow
  <2> QED
    BY <2>4, <2>5
<1>14. Scalars'
  BY <1>3, <1>7 DEF Scalars, NoBody, IsBody
<1>15. Quiet(calls', ret', {}, doc')
  <2>1. ASSUME NEW i \in 1 .. n, t[i].fn = "body"
        PROVE  i < n
    <3>1. i # n
      BY <1>9, <1>10, <2>1
    <3> QED
      BY <1>4, <3>1
  <2>2. t # <<>>
    BY <1>4, <1>11
  <2> QED
    BY <1>2, <1>11, <2>1 DEF Quiet, t
<1>16. made'.held = {} /\ DocCells(doc', next') = d /\ live' = live
  BY <1>7 DEF NoBody, d
<1> QED
  BY <1>12, <1>13, <1>14, <1>15, <1>16 DEF IInv, t

\* hcl2_json_decode returns.
LEMMA Returns ==
    ASSUME IInv, Made \/ MadeLost \/ NotMade
    PROVE  IInv'
<1>1. calls = <<>> /\ doc = "none" /\ calls' = calls /\ UNCHANGED <<input, ret>>
  BY DEF Made, MadeLost, NotMade, Returned
<1>2. Shape(calls) /\ Scalars /\ OneOwner(calls, made.held, {}, live) /\ Len(calls) = 0
  BY <1>1 DEF IInv, DocCells
<1>3. next \in Nat \ {0} /\ live \subseteq 1 .. next - 1 /\ next \notin live
  BY FreshCells
<1>4. CASE Made
  <2>1. /\ next' = next + 1 /\ live' = live \cup {next} /\ UNCHANGED <<made, err, faults>>
        /\ doc' = "made" /\ ret = "ok"
    <3>1. next .. next + 1 - 1 = {next}
      BY <1>3
    <3> QED
      BY <1>4, <3>1 DEF Made, Alloc
  <2>2. DocCells(doc', next') = {next}
    BY <1>3, <2>1 DEF DocCells
  <2>3. OneOwner(calls, made.held, {next}, live \cup {next})
    <3>1. made.held \cap {next} = {}
      BY <1>2, <1>3 DEF OneOwner
    <3>2. \A i \in 1 .. Len(calls) : FALSE
      BY <1>2
    <3> QED
      BY <1>2, <3>1, <3>2 DEF OneOwner
  <2>4. Scalars'
    <3>1. next' \in Nat \ {0} /\ live' \subseteq 1 .. next' - 1
      BY <1>3, <2>1
    <3> QED
      BY <1>1, <1>2, <2>1, <3>1 DEF Scalars
  <2>5. Quiet(calls', ret', made.held, doc')
    <3>1. \A i \in 1 .. Len(calls') : FALSE
      BY <1>1, <1>2
    <3> QED
      BY <1>1, <2>1, <3>1 DEF Quiet
  <2> QED
    BY <1>1, <1>2, <2>1, <2>2, <2>3, <2>4, <2>5 DEF IInv
<1>5. CASE MadeLost
  <2>1. /\ live' = live \ made.held /\ faults' \in 0 .. MaxFaults /\ UNCHANGED <<next, err>>
        /\ doc' = "null" /\ made'.held = {} /\ IsBody(made')
    <3>1. faults + 1 \in 0 .. MaxFaults
      BY <1>2, <1>5, MaxFaultsAssumption DEF MadeLost, Lose, Scalars
    <3> QED
      BY <1>5, <3>1 DEF MadeLost, Lose, NoBody, IsBody
  <2>2. OneOwner(calls, {}, {}, live \ made.held)
    BY <1>2, OwnForget
  <2>3. Scalars'
    BY <1>1, <1>2, <2>1 DEF Scalars
  <2>4. Quiet(calls', ret', made'.held, doc')
    <3>1. \A i \in 1 .. Len(calls') : FALSE
      BY <1>1, <1>2
    <3> QED
      BY <1>1, <2>1, <3>1 DEF Quiet
  <2>5. DocCells(doc', next') = {}
    BY <2>1 DEF DocCells
  <2> QED
    BY <1>1, <1>2, <2>1, <2>2, <2>3, <2>4, <2>5 DEF IInv
<1>6. CASE NotMade
  <2>1. doc' = "null" /\ UNCHANGED <<input, calls, ret, made, err, next, live, faults>>
    BY <1>6 DEF NotMade
  <2>2. Scalars'
    BY <1>2, <2>1 DEF Scalars
  <2>3. Quiet(calls', ret', made'.held, doc')
    BY <1>1, <2>1 DEF Quiet, IInv
  <2>4. DocCells(doc', next') = {}
    BY <2>1 DEF DocCells
  <2> QED
    BY <1>2, <2>1, <2>2, <2>3, <2>4 DEF IInv
<1> QED
  BY <1>4, <1>5, <1>6

LEMMA Starts == Init => IInv
<1> SUFFICES ASSUME Init
             PROVE  IInv
  OBVIOUS
<1> DEFINE f == BodyFrame(input.value, input.schema)
<1>1. /\ input \in Inputs /\ calls = <<f>> /\ ret = "none" /\ made = NoBody /\ err = FALSE
      /\ next = 1 /\ live = {} /\ faults = 0 /\ doc = "none"
  BY DEF Init
<1>2. input.schema \in Schemas
  BY <1>1, InputsAssumption
<1>3. /\ f.fn = "body" /\ f.at = "enter" /\ f.schema = input.schema /\ f.b = NoBody /\ f.i = 1
      /\ f.buffer = 0 /\ DOMAIN f = {"fn", "at", "obj", "schema", "b", "i", "labels", "buffer"}
  BY DEF BodyFrame
<1>4. IsBody(NoBody) /\ NoBody.held = {}
  BY DEF NoBody, IsBody
<1> HIDE DEF f
<1>5. BodyOK(f) /\ Data(f) = {} /\ Buffer(f) = {} /\ CellsOf(f) = {}
  BY <1>2, <1>3, <1>4 DEF BodyOK, Data, Buffer, CellsOf
<1>6. /\ Len(calls) = 1 /\ DOMAIN calls = {1} /\ calls[1] = f /\ calls \in Seq(ToSet(calls))
      /\ \A i \in 1 .. Len(calls) : i = 1
  <2>1. Len(calls) = 1 /\ DOMAIN calls = {1} /\ calls[1] = f
    BY <1>1
  <2>2. calls \in Seq({f})
    BY <1>1
  <2>3. \A i \in 1 .. 1 : i = 1
    OBVIOUS
  <2> QED
    BY <2>1, <2>2, <2>3, SelfTyped
<1>7. Shape(calls)
  BY <1>3, <1>5, <1>6 DEF Shape, StackOK, PathAt
<1>8. OneOwner(calls, made.held, DocCells(doc, next), live)
  <2>1. DocCells(doc, next) = {} /\ made.held = {}
    BY <1>1, <1>4 DEF DocCells
  <2> QED
    BY <1>1, <1>5, <1>6, <2>1 DEF OneOwner
<1>9. Scalars
  <2>1. faults \in 0 .. MaxFaults /\ next \in Nat \ {0} /\ live \subseteq 1 .. next - 1
    BY <1>1, MaxFaultsAssumption
  <2>2. ret \in {"none", "ok", "failed"} /\ err \in BOOLEAN /\ doc \in {"none", "made", "null"}
    BY <1>1
  <2>3. IsBody(made) /\ input \in Inputs
    BY <1>1, <1>4
  <2> QED
    BY <2>1, <2>2, <2>3 DEF Scalars
<1>10. Quiet(calls, ret, made.held, doc)
  BY <1>1, <1>3, <1>4, <1>6 DEF Quiet
<1> QED
  BY <1>7, <1>8, <1>9, <1>10 DEF IInv

LEMMA Keeps == IInv /\ [Next]_vars => IInv'
<1> SUFFICES ASSUME IInv, [Next]_vars
             PROVE  IInv'
  OBVIOUS
<1>1. CASE Step
  <2>1. UNCHANGED <<input, doc>> /\ (BodyStep \/ BlocksStep)
    BY <1>1 DEF Step
  <2>2. CASE BodyStep
    BY <2>1, <2>2, Errors, Counts, Builds, Hands, Descends DEF BodyStep
  <2>3. CASE BlocksStep
    BY <2>1, <2>3, Errors, Counts, Labels, Opens, Drops, Adds DEF BlocksStep
  <2> QED
    BY <2>1, <2>2, <2>3
<1>2. CASE Made \/ MadeLost \/ NotMade
  BY <1>2, Returns
<1>3. CASE Over \/ UNCHANGED vars
  <2>1. UNCHANGED vars
    BY <1>3 DEF Over
  <2> QED
    BY <2>1 DEF vars, IInv, Scalars
<1> QED
  BY <1>1, <1>2, <1>3 DEF Next

LEMMA Invariant == Spec => []IInv
BY Starts, Keeps, PTL DEF Spec

-----------------------------------------------------------------------------

LEMMA OwnersOnce == IInv => OwnedOnce
<1> SUFFICES ASSUME IInv
             PROVE  OwnedOnce
  OBVIOUS
<1> DEFINE d == DocCells(doc, next)
<1>1. /\ OneOwner(calls, made.held, d, live) /\ DOMAIN calls = 1 .. Len(calls)
  BY StackFacts DEF IInv
<1>2. ASSUME NEW o \in Owners
      PROVE  \/ o[1] = "data" /\ o[2] \in 1 .. Len(calls) /\ o = <<"data", o[2]>>
             \/ o[1] = "buffer" /\ o[2] \in 1 .. Len(calls) /\ o = <<"buffer", o[2]>>
             \/ o = <<"made", 0>> \/ o = <<"doc", 0>>
  BY <1>1 DEF Owners
<1>3. /\ \A i : Owned(<<"data", i>>) = Data(calls[i]) /\ Owned(<<"buffer", i>>) = Buffer(calls[i])
      /\ Owned(<<"made", 0>>) = made.held /\ Owned(<<"doc", 0>>) = d
  BY DEF Owned, DocCells
<1>4. /\ \A i \in 1 .. Len(calls) : <<"data", i>> \in Owners /\ <<"buffer", i>> \in Owners
      /\ <<"made", 0>> \in Owners /\ <<"doc", 0>> \in Owners
  BY <1>1 DEF Owners
<1> HIDE DEF d
<1>5. live = UNION {Owned(o) : o \in Owners}
  <2>1. ASSUME NEW c \in live
        PROVE  \E o \in Owners : c \in Owned(o)
    <3>1. c \in made.held \/ c \in d \/ \E i \in 1 .. Len(calls) : c \in CellsOf(calls[i])
      BY <1>1 DEF OneOwner
    <3> QED
      BY <1>3, <1>4, <3>1 DEF CellsOf
  <2>2. ASSUME NEW o \in Owners, NEW c \in Owned(o)
        PROVE  c \in live
    <3>1. c \in made.held \/ c \in d \/ \E i \in 1 .. Len(calls) : c \in CellsOf(calls[i])
      <4>1. CASE o[1] = "data" /\ o[2] \in 1 .. Len(calls) /\ o = <<"data", o[2]>>
        BY <1>3, <4>1 DEF CellsOf
      <4>2. CASE o[1] = "buffer" /\ o[2] \in 1 .. Len(calls) /\ o = <<"buffer", o[2]>>
        BY <1>3, <4>2 DEF CellsOf
      <4>3. CASE o = <<"made", 0>> \/ o = <<"doc", 0>>
        BY <1>3, <4>3
      <4> QED
        BY <1>2, <4>1, <4>2, <4>3
    <3> QED
      BY <1>1, <3>1 DEF OneOwner
  <2> QED
    BY <2>1, <2>2
<1>6. ASSUME NEW o1 \in Owners, NEW o2 \in Owners, o1 # o2
      PROVE  Owned(o1) \cap Owned(o2) = {}
  <2>1. ASSUME NEW i \in 1 .. Len(calls), NEW j \in 1 .. Len(calls)
        PROVE  /\ i # j => /\ Data(calls[i]) \cap Data(calls[j]) = {}
                           /\ Data(calls[i]) \cap Buffer(calls[j]) = {}
                           /\ Buffer(calls[i]) \cap Data(calls[j]) = {}
                           /\ Buffer(calls[i]) \cap Buffer(calls[j]) = {}
               /\ Data(calls[i]) \cap Buffer(calls[i]) = {}
               /\ Data(calls[i]) \cap made.held = {} /\ Data(calls[i]) \cap d = {}
               /\ Buffer(calls[i]) \cap made.held = {} /\ Buffer(calls[i]) \cap d = {}
               /\ made.held \cap d = {}
    <3>1. i # j => CellsOf(calls[i]) \cap CellsOf(calls[j]) = {}
      BY <1>1 DEF OneOwner
    <3>2. /\ Data(calls[i]) \cap Buffer(calls[i]) = {}
          /\ CellsOf(calls[i]) \cap (made.held \cup d) = {} /\ made.held \cap d = {}
      BY <1>1 DEF OneOwner
    <3> QED
      BY <3>1, <3>2 DEF CellsOf
  <2>2. made.held \cap d = {}
    BY <1>1 DEF OneOwner
  <2>3. CASE o1[1] = "data" /\ o1[2] \in 1 .. Len(calls) /\ o1 = <<"data", o1[2]>>
    <3>1. PICK i \in 1 .. Len(calls) : o1 = <<"data", i>>
      BY <2>3
    <3>2. Owned(o1) = Data(calls[i])
      BY <1>3, <3>1
    <3>3. CASE o2[1] = "data" /\ o2[2] \in 1 .. Len(calls) /\ o2 = <<"data", o2[2]>>
      <4>1. PICK j \in 1 .. Len(calls) : o2 = <<"data", j>>
        BY <3>3
      <4>2. Owned(o2) = Data(calls[j]) /\ i # j
        BY <1>3, <1>6, <3>1, <4>1
      <4> QED
        BY <2>1, <3>2, <4>2
    <3>4. CASE o2[1] = "buffer" /\ o2[2] \in 1 .. Len(calls) /\ o2 = <<"buffer", o2[2]>>
      <4>1. PICK j \in 1 .. Len(calls) : o2 = <<"buffer", j>>
        BY <3>4
      <4>2. Owned(o2) = Buffer(calls[j])
        BY <1>3, <1>6, <3>1, <4>1
      <4> QED
        BY <2>1, <3>2, <4>2
    <3>5. CASE o2 = <<"made", 0>> \/ o2 = <<"doc", 0>>
      BY <1>3, <2>1, <3>2, <3>5
    <3> QED
      BY <1>2, <3>3, <3>4, <3>5
  <2>4. CASE o1[1] = "buffer" /\ o1[2] \in 1 .. Len(calls) /\ o1 = <<"buffer", o1[2]>>
    <3>1. PICK i \in 1 .. Len(calls) : o1 = <<"buffer", i>>
      BY <2>4
    <3>2. Owned(o1) = Buffer(calls[i])
      BY <1>3, <3>1
    <3>3. CASE o2[1] = "data" /\ o2[2] \in 1 .. Len(calls) /\ o2 = <<"data", o2[2]>>
      <4>1. PICK j \in 1 .. Len(calls) : o2 = <<"data", j>>
        BY <3>3
      <4>2. Owned(o2) = Data(calls[j])
        BY <1>3, <1>6, <3>1, <4>1
      <4> QED
        BY <2>1, <3>2, <4>2
    <3>4. CASE o2[1] = "buffer" /\ o2[2] \in 1 .. Len(calls) /\ o2 = <<"buffer", o2[2]>>
      <4>1. PICK j \in 1 .. Len(calls) : o2 = <<"buffer", j>>
        BY <3>4
      <4>2. Owned(o2) = Buffer(calls[j]) /\ i # j
        BY <1>3, <1>6, <3>1, <4>1
      <4> QED
        BY <2>1, <3>2, <4>2
    <3>5. CASE o2 = <<"made", 0>> \/ o2 = <<"doc", 0>>
      BY <1>3, <2>1, <3>2, <3>5
    <3> QED
      BY <1>2, <3>3, <3>4, <3>5
  <2>5. CASE o1 = <<"made", 0>>
    BY <1>2, <1>3, <1>6, <2>1, <2>2, <2>5
  <2>6. CASE o1 = <<"doc", 0>>
    BY <1>2, <1>3, <1>6, <2>1, <2>2, <2>6
  <2> QED
    BY <1>2, <2>3, <2>4, <2>5, <2>6
<1> QED
  BY <1>5, <1>6 DEF OwnedOnce

LEMMA PathsHold == IInv => LabelsArePath
<1> SUFFICES ASSUME IInv, NEW i \in DOMAIN calls, calls[i].fn = "blocks", calls[i].filled > 0
             PROVE  LET owner == Max({j \in 1 .. i : calls[j].fn = "body"})
                        above == calls[i - 1]
                    IN  calls[owner].labels[calls[i].filled] = above.val.fields[above.i].key
  BY DEF LabelsArePath
<1>1. Shape(calls) /\ i \in 1 .. Len(calls)
  BY StackFacts DEF IInv
<1>2. Max({j \in 1 .. i : calls[j].fn = "body"}) = OwnerOf(calls, i) /\ PathAt(calls, i)
  BY <1>1, OutAtIs, StackFacts
<1> QED
  BY <1>2 DEF PathAt

\* Every activation of the decoder is well-formed and is called the way the code
\* calls it, whatever the document, the schema and the allocations that fail: a
\* decode_blocks never fills more labels than the buffer has places, and it runs
\* only for a decode_body that is at its block types.
THEOREM TypeCorrect == Spec => []TypeOK
BY Invariant, TypeOfInv, PTL

\* Whatever is refused or cannot be allocated, each cell of a body, a block, an
\* attribute or a label buffer has one owner, which frees it or hands it on:
\* decode_body's clean-up, free_block and hcl2_body_free neither leak nor free
\* twice.
THEOREM CellsOwnedOnce == Spec => []OwnedOnce
BY Invariant, OwnersOnce, PTL

\* However deep the labels are, the place of the shared buffer that a decode_blocks
\* was called for holds the key that its caller is at: a later sibling's key has
\* replaced the earlier one's before the block of the sibling is made.
THEOREM LabelsFollowKeys == Spec => []LabelsArePath
BY Invariant, PathsHold, PTL
=============================================================================
