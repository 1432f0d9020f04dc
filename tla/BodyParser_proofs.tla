-------------------------- MODULE BodyParser_proofs --------------------------
(* Proofs about BodyParser.                                                 *)
EXTENDS BodyParser, BasicLemmas

Frames == [fn : Functions, at : Nat, items : SUBSET Nat]

\* The calls of the parser's functions: each one by a function that calls it.
Nested(cs) ==
    /\ cs # <<>> => cs[1].fn = "body"
    /\ \A i \in 2 .. Len(cs) : cs[i - 1].fn \in CallersOf(cs[i].fn)

Stacks == {cs \in Seq(Frames) : Nested(cs)}

------------------------------------------------------------------------------
(* The document.                                                            *)

LEMMA DocType ==
    ASSUME doc \in Documents
    PROVE  /\ End \in Nat \ {0} /\ 1 \in Positions
           /\ \A p \in Positions :
                 /\ After(p) \in Positions
                 /\ p < End => After(p) = p + 1
                 /\ p = End => After(p) = p
                 /\ p < End => Tok(p) \in Kinds
                 /\ p = End <=> Tok(p) = "eof"
                 /\ p \in Nat /\ p <= End
<1>1. doc \in Seq(Tokens) /\ Len(doc) \in Nat /\ DOMAIN doc = 1 .. Len(doc)
  BY DocumentsAreTokens, ElementType
<1>2. End = Len(doc) + 1
  BY DEF End
<1>3. \A p \in 1 .. Len(doc) : doc[p].kind \in Kinds
  <2>1. \A p \in 1 .. Len(doc) : doc[p] \in Tokens
    BY <1>1, ElementType
  <2> QED
    BY <2>1 DEF Tokens
<1>4. ASSUME NEW p \in Positions
      PROVE  /\ After(p) \in Positions
             /\ p < End => After(p) = p + 1
             /\ p = End => After(p) = p
             /\ p < End => Tok(p) \in Kinds
             /\ p = End <=> Tok(p) = "eof"
             /\ p \in Nat /\ p <= End
  <2>1. p \in Nat /\ p >= 1 /\ p <= End /\ Len(doc) \in Nat
    BY <1>1, <1>2 DEF Positions
  <2>2. CASE p = End
    BY <2>1, <2>2 DEF Positions, After, Tok
  <2>3. CASE p < End
    <3>1. Tok(p) \in Kinds
      BY <1>2, <1>3, <2>1, <2>3 DEF Tok
    <3>2. Tok(p) # "eof"
      BY <3>1 DEF Kinds
    <3> QED
      BY <1>2, <2>1, <2>3, <3>1, <3>2 DEF Positions, After
  <2> QED
    BY <1>2, <2>1, <2>2, <2>3
<1> QED
  BY <1>1, <1>2, <1>4 DEF Positions

LEMMA LexedType ==
    ASSUME NEW e \in Messages, NEW p \in Nat, NEW m \in Texts
    PROVE  /\ LxErr(e, p, m) \in Messages /\ Lexed(e, p) \in Messages
           /\ LxErr(e, p, m) = IF e = NoError THEN [at |-> p, msg |-> m] ELSE e
           /\ NoError \in Messages
BY DEF LxErr, Lexed, Messages, Texts, NoError

------------------------------------------------------------------------------
(* Calls and returns.                                                       *)

LEMMA TypeIsStack ==
    TypeOK <=> /\ doc \in Documents
               /\ mode \in {"strict", "diags", "over"}
               /\ pos \in Positions
               /\ err \in Messages
               /\ calls \in Stacks
               /\ ret \in {"run", "ok", "fail", "resync"}
               /\ skipped \in Nat
               /\ diags \in Seq(Messages)
               /\ root \subseteq Nat
               /\ faults \in 0 .. MaxFaults
               /\ strict \in [ok : BOOLEAN, err : Messages, root : SUBSET Nat, parsed : SUBSET Nat]
               /\ parsed \subseteq Nat
               /\ noticed \in Seq(Messages)
BY DEF TypeOK, Stacks, Frames, Nested, Depth

LEMMA TopFrame ==
    ASSUME calls \in Stacks, calls # <<>>
    PROVE  /\ Depth \in Nat \ {0} /\ Depth = Len(calls) /\ DOMAIN calls = 1 .. Depth
           /\ Top \in Frames /\ Top = calls[Depth]
           /\ TopLevel => Top.fn = "body"
           /\ ~TopLevel => /\ calls[Depth - 1] \in Frames
                           /\ calls[Depth - 1].fn \in CallersOf(Top.fn)
           /\ \A i \in 1 .. Depth : calls[i] \in Frames
<1>1. calls \in Seq(Frames) /\ Nested(calls)
  BY DEF Stacks
<1>2. /\ Depth \in Nat \ {0} /\ Depth = Len(calls) /\ DOMAIN calls = 1 .. Depth
      /\ \A i \in 1 .. Depth : calls[i] \in Frames
  BY <1>1, StackTop, ElementType DEF Depth
<1>3. Top = calls[Depth] /\ Top \in Frames
  BY <1>2 DEF Top
<1>4. TopLevel => Top.fn = "body"
  BY <1>1, <1>3 DEF TopLevel, Nested
<1>5. ~TopLevel => /\ calls[Depth - 1] \in Frames
                   /\ calls[Depth - 1].fn \in CallersOf(Top.fn)
  <2>1. ~TopLevel => Depth \in 2 .. Depth /\ Depth - 1 \in 1 .. Depth
    BY <1>2 DEF TopLevel
  <2> QED
    BY <1>1, <1>2, <1>3, <2>1 DEF Nested
<1> QED
  BY <1>2, <1>3, <1>4, <1>5

LEMMA Callers ==
    /\ CallersOf("body") = {"block"} /\ CallersOf("block") = {"body"}
    /\ CallersOf("attr") = {"body"}
    /\ CallersOf("expr") = {"attr", "object"} /\ CallersOf("object") = {"attr", "object"}
BY DEF CallersOf

LEMMA Pushed ==
    ASSUME NEW cs \in Stacks, NEW fn \in Functions, NEW at \in Nat,
           cs # <<>>, cs[Len(cs)].fn \in CallersOf(fn)
    PROVE  LET now == Append(cs, Frame(fn, at)) IN
           /\ now \in Stacks /\ now # <<>>
           /\ Len(now) = Len(cs) + 1 /\ now[Len(cs) + 1] = Frame(fn, at)
           /\ \A i \in 1 .. Len(cs) : now[i] = cs[i]
<1> DEFINE f == Frame(fn, at)
           now == Append(cs, f)
<1>1. cs \in Seq(Frames) /\ Nested(cs) /\ Len(cs) \in Nat /\ Len(cs) >= 1
  BY StackTop DEF Stacks
<1>2. f \in Frames /\ f.fn = fn
  BY DEF Frame, Frames
<1> HIDE DEF f
<1>3. /\ now \in Seq(Frames) /\ Len(now) = Len(cs) + 1 /\ now[Len(cs) + 1] = f
      /\ \A i \in 1 .. Len(cs) : now[i] = cs[i]
  BY <1>1, <1>2, StackPush
<1> HIDE DEF now
<1>4. \A i \in 2 .. Len(now) : /\ i - 1 \in 1 .. Len(cs)
                               /\ i = Len(now) \/ i \in 2 .. Len(cs)
                               /\ i \in 2 .. Len(cs) => i \in 1 .. Len(cs)
                              /\ i = Len(now) => i - 1 = Len(cs)
  BY <1>1, <1>3
<1>5. ASSUME NEW i \in 2 .. Len(now) PROVE now[i - 1].fn \in CallersOf(now[i].fn)
  <2>1. CASE i = Len(now)
    <3>1. now[i - 1] = cs[Len(cs)] /\ now[i] = f
      BY <1>3, <1>4, <2>1
    <3> QED
      BY <3>1, <1>2
  <2>2. CASE i \in 2 .. Len(cs)
    <3>1. now[i - 1] = cs[i - 1] /\ now[i] = cs[i]
      BY <1>3, <1>4, <2>2
    <3> QED
      BY <3>1, <2>2, <1>1 DEF Nested
  <2>3. i = Len(now) \/ i \in 2 .. Len(cs)
    BY <1>1, <1>3
  <2> QED
    BY <2>1, <2>2, <2>3
<1>6. now # <<>> /\ now[1].fn = "body"
  <2>1. 1 \in 1 .. Len(cs) /\ cs[1].fn = "body"
    BY <1>1 DEF Nested
  <2> QED
    BY <1>1, <1>3, <2>1
<1>7. now \in Stacks
  BY <1>3, <1>5, <1>6 DEF Stacks, Nested
<1> QED
  BY <1>3, <1>6, <1>7 DEF now, f

LEMMA AppendTwice ==
    ASSUME NEW S, NEW s \in Seq(S), NEW a, NEW b
    PROVE  s \o <<a, b>> = Append(Append(s, a), b)
OBVIOUS

LEMMA PushedTwice ==
    ASSUME NEW cs \in Stacks, cs # <<>>, cs[Len(cs)].fn = "body", NEW p \in Nat
    PROVE  LET now == Append(Append(cs, Frame("attr", p)), Frame("expr", 0)) IN
           /\ now \in Stacks /\ now # <<>>
           /\ Len(now) = Len(cs) + 2
           /\ now[Len(cs) + 1] = Frame("attr", p) /\ now[Len(cs) + 2] = Frame("expr", 0)
           /\ \A i \in 1 .. Len(cs) : now[i] = cs[i]
<1> DEFINE mid == Append(cs, Frame("attr", p))
<1>1. /\ mid \in Stacks /\ mid # <<>> /\ Len(mid) = Len(cs) + 1
      /\ mid[Len(cs) + 1] = Frame("attr", p)
      /\ \A i \in 1 .. Len(cs) : mid[i] = cs[i]
  BY Pushed DEF CallersOf, Functions
<1> HIDE DEF mid
<1>2. mid[Len(mid)].fn \in CallersOf("expr") /\ "expr" \in Functions
  BY <1>1 DEF CallersOf, Functions, Frame
<1> DEFINE now == Append(mid, Frame("expr", 0))
<1>3. /\ now \in Stacks /\ now # <<>> /\ Len(now) = Len(mid) + 1
      /\ now[Len(mid) + 1] = Frame("expr", 0)
      /\ \A i \in 1 .. Len(mid) : now[i] = mid[i]
  BY <1>1, <1>2, Pushed
<1> HIDE DEF now
<1>4. Len(cs) \in Nat
  BY StackTop DEF Stacks
<1>5. Len(now) = Len(cs) + 2 /\ now[Len(cs) + 2] = Frame("expr", 0)
  BY <1>1, <1>3, <1>4
<1>6. now[Len(cs) + 1] = Frame("attr", p) /\ \A i \in 1 .. Len(cs) : now[i] = cs[i]
  <2>1. Len(cs) + 1 \in 1 .. Len(mid) /\ \A i \in 1 .. Len(cs) : i \in 1 .. Len(mid)
    BY <1>1, <1>4
  <2> QED
    BY <1>1, <1>3, <2>1
<1> QED
  BY <1>3, <1>5, <1>6 DEF now, mid

\* An expression that turns out to be an object goes on in its own activation.
LEMMA ReplacedTop ==
    ASSUME NEW cs \in Stacks, cs # <<>>,
           NEW now, now = [cs EXCEPT ![Len(cs)] = Frame("object", 0)]
    PROVE  /\ now \in Seq(Frames) /\ Len(now) = Len(cs)
           /\ now[Len(cs)] = Frame("object", 0)
           /\ \A i \in 1 .. Len(cs) - 1 : now[i] = cs[i]
<1>1. cs \in Seq(Frames)
  BY DEF Stacks
<1>2. Frame("object", 0) \in Frames
  BY DEF Frame, Frames, Functions
<1> QED
  BY <1>1, <1>2, StackUpdate

LEMMA Replaced ==
    ASSUME NEW cs \in Stacks, cs # <<>>, cs[Len(cs)].fn = "expr",
           NEW now \in Seq(Frames), Len(now) = Len(cs),
           now[Len(cs)] = Frame("object", 0),
           \A i \in 1 .. Len(cs) - 1 : now[i] = cs[i]
    PROVE  now \in Stacks /\ now # <<>>
<1>1. cs \in Seq(Frames) /\ Nested(cs) /\ Len(cs) \in Nat /\ Len(cs) >= 1
  BY StackTop DEF Stacks
<1>2. cs[1].fn = "body" /\ Len(cs) # 1
  <2>1. cs[1].fn = "body" /\ "body" # "expr"
    BY <1>1 DEF Nested
  <2> QED
    BY <2>1
<1>3. Len(cs) >= 2 /\ 1 \in 1 .. Len(cs) - 1
  BY <1>1, <1>2
<1>4. ASSUME NEW i \in 2 .. Len(cs) PROVE now[i - 1].fn \in CallersOf(now[i].fn)
  <2>1. i - 1 \in 1 .. Len(cs) - 1 /\ (i = Len(cs) \/ i \in 1 .. Len(cs) - 1)
    BY <1>1
  <2>2. now[i - 1] = cs[i - 1] /\ cs[i - 1].fn \in CallersOf(cs[i].fn)
    BY <1>1, <2>1 DEF Nested
  <2>3. CASE i = Len(cs)
    <3>1. now[i] = Frame("object", 0)
      BY <2>3
    <3>2. now[i].fn = "object" /\ cs[i].fn = "expr"
      BY <2>3, <3>1 DEF Frame
    <3> QED
      BY <2>2, <3>2, Callers
  <2>4. CASE i \in 1 .. Len(cs) - 1
    BY <2>2, <2>4
  <2> QED
    BY <2>1, <2>3, <2>4
<1>5. now[1].fn = "body" /\ now # <<>>
  BY <1>1, <1>2, <1>3
<1> QED
  BY <1>4, <1>5 DEF Stacks, Nested

\* The stack after a return, and who goes on.
LEMMA Returned ==
    ASSUME TypeOK, calls # <<>>, NEW how, NEW items \in SUBSET Nat, Return(how, items)
    PROVE  /\ ret' = how
           /\ calls' \in Stacks /\ Len(calls') = Depth - 1
           /\ root' \in SUBSET Nat
           /\ TopLevel => calls' = <<>> /\ root' = items
           /\ ~TopLevel => /\ calls' # <<>> /\ root' = root
                           /\ calls'[Len(calls')].fn \in CallersOf(Top.fn)
           /\ \A i \in 1 .. Depth - 1 :
                 /\ calls'[i].fn = calls[i].fn /\ calls'[i].at = calls[i].at
                 /\ calls'[i].items = IF i = Depth - 1 THEN calls[i].items \cup items
                                                      ELSE calls[i].items
<1>1. calls \in Stacks /\ root \subseteq Nat
  BY TypeIsStack
<1>2. /\ Depth \in Nat \ {0} /\ \A i \in 1 .. Depth : calls[i] \in Frames
      /\ TopLevel \/ calls[Depth - 1].fn \in CallersOf(Top.fn)
  BY <1>1, TopFrame
<1> DEFINE now == [i \in 1 .. Depth - 1 |->
                     IF i = Depth - 1 THEN [calls[i] EXCEPT !.items = @ \cup items]
                                      ELSE calls[i]]
<1>3. calls' = now /\ ret' = how /\ root' = IF TopLevel THEN items ELSE root
  BY DEF Return
<1>4. ASSUME NEW i \in 1 .. Depth - 1
      PROVE  /\ now[i] \in Frames
             /\ now[i].fn = calls[i].fn /\ now[i].at = calls[i].at
             /\ now[i].items = IF i = Depth - 1 THEN calls[i].items \cup items
                                               ELSE calls[i].items
  <2>1. calls[i] \in Frames
    BY <1>2
  <2> QED
    BY <2>1 DEF Frames
<1>5. now \in Seq(Frames) /\ Len(now) = Depth - 1
  <2>1. Depth - 1 \in Nat
    BY <1>2
  <2> DEFINE m == Depth - 1
  <2>2. now = [i \in 1 .. m |-> now[i]]
    OBVIOUS
  <2>3. \A i \in 1 .. m : now[i] \in Frames
    BY <1>4
  <2>4. m \in Nat
    BY <2>1
  <2> HIDE DEF now, m
  <2>5. now \in Seq(Frames) /\ Len(now) = m
    BY <2>2, <2>3, <2>4
  <2> QED
    BY <2>5 DEF m
<1> HIDE DEF now
<1>6. Nested(now)
  <2>1. Nested(calls) /\ Len(calls) = Depth
    BY <1>1 DEF Stacks, Depth
  <2>2. \A i \in 2 .. Depth - 1 : i \in 2 .. Depth /\ i \in 1 .. Depth - 1 /\ i - 1 \in 1 .. Depth - 1
    BY <1>2
  <2>3. now # <<>> => 1 \in 1 .. Depth - 1
    BY <1>2, <1>5
  <2>4. calls[1].fn = "body"
    BY <2>1 DEF Nested
  <2> QED
    BY <1>4, <1>5, <2>1, <2>2, <2>3, <2>4 DEF Nested
<1>7. TopLevel => now = <<>>
  BY <1>5 DEF TopLevel
<1>8. ~TopLevel => now # <<>> /\ Depth - 1 \in 1 .. Depth - 1
  BY <1>2, <1>5 DEF TopLevel
<1> QED
  BY <1>1, <1>2, <1>3, <1>4, <1>5, <1>6, <1>7, <1>8 DEF Stacks

------------------------------------------------------------------------------
(* The type invariant.                                                      *)

LEMMA TypeNext ==
    ASSUME TypeOK, doc' = doc,
           mode' \in {"strict", "diags", "over"}, pos' \in Positions, err' \in Messages,
           calls' \in Stacks, ret' \in {"run", "ok", "fail", "resync"}, skipped' \in Nat,
           diags' \in Seq(Messages), root' \subseteq Nat, faults' \in 0 .. MaxFaults,
           strict' \in [ok : BOOLEAN, err : Messages, root : SUBSET Nat, parsed : SUBSET Nat],
           parsed' \subseteq Nat, noticed' \in Seq(Messages)
    PROVE  TypeOK'
BY DEF TypeOK, Stacks, Frames, Nested, Depth, Positions, End

LEMMA LexType ==
    ASSUME TypeOK, LexOnce \/ LexTwice
    PROVE  pos' \in Positions /\ err' \in Messages
<1>1. doc \in Documents /\ pos \in Positions /\ err \in Messages
  BY DEF TypeOK
<1>2. \A p \in Positions : After(p) \in Positions /\ p \in Nat
  BY <1>1, DocType
<1>3. \A e \in Messages, p \in Positions : Lexed(e, p) \in Messages
  BY <1>2, LexedType DEF Texts
<1> QED
  BY <1>1, <1>2, <1>3 DEF LexOnce, LexTwice

LEMMA NoticeType ==
    ASSUME TypeOK, NEW p \in Positions, NEW m \in Texts, Notices(p, m)
    PROVE  noticed' \in Seq(Messages) /\ noticed' = Append(noticed, [at |-> p, msg |-> m])
<1>1. [at |-> p, msg |-> m] \in Messages
  BY DocType DEF TypeOK, Messages
<1> QED
  BY <1>1 DEF TypeOK, Notices

LEMMA DiagsAddType ==
    ASSUME TypeOK, NEW e \in Messages, DiagsAdd(e)
    PROVE  diags' \in Seq(Messages) /\ faults' \in 0 .. MaxFaults
<1>1. diags \in Seq(Messages) /\ faults \in 0 .. MaxFaults
  BY DEF TypeOK
<1>2. CASE diags' = (IF e = NoError THEN diags ELSE Append(diags, e)) /\ UNCHANGED faults
  <2>1. diags' = diags \/ diags' = Append(diags, e)
    BY <1>2
  <2> QED
    BY <1>1, <1>2, <2>1
<1>3. CASE Fault /\ UNCHANGED diags
  BY <1>1, <1>3, FaultsAreCounted DEF Fault
<1> QED
  BY <1>2, <1>3 DEF DiagsAdd

LEMMA FaultType ==
    ASSUME TypeOK, Fault
    PROVE  faults' \in 0 .. MaxFaults /\ faults' # MaxFaults
BY FaultsAreCounted DEF TypeOK, Fault

LEMMA ResyncType ==
    ASSUME TypeOK, Resync(pos)
    PROVE  skipped' \in Nat /\ ret' \in {"run", "resync"}
<1>1. doc \in Seq(Tokens) /\ Len(doc) \in Nat /\ DOMAIN doc = 1 .. Len(doc)
  BY DocumentsAreTokens, ElementType DEF TypeOK
<1>2. \A i \in 1 .. Len(doc) : doc[i].line \in Nat
  <2>1. \A i \in 1 .. Len(doc) : doc[i] \in Tokens
    BY <1>1, ElementType
  <2> QED
    BY <2>1 DEF Tokens
<1>3. doc # <<>> => Len(doc) \in 1 .. Len(doc)
  BY <1>1
<1>4. pos \in Nat /\ pos >= 1
  BY <1>1 DEF TypeOK, Positions, End
<1>5. Line(pos) \in Nat
  <2>1. CASE pos < End
    <3>1. pos \in 1 .. Len(doc)
      BY <1>1, <1>4, <2>1 DEF End
    <3> QED
      BY <1>2, <2>1, <3>1 DEF Line
  <2>2. CASE ~(pos < End) /\ pos = End /\ doc # <<>>
    BY <1>2, <1>3, <2>2 DEF Line
  <2>3. CASE ~(pos < End) /\ ~(pos = End /\ doc # <<>>)
    BY <2>3 DEF Line
  <2> QED
    BY <2>1, <2>2, <2>3
<1> QED
  BY <1>5 DEF Resync

LEMMA FirstStack ==
    /\ <<Frame("body", 0)>> \in Stacks /\ <<>> \in Stacks
    /\ Len(<<Frame("body", 0)>>) = 1 /\ <<Frame("body", 0)>> # <<>>
    /\ <<Frame("body", 0)>>[1] = [fn |-> "body", at |-> 0, items |-> {}]
<1>1. Frame("body", 0) \in Frames
  BY DEF Frame, Frames, Functions
<1> QED
  BY <1>1 DEF Stacks, Nested, Frame

LEMMA TypeInit == Init => TypeOK
<1> SUFFICES ASSUME Init PROVE TypeOK
  OBVIOUS
<1>1. doc \in Documents /\ pos = 1 /\ pos \in Positions
  BY DocType DEF Init, Begin
<1>2. err \in Messages /\ NoError \in Messages
  BY DEF Init, Begin, Messages, NoError, Texts
<1>3. calls \in Stacks
  BY FirstStack DEF Init, Begin
<1>4. faults \in 0 .. MaxFaults
  BY FaultsAreCounted DEF Init
<1>5. /\ mode = "strict" /\ ret = "run" /\ skipped = 0 /\ diags = <<>> /\ root = {}
      /\ strict = [ok |-> FALSE, err |-> NoError, root |-> {}, parsed |-> {}]
      /\ parsed = {} /\ noticed = <<>>
  BY DEF Init, Begin
<1>6. diags \in Seq(Messages) /\ noticed \in Seq(Messages)
  BY <1>5
<1>7. strict \in [ok : BOOLEAN, err : Messages, root : SUBSET Nat, parsed : SUBSET Nat]
  BY <1>2, <1>5
<1> QED
  BY <1>1, <1>2, <1>3, <1>4, <1>5, <1>6, <1>7, TypeIsStack

LEMMA ReturnNext ==
    ASSUME TypeOK, calls # <<>>, NEW how \in {"ok", "fail"}, NEW items \in SUBSET Nat,
           Return(how, items), UNCHANGED <<doc, mode, skipped, strict>>,
           pos' \in Positions, err' \in Messages, diags' \in Seq(Messages),
           faults' \in 0 .. MaxFaults, parsed' \subseteq Nat, noticed' \in Seq(Messages)
    PROVE  TypeOK'
<1>1. calls' \in Stacks /\ root' \subseteq Nat /\ ret' = how
  BY Returned
<1> QED
  BY <1>1, TypeNext DEF TypeOK

LEMMA StayNext ==
    ASSUME TypeOK, calls' \in Stacks, ret' \in {"run", "ok", "fail", "resync"}, Keep,
           pos' \in Positions, err' \in Messages
    PROVE  TypeOK'
BY TypeNext DEF TypeOK, Keep

LEMMA TypeStep == TypeOK /\ [Next]_state => TypeOK'
<1> SUFFICES ASSUME TypeOK, [Next]_state PROVE TypeOK'
  OBVIOUS
<1>t. /\ doc \in Documents /\ pos \in Positions /\ err \in Messages /\ calls \in Stacks
      /\ diags \in Seq(Messages) /\ faults \in 0 .. MaxFaults
      /\ parsed \subseteq Nat /\ noticed \in Seq(Messages)
  BY TypeIsStack
<1>p. pos \in Nat /\ After(pos) \in Positions /\ NoError \in Messages
  BY <1>t, DocType DEF Messages, NoError, Texts
<1>f. ASSUME calls # <<>>
      PROVE  /\ Top.items \in SUBSET Nat /\ Top.at \in Nat
             /\ Top.items \cup {Top.at} \in SUBSET Nat /\ {Top.at} \in SUBSET Nat
             /\ {} \in SUBSET Nat
  BY <1>t, <1>f, TopFrame DEF Frames
<1>e. \A m \in Texts : /\ LxErr(err, pos, m) \in Messages
                       /\ LxErr(err, After(pos), m) \in Messages
                       /\ LxErr(Lexed(err, After(pos)), After(pos), m) \in Messages
  <2>1. After(pos) \in Nat
    BY <1>t, <1>p, DocType
  <2> QED
    BY <1>t, <1>p, <2>1, LexedType DEF Texts
<1>1. CASE BodyEnds
  <2>1. calls # <<>> /\ Return("ok", Top.items)
    BY <1>1 DEF BodyEnds, Running, In
  <2> QED
    BY <1>1, <1>t, <1>p, <1>f, <2>1, ReturnNext DEF BodyEnds, Stay
<1>2. CASE BodyCloses
  <2>1. calls # <<>> /\ Return("ok", Top.items)
    BY <1>2 DEF BodyCloses, Running, In
  <2> QED
    BY <1>2, <1>t, <1>p, <1>f, <2>1, ReturnNext DEF BodyCloses, Stay
<1>3. CASE AttrDone
  <2>1. calls # <<>> /\ Return("ok", {Top.at})
    BY <1>3 DEF AttrDone, Running, In
  <2> QED
    BY <1>3, <1>t, <1>p, <1>f, <2>1, ReturnNext DEF AttrDone, Stay
<1>4. CASE BlockDone
  <2>1. calls # <<>> /\ Return("ok", Top.items \cup {Top.at})
    BY <1>4 DEF BlockDone, Running, In
  <2> QED
    BY <1>4, <1>t, <1>p, <1>f, <2>1, ReturnNext, LexType DEF BlockDone
<1>5. CASE ExprAtom
  <2>1. calls # <<>> /\ Return("ok", {})
    BY <1>5 DEF ExprAtom, Running, In
  <2> QED
    BY <1>5, <1>t, <1>p, <1>f, <2>1, ReturnNext, LexType DEF ExprAtom
<1>6. CASE ObjectEnds
  <2>1. calls # <<>> /\ Return("ok", {})
    BY <1>6 DEF ObjectEnds, Running, In
  <2> QED
    BY <1>6, <1>t, <1>p, <1>f, <2>1, ReturnNext, LexType DEF ObjectEnds
<1>7. CASE NoRoot
  <2>1. calls # <<>> /\ Return("fail", {})
    BY <1>7 DEF NoRoot, Running, In, Fails
  <2> QED
    BY <1>7, <1>t, <1>p, <1>f, <2>1, ReturnNext, FaultType DEF NoRoot, Stay
<1>8. CASE AttrLost
  <2>1. calls # <<>> /\ Return("fail", {})
    BY <1>8 DEF AttrLost, Running, In, Fails
  <2> QED
    BY <1>8, <1>t, <1>p, <1>f, <2>1, ReturnNext, FaultType DEF AttrLost, Stay
<1>9. CASE BlockLost
  <2>1. calls # <<>> /\ Return("fail", {})
    BY <1>9 DEF BlockLost, Running, In, Fails
  <2> QED
    BY <1>9, <1>t, <1>p, <1>f, <2>1, ReturnNext, FaultType DEF BlockLost, Stay
<1>10. CASE ObjectLost
  <2>1. calls # <<>> /\ Return("fail", {})
    BY <1>10 DEF ObjectLost, Running, In, Fails
  <2> QED
    BY <1>10, <1>t, <1>p, <1>f, <2>1, ReturnNext, FaultType DEF ObjectLost, Stay
<1>11. CASE BodyLost
  <2>1. calls # <<>> /\ Return("fail", {})
    BY <1>11 DEF BodyLost, Running, In, Fails
  <2> QED
    BY <1>11, <1>t, <1>p, <1>f, <2>1, ReturnNext, FaultType, LexType DEF BodyLost
<1>12. CASE BlockDropped
  <2>1. calls # <<>> /\ Return("fail", {})
    BY <1>12 DEF BlockDropped, Running, In, Fails
  <2> QED
    BY <1>12, <1>t, <1>p, <1>f, <2>1, ReturnNext, FaultType, LexType DEF BlockDropped
<1>13. CASE ExprLost
  <2>1. calls # <<>> /\ Return("fail", {})
    BY <1>13 DEF ExprLost, Running, In, Fails
  <2> QED
    BY <1>13, <1>t, <1>p, <1>f, <2>1, ReturnNext, FaultType, LexType DEF ExprLost, Stay
<1>14. CASE Propagate
  <2>1. calls # <<>> /\ Return("fail", {})
    BY <1>14 DEF Propagate, Running, In, Fails
  <2> QED
    BY <1>14, <1>t, <1>p, <1>f, <2>1, ReturnNext DEF Propagate, Stay
<1>15. CASE BlockWithoutBody
  <2>1. calls # <<>> /\ Return("fail", {}) /\ err' \in Messages /\ Notices(pos, "block")
    BY <1>15, <1>e DEF BlockWithoutBody, Running, In, Fails, Texts
  <2>2. noticed' \in Seq(Messages)
    BY <1>t, <2>1, NoticeType DEF Texts
  <2> QED
    BY <1>15, <1>t, <1>f, <2>1, <2>2, ReturnNext DEF BlockWithoutBody
<1>16. CASE ExprMissing
  <2>1. calls # <<>> /\ Return("fail", {}) /\ err' \in Messages /\ Notices(pos, "expr")
    BY <1>16, <1>e DEF ExprMissing, Running, In, Fails, Texts
  <2>2. noticed' \in Seq(Messages)
    BY <1>t, <2>1, NoticeType DEF Texts
  <2> QED
    BY <1>16, <1>t, <1>f, <2>1, <2>2, ReturnNext DEF ExprMissing
<1>17. CASE ObjectBadKey
  <2>1. calls # <<>> /\ Return("fail", {}) /\ err' \in Messages /\ Notices(pos, "key")
    BY <1>17, <1>e DEF ObjectBadKey, Running, In, Fails, Texts
  <2>2. noticed' \in Seq(Messages)
    BY <1>t, <2>1, NoticeType DEF Texts
  <2> QED
    BY <1>17, <1>t, <1>f, <2>1, <2>2, ReturnNext DEF ObjectBadKey
<1>18. CASE ObjectNoAssign
  <2>1. /\ calls # <<>> /\ Return("fail", {}) /\ err' \in Messages
        /\ pos' = After(pos) /\ Notices(After(pos), "assign")
    BY <1>18, <1>e DEF ObjectNoAssign, Running, In, Fails, Texts
  <2>2. noticed' \in Seq(Messages)
    BY <1>p, <2>1, NoticeType DEF Texts
  <2> QED
    BY <1>18, <1>t, <1>p, <1>f, <2>1, <2>2, ReturnNext DEF ObjectNoAssign
<1>19. CASE NameLost
  <2>1. calls # <<>> /\ (Return("ok", Top.items) \/ Return("fail", {}))
    BY <1>19 DEF NameLost, Running, In, Fails
  <2> QED
    BY <1>19, <1>t, <1>f, <2>1, ReturnNext, FaultType DEF NameLost, Stay
<1>20. CASE ItemDone
  BY <1>20, <1>t, StayNext DEF ItemDone, Stay
<1>21. CASE ObjectItemDone
  BY <1>21, <1>t, StayNext DEF ObjectItemDone, Stay
<1>22. CASE SkipToken
  BY <1>22, <1>t, StayNext, LexType DEF SkipToken, TypeOK
<1>23. CASE BlockLabel
  BY <1>23, <1>t, StayNext, LexType DEF BlockLabel, TypeOK
<1>24. CASE CutOff
  <2>1. calls # <<>> /\ Notices(pos, "eof") /\ err' \in Messages
    BY <1>24, <1>e DEF CutOff, Running, In, Texts
  <2>2. noticed' \in Seq(Messages)
    BY <1>t, <2>1, NoticeType DEF Texts
  <2>3. CASE mode = "diags"
    <3>1. DiagsAdd(err') /\ Return("ok", Top.items)
      BY <1>24, <2>3 DEF CutOff
    <3>2. diags' \in Seq(Messages) /\ faults' \in 0 .. MaxFaults
      BY <2>1, <3>1, DiagsAddType
    <3> QED
      BY <1>24, <1>t, <1>f, <2>1, <2>2, <3>1, <3>2, ReturnNext DEF CutOff
  <2>4. CASE mode # "diags"
    <3>1. UNCHANGED <<diags, faults>> /\ Return("fail", {})
      BY <1>24, <2>4 DEF CutOff, Fails
    <3> QED
      BY <1>24, <1>t, <1>f, <2>1, <2>2, <3>1, ReturnNext DEF CutOff
  <2> QED
    BY <2>3, <2>4
<1>25. CASE StrayBrace
  <2> DEFINE e == LxErr(err, pos, "brace")
  <2>1. calls # <<>> /\ Notices(pos, "brace") /\ e \in Messages
    BY <1>25, <1>e DEF StrayBrace, Running, In, Texts
  <2>2. noticed' \in Seq(Messages)
    BY <1>t, <2>1, NoticeType DEF Texts
  <2>3. CASE mode = "diags"
    <3>1. /\ DiagsAdd(e) /\ pos' = After(pos) /\ err' = Lexed(NoError, After(pos))
          /\ UNCHANGED <<calls, ret, root>>
      BY <1>25, <2>3 DEF StrayBrace
    <3>2. diags' \in Seq(Messages) /\ faults' \in 0 .. MaxFaults
      BY <2>1, <3>1, DiagsAddType
    <3>3. err' \in Messages
      <4>1. After(pos) \in Nat
        BY <1>t, <1>p, DocType
      <4> QED
        BY <1>p, <3>1, <4>1, LexedType DEF Texts
    <3> HIDE DEF e
    <3> QED
      BY <1>25, <1>t, <1>p, <2>2, <3>1, <3>2, <3>3, TypeNext DEF StrayBrace, TypeOK
  <2>4. CASE mode # "diags"
    <3>1. err' = e /\ UNCHANGED <<pos, diags, faults>> /\ Return("fail", {})
      BY <1>25, <2>4 DEF StrayBrace, Fails
    <3> HIDE DEF e
    <3> QED
      BY <1>25, <1>t, <1>f, <2>1, <2>2, <3>1, ReturnNext DEF StrayBrace
  <2> QED
    BY <2>3, <2>4
<1>26. CASE NotAName
  <2> DEFINE e == LxErr(err, pos, "name")
  <2>1. calls # <<>> /\ Notices(pos, "name") /\ e \in Messages
    BY <1>26, <1>e DEF NotAName, Running, In, Texts
  <2>2. noticed' \in Seq(Messages)
    BY <1>t, <2>1, NoticeType DEF Texts
  <2>3. CASE mode = "diags"
    <3>1. DiagsAdd(e) /\ err' = NoError /\ Resync(pos) /\ UNCHANGED <<calls, root>>
      BY <1>26, <2>3 DEF NotAName
    <3>2. diags' \in Seq(Messages) /\ faults' \in 0 .. MaxFaults
      BY <2>1, <3>1, DiagsAddType
    <3>3. skipped' \in Nat /\ ret' \in {"run", "resync"}
      BY <3>1, ResyncType
    <3> HIDE DEF e
    <3> QED
      BY <1>26, <1>t, <1>p, <2>2, <3>1, <3>2, <3>3, TypeNext DEF NotAName, TypeOK
  <2>4. CASE mode # "diags"
    <3>1. err' = e /\ UNCHANGED <<diags, faults, skipped>> /\ Return("fail", {})
      BY <1>26, <2>4 DEF NotAName, Fails
    <3> HIDE DEF e
    <3> QED
      BY <1>26, <1>t, <1>f, <2>1, <2>2, <3>1, ReturnNext DEF NotAName
  <2> QED
    BY <2>3, <2>4
<1>27. CASE ItemFails
  <2>1. calls # <<>>
    BY <1>27 DEF ItemFails, In
  <2>2. CASE mode = "diags"
    <3>1. DiagsAdd(err) /\ err' = NoError /\ Resync(pos) /\ UNCHANGED <<calls, root>>
      BY <1>27, <2>2 DEF ItemFails
    <3>2. diags' \in Seq(Messages) /\ faults' \in 0 .. MaxFaults
      BY <1>t, <3>1, DiagsAddType
    <3>3. skipped' \in Nat /\ ret' \in {"run", "resync"}
      BY <3>1, ResyncType
    <3> QED
      BY <1>27, <1>t, <1>p, <3>1, <3>2, <3>3, TypeNext DEF ItemFails, TypeOK
  <2>3. CASE mode # "diags"
    <3>1. UNCHANGED <<err, diags, skipped, faults>> /\ Return("fail", {})
      BY <1>27, <2>3 DEF ItemFails, Fails
    <3> QED
      BY <1>27, <1>t, <1>f, <2>1, <3>1, ReturnNext DEF ItemFails
  <2> QED
    BY <2>2, <2>3
<1>28. CASE BlockBegins
  <2>1. calls # <<>> /\ Top.fn = "body" /\ calls' = Append(calls, Frame("block", pos)) /\ ret' = "run"
    BY <1>28 DEF BlockBegins, Call, Running, In
  <2>2. calls' \in Stacks
    BY <1>t, <1>p, <2>1, Pushed DEF Top, Depth, CallersOf, Functions
  <2> QED
    BY <1>28, <2>1, <2>2, StayNext, LexType DEF BlockBegins
<1>29. CASE BlockOpens
  <2>1. calls # <<>> /\ Top.fn = "block" /\ calls' = Append(calls, Frame("body", 0)) /\ ret' = "run"
    BY <1>29 DEF BlockOpens, Call, Running, In
  <2>2. calls' \in Stacks
    BY <1>t, <2>1, Pushed DEF Top, Depth, CallersOf, Functions
  <2> QED
    BY <1>29, <2>1, <2>2, StayNext, LexType DEF BlockOpens
<1>30. CASE ObjectItem
  <2>1. calls # <<>> /\ Top.fn = "object" /\ calls' = Append(calls, Frame("expr", 0)) /\ ret' = "run"
    BY <1>30 DEF ObjectItem, Call, Running, In
  <2>2. calls' \in Stacks
    BY <1>t, <2>1, Pushed DEF Top, Depth, CallersOf, Functions
  <2> QED
    BY <1>30, <2>1, <2>2, StayNext, LexType DEF ObjectItem
<1>31. CASE AttrBegins
  <2>1. /\ calls # <<>> /\ Top.fn = "body" /\ ret' = ret
        /\ calls' = Append(Append(calls, Frame("attr", pos)), Frame("expr", 0))
    BY <1>31, <1>t, AppendTwice DEF AttrBegins, Running, In, Stacks
  <2>2. calls' \in Stacks
    BY <1>t, <1>p, <2>1, PushedTwice DEF Top, Depth
  <2> QED
    BY <1>31, <1>t, <2>1, <2>2, StayNext, LexType DEF AttrBegins, TypeOK
<1>32. CASE ExprObject
  <2>1. calls # <<>> /\ Top.fn = "expr" /\ calls' = [calls EXCEPT ![Depth] = Frame("object", 0)]
    BY <1>32 DEF ExprObject, Running, In
  <2>2. calls' \in Stacks
    BY <1>t, <2>1, ReplacedTop, Replaced DEF Top, Depth
  <2> QED
    BY <1>32, <1>t, <2>2, StayNext, LexType DEF ExprObject, TypeOK
<1>33. CASE StrictReturns
  <2>1. Lexed(NoError, 1) \in Messages /\ 1 \in Positions
    BY <1>t, <1>p, DocType, LexedType DEF Texts
  <2>2. strict' \in [ok : BOOLEAN, err : Messages, root : SUBSET Nat, parsed : SUBSET Nat]
    BY <1>33 DEF StrictReturns, TypeOK
  <2>3. calls' \in Stacks /\ noticed' = <<>>
    BY <1>33, FirstStack DEF StrictReturns
  <2>4. noticed' \in Seq(Messages)
    BY <2>3
  <2> QED
    BY <1>33, <1>t, <2>1, <2>2, <2>3, <2>4, TypeNext DEF StrictReturns, TypeOK
<1>34. CASE DiagsLost
  <2>1. strict' \in [ok : BOOLEAN, err : Messages, root : SUBSET Nat, parsed : SUBSET Nat]
    BY <1>34 DEF DiagsLost, TypeOK
  <2> QED
    BY <1>34, <1>t, <2>1, TypeNext, FaultType DEF DiagsLost, TypeOK
<1>35. CASE DocLost
  BY <1>35, <1>t, TypeNext, FaultType DEF DocLost, TypeOK
<1>36. CASE DiagsReturns
  BY <1>36, <1>t, TypeNext DEF DiagsReturns, TypeOK
<1>37. CASE UNCHANGED state
  BY <1>37 DEF state, TypeOK, Depth, Positions, End
<1> QED
  BY <1>1, <1>2, <1>3, <1>4, <1>5, <1>6, <1>7, <1>8, <1>9, <1>10, <1>11, <1>12, <1>13, <1>14, <1>15, <1>16, <1>17, <1>18, <1>19, <1>20, <1>21, <1>22, <1>23, <1>24, <1>25, <1>26, <1>27, <1>28, <1>29, <1>30, <1>31, <1>32, <1>33, <1>34, <1>35, <1>36, <1>37, Zenon DEF Next, Done

\* Every state of the parser is well typed, for all documents and however often
\* allocations fail, and its activations call each other as the functions of
\* src/body.c and src/parse.c do.
THEOREM TypeCorrect == Spec => []TypeOK
<1> QED
  BY TypeInit, TypeStep, PTL DEF Spec

------------------------------------------------------------------------------
(* As long as memory lasts.                                                 *)

\* The steps that allocate what they need.
Step ==
    \/ StrictReturns \/ DiagsReturns
    \/ BodyEnds \/ BodyCloses \/ CutOff \/ StrayBrace \/ NotAName
    \/ AttrBegins \/ BlockBegins \/ ItemDone \/ ItemFails \/ SkipToken
    \/ AttrDone
    \/ BlockLabel \/ BlockWithoutBody \/ BlockOpens \/ BlockDone
    \/ ExprAtom \/ ExprObject \/ ExprMissing
    \/ ObjectEnds \/ ObjectItem \/ ObjectItemDone \/ ObjectBadKey \/ ObjectNoAssign
    \/ Propagate

LEMMA FaultsShow ==
    ASSUME TypeOK, Fault
    PROVE  ~NoFault'
BY FaultType DEF NoFault

LEMMA WithoutFaults ==
    ASSUME TypeOK, [Next]_state, NoFault'
    PROVE  NoFault /\ faults' = faults /\ doc' = doc /\ (Step \/ UNCHANGED state)
<1>1. ~Fault
  BY FaultsShow
<1>2. /\ ~DiagsLost /\ ~DocLost /\ ~NoRoot /\ ~NameLost /\ ~AttrLost /\ ~BlockLost
      /\ ~BodyLost /\ ~BlockDropped /\ ~ExprLost /\ ~ObjectLost
  BY <1>1 DEF DiagsLost, DocLost, NoRoot, NameLost, AttrLost, BlockLost, BodyLost,
              BlockDropped, ExprLost, ObjectLost
<1>3. Step \/ UNCHANGED state
  BY <1>2, Zenon DEF Next, Done, Step
<1>4. faults' = faults /\ doc' = doc
  <2>1. \A e : DiagsAdd(e) => UNCHANGED faults
    BY <1>1 DEF DiagsAdd
  <2> QED
    BY <1>3, <2>1 DEF Step, state, StrictReturns, DiagsReturns, BodyEnds, BodyCloses, CutOff,
      StrayBrace, NotAName, AttrBegins, BlockBegins, ItemDone, ItemFails, SkipToken, AttrDone,
      BlockLabel, BlockWithoutBody, BlockOpens, BlockDone, ExprAtom, ExprObject, ExprMissing,
      ObjectEnds, ObjectItem, ObjectItemDone, ObjectBadKey, ObjectNoAssign, Propagate, Keep
<1>5. NoFault
  BY <1>4 DEF NoFault
<1> QED
  BY <1>3, <1>4, <1>5

\* The function that runs, "none" when the parser has returned.
Fn(cs) == IF cs = <<>> THEN "none" ELSE cs[Len(cs)].fn

\* What a step that stays, calls or returns does to it.
LEMMA RunningFn ==
    ASSUME TypeOK, calls # <<>>
    PROVE  /\ Fn(calls) = Top.fn /\ Fn(calls) \in Functions
           /\ \A fn \in Functions : In(fn) <=> Fn(calls) = fn
BY TypeIsStack, TopFrame DEF Fn, Top, Depth, In, Frames

LEMMA ReturnFn ==
    ASSUME TypeOK, calls # <<>>, NEW how, NEW items \in SUBSET Nat, Return(how, items)
    PROVE  /\ ret' = how
           /\ TopLevel => Fn(calls) = "body" /\ Fn(calls') = "none"
           /\ ~TopLevel => Fn(calls') \in CallersOf(Fn(calls))
<1>1. calls \in Stacks /\ Fn(calls) = Top.fn
  BY TypeIsStack, RunningFn
<1> QED
  BY <1>1, Returned, TopFrame DEF Fn

LEMMA CallFn ==
    ASSUME TypeOK, NEW f, calls' = Append(calls, f)
    PROVE  Fn(calls') = f.fn
BY DEF TypeOK, Fn

------------------------------------------------------------------------------
(* Blocks are closed.                                                       *)

\* What the functions that return "ok" return to.
LEMMA OkReturns ==
    ASSUME TypeOK, Step, ret' = "ok"
    PROVE  \/ DiagsReturns
           \/ BodyEnds /\ Fn(calls') = "none"
           \/ BodyCloses \/ CutOff
           \/ (AttrDone \/ BlockDone) /\ Fn(calls') = "body"
           \/ (ExprAtom \/ ObjectEnds) /\ Fn(calls') \in {"attr", "object"}
<1>1. \A fn \in Functions : In(fn) => calls # <<>> /\ Fn(calls) = fn
  BY RunningFn DEF In
<1>2. calls # <<>> => Top.items \in SUBSET Nat /\ Top.at \in Nat
  BY TypeIsStack, TopFrame DEF Frames
<1>3. CASE BodyEnds
  <2>1. calls # <<>> /\ Return("ok", Top.items) /\ TopLevel
    BY <1>3 DEF BodyEnds, Running, In
  <2> QED
    BY <1>2, <1>3, <2>1, ReturnFn
<1>4. CASE AttrDone
  <2>1. calls # <<>> /\ Return("ok", {Top.at}) /\ Fn(calls) = "attr"
    BY <1>1, <1>4 DEF AttrDone, In, Functions
  <2> QED
    BY <1>2, <1>4, <2>1, ReturnFn, Callers
<1>5. CASE BlockDone
  <2>1. calls # <<>> /\ Return("ok", Top.items \cup {Top.at}) /\ Fn(calls) = "block"
    BY <1>1, <1>5 DEF BlockDone, In, Functions
  <2>2. Top.items \cup {Top.at} \in SUBSET Nat
    BY <1>2, <2>1
  <2> QED
    BY <1>5, <2>1, <2>2, ReturnFn, Callers
<1>6. CASE ExprAtom
  <2>1. calls # <<>> /\ Return("ok", {}) /\ Fn(calls) = "expr"
    BY <1>1, <1>6 DEF ExprAtom, Running, In, Functions
  <2> QED
    BY <1>6, <2>1, ReturnFn, Callers
<1>7. CASE ObjectEnds
  <2>1. calls # <<>> /\ Return("ok", {}) /\ Fn(calls) = "object"
    BY <1>1, <1>7 DEF ObjectEnds, Running, In, Functions
  <2> QED
    BY <1>7, <2>1, ReturnFn, Callers
<1>8. /\ ~StrictReturns /\ ~AttrBegins /\ ~BlockBegins /\ ~ItemDone /\ ~SkipToken
      /\ ~BlockLabel /\ ~BlockWithoutBody /\ ~BlockOpens /\ ~ExprObject /\ ~ExprMissing
      /\ ~ObjectItem /\ ~ObjectItemDone /\ ~ObjectBadKey /\ ~ObjectNoAssign /\ ~Propagate
      /\ ~StrayBrace /\ ~NotAName /\ ~ItemFails
  BY DEF StrictReturns, AttrBegins, BlockBegins, ItemDone, SkipToken, BlockLabel,
         BlockWithoutBody, BlockOpens, ExprObject, ExprMissing, ObjectItem, ObjectItemDone,
         ObjectBadKey, ObjectNoAssign, Propagate, StrayBrace, NotAName, ItemFails,
         Running, Call, Fails, Return, Resync
<1> QED
  BY <1>3, <1>4, <1>5, <1>6, <1>7, <1>8, Zenon DEF Step

LEMMA ClosedStep == TypeOK /\ BlocksClosed /\ [Next]_state => BlocksClosed'
<1> SUFFICES ASSUME TypeOK, BlocksClosed, [Next]_state, NoFault', In("block")', ret' = "ok"
             PROVE  Tok(pos)' \in {"}", "eof"}
  BY DEF BlocksClosed, ClosedByBraceOrEnd
<1>1. NoFault /\ doc' = doc /\ (Step \/ UNCHANGED state)
  BY WithoutFaults
<1>2. Fn(calls') = "block" /\ calls' # <<>>
  BY DEF In, Top, Depth, Fn
<1>3. CASE DiagsReturns \/ UNCHANGED state
  <2>1. calls' = calls /\ ret' = ret /\ pos' = pos
    BY <1>3 DEF DiagsReturns, state
  <2>2. Tok(pos) \in {"}", "eof"}
    BY <1>1, <2>1 DEF BlocksClosed, ClosedByBraceOrEnd, In, Top, Depth
  <2> QED
    BY <1>1, <2>1, <2>2 DEF Tok, End
<1>4. CASE BodyCloses \/ CutOff
  <2>1. pos' = pos /\ Tok(pos) \in {"}", "eof"}
    BY <1>4 DEF BodyCloses, CutOff, Stay
  <2> QED
    BY <1>1, <2>1 DEF Tok, End
<1> QED
  BY <1>1, <1>2, <1>3, <1>4, OkReturns

\* parse_block consumes one token after its body: for all documents it is the
\* body's '}', or nothing is left to consume, in both modes and after whatever
\* recovery, until an allocation fails.
THEOREM BlocksAreClosed == Spec => []BlocksClosed
<1>1. Init => BlocksClosed
  BY DEF Init, Begin, BlocksClosed, ClosedByBraceOrEnd
<1> QED
  BY <1>1, ClosedStep, TypeCorrect, PTL DEF Spec

------------------------------------------------------------------------------
(* The diagnostics list.  Recording states what holds of it while the parser *)
(* goes on: in terms of the current token p, the error buffer e, the list ds, *)
(* the errors ns it has detected, what ret says (r) and the function that     *)
(* runs (f).                                                                  *)

\* A place in the parser from which only the bodies still open have something
\* to say: at the end of the input.
Closing(p, r, f) ==
    p = End /\ r \in {"run", "ok"} /\ (f \in {"none", "body"} \/ (f = "block" /\ r = "ok"))

Closes(p) == Tok(p) = "}"

\* The last diagnostic may be about the current token where a body stopped at
\* it: a '}' that ends an expression too early also ends the body.
Reported(p, ds, r, f) ==
    \/ Closing(p, r, f)
    \/ Closes(p) /\ f = "block" /\ r = "ok"
    \/ Closes(p) /\ f = "body" /\ r = "run" /\ \A j \in DOMAIN ds : ds[j].at = p => ds[j].msg # "brace"

Clean == \A i \in DOMAIN doc : doc[i].kind \notin {"err", "lost"}

\* Diagnostics ds for the errors ns.
Faithful(ds, ns) ==
    /\ \A i, j \in DOMAIN ds : i < j =>
          /\ ds[i].at <= ds[j].at
          /\ ds[i] = ds[j] => ns[j].msg = "eof"
    /\ Clean => \A j \in DOMAIN ds : ds[j].at = ns[j].at

Fresh(e, ds) == \A j \in DOMAIN ds : ds[j] # e

\* What the error buffer holds when it holds something.
Pending(p, e, ds, ns, r, f) ==
    /\ e.at <= p /\ e.msg # "brace"
    /\ \A j \in DOMAIN ds : ds[j].at <= e.at
    /\ Fresh(e, ds) \/ Closing(p, r, f)
    /\ Clean => \/ r = "fail" /\ e.at = ns[Len(ns)].at
                \/ Closing(p, r, f) /\ e.at = End

Recording(p, e, ds, ns, r, f) ==
    /\ Len(ns) = IF r = "fail" THEN Len(ds) + 1 ELSE Len(ds)
    /\ Faithful(ds, ns)
    /\ \A j \in DOMAIN ds : ds[j].at <= p
    /\ e # NoError => Pending(p, e, ds, ns, r, f)
    /\ r = "fail" => /\ e # NoError /\ Fresh(e, ds)
                     /\ \A j \in DOMAIN ds : ds[j].at < p
                     /\ f # "none" /\ f # "block"
    /\ r = "resync" => p < End /\ f = "body"
    /\ r \in {"run", "ok"} /\ f # "none" /\ (\E j \in DOMAIN ds : ds[j].at = p)
          => Reported(p, ds, r, f)
    /\ f = "none" => r = "ok"

DiagsInv ==
    NoFault => /\ mode = "diags" => Recording(pos, err, diags, noticed, ret, Fn(calls))
               /\ Over => calls = <<>> /\ Len(diags) = Len(noticed) /\ Faithful(diags, noticed)
               /\ mode = "strict" => diags = <<>>

LEMMA ListType ==
    ASSUME NEW ds \in Seq(Messages)
    PROVE  /\ DOMAIN ds = 1 .. Len(ds) /\ Len(ds) \in Nat
           /\ \A j \in DOMAIN ds : ds[j] \in Messages /\ ds[j].at \in Nat
<1>1. \A j \in DOMAIN ds : ds[j] \in Messages
  BY ElementType
<1> QED
  BY <1>1, ElementType DEF Messages

LEMMA Extended ==
    ASSUME NEW ds \in Seq(Messages), NEW e \in Messages, NEW more, more = Append(ds, e)
    PROVE  /\ more \in Seq(Messages) /\ Len(more) = Len(ds) + 1
           /\ more[Len(more)] = e
           /\ \A j \in DOMAIN ds : more[j] = ds[j]
           /\ \A j \in DOMAIN more : j \in DOMAIN ds \/ (j = Len(more) /\ j \notin DOMAIN ds)
           /\ \A i, j \in DOMAIN more : i < j => i \in DOMAIN ds
<1>1. DOMAIN ds = 1 .. Len(ds) /\ Len(ds) \in Nat
  BY ListType
<1>2. /\ more \in Seq(Messages) /\ Len(more) = Len(ds) + 1 /\ more[Len(ds) + 1] = e
      /\ \A i \in 1 .. Len(ds) : more[i] = ds[i]
  BY StackPush
<1>3. DOMAIN more = 1 .. Len(ds) + 1
  BY <1>2, ListType
<1> QED
  BY <1>1, <1>2, <1>3

LEMMA LexedIs ==
    ASSUME doc \in Documents, NEW e \in Messages, NEW q \in Positions
    PROVE  /\ Lexed(e, q) = e \/ (e = NoError /\ Lexed(e, q) = [at |-> q, msg |-> "lexical"] /\ ~Clean)
           /\ Tok(q) # "err" => Lexed(e, q) = e
<1>1. Tok(q) = "err" => ~Clean
  <2>1. DOMAIN doc = 1 .. Len(doc) /\ Len(doc) \in Nat
    BY DocumentsAreTokens, ElementType
  <2>2. q < End => q \in DOMAIN doc
    BY <2>1 DEF End, Positions
  <2> QED
    BY <2>2 DEF Tok, Clean
<1> QED
  BY <1>1 DEF Lexed, LxErr

\* The parser moves on to a later token.
Advances(p, e, ds, r, q, r2, g) ==
    /\ p \in Positions /\ e \in Messages /\ ds \in Seq(Messages) /\ q \in Positions
    /\ r # "fail" /\ p < q /\ g # "none"
    /\ r2 \in {"run", "ok", "resync"}
    /\ r2 = "resync" => q < End /\ g = "body"

LEMMA RecordAdvance ==
    ASSUME doc \in Documents, NEW p, NEW e, NEW ds, NEW ns, NEW r, NEW f, NEW q, NEW r2, NEW g,
           Recording(p, e, ds, ns, r, f), Advances(p, e, ds, r, q, r2, g)
    PROVE  Recording(q, Lexed(e, q), ds, ns, r2, g)
<1>0. /\ p \in Positions /\ e \in Messages /\ ds \in Seq(Messages) /\ q \in Positions
      /\ r # "fail" /\ p < q /\ g # "none"
      /\ r2 \in {"run", "ok", "resync"}
      /\ r2 = "resync" => q < End /\ g = "body"
  BY DEF Advances
<1>1. p < End /\ p \in Nat /\ q \in Nat /\ ~Closing(p, r, f)
  BY <1>0, DocType DEF Positions, Closing
<1>2. \A j \in DOMAIN ds : ds[j].at \in Nat /\ ds[j].at <= p /\ ds[j].at < q /\ ds[j].at <= q /\ ds[j].at # q
  <2>1. \A j \in DOMAIN ds : ds[j].at \in Nat
    BY <1>0, ListType
  <2> QED
    BY <1>0, <1>1, <2>1 DEF Recording
<1>3. CASE e # NoError
  <2>1. Lexed(e, q) = e
    BY <1>0, <1>3, LexedIs
  <2>2. Pending(p, e, ds, ns, r, f) /\ e.at \in Nat
    BY <1>0, <1>3 DEF Recording, Messages
  <2>3. Pending(q, e, ds, ns, r2, g)
    BY <1>0, <1>1, <2>2 DEF Pending
  <2> QED
    BY <1>0, <1>2, <2>1, <2>3 DEF Recording
<1>4. CASE e = NoError /\ Lexed(e, q) = [at |-> q, msg |-> "lexical"] /\ ~Clean
  <2> DEFINE x == [at |-> q, msg |-> "lexical"]
  <2>1. x.at = q /\ x.msg = "lexical"
    OBVIOUS
  <2> HIDE DEF x
  <2>2. Pending(q, x, ds, ns, r2, g)
    BY <1>0, <1>1, <1>2, <1>4, <2>1 DEF Pending, Fresh
  <2> QED
    BY <1>0, <1>2, <1>4, <2>2 DEF Recording, x
<1>5. CASE e = NoError /\ Lexed(e, q) = e
  BY <1>0, <1>2, <1>5 DEF Recording
<1> QED
  BY <1>0, <1>3, <1>4, <1>5, LexedIs

\* A function below a body detects an error.
Stops(p, e, ds, ns, f, q, g, note, e1, x, more) ==
    /\ p \in Positions /\ e \in Messages /\ ds \in Seq(Messages) /\ ns \in Seq(Messages)
    /\ f \in {"block", "expr", "object"} /\ q \in Positions /\ g \in {"body", "attr", "object"}
    /\ e1 = e \/ e1 = Lexed(e, q)
    /\ p <= q
    /\ note \in Messages /\ note.at = q /\ note.msg # "brace" /\ note # NoError
    /\ x = IF e1 = NoError THEN note ELSE e1
    /\ more = Append(ns, note)
    /\ Recording(p, e, ds, ns, "run", f)

LEMMA RecordStops ==
    ASSUME doc \in Documents, NEW p, NEW e, NEW ds, NEW ns, NEW f, NEW q, NEW g,
           NEW note, NEW e1, NEW x, NEW more, Stops(p, e, ds, ns, f, q, g, note, e1, x, more)
    PROVE  Recording(q, x, ds, more, "fail", g)
<1> SUFFICES ASSUME
           p \in Positions, e \in Messages, ds \in Seq(Messages), ns \in Seq(Messages),
           f \in {"block", "expr", "object"}, q \in Positions, g \in {"body", "attr", "object"},
           e1 = e \/ e1 = Lexed(e, q), p <= q,
           note \in Messages, note.at = q, note.msg # "brace", note # NoError,
           x = IF e1 = NoError THEN note ELSE e1, more = Append(ns, note),
           Recording(p, e, ds, ns, "run", f)
         PROVE Recording(q, x, ds, more, "fail", g)
  BY DEF Stops
<1>1. p \in Nat /\ q \in Nat
  BY DocType DEF Positions
<1>2. /\ DOMAIN ds = 1 .. Len(ds) /\ Len(ds) \in Nat /\ Len(ns) = Len(ds)
      /\ DOMAIN ns = DOMAIN ds
      /\ \A j \in DOMAIN ds : ds[j].at \in Nat
  BY ListType DEF Recording
<1>3. /\ Len(more) = Len(ds) + 1 /\ more[Len(more)] = note
      /\ \A j \in DOMAIN ds : more[j] = ns[j]
  BY <1>1, <1>2, Extended
<1>4. ~Closing(p, "run", f) /\ ~Reported(p, ds, "run", f)
  BY DEF Closing, Reported
<1>5. \A j \in DOMAIN ds : ds[j].at < q /\ ds[j].at <= q
  <2>1. \A j \in DOMAIN ds : ds[j].at <= p /\ ds[j].at # p
    BY <1>4 DEF Recording
  <2>2. ASSUME NEW j \in DOMAIN ds PROVE ds[j].at < q /\ ds[j].at <= q
    <3>1. ds[j].at \in Nat /\ ds[j].at <= p /\ ds[j].at # p
      BY <1>2, <2>1
    <3> QED
      BY <1>1, <3>1
  <2> QED
    BY <2>2
<1>6. e # NoError => x = e /\ Fresh(e, ds) /\ ~Clean /\ e.at <= q /\ e.msg # "brace"
                     /\ \A j \in DOMAIN ds : ds[j].at <= e.at
  <2> SUFFICES ASSUME e # NoError
               PROVE  x = e /\ Fresh(e, ds) /\ ~Clean /\ e.at <= q /\ e.msg # "brace"
                      /\ \A j \in DOMAIN ds : ds[j].at <= e.at
    OBVIOUS
  <2>1. x = e
    BY LexedIs
  <2>2. Pending(p, e, ds, ns, "run", f) /\ e.at \in Nat
    BY DEF Recording, Messages
  <2>3. Fresh(e, ds) /\ ~Clean /\ e.at <= p /\ e.msg # "brace"
        /\ \A j \in DOMAIN ds : ds[j].at <= e.at
    BY <1>4, <2>2 DEF Pending
  <2> QED
    BY <1>1, <2>1, <2>2, <2>3
<1>7. e = NoError => x.at = q /\ x.msg # "brace" /\ x # NoError
  <2> DEFINE y == [at |-> q, msg |-> "lexical"]
  <2>1. y.at = q /\ y.msg = "lexical" /\ y # NoError
    BY DEF NoError
  <2>2. e1 = e \/ e1 = y
    BY LexedIs
  <2> HIDE DEF y
  <2>3. e = NoError => x = note \/ x = y
    BY <2>1, <2>2
  <2> QED
    BY <1>1, <2>1, <2>3
<1>8. Faithful(ds, more)
  BY <1>2, <1>3 DEF Faithful, Recording
<1>9. x # NoError /\ x.at <= q /\ x.msg # "brace" /\ \A j \in DOMAIN ds : ds[j].at <= x.at
  BY <1>1, <1>5, <1>6, <1>7
<1>10. Fresh(x, ds)
  <2>1. CASE e = NoError
    <3>1. \A j \in DOMAIN ds : ds[j].at # x.at
      BY <1>1, <1>2, <1>5, <1>7, <2>1
    <3> QED
      BY <3>1 DEF Fresh
  <2> QED
    BY <1>6, <2>1
<1>11. Clean => x.at = more[Len(more)].at
  BY <1>1, <1>3, <1>6, <1>7
<1>12. Pending(q, x, ds, more, "fail", g)
  BY <1>9, <1>10, <1>11 DEF Pending
<1> QED
  BY <1>2, <1>3, <1>5, <1>8, <1>9, <1>10, <1>12 DEF Recording

\* What a list that is faithful to the errors needs of the next diagnostic.
LEMMA FaithfulMore ==
    ASSUME NEW ds \in Seq(Messages), NEW ns \in Seq(Messages), NEW x \in Messages,
           NEW dsx, dsx = Append(ds, x), Len(ns) = Len(ds) + 1, Faithful(ds, ns),
           \A j \in DOMAIN ds : ds[j].at <= x.at,
           Fresh(x, ds) \/ ns[Len(ns)].msg = "eof",
           Clean => x.at = ns[Len(ns)].at
    PROVE  Faithful(dsx, ns)
<1>1. /\ Len(dsx) = Len(ns) /\ dsx[Len(dsx)] = x
      /\ \A j \in DOMAIN ds : dsx[j] = ds[j]
      /\ \A j \in DOMAIN dsx : j \in DOMAIN ds \/ (j = Len(dsx) /\ j \notin DOMAIN ds)
      /\ \A i, j \in DOMAIN dsx : i < j => i \in DOMAIN ds
  BY Extended
<1>2. ASSUME NEW i \in DOMAIN dsx, NEW j \in DOMAIN dsx, i < j
      PROVE  dsx[i].at <= dsx[j].at /\ (dsx[i] = dsx[j] => ns[j].msg = "eof")
  <2>1. i \in DOMAIN ds /\ dsx[i] = ds[i]
    BY <1>1, <1>2
  <2>2. CASE j \in DOMAIN ds
    BY <1>1, <1>2, <2>1, <2>2 DEF Faithful
  <2>3. CASE j = Len(dsx)
    BY <1>1, <2>1, <2>3 DEF Fresh
  <2> QED
    BY <1>1, <2>2, <2>3
<1>3. ASSUME Clean, NEW j \in DOMAIN dsx PROVE dsx[j].at = ns[j].at
  BY <1>1, <1>3 DEF Faithful
<1> QED
  BY <1>2, <1>3 DEF Faithful

\* A body detects an error at p and records the message in the buffer, x.
Records(p, e, ds, ns, note, x, dsx, nsx) ==
    /\ p \in Positions /\ e \in Messages /\ ds \in Seq(Messages) /\ ns \in Seq(Messages)
    /\ note \in Messages /\ note.at = p /\ note # NoError
    /\ x = IF e = NoError THEN note ELSE e
    /\ dsx = Append(ds, x) /\ nsx = Append(ns, note)
    /\ Recording(p, e, ds, ns, "run", "body")

LEMMA NoErrorType == NoError \in Messages
BY DEF NoError, Messages, Texts

LEMMA BodyRecords ==
    ASSUME doc \in Documents, NEW p, NEW e, NEW ds, NEW ns, NEW note, NEW x, NEW dsx, NEW nsx,
           Records(p, e, ds, ns, note, x, dsx, nsx),
           (note.msg = "eof" /\ p = End) \/ (p < End /\ Fresh(note, ds))
    PROVE  /\ Len(nsx) = Len(dsx) /\ Faithful(dsx, nsx) /\ dsx \in Seq(Messages)
           /\ x \in Messages /\ x # NoError /\ x.at <= p /\ (e # NoError => x = e)
           /\ \A j \in DOMAIN dsx : dsx[j].at <= x.at /\ dsx[j].at <= p
           /\ Clean => x.at = p
<1>0. /\ p \in Positions /\ e \in Messages /\ ds \in Seq(Messages) /\ ns \in Seq(Messages)
      /\ note \in Messages /\ note.at = p /\ note # NoError
      /\ x = IF e = NoError THEN note ELSE e
      /\ dsx = Append(ds, x) /\ nsx = Append(ns, note)
      /\ Recording(p, e, ds, ns, "run", "body")
  BY DEF Records
<1>1. p \in Nat /\ p <= End /\ End \in Nat
  BY <1>0, DocType
<1>2. /\ DOMAIN ds = 1 .. Len(ds) /\ Len(ds) \in Nat /\ Len(ns) = Len(ds)
      /\ DOMAIN ns = DOMAIN ds
      /\ \A j \in DOMAIN ds : ds[j].at \in Nat
      /\ \A j \in DOMAIN ds : ds[j].at <= p
      /\ Faithful(ds, ns)
  BY <1>0, ListType DEF Recording
<1>3. /\ Len(nsx) = Len(ds) + 1 /\ nsx[Len(nsx)] = note
      /\ nsx \in Seq(Messages) /\ \A j \in DOMAIN ds : nsx[j] = ns[j]
  BY <1>0, <1>2, Extended
<1>4. x \in Messages /\ x # NoError /\ (e # NoError => x = e) /\ (e = NoError => x = note)
  BY <1>0
<1>5. /\ Len(dsx) = Len(ds) + 1 /\ dsx[Len(dsx)] = x /\ dsx \in Seq(Messages)
      /\ \A j \in DOMAIN ds : dsx[j] = ds[j]
      /\ \A j \in DOMAIN dsx : j \in DOMAIN ds \/ j = Len(dsx)
  BY <1>0, <1>4, Extended
<1>6. e # NoError => /\ e.at <= p /\ (Fresh(e, ds) \/ p = End) /\ (Clean => e.at = p)
                     /\ \A j \in DOMAIN ds : ds[j].at <= e.at
  BY <1>0 DEF Recording, Pending, Closing
<1>6a. e # NoError => e.at <= p /\ (Clean => e.at = p)
  BY <1>0 DEF Recording, Pending, Closing
<1>7. x.at <= p /\ (\A j \in DOMAIN ds : ds[j].at <= x.at) /\ (Clean => x.at = p)
  <2>1. CASE e = NoError
    BY <1>0, <1>1, <1>2, <1>4, <2>1
  <2>2. CASE e # NoError
    BY <1>4, <1>6, <1>6a, <2>2
  <2> QED
    BY <2>1, <2>2
<1>8. Fresh(x, ds) \/ note.msg = "eof"
  <2>1. CASE p = End
    BY <1>1, <2>1
  <2>2. CASE p < End
    <3>1. p # End
      BY <1>1, <2>2
    <3> QED
      BY <1>4, <1>6, <3>1
  <2> QED
    BY <2>1, <2>2
<1>9. Faithful(ds, nsx)
  BY <1>2, <1>3 DEF Faithful
<1>10. Faithful(dsx, nsx)
  BY <1>0, <1>2, <1>3, <1>4, <1>7, <1>8, <1>9, FaithfulMore
<1>11. x.at \in Nat
  BY <1>4 DEF Messages
<1>12. \A j \in DOMAIN dsx : dsx[j].at <= x.at /\ dsx[j].at <= p
  <2>1. x.at <= x.at
    BY <1>11
  <2> QED
    BY <1>2, <1>5, <1>7, <2>1
<1> QED
  BY <1>3, <1>4, <1>5, <1>7, <1>10, <1>12

LEMMA RecordCutOff ==
    ASSUME doc \in Documents, NEW p, NEW e, NEW ds, NEW ns, NEW note, NEW x, NEW dsx, NEW nsx,
           Records(p, e, ds, ns, note, x, dsx, nsx), p = End, note.msg = "eof"
    PROVE  Recording(p, x, dsx, nsx, "ok", "block")
<1>2. /\ Len(nsx) = Len(dsx) /\ Faithful(dsx, nsx) /\ x.at <= p
      /\ (e # NoError => x = e)
      /\ \A j \in DOMAIN dsx : dsx[j].at <= x.at /\ dsx[j].at <= p
      /\ Clean => x.at = p
  BY BodyRecords
<1>3. Closing(p, "ok", "block") /\ Reported(p, dsx, "ok", "block")
  BY DEF Closing, Reported
<1>4. x.msg # "brace"
  <2>1. e # NoError => e.msg # "brace"
    BY DEF Records, Recording, Pending
  <2>2. e = NoError => x = note
    BY DEF Records
  <2> QED
    BY <1>2, <2>1, <2>2
<1>5. Pending(p, x, dsx, nsx, "ok", "block")
  BY <1>2, <1>3, <1>4 DEF Pending
<1> QED
  BY <1>2, <1>3, <1>5 DEF Recording

LEMMA RecordStray ==
    ASSUME doc \in Documents, NEW p, NEW e, NEW ds, NEW ns, NEW note, NEW x, NEW dsx, NEW nsx,
           Records(p, e, ds, ns, note, x, dsx, nsx), p < End, note.msg = "brace"
    PROVE  Recording(After(p), Lexed(NoError, After(p)), dsx, nsx, "run", "body")
<1>1. p < End /\ After(p) \in Positions /\ After(p) = p + 1 /\ p \in Nat
  BY DocType DEF Records, Positions
<1>2. Fresh(note, ds)
  <2>1. ~Closing(p, "run", "body")
    BY <1>1 DEF Closing
  <2>2. \A j \in DOMAIN ds : ds[j].at = p => ds[j].msg # "brace"
    BY <2>1 DEF Records, Recording, Reported
  <2> QED
    BY <2>2 DEF Records, Fresh
<1>3. /\ Len(nsx) = Len(dsx) /\ Faithful(dsx, nsx) /\ dsx \in Seq(Messages)
      /\ \A j \in DOMAIN dsx : dsx[j].at <= p
  BY <1>1, <1>2, BodyRecords
<1>4. Recording(p, NoError, dsx, nsx, "resync", "body")
  BY <1>1, <1>3 DEF Recording
<1>5. NoError \in Messages /\ p < After(p) /\ p \in Positions
  BY <1>1, NoErrorType DEF Records
<1>6. Advances(p, NoError, dsx, "resync", After(p), "run", "body")
  BY <1>1, <1>3, <1>5 DEF Advances
<1> QED
  BY <1>4, <1>6, RecordAdvance

LEMMA RecordNotAName ==
    ASSUME doc \in Documents, NEW p, NEW e, NEW ds, NEW ns, NEW note, NEW x, NEW dsx, NEW nsx,
           Records(p, e, ds, ns, note, x, dsx, nsx), p < End, ~Closes(p)
    PROVE  Recording(p, NoError, dsx, nsx, "resync", "body")
<1>1. p \in Nat /\ p # End
  BY DocType DEF Records, Positions
<1>2. Fresh(note, ds)
  <2>1. ~Reported(p, ds, "run", "body")
    BY <1>1 DEF Closing, Reported
  <2>2. \A j \in DOMAIN ds : ds[j].at # p
    BY <2>1 DEF Records, Recording
  <2> QED
    BY <2>2 DEF Records, Fresh
<1>3. /\ Len(nsx) = Len(dsx) /\ Faithful(dsx, nsx) /\ dsx \in Seq(Messages)
      /\ \A j \in DOMAIN dsx : dsx[j].at <= p
  BY <1>1, <1>2, BodyRecords
<1> QED
  BY <1>1, <1>3 DEF Recording

\* An item failed: its message is recorded now.
ItemRecords(p, e, ds, ns, dsx, r) ==
    /\ p \in Positions /\ e \in Messages /\ ds \in Seq(Messages) /\ ns \in Seq(Messages)
    /\ Recording(p, e, ds, ns, "fail", "body")
    /\ dsx = Append(ds, e)
    /\ r \in {"run", "resync"}
    /\ r = "resync" => p < End
    /\ r = "run" => p = End \/ Closes(p)

LEMMA RecordItem ==
    ASSUME doc \in Documents, NEW p, NEW e, NEW ds, NEW ns, NEW dsx, NEW r,
           ItemRecords(p, e, ds, ns, dsx, r)
    PROVE  Recording(p, NoError, dsx, ns, r, "body")
<1> SUFFICES ASSUME
           p \in Positions, e \in Messages, ds \in Seq(Messages), ns \in Seq(Messages),
           Recording(p, e, ds, ns, "fail", "body"), dsx = Append(ds, e),
           r \in {"run", "resync"}, r = "resync" => p < End, r = "run" => p = End \/ Closes(p)
         PROVE Recording(p, NoError, dsx, ns, r, "body")
  BY DEF ItemRecords
<1>1. p \in Nat
  BY DocType
<1>2. e # NoError /\ Fresh(e, ds) /\ Len(ns) = Len(ds) + 1 /\ Faithful(ds, ns)
  BY DEF Recording
<1>3. Pending(p, e, ds, ns, "fail", "body") /\ ~Closing(p, "fail", "body")
  BY DEF Recording, Closing
<1>4. e.at <= p /\ e.msg # "brace" /\ (\A j \in DOMAIN ds : ds[j].at <= e.at)
      /\ (Clean => e.at = ns[Len(ns)].at)
  BY <1>3 DEF Pending
<1>5. Faithful(dsx, ns)
  BY <1>2, <1>4, FaithfulMore
<1>6. /\ Len(dsx) = Len(ns) /\ dsx[Len(dsx)] = e
      /\ \A j \in DOMAIN ds : dsx[j] = ds[j]
      /\ \A j \in DOMAIN dsx : j \in DOMAIN ds \/ j = Len(dsx)
  BY <1>2, Extended
<1>7. \A j \in DOMAIN ds : ds[j].at < p /\ ds[j].at <= p /\ ds[j].at # p
  <2>1. \A j \in DOMAIN ds : ds[j].at \in Nat /\ ds[j].at < p
    BY ListType DEF Recording
  <2> QED
    BY <1>1, <2>1
<1>8. \A j \in DOMAIN dsx : dsx[j].at <= p /\ (dsx[j].at = p => dsx[j].msg # "brace")
  BY <1>4, <1>6, <1>7
<1>9. r = "run" => Reported(p, dsx, "run", "body")
  BY <1>1, <1>8 DEF Reported, Closing
<1> QED
  BY <1>2, <1>5, <1>6, <1>8, <1>9 DEF Recording

------------------------------------------------------------------------------
(* The diagnosing parser keeps the list as Recording says.                   *)

LEMMA RecordPrime ==
    ASSUME doc' = doc, Recording(pos', err', diags', noticed', ret', Fn(calls'))
    PROVE  Recording(pos, err, diags, noticed, ret, Fn(calls))'
BY DEF Recording, Pending, Faithful, Fresh, Clean, Closing, Reported, Closes, Tok, End, Fn

\* Without faults, the list grows by the message.
LEMMA DiagsAdds ==
    ASSUME TypeOK, NoFault', NEW e, DiagsAdd(e), e # NoError
    PROVE  diags' = Append(diags, e)
BY FaultsShow DEF DiagsAdd

LEMMA ModeKept ==
    ASSUME Step, ~StrictReturns, ~DiagsReturns
    PROVE  mode' = mode
BY DEF Step, BodyEnds, BodyCloses, CutOff,
      StrayBrace, NotAName, AttrBegins, BlockBegins, ItemDone, ItemFails, SkipToken, AttrDone,
      BlockLabel, BlockWithoutBody, BlockOpens, BlockDone, ExprAtom, ExprObject, ExprMissing,
      ObjectEnds, ObjectItem, ObjectItemDone, ObjectBadKey, ObjectNoAssign, Propagate, Keep

LEMMA StepsRun ==
    ASSUME TypeOK, Step, ~StrictReturns, ~DiagsReturns
    PROVE  calls # <<>>
BY DEF Step, BodyEnds, BodyCloses, CutOff,
      StrayBrace, NotAName, AttrBegins, BlockBegins, ItemDone, ItemFails, SkipToken, AttrDone,
      BlockLabel, BlockWithoutBody, BlockOpens, BlockDone, ExprAtom, ExprObject, ExprMissing,
      ObjectEnds, ObjectItem, ObjectItemDone, ObjectBadKey, ObjectNoAssign, Propagate,
      Running, In

\* hcl2_parse records nothing.
LEMMA StrictKeepsNone ==
    ASSUME Step, mode = "strict"
    PROVE  diags' = diags
BY DEF Step, StrictReturns, DiagsReturns, BodyEnds, BodyCloses, CutOff,
      StrayBrace, NotAName, AttrBegins, BlockBegins, ItemDone, ItemFails, SkipToken, AttrDone,
      BlockLabel, BlockWithoutBody, BlockOpens, BlockDone, ExprAtom, ExprObject, ExprMissing,
      ObjectEnds, ObjectItem, ObjectItemDone, ObjectBadKey, ObjectNoAssign, Propagate, Keep

\* Lexing one token, or a name and the '=' after it, moves on.
Lexes == LexOnce \/ (LexTwice /\ Tok(After(pos)) = "=")

LEMMA LexesOn ==
    ASSUME TypeOK, pos < End, Lexes
    PROVE  pos' \in Positions /\ pos < pos' /\ err' = Lexed(err, pos')
<1>1. /\ doc \in Documents /\ pos \in Positions /\ pos \in Nat /\ End \in Nat /\ err \in Messages
      /\ After(pos) = pos + 1 /\ After(pos) \in Positions
  BY DocType DEF TypeOK
<1>2. CASE LexOnce
  BY <1>1, <1>2 DEF LexOnce
<1>3. CASE LexTwice /\ Tok(After(pos)) = "="
  <2>1. After(pos) # End /\ Lexed(err, After(pos)) = err
    BY <1>1, <1>3, LexedIs, DocType
  <2>2. After(pos) \in Nat /\ After(pos) <= End
    BY <1>1, DocType
  <2>3. After(pos) < End
    BY <1>1, <2>1, <2>2
  <2>4. After(After(pos)) = After(pos) + 1 /\ After(After(pos)) \in Positions
    BY <1>1, <2>3, DocType
  <2>5. pos' = After(After(pos)) /\ err' = Lexed(err, pos')
    BY <1>3, <2>1 DEF LexTwice
  <2> QED
    BY <1>1, <2>4, <2>5
<1> QED
  BY <1>2, <1>3 DEF Lexes

LEMMA AdvanceStep ==
    ASSUME TypeOK, Recording(pos, err, diags, noticed, ret, Fn(calls)), ret # "fail",
           pos < End, Lexes,
           UNCHANGED <<diags, noticed>>, ret' \in {"run", "ok", "resync"}, Fn(calls') # "none",
           ret' = "resync" => pos' < End /\ Fn(calls') = "body"
    PROVE  Recording(pos', err', diags', noticed', ret', Fn(calls'))
<1>1. /\ doc \in Documents /\ pos \in Positions /\ err \in Messages /\ diags \in Seq(Messages)
      /\ diags' = diags /\ noticed' = noticed
  BY DEF TypeOK
<1>2. pos' \in Positions /\ pos < pos' /\ err' = Lexed(err, pos')
  BY LexesOn
<1>3. Recording(pos', Lexed(err, pos'), diags, noticed, ret', Fn(calls'))
  <2>1. Advances(pos, err, diags, ret, pos', ret', Fn(calls'))
    BY <1>1, <1>2 DEF Advances
  <2> QED
    BY <1>1, <2>1, RecordAdvance
<1> QED
  BY <1>1, <1>2, <1>3

\* The functions that lex and go on, call or return.
LEMMA AdvanceCases ==
    ASSUME TypeOK, TypeOK', Recording(pos, err, diags, noticed, ret, Fn(calls)),
           \/ AttrBegins \/ BlockBegins \/ SkipToken \/ BlockLabel \/ BlockOpens \/ ExprAtom
           \/ ExprObject \/ ObjectEnds \/ ObjectItem \/ (BlockDone /\ pos < End)
    PROVE  Recording(pos', err', diags', noticed', ret', Fn(calls'))
<1>t. doc \in Documents /\ pos \in Positions /\ pos \in Nat /\ pos <= End /\ End \in Nat
      /\ (pos = End <=> Tok(pos) = "eof") /\ calls \in Seq(Frames)
  BY DocType DEF TypeOK, Frames
<1>e. Tok(pos) # "eof" => pos < End
  BY <1>t
<1>f. \A fn \in Functions : In(fn) => calls # <<>> /\ Fn(calls) = fn
  BY RunningFn DEF In
<1>g. calls' # <<>> => Fn(calls') # "none"
  <2>1. calls' # <<>> => calls' \in Seq(Frames) /\ Len(calls') \in 1 .. Len(calls')
    BY DEF TypeOK, Frames
  <2>2. calls' # <<>> => calls'[Len(calls')] \in Frames
    BY <2>1, ElementType
  <2> QED
    BY <2>2 DEF Frames, Functions, Fn
<1>a. \A f : Append(calls, f) # <<>>
  BY <1>t
<1>1. CASE AttrBegins
  <2>1. Tok(pos) = "id" /\ Tok(After(pos)) = "=" /\ LexTwice /\ ret = "run" /\ ret' = ret
        /\ UNCHANGED <<diags, noticed>> /\ calls' = calls \o <<Frame("attr", pos), Frame("expr", 0)>>
    BY <1>1 DEF AttrBegins, Running, Keep
  <2>2. calls' # <<>>
    BY <2>1, <1>t, AppendTwice
  <2>3. pos < End
    BY <1>e, <2>1
  <2>4. Fn(calls') # "none"
    BY <1>g, <2>2
  <2> QED
    BY <2>1, <2>3, <2>4, AdvanceStep DEF Lexes
<1>2. CASE BlockBegins \/ BlockOpens \/ ObjectItem
  <2>1. /\ Tok(pos) # "eof" /\ (LexOnce \/ (LexTwice /\ Tok(After(pos)) = "=")) /\ ret = "run"
        /\ ret' = "run" /\ UNCHANGED <<diags, noticed>> /\ \E f : calls' = Append(calls, f)
    BY <1>2 DEF BlockBegins, BlockOpens, ObjectItem, Call, Running, Keep
  <2>2. Fn(calls') # "none" /\ pos < End
    BY <1>a, <1>e, <1>g, <2>1
  <2> QED
    BY <2>1, <2>2, AdvanceStep DEF Lexes
<1>3. CASE SkipToken
  <2>1. /\ calls' = calls /\ UNCHANGED <<diags, noticed>> /\ LexOnce /\ ret = "resync" /\ In("body")
        /\ ret' = IF Tok(pos') \in {"eof", "}"} \/ Line(pos') > skipped THEN "run" ELSE "resync"
    BY <1>3 DEF SkipToken, Keep
  <2>2. Fn(calls) = "body" /\ pos < End
    BY <1>f, <2>1 DEF Recording, Functions
  <2>3. pos' \in Positions
    BY <2>1, LexType
  <2>4. ret' = "resync" => pos' # End
    BY <1>t, <2>1, <2>3, DocType
  <2>5. ret' = "resync" => pos' < End
    BY <1>t, <2>3, <2>4, DocType
  <2>6. ret' \in {"run", "resync"}
    BY <2>1
  <2> QED
    BY <2>1, <2>2, <2>5, <2>6, AdvanceStep DEF Lexes
<1>4. CASE BlockLabel
  <2>1. /\ calls' = calls /\ UNCHANGED <<diags, noticed>> /\ LexOnce /\ ret = "run" /\ ret' = ret
        /\ In("block") /\ Tok(pos) # "eof"
    BY <1>4 DEF BlockLabel, Keep, Running
  <2>2. Fn(calls') # "none" /\ pos < End
    BY <1>e, <1>f, <2>1 DEF Functions
  <2> QED
    BY <2>1, <2>2, AdvanceStep DEF Lexes
<1>5. CASE ExprObject
  <2>1. /\ calls # <<>> /\ calls' = [calls EXCEPT ![Depth] = Frame("object", 0)] /\ Tok(pos) # "eof"
        /\ UNCHANGED <<diags, noticed>> /\ LexOnce /\ ret = "run" /\ ret' = ret
    BY <1>5 DEF ExprObject, Keep, Running, In
  <2>2. calls' # <<>>
    BY <1>t, <2>1, TypeIsStack, ReplacedTop DEF Depth, Stacks
  <2>3. Fn(calls') # "none" /\ pos < End
    BY <1>e, <1>g, <2>1, <2>2
  <2> QED
    BY <2>1, <2>3, AdvanceStep DEF Lexes
<1>6. CASE ExprAtom \/ ObjectEnds
  <2>1. /\ UNCHANGED <<diags, noticed>> /\ LexOnce /\ ret = "run" /\ ret' = "ok" /\ Tok(pos) # "eof"
    BY <1>6 DEF ExprAtom, ObjectEnds, Return, Running
  <2>2. Fn(calls') # "none"
    BY <1>6, <2>1, OkReturns DEF Step, DiagsReturns, BodyEnds, BodyCloses, CutOff, AttrDone, BlockDone, ExprAtom, ObjectEnds, In, Running
  <2> QED
    BY <1>e, <2>1, <2>2, AdvanceStep DEF Lexes
<1>7. CASE BlockDone /\ pos < End
  <2>1. /\ UNCHANGED <<diags, noticed>> /\ LexOnce /\ ret = "ok" /\ ret' = "ok"
    BY <1>7 DEF BlockDone, Return
  <2>2. Fn(calls') # "none"
    BY <1>7, <2>1, OkReturns DEF Step, DiagsReturns, BodyEnds, BodyCloses, CutOff, AttrDone, BlockDone, ExprAtom, ObjectEnds, In, Running
  <2> QED
    BY <1>7, <2>1, <2>2, AdvanceStep DEF Lexes
<1> QED
  BY <1>1, <1>2, <1>3, <1>4, <1>5, <1>6, <1>7

\* A function returns, or the body goes on after an item: nothing is lexed.
GoesOn(p, r, f, r2, g) ==
    \/ <<r, f, r2, g>> = <<"run", "body", "ok", "none">> /\ p = End
    \/ <<r, f, r2, g>> = <<"run", "body", "ok", "block">> /\ Closes(p)
    \/ <<r, f, r2, g>> = <<"ok", "body", "run", "body">>
    \/ <<r, f, r2, g>> = <<"ok", "attr", "ok", "body">>
    \/ <<r, f, r2, g>> = <<"ok", "block", "ok", "body">> /\ p = End
    \/ <<r, f, r2, g>> = <<"ok", "object", "run", "object">>
    \/ r = "fail" /\ r2 = "fail" /\ f # "none" /\ g \in {"body", "attr", "object"}

LEMMA SameStep ==
    ASSUME NEW p, NEW e, NEW ds, NEW ns, NEW f, NEW g, NEW r, NEW r2,
           Recording(p, e, ds, ns, r, f), GoesOn(p, r, f, r2, g)
    PROVE  Recording(p, e, ds, ns, r2, g)
<1>1. /\ f # "none" /\ r \in {"run", "ok", "fail"} /\ r2 \in {"run", "ok", "fail"}
      /\ r2 = "fail" <=> r = "fail"
      /\ g = "none" => r2 = "ok"
      /\ r = "fail" => g # "none" /\ g # "block"
  BY DEF GoesOn
<1>2. Closing(p, r, f) => Closing(p, r2, g)
  BY DEF Closing, GoesOn
<1>3. Reported(p, ds, r, f) /\ r # "fail" /\ g # "none" => Reported(p, ds, r2, g)
  BY DEF Closing, Reported, GoesOn
<1>4. e # NoError => Pending(p, e, ds, ns, r2, g)
  BY <1>1, <1>2 DEF Recording, Pending
<1> QED
  BY <1>1, <1>3, <1>4 DEF Recording

LEMMA SameCases ==
    ASSUME TypeOK, Recording(pos, err, diags, noticed, ret, Fn(calls)),
           \/ BodyEnds \/ BodyCloses \/ ItemDone \/ AttrDone \/ ObjectItemDone \/ Propagate
           \/ (BlockDone /\ ~(pos < End))
    PROVE  Recording(pos', err', diags', noticed', ret', Fn(calls'))
<1>t. doc \in Documents /\ pos \in Positions /\ pos \in Nat /\ pos <= End /\ End \in Nat
      /\ (pos = End <=> Tok(pos) = "eof") /\ (pos = End => After(pos) = pos /\ Lexed(err, pos) = err)
      /\ err \in Messages /\ calls \in Stacks
  <2>1. doc \in Documents /\ pos \in Positions /\ err \in Messages /\ calls \in Stacks
    BY TypeIsStack
  <2> QED
    BY <2>1, DocType, LexedIs
<1>f. \A fn \in Functions : In(fn) => calls # <<>> /\ Fn(calls) = fn
  BY RunningFn DEF In
<1>i. calls # <<>> => Top.items \in SUBSET Nat /\ Top.at \in Nat
  BY <1>t, TopFrame DEF Frames
<1>1. CASE BodyEnds
  <2>1. pos' = pos /\ err' = err /\ diags' = diags /\ noticed' = noticed /\ ret' = "ok"
        /\ ret = "run" /\ pos = End /\ In("body") /\ TopLevel /\ Return("ok", Top.items)
    BY <1>1, <1>t DEF BodyEnds, Running, Stay, Return
  <2>2. Fn(calls) = "body" /\ Fn(calls') = "none"
    BY <1>f, <1>i, <2>1, ReturnFn DEF Functions
  <2>g. GoesOn(pos, ret, Fn(calls), ret', Fn(calls'))
    BY <2>1, <2>2 DEF GoesOn
  <2> QED
    BY <2>1, <2>g, SameStep
<1>2. CASE BodyCloses
  <2>1. pos' = pos /\ err' = err /\ diags' = diags /\ noticed' = noticed /\ ret' = "ok"
        /\ ret = "run" /\ Closes(pos) /\ In("body") /\ ~TopLevel /\ Return("ok", Top.items)
    BY <1>2 DEF BodyCloses, Running, Stay, Return, Closes
  <2>2. Fn(calls) = "body" /\ Fn(calls') = "block"
    BY <1>f, <1>i, <2>1, ReturnFn, Callers DEF Functions
  <2>g. GoesOn(pos, ret, Fn(calls), ret', Fn(calls'))
    BY <2>1, <2>2 DEF GoesOn
  <2> QED
    BY <2>1, <2>g, SameStep
<1>3. CASE ItemDone
  <2>1. pos' = pos /\ err' = err /\ diags' = diags /\ noticed' = noticed /\ ret' = "run"
        /\ ret = "ok" /\ In("body") /\ calls' = calls
    BY <1>3 DEF ItemDone, Stay, Keep
  <2>2. Fn(calls) = "body" /\ Fn(calls') = "body"
    BY <1>f, <2>1 DEF Functions
  <2>g. GoesOn(pos, ret, Fn(calls), ret', Fn(calls'))
    BY <2>1, <2>2 DEF GoesOn
  <2> QED
    BY <2>1, <2>g, SameStep
<1>4. CASE AttrDone
  <2>1. pos' = pos /\ err' = err /\ diags' = diags /\ noticed' = noticed /\ ret' = "ok"
        /\ ret = "ok" /\ In("attr") /\ Return("ok", {Top.at})
    BY <1>4 DEF AttrDone, Stay, Return
  <2>2. Fn(calls) = "attr" /\ Fn(calls') = "body"
    BY <1>f, <1>i, <2>1, ReturnFn, Callers DEF Functions
  <2>g. GoesOn(pos, ret, Fn(calls), ret', Fn(calls'))
    BY <2>1, <2>2 DEF GoesOn
  <2> QED
    BY <2>1, <2>g, SameStep
<1>5. CASE ObjectItemDone
  <2>1. pos' = pos /\ err' = err /\ diags' = diags /\ noticed' = noticed /\ ret' = "run"
        /\ ret = "ok" /\ In("object") /\ calls' = calls
    BY <1>5 DEF ObjectItemDone, Stay, Keep
  <2>2. Fn(calls) = "object" /\ Fn(calls') = "object"
    BY <1>f, <2>1 DEF Functions
  <2>g. GoesOn(pos, ret, Fn(calls), ret', Fn(calls'))
    BY <2>1, <2>2 DEF GoesOn
  <2> QED
    BY <2>1, <2>g, SameStep
<1>6. CASE Propagate
  <2>1. pos' = pos /\ err' = err /\ diags' = diags /\ noticed' = noticed /\ ret' = "fail"
        /\ ret = "fail" /\ (In("attr") \/ In("block") \/ In("object")) /\ Return("fail", {})
    BY <1>6 DEF Propagate, Stay, Return, Fails
  <2>2. Fn(calls) \in {"attr", "block", "object"} /\ calls # <<>>
    BY <1>f, <2>1 DEF Functions
  <2>3. Fn(calls') \in {"body", "attr", "object"}
    BY <2>1, <2>2, ReturnFn, Callers
  <2>g. GoesOn(pos, ret, Fn(calls), ret', Fn(calls'))
    BY <2>1, <2>2, <2>3 DEF GoesOn
  <2> QED
    BY <2>1, <2>3, <2>g, SameStep
<1>7. CASE BlockDone /\ ~(pos < End)
  <2>1. pos' = After(pos) /\ err' = Lexed(err, pos') /\ diags' = diags /\ noticed' = noticed
        /\ ret' = "ok" /\ ret = "ok" /\ In("block") /\ Return("ok", Top.items \cup {Top.at})
    BY <1>7 DEF BlockDone, LexOnce, Return
  <2>2. Fn(calls) = "block" /\ Fn(calls') = "body"
    <3>1. calls # <<>> /\ Fn(calls) = "block"
      BY <1>f, <2>1 DEF Functions
    <3>2. Top.items \cup {Top.at} \in SUBSET Nat
      BY <1>i, <3>1
    <3> QED
      BY <2>1, <3>1, <3>2, ReturnFn, Callers
  <2>3. pos = End /\ pos' = pos /\ err' = err
    BY <1>7, <1>t, <2>1
  <2>g. GoesOn(pos, ret, Fn(calls), ret', Fn(calls'))
    BY <2>1, <2>2, <2>3 DEF GoesOn
  <2> QED
    BY <2>1, <2>3, <2>g, SameStep
<1> QED
  BY <1>1, <1>2, <1>3, <1>4, <1>5, <1>6, <1>7

\* A message other than that of a stray '}'.
Note(q, m) == [at |-> q, msg |-> m]

LEMMA NoteIs ==
    ASSUME TypeOK, NEW q \in Positions, NEW m \in {"eof", "brace", "name", "block", "expr", "key", "assign"}
    PROVE  /\ Note(q, m) \in Messages /\ Note(q, m).at = q /\ Note(q, m).msg = m
           /\ Note(q, m) # NoError
           /\ \A e : LxErr(e, q, m) = IF e = NoError THEN Note(q, m) ELSE e
<1>1. q \in Nat
  BY DocType DEF TypeOK
<1>2. Note(q, m) \in Messages
  BY <1>1 DEF Note, Messages, Texts
<1>3. Note(q, m).msg = m /\ Note(q, m).at = q
  BY DEF Note
<1>4. NoError.msg = "" /\ m # ""
  BY DEF NoError
<1> QED
  BY <1>2, <1>3, <1>4 DEF LxErr, Note

LEMMA StopCases ==
    ASSUME TypeOK, Recording(pos, err, diags, noticed, ret, Fn(calls)),
           BlockWithoutBody \/ ExprMissing \/ ObjectBadKey \/ ObjectNoAssign
    PROVE  Recording(pos', err', diags', noticed', ret', Fn(calls'))
<1>t. doc \in Documents /\ pos \in Positions /\ pos \in Nat
      /\ err \in Messages /\ diags \in Seq(Messages) /\ noticed \in Seq(Messages)
      /\ After(pos) \in Positions
  BY DocType DEF TypeOK
<1>p. pos <= pos /\ pos <= After(pos)
  <2>1. (pos < End => After(pos) = pos + 1) /\ (pos = End => After(pos) = pos) /\ pos <= End /\ End \in Nat
    BY <1>t, DocType
  <2> QED
    BY <1>t, <2>1
<1>f. \A fn \in Functions : In(fn) => calls # <<>> /\ Fn(calls) = fn
  BY RunningFn DEF In
<1>1. \E m \in {"block", "expr", "key", "assign"}, q \in {pos, After(pos)}, e1 \in {err, Lexed(err, After(pos))} :
         /\ pos' = q /\ (e1 = err \/ e1 = Lexed(err, q))
         /\ noticed' = Append(noticed, Note(q, m)) /\ err' = LxErr(e1, q, m) /\ Fails
         /\ diags' = diags /\ ret = "run" /\ (In("block") \/ In("expr") \/ In("object"))
  BY DEF BlockWithoutBody, ExprMissing, ObjectBadKey, ObjectNoAssign, Running, Notices, Note
<1>2. PICK m \in {"block", "expr", "key", "assign"}, q \in {pos, After(pos)}, e1 \in {err, Lexed(err, After(pos))} :
         /\ pos' = q /\ (e1 = err \/ e1 = Lexed(err, q))
         /\ noticed' = Append(noticed, Note(q, m)) /\ err' = LxErr(e1, q, m) /\ Fails
         /\ diags' = diags /\ ret = "run" /\ (In("block") \/ In("expr") \/ In("object"))
  BY <1>1
<1>3. calls # <<>> /\ Fn(calls) \in {"block", "expr", "object"}
  BY <1>2, <1>f DEF Functions
<1>4. ret' = "fail" /\ Fn(calls') \in {"body", "attr", "object"}
  BY <1>2, <1>3, ReturnFn, Callers DEF Fails
<1>5. q \in Positions /\ pos <= q
  BY <1>2, <1>t, <1>p
<1>6. /\ Note(q, m) \in Messages /\ Note(q, m).at = q /\ Note(q, m).msg # "brace" /\ Note(q, m) # NoError
      /\ err' = IF e1 = NoError THEN Note(q, m) ELSE e1
  BY <1>2, <1>5, NoteIs
<1>7. Stops(pos, err, diags, noticed, Fn(calls), q, Fn(calls'), Note(q, m), e1, err', noticed')
  BY <1>t, <1>2, <1>3, <1>4, <1>5, <1>6 DEF Stops
<1> QED
  BY <1>t, <1>2, <1>4, <1>7, RecordStops

\* A body that collects diagnostics records one.
LEMMA BodyCases ==
    ASSUME TypeOK, NoFault', mode = "diags",
           Recording(pos, err, diags, noticed, ret, Fn(calls)),
           CutOff \/ StrayBrace \/ NotAName \/ ItemFails
    PROVE  Recording(pos', err', diags', noticed', ret', Fn(calls'))
<1>t. doc \in Documents /\ pos \in Positions /\ pos \in Nat /\ pos <= End /\ End \in Nat
      /\ err \in Messages /\ diags \in Seq(Messages) /\ noticed \in Seq(Messages)
      /\ (pos = End <=> Tok(pos) = "eof")
  BY DocType DEF TypeOK
<1>l. pos # End => pos < End
  BY <1>t
<1>f. \A fn \in Functions : In(fn) => calls # <<>> /\ Fn(calls) = fn
  BY RunningFn DEF In
<1>i. calls # <<>> => Top.items \in SUBSET Nat
  BY TypeIsStack, TopFrame DEF Frames
<1>1. CASE CutOff
  <2> DEFINE note == Note(pos, "eof")
  <2>1. /\ In("body") /\ ~TopLevel /\ pos = End /\ ret = "run" /\ pos' = pos
        /\ noticed' = Append(noticed, note) /\ err' = LxErr(err, pos, "eof")
        /\ DiagsAdd(err') /\ Return("ok", Top.items)
    BY <1>1, <1>t DEF CutOff, Running, Notices, Note
  <2>2. note \in Messages /\ note.at = pos /\ note.msg = "eof" /\ note # NoError
        /\ err' = IF err = NoError THEN note ELSE err
    BY <1>t, <2>1, NoteIs
  <2>3. diags' = Append(diags, err')
    BY <2>1, <2>2, DiagsAdds
  <2>4. Fn(calls) = "body" /\ Fn(calls') = "block" /\ ret' = "ok"
    BY <1>f, <1>i, <2>1, ReturnFn, Callers DEF Functions
  <2> HIDE DEF note
  <2>5. Records(pos, err, diags, noticed, note, err', diags', noticed')
    BY <1>t, <2>1, <2>2, <2>3, <2>4 DEF Records
  <2> QED
    BY <1>t, <2>1, <2>2, <2>4, <2>5, RecordCutOff
<1>2. CASE StrayBrace
  <2> DEFINE note == Note(pos, "brace")
             x == LxErr(err, pos, "brace")
  <2>1. /\ In("body") /\ Closes(pos) /\ pos # End /\ ret = "run" /\ pos' = After(pos)
        /\ noticed' = Append(noticed, note) /\ err' = Lexed(NoError, pos')
        /\ DiagsAdd(x) /\ calls' = calls /\ ret' = ret
    BY <1>2, <1>t DEF StrayBrace, Running, Notices, Note, Closes
  <2>2. note \in Messages /\ note.at = pos /\ note.msg = "brace" /\ note # NoError
        /\ x = IF err = NoError THEN note ELSE err
    BY <1>t, <2>1, NoteIs
  <2>3. diags' = Append(diags, x)
    BY <2>1, <2>2, DiagsAdds
  <2>4. Fn(calls) = "body" /\ Fn(calls') = "body"
    BY <1>f, <2>1 DEF Functions
  <2> HIDE DEF note, x
  <2>5. Records(pos, err, diags, noticed, note, x, diags', noticed')
    BY <1>t, <2>1, <2>2, <2>3, <2>4 DEF Records
  <2>6. pos < End
    BY <1>l, <2>1
  <2>7. Recording(After(pos), Lexed(NoError, After(pos)), diags', noticed', "run", "body")
    BY <1>t, <2>2, <2>5, <2>6, RecordStray
  <2> QED
    BY <2>1, <2>4, <2>7
<1>3. CASE NotAName
  <2> DEFINE note == Note(pos, "name")
             x == LxErr(err, pos, "name")
  <2>1. /\ In("body") /\ ~Closes(pos) /\ pos # End /\ ret = "run" /\ pos' = pos
        /\ noticed' = Append(noticed, note) /\ err' = NoError
        /\ DiagsAdd(x) /\ calls' = calls /\ ret' = "resync"
    BY <1>3, <1>t DEF NotAName, Running, Notices, Note, Closes, Resync
  <2>2. note \in Messages /\ note.at = pos /\ note # NoError
        /\ x = IF err = NoError THEN note ELSE err
    BY <1>t, <2>1, NoteIs
  <2>3. diags' = Append(diags, x)
    BY <2>1, <2>2, DiagsAdds
  <2>4. Fn(calls) = "body" /\ Fn(calls') = "body"
    BY <1>f, <2>1 DEF Functions
  <2> HIDE DEF note, x
  <2>5. Records(pos, err, diags, noticed, note, x, diags', noticed')
    BY <1>t, <2>1, <2>2, <2>3, <2>4 DEF Records
  <2>6. pos < End
    BY <1>l, <2>1
  <2>7. Recording(pos, NoError, diags', noticed', "resync", "body")
    BY <1>t, <2>1, <2>5, <2>6, RecordNotAName
  <2> QED
    BY <2>1, <2>4, <2>7
<1>4. CASE ItemFails
  <2>1. /\ In("body") /\ ret = "fail" /\ pos' = pos /\ noticed' = noticed /\ err' = NoError
        /\ DiagsAdd(err) /\ calls' = calls
        /\ ret' \in {"run", "resync"} /\ (ret' = "resync" => pos # End)
        /\ (ret' = "run" => pos = End \/ Closes(pos))
    BY <1>4, <1>t DEF ItemFails, Closes, Resync
  <2>2. Fn(calls) = "body" /\ Fn(calls') = "body"
    BY <1>f, <2>1 DEF Functions
  <2>3. err # NoError
    BY <2>1 DEF Recording
  <2>4. diags' = Append(diags, err)
    BY <2>1, <2>3, DiagsAdds
  <2>5. ItemRecords(pos, err, diags, noticed, diags', ret')
    BY <1>l, <1>t, <2>1, <2>2, <2>4 DEF ItemRecords
  <2> QED
    BY <1>t, <2>1, <2>2, <2>5, RecordItem
<1> QED
  BY <1>1, <1>2, <1>3, <1>4

LEMMA RecordInit ==
    ASSUME doc \in Documents
    PROVE  Recording(1, Lexed(NoError, 1), <<>>, <<>>, "run", "body")
<1>1. /\ 1 \in Positions /\ 1 \in Nat
      /\ \/ Lexed(NoError, 1) = NoError
         \/ Lexed(NoError, 1) = [at |-> 1, msg |-> "lexical"] /\ ~Clean
  BY DocType, LexedIs, NoErrorType
<1>2. ASSUME NEW e, e # NoError => e.at = 1 /\ e.msg = "lexical" /\ ~Clean
      PROVE  Recording(1, e, <<>>, <<>>, "run", "body")
  <2>1. e # NoError => Pending(1, e, <<>>, <<>>, "run", "body")
    BY <1>2 DEF Pending, Fresh
  <2> QED
    BY <2>1 DEF Recording, Faithful
<1> QED
  BY <1>1, <1>2

LEMMA DiagsStep == TypeOK /\ TypeOK' /\ DiagsInv /\ [Next]_state => DiagsInv'
<1> SUFFICES ASSUME TypeOK, TypeOK', DiagsInv, [Next]_state, NoFault'
             PROVE  /\ (mode = "diags" => Recording(pos, err, diags, noticed, ret, Fn(calls)))'
                    /\ (Over => calls = <<>> /\ Len(diags) = Len(noticed) /\ Faithful(diags, noticed))'
                    /\ (mode = "strict" => diags = <<>>)'
  BY DEF DiagsInv
<1>1. NoFault /\ doc' = doc /\ (Step \/ UNCHANGED state)
  BY WithoutFaults
<1>2. CASE UNCHANGED state
  BY <1>1, <1>2, RecordPrime DEF DiagsInv, state, Over, Faithful, Clean
<1>3. CASE StrictReturns
  <2>1. mode' = "diags" /\ pos' = 1 /\ err' = Lexed(NoError, 1) /\ ret' = "run"
        /\ calls' = <<Frame("body", 0)>> /\ noticed' = <<>> /\ diags' = diags /\ diags = <<>>
    BY <1>1, <1>3 DEF StrictReturns, DiagsInv
  <2>2. Fn(calls') = "body"
    BY <2>1 DEF Fn, Frame
  <2>3. Recording(pos', err', diags', noticed', ret', Fn(calls'))
    BY <2>1, <2>2, RecordInit DEF TypeOK
  <2> QED
    BY <1>1, <2>1, <2>3, RecordPrime DEF Over
<1>4. CASE DiagsReturns
  <2>1. /\ mode = "diags" /\ mode' = "over" /\ calls = <<>> /\ calls' = calls
        /\ diags' = diags /\ noticed' = noticed
    BY <1>4 DEF DiagsReturns
  <2>2. Recording(pos, err, diags, noticed, ret, Fn(calls)) /\ Fn(calls) = "none"
    BY <1>1, <2>1 DEF DiagsInv, Fn
  <2>3. Len(diags) = Len(noticed) /\ Faithful(diags, noticed)
    BY <2>2 DEF Recording
  <2> QED
    BY <1>1, <2>1, <2>3 DEF Over, Faithful, Clean
<1>5. CASE Step /\ ~StrictReturns /\ ~DiagsReturns
  <2>1. mode' = mode /\ calls # <<>> /\ mode # "over"
    BY <1>1, <1>5, ModeKept, StepsRun DEF DiagsInv, Over
  <2>2. CASE mode = "strict"
    BY <1>1, <1>5, <2>1, <2>2, StrictKeepsNone DEF DiagsInv, Over
  <2>3. CASE mode = "diags"
    <3>1. Recording(pos, err, diags, noticed, ret, Fn(calls))
      BY <1>1, <2>3 DEF DiagsInv
    <3>2. Recording(pos', err', diags', noticed', ret', Fn(calls'))
      BY <1>5, <2>3, <3>1, AdvanceCases, SameCases, StopCases, BodyCases, Zenon DEF Step
    <3>3. Recording(pos, err, diags, noticed, ret, Fn(calls))'
      BY <1>1, <3>2, RecordPrime
    <3> QED
      BY <2>1, <2>3, <3>3 DEF Over
  <2> QED
    BY <2>1, <2>2, <2>3 DEF TypeOK
<1> QED
  BY <1>1, <1>2, <1>3, <1>4, <1>5

LEMMA DiagsAreFaithful == TypeOK /\ DiagsInv => DiagsCollected
<1> SUFFICES ASSUME TypeOK, DiagsInv PROVE DiagsCollected
  OBVIOUS
<1>1. NoFault => Faithful(diags, noticed)
  <2>1. diags = <<>> => Faithful(diags, noticed)
    BY DEF Faithful
  <2> QED
    BY <2>1 DEF DiagsInv, Recording, Over, TypeOK
<1>2. Over /\ NoFault => Len(diags) = Len(noticed)
  BY DEF DiagsInv
<1>3. Clean => AllErrorsCollected
  <2> SUFFICES ASSUME Clean, Over, NoFault, NEW i \in DOMAIN noticed
               PROVE  \E j \in DOMAIN diags : diags[j].at = noticed[i].at
    BY DEF AllErrorsCollected
  <2>1. DOMAIN diags = DOMAIN noticed
    BY <1>2, ListType DEF TypeOK
  <2> QED
    BY <1>1, <2>1 DEF Faithful
<1> QED
  BY <1>1, <1>2, <1>3 DEF DiagsCollected, Faithful, Clean

\* What hcl2_parse_diags collects, for every document: one diagnostic for each
\* error its parser detects, in the order of the text, each for the place where
\* the error is if the lexer has nothing to complain about, and none twice but at
\* the end of the input.
THEOREM DiagnosticsAreCollected == Spec => []DiagsCollected
<1>1. Init => DiagsInv
  BY DEF Init, Begin, DiagsInv, Over
<1> QED
  BY <1>1, DiagsStep, DiagsAreFaithful, TypeCorrect, PTL DEF Spec

------------------------------------------------------------------------------
(* The two entry points agree.  Without faults the parser is deterministic:  *)
(* Succ is its next configuration in strict mode, and the diagnosing parser  *)
(* takes the same steps until it records its first error.  That a run leads  *)
(* from one configuration to another is said by the sets that are closed     *)
(* under Succ.                                                              *)

Config(p, e, cs, r, rt, pa) ==
    [pos |-> p, err |-> e, calls |-> cs, ret |-> r, root |-> rt, parsed |-> pa]

Opens(p) == Tok(p) = "{"

\* The stack when the innermost function hands items to its caller.
Popped(cs, items) ==
    [i \in 1 .. Len(cs) - 1 |-> IF i = Len(cs) - 1 THEN [cs[i] EXCEPT !.items = @ \cup items] ELSE cs[i]]

Pop(p, e, cs, how, items, rt, pa) ==
    Config(p, e, Popped(cs, items), how, IF Len(cs) = 1 THEN items ELSE rt, pa)

OneOn(p, e, cs, rt, pa) == Config(After(p), Lexed(e, After(p)), cs, "run", rt, pa)

TwoOn(p, e, cs, rt, pa) ==
    Config(After(After(p)), Lexed(Lexed(e, After(p)), After(After(p))), cs, "run", rt, pa)

Fail(p, e, m, cs, rt, pa) == Pop(p, LxErr(e, p, m), cs, "fail", {}, rt, pa)

BodySucc(p, e, cs, r, rt, pa) ==
    IF r = "ok" THEN Config(p, e, cs, "run", rt, pa)
    ELSE IF Tok(p) = "eof"
         THEN IF Len(cs) = 1 THEN Pop(p, e, cs, "ok", cs[Len(cs)].items, rt, pa)
                             ELSE Fail(p, e, "eof", cs, rt, pa)
    ELSE IF Closes(p)
         THEN IF Len(cs) = 1 THEN Fail(p, e, "brace", cs, rt, pa)
                             ELSE Pop(p, e, cs, "ok", cs[Len(cs)].items, rt, pa)
    ELSE IF Tok(p) # "id" THEN Fail(p, e, "name", cs, rt, pa)
    ELSE IF Tok(After(p)) = "="
         THEN TwoOn(p, e, cs \o <<Frame("attr", p), Frame("expr", 0)>>, rt, pa)
         ELSE OneOn(p, e, Append(cs, Frame("block", p)), rt, pa)

BlockSucc(p, e, cs, r, rt, pa) ==
    LET top == cs[Len(cs)] IN
    IF r = "ok" THEN Pop(After(p), Lexed(e, After(p)), cs, "ok", top.items \cup {top.at}, rt, pa \cup {top.at})
    ELSE IF Tok(p) = "id" THEN OneOn(p, e, cs, rt, pa)
    ELSE IF Opens(p) THEN OneOn(p, e, Append(cs, Frame("body", 0)), rt, pa)
    ELSE Fail(p, e, "block", cs, rt, pa)

ExprSucc(p, e, cs, rt, pa) ==
    IF Opens(p) THEN OneOn(p, e, [cs EXCEPT ![Len(cs)] = Frame("object", 0)], rt, pa)
    ELSE IF Tok(p) \in {"id", "num"} THEN Pop(After(p), Lexed(e, After(p)), cs, "ok", {}, rt, pa)
    ELSE Fail(p, e, "expr", cs, rt, pa)

ObjectSucc(p, e, cs, r, rt, pa) ==
    IF r = "ok" THEN Config(p, e, cs, "run", rt, pa)
    ELSE IF Closes(p) THEN Pop(After(p), Lexed(e, After(p)), cs, "ok", {}, rt, pa)
    ELSE IF Tok(p) # "id" THEN Fail(p, e, "key", cs, rt, pa)
    ELSE IF Tok(After(p)) = "=" THEN TwoOn(p, e, Append(cs, Frame("expr", 0)), rt, pa)
    ELSE Fail(After(p), Lexed(e, After(p)), "assign", cs, rt, pa)

Succ(p, e, cs, r, rt, pa) ==
    LET top == cs[Len(cs)] IN
    IF r = "fail" THEN Pop(p, e, cs, "fail", {}, rt, pa)
    ELSE IF Fn(cs) = "body" THEN BodySucc(p, e, cs, r, rt, pa)
    ELSE IF Fn(cs) = "attr" THEN Pop(p, e, cs, "ok", {top.at}, rt, pa \cup {top.at})
    ELSE IF Fn(cs) = "block" THEN BlockSucc(p, e, cs, r, rt, pa)
    ELSE IF Fn(cs) = "expr" THEN ExprSucc(p, e, cs, rt, pa)
    ELSE ObjectSucc(p, e, cs, r, rt, pa)

ClosedRuns(X) ==
    \A p, e, cs, r, rt, pa :
        Config(p, e, cs, r, rt, pa) \in X /\ cs # <<>> => Succ(p, e, cs, r, rt, pa) \in X

Reaches(c, d) == \A X : ClosedRuns(X) /\ c \in X => d \in X

Now == Config(pos, err, calls, ret, root, parsed)

Start == Config(1, Lexed(NoError, 1), <<Frame("body", 0)>>, "run", {}, {})

LEMMA ConfigIs ==
    ASSUME NEW p, NEW e, NEW cs, NEW r, NEW rt, NEW pa, NEW c, c = Config(p, e, cs, r, rt, pa)
    PROVE  c.pos = p /\ c.err = e /\ c.calls = cs /\ c.ret = r /\ c.root = rt /\ c.parsed = pa
BY DEF Config

\* A run can be followed from its first step on.
LEMMA ReachesOn ==
    ASSUME NEW p, NEW e, NEW cs, NEW r, NEW rt, NEW pa, NEW d, cs # <<>>,
           d # Config(p, e, cs, r, rt, pa),
           Reaches(Config(p, e, cs, r, rt, pa), d)
    PROVE  Reaches(Succ(p, e, cs, r, rt, pa), d)
<1> DEFINE c == Config(p, e, cs, r, rt, pa)
<1> SUFFICES ASSUME NEW X, ClosedRuns(X), Succ(p, e, cs, r, rt, pa) \in X PROVE d \in X
  BY DEF Reaches
<1>1. ClosedRuns(X \cup {c})
  <2> SUFFICES ASSUME NEW p2, NEW e2, NEW cs2, NEW r2, NEW rt2, NEW pa2, cs2 # <<>>,
                      Config(p2, e2, cs2, r2, rt2, pa2) \in X \cup {c}
               PROVE  Succ(p2, e2, cs2, r2, rt2, pa2) \in X \cup {c}
    BY DEF ClosedRuns
  <2>1. CASE Config(p2, e2, cs2, r2, rt2, pa2) \in X
    BY <2>1 DEF ClosedRuns
  <2>2. CASE Config(p2, e2, cs2, r2, rt2, pa2) = c
    <3>1. p2 = p /\ e2 = e /\ cs2 = cs /\ r2 = r /\ rt2 = rt /\ pa2 = pa
      BY <2>2, ConfigIs
    <3> QED
      BY <3>1
  <2> QED
    BY <2>1, <2>2
<1>2. c \in X \cup {c}
  OBVIOUS
<1>3. d \in X \cup {c}
  BY <1>1, <1>2 DEF Reaches
<1> QED
  BY <1>3

LEMMA ReachesNext ==
    ASSUME NEW c, NEW p, NEW e, NEW cs, NEW r, NEW rt, NEW pa, cs # <<>>,
           Reaches(c, Config(p, e, cs, r, rt, pa))
    PROVE  Reaches(c, Succ(p, e, cs, r, rt, pa))
BY DEF Reaches, ClosedRuns

\* A run that has ended leads nowhere else.
LEMMA ReachesEnd ==
    ASSUME NEW p, NEW e, NEW r, NEW rt, NEW pa, NEW d,
           Reaches(Config(p, e, <<>>, r, rt, pa), d)
    PROVE  d = Config(p, e, <<>>, r, rt, pa)
<1> DEFINE X == {Config(p, e, <<>>, r, rt, pa)}
<1>1. ClosedRuns(X)
  <2> SUFFICES ASSUME NEW p2, NEW e2, NEW cs2, NEW r2, NEW rt2, NEW pa2, cs2 # <<>>,
                      Config(p2, e2, cs2, r2, rt2, pa2) = Config(p, e, <<>>, r, rt, pa)
               PROVE  FALSE
    BY DEF ClosedRuns
  <2>1. cs2 = <<>>
    BY ConfigIs
  <2> QED
    BY <2>1
<1>2. d \in X
  BY <1>1 DEF Reaches
<1> QED
  BY <1>2

LEMMA KindsApart ==
    ASSUME NEW p
    PROVE  /\ Closes(p) => Tok(p) \notin {"eof", "id", "num"} /\ ~Opens(p)
           /\ Opens(p) => Tok(p) \notin {"eof", "id", "num"}
BY DEF Closes, Opens

LEMMA ReturnIs ==
    ASSUME NEW how, NEW items, Return(how, items)
    PROVE  /\ calls' = Popped(calls, items) /\ ret' = how
           /\ root' = IF Len(calls) = 1 THEN items ELSE root
BY DEF Return, Popped, TopLevel, Depth

LEMMA PopIs ==
    ASSUME NEW how, NEW items, Return(how, items)
    PROVE  Config(pos', err', calls', ret', root', parsed')
           = Pop(pos', err', calls, how, items, root, parsed')
BY ReturnIs DEF Pop

\* Which function runs, as Succ asks for it.
LEMMA FnIs ==
    ASSUME TypeOK
    PROVE  /\ (In("body") => Fn(calls) = "body") /\ (In("attr") => Fn(calls) = "attr")
           /\ (In("block") => Fn(calls) = "block") /\ (In("expr") => Fn(calls) = "expr")
           /\ (In("object") => Fn(calls) = "object")
           /\ Top = calls[Len(calls)] /\ (TopLevel <=> Len(calls) = 1)
BY DEF Fn, In, Top, TopLevel, Depth

\* The steps that record nothing are those of the strict parser.
LEMMA StepIsSucc ==
    ASSUME TypeOK, Step, ~StrictReturns, ~DiagsReturns, ret # "resync",
           mode = "diags" => ~CutOff /\ ~StrayBrace /\ ~NotAName /\ ~ItemFails
    PROVE  Config(pos', err', calls', ret', root', parsed')
           = Succ(pos, err, calls, ret, root, parsed)
<1> DEFINE new == Config(pos', err', calls', ret', root', parsed')
           succ == Succ(pos, err, calls, ret, root, parsed)
<1>f. /\ (In("body") => Fn(calls) = "body") /\ (In("attr") => Fn(calls) = "attr")
      /\ (In("block") => Fn(calls) = "block") /\ (In("expr") => Fn(calls) = "expr")
      /\ (In("object") => Fn(calls) = "object")
      /\ Top = calls[Len(calls)] /\ (TopLevel <=> Len(calls) = 1)
  BY FnIs
<1>a. calls \in Seq(Frames)
  BY DEF TypeOK, Frames
<1>1. CASE BodyEnds
  <2>1. /\ Return("ok", Top.items) /\ pos' = pos /\ err' = err /\ parsed' = parsed
        /\ In("body") /\ ret = "run" /\ Tok(pos) = "eof" /\ TopLevel
    BY <1>1 DEF BodyEnds, Running, Stay
  <2>2. new = Pop(pos, err, calls, "ok", Top.items, root, parsed)
    BY <2>1, PopIs
  <2>3. succ = Pop(pos, err, calls, "ok", calls[Len(calls)].items, root, parsed)
    BY <2>1, <1>f, KindsApart DEF Succ, BodySucc
  <2> QED
    BY <2>2, <2>3, <1>f
<1>2. CASE BodyCloses
  <2>1. /\ Return("ok", Top.items) /\ pos' = pos /\ err' = err /\ parsed' = parsed
        /\ In("body") /\ ret = "run" /\ Closes(pos) /\ ~TopLevel
    BY <1>2 DEF BodyCloses, Running, Stay, Closes
  <2>2. new = Pop(pos, err, calls, "ok", Top.items, root, parsed)
    BY <2>1, PopIs
  <2>3. succ = Pop(pos, err, calls, "ok", calls[Len(calls)].items, root, parsed)
    BY <2>1, <1>f, KindsApart DEF Succ, BodySucc
  <2> QED
    BY <2>2, <2>3, <1>f
<1>3. CASE AttrDone
  <2>1. /\ Return("ok", {Top.at}) /\ pos' = pos /\ err' = err /\ parsed' = parsed \cup {Top.at}
        /\ In("attr") /\ ret = "ok"
    BY <1>3 DEF AttrDone, Stay
  <2>2. new = Pop(pos, err, calls, "ok", {Top.at}, root, parsed \cup {Top.at})
    BY <2>1, PopIs
  <2>3. succ = Pop(pos, err, calls, "ok", {calls[Len(calls)].at}, root, parsed \cup {Top.at})
    BY <2>1, <1>f, KindsApart DEF Succ
  <2> QED
    BY <2>2, <2>3, <1>f
<1>4. CASE BlockDone
  <2>1. /\ Return("ok", Top.items \cup {Top.at}) /\ pos' = After(pos) /\ err' = Lexed(err, After(pos)) /\ parsed' = parsed \cup {Top.at}
        /\ In("block") /\ ret = "ok"
    BY <1>4 DEF BlockDone, LexOnce
  <2>2. new = Pop(After(pos), Lexed(err, After(pos)), calls, "ok", Top.items \cup {Top.at}, root, parsed \cup {Top.at})
    BY <2>1, PopIs
  <2>3. succ = Pop(After(pos), Lexed(err, After(pos)), calls, "ok", calls[Len(calls)].items \cup {calls[Len(calls)].at}, root, parsed \cup {Top.at})
    BY <2>1, <1>f, KindsApart DEF Succ, BlockSucc
  <2> QED
    BY <2>2, <2>3, <1>f
<1>5. CASE ExprAtom
  <2>1. /\ Return("ok", {}) /\ pos' = After(pos) /\ err' = Lexed(err, After(pos)) /\ parsed' = parsed
        /\ In("expr") /\ ret = "run" /\ Tok(pos) \in {"id", "num"}
    BY <1>5 DEF ExprAtom, Running, LexOnce
  <2>2. new = Pop(After(pos), Lexed(err, After(pos)), calls, "ok", {}, root, parsed)
    BY <2>1, PopIs
  <2>3. succ = Pop(After(pos), Lexed(err, After(pos)), calls, "ok", {}, root, parsed)
    BY <2>1, <1>f, KindsApart DEF Succ, ExprSucc
  <2> QED
    BY <2>2, <2>3, <1>f
<1>6. CASE ObjectEnds
  <2>1. /\ Return("ok", {}) /\ pos' = After(pos) /\ err' = Lexed(err, After(pos)) /\ parsed' = parsed
        /\ In("object") /\ ret = "run" /\ Closes(pos)
    BY <1>6 DEF ObjectEnds, Running, LexOnce, Closes
  <2>2. new = Pop(After(pos), Lexed(err, After(pos)), calls, "ok", {}, root, parsed)
    BY <2>1, PopIs
  <2>3. succ = Pop(After(pos), Lexed(err, After(pos)), calls, "ok", {}, root, parsed)
    BY <2>1, <1>f, KindsApart DEF Succ, ObjectSucc
  <2> QED
    BY <2>2, <2>3, <1>f
<1>7. CASE Propagate
  <2>1. /\ Return("fail", {}) /\ pos' = pos /\ err' = err /\ parsed' = parsed
        /\ ret = "fail"
    BY <1>7 DEF Propagate, Stay, Fails
  <2>2. new = Pop(pos, err, calls, "fail", {}, root, parsed)
    BY <2>1, PopIs
  <2>3. succ = Pop(pos, err, calls, "fail", {}, root, parsed)
    BY <2>1, <1>f, KindsApart DEF Succ, BodySucc
  <2> QED
    BY <2>2, <2>3, <1>f
<1>8. CASE BlockWithoutBody
  <2>1. /\ Return("fail", {}) /\ pos' = pos /\ err' = LxErr(err, pos, "block") /\ parsed' = parsed
        /\ In("block") /\ ret = "run" /\ Tok(pos) # "id" /\ ~Opens(pos)
    BY <1>8 DEF BlockWithoutBody, Running, Fails, Opens
  <2>2. new = Pop(pos, LxErr(err, pos, "block"), calls, "fail", {}, root, parsed)
    BY <2>1, PopIs
  <2>3. succ = Fail(pos, err, "block", calls, root, parsed)
    BY <2>1, <1>f, KindsApart DEF Succ, BlockSucc
  <2> QED
    BY <2>2, <2>3 DEF Fail
<1>9. CASE ExprMissing
  <2>1. /\ Return("fail", {}) /\ pos' = pos /\ err' = LxErr(err, pos, "expr") /\ parsed' = parsed
        /\ In("expr") /\ ret = "run" /\ Tok(pos) \notin {"id", "num"} /\ ~Opens(pos)
    BY <1>9 DEF ExprMissing, Running, Fails, Opens
  <2>2. new = Pop(pos, LxErr(err, pos, "expr"), calls, "fail", {}, root, parsed)
    BY <2>1, PopIs
  <2>3. succ = Fail(pos, err, "expr", calls, root, parsed)
    BY <2>1, <1>f, KindsApart DEF Succ, ExprSucc
  <2> QED
    BY <2>2, <2>3 DEF Fail
<1>10. CASE ObjectBadKey
  <2>1. /\ Return("fail", {}) /\ pos' = pos /\ err' = LxErr(err, pos, "key") /\ parsed' = parsed
        /\ In("object") /\ ret = "run" /\ Tok(pos) # "id" /\ ~Closes(pos)
    BY <1>10 DEF ObjectBadKey, Running, Fails, Closes
  <2>2. new = Pop(pos, LxErr(err, pos, "key"), calls, "fail", {}, root, parsed)
    BY <2>1, PopIs
  <2>3. succ = Fail(pos, err, "key", calls, root, parsed)
    BY <2>1, <1>f, KindsApart DEF Succ, ObjectSucc
  <2> QED
    BY <2>2, <2>3 DEF Fail
<1>11. CASE ObjectNoAssign
  <2>1. /\ Return("fail", {}) /\ pos' = After(pos) /\ err' = LxErr(Lexed(err, After(pos)), After(pos), "assign") /\ parsed' = parsed
        /\ In("object") /\ ret = "run" /\ Tok(pos) = "id" /\ Tok(After(pos)) # "="
    BY <1>11 DEF ObjectNoAssign, Running, Fails, Closes
  <2>2. new = Pop(After(pos), LxErr(Lexed(err, After(pos)), After(pos), "assign"), calls, "fail", {}, root, parsed)
    BY <2>1, PopIs
  <2>3. succ = Fail(After(pos), Lexed(err, After(pos)), "assign", calls, root, parsed)
    BY <2>1, <1>f, KindsApart DEF Succ, ObjectSucc
  <2> QED
    BY <2>2, <2>3 DEF Fail
<1>12. CASE CutOff /\ mode # "diags"
  <2>1. /\ Return("fail", {}) /\ pos' = pos /\ err' = LxErr(err, pos, "eof") /\ parsed' = parsed
        /\ In("body") /\ ret = "run" /\ Tok(pos) = "eof" /\ ~TopLevel
    BY <1>12 DEF CutOff, Running, Fails, Closes
  <2>2. new = Pop(pos, LxErr(err, pos, "eof"), calls, "fail", {}, root, parsed)
    BY <2>1, PopIs
  <2>3. succ = Fail(pos, err, "eof", calls, root, parsed)
    BY <2>1, <1>f, KindsApart DEF Succ, BodySucc
  <2> QED
    BY <2>2, <2>3 DEF Fail
<1>13. CASE StrayBrace /\ mode # "diags"
  <2>1. /\ Return("fail", {}) /\ pos' = pos /\ err' = LxErr(err, pos, "brace") /\ parsed' = parsed
        /\ In("body") /\ ret = "run" /\ Closes(pos) /\ TopLevel
    BY <1>13 DEF StrayBrace, Running, Fails, Closes
  <2>2. new = Pop(pos, LxErr(err, pos, "brace"), calls, "fail", {}, root, parsed)
    BY <2>1, PopIs
  <2>3. succ = Fail(pos, err, "brace", calls, root, parsed)
    BY <2>1, <1>f, KindsApart DEF Succ, BodySucc
  <2> QED
    BY <2>2, <2>3 DEF Fail
<1>14. CASE NotAName /\ mode # "diags"
  <2>1. /\ Return("fail", {}) /\ pos' = pos /\ err' = LxErr(err, pos, "name") /\ parsed' = parsed
        /\ In("body") /\ ret = "run" /\ Tok(pos) \notin {"eof", "id"} /\ ~Closes(pos)
    BY <1>14 DEF NotAName, Running, Fails, Closes
  <2>2. new = Pop(pos, LxErr(err, pos, "name"), calls, "fail", {}, root, parsed)
    BY <2>1, PopIs
  <2>3. succ = Fail(pos, err, "name", calls, root, parsed)
    BY <2>1, <1>f, KindsApart DEF Succ, BodySucc
  <2> QED
    BY <2>2, <2>3 DEF Fail
<1>15. CASE ItemFails /\ mode # "diags"
  <2>1. /\ Return("fail", {}) /\ pos' = pos /\ err' = err /\ parsed' = parsed
        /\ ret = "fail"
    BY <1>15 DEF ItemFails, Stay, Fails
  <2>2. new = Pop(pos, err, calls, "fail", {}, root, parsed)
    BY <2>1, PopIs
  <2>3. succ = Pop(pos, err, calls, "fail", {}, root, parsed)
    BY <2>1, <1>f, KindsApart DEF Succ, BodySucc
  <2> QED
    BY <2>2, <2>3, <1>f
<1>16. CASE AttrBegins
  <2>1. /\ LexTwice /\ calls' = calls \o <<Frame("attr", pos), Frame("expr", 0)>> /\ ret = "run" /\ ret' = "run" /\ root' = root /\ parsed' = parsed
        /\ In("body") /\ Tok(pos) = "id" /\ ~Closes(pos) /\ Tok(After(pos)) = "="
    BY <1>16 DEF AttrBegins, Keep, Running, Closes
  <2>2. new = TwoOn(pos, err, calls \o <<Frame("attr", pos), Frame("expr", 0)>>, root, parsed)
    BY <2>1 DEF TwoOn, LexTwice
  <2>3. succ = TwoOn(pos, err, calls \o <<Frame("attr", pos), Frame("expr", 0)>>, root, parsed)
    BY <2>1, <1>f, KindsApart DEF Succ, BodySucc, Depth
  <2> QED
    BY <2>2, <2>3 DEF Depth
<1>17. CASE BlockBegins
  <2>1. /\ LexOnce /\ calls' = Append(calls, Frame("block", pos)) /\ ret = "run" /\ ret' = "run" /\ root' = root /\ parsed' = parsed
        /\ In("body") /\ Tok(pos) = "id" /\ ~Closes(pos) /\ Tok(After(pos)) # "="
    BY <1>17 DEF BlockBegins, Keep, Running, Call, Closes
  <2>2. new = OneOn(pos, err, Append(calls, Frame("block", pos)), root, parsed)
    BY <2>1 DEF OneOn, LexOnce
  <2>3. succ = OneOn(pos, err, Append(calls, Frame("block", pos)), root, parsed)
    BY <2>1, <1>f, KindsApart DEF Succ, BodySucc, Depth
  <2> QED
    BY <2>2, <2>3 DEF Depth
<1>18. CASE ItemDone
  <2>1. /\ pos' = pos /\ err' = err /\ calls' = calls /\ ret = "ok" /\ ret' = "run" /\ root' = root /\ parsed' = parsed
        /\ In("body") /\ ret # "fail"
    BY <1>18 DEF ItemDone, Keep, Stay
  <2>2. new = Config(pos, err, calls, "run", root, parsed)
    BY <2>1 DEF Config
  <2>3. succ = Config(pos, err, calls, "run", root, parsed)
    BY <2>1, <1>f, KindsApart DEF Succ, BodySucc, Depth
  <2> QED
    BY <2>2, <2>3 DEF Depth
<1>19. CASE BlockLabel
  <2>1. /\ LexOnce /\ calls' = calls /\ ret = "run" /\ ret' = "run" /\ root' = root /\ parsed' = parsed
        /\ In("block") /\ Tok(pos) = "id"
    BY <1>19 DEF BlockLabel, Keep, Running
  <2>2. new = OneOn(pos, err, calls, root, parsed)
    BY <2>1 DEF OneOn, LexOnce
  <2>3. succ = OneOn(pos, err, calls, root, parsed)
    BY <2>1, <1>f, KindsApart DEF Succ, BlockSucc, Depth
  <2> QED
    BY <2>2, <2>3 DEF Depth
<1>20. CASE BlockOpens
  <2>1. /\ LexOnce /\ calls' = Append(calls, Frame("body", 0)) /\ ret = "run" /\ ret' = "run" /\ root' = root /\ parsed' = parsed
        /\ In("block") /\ Tok(pos) # "id" /\ Opens(pos)
    BY <1>20 DEF BlockOpens, Keep, Running, Call, Opens
  <2>2. new = OneOn(pos, err, Append(calls, Frame("body", 0)), root, parsed)
    BY <2>1 DEF OneOn, LexOnce
  <2>3. succ = OneOn(pos, err, Append(calls, Frame("body", 0)), root, parsed)
    BY <2>1, <1>f, KindsApart DEF Succ, BlockSucc, Depth
  <2> QED
    BY <2>2, <2>3 DEF Depth
<1>21. CASE ExprObject
  <2>1. /\ LexOnce /\ calls' = [calls EXCEPT ![Depth] = Frame("object", 0)] /\ ret = "run" /\ ret' = "run" /\ root' = root /\ parsed' = parsed
        /\ In("expr") /\ Opens(pos)
    BY <1>21 DEF ExprObject, Keep, Running, Opens
  <2>2. new = OneOn(pos, err, [calls EXCEPT ![Depth] = Frame("object", 0)], root, parsed)
    BY <2>1 DEF OneOn, LexOnce
  <2>3. succ = OneOn(pos, err, [calls EXCEPT ![Len(calls)] = Frame("object", 0)], root, parsed)
    BY <2>1, <1>f, KindsApart DEF Succ, ExprSucc, Depth
  <2> QED
    BY <2>2, <2>3 DEF Depth
<1>22. CASE ObjectItem
  <2>1. /\ LexTwice /\ calls' = Append(calls, Frame("expr", 0)) /\ ret = "run" /\ ret' = "run" /\ root' = root /\ parsed' = parsed
        /\ In("object") /\ Tok(pos) = "id" /\ ~Closes(pos) /\ Tok(After(pos)) = "="
    BY <1>22 DEF ObjectItem, Keep, Running, Call, Closes
  <2>2. new = TwoOn(pos, err, Append(calls, Frame("expr", 0)), root, parsed)
    BY <2>1 DEF TwoOn, LexTwice
  <2>3. succ = TwoOn(pos, err, Append(calls, Frame("expr", 0)), root, parsed)
    BY <2>1, <1>f, KindsApart DEF Succ, ObjectSucc, Depth
  <2> QED
    BY <2>2, <2>3 DEF Depth
<1>23. CASE ObjectItemDone
  <2>1. /\ pos' = pos /\ err' = err /\ calls' = calls /\ ret = "ok" /\ ret' = "run" /\ root' = root /\ parsed' = parsed
        /\ In("object") /\ ret # "fail"
    BY <1>23 DEF ObjectItemDone, Keep, Stay
  <2>2. new = Config(pos, err, calls, "run", root, parsed)
    BY <2>1 DEF Config
  <2>3. succ = Config(pos, err, calls, "run", root, parsed)
    BY <2>1, <1>f, KindsApart DEF Succ, ObjectSucc, Depth
  <2> QED
    BY <2>2, <2>3 DEF Depth
<1>24. ~SkipToken
  BY DEF SkipToken
<1> QED
  BY <1>1, <1>2, <1>3, <1>4, <1>5, <1>6, <1>7, <1>8, <1>9, <1>10, <1>11, <1>12, <1>13, <1>14, <1>15, <1>16, <1>17, <1>18, <1>19, <1>20, <1>21, <1>22, <1>23, <1>24, Zenon DEF Step

LEMMA PoppedType ==
    ASSUME NEW cs \in Seq(Frames), cs # <<>>
    PROVE  Popped(cs, {}) \in Seq(Frames)
<1> DEFINE now == Popped(cs, {})
           m == Len(cs) - 1
<1>1. m \in Nat /\ \A i \in 1 .. m : cs[i] \in Frames
  <2>1. Len(cs) \in Nat /\ Len(cs) >= 1 /\ DOMAIN cs = 1 .. Len(cs)
    BY StackTop
  <2>2. \A i \in 1 .. Len(cs) - 1 : i \in DOMAIN cs
    BY <2>1
  <2> QED
    BY <2>1, <2>2, ElementType
<1>2. ASSUME NEW i \in 1 .. m PROVE now[i] \in Frames
  <2>1. cs[i] \in Frames
    BY <1>1
  <2> QED
    BY <2>1 DEF Frames, Popped
<1>3. now = [i \in 1 .. m |-> now[i]]
  BY DEF Popped
<1> HIDE DEF now, m
<1>4. now \in Seq(Frames)
  BY <1>1, <1>2, <1>3
<1> QED
  BY <1>4 DEF now

\* A strict parser that fails ends with the message it failed with.
LEMMA FailsToTheEnd ==
    ASSUME NEW p, NEW e, NEW cs \in Seq(Frames), NEW rt \in SUBSET Nat, NEW pa, NEW d,
           Reaches(Config(p, e, cs, "fail", rt, pa), d)
    PROVE  d.ret = "fail" /\ d.err = e /\ d.parsed = pa
<1> DEFINE C(c, f) == Config(p, e, c, "fail", f, pa)
           X == {C(c, f) : c \in Seq(Frames), f \in SUBSET Nat}
<1>0. \A c \in Seq(Frames), f \in SUBSET Nat : C(c, f) \in X
  OBVIOUS
<1>1. ClosedRuns(X)
  <2> SUFFICES ASSUME NEW p2, NEW e2, NEW cs2, NEW r2, NEW rt2, NEW pa2, cs2 # <<>>,
                      Config(p2, e2, cs2, r2, rt2, pa2) \in X
               PROVE  Succ(p2, e2, cs2, r2, rt2, pa2) \in X
    BY DEF ClosedRuns
  <2>1. PICK c \in Seq(Frames), f \in SUBSET Nat :
           Config(p2, e2, cs2, r2, rt2, pa2) = C(c, f)
    OBVIOUS
  <2>2. p2 = p /\ e2 = e /\ cs2 = c /\ r2 = "fail" /\ rt2 = f /\ pa2 = pa
    BY <2>1, ConfigIs
  <2>3. Popped(c, {}) \in Seq(Frames)
    BY <2>2, PoppedType
  <2>4. CASE Len(c) = 1
    <3>1. Succ(p2, e2, cs2, r2, rt2, pa2) = C(Popped(c, {}), {})
      BY <2>2, <2>4 DEF Succ, Pop
    <3>2. {} \in SUBSET Nat
      OBVIOUS
    <3> HIDE DEF X, C
    <3> QED
      BY <1>0, <2>3, <3>1, <3>2
  <2>5. CASE Len(c) # 1
    <3>1. Succ(p2, e2, cs2, r2, rt2, pa2) = C(Popped(c, {}), f)
      BY <2>2, <2>5 DEF Succ, Pop
    <3> HIDE DEF X, C
    <3> QED
      BY <1>0, <2>3, <3>1
  <2> QED
    BY <2>4, <2>5
<1>2. Config(p, e, cs, "fail", rt, pa) \in X
  OBVIOUS
<1>3. d \in X
  BY <1>1, <1>2 DEF Reaches
<1>4. PICK c \in Seq(Frames), f \in SUBSET Nat : d = Config(p, e, c, "fail", f, pa)
  BY <1>3
<1> QED
  BY <1>4, ConfigIs

LEMMA RunsPrime ==
    ASSUME doc' = doc, NEW X
    PROVE  ClosedRuns(X)' <=> ClosedRuns(X)
<1>1. \A i : Tok(i)' = Tok(i) /\ After(i)' = After(i) /\ Closes(i)' = Closes(i) /\ Opens(i)' = Opens(i)
  BY DEF Tok, After, End, Closes, Opens
<1>2. \A e, i : Lexed(e, i)' = Lexed(e, i)
  BY <1>1 DEF Lexed
<1>3. \A p, e, cs, r, rt, pa : Succ(p, e, cs, r, rt, pa)' = Succ(p, e, cs, r, rt, pa)
  BY <1>1, <1>2 DEF Succ, BodySucc, BlockSucc, ExprSucc, ObjectSucc, Fail, OneOn, TwoOn
<1> QED
  BY <1>3 DEF ClosedRuns

\* What hcl2_parse returned is how a run to configuration d ends.
StrictEnd(d) ==
    /\ d.calls = <<>>
    /\ strict = [ok |-> d.ret = "ok", err |-> d.err, root |-> d.root, parsed |-> d.parsed]

AgreeInv ==
    NoFault => /\ ret = "resync" => mode = "diags" /\ diags # <<>>
               /\ mode = "strict" => Reaches(Start, Now)
               /\ mode = "diags" /\ diags = <<>> => \E d : Reaches(Now, d) /\ StrictEnd(d)
               /\ mode = "diags" /\ diags # <<>> =>
                     ~strict.ok /\ diags[1] = strict.err /\ strict.parsed \subseteq parsed
               /\ Over => /\ strict.ok <=> diags = <<>>
                          /\ strict.ok => root = strict.root
                          /\ ~strict.ok => diags[1] = strict.err
                          /\ strict.parsed \subseteq parsed

\* hcl2_parse fails with the message that a diagnosing parser records first.
LEMMA FirstError ==
    ASSUME TypeOK, NoFault', mode = "diags", diags = <<>>, NEW d, Reaches(Now, d), StrictEnd(d),
           Recording(pos, err, diags, noticed, ret, Fn(calls)),
           CutOff \/ StrayBrace \/ NotAName \/ ItemFails
    PROVE  diags' # <<>> /\ diags'[1] = strict.err /\ ~strict.ok /\ strict.parsed = parsed /\ parsed' = parsed
<1>t. calls \in Seq(Frames) /\ pos \in Positions /\ root \subseteq Nat /\ diags \in Seq(Messages)
  BY DEF TypeOK, Frames
<1>f. /\ (In("body") => Fn(calls) = "body" /\ calls # <<>>)
      /\ Top = calls[Len(calls)] /\ (TopLevel <=> Len(calls) = 1)
  BY FnIs DEF In
<1>1. In("body") /\ calls # <<>> /\ parsed' = parsed
  BY DEF CutOff, StrayBrace, NotAName, ItemFails, Running, In
<1>2. PICK m \in {"eof", "brace", "name", "item"} :
         /\ \/ m = "item" /\ ItemFails /\ ret = "fail" /\ DiagsAdd(err)
            \/ m = "eof" /\ ret = "run" /\ Tok(pos) = "eof" /\ ~TopLevel /\ DiagsAdd(LxErr(err, pos, m))
            \/ m = "brace" /\ ret = "run" /\ Closes(pos) /\ TopLevel /\ DiagsAdd(LxErr(err, pos, m))
            \/ m = "name" /\ ret = "run" /\ Tok(pos) \notin {"eof", "id"} /\ ~Closes(pos)
                /\ DiagsAdd(LxErr(err, pos, m))
  BY DEF CutOff, StrayBrace, NotAName, ItemFails, Running, Closes
<1>3. PICK x : /\ DiagsAdd(x) /\ x # NoError
               /\ \E cs \in Seq(Frames), rt \in SUBSET Nat : Reaches(Config(pos, x, cs, "fail", rt, parsed), d)
  <2>1. CASE m = "item"
    <3>1. ret = "fail" /\ DiagsAdd(err) /\ err # NoError
      BY <1>2, <2>1 DEF Recording
    <3>2. Reaches(Config(pos, err, calls, "fail", root, parsed), d)
      BY <3>1 DEF Now
    <3> QED
      BY <1>t, <3>1, <3>2
  <2>2. CASE m # "item"
    <3> DEFINE x == LxErr(err, pos, m)
    <3>1. DiagsAdd(x) /\ m \in {"eof", "brace", "name"} /\ ret = "run"
      BY <1>2, <2>2
    <3>2. x # NoError
      BY <1>t, <3>1, NoteIs
    <3>3. Succ(pos, err, calls, ret, root, parsed) = Fail(pos, err, m, calls, root, parsed)
      <4>1. Fn(calls) = "body"
        BY <1>f, <1>1
      <4>2. CASE m = "eof"
        BY <1>f, <1>2, <4>1, <4>2, KindsApart DEF Succ, BodySucc
      <4>3. CASE m = "brace"
        BY <1>f, <1>2, <4>1, <4>3, KindsApart DEF Succ, BodySucc
      <4>4. CASE m = "name"
        BY <1>f, <1>2, <4>1, <4>4, KindsApart DEF Succ, BodySucc
      <4> QED
        BY <3>1, <4>2, <4>3, <4>4
    <3>4. d # Config(pos, err, calls, ret, root, parsed)
      BY <1>1, ConfigIs DEF StrictEnd
    <3>5. Reaches(Succ(pos, err, calls, ret, root, parsed), d)
      BY <1>1, <3>4, ReachesOn DEF Now
    <3>6. Reaches(Config(pos, x, Popped(calls, {}), "fail", IF Len(calls) = 1 THEN {} ELSE root, parsed), d)
      BY <3>3, <3>5 DEF Fail, Pop
    <3>7. Popped(calls, {}) \in Seq(Frames)
      BY <1>t, <1>1, PoppedType
    <3>8. (IF Len(calls) = 1 THEN {} ELSE root) \in SUBSET Nat
      BY <1>t
    <3> HIDE DEF x
    <3> QED
      BY <3>1, <3>2, <3>6, <3>7, <3>8
  <2> QED
    BY <2>1, <2>2
<1>4. d.ret = "fail" /\ d.err = x /\ d.parsed = parsed
  BY <1>3, FailsToTheEnd
<1>5. ~strict.ok /\ strict.err = x /\ strict.parsed = parsed
  BY <1>4 DEF StrictEnd
<1>6. diags' = Append(diags, x) /\ diags' # <<>> /\ diags'[1] = x
  BY <1>3, DiagsAdds
<1> QED
  BY <1>1, <1>5, <1>6

\* What a step may do to the histories and to the list.
LEMMA HistoryKept ==
    ASSUME Step, ~StrictReturns, ~DiagsReturns
    PROVE  /\ strict' = strict /\ parsed \subseteq parsed'
           /\ diags' = diags \/ CutOff \/ StrayBrace \/ NotAName \/ ItemFails
           /\ ret' = "resync" => \/ ret = "resync"
                                 \/ mode = "diags" /\ (NotAName \/ ItemFails)
BY DEF Step, BodyEnds, BodyCloses, CutOff,
      StrayBrace, NotAName, AttrBegins, BlockBegins, ItemDone, ItemFails, SkipToken, AttrDone,
      BlockLabel, BlockWithoutBody, BlockOpens, BlockDone, ExprAtom, ExprObject, ExprMissing,
      ObjectEnds, ObjectItem, ObjectItemDone, ObjectBadKey, ObjectNoAssign, Propagate, Keep,
      Running, Call, Fails, Return

\* The first diagnostic stays the first.
LEMMA FirstKept ==
    ASSUME TypeOK, Step, ~StrictReturns, ~DiagsReturns, diags # <<>>
    PROVE  diags' # <<>> /\ diags'[1] = diags[1]
<1>1. ASSUME NEW e, DiagsAdd(e) PROVE diags' = diags \/ \E m : diags' = Append(diags, m)
  BY <1>1 DEF DiagsAdd
<1>2. diags' = diags \/ \E e : DiagsAdd(e)
  BY HistoryKept DEF CutOff, StrayBrace, NotAName, ItemFails
<1>3. diags' = diags \/ \E m : diags' = Append(diags, m)
  BY <1>1, <1>2
<1>4. ASSUME NEW m, diags' = Append(diags, m) PROVE diags' # <<>> /\ diags'[1] = diags[1]
  <2>1. diags \in Seq(Messages \cup {m}) /\ Len(diags) >= 1 /\ Len(diags) \in Nat
    BY StackTop DEF TypeOK
  <2>2. Len(Append(diags, m)) = Len(diags) + 1 /\ Append(diags, m)[1] = diags[1]
    BY <2>1, StackPush
  <2> QED
    BY <1>4, <2>1, <2>2
<1> QED
  BY <1>3, <1>4

LEMMA ReachesPrime ==
    ASSUME doc' = doc, NEW c, NEW d
    PROVE  Reaches(c, d)' <=> Reaches(c, d)
BY RunsPrime DEF Reaches

LEMMA AgreeStep == TypeOK /\ TypeOK' /\ DiagsInv /\ AgreeInv /\ [Next]_state => AgreeInv'
<1> SUFFICES ASSUME TypeOK, TypeOK', DiagsInv, AgreeInv, [Next]_state, NoFault'
             PROVE  AgreeInv'
  BY DEF AgreeInv
<1>1. NoFault /\ doc' = doc /\ (Step \/ UNCHANGED state)
  BY WithoutFaults
<1>2. /\ Config(pos', err', calls', ret', root', parsed') = Now'
      /\ Start' = Start /\ \A c, d : Reaches(c, d)' <=> Reaches(c, d)
      /\ \A d : StrictEnd(d)' <=> d.calls = <<>>
            /\ strict' = [ok |-> d.ret = "ok", err |-> d.err, root |-> d.root, parsed |-> d.parsed]
  BY <1>1, ReachesPrime DEF Now, Config, Start, StrictEnd, Lexed, Tok, End
<1>3. CASE UNCHANGED state
  BY <1>1, <1>2, <1>3 DEF AgreeInv, state, Now, Config, Over, StrictEnd
<1>4. CASE StrictReturns
  <2>1. /\ mode = "strict" /\ calls = <<>> /\ mode' = "diags" /\ ret' = "run"
        /\ pos' = 1 /\ err' = Lexed(NoError, 1) /\ calls' = <<Frame("body", 0)>>
        /\ root' = {} /\ parsed' = {} /\ diags' = diags
        /\ strict' = [ok |-> ret = "ok", err |-> err, root |-> root, parsed |-> parsed]
    BY <1>4 DEF StrictReturns
  <2>2. Now' = Start
    BY <1>2, <2>1 DEF Start
  <2>3. Reaches(Start, Now) /\ diags' = <<>>
    BY <1>1, <2>1 DEF AgreeInv, DiagsInv
  <2>4. \E d : Reaches(Now', d) /\ StrictEnd(d)'
    BY <1>2, <2>1, <2>2, <2>3 DEF Now, Config
  <2>5. (\E d : Reaches(Now, d) /\ StrictEnd(d))'
    BY <1>2, <2>4
  <2> QED
    BY <2>1, <2>3, <2>5 DEF AgreeInv, Over
<1>5. CASE DiagsReturns
  <2>1. /\ mode = "diags" /\ calls = <<>> /\ mode' = "over"
        /\ strict' = strict /\ diags' = diags /\ root' = root /\ parsed' = parsed /\ ret' = ret
    BY <1>5 DEF DiagsReturns
  <2>2. ret = "ok"
    BY <1>1, <2>1 DEF DiagsInv, Recording, Fn
  <2>3. CASE diags = <<>>
    <3>1. PICK d : Reaches(Now, d) /\ StrictEnd(d)
      BY <1>1, <2>1, <2>3 DEF AgreeInv
    <3>2. d = Config(pos, err, <<>>, ret, root, parsed)
      BY <2>1, <3>1, ReachesEnd DEF Now
    <3>3. d.ret = "ok" /\ d.root = root /\ d.parsed = parsed
      BY <2>2, <3>2, ConfigIs
    <3>4. strict.ok /\ strict.root = root /\ strict.parsed = parsed
      BY <3>1, <3>3 DEF StrictEnd
    <3> QED
      BY <2>1, <2>2, <2>3, <3>4 DEF AgreeInv, Over
  <2>4. CASE diags # <<>>
    BY <1>1, <2>1, <2>2, <2>4 DEF AgreeInv, Over
  <2> QED
    BY <2>3, <2>4
<1>6. CASE Step /\ ~StrictReturns /\ ~DiagsReturns
  <2>1. /\ mode' = mode /\ calls # <<>> /\ mode # "over" /\ strict' = strict /\ parsed \subseteq parsed'
    BY <1>1, <1>6, ModeKept, StepsRun, HistoryKept DEF DiagsInv, Over
  <2>2. CASE mode = "strict"
    <3>1. ret # "resync" /\ Reaches(Start, Now) /\ ret' # "resync"
      BY <1>1, <1>6, <2>2, HistoryKept DEF AgreeInv
    <3>2. Config(pos', err', calls', ret', root', parsed') = Succ(pos, err, calls, ret, root, parsed)
      BY <1>6, <2>2, <3>1, StepIsSucc
    <3>3. Reaches(Start, Now')
      BY <1>2, <2>1, <3>1, <3>2, ReachesNext DEF Now
    <3>4. Reaches(Start, Now)'
      BY <1>2, <3>3
    <3> QED
      BY <2>1, <2>2, <3>1, <3>4 DEF AgreeInv, Over
  <2>3. CASE mode = "diags" /\ diags # <<>>
    <3>1. ~strict.ok /\ diags[1] = strict.err /\ strict.parsed \subseteq parsed
      BY <1>1, <2>3 DEF AgreeInv
    <3>2. diags' # <<>> /\ diags'[1] = diags[1]
      BY <1>6, <2>3, FirstKept
    <3> QED
      BY <2>1, <2>3, <3>1, <3>2 DEF AgreeInv, Over
  <2>4. CASE mode = "diags" /\ diags = <<>>
    <3>1. PICK d : Reaches(Now, d) /\ StrictEnd(d)
      BY <1>1, <2>4 DEF AgreeInv
    <3>2. Recording(pos, err, diags, noticed, ret, Fn(calls)) /\ ret # "resync"
      BY <1>1, <2>4 DEF AgreeInv, DiagsInv
    <3>3. CASE CutOff \/ StrayBrace \/ NotAName \/ ItemFails
      <4>1. diags' # <<>> /\ diags'[1] = strict.err /\ ~strict.ok /\ strict.parsed = parsed /\ parsed' = parsed
        BY <2>4, <3>1, <3>2, <3>3, FirstError
      <4> QED
        BY <2>1, <2>4, <4>1 DEF AgreeInv, Over
    <3>4. CASE ~CutOff /\ ~StrayBrace /\ ~NotAName /\ ~ItemFails
      <4>1. diags' = diags /\ ret' # "resync"
        BY <1>6, <3>2, <3>4, HistoryKept
      <4>2. Config(pos', err', calls', ret', root', parsed') = Succ(pos, err, calls, ret, root, parsed)
        BY <1>6, <3>2, <3>4, StepIsSucc
      <4>3. d # Config(pos, err, calls, ret, root, parsed)
        BY <2>1, <3>1, ConfigIs DEF StrictEnd
      <4>4. Reaches(Now', d)
        BY <1>2, <2>1, <3>1, <4>2, <4>3, ReachesOn DEF Now
      <4>5. StrictEnd(d)'
        BY <1>2, <2>1, <3>1 DEF StrictEnd
      <4>6. (\E dd : Reaches(Now, dd) /\ StrictEnd(dd))'
        BY <1>2, <4>4, <4>5
      <4> QED
        BY <2>1, <2>4, <4>1, <4>6 DEF AgreeInv, Over
    <3> QED
      BY <3>3, <3>4
  <2> QED
    BY <2>1, <2>2, <2>3, <2>4 DEF TypeOK
<1> QED
  BY <1>1, <1>3, <1>4, <1>5, <1>6

\* The two entry points agree on every document that is parsed without a failing
\* allocation: the diagnosing parser records an error exactly if the strict one
\* fails, the first one it records is the strict one's message, and a document
\* without errors has the same items for both.
THEOREM EntryPointsAgree == Spec => []SameVerdict
<1>1. Init => DiagsInv /\ AgreeInv
  <2> SUFFICES ASSUME Init PROVE DiagsInv /\ AgreeInv
    OBVIOUS
  <2>1. Now = Start
    BY DEF Init, Begin, Now, Start, Lexed, LxErr, Tok, End
  <2>2. Reaches(Start, Now)
    BY <2>1 DEF Reaches
  <2> QED
    BY <2>2 DEF Init, Begin, DiagsInv, AgreeInv, Over
<1>2. AgreeInv => SameVerdict
  BY DEF AgreeInv, SameVerdict, Over
<1> QED
  BY <1>1, <1>2, DiagsStep, AgreeStep, TypeCorrect, PTL DEF Spec

------------------------------------------------------------------------------
(* Nothing is lost.  Without faults the diagnosing parser frees no activation*)
(* that holds items: what it has completed is in a body that is still open,  *)
(* in the block that has just been handed one, or in the document.           *)

\* The activations that hold no items.
Bare(cs, r, i) ==
    \/ cs[i].fn \in {"attr", "expr", "object"}
    \/ cs[i].fn = "block" /\ (i = Len(cs) => r # "ok")

Kept(cs, r, rt, pa) ==
    /\ \A x \in pa : x \in rt \/ \E i \in 1 .. Len(cs) : x \in cs[i].items
    /\ \A i \in 1 .. Len(cs) : Bare(cs, r, i) => cs[i].items = {}
    /\ cs # <<>> => rt = {}

KeepInv == NoFault /\ mode # "strict" => Kept(calls, ret, root, parsed)

LEMMA KeptReturn ==
    ASSUME TypeOK, calls # <<>>, Kept(calls, ret, root, parsed),
           NEW how, NEW items \in SUBSET Nat, Return(how, items), Top.items \subseteq items,
           parsed' \subseteq parsed \cup items,
           TopLevel \/ Fn(calls') = "body" \/ (Fn(calls') = "block" /\ how = "ok") \/ items = {}
    PROVE  Kept(calls', ret', root', parsed')
<1>1. calls \in Stacks
  BY TypeIsStack
<1>2. /\ Depth \in Nat \ {0} /\ Depth = Len(calls) /\ Top = calls[Depth]
  BY <1>1, TopFrame
<1>3. /\ ret' = how /\ Len(calls') = Depth - 1
      /\ TopLevel => calls' = <<>> /\ root' = items
      /\ ~TopLevel => calls' # <<>> /\ root' = root
      /\ \A i \in 1 .. Depth - 1 :
            /\ calls'[i].fn = calls[i].fn
            /\ calls'[i].items = IF i = Depth - 1 THEN calls[i].items \cup items
                                                  ELSE calls[i].items
  BY Returned
<1>4. root = {}
  BY DEF Kept
<1>5. ASSUME NEW x \in parsed' PROVE x \in root' \/ \E i \in 1 .. Len(calls') : x \in calls'[i].items
  <2>1. x \in items \/ \E i \in 1 .. Depth - 1 : x \in calls[i].items
    BY <1>2, <1>4, <1>5 DEF Kept
  <2>2. CASE TopLevel
    <3>1. Depth = 1
      BY <2>2 DEF TopLevel
    <3> QED
      BY <1>3, <2>1, <2>2, <3>1
  <2>3. CASE ~TopLevel
    <3>1. Depth - 1 \in 1 .. Depth - 1
      BY <1>2, <2>3 DEF TopLevel
    <3> QED
      BY <1>3, <2>1, <3>1
  <2> QED
    BY <2>2, <2>3
<1>6. ASSUME NEW i \in 1 .. Len(calls'), Bare(calls', ret', i) PROVE calls'[i].items = {}
  <2>1. i \in 1 .. Depth - 1 /\ i \in 1 .. Depth /\ i # Depth
    BY <1>2, <1>3
  <2>2. ~TopLevel
    BY <2>1 DEF TopLevel
  <2>3. Fn(calls') = calls'[Depth - 1].fn
    BY <1>3, <2>2 DEF Fn
  <2>4. Bare(calls, ret, i)
    BY <1>2, <1>3, <1>6, <2>1 DEF Bare
  <2>5. calls[i].items = {}
    BY <1>2, <2>1, <2>4 DEF Kept
  <2>6. i = Depth - 1 => items = {}
    BY <1>3, <1>6, <2>2, <2>3 DEF Bare
  <2> QED
    BY <1>3, <2>1, <2>5, <2>6
<1>7. calls' # <<>> => root' = {}
  BY <1>3, <1>4
<1> QED
  BY <1>5, <1>6, <1>7 DEF Kept

LEMMA KeptSame ==
    ASSUME TypeOK, Kept(calls, ret, root, parsed), calls' = calls, root' = root, parsed' = parsed,
           ret' = "ok" \/ ret # "ok" \/ Fn(calls) # "block"
    PROVE  Kept(calls', ret', root', parsed')
<1>1. ASSUME NEW i \in 1 .. Len(calls), Bare(calls, ret', i) PROVE Bare(calls, ret, i)
  BY <1>1 DEF Bare, Fn, TypeOK
<1> QED
  BY <1>1 DEF Kept

LEMMA KeptCalls ==
    ASSUME TypeOK, Kept(calls, ret, root, parsed), calls # <<>>, ret = "run",
           root' = root, parsed' = parsed,
           Len(calls') \in Nat, Len(calls) <= Len(calls'),
           \A i \in 1 .. Len(calls) : calls'[i].items = calls[i].items /\
              (calls'[i].fn = calls[i].fn \/ calls[i].fn = "expr"),
           \A i \in 1 .. Len(calls') : i > Len(calls) => calls'[i].items = {}
    PROVE  Kept(calls', ret', root', parsed')
<1>1. Len(calls) \in Nat
  BY DEF TypeOK
<1>2. \A i \in 1 .. Len(calls) : Bare(calls', ret', i) => Bare(calls, ret, i)
  BY DEF Bare
<1>3. \A i \in 1 .. Len(calls) : i \in 1 .. Len(calls')
  BY <1>1
<1>4. \A i \in 1 .. Len(calls') : i \in 1 .. Len(calls) \/ i > Len(calls)
  BY <1>1
<1> QED
  BY <1>2, <1>3, <1>4 DEF Kept

LEMMA KeptReturns ==
    ASSUME TypeOK, NoFault', mode = "diags", Kept(calls, ret, root, parsed),
           BodyEnds \/ BodyCloses \/ CutOff \/ AttrDone \/ BlockDone \/ ExprAtom \/ ObjectEnds
    PROVE  Kept(calls', ret', root', parsed')
<1>f. \A fn \in Functions : In(fn) => calls # <<>> /\ Fn(calls) = fn
  BY RunningFn DEF In
<1>t. calls # <<>> => /\ Top \in Frames /\ Depth \in 1 .. Len(calls) /\ Top = calls[Depth] /\ Depth = Len(calls)
                      /\ Fn(calls) = Top.fn /\ Top.items \in SUBSET Nat /\ Top.at \in Nat
  BY TypeIsStack, TopFrame, RunningFn DEF Frames
<1>b. calls # <<>> /\ Fn(calls) \in {"attr", "expr", "object"} => Top.items = {}
  BY <1>t DEF Kept, Bare
<1>1. CASE BodyEnds
  <2>1. In("body") /\ TopLevel /\ Return("ok", Top.items) /\ parsed' = parsed
    BY <1>1 DEF BodyEnds, Running
  <2> QED
    BY <2>1, <1>f, <1>t, KeptReturn DEF Functions
<1>2. CASE BodyCloses \/ CutOff
  <2>1. In("body") /\ ~TopLevel /\ Return("ok", Top.items) /\ parsed' = parsed
    BY <1>2 DEF BodyCloses, CutOff, Running
  <2>2. Fn(calls') = "block"
    BY <2>1, <1>f, <1>t, ReturnFn, Callers DEF Functions
  <2> QED
    BY <2>1, <2>2, <1>f, <1>t, KeptReturn DEF Functions
<1>3. CASE AttrDone
  <2>1. In("attr") /\ Return("ok", {Top.at}) /\ parsed' = parsed \cup {Top.at}
    BY <1>3 DEF AttrDone
  <2>2. calls # <<>> /\ Fn(calls) = "attr" /\ Top.items = {} /\ {Top.at} \in SUBSET Nat
    BY <2>1, <1>f, <1>t, <1>b DEF Functions
  <2>3. TopLevel \/ Fn(calls') = "body"
    BY <2>1, <2>2, ReturnFn, Callers
  <2> QED
    BY <2>1, <2>2, <2>3, KeptReturn
<1>4. CASE BlockDone
  <2> DEFINE items == Top.items \cup {Top.at}
  <2>1. In("block") /\ Return("ok", items) /\ parsed' = parsed \cup {Top.at}
    BY <1>4 DEF BlockDone
  <2>2. calls # <<>> /\ Fn(calls) = "block" /\ items \in SUBSET Nat
    BY <2>1, <1>f, <1>t DEF Functions
  <2>3. TopLevel \/ Fn(calls') = "body"
    BY <2>1, <2>2, ReturnFn, Callers
  <2>4. Top.items \subseteq items /\ parsed' \subseteq parsed \cup items
    BY <2>1
  <2> HIDE DEF items
  <2> QED
    BY <2>1, <2>2, <2>3, <2>4, KeptReturn
<1>5. CASE ExprAtom \/ ObjectEnds
  <2>1. (In("expr") \/ In("object")) /\ Return("ok", {}) /\ parsed' = parsed
    BY <1>5 DEF ExprAtom, ObjectEnds, Running
  <2>2. calls # <<>> /\ Top.items = {}
    BY <2>1, <1>f, <1>b DEF Functions
  <2> QED
    BY <2>1, <2>2, KeptReturn
<1> QED
  BY <1>1, <1>2, <1>3, <1>4, <1>5

\* What fails holds nothing.
LEMMA KeptFails ==
    ASSUME TypeOK, mode = "diags", Kept(calls, ret, root, parsed),
           BlockWithoutBody \/ ExprMissing \/ ObjectBadKey \/ ObjectNoAssign \/ Propagate
    PROVE  Kept(calls', ret', root', parsed')
<1>1. /\ In("attr") \/ In("block") \/ In("expr") \/ In("object")
      /\ Return("fail", {}) /\ parsed' = parsed /\ ret # "ok"
  BY DEF BlockWithoutBody, ExprMissing, ObjectBadKey, ObjectNoAssign, Propagate, Running, Fails
<1>2. calls # <<>> /\ Fn(calls) \in {"attr", "block", "expr", "object"}
  BY <1>1, RunningFn DEF Functions, In
<1>3. /\ Depth \in 1 .. Len(calls) /\ Top = calls[Depth] /\ Fn(calls) = Top.fn
  BY <1>2, TypeIsStack, TopFrame, RunningFn
<1>4. Top.items = {}
  BY <1>1, <1>2, <1>3 DEF Kept, Bare
<1> QED
  BY <1>1, <1>2, <1>4, KeptReturn

LEMMA KeptCallSteps ==
    ASSUME TypeOK, mode = "diags", Kept(calls, ret, root, parsed),
           AttrBegins \/ BlockBegins \/ BlockOpens \/ ExprObject \/ ObjectItem
    PROVE  Kept(calls', ret', root', parsed')
<1>1. ret = "run" /\ root' = root /\ parsed' = parsed /\ calls # <<>>
  BY DEF AttrBegins, BlockBegins, BlockOpens, ExprObject, ObjectItem, Running, In, Keep
<1>t. calls \in Seq(Frames) /\ Len(calls) \in Nat /\ pos \in Nat
  BY DocType DEF TypeOK, Frames
<1>2. CASE BlockBegins \/ BlockOpens \/ ObjectItem
  <2>1. \E fn \in Functions, at \in Nat : calls' = Append(calls, Frame(fn, at))
    BY <1>2, <1>t DEF BlockBegins, BlockOpens, ObjectItem, Call, Functions
  <2>2. PICK fn \in Functions, at \in Nat : calls' = Append(calls, Frame(fn, at))
    BY <2>1
  <2>3. Frame(fn, at) \in Frames /\ Frame(fn, at).items = {}
    BY DEF Frame, Frames
  <2>4. /\ Len(calls') = Len(calls) + 1 /\ calls'[Len(calls) + 1] = Frame(fn, at)
        /\ \A i \in 1 .. Len(calls) : calls'[i] = calls[i]
    BY <1>t, <2>2, <2>3, StackPush
  <2>5. \A i \in 1 .. Len(calls') : i > Len(calls) => i = Len(calls) + 1
    BY <1>t, <2>4
  <2>6. Len(calls') \in Nat /\ Len(calls) <= Len(calls')
    BY <1>t, <2>4
  <2> QED
    BY <1>1, <2>3, <2>4, <2>5, <2>6, KeptCalls
<1>3. CASE AttrBegins
  <2>1. calls' = calls \o <<Frame("attr", pos), Frame("expr", 0)>> /\ In("body")
    BY <1>3 DEF AttrBegins, Running
  <2>2. calls' = Append(Append(calls, Frame("attr", pos)), Frame("expr", 0))
    BY <1>t, <2>1, AppendTwice
  <2>3. calls \in Stacks /\ calls[Len(calls)].fn = "body"
    BY <2>1, TypeIsStack DEF In, Top, Depth
  <2>4. /\ Len(calls') = Len(calls) + 2
        /\ calls'[Len(calls) + 1] = Frame("attr", pos) /\ calls'[Len(calls) + 2] = Frame("expr", 0)
        /\ \A i \in 1 .. Len(calls) : calls'[i] = calls[i]
    BY <1>1, <1>t, <2>2, <2>3, PushedTwice
  <2>5. Frame("attr", pos).items = {} /\ Frame("expr", 0).items = {}
    BY DEF Frame
  <2>6. \A i \in 1 .. Len(calls') : i > Len(calls) => i = Len(calls) + 1 \/ i = Len(calls) + 2
    BY <1>t, <2>4
  <2>7. Len(calls') \in Nat /\ Len(calls) <= Len(calls')
    BY <1>t, <2>4
  <2> QED
    BY <1>1, <2>4, <2>5, <2>6, <2>7, KeptCalls
<1>4. CASE ExprObject
  <2>1. calls' = [calls EXCEPT ![Len(calls)] = Frame("object", 0)] /\ In("expr")
    BY <1>4 DEF ExprObject, Running, Depth
  <2>2. calls \in Stacks /\ calls[Len(calls)].fn = "expr"
    BY <2>1, TypeIsStack DEF In, Top, Depth
  <2>3. /\ Len(calls') = Len(calls) /\ calls'[Len(calls)] = Frame("object", 0)
        /\ \A i \in 1 .. Len(calls) - 1 : calls'[i] = calls[i]
    BY <1>1, <2>1, <2>2, ReplacedTop
  <2>4. Len(calls) \in 1 .. Len(calls) /\ \A i \in 1 .. Len(calls) : i \in 1 .. Len(calls) - 1 \/ i = Len(calls)
    BY <1>1, <1>t, StackTop
  <2>5. calls[Len(calls)].items = {} /\ Frame("object", 0).items = {}
    BY <2>2, <2>4 DEF Kept, Bare, Frame
  <2>6. \A i \in 1 .. Len(calls) : calls'[i].items = calls[i].items /\
              (calls'[i].fn = calls[i].fn \/ calls[i].fn = "expr")
    BY <2>2, <2>3, <2>4, <2>5
  <2>7. \A i \in 1 .. Len(calls') : ~(i > Len(calls))
    BY <1>t, <2>3
  <2> QED
    BY <1>1, <1>t, <2>3, <2>6, <2>7, KeptCalls
<1> QED
  BY <1>2, <1>3, <1>4

LEMMA KeptStays ==
    ASSUME TypeOK, mode = "diags", Kept(calls, ret, root, parsed),
           StrayBrace \/ NotAName \/ ItemFails \/ ItemDone \/ SkipToken \/ BlockLabel \/ ObjectItemDone
    PROVE  Kept(calls', ret', root', parsed')
<1>1. calls' = calls /\ root' = root /\ parsed' = parsed
  BY DEF StrayBrace, NotAName, ItemFails, ItemDone, SkipToken, BlockLabel, ObjectItemDone, Keep
<1>2. ret = "run" \/ In("body") \/ In("object")
  BY DEF StrayBrace, NotAName, ItemFails, ItemDone, SkipToken, BlockLabel, ObjectItemDone, Running
<1>3. ret # "ok" \/ Fn(calls) # "block"
  BY <1>2, FnIs
<1> QED
  BY <1>1, <1>3, KeptSame

LEMMA KeepStep == TypeOK /\ DiagsInv /\ KeepInv /\ [Next]_state => KeepInv'
<1> SUFFICES ASSUME TypeOK, DiagsInv, KeepInv, [Next]_state, NoFault', mode' # "strict"
             PROVE  Kept(calls', ret', root', parsed')
  BY DEF KeepInv, Kept, Bare
<1>1. NoFault /\ (Step \/ UNCHANGED state)
  BY WithoutFaults
<1>2. CASE UNCHANGED state
  BY <1>1, <1>2 DEF KeepInv, state, Kept, Bare
<1>3. CASE StrictReturns
  <2>1. calls' = <<Frame("body", 0)>> /\ root' = {} /\ parsed' = {}
    BY <1>3 DEF StrictReturns
  <2> QED
    BY <2>1 DEF Kept, Bare, Frame
<1>4. CASE DiagsReturns
  BY <1>1, <1>4 DEF KeepInv, DiagsReturns, Kept, Bare
<1>5. CASE Step /\ ~StrictReturns /\ ~DiagsReturns
  <2>1. mode' = mode /\ calls # <<>> /\ mode # "over"
    BY <1>1, <1>5, ModeKept, StepsRun DEF DiagsInv, Over
  <2>2. mode = "diags"
    BY <2>1 DEF TypeOK
  <2>3. Kept(calls, ret, root, parsed)
    BY <1>1, <2>2 DEF KeepInv
  <2> QED
    BY <1>5, <2>2, <2>3, KeptReturns, KeptFails, KeptCallSteps, KeptStays, Zenon DEF Step
<1> QED
  BY <1>1, <1>2, <1>3, <1>4, <1>5

\* Diagnosing loses nothing, whatever the document, as long as memory lasts: every
\* attribute and block that hcl2_parse completes before its first error is in the
\* partial document that hcl2_parse_diags returns, however deep inside unfinished
\* blocks the error lies.
THEOREM PartialDocumentKeepsItems == Spec => []NothingLost
<1>1. Init => DiagsInv /\ AgreeInv /\ KeepInv
  <2> SUFFICES ASSUME Init PROVE DiagsInv /\ AgreeInv /\ KeepInv
    OBVIOUS
  <2>1. Now = Start
    BY DEF Init, Begin, Now, Start, Lexed, LxErr, Tok, End
  <2>2. Reaches(Start, Now)
    BY <2>1 DEF Reaches
  <2> QED
    BY <2>2 DEF Init, Begin, DiagsInv, AgreeInv, KeepInv, Over
<1>2. TypeOK /\ DiagsInv /\ AgreeInv /\ KeepInv => NothingLost
  <2> SUFFICES ASSUME TypeOK, DiagsInv, AgreeInv, KeepInv, Over, NoFault PROVE strict.parsed \subseteq root
    BY DEF NothingLost
  <2>1. calls = <<>> /\ strict.parsed \subseteq parsed /\ Kept(calls, ret, root, parsed)
    BY DEF Over, DiagsInv, AgreeInv, KeepInv
  <2> QED
    BY <2>1 DEF Kept
<1> QED
  BY <1>1, <1>2, DiagsStep, AgreeStep, KeepStep, TypeCorrect, PTL DEF Spec
=============================================================================
