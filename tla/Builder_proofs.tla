--------------------------- MODULE Builder_proofs ---------------------------
(***************************************************************************)
(* What the code builder keeps at every stack of calls, whatever the       *)
(* types of the variables, the bounds of its recursion and the operators   *)
(* that chance picks; and that the context it builds from is complete.     *)
(***************************************************************************)
EXTENDS Builder, FiniteSetTheorems, SequenceTheorems, TLAPS

(* Over: a frame of a statement on an object that no step bounds.          *)
ForStatement(r) == r.do = "object" \/ (r.do = "return" /\ r.goal = Statement)
Over(f) == f.step < 0 /\ ForStatement(f.done)

(* What is asked for as an lvalue is no function expression or descriptor. *)
GoalOK(g) ==
    /\ g.pref.objectLike \in BOOLEAN
    /\ g.pref = lValPreference => g.type \notin {functionExp, descriptor}
NodeOK(v, g) ==
    ~v.null /\ g # Statement =>
        /\ \/ isMatch(v.itype, g.type, TRUE)
           \/ v.itype = {} /\ MayBeAny(g.type)
        /\ g.pref = lValPreference => v.lval

ResultOK(r) ==
    /\ r.do \in {"idle", "build", "statement", "object", "return"}
    /\ r.do = "idle" => r = Idle
    /\ r.do = "build" => GoalOK(r.goal) /\ r.step \in Int
    /\ r.do = "object" => r.itype # {} /\ r.step \in Int
    /\ r.do = "return" => GoalOK(r.goal) /\ NodeOK(r.node, r.goal)

(* A frame of an array index is done with a node for any type: only there  *)
(* may the type that the part brings be lost.                              *)
IsFrame(f) == f = [kind |-> f.kind, todo |-> f.todo, step |-> f.step,
                   done |-> f.done, left |-> f.left]
FrameOK(f) ==
    /\ IsFrame(f)
    /\ f.kind \in Kinds /\ f.step \in Int /\ f.left \in Nat
    /\ \A g \in f.todo : GoalOK(g)
    /\ ResultOK(f.done)
    /\ f.kind # "try" => f.done.do \in {"object", "return"}
    /\ f.kind = "index" => \E v, g : /\ f.done = Return(Node(v, TRUE), g)
                                     /\ MayBeAny(g.type)

IsStack(s) == \E S : s \in Seq(S)
Framed(s) ==
    /\ \A k \in 1..Len(s) : FrameOK(s[k]) /\ (s[k].kind = "try" <=> k = 1)
    /\ \A k \in 1..Len(s) : s[k].step < 0 => \E j \in 1..k : Over(s[j])
OneFunction(s, flag) ==
    /\ \A k \in 1..Len(s) : s[k].kind = "function" => flag
    /\ \A j, k \in 1..Len(s) :
          s[j].kind = "function" /\ s[k].kind = "function" => j = k
    /\ flag => \E k \in 1..Len(s) : s[k].kind = "function"
Backed(s, r) ==
    r.do = "build" /\ r.step < 0 => \E j \in 1..Len(s) : Over(s[j])
Sound(s, r, flag) ==
    /\ IsStack(s) /\ Framed(s) /\ OneFunction(s, flag)
    /\ r = Idle <=> s = <<>>
    /\ ResultOK(r) /\ Backed(s, r)

Early == pc \in {"literals", "bindings"} => variables = {}
BuilderInv == TypeOK /\ Early /\ Sound(stack, now, inFuncExp) /\ inFuncExp \in BOOLEAN

-----------------------------------------------------------------------------
(* What becomes of a stack when a frame is pushed, popped or replaced.     *)
LEMMA PushDef ==
    ASSUME NEW s, IsStack(s), NEW f
    PROVE  LET t == Append(s, f) IN
           /\ IsStack(t) /\ Len(t) = Len(s) + 1 /\ Len(s) \in Nat /\ t # <<>>
           /\ \A k \in 1..Len(s) : t[k] = s[k]
           /\ t[Len(s) + 1] = f
<1>1. PICK S : s \in Seq(S)
  BY DEF IsStack
<1>2. s \in Seq(S \cup {f}) /\ f \in S \cup {f}
  BY <1>1
<1>3. Append(s, f) \in Seq(S \cup {f}) /\ Len(Append(s, f)) = Len(s) + 1 /\ Len(s) \in Nat
  BY <1>2
<1>4. \A k \in 1..Len(s) : Append(s, f)[k] = s[k]
  BY <1>2
<1>5. Append(s, f)[Len(s) + 1] = f
  BY <1>2
<1> QED
  BY <1>3, <1>4, <1>5 DEF IsStack

LEMMA PopDef ==
    ASSUME NEW s, IsStack(s), s # <<>>
    PROVE  LET t == SubSeq(s, 1, Len(s) - 1) IN
           /\ IsStack(t) /\ Len(t) = Len(s) - 1 /\ Len(s) \in Nat \ {0}
           /\ \A k \in 1..Len(t) : t[k] = s[k]
<1>1. PICK S : s \in Seq(S)
  BY DEF IsStack
<1>2. Len(s) \in Nat \ {0}
  BY <1>1
<1>3. SubSeq(s, 1, Len(s) - 1) \in Seq(S) /\ Len(SubSeq(s, 1, Len(s) - 1)) = Len(s) - 1
  <2>1. /\ 1 \in 1..Len(s) + 1 /\ Len(s) - 1 \in 1 - 1..Len(s)
        /\ Len(s) - 1 - 1 + 1 = Len(s) - 1
    BY <1>2
  <2> QED
    BY <1>1, <1>2, <2>1, SubSeqProperties
<1>4. \A k \in 1..Len(s) - 1 : SubSeq(s, 1, Len(s) - 1)[k] = s[k]
  BY <1>1, <1>2, <1>3
<1> QED
  BY <1>2, <1>3, <1>4 DEF IsStack

LEMMA ReplaceDef ==
    ASSUME NEW s, IsStack(s), s # <<>>, NEW f
    PROVE  LET t == [s EXCEPT ![Len(s)] = f] IN
           /\ IsStack(t) /\ Len(t) = Len(s) /\ Len(s) \in Nat \ {0} /\ t # <<>>
           /\ \A k \in 1..Len(s) : t[k] = IF k = Len(s) THEN f ELSE s[k]
<1>1. PICK S : s \in Seq(S)
  BY DEF IsStack
<1>2. Len(s) \in Nat \ {0} /\ s \in Seq(S \cup {f})
  BY <1>1
<1>3. /\ [s EXCEPT ![Len(s)] = f] \in Seq(S \cup {f})
      /\ Len([s EXCEPT ![Len(s)] = f]) = Len(s)
  BY <1>2
<1>4. \A k \in 1..Len(s) : [s EXCEPT ![Len(s)] = f][k] = IF k = Len(s) THEN f ELSE s[k]
  BY <1>2
<1> QED
  BY <1>2, <1>3, <1>4 DEF IsStack

-----------------------------------------------------------------------------
(* The moves of the builder, one lemma each.                               *)
LEMMA Stays ==
    ASSUME NEW s, NEW r, NEW flag, Sound(s, r, flag), s # <<>>,
           NEW q, ResultOK(q), q.do # "idle", Backed(s, q)
    PROVE  Sound(s, q, flag)
BY DEF Sound, Idle

LEMMA Pushes ==
    ASSUME NEW s, NEW r, NEW flag, Sound(s, r, flag), s # <<>>,
           NEW f, FrameOK(f), f.kind \notin {"try", "function"},
           f.step < 0 => Over(f) \/ \E j \in 1..Len(s) : Over(s[j]),
           NEW g, GoalOK(g)
    PROVE  Sound(Append(s, f), Build(g, f.step), flag)
<1> DEFINE t == Append(s, f)
<1>1. /\ IsStack(t) /\ Len(t) = Len(s) + 1 /\ Len(s) \in Nat \ {0} /\ t # <<>>
      /\ \A k \in 1..Len(s) : t[k] = s[k]
      /\ t[Len(s) + 1] = f
  <2>1. Len(s) # 0
    BY DEF Sound, IsStack
  <2> QED
    BY <2>1, PushDef DEF Sound
<1> HIDE DEF t
<1>2. \A k \in 1..Len(t) : FrameOK(t[k]) /\ (t[k].kind = "try" <=> k = 1)
  BY <1>1 DEF Sound, Framed
<1>3. f.step < 0 => \E j \in 1..Len(t) : Over(t[j])
  BY <1>1
<1>4. \A k \in 1..Len(t) : t[k].step < 0 => \E j \in 1..k : Over(t[j])
  <2>1. ASSUME NEW k \in 1..Len(s), t[k].step < 0
        PROVE  \E j \in 1..k : Over(t[j])
    BY <1>1, <2>1 DEF Sound, Framed
  <2> QED
    BY <1>1, <1>3, <2>1
<1>5. OneFunction(t, flag)
  BY <1>1 DEF Sound, OneFunction
<1>6. ResultOK(Build(g, f.step)) /\ Backed(t, Build(g, f.step)) /\ Build(g, f.step) # Idle
  BY <1>3 DEF ResultOK, Build, Idle, Backed, FrameOK
<1> QED
  BY <1>1, <1>2, <1>4, <1>5, <1>6 DEF Sound, Framed, t

LEMMA PushesFunction ==
    ASSUME NEW s, NEW r, Sound(s, r, FALSE), s # <<>>,
           NEW f, FrameOK(f), f.kind = "function", ~(f.step < 0)
    PROVE  Sound(Append(s, f), BuildStatement, TRUE)
<1> DEFINE t == Append(s, f)
<1>1. /\ IsStack(t) /\ Len(t) = Len(s) + 1 /\ Len(s) \in Nat \ {0} /\ t # <<>>
      /\ \A k \in 1..Len(s) : t[k] = s[k]
      /\ t[Len(s) + 1] = f
  <2>1. Len(s) # 0
    BY DEF Sound, IsStack
  <2> QED
    BY <2>1, PushDef DEF Sound
<1> HIDE DEF t
<1>2. Framed(t)
  <2>1. \A k \in 1..Len(t) : FrameOK(t[k]) /\ (t[k].kind = "try" <=> k = 1)
    BY <1>1 DEF Sound, Framed
  <2>2. ASSUME NEW k \in 1..Len(t), t[k].step < 0
        PROVE  \E j \in 1..k : Over(t[j])
    BY <1>1, <2>2 DEF Sound, Framed
  <2> QED
    BY <2>1, <2>2 DEF Framed
<1>3. OneFunction(t, TRUE)
  BY <1>1 DEF Sound, OneFunction
<1>4. ResultOK(BuildStatement) /\ Backed(t, BuildStatement) /\ BuildStatement # Idle
  BY DEF ResultOK, BuildStatement, Idle, Backed
<1> QED
  BY <1>1, <1>2, <1>3, <1>4 DEF Sound, t

LEMMA Pops ==
    ASSUME NEW s, NEW r, NEW flag, Sound(s, r, flag), s # <<>>,
           s[Len(s)].kind # "try", NEW q, ResultOK(q),
           q.do \in {"object", "return"}
    PROVE  Sound(SubSeq(s, 1, Len(s) - 1), q,
                 IF s[Len(s)].kind = "function" THEN FALSE ELSE flag)
<1> DEFINE t == SubSeq(s, 1, Len(s) - 1)
<1>1. /\ IsStack(t) /\ Len(t) = Len(s) - 1 /\ Len(s) \in Nat \ {0}
      /\ \A k \in 1..Len(t) : t[k] = s[k]
  BY PopDef DEF Sound
<1> HIDE DEF t
<1>2. t # <<>>
  BY <1>1 DEF Sound, Framed
<1>3. Framed(t)
  <2>1. \A k \in 1..Len(t) : FrameOK(t[k]) /\ (t[k].kind = "try" <=> k = 1)
    BY <1>1 DEF Sound, Framed
  <2>2. ASSUME NEW k \in 1..Len(t), t[k].step < 0
        PROVE  \E j \in 1..k : Over(t[j])
    <3>1. PICK j \in 1..k : Over(s[j])
      BY <1>1, <2>2 DEF Sound, Framed
    <3> QED
      BY <1>1, <3>1
  <2> QED
    BY <2>1, <2>2 DEF Framed
<1>4. OneFunction(t, IF s[Len(s)].kind = "function" THEN FALSE ELSE flag)
  BY <1>1 DEF Sound, OneFunction
<1>5. q # Idle /\ Backed(t, q)
  BY DEF Idle, Backed
<1> QED
  BY <1>1, <1>2, <1>3, <1>4, <1>5 DEF Sound, t

LEMMA Replaces ==
    ASSUME NEW s, NEW r, NEW flag, Sound(s, r, flag), s # <<>>,
           NEW f, FrameOK(f), f.kind = s[Len(s)].kind, f.step = s[Len(s)].step,
           Over(s[Len(s)]) => Over(f),
           NEW q, ResultOK(q), q.do # "idle",
           q.do = "build" /\ q.step < 0 => f.step < 0
    PROVE  Sound([s EXCEPT ![Len(s)] = f], q, flag)
<1> DEFINE t == [s EXCEPT ![Len(s)] = f]
<1>1. /\ IsStack(t) /\ Len(t) = Len(s) /\ Len(s) \in Nat \ {0} /\ t # <<>>
      /\ \A k \in 1..Len(s) : t[k] = IF k = Len(s) THEN f ELSE s[k]
  BY ReplaceDef DEF Sound
<1> HIDE DEF t
<1>2. \A k \in 1..Len(t) : /\ FrameOK(t[k]) /\ t[k].kind = s[k].kind
                           /\ t[k].step = s[k].step
                           /\ Over(s[k]) => Over(t[k])
  BY <1>1 DEF Sound, Framed
<1>3. Framed(t)
  BY <1>1, <1>2 DEF Sound, Framed
<1>4. OneFunction(t, flag)
  BY <1>1, <1>2 DEF Sound, OneFunction
<1>5. Backed(t, q)
  BY <1>1, <1>3 DEF Framed, Backed
<1> QED
  BY <1>1, <1>3, <1>4, <1>5 DEF Sound, Idle, t

-----------------------------------------------------------------------------
(* The entries of the builders of the loop: what is offered under the name *)
(* of an expression is an entry of its table.                              *)
Tables == [MemberExpression |-> MemberExpressionDsps,
           BinaryExpression |-> BinaryExpressionDsps]
Own(b) == b.name \in DOMAIN Tables => b.props \cup b.funcs \subseteq Tables[b.name]

LEMMA Concat ==
    ASSUME NEW a, IsStack(a), NEW b, IsStack(b)
    PROVE  /\ IsStack(a \o b) /\ Len(a \o b) = Len(a) + Len(b)
           /\ DOMAIN (a \o b) = 1..Len(a \o b)
           /\ \A k \in 1..Len(a \o b) :
                 (a \o b)[k] = IF k <= Len(a) THEN a[k] ELSE b[k - Len(a)]
<1>1. PICK S : a \in Seq(S)
  BY DEF IsStack
<1>2. PICK R : b \in Seq(R)
  BY DEF IsStack
<1>3. a \in Seq(S \cup R) /\ b \in Seq(S \cup R)
  BY <1>1, <1>2
<1>4. /\ a \o b \in Seq(S \cup R)
      /\ Len(a \o b) = Len(a) + Len(b)
      /\ \A k \in 1..Len(a) + Len(b) :
            (a \o b)[k] = IF k <= Len(a) THEN a[k] ELSE b[k - Len(a)]
  BY <1>3, ConcatProperties
<1> QED
  BY <1>4 DEF IsStack

LEMMA BuildersAre ==
    /\ Len(Builders) = 33 /\ DOMAIN Builders = 1..33
    /\ \A k \in 1..33 : Builders[k] =
          IF k <= 5 THEN Expressions[k]
          ELSE IF k <= 19 THEN builtinBuilders[k - 5] ELSE builtinCtorBuilders[k - 19]
<1>1. IsStack(Expressions) /\ Len(Expressions) = 5
  <2>1. Expressions \in Seq({Expressions[k] : k \in 1..5}) /\ Len(Expressions) = 5
    BY DEF Expressions
  <2> QED
    BY <2>1 DEF IsStack
<1>2. IsStack(builtinBuilders) /\ Len(builtinBuilders) = 14
  <2>1. /\ builtinBuilders \in Seq({builtinBuilders[k] : k \in 1..14})
        /\ Len(builtinBuilders) = 14
    BY DEF builtinBuilders
  <2> QED
    BY <2>1 DEF IsStack
<1>3. IsStack(builtinCtorBuilders) /\ Len(builtinCtorBuilders) = 14
  <2>1. /\ builtinCtorBuilders \in Seq({builtinCtorBuilders[k] : k \in 1..14})
        /\ Len(builtinCtorBuilders) = 14
    BY DEF builtinCtorBuilders
  <2> QED
    BY <2>1 DEF IsStack
<1> DEFINE d == Expressions \o builtinBuilders
<1>4. /\ IsStack(d) /\ Len(d) = 19
      /\ \A k \in 1..19 : d[k] = IF k <= 5 THEN Expressions[k] ELSE builtinBuilders[k - 5]
  <2>1. /\ IsStack(d) /\ Len(d) = Len(Expressions) + Len(builtinBuilders)
        /\ \A k \in 1..Len(d) :
              d[k] = IF k <= Len(Expressions) THEN Expressions[k]
                     ELSE builtinBuilders[k - Len(Expressions)]
    BY <1>1, <1>2, Concat
  <2> HIDE DEF d
  <2>2. Len(d) = 19
    BY <1>1, <1>2, <2>1
  <2> QED
    BY <1>1, <2>1, <2>2
<1> HIDE DEF d
<1>5. /\ Len(d \o builtinCtorBuilders) = 33
      /\ DOMAIN (d \o builtinCtorBuilders) = 1..33
      /\ \A k \in 1..33 : (d \o builtinCtorBuilders)[k] =
            IF k <= 19 THEN d[k] ELSE builtinCtorBuilders[k - 19]
  <2> DEFINE t == d \o builtinCtorBuilders
  <2>1. /\ Len(t) = Len(d) + Len(builtinCtorBuilders) /\ DOMAIN t = 1..Len(t)
        /\ \A k \in 1..Len(t) : t[k] = IF k <= Len(d) THEN d[k]
                                       ELSE builtinCtorBuilders[k - Len(d)]
    BY <1>3, <1>4, Concat
  <2> HIDE DEF t
  <2>2. Len(t) = 33
    BY <1>3, <1>4, <2>1
  <2>3. /\ Len(t) = 33 /\ DOMAIN t = 1..33
        /\ \A k \in 1..33 : t[k] = IF k <= 19 THEN d[k] ELSE builtinCtorBuilders[k - 19]
    BY <1>4, <2>1, <2>2
  <2> QED
    BY <2>3 DEF t
<1>6. Builders = d \o builtinCtorBuilders
  BY DEF Builders, d
<1>7. ASSUME NEW k \in 1..33
      PROVE  Builders[k] =
                IF k <= 5 THEN Expressions[k]
                ELSE IF k <= 19 THEN builtinBuilders[k - 5] ELSE builtinCtorBuilders[k - 19]
  <2>1. Builders[k] = IF k <= 19 THEN d[k] ELSE builtinCtorBuilders[k - 19]
    BY <1>5, <1>6
  <2>2. k <= 19 => d[k] = IF k <= 5 THEN Expressions[k] ELSE builtinBuilders[k - 5]
    BY <1>4
  <2>3. k <= 5 => k <= 19
    OBVIOUS
  <2> QED
    BY <2>1, <2>2, <2>3
<1> QED
  BY <1>5, <1>6, <1>7

LEMMA ExpressionsOwn == \A k \in 1..5 : Own(Expressions[k])
<1> DEFINE r(k) == Own(Expressions[k])
<1>1. r(1)
  BY DEF Own, Tables, Expressions, Expression, Builtin, Weighted
<1>2. r(2)
  BY DEF Own, Tables, Expressions, Expression, Builtin, Weighted
<1>3. r(3) /\ r(4) /\ r(5)
  BY DEF Own, Tables, Expressions, Expression, Builtin
<1> HIDE DEF r
<1>4. \A k \in 1..5 : r(k)
  BY <1>1, <1>2, <1>3
<1> QED
  BY <1>4 DEF r

LEMMA BuiltinsOwn ==
    \A k \in 1..14 : Own(builtinBuilders[k]) /\ Own(builtinCtorBuilders[k])
<1>1. \A k \in 1..14 : builtinBuilders[k].name \notin DOMAIN Tables
  BY DEF Tables, builtinBuilders, Builtin, NumberBuilder, DateBuilder,
     StringBuilder, RegExpBuilder, ArrayBuilder, TypedArrayBuilder, MapBuilder,
     SetBuilder, WeakMapBuilder, WeakSetBuilder, ArrayBufferBuilder,
     DataViewBuilder, ObjectBuilder, IteratorBuilder
<1>2. \A k \in 1..14 : builtinCtorBuilders[k].name \notin DOMAIN Tables
  BY DEF Tables, builtinCtorBuilders, Builtin, NumberCtorBuilder, MathBuilder,
     DateCtorBuilder, StringCtorBuilder, RegExpCtorBuilder, ArrayCtorBuilder,
     TypedArrayCtorBuilder, MapCtorBuilder, SetCtorBuilder, WeakMapCtorBuilder,
     WeakSetCtorBuilder, ArrayBufferCtorBuilder, DataViewCtorBuilder,
     ObjectCtorBuilder
<1> QED
  BY <1>1, <1>2 DEF Own

LEMMA BuildersOwn == \A k \in DOMAIN Builders : Own(Builders[k])
BY BuildersAre, ExpressionsOwn, BuiltinsOwn

(* What is offered, by the name it is offered under.                       *)
LEMMA OfferedIs ==
    ASSUME TypeOK, NEW o \in offers
    PROVE  /\ o.builder \in DOMAIN Tables => o.dsp \in Tables[o.builder]
           /\ o = Offer(o.builder, o.dsp)
<1>1. CASE o \in Literals \cup Declarations
  BY <1>1 DEF Literals, Declarations, Offer, Tables
<1>2. CASE o \in Table
  <2>1. PICK k \in DOMAIN Builders :
            o \in {Offer(Builders[k].name, d) : d \in Builders[k].props \cup Builders[k].funcs}
    BY <1>2 DEF Table
  <2>2. Own(Builders[k])
    BY BuildersOwn
  <2> QED
    BY <2>1, <2>2 DEF Own, Offer
<1>3. CASE o \notin Entries
  <2>1. o.builder \in {"Variable", "Literal"} /\ o = Offer(o.builder, o.dsp)
    BY <1>3 DEF TypeOK, Offer
  <2> QED
    BY <2>1 DEF Tables
<1> QED
  BY <1>1, <1>2, <1>3 DEF Entries

-----------------------------------------------------------------------------
(* The ways to build a node: each is a frame as above, of a step that is   *)
(* below 0 only where the step was.                                        *)
LEMMA Preferences ==
    /\ lValPreference \notin {defaultPreference, objMemPreference,
                              complexPreference, initPreference, updatePreference}
    /\ \A c \in {"lit", "exp", "bui", "def"} : c \notin lValPreference.maps
<1>1. /\ lValPreference.maps = {"var", "mem"} /\ lValPreference.objectLike = TRUE
      /\ objMemPreference.objectLike = FALSE
  BY DEF lValPreference, objMemPreference, Preference, Maps
<1>2. /\ "lit" \in defaultPreference.maps /\ "exp" \in complexPreference.maps
      /\ "lit" \in initPreference.maps /\ "bui" \in updatePreference.maps
  BY DEF defaultPreference, complexPreference, initPreference, updatePreference,
     Preference, Maps
<1> QED
  BY <1>1, <1>2

LEMMA Liking ==
    \A p \in {defaultPreference, lValPreference, objMemPreference,
              complexPreference, initPreference, updatePreference} :
        p.objectLike \in BOOLEAN
<1>1. /\ defaultPreference.objectLike = TRUE /\ lValPreference.objectLike = TRUE
      /\ objMemPreference.objectLike = FALSE /\ complexPreference.objectLike = TRUE
      /\ initPreference.objectLike = TRUE /\ updatePreference.objectLike = TRUE
  BY DEF defaultPreference, lValPreference, objMemPreference, complexPreference,
     initPreference, updatePreference, Preference
<1> QED
  BY <1>1

LEMMA SubGoals == ASSUME NEW types, NEW g \in Sub(types) PROVE GoalOK(g)
BY Preferences, Liking DEF Sub, Goal, GoalOK

LEMMA Lenient ==
    ASSUME NEW have, NEW want, NEW l \in BOOLEAN, isMatch(have, want, l)
    PROVE  isMatch(have, want, TRUE)
<1>1. CASE any \in {have, want}
  BY <1>1 DEF isMatch
<1>2. CASE any \notin {have, want}
  <2>1. PICK h \in have, w \in want :
            Matches(h, w, l /\ have = {h} /\ want = {w})
    BY <1>2 DEF isMatch
  <2>2. Matches(h, w, TRUE /\ have = {h} /\ want = {w})
    <3>1. CASE have = {h} /\ want = {w} /\ l
      BY <2>1, <3>1 DEF Matches
    <3>2. CASE ~(have = {h} /\ want = {w} /\ l)
      <4>1. Matches(h, w, FALSE)
        BY <2>1, <3>2 DEF Matches
      <4> QED
        BY <4>1 DEF Matches, ObjectLikes
    <3> QED
      BY <3>1, <3>2
  <2> QED
    BY <2>2 DEF isMatch
<1> QED
  BY <1>1, <1>2

LEMMA Reflexive ==
    ASSUME NEW want, want # {}
    PROVE  isMatch(want, want, TRUE)
BY DEF isMatch, Matches

LEMMA CandidateIs ==
    ASSUME NEW O, NEW g, NEW n \in Int, NEW o \in Candidates(O, g.type, g.pref, n),
           g.pref.objectLike \in BOOLEAN
    PROVE  /\ o \in O /\ g.type # {}
           /\ isMatch(o.dsp.gives, g.type, TRUE)
           /\ MapOf(o.builder) \in {"lit", "exp", "bui", "def"} => g.pref # lValPreference
           /\ n # 0 \/ MapOf(o.builder) \in {"var", "lit"}
<1>1. g.type # {}
  <2>1. any # {}
    BY DEF any, T
  <2>2. getCompatibleBaseTypes({}, g.pref.objectLike) = {}
    BY DEF getCompatibleBaseTypes
  <2> QED
    BY <2>1, <2>2 DEF Candidates
<1>2. isMatch(o.dsp.gives, g.type, TRUE)
  BY Lenient DEF Candidates
<1> QED
  BY <1>1, <1>2, Preferences DEF Candidates, Leaf

LEMMA FrameIs ==
    ASSUME NEW kind \in Kinds \ {"try", "index"}, NEW todo, NEW step \in Int, NEW done,
           \A h \in todo : GoalOK(h), ResultOK(done), done.do \in {"object", "return"}
    PROVE  LET f == Frame(kind, todo, step, done) IN
           FrameOK(f) /\ f.kind = kind /\ f.todo = todo /\ f.step = step /\ f.done = done
BY DEF FrameOK, Frame, IsFrame

LEMMA ReturnIs ==
    ASSUME NEW v, NEW g, GoalOK(g), NodeOK(v, g)
    PROVE  ResultOK(Return(v, g)) /\ Return(v, g).do = "return"
BY DEF ResultOK, Return

LEMMA NullIs == ASSUME NEW g PROVE NodeOK(Null, g)
BY DEF NodeOK, Null

WayOK(w, n) ==
    /\ FrameOK(w) /\ w.kind \in Kinds \ {"try", "function"}
    /\ w.todo # {} /\ w.step < 0 => n < 0

LEMMA LessIs ==
    ASSUME NEW n \in Int PROVE Less(n) \in Int /\ (n # 0 /\ Less(n) < 0 => n < 0)
BY DEF Less

(* A way with the parts of Sub, for a node that suits the goal.            *)
LEMMA Builds ==
    ASSUME NEW g, GoalOK(g), NEW n \in Int \ {0}, NEW v, NodeOK(v, g), NEW types
    PROVE  /\ WayOK(Frame("all", Sub(types), Less(n), Return(v, g)), n)
           /\ WayOK(Frame("elements", Sub(types), Less(n), Return(v, g)), n)
BY FrameIs, ReturnIs, LessIs, SubGoals DEF WayOK, Kinds

LEMMA BuildsNone ==
    ASSUME NEW g, GoalOK(g), NEW n \in Int, NEW v, NodeOK(v, g)
    PROVE  /\ WayOK(Frame("all", {}, 0, Return(v, g)), n)
           /\ WayOK(Frame("elements", {}, Less(n), Return(v, g)), n)
<1>1. WayOK(Frame("all", {}, 0, Return(v, g)), n)
  <2>1. "all" \in Kinds \ {"try", "index"} /\ 0 \in Int
    BY DEF Kinds
  <2> QED
    BY <2>1, FrameIs, ReturnIs DEF WayOK, Kinds
<1>2. WayOK(Frame("elements", {}, Less(n), Return(v, g)), n)
  BY FrameIs, ReturnIs, LessIs DEF WayOK, Kinds
<1> QED
  BY <1>1, <1>2

LEMMA CallsAre ==
    ASSUME NEW g, GoalOK(g), NEW n \in Int \ {0}, NEW v, NodeOK(v, g),
           NEW d, NEW types, NEW w \in Calls(d, types, n, Return(v, g))
    PROVE  WayOK(w, n)
BY Builds DEF Calls

LEMMA LeafWays ==
    ASSUME NEW g, GoalOK(g), g.type # {}, NEW n \in Int, NEW o, NEW w \in Ways(o, g, n),
           \/ o.builder = "Variable"
           \/ /\ o.builder = "Literal" /\ g.pref # lValPreference
              /\ isMatch(o.dsp.gives, g.type, TRUE)
    PROVE  WayOK(w, n)
<1>1. CASE o.builder = "Variable"
  <2>1. w \in VariableWays(g)
    BY <1>1 DEF Ways
  <2>2. CASE w = Frame("all", {}, 0, Return(Null, g))
    BY <2>2, BuildsNone, NullIs
  <2>3. CASE w # Frame("all", {}, 0, Return(Null, g))
    <3>1. PICK t \in variables : isMatch(t, g.type, FALSE) /\ w = Frame("all", {}, 0, Return(Node(t, TRUE), g))
      BY <2>1, <2>3 DEF VariableWays
    <3>2. NodeOK(Node(t, TRUE), g)
      BY <3>1, Lenient DEF NodeOK, Node
    <3> QED
      BY <3>1, <3>2, BuildsNone
  <2> QED
    BY <2>2, <2>3
<1>2. CASE o.builder = "Literal"
  <2>1. w \in LiteralWays(o.dsp, g)
    BY <1>2 DEF Ways
  <2>2. PICK v \in {Node(o.dsp.gives, TRUE), Node(o.dsp.gives, FALSE), Node(g.type, TRUE), Null} :
            w = Frame("all", {}, 0, Return(v, g))
    BY <2>1 DEF LiteralWays
  <2>3. NodeOK(v, g)
    <3>1. isMatch(g.type, g.type, TRUE)
      BY Reflexive
    <3>2. NodeOK(Node(g.type, TRUE), g)
      BY <3>1 DEF NodeOK, Node
    <3>3. /\ NodeOK(Node(o.dsp.gives, TRUE), g)
          /\ NodeOK(Node(o.dsp.gives, FALSE), g)
      BY <1>2 DEF NodeOK, Node
    <3> QED
      BY <2>2, <3>2, <3>3, NullIs
  <2> QED
    BY <2>2, <2>3, BuildsNone
<1> QED
  BY <1>1, <1>2

LEMMA MemberWaysAre ==
    ASSUME NEW g, GoalOK(g), g.type # {}, NEW n \in Int \ {0},
           NEW d \in MemberExpressionDsps,
           d.op = "array" => MayBeAny(g.type),
           NEW w \in MemberWays(d, g, n)
    PROVE  WayOK(w, n)
<1>1. d.op \in {"array", "typedarray", "object"}
  BY DEF MemberExpressionDsps, Operator, Method
<1>2. CASE d.op = "array"
  <2>1. w = Frame("index", Sub({getArrayType(g.type), number}), Less(n), Return(Node({}, TRUE), g))
    BY <1>2 DEF MemberWays
  <2>2. NodeOK(Node({}, TRUE), g)
    BY <1>2 DEF NodeOK, Node
  <2>3. FrameOK(w) /\ w.kind = "index" /\ w.step = Less(n)
    BY <1>2, <2>1, <2>2, ReturnIs, SubGoals, LessIs DEF FrameOK, Frame, IsFrame, Kinds
  <2> QED
    BY <2>3, LessIs DEF WayOK, Kinds
<1>3. CASE d.op = "typedarray"
  <2>1. NodeOK(Node(number, TRUE), g) \/ g.type # number
    BY Reflexive DEF NodeOK, Node
  <2>2. w = IF g.type # number THEN Frame("all", {}, 0, Return(Null, g))
            ELSE Frame("all", Sub({typedarray, number}), Less(n), Return(Node(number, TRUE), g))
    BY <1>3 DEF MemberWays
  <2>3. CASE g.type # number
    BY <2>2, <2>3, BuildsNone, NullIs
  <2>4. CASE g.type = number
    BY <2>1, <2>2, <2>4, Builds
  <2> QED
    BY <2>3, <2>4
<1>4. CASE d.op = "object"
  <2>1. PICK v : /\ v = Null \/ \E t \in VarTypes : isMatch(t, g.type, TRUE) /\ v = Node(t, TRUE)
                 /\ w = Frame("member", {Goal(object, objMemPreference)}, Less(n), Return(v, g))
    BY <1>4 DEF MemberWays
  <2>2. NodeOK(v, g)
    <3>1. ASSUME NEW t, isMatch(t, g.type, TRUE)
          PROVE  NodeOK(Node(t, TRUE), g)
      BY <3>1 DEF NodeOK, Node
    <3> QED
      BY <2>1, <3>1, NullIs
  <2>3. GoalOK(Goal(object, objMemPreference))
    BY Preferences, Liking DEF GoalOK, Goal
  <2> QED
    BY <2>1, <2>2, <2>3, FrameIs, ReturnIs, LessIs DEF WayOK, Kinds
<1> QED
  BY <1>1, <1>2, <1>3, <1>4

LEMMA Plain ==
    ASSUME NEW b PROVE T(b) # {} /\ \A m \in T(b) : m.base = b
BY DEF T

LEMMA Differ == \A a, b : T(a) = T(b) => a = b
BY Plain

LEMMA StringsDiffer ==
    {"any", "number"} \cap {"function expression", "descriptor"} = {}
OBVIOUS

LEMMA AnyIs == any # {} /\ \A m \in any : m.base = "any"
BY DEF any, T

LEMMA AnyMayBe ==
    ASSUME NEW t, NEW l \in BOOLEAN,
           t = any \/ getCompatibleBaseTypes(any, FALSE)
                        \cap getCompatibleBaseTypes(t, l) # {}
    PROVE  MayBeAny(t)
<1>1. CASE t = any
  BY <1>1, AnyIs DEF MayBeAny
<1>2. CASE t # any
  <2>1. PICK b : b \in getCompatibleBaseTypes(any, FALSE) /\ b \in getCompatibleBaseTypes(t, l)
    BY <1>2
  <2>2. b = "any"
    BY <2>1, AnyIs DEF getCompatibleBaseTypes
  <2>3. PICK m \in t : "any" \in IF m.base \notin {"object", "descriptor"} THEN {m.base}
                                 ELSE IF l THEN ObjectLikes \ {"descriptor"}
                                 ELSE {"object"}
    BY <2>1, <2>2 DEF getCompatibleBaseTypes
  <2>4. "any" \notin ObjectLikes
    BY DEF ObjectLikes
  <2> QED
    BY <2>3, <2>4 DEF MayBeAny
<1> QED
  BY <1>1, <1>2

(* Every way to build what is asked for.                                   *)
LEMMA WaysAre ==
    ASSUME TypeOK, NEW O, O \subseteq offers, NEW g, GoalOK(g), NEW n \in Int,
           NEW o \in Candidates(O, g.type, g.pref, n), NEW w \in Ways(o, g, n)
    PROVE  WayOK(w, n)
<1>1. /\ o \in offers /\ g.type # {} /\ isMatch(o.dsp.gives, g.type, TRUE)
      /\ MapOf(o.builder) \in {"lit", "exp", "bui", "def"} => g.pref # lValPreference
      /\ n # 0 \/ MapOf(o.builder) \in {"var", "lit"}
  BY CandidateIs DEF GoalOK
<1>2. g.pref # lValPreference => NodeOK(Node(o.dsp.gives, FALSE), g)
  BY <1>1 DEF NodeOK, Node
<1>3. CASE o.builder \in {"Variable", "Literal"}
  <2>1. o.builder = "Literal" => MapOf(o.builder) = "lit"
    BY DEF MapOf
  <2>2. CASE o.builder = "Variable"
    BY <1>1, <2>2, LeafWays
  <2>3. CASE o.builder = "Literal"
    BY <1>1, <2>1, <2>3, LeafWays
  <2> QED
    BY <1>3, <2>2, <2>3
<1>4. CASE o.builder \notin {"Variable", "Literal"}
  <2>1. /\ n \in Int \ {0}
        /\ o.builder # "MemberExpression" => g.pref # lValPreference
    <3>1. /\ MapOf(o.builder) \in {"mem", "exp", "bui", "def"}
          /\ o.builder # "MemberExpression" => MapOf(o.builder) \in {"exp", "bui", "def"}
      BY <1>4 DEF MapOf
    <3> QED
      BY <1>1, <3>1
  <2>2. CASE o.builder = "MemberExpression"
    <3>1. o.dsp \in MemberExpressionDsps
      BY <1>1, <2>2, OfferedIs DEF Tables
    <3>2. o.dsp.op = "array" => MayBeAny(g.type)
      <4>1. o.dsp.op = "array" => o.dsp.gives = any
        BY <3>1 DEF MemberExpressionDsps, Operator, Method
      <4>2. o.dsp.op = "array" => g.type = any \/
                getCompatibleBaseTypes(any, FALSE)
                  \cap getCompatibleBaseTypes(g.type, g.pref.objectLike) # {}
        BY <4>1 DEF Candidates
      <4> QED
        BY <4>2, AnyMayBe DEF GoalOK
    <3> QED
      BY <1>1, <2>1, <2>2, <3>1, <3>2, MemberWaysAre DEF Ways
  <2>3. CASE o.builder = "BinaryExpression"
    <3>1. w \in BinaryWays(o.dsp, g, n)
      BY <2>3 DEF Ways
    <3>2. o.dsp.op = "==" => o.dsp.gives = boolean
      <4>1. o.dsp \in BinaryExpressionDsps
        BY <1>1, <2>3, OfferedIs DEF Tables
      <4> QED
        BY <4>1 DEF BinaryExpressionDsps, Operator, Method
    <3>3. NodeOK(Node(g.type, FALSE), g)
      BY <1>1, <2>1, <2>3, Reflexive DEF NodeOK, Node
    <3>4. CASE o.dsp.op = "+"
      BY <2>1, <3>1, <3>3, <3>4, Builds DEF BinaryWays
    <3>5. CASE o.dsp.op = "=="
      <4>1. PICK types : w = Frame("all", Sub(types), Less(n), Return(Node(boolean, FALSE), g))
        BY <3>1, <3>5 DEF BinaryWays
      <4> QED
        BY <1>2, <2>1, <2>3, <3>2, <3>5, <4>1, Builds
    <3>6. CASE o.dsp.op \notin {"+", "=="}
      BY <1>2, <2>1, <2>3, <3>1, <3>6, CallsAre DEF BinaryWays
    <3> QED
      BY <3>4, <3>5, <3>6
  <2>4. CASE o.builder = "UnaryExpression"
    BY <2>1, <2>4, CallsAre, NullIs DEF Ways, UnaryWays
  <2>5. CASE o.builder = "UpdateExpression"
    <3>1. w = Frame("update", {Goal(number, updatePreference)}, Less(n),
                    Return(Node(o.dsp.gives, FALSE), g))
      BY <2>5 DEF Ways, UpdateWays
    <3>2. GoalOK(Goal(number, updatePreference))
      BY Preferences, Liking DEF GoalOK, Goal
    <3>3. FrameOK(w) /\ w.kind = "update" /\ w.step = Less(n)
      <4>1. /\ ResultOK(Return(Node(o.dsp.gives, FALSE), g))
            /\ Return(Node(o.dsp.gives, FALSE), g).do = "return"
        BY <1>2, <2>1, <2>5, ReturnIs
      <4>2. "update" \in Kinds \ {"try", "index"} /\ Less(n) \in Int
        BY LessIs DEF Kinds
      <4> DEFINE done == Return(Node(o.dsp.gives, FALSE), g)
                 todo == {Goal(number, updatePreference)}
      <4>3. ResultOK(done) /\ done.do = "return" /\ \A h \in todo : GoalOK(h)
        BY <3>2, <4>1
      <4>4. w = Frame("update", todo, Less(n), done)
        BY <3>1
      <4> HIDE DEF done, todo
      <4> QED
        BY <4>2, <4>3, <4>4, FrameIs
    <3> QED
      BY <2>1, <3>3, LessIs DEF WayOK, Kinds
  <2>6. CASE o.builder = "NewExpression"
    BY <1>2, <2>1, <2>6, CallsAre DEF Ways, NewWays
  <2>7. CASE o.builder = "ArrayExpression"
    <3>1. w \in ArrayWays(o.dsp, g, n)
      BY <2>7 DEF Ways
    <3> QED
      BY <1>2, <2>1, <2>7, <3>1, Builds, BuildsNone DEF ArrayWays
  <2>8. CASE o.builder \notin {"MemberExpression", "BinaryExpression", "UnaryExpression",
                              "UpdateExpression", "NewExpression", "ArrayExpression"}
    <3>1. w \in IF MapOf(o.builder) = "exp" THEN Calls(o.dsp, {}, n, Return(Node(o.dsp.gives, FALSE), g))
                ELSE BuiltinWays(o.dsp, g, n)
      BY <1>4, <2>8 DEF Ways
    <3>2. ASSUME NEW types, w \in Calls(o.dsp, types, n, Return(Node(o.dsp.gives, FALSE), g))
          PROVE  WayOK(w, n)
      BY <1>2, <2>1, <2>8, <3>2, CallsAre
    <3> QED
      BY <2>1, <3>1, <3>2, Builds, NullIs DEF BuiltinWays
  <2> QED
    BY <2>2, <2>3, <2>4, <2>5, <2>6, <2>7, <2>8
<1> QED
  BY <1>3, <1>4

-----------------------------------------------------------------------------
(* The two shared parts of the actions, and the invariant.                 *)
LEMMA Enters ==
    ASSUME Sound(stack, now, inFuncExp), now.do # "idle", UNCHANGED inFuncExp,
           NEW f, FrameOK(f), f.kind \notin {"try", "function"}, Enter(f),
           f.todo # {} /\ f.step < 0 =>
               Over(f) \/ \E j \in 1..Len(stack) : Over(stack[j])
    PROVE  Sound(stack', now', inFuncExp')
<1>1. stack # <<>>
  BY DEF Sound, Idle
<1>2. CASE f.todo = {}
  <2>1. /\ now' = f.done /\ stack' = stack /\ ResultOK(f.done)
        /\ f.done.do \in {"object", "return"}
    BY <1>2 DEF Enter, FrameOK
  <2>2. Backed(stack, f.done)
    BY <2>1 DEF Backed
  <2>3. Sound(stack, f.done, inFuncExp)
    BY <1>1, <2>1, <2>2, Stays
  <2> QED
    BY <2>1, <2>3
<1>3. CASE f.todo # {}
  <2>1. /\ stack' = Append(stack, f) /\ now' = Build(First(f.todo), f.step)
        /\ First(f.todo) \in f.todo
    BY <1>3 DEF Enter, First
  <2>2. GoalOK(First(f.todo))
    BY <2>1 DEF FrameOK
  <2>3. Sound(Append(stack, f), Build(First(f.todo), f.step), inFuncExp)
    BY <1>1, <1>3, <2>2, Pushes
  <2> QED
    BY <2>1, <2>3
<1> QED
  BY <1>2, <1>3

LEMMA Continues ==
    ASSUME Sound(stack, now, inFuncExp), UNCHANGED inFuncExp,
           stack # <<>>, FrameOK(Top), Top.kind \notin {"try", "function"},
           NEW done, ResultOK(done), done.do = Top.done.do,
           done.do = "return" => done.goal = Top.done.goal,
           Top.kind = "index" => \E v, g : /\ done = Return(Node(v, TRUE), g)
                                           /\ MayBeAny(g.type),
           Continue(done)
    PROVE  Sound(stack', now', inFuncExp')
<1> DEFINE todo == Top.todo \ {now.goal}
<1>1. done.do \in {"object", "return"}
  BY DEF FrameOK
<1>2. CASE todo = {}
  <2>1. now' = done /\ stack' = SubSeq(stack, 1, Len(stack) - 1)
    BY <1>2 DEF Continue, Pop
  <2>2. Sound(SubSeq(stack, 1, Len(stack) - 1), done, inFuncExp)
    BY <1>1, Pops DEF Top
  <2> QED
    BY <2>1, <2>2
<1>3. CASE todo # {}
  <2> DEFINE f == [Top EXCEPT !.todo = todo, !.done = done]
  <2>1. f = [kind |-> Top.kind, todo |-> todo, step |-> Top.step,
             done |-> done, left |-> Top.left]
    <3> HIDE DEF todo
    <3> DEFINE g == [kind |-> Top.kind, todo |-> todo, step |-> Top.step,
                     done |-> Top.done, left |-> Top.left]
    <3>1. [Top EXCEPT !.todo = todo] = g
      BY DEF FrameOK, IsFrame
    <3>2. [g EXCEPT !.done = done] =
              [kind |-> Top.kind, todo |-> todo, step |-> Top.step,
               done |-> done, left |-> Top.left]
      OBVIOUS
    <3> QED
      BY <3>1, <3>2
  <2>2. /\ now' = Build(First(todo), Top.step)
        /\ stack' = [stack EXCEPT ![Len(stack)].todo = todo, ![Len(stack)].done = done]
        /\ First(todo) \in todo
    BY <1>3 DEF Continue, First
  <2>3. stack' = [stack EXCEPT ![Len(stack)] = f]
    <3>1. PICK S : stack \in Seq(S)
      BY DEF Sound, IsStack
    <3>2. Len(stack) \in DOMAIN stack
      BY <3>1
    <3> QED
      BY <2>2, <3>1, <3>2 DEF Top
  <2> HIDE DEF f
  <2>4. FrameOK(f)
    <3>1. \A g \in todo : GoalOK(g)
      BY DEF FrameOK
    <3>2. /\ f.kind = Top.kind /\ f.todo = todo /\ f.step = Top.step
          /\ f.done = done /\ f.left = Top.left
      BY <2>1
    <3>3. IsFrame(f)
      BY <2>1 DEF IsFrame
    <3>4. Top.kind \in Kinds /\ Top.step \in Int /\ Top.left \in Nat
      BY DEF FrameOK
    <3> QED
      BY <1>1, <3>1, <3>2, <3>3, <3>4 DEF FrameOK
  <2>5. Over(Top) => Over(f)
    BY <2>1 DEF Over, ForStatement
  <2>6. ResultOK(Build(First(todo), Top.step))
    BY <2>2 DEF ResultOK, Build, FrameOK
  <2>7. Sound([stack EXCEPT ![Len(stack)] = f], Build(First(todo), Top.step), inFuncExp)
    <3>1. f.kind = Top.kind /\ f.step = Top.step
      BY <2>1
    <3>2. /\ Build(First(todo), Top.step).do = "build"
          /\ Build(First(todo), Top.step).step = Top.step
      BY DEF Build
    <3> QED
      BY <2>4, <2>5, <2>6, <3>1, <3>2, Replaces DEF Top
  <2> QED
    BY <2>2, <2>3, <2>7
<1> QED
  BY <1>2, <1>3

LEMMA TopIs ==
    ASSUME Sound(stack, now, inFuncExp), now.do # "idle"
    PROVE  /\ stack # <<>> /\ Len(stack) \in 1..Len(stack) /\ FrameOK(Top)
           /\ Top.kind = "try" <=> Len(stack) = 1
           /\ Top.step < 0 => \E j \in 1..Len(stack) : Over(stack[j])
<1>1. stack # <<>>
  BY DEF Sound, Idle
<1>2. Len(stack) \in 1..Len(stack)
  BY <1>1 DEF Sound, IsStack
<1> QED
  BY <1>1, <1>2 DEF Sound, Framed, Top

(* What is offered besides the entries of the tables.                      *)
Extra(vs, cs) ==
    {Offer("Variable", Operator("var", {}, t)) : t \in vs}
    \cup {Offer("Literal", Operator("BuiltinConstructor", {}, Ctor(c))) : c \in cs}
NamedCtors == {constructorTypes[b] : b \in DOMAIN constructorTypes}
Scalars ==
    /\ mode \in {"mutate", "insert"} /\ bindings \subseteq Binding
    /\ pc \in {"literals", "bindings", "constructors", "loop", "declarations", "ready"}
    /\ turn \in 1..Len(Builders) + 1 /\ updated \in BOOLEAN
TypeParts == /\ Scalars
             /\ variables \subseteq VarTypes \cup {function} /\ ctors \subseteq NamedCtors
             /\ offers \ Entries \subseteq Extra(variables, ctors)

LEMMA TypeIs == TypeOK <=> TypeParts
BY DEF TypeOK, TypeParts, Scalars, Extra, NamedCtors

LEMMA ContextInit == Init => TypeOK /\ Early
<1> SUFFICES ASSUME Init PROVE TypeParts /\ Early
  BY TypeIs
<1>1. ctors \subseteq NamedCtors
  <2>1. /\ constructorTypes["number"] = "Number" /\ constructorTypes["object"] = "Object"
        /\ {"number", "object"} \subseteq DOMAIN constructorTypes
    BY DEF constructorTypes
  <2>2. ctors = {"Number", "Object"}
    BY DEF Init
  <2> QED
    BY <2>1, <2>2 DEF NamedCtors
<1>2. bindings \subseteq Binding
  BY DEF Init
<1>3. 1 \in 1..Len(Builders) + 1
  BY BuildersAre
<1> QED
  BY <1>1, <1>2, <1>3 DEF Init, TypeParts, Scalars, Early

LEMMA ContextTyped ==
    ASSUME TypeOK, Early, [Next]_vars PROVE TypeOK' /\ Early'
<1> SUFFICES TypeParts' /\ Early'
  <2>1. TypeParts' => TypeOK'
    BY TypeIs DEF TypeOK, TypeParts, Scalars, Extra, NamedCtors
  <2> QED
    BY <2>1
<1>0. TypeParts
  BY TypeIs
<1> USE <1>0
<1>1. CASE ImportLiterals
  <2>1. offers' \subseteq offers \cup Entries
    BY <1>1 DEF ImportLiterals, Importable, Entries, Literals
  <2> QED
    BY <1>1, <2>1 DEF ImportLiterals, TypeParts, Scalars, Early
<1>2. CASE ImportBindings
  <2>1. variables' \subseteq VarTypes \cup {function}
    BY <1>2 DEF ImportBindings, Binding, hasType, TypeParts, Scalars
  <2>2. ctors \subseteq ctors' /\ ctors' \subseteq NamedCtors
    BY <1>2 DEF ImportBindings, ConstructorsOf, TypeParts, NamedCtors
  <2>3. offers' \ Entries \subseteq Extra(variables', ctors')
    <3>1. variables = {}
      BY <1>2 DEF ImportBindings, Early
    <3>2. Extra(variables, ctors) \subseteq Extra(variables', ctors')
      BY <2>2, <3>1 DEF Extra
    <3>3. offers' \subseteq offers \cup Extra(variables', ctors')
      BY <1>2 DEF ImportBindings, Extra
    <3> QED
      BY <3>2, <3>3 DEF TypeParts
  <2> QED
    BY <1>2, <2>1, <2>2, <2>3 DEF ImportBindings, TypeParts, Scalars, Early
<1>3. CASE AddConstructors
  <2>1. offers' \ Entries \subseteq Extra(variables, ctors)
    BY <1>3 DEF AddConstructors, TypeParts, Extra
  <2> QED
    BY <1>3, <2>1 DEF AddConstructors, TypeParts, Scalars, Early
<1>4. CASE ImportNext
  <2>1. turn \in DOMAIN Builders /\ Len(Builders) = 33
    BY <1>4, BuildersAre DEF ImportNext, TypeParts, Scalars
  <2>2. offers' \subseteq offers \cup Table
    <3> DEFINE b == Builders[turn]
    <3>1. offers' \subseteq offers \cup {Offer(b.name, d) : d \in b.props \cup b.funcs}
      BY <1>4 DEF ImportNext, Importable
    <3>2. {Offer(b.name, d) : d \in b.props \cup b.funcs} \subseteq Table
      BY <2>1 DEF Table
    <3> QED
      BY <3>1, <3>2
  <2>3. turn' \in 1..Len(Builders) + 1 /\ updated' \in BOOLEAN
    <3>1. turn \in 1..33 + 1 /\ turn <= 33 /\ turn' = turn + 1
      BY <1>4, <2>1 DEF ImportNext, TypeParts, Scalars
    <3>2. turn' \in 1..33 + 1
      BY <3>1
    <3>3. updated' \in BOOLEAN
      BY <1>4 DEF ImportNext
    <3> QED
      BY <2>1, <3>2, <3>3
  <2>4. offers' \ Entries \subseteq offers \ Entries
    BY <2>2 DEF Entries
  <2>5. UNCHANGED <<mode, bindings, pc, variables, ctors>>
    BY <1>4 DEF ImportNext
  <2> QED
    BY <2>3, <2>4, <2>5 DEF TypeParts, Scalars, Early
<1>5. CASE GoRound
  <2>1. 1 \in 1..Len(Builders) + 1
    BY BuildersAre
  <2>2. /\ pc' \in {"loop", "declarations"} /\ turn' = 1 /\ updated' = FALSE
        /\ UNCHANGED <<mode, bindings, variables, ctors, offers>>
    BY <1>5 DEF GoRound
  <2> QED
    BY <2>1, <2>2 DEF TypeParts, Scalars, Early
<1>6. CASE ImportDeclarations
  BY <1>6 DEF ImportDeclarations, Entries, TypeParts, Scalars, Early
<1>7. CASE UNCHANGED vars
  BY <1>7 DEF vars, TypeParts, Scalars, Early
<1> QED
  BY <1>1, <1>2, <1>3, <1>4, <1>5, <1>6, <1>7 DEF Next

LEMMA Empty == Sound(<<>>, Idle, FALSE)
<1>1. IsStack(<<>>) /\ Len(<<>>) = 0
  <2>1. <<>> \in Seq({}) /\ Len(<<>>) = 0
    OBVIOUS
  <2> QED
    BY <2>1 DEF IsStack
<1>2. Framed(<<>>) /\ OneFunction(<<>>, FALSE)
  BY <1>1 DEF Framed, OneFunction
<1>3. ResultOK(Idle) /\ Backed(<<>>, Idle)
  BY DEF ResultOK, Idle, Backed
<1> QED
  BY <1>1, <1>2, <1>3 DEF Sound

LEMMA Initially == BuilderInit => BuilderInv
BY Empty, ContextInit DEF BuilderInit, BuilderInv

-----------------------------------------------------------------------------
(* The actions: a mutation starts, what is asked for is built.             *)
LEMMA Tries ==
    ASSUME NEW n \in Nat, NEW q, ResultOK(q), q.do \in {"build", "statement"},
           q.do = "build" => q.step = DEPTH
    PROVE  Sound(<<Try(n)>>, q, FALSE)
<1> DEFINE f == Try(n)
           s == <<f>>
<1>1. f = [kind |-> "try", todo |-> {}, step |-> DEPTH, done |-> Idle, left |-> n]
  BY DEF Try, Frame
<1>2. DEPTH \in Int /\ ~(DEPTH < 0)
  BY ExpressionsAssumption
<1>3. ResultOK(Idle)
  BY DEF ResultOK, Idle
<1> HIDE DEF f
<1>4. FrameOK(f) /\ f.kind = "try" /\ ~(f.step < 0)
  BY <1>1, <1>2, <1>3 DEF FrameOK, IsFrame, Kinds
<1>5. s \in Seq({f}) /\ Len(s) = 1 /\ s[1] = f /\ s # <<>>
  OBVIOUS
<1>6. IsStack(s)
  BY <1>5 DEF IsStack
<1> HIDE DEF s
<1>7. Framed(s)
  BY <1>4, <1>5 DEF Framed
<1>8. OneFunction(s, FALSE)
  BY <1>4, <1>5 DEF OneFunction
<1>9. Backed(s, q) /\ q # Idle
  BY <1>2 DEF Backed, Idle
<1> QED
  BY <1>5, <1>6, <1>7, <1>8, <1>9 DEF Sound, s, f

LEMMA NoFlag ==
    ASSUME BuilderInv, now = Idle PROVE inFuncExp = FALSE
<1>1. stack = <<>> /\ Len(stack) = 0
  BY DEF BuilderInv, Sound
<1> QED
  BY <1>1 DEF BuilderInv, Sound, OneFunction

LEMMA MutationStep ==
    ASSUME BuilderInv, BuildNodeForMutation PROVE Sound(stack', now', inFuncExp')
<1>1. PICK t \in VarTypes \cup {any, number},
           p \in {defaultPreference, lValPreference, complexPreference} :
              now' = Build(Goal(t, p), DEPTH)
  BY DEF BuildNodeForMutation
<1>2. t \notin {functionExp, descriptor}
  <2>1. any \notin {functionExp, descriptor} /\ number \notin {functionExp, descriptor}
    BY Differ, StringsDiffer DEF any, number, functionExp, descriptor
  <2> QED
    BY <2>1, BuildContextAssumption
<1>3. GoalOK(Goal(t, p))
  BY <1>2, Liking DEF GoalOK, Goal
<1>4. /\ ResultOK(now') /\ now'.do = "build" /\ now'.step = DEPTH
  BY <1>1, <1>3, ExpressionsAssumption DEF ResultOK, Build
<1>5. Sound(<<Try(2)>>, now', FALSE)
  <2>1. 2 \in Nat
    OBVIOUS
  <2> QED
    BY <1>4, <2>1, Tries
<1> QED
  BY <1>5, NoFlag DEF BuildNodeForMutation

LEMMA StatementsStep ==
    ASSUME BuilderInv, BuildStatements PROVE Sound(stack', now', inFuncExp')
<1> DEFINE n == IF mode = "mutate" THEN 2 ELSE 0
<1>1. n \in Nat
  OBVIOUS
<1>2. ResultOK(BuildStatement) /\ BuildStatement.do = "statement"
  BY DEF ResultOK, BuildStatement
<1> HIDE DEF n
<1>3. Sound(<<Try(n)>>, BuildStatement, FALSE)
  BY <1>1, <1>2, Tries
<1> QED
  BY <1>3, NoFlag DEF BuildStatements, n

LEMMA ChooseStep ==
    ASSUME BuilderInv, Choose PROVE Sound(stack', now', inFuncExp')
<1> DEFINE allowed == {o \in offers : o.dsp.op \in Ops \cup {"var"}}
           g == now.goal
           n == now.step
           C == Candidates(allowed, g.type, g.pref, n)
<1>1. /\ TypeOK /\ Sound(stack, now, inFuncExp) /\ UNCHANGED inFuncExp
      /\ now.do = "build" /\ GoalOK(g) /\ n \in Int
  BY DEF BuilderInv, Sound, ResultOK, Choose
<1>2. stack # <<>>
  BY <1>1 DEF Sound, Idle
<1>3. CASE now' = Return(Null, g) /\ UNCHANGED stack
  <2>1. ResultOK(Return(Null, g)) /\ Return(Null, g).do = "return"
    BY <1>1, ReturnIs, NullIs
  <2>2. Sound(stack, Return(Null, g), inFuncExp)
    BY <1>1, <1>2, <2>1, Stays DEF Backed
  <2> QED
    BY <1>1, <1>3, <2>2
<1>4. CASE \E o \in C : \E way \in Ways(o, g, n) : Enter(way)
  <2>1. PICK o \in C : \E way \in Ways(o, g, n) : Enter(way)
    BY <1>4
  <2>2. PICK way \in Ways(o, g, n) : Enter(way)
    BY <2>1
  <2>3. WayOK(way, n)
    BY <1>1, <2>2, WaysAre
  <2>4. n < 0 => \E j \in 1..Len(stack) : Over(stack[j])
    BY <1>1 DEF Sound, Backed
  <2> QED
    BY <1>1, <2>2, <2>3, <2>4, Enters DEF WayOK
<1> QED
  BY <1>3, <1>4 DEF Choose

LEMMA FunctionStep ==
    ASSUME BuilderInv, BuildFunctionExpression PROVE Sound(stack', now', inFuncExp')
<1> DEFINE g == now.goal
           r == Return(Node(functionExp, FALSE), g)
           f == [Frame("function", {}, DEPTH, r) EXCEPT !.left = FUNC_SIZE]
<1>1. /\ Sound(stack, now, inFuncExp) /\ inFuncExp \in BOOLEAN
      /\ now.do = "build" /\ GoalOK(g) /\ g.type = functionExp
  BY DEF BuilderInv, Sound, ResultOK, BuildFunctionExpression
<1>2. stack # <<>>
  BY <1>1 DEF Sound, Idle
<1>3. CASE inFuncExp
  <2>1. ResultOK(Return(Null, g)) /\ Return(Null, g).do = "return"
    BY <1>1, ReturnIs, NullIs
  <2>2. Sound(stack, Return(Null, g), inFuncExp)
    BY <1>1, <1>2, <2>1, Stays DEF Backed
  <2> QED
    BY <1>3, <2>2 DEF BuildFunctionExpression
<1>4. CASE ~inFuncExp
  <2>1. ResultOK(r) /\ r.do = "return"
    <3>1. NodeOK(Node(functionExp, FALSE), g)
      <4>1. isMatch(functionExp, functionExp, TRUE)
        <5>1. functionExp # {}
          BY DEF functionExp, T
        <5> QED
          BY <5>1, Reflexive
      <4> QED
        BY <1>1, <4>1 DEF NodeOK, Node, GoalOK
    <3> QED
      BY <1>1, <3>1, ReturnIs
  <2>2. f = [kind |-> "function", todo |-> {}, step |-> DEPTH, done |-> r, left |-> FUNC_SIZE]
    <3> HIDE DEF r
    <3> DEFINE h == [kind |-> "function", todo |-> {}, step |-> DEPTH, done |-> r, left |-> 0]
    <3>1. Frame("function", {}, DEPTH, r) = h
      BY DEF Frame
    <3>2. [h EXCEPT !.left = FUNC_SIZE] =
              [kind |-> "function", todo |-> {}, step |-> DEPTH, done |-> r, left |-> FUNC_SIZE]
      OBVIOUS
    <3> QED
      BY <3>1, <3>2
  <2> HIDE DEF r, f
  <2>3. FrameOK(f) /\ f.kind = "function" /\ ~(f.step < 0)
    BY <2>1, <2>2, ExpressionsAssumption, BuilderAssumption DEF FrameOK, IsFrame, Kinds
  <2>4. Sound(Append(stack, f), BuildStatement, TRUE)
    <3>1. inFuncExp = FALSE
      BY <1>1, <1>4
    <3> QED
      BY <1>1, <1>2, <2>3, <3>1, PushesFunction
  <2>5. stack' = Append(stack, f) /\ now' = BuildStatement /\ inFuncExp' = TRUE
    BY <1>4 DEF BuildFunctionExpression, f, r
  <2> QED
    BY <2>4, <2>5
<1> QED
  BY <1>3, <1>4

LEMMA ShapeStep ==
    ASSUME BuilderInv, BuildShapedObject PROVE Sound(stack', now', inFuncExp')
<1> DEFINE g == now.goal
           r == Return(Node(descriptor, FALSE), g)
<1>1. /\ Sound(stack, now, inFuncExp) /\ UNCHANGED inFuncExp
      /\ now.do = "build" /\ GoalOK(g) /\ g.type = descriptor
  BY DEF BuilderInv, Sound, ResultOK, BuildShapedObject
<1>2. ResultOK(r) /\ r.do = "return"
  <2>1. isMatch(descriptor, descriptor, TRUE)
    <3>1. descriptor # {}
      BY DEF descriptor, T
    <3> QED
      BY <3>1, Reflexive
  <2>2. NodeOK(Node(descriptor, FALSE), g)
    BY <1>1, <2>1 DEF NodeOK, Node, GoalOK
  <2> QED
    BY <1>1, <2>2, ReturnIs
<1>3. PICK todo \in SUBSET Sub({any, functionExp}) : Enter(Frame("shape", todo, DEPTH, r))
  BY DEF BuildShapedObject
<1> HIDE DEF r
<1>4. LET f == Frame("shape", todo, DEPTH, r) IN
      FrameOK(f) /\ f.kind = "shape" /\ ~(f.step < 0)
  <2>1. \A h \in todo : GoalOK(h)
    BY SubGoals
  <2>2. "shape" \in Kinds \ {"try", "index"} /\ DEPTH \in Int /\ ~(DEPTH < 0)
    BY ExpressionsAssumption DEF Kinds
  <2> QED
    BY <1>2, <2>1, <2>2, FrameIs
<1> QED
  BY <1>1, <1>3, <1>4, Enters

-----------------------------------------------------------------------------
(* The actions: statements.                                                *)
LEMMA StatementGoal == GoalOK(Statement)
BY Preferences, Liking DEF GoalOK, Statement, Goal

LEMMA DoneIs ==
    /\ ResultOK(Done) /\ Done.do = "return" /\ ForStatement(Done)
    /\ ResultOK(Failure) /\ Failure.do = "return"
BY StatementGoal DEF ResultOK, Done, Failure, Return, ForStatement, NodeOK

LEMMA ObjectIs ==
    ASSUME NEW t, t # {}, NEW n \in Int
    PROVE  /\ ResultOK(OnObject(t, n)) /\ OnObject(t, n).do = "object"
           /\ ForStatement(OnObject(t, n))
BY DEF ResultOK, OnObject, ForStatement

LEMMA Answers ==
    ASSUME BuilderInv, now.do # "idle", NEW q, ResultOK(q), q.do \in {"object", "return"},
           now' = q, UNCHANGED <<stack, inFuncExp>>
    PROVE  Sound(stack', now', inFuncExp')
<1>1. Sound(stack, now, inFuncExp) /\ stack # <<>>
  BY DEF BuilderInv, Sound, Idle
<1>2. Sound(stack, q, inFuncExp)
  BY <1>1, Stays DEF Backed
<1> QED
  BY <1>2

(* A frame of a statement may have any step.                               *)
LEMMA EntersStatement ==
    ASSUME BuilderInv, now.do # "idle", UNCHANGED inFuncExp,
           NEW todo, \A h \in todo : GoalOK(h), NEW n \in Int,
           NEW r, ResultOK(r), r.do \in {"object", "return"}, ForStatement(r),
           Enter(Frame("all", todo, n, r))
    PROVE  Sound(stack', now', inFuncExp')
<1> DEFINE f == Frame("all", todo, n, r)
<1>1. "all" \in Kinds \ {"try", "index"}
  BY DEF Kinds
<1>2. FrameOK(f) /\ f.kind = "all" /\ f.step = n /\ f.done = r /\ Enter(f)
  BY <1>1, FrameIs
<1> HIDE DEF f
<1>3. f.step < 0 => Over(f)
  BY <1>2 DEF Over
<1> QED
  BY <1>2, <1>3, Enters DEF BuilderInv

LEMMA EntersCall ==
    ASSUME BuilderInv, now.do # "idle", UNCHANGED inFuncExp,
           NEW d, NEW types, NEW n \in Int,
           NEW call \in Calls(d, types, n, Done), Enter(call)
    PROVE  Sound(stack', now', inFuncExp')
<1>1. PICK may \in SUBSET d.may :
          call = Frame("all", Sub(types \cup d.must \cup may), Less(n), Done)
  BY DEF Calls
<1> QED
  BY <1>1, LessIs, SubGoals, DoneIs, EntersStatement

LEMMA VariablesAre == ASSUME TypeOK, NEW t \in variables PROVE t # {}
BY BuildContextAssumption DEF TypeOK, function, T

LEMMA ChooseStatementStep ==
    ASSUME BuilderInv, ChooseStatement PROVE Sound(stack', now', inFuncExp')
<1>1. now.do = "statement" /\ UNCHANGED inFuncExp /\ DEPTH \in Int
  BY ExpressionsAssumption DEF ChooseStatement
<1>2. CASE \E t \in variables : now' = OnObject(t, DEPTH) /\ UNCHANGED stack
  <2>1. PICK t \in variables : now' = OnObject(t, DEPTH) /\ UNCHANGED stack
    BY <1>2
  <2>2. ResultOK(OnObject(t, DEPTH)) /\ OnObject(t, DEPTH).do = "object"
    BY <1>1, VariablesAre, ObjectIs DEF BuilderInv
  <2> QED
    BY <1>1, <2>1, <2>2, Answers
<1>3. CASE \E t \in typesForNewVar :
              Enter(Frame("all", {Goal(t, initPreference)}, DEPTH, Done))
  <2>1. PICK t \in typesForNewVar :
              Enter(Frame("all", {Goal(t, initPreference)}, DEPTH, Done))
    BY <1>3
  <2> DEFINE todo == {Goal(t, initPreference)}
  <2>2. \A h \in todo : GoalOK(h)
    BY Preferences, Liking DEF GoalOK, Goal
  <2>3. Enter(Frame("all", todo, DEPTH, Done))
    BY <2>1
  <2> HIDE DEF todo
  <2> QED
    BY <1>1, <2>2, <2>3, DoneIs, EntersStatement
<1>4. CASE now' = Failure /\ UNCHANGED stack
  BY <1>1, <1>4, DoneIs, Answers
<1>5. CASE \E c \in ctors : \E d \in {d \in CtorBuilderOf[c].funcs : d.op \in Ops} :
              \E call \in Calls(d, {d.on}, DEPTH, Done) : Enter(call)
  <2>1. PICK d : \E call \in Calls(d, {d.on}, DEPTH, Done) : Enter(call)
    BY <1>5
  <2>2. PICK call \in Calls(d, {d.on}, DEPTH, Done) : Enter(call)
    BY <2>1
  <2> QED
    BY <1>1, <2>2, EntersCall
<1> QED
  BY <1>2, <1>3, <1>4, <1>5 DEF ChooseStatement

LEMMA StepIs == ASSUME BuilderInv, now.do = "object" PROVE now.step \in Int
BY DEF BuilderInv, Sound, ResultOK

LEMMA AssignStep ==
    ASSUME BuilderInv, Assign PROVE Sound(stack', now', inFuncExp')
<1>1. DEPTH \in Int
  BY ExpressionsAssumption
<1> QED
  BY <1>1, SubGoals, DoneIs, EntersStatement DEF Assign, On

LEMMA UpdateStep ==
    ASSUME BuilderInv, UpdateObject PROVE Sound(stack', now', inFuncExp')
BY DoneIs, Answers DEF UpdateObject, On

LEMMA IndexStep ==
    ASSUME BuilderInv, Index PROVE Sound(stack', now', inFuncExp')
<1>1. PICK m \in now.itype : now.itype = {m} /\ m.base \in {"array", "typedarray"}
  BY DEF Index, On
<1>2. MemberType # {}
  <2>1. ASSUME Class = "array" PROVE ElemOf(now.itype) # {}
    <3>1. m.base = "array"
      BY <1>1, <2>1 DEF Class
    <3>2. T(m.of) \subseteq ElemOf(now.itype)
      BY <1>1, <3>1 DEF ElemOf
    <3> QED
      BY <3>2 DEF T
  <2>2. number # {}
    BY DEF number, T
  <2> QED
    BY <2>1, <2>2 DEF MemberType
<1>3. now.do = "object" /\ Less(now.step) \in Int
  BY StepIs, LessIs DEF Index, On
<1>4. /\ ResultOK(OnObject(MemberType, Less(now.step)))
      /\ OnObject(MemberType, Less(now.step)).do = "object"
      /\ ForStatement(OnObject(MemberType, Less(now.step)))
  BY <1>2, <1>3, ObjectIs
<1> QED
  BY <1>3, <1>4, SubGoals, EntersStatement DEF Index

LEMMA MemberStep ==
    ASSUME BuilderInv, MemberOf PROVE Sound(stack', now', inFuncExp')
<1>1. PICK t \in VarTypes : now' = OnObject(t, Less(now.step))
  BY DEF MemberOf
<1>2. now.do = "object" /\ Less(now.step) \in Int /\ t # {}
  BY StepIs, LessIs, BuildContextAssumption DEF MemberOf, On
<1> QED
  BY <1>1, <1>2, ObjectIs, Answers DEF MemberOf

LEMMA CallFunctionStep ==
    ASSUME BuilderInv, CallFunction PROVE Sound(stack', now', inFuncExp')
<1>1. now.do = "object" /\ Less(now.step) \in Int /\ UNCHANGED inFuncExp
  BY StepIs, LessIs DEF CallFunction, On
<1>2. CASE now' = Failure /\ UNCHANGED stack
  BY <1>1, <1>2, DoneIs, Answers
<1>3. CASE \E todo \in SUBSET Sub({any}) :
              Enter(Frame("all", todo, Less(now.step), Done))
  <2>1. PICK todo \in SUBSET Sub({any}) :
              Enter(Frame("all", todo, Less(now.step), Done))
    BY <1>3
  <2>2. \A h \in todo : GoalOK(h)
    BY SubGoals
  <2> QED
    BY <1>1, <2>1, <2>2, DoneIs, EntersStatement
<1> QED
  BY <1>2, <1>3 DEF CallFunction

LEMMA NoStatementStep ==
    ASSUME BuilderInv, NoStatement PROVE Sound(stack', now', inFuncExp')
BY DoneIs, Answers DEF NoStatement

-----------------------------------------------------------------------------
(* A property of an object of a class: the type it gives is known.         *)
Given(dsps) == \A d \in dsps : d.gives # {}

LEMMA TypesAreGiven ==
    /\ number # {} /\ string # {} /\ boolean # {} /\ arraybuffer # {}
    /\ \A c : Ctor(c) # {} /\ Proto(c) # {}
BY Plain DEF number, string, boolean, arraybuffer, Ctor, Proto

LEMMA PropertiesAre ==
    /\ Given(DatePropertyDsps)
    /\ Given(StringPropertyDsps)
    /\ Given(RegExpPropertyDsps)
    /\ Given(ArrayPropertyDsps)
    /\ Given(TypedArrayPropertyDsps)
    /\ Given(MapPropertyDsps)
    /\ Given(SetPropertyDsps)
    /\ Given(WeakMapPropertyDsps)
    /\ Given(WeakSetPropertyDsps)
    /\ Given(ArrayBufferPropertyDsps)
    /\ Given(DataViewPropertyDsps)
    /\ Given(ObjectPropertyDsps)
<1>1. Given(DatePropertyDsps)
  BY TypesAreGiven DEF Given, DatePropertyDsps, Property, Method
<1>2. Given(StringPropertyDsps)
  BY TypesAreGiven DEF Given, StringPropertyDsps, Property, Method
<1>3. Given(RegExpPropertyDsps)
  BY TypesAreGiven DEF Given, RegExpPropertyDsps, Property, Method
<1>4. Given(ArrayPropertyDsps)
  BY TypesAreGiven DEF Given, ArrayPropertyDsps, Property, Method
<1>5. Given(TypedArrayPropertyDsps)
  BY TypesAreGiven DEF Given, TypedArrayPropertyDsps, Property, Method
<1>6. Given(MapPropertyDsps)
  BY TypesAreGiven DEF Given, MapPropertyDsps, Property, Method
<1>7. Given(SetPropertyDsps)
  BY TypesAreGiven DEF Given, SetPropertyDsps, Property, Method
<1>8. Given(WeakMapPropertyDsps)
  BY TypesAreGiven DEF Given, WeakMapPropertyDsps, Property, Method
<1>9. Given(WeakSetPropertyDsps)
  BY TypesAreGiven DEF Given, WeakSetPropertyDsps, Property, Method
<1>10. Given(ArrayBufferPropertyDsps)
  BY TypesAreGiven DEF Given, ArrayBufferPropertyDsps, Property, Method
<1>11. Given(DataViewPropertyDsps)
  BY TypesAreGiven DEF Given, DataViewPropertyDsps, Property, Method
<1>12. Given(ObjectPropertyDsps)
  BY TypesAreGiven DEF Given, ObjectPropertyDsps, Property, Method
<1> QED
  BY <1>1, <1>2, <1>3, <1>4, <1>5, <1>6, <1>7, <1>8, <1>9, <1>10, <1>11, <1>12

LEMMA BuildersGive == \A c \in DOMAIN BuilderOf : Given(BuilderOf[c].props)
<1>1. Given(NumberBuilder.props)
  BY DEF Given, NumberBuilder, Builtin, Weighted
<1>2. Given(DateBuilder.props)
  BY PropertiesAre DEF Given, DateBuilder, Builtin, Weighted
<1>3. Given(StringBuilder.props)
  BY PropertiesAre DEF Given, StringBuilder, Builtin, Weighted
<1>4. Given(RegExpBuilder.props)
  BY PropertiesAre DEF Given, RegExpBuilder, Builtin, Weighted
<1>5. Given(ArrayBuilder.props)
  BY PropertiesAre DEF Given, ArrayBuilder, Builtin, Weighted
<1>6. Given(TypedArrayBuilder.props)
  BY PropertiesAre DEF Given, TypedArrayBuilder, Builtin, Weighted
<1>7. Given(MapBuilder.props)
  BY PropertiesAre DEF Given, MapBuilder, Builtin, Weighted
<1>8. Given(SetBuilder.props)
  BY PropertiesAre DEF Given, SetBuilder, Builtin, Weighted
<1>9. Given(WeakMapBuilder.props)
  BY PropertiesAre DEF Given, WeakMapBuilder, Builtin, Weighted
<1>10. Given(WeakSetBuilder.props)
  BY PropertiesAre DEF Given, WeakSetBuilder, Builtin, Weighted
<1>11. Given(ArrayBufferBuilder.props)
  BY PropertiesAre DEF Given, ArrayBufferBuilder, Builtin, Weighted
<1>12. Given(DataViewBuilder.props)
  BY PropertiesAre DEF Given, DataViewBuilder, Builtin, Weighted
<1>13. Given(ObjectBuilder.props)
  BY PropertiesAre DEF Given, ObjectBuilder, Builtin, Weighted
<1>14. Given(IteratorBuilder.props)
  BY DEF Given, IteratorBuilder, Builtin, Weighted
<1>15. \A c \in DOMAIN BuilderOf : BuilderOf[c] \in {
           NumberBuilder, DateBuilder, StringBuilder, RegExpBuilder,
           ArrayBuilder, TypedArrayBuilder, MapBuilder, SetBuilder,
           WeakMapBuilder, WeakSetBuilder, ArrayBufferBuilder,
           DataViewBuilder, ObjectBuilder, IteratorBuilder}
  BY DEF BuilderOf
<1> QED
  BY <1>1, <1>2, <1>3, <1>4, <1>5, <1>6, <1>7, <1>8,
     <1>9, <1>10, <1>11, <1>12, <1>13, <1>14, <1>15

LEMMA CallBuiltinStep ==
    ASSUME BuilderInv, CallBuiltin PROVE Sound(stack', now', inFuncExp')
<1>1. /\ now.do = "object" /\ now.step \in Int /\ Less(now.step) \in Int
      /\ UNCHANGED inFuncExp
  BY StepIs, LessIs DEF CallBuiltin, On
<1>2. Class \in DOMAIN BuilderOf
  <2>1. PICK m \in now.itype :
            /\ now.itype = {m}
            /\ m.base \in {"string", "array", "typedarray", "any", "object", "date", "regexp",
                           "map", "set", "weakmap", "weakset", "arraybuffer", "dataview"}
    BY DEF CallBuiltin, On
  <2>2. Class = m.base
    BY <2>1 DEF Class
  <2> QED
    BY <2>1, <2>2 DEF BuilderOf
<1>3. CASE \E d \in BuilderOf[Class].props :
              /\ d.op \in Ops
              /\ now' = OnObject(d.gives, Less(now.step)) /\ UNCHANGED stack
  <2>1. PICK d \in BuilderOf[Class].props :
              now' = OnObject(d.gives, Less(now.step)) /\ UNCHANGED stack
    BY <1>3
  <2>2. d.gives # {}
    BY <1>2, BuildersGive DEF Given
  <2> QED
    BY <1>1, <2>1, <2>2, ObjectIs, Answers
<1>4. CASE \E d \in {d \in BuilderOf[Class].funcs : d.op \in Ops} :
              \E call \in Calls(d, {}, now.step, Done) : Enter(call)
  <2>1. PICK d : \E call \in Calls(d, {}, now.step, Done) : Enter(call)
    BY <1>4
  <2>2. PICK call \in Calls(d, {}, now.step, Done) : Enter(call)
    BY <2>1
  <2> QED
    BY <1>1, <2>2, EntersCall
<1> QED
  BY <1>3, <1>4 DEF CallBuiltin

-----------------------------------------------------------------------------
(* The actions: a node is returned to the frame on top.                    *)
LEMMA ReturnedIs ==
    ASSUME BuilderInv, now.do = "return"
    PROVE  /\ Sound(stack, now, inFuncExp) /\ stack # <<>> /\ FrameOK(Top)
           /\ Top.kind = "try" <=> Len(stack) = 1
           /\ Top.step < 0 => \E j \in 1..Len(stack) : Over(stack[j])
           /\ GoalOK(now.goal)
BY TopIs DEF BuilderInv, Sound, ResultOK

LEMMA Leaves ==
    ASSUME BuilderInv, now.do = "return", Top.kind # "try", Top.kind # "function",
           UNCHANGED inFuncExp,
           NEW q, ResultOK(q), q.do \in {"object", "return"}, now' = q, Pop
    PROVE  Sound(stack', now', inFuncExp')
<1>1. /\ Sound(stack, now, inFuncExp) /\ stack # <<>>
      /\ stack[Len(stack)].kind # "try" /\ stack[Len(stack)].kind # "function"
  BY ReturnedIs DEF Top
<1>2. Sound(SubSeq(stack, 1, Len(stack) - 1), q,
            IF stack[Len(stack)].kind = "function" THEN FALSE ELSE inFuncExp)
  BY <1>1, Pops
<1>3. (IF stack[Len(stack)].kind = "function" THEN FALSE ELSE inFuncExp) = inFuncExp
  BY <1>1
<1>4. Sound(SubSeq(stack, 1, Len(stack) - 1), q, inFuncExp)
  BY <1>2, <1>3
<1> QED
  BY <1>4 DEF Pop

LEMMA Retyped ==
    ASSUME NEW v, NEW itype PROVE [Node(v, TRUE) EXCEPT !.itype = itype] = Node(itype, TRUE)
<1>1. ASSUME NEW l, NEW b
      PROVE  [[itype |-> v, lval |-> l, null |-> b] EXCEPT !.itype = itype] =
                [itype |-> itype, lval |-> l, null |-> b]
  OBVIOUS
<1> DEFINE t == TRUE
           f == FALSE
<1> HIDE DEF t, f
<1>2. [[itype |-> v, lval |-> t, null |-> f] EXCEPT !.itype = itype] =
         [itype |-> itype, lval |-> t, null |-> f]
  BY <1>1
<1> QED
  BY <1>2 DEF Node, t, f

LEMMA Renoded ==
    ASSUME NEW n, NEW g, NEW m
    PROVE  /\ [Return(n, g) EXCEPT !.node = m] = Return(m, g)
           /\ Return(n, g).node = n /\ Return(n, g).goal = g /\ Return(n, g).do = "return"
BY DEF Return

LEMMA IndexDone ==
    ASSUME FrameOK(Top), Top.kind = "index", NEW itype
    PROVE  LET done == [Top.done EXCEPT !.node.itype = itype] IN
           /\ ResultOK(done)
           /\ done.do = Top.done.do /\ done.goal = Top.done.goal
           /\ \E v, g : done = Return(Node(v, TRUE), g) /\ MayBeAny(g.type)
<1>1. PICK v, g : Top.done = Return(Node(v, TRUE), g) /\ MayBeAny(g.type)
  BY DEF FrameOK
<1>2. [Return(Node(v, TRUE), g) EXCEPT !.node.itype = itype] = Return(Node(itype, TRUE), g)
  <2> DEFINE n == Node(v, TRUE)
             m == Node(itype, TRUE)
  <2>1. [n EXCEPT !.itype = itype] = m
    BY Retyped
  <2> HIDE DEF n, m
  <2>2. [Return(n, g) EXCEPT !.node = m] = Return(m, g) /\ Return(n, g).node = n
    BY Renoded
  <2> DEFINE r == Return(n, g)
  <2> HIDE DEF r
  <2>3. [r EXCEPT !.node = m] = Return(m, g) /\ r.node = n
    BY <2>2 DEF r
  <2>4. [r EXCEPT !.node.itype = itype] = [r EXCEPT !.node = [r.node EXCEPT !.itype = itype]]
    OBVIOUS
  <2>5. [r EXCEPT !.node.itype = itype] = Return(m, g)
    BY <2>1, <2>3, <2>4
  <2> QED
    BY <2>5 DEF r, n, m
<1>3. NodeOK(Node(itype, TRUE), g)
  <2>1. itype # {} => isMatch(itype, g.type, TRUE)
    <3>1. ASSUME NEW h \in itype PROVE isMatch(itype, g.type, TRUE)
      <4>1. PICK w \in g.type : w.base = "any"
        BY <1>1 DEF MayBeAny
      <4>2. Matches(h, w, TRUE /\ itype = {h} /\ g.type = {w})
        BY <4>1 DEF Matches
      <4> QED
        BY <4>2 DEF isMatch
    <3> QED
      BY <3>1
  <2> QED
    BY <1>1, <2>1 DEF NodeOK, Node
<1>4. GoalOK(g) /\ Top.done.do = "return" /\ Top.done.goal = g
  BY <1>1 DEF FrameOK, ResultOK, Return
<1>5. ResultOK(Return(Node(itype, TRUE), g)) /\ Return(Node(itype, TRUE), g).do = "return"
  BY <1>3, <1>4, ReturnIs
<1>6. Return(Node(itype, TRUE), g).goal = g
  BY DEF Return
<1> QED
  BY <1>1, <1>2, <1>4, <1>5, <1>6

LEMMA ReturnPartStep ==
    ASSUME BuilderInv, ReturnPart PROVE Sound(stack', now', inFuncExp')
<1>1. /\ Sound(stack, now, inFuncExp) /\ stack # <<>> /\ FrameOK(Top)
      /\ Top.kind \in {"all", "update", "index", "member"} /\ UNCHANGED inFuncExp
  BY ReturnedIs DEF ReturnPart, Returned
<1>2. now.do = "return" /\ Top.kind # "try" /\ Top.kind # "function"
  BY DEF ReturnPart, Returned
<1>3. CASE now' = Failed(Top) /\ Pop
  <2>1. \A g : GoalOK(g) => ResultOK(Return(Null, g)) /\ Return(Null, g).do = "return"
    BY ReturnIs, NullIs
  <2>2. Top.done.do = "return" => GoalOK(Top.done.goal)
    BY <1>1 DEF FrameOK, ResultOK
  <2>3. ResultOK(Failed(Top)) /\ Failed(Top).do = "return"
    BY <2>1, <2>2, StatementGoal DEF Failed
  <2> QED
    BY <1>1, <1>2, <1>3, <2>3, Leaves
<1>4. CASE Continue(Top.done)
  <2>1. ResultOK(Top.done) /\ (Top.kind = "index" => \E v, g :
            Top.done = Return(Node(v, TRUE), g) /\ MayBeAny(g.type))
    BY <1>1 DEF FrameOK
  <2> QED
    BY <1>1, <1>4, <2>1, Continues
<1>5. CASE /\ Top.kind = "index"
           /\ Continue([Top.done EXCEPT !.node.itype = ElemOf(now.node.itype)])
  <2> DEFINE done == [Top.done EXCEPT !.node.itype = ElemOf(now.node.itype)]
  <2>1. /\ ResultOK(done)
        /\ done.do = Top.done.do /\ done.goal = Top.done.goal
        /\ \E v, g : done = Return(Node(v, TRUE), g) /\ MayBeAny(g.type)
    BY <1>1, <1>5, IndexDone
  <2>2. Continue(done)
    BY <1>5
  <2> HIDE DEF done
  <2> QED
    BY <1>1, <2>1, <2>2, Continues
<1> QED
  BY <1>3, <1>4, <1>5 DEF ReturnPart

LEMMA ReturnElementStep ==
    ASSUME BuilderInv, ReturnElement PROVE Sound(stack', now', inFuncExp')
<1>1. /\ Sound(stack, now, inFuncExp) /\ stack # <<>> /\ FrameOK(Top)
      /\ Top.kind = "elements" /\ UNCHANGED inFuncExp /\ GoalOK(now.goal)
      /\ Top.step < 0 => \E j \in 1..Len(stack) : Over(stack[j])
  BY ReturnedIs DEF ReturnElement, Returned
<1>2. CASE now' = Build(now.goal, Top.step) /\ UNCHANGED stack
  <2> DEFINE q == Build(now.goal, Top.step)
  <2>1. ResultOK(q) /\ q.do = "build" /\ q.step = Top.step
    BY <1>1 DEF ResultOK, Build, FrameOK
  <2>2. Backed(stack, q)
    BY <1>1, <2>1 DEF Backed
  <2> HIDE DEF q
  <2>3. Sound(stack, q, inFuncExp)
    BY <1>1, <2>1, <2>2, Stays
  <2> QED
    BY <1>1, <1>2, <2>3 DEF q
<1>3. CASE now' = Top.done /\ Pop
  <2>1. now.do = "return" /\ Top.kind # "try" /\ Top.kind # "function"
    BY DEF ReturnElement, Returned
  <2>2. ResultOK(Top.done) /\ Top.done.do \in {"object", "return"}
    BY <1>1 DEF FrameOK
  <2> QED
    BY <1>1, <1>3, <2>1, <2>2, Leaves
<1> QED
  BY <1>2, <1>3 DEF ReturnElement

LEMMA ReturnPropertyStep ==
    ASSUME BuilderInv, ReturnProperty PROVE Sound(stack', now', inFuncExp')
<1>1. /\ Sound(stack, now, inFuncExp) /\ stack # <<>> /\ FrameOK(Top)
      /\ Top.kind = "shape" /\ UNCHANGED inFuncExp /\ Continue(Top.done)
  BY ReturnedIs DEF ReturnProperty, Returned
<1>2. ResultOK(Top.done)
  BY <1>1 DEF FrameOK
<1> QED
  BY <1>1, <1>2, Continues

(* The frame on top has fewer rounds left.                                 *)
LEMMA Repeats ==
    ASSUME Sound(stack, now, inFuncExp), stack # <<>>, FrameOK(Top),
           NEW n \in Nat, stack' = [stack EXCEPT ![Len(stack)].left = n],
           NEW q, ResultOK(q), q.do # "idle", q.do = "build" => ~(q.step < 0)
    PROVE  Sound(stack', q, inFuncExp)
<1> DEFINE f == [kind |-> Top.kind, todo |-> Top.todo, step |-> Top.step,
                 done |-> Top.done, left |-> n]
<1>1. stack' = [stack EXCEPT ![Len(stack)] = f]
  <2>1. [Top EXCEPT !.left = n] = f
    BY DEF FrameOK, IsFrame
  <2>2. stack' = [stack EXCEPT ![Len(stack)] = [Top EXCEPT !.left = n]]
    BY DEF Top
  <2> QED
    BY <2>1, <2>2
<1>2. /\ f.kind = Top.kind /\ f.todo = Top.todo /\ f.step = Top.step
      /\ f.done = Top.done /\ f.left = n /\ IsFrame(f)
  BY DEF IsFrame
<1> HIDE DEF f
<1>3. FrameOK(f)
  BY <1>2 DEF FrameOK
<1>4. /\ Over(stack[Len(stack)]) => Over(f)
      /\ f.kind = stack[Len(stack)].kind /\ f.step = stack[Len(stack)].step
  BY <1>2 DEF Over, Top
<1>5. q.do = "build" /\ q.step < 0 => f.step < 0
  OBVIOUS
<1>6. Sound([stack EXCEPT ![Len(stack)] = f], q, inFuncExp)
  BY <1>3, <1>4, <1>5, Replaces
<1> QED
  BY <1>1, <1>6

LEMMA ReturnBodyStep ==
    ASSUME BuilderInv, ReturnBody PROVE Sound(stack', now', inFuncExp')
<1>1. /\ Sound(stack, now, inFuncExp) /\ stack # <<>> /\ FrameOK(Top)
      /\ Top.kind = "function"
  BY ReturnedIs DEF ReturnBody, Returned
<1>2. CASE now.goal = Statement /\ (now.node.null \/ Top.left > 1)
  <2> DEFINE n == IF now.node.null THEN Top.left ELSE Top.left - 1
  <2>1. n \in Nat
    BY <1>1, <1>2 DEF FrameOK
  <2>2. /\ stack' = [stack EXCEPT ![Len(stack)].left = n]
        /\ now' = BuildStatement /\ inFuncExp' = inFuncExp
    BY <1>2 DEF ReturnBody, Top
  <2>3. ResultOK(BuildStatement) /\ BuildStatement.do = "statement"
    BY DEF ResultOK, BuildStatement
  <2> HIDE DEF n
  <2>4. Sound(stack', BuildStatement, inFuncExp)
    BY <1>1, <2>1, <2>2, <2>3, Repeats
  <2> QED
    BY <2>2, <2>4
<1>3. CASE \E t \in retTypes :
              /\ now' = Build(Goal(t, defaultPreference), DEPTH)
              /\ UNCHANGED <<stack, inFuncExp>>
  <2>1. PICK t : now' = Build(Goal(t, defaultPreference), DEPTH)
    BY <1>3
  <2> DEFINE q == Build(Goal(t, defaultPreference), DEPTH)
  <2>2. GoalOK(Goal(t, defaultPreference))
    BY Preferences, Liking DEF GoalOK, Goal
  <2>3. ResultOK(q) /\ q.do = "build" /\ ~(q.step < 0)
    BY <2>2, ExpressionsAssumption DEF ResultOK, Build
  <2> HIDE DEF q
  <2>4. Sound(stack, q, inFuncExp)
    BY <1>1, <2>3, Stays DEF Backed
  <2> QED
    BY <1>3, <2>1, <2>4 DEF q
<1>4. CASE now' = Top.done /\ Pop /\ resetInFuncExp
  <2>1. ResultOK(Top.done) /\ Top.done.do \in {"object", "return"}
    BY <1>1 DEF FrameOK
  <2>2. Sound(SubSeq(stack, 1, Len(stack) - 1), Top.done, FALSE)
    BY <1>1, <2>1, Pops DEF Top
  <2> QED
    BY <1>4, <2>2 DEF Pop, resetInFuncExp
<1> QED
  BY <1>2, <1>3, <1>4 DEF ReturnBody

LEMMA ReturnTryStep ==
    ASSUME BuilderInv, ReturnTry PROVE Sound(stack', now', inFuncExp')
<1>1. /\ Sound(stack, now, inFuncExp) /\ stack # <<>> /\ FrameOK(Top)
      /\ Top.kind = "try" /\ Len(stack) = 1 /\ GoalOK(now.goal)
      /\ UNCHANGED inFuncExp
  BY ReturnedIs DEF ReturnTry, Returned
<1>2. CASE now.node.null /\ Retries
  <2> DEFINE n == Top.left - 1
             q == IF now.goal = Statement THEN BuildStatement ELSE Build(now.goal, DEPTH)
  <2>1. n \in Nat
    BY <1>1, <1>2 DEF FrameOK, Retries
  <2>2. stack' = [stack EXCEPT ![Len(stack)].left = n] /\ now' = q
    BY <1>2 DEF ReturnTry, Top
  <2>3. /\ ResultOK(q) /\ q.do # "idle"
        /\ q.do = "build" => ~(q.step < 0)
    BY <1>1, ExpressionsAssumption DEF ResultOK, Build, BuildStatement
  <2> HIDE DEF n, q
  <2>4. Sound(stack', q, inFuncExp)
    BY <1>1, <2>1, <2>2, <2>3, Repeats
  <2> QED
    BY <1>1, <2>2, <2>4
<1>3. CASE now' = Idle /\ Pop
  <2>1. stack' = <<>>
    <3>1. stack' = SubSeq(stack, 1, 0)
      BY <1>1, <1>3 DEF Pop
    <3> QED
      BY <3>1, SubSeqEmpty
  <2>2. inFuncExp = FALSE
    <3>1. stack[1].kind # "function"
      BY <1>1 DEF Top
    <3> QED
      BY <1>1, <3>1 DEF BuilderInv, Sound, OneFunction
  <2> QED
    BY <1>1, <1>3, <2>1, <2>2, Empty
<1> QED
  BY <1>2, <1>3 DEF ReturnTry

-----------------------------------------------------------------------------
(* Every step keeps the stack sound.                                       *)
LEMMA FlagStays == ASSUME BuilderInv, [BuilderNext]_<<vars, builderVars>>
                   PROVE  inFuncExp' \in BOOLEAN
<1> USE DEF BuilderInv
<1>1. CASE UNCHANGED builderVars
  BY <1>1 DEF builderVars
<1>2. CASE BuildNodeForMutation \/ BuildStatements \/ Choose \/ BuildShapedObject
  BY <1>2 DEF BuildNodeForMutation, BuildStatements, Choose, BuildShapedObject
<1>3. CASE BuildFunctionExpression
  BY <1>3 DEF BuildFunctionExpression
<1>4. CASE \/ ChooseStatement \/ Assign \/ UpdateObject \/ Index \/ MemberOf
           \/ CallBuiltin \/ CallFunction \/ NoStatement
  BY <1>4 DEF ChooseStatement, Assign, UpdateObject, Index, MemberOf,
              CallBuiltin, CallFunction, NoStatement
<1>5. CASE ReturnPart \/ ReturnElement \/ ReturnProperty \/ ReturnTry
  BY <1>5 DEF ReturnPart, ReturnElement, ReturnProperty, ReturnTry
<1>6. CASE ReturnBody
  BY <1>6 DEF ReturnBody, resetInFuncExp
<1> QED
  BY <1>1, <1>2, <1>3, <1>4, <1>5, <1>6 DEF BuilderNext

LEMMA Step ==
    ASSUME BuilderInv, [BuilderNext]_<<vars, builderVars>> PROVE BuilderInv'
<1>1. inFuncExp' \in BOOLEAN
  BY FlagStays
<1>2. TypeOK' /\ Early'
  <2>1. [Next]_vars
    BY DEF BuilderNext
  <2> QED
    BY <2>1, ContextTyped DEF BuilderInv
<1>3. Sound(stack', now', inFuncExp')
  <2>1. CASE UNCHANGED builderVars
    BY <2>1 DEF builderVars, BuilderInv
  <2>2. CASE BuildNodeForMutation \/ BuildStatements
    BY <2>2, MutationStep, StatementsStep
  <2>3. CASE Choose \/ BuildFunctionExpression \/ BuildShapedObject
    BY <2>3, ChooseStep, FunctionStep, ShapeStep
  <2>4. CASE \/ ChooseStatement \/ Assign \/ UpdateObject \/ Index \/ MemberOf
             \/ CallBuiltin \/ CallFunction \/ NoStatement
    BY <2>4, ChooseStatementStep, AssignStep, UpdateStep, IndexStep, MemberStep,
       CallBuiltinStep, CallFunctionStep, NoStatementStep
  <2>5. CASE \/ ReturnPart \/ ReturnElement \/ ReturnProperty \/ ReturnBody
             \/ ReturnTry
    BY <2>5, ReturnPartStep, ReturnElementStep, ReturnPropertyStep,
       ReturnBodyStep, ReturnTryStep
  <2> QED
    BY <2>1, <2>2, <2>3, <2>4, <2>5 DEF BuilderNext
<1> QED
  BY <1>1, <1>2, <1>3 DEF BuilderInv, Sound, IsStack, Framed, OneFunction, Backed

LEMMA Always == BuilderSpec => []BuilderInv
<1>1. BuilderInit => BuilderInv
  BY Initially
<1>2. BuilderInv /\ [BuilderNext]_<<vars, builderVars>> => BuilderInv'
  BY Step
<1> QED
  BY <1>1, <1>2, PTL DEF BuilderSpec

(* A node of the wanted type: whatever chance picks, what is returned for  *)
(* a goal has a type that matches it (or none, where any type will do), a  *)
(* node that is asked for as an lvalue is one, and a statement is built on *)
(* an object that has a type.                                              *)
THEOREM NodesAlwaysMatch == BuilderSpec => []NodesMatch
<1>1. BuilderInv => NodesMatch
  <2> SUFFICES ASSUME BuilderInv PROVE NodesMatch
    OBVIOUS
  <2>1. ResultOK(now)
    BY DEF BuilderInv, Sound
  <2> QED
    BY <2>1 DEF NodesMatch, ResultOK, NodeOK, TypeMatches
<1> QED
  BY <1>1, Always, PTL

LEMMA OneFlag == BuilderInv => FlagTracksFunction
<1> SUFFICES ASSUME BuilderInv PROVE FlagTracksFunction
  OBVIOUS
<1> DEFINE functions == {k \in DOMAIN stack : stack[k].kind = "function"}
<1>1. OneFunction(stack, inFuncExp) /\ DOMAIN stack = 1..Len(stack)
  BY DEF BuilderInv, Sound, IsStack
<1>2. CASE inFuncExp
  <2>1. PICK k \in 1..Len(stack) : stack[k].kind = "function"
    BY <1>1, <1>2 DEF OneFunction
  <2>2. functions = {k}
    BY <1>1, <2>1 DEF OneFunction
  <2> HIDE DEF functions
  <2>3. Cardinality(functions) = 1
    BY <2>2, FS_Singleton
  <2> QED
    BY <1>2, <2>3 DEF FlagTracksFunction, functions
<1>3. CASE ~inFuncExp
  <2>1. functions = {}
    BY <1>1, <1>3 DEF OneFunction
  <2> HIDE DEF functions
  <2>2. Cardinality(functions) = 0
    BY <2>1, FS_EmptySet
  <2> QED
    BY <1>3, <2>2 DEF FlagTracksFunction, functions
<1> QED
  BY <1>2, <1>3

(* The builders nest one function expression at most, and inFuncExp is set *)
(* exactly while there is one; a step below 0 comes from a statement on an *)
(* object that waits.                                                      *)
THEOREM NestingAlwaysBounded == BuilderSpec => []NestingIsBounded
<1>1. BuilderInv => OnlyStatementsOverrun
  <2> SUFFICES ASSUME BuilderInv, now.do = "build", now.step < 0
               PROVE  \E k \in DOMAIN stack :
                         /\ stack[k].step < 0
                         /\ \/ stack[k].done.do = "object"
                            \/ /\ stack[k].done.do = "return"
                               /\ stack[k].done.goal = Statement
    BY DEF OnlyStatementsOverrun
  <2>1. PICK k \in 1..Len(stack) : Over(stack[k])
    BY DEF BuilderInv, Sound, Backed
  <2>2. DOMAIN stack = 1..Len(stack)
    BY DEF BuilderInv, Sound, IsStack
  <2> QED
    BY <2>1, <2>2 DEF Over, ForStatement
<1> QED
  BY <1>1, OneFlag, Always, PTL DEF NestingIsBounded

-----------------------------------------------------------------------------
(* The stack is as deep as the bound allows.                               *)
Moved(t) ==
    \/ t = stack
    \/ \E f : t = <<f>>
    \/ Len(stack) < MaxStack /\ \E f : t = Append(stack, f)
    \/ stack # <<>> /\ t = SubSeq(stack, 1, Len(stack) - 1)
    \/ stack # <<>> /\ \E f : t = [stack EXCEPT ![Len(stack)] = f]

LEMMA Room ==
    ASSUME IsStack(stack), Len(stack) <= MaxStack + 1, NEW t, Moved(t)
    PROVE  Len(t) <= MaxStack + 1
<1>1. MaxStack \in Nat /\ Len(stack) \in Nat
  BY BuilderAssumption DEF IsStack
<1>2. ASSUME NEW f, t = <<f>> PROVE Len(t) <= MaxStack + 1
  BY <1>1, <1>2
<1>3. ASSUME Len(stack) < MaxStack, NEW f, t = Append(stack, f)
      PROVE  Len(t) <= MaxStack + 1
  <2>1. Len(t) = Len(stack) + 1
    BY <1>3, PushDef
  <2> QED
    BY <1>1, <1>3, <2>1
<1>4. ASSUME stack # <<>>, t = SubSeq(stack, 1, Len(stack) - 1)
      PROVE  Len(t) <= MaxStack + 1
  <2>1. Len(t) = Len(stack) - 1
    BY <1>4, PopDef
  <2> QED
    BY <1>1, <2>1
<1>5. ASSUME stack # <<>>, NEW f, t = [stack EXCEPT ![Len(stack)] = f]
      PROVE  Len(t) <= MaxStack + 1
  <2>1. Len(t) = Len(stack)
    BY <1>5, ReplaceDef
  <2> QED
    BY <2>1
<1> QED
  BY <1>2, <1>3, <1>4, <1>5 DEF Moved

LEMMA EnterMoves == ASSUME NEW f, Enter(f) PROVE Moved(stack')
BY DEF Enter, Moved

LEMMA ContinueMoves ==
    ASSUME IsStack(stack), stack # <<>>, NEW done, Continue(done) PROVE Moved(stack')
<1>1. PICK S : stack \in Seq(S)
  BY DEF IsStack
<1>2. Len(stack) \in DOMAIN stack
  BY <1>1
<1>3. ASSUME NEW todo,
             stack' = [stack EXCEPT ![Len(stack)].todo = todo, ![Len(stack)].done = done]
      PROVE  \E f : stack' = [stack EXCEPT ![Len(stack)] = f]
  <2>1. stack' = [stack EXCEPT ![Len(stack)] = [Top EXCEPT !.todo = todo, !.done = done]]
    BY <1>1, <1>2, <1>3 DEF Top
  <2> QED
    BY <2>1
<1> QED
  BY <1>3 DEF Continue, Pop, Moved

LEMMA Moves == ASSUME BuilderInv, [BuilderNext]_<<vars, builderVars>> PROVE Moved(stack')
<1>1. IsStack(stack)
  BY DEF BuilderInv, Sound
<1>2. CASE UNCHANGED builderVars
  BY <1>2 DEF builderVars, Moved
<1>3. CASE BuildNodeForMutation \/ BuildStatements
  BY <1>3 DEF BuildNodeForMutation, BuildStatements, Moved
<1>4. CASE Choose
  BY <1>4, EnterMoves DEF Choose, Moved
<1>5. CASE BuildFunctionExpression
  BY <1>5 DEF BuildFunctionExpression, Moved
<1>6. CASE BuildShapedObject \/ Assign \/ Index
  BY <1>6, EnterMoves DEF BuildShapedObject, Assign, Index
<1>7. CASE ChooseStatement
  BY <1>7, EnterMoves DEF ChooseStatement, Moved
<1>8. CASE UpdateObject \/ MemberOf \/ NoStatement
  BY <1>8 DEF UpdateObject, MemberOf, NoStatement, Moved
<1>9. CASE CallBuiltin
  BY <1>9, EnterMoves DEF CallBuiltin, Moved
<1>10. CASE CallFunction
  BY <1>10, EnterMoves DEF CallFunction, Moved
<1>11. CASE ReturnPart
  BY <1>1, <1>11, ContinueMoves DEF ReturnPart, Returned, Pop, Moved
<1>12. CASE ReturnElement
  BY <1>12 DEF ReturnElement, Returned, Pop, Moved
<1>13. CASE ReturnProperty
  BY <1>1, <1>13, ContinueMoves DEF ReturnProperty, Returned
<1>14. CASE ReturnBody
  BY <1>14 DEF ReturnBody, Returned, Pop, Moved
<1>15. CASE ReturnTry
  BY <1>15 DEF ReturnTry, Returned, Pop, Moved
<1> QED
  BY <1>2, <1>3, <1>4, <1>5, <1>6, <1>7, <1>8, <1>9, <1>10, <1>11, <1>12, <1>13,
     <1>14, <1>15 DEF BuilderNext

(* Types: what is done next is one of the five things the builder does,    *)
(* and the stack is empty exactly when there is nothing to do.             *)
THEOREM BuilderTyped == BuilderSpec => []BuilderTypeOK
<1> DEFINE Small == Len(stack) <= MaxStack + 1
<1>1. BuilderInit => Small
  BY BuilderAssumption DEF BuilderInit
<1>2. BuilderInv /\ Small /\ [BuilderNext]_<<vars, builderVars>> => Small'
  BY Moves, Room DEF BuilderInv, Sound
<1>3. BuilderInv /\ Small => BuilderTypeOK
  <2> SUFFICES ASSUME BuilderInv, Small PROVE BuilderTypeOK
    OBVIOUS
  <2>1. Framed(stack) /\ DOMAIN stack = 1..Len(stack)
    BY DEF BuilderInv, Sound, IsStack
  <2>2. ASSUME NEW k \in DOMAIN stack
        PROVE  /\ stack[k].kind \in Kinds /\ (stack[k].kind = "try" <=> k = 1)
               /\ stack[k].step \in Int /\ stack[k].left \in Nat
    BY <2>1 DEF Framed, FrameOK
  <2>3. /\ TypeOK /\ inFuncExp \in BOOLEAN /\ (now = Idle <=> stack = <<>>)
        /\ now.do \in {"idle", "build", "statement", "object", "return"}
    BY DEF BuilderInv, Sound, ResultOK
  <2> QED
    BY <2>2, <2>3 DEF BuilderTypeOK
<1> QED
  BY <1>1, <1>2, <1>3, Always, PTL DEF BuilderSpec

-----------------------------------------------------------------------------
(* What every context offers.                                              *)
Provided ==
    /\ pc = "literals" => offers = {}
    /\ pc # "literals" => Literals \subseteq offers
    /\ pc = "ready" => Declarations \subseteq offers

LEMMA Provides == ASSUME Provided, [Next]_vars PROVE Provided'
<1>1. CASE ImportLiterals
  <2>1. ASSUME NEW d PROVE Needs("Literal", d) = {}
    BY DEF Needs, Unchecked
  <2>2. Literals \subseteq offers'
    BY <1>1, <2>1 DEF ImportLiterals, Importable, Provided, Literals
  <2> QED
    BY <1>1, <2>2 DEF ImportLiterals, Provided
<1>2. CASE ImportBindings \/ AddConstructors
  BY <1>2 DEF ImportBindings, AddConstructors, Provided
<1>3. CASE ImportNext
  BY <1>3 DEF ImportNext, Provided
<1>4. CASE GoRound
  BY <1>4 DEF GoRound, Provided
<1>5. CASE ImportDeclarations
  BY <1>5 DEF ImportDeclarations, Provided
<1>6. CASE UNCHANGED vars
  BY <1>6 DEF vars, Provided
<1> QED
  BY <1>1, <1>2, <1>3, <1>4, <1>5, <1>6 DEF Next

(* An entry that needs nothing makes a variable of a type it suits.        *)
Suits(gives, t) ==
    /\ isMatch(gives, t, TRUE)
    /\ \/ t = any
       \/ getCompatibleBaseTypes(gives, FALSE) \cap getCompatibleBaseTypes(t, TRUE) # {}
CanBeMade(t) == \E way \in Possible(Goal(t, initPreference), DEPTH) : FromLeaves(way)

LEMMA Offers ==
    ASSUME NEW b \in {"Literal", "NewExpression"}, NEW d, Offer(b, d) \in offers,
           d.op # "BuiltinConstructor", d.must = {}, NEW t, Suits(d.gives, t)
    PROVE  CanBeMade(t)
<1> DEFINE o == Offer(b, d)
           g == Goal(t, initPreference)
<1>1. o.builder = b /\ o.dsp = d /\ g.type = t /\ g.pref = initPreference
  BY DEF Offer, Goal
<1>2. initPreference.maps = Maps /\ initPreference.objectLike = TRUE
  BY DEF initPreference, Preference
<1>3. MapOf(b) \in Maps
  BY DEF MapOf, Maps
<1>4. DEPTH # 0
  BY ExpressionsAssumption
<1> HIDE DEF o, g
<1>5. o \in Candidates(offers, g.type, g.pref, DEPTH)
  BY <1>1, <1>2, <1>3, <1>4 DEF Candidates, Suits, o
<1>6. \E w \in Ways(o, g, DEPTH) : w.todo = {} /\ ~w.done.node.null
  <2>1. CASE b = "Literal"
    <3> DEFINE w == Frame("all", {}, 0, Return(Node(d.gives, d.op = "Math"), g))
    <3>1. w \in Ways(o, g, DEPTH)
      BY <1>1, <2>1 DEF Ways, LiteralWays
    <3>2. w.todo = {} /\ ~w.done.node.null
      BY DEF Frame, Return, Node
    <3> QED
      BY <3>1, <3>2
  <2>2. CASE b = "NewExpression"
    <3> DEFINE r == Return(Node(d.gives, FALSE), g)
               w == Frame("all", Sub({} \cup d.must \cup {}), Less(DEPTH), r)
    <3>1. w \in Calls(d, {}, DEPTH, r)
      BY DEF Calls
    <3>2. Ways(o, g, DEPTH) = Calls(d, {}, DEPTH, r)
      BY <1>1, <2>2 DEF Ways, NewWays
    <3>3. w.todo = Sub({} \cup d.must \cup {}) /\ w.done = r
      BY DEF Frame
    <3>4. Sub({} \cup d.must \cup {}) = {}
      BY DEF Sub
    <3>5. ~r.node.null
      BY DEF Return, Node
    <3> QED
      BY <3>1, <3>2, <3>3, <3>4, <3>5
  <2> QED
    BY <2>1, <2>2
<1> QED
  BY <1>5, <1>6 DEF CanBeMade, Possible, FromLeaves, g

LEMMA SuitsItself ==
    ASSUME NEW b, b \notin {"object", "descriptor"} PROVE Suits(T(b), T(b))
<1>1. isMatch(T(b), T(b), TRUE)
  BY Reflexive, Plain
<1>2. b \in getCompatibleBaseTypes(T(b), FALSE) /\ b \in getCompatibleBaseTypes(T(b), TRUE)
  BY DEF getCompatibleBaseTypes, T
<1> QED
  BY <1>1, <1>2 DEF Suits

LEMMA AnArraySuits ==
    /\ \A elem : Suits(array, Arr(elem))
    /\ Suits(array, object)
<1> DEFINE m(elem) == [base |-> "array", of |-> elem]
<1>1. \A elem : Arr(elem) = {m(elem)} /\ m(elem).base = "array" /\ m(elem).of = elem
  BY DEF Arr
<1>2. array = {m("any")} /\ m("any").base = "array" /\ m("any").of = "any"
  BY DEF array, Arr
<1> DEFINE w == [base |-> "object", of |-> ""]
<1>3. object = {w} /\ w.base = "object"
  BY DEF object, T
<1> HIDE DEF m, w
<1>4. "array" \in getCompatibleBaseTypes(array, FALSE)
  BY <1>2 DEF getCompatibleBaseTypes
<1>5. ASSUME NEW elem PROVE Suits(array, Arr(elem))
  <2>1. Matches(m("any"), m(elem), TRUE /\ array = {m("any")} /\ Arr(elem) = {m(elem)})
    BY <1>1, <1>2 DEF Matches
  <2>2. isMatch(array, Arr(elem), TRUE)
    BY <1>1, <1>2, <2>1 DEF isMatch
  <2>3. "array" \in getCompatibleBaseTypes(Arr(elem), TRUE)
    BY <1>1 DEF getCompatibleBaseTypes
  <2> QED
    BY <1>4, <2>2, <2>3 DEF Suits
<1>6. Suits(array, object)
  <2>1. Matches(m("any"), w, TRUE /\ array = {m("any")} /\ object = {w})
    BY <1>2, <1>3 DEF Matches, ObjectLikes
  <2>2. isMatch(array, object, TRUE)
    BY <1>2, <1>3, <2>1 DEF isMatch
  <2>3. "array" \in getCompatibleBaseTypes(object, TRUE)
    BY <1>3 DEF getCompatibleBaseTypes, ObjectLikes
  <2> QED
    BY <1>4, <2>2, <2>3 DEF Suits
<1> QED
  BY <1>5, <1>6

LEMMA ANumberSuitsAny == Suits(number, any)
BY DEF Suits, isMatch

LEMMA NewOnes ==
    ASSUME pc = "ready", Provided,
           NEW d \in NewExpressionDsps, d.op \in NewExpressionWeight
    PROVE  Offer("NewExpression", d) \in offers
BY DEF Provided, Declarations, Weighted

LEMMA LiteralOnes ==
    ASSUME pc = "ready", Provided, NEW d \in LiteralDsps, d.op \in LiteralWeight
    PROVE  Offer("Literal", d) \in offers
BY DEF Provided, Literals, Weighted

(* Wherever a statement may declare a variable, of whatever type it may    *)
(* have, a value for it can be built, without any variable in scope.       *)
THEOREM NewVariablesAlways == BuilderSpec => []NewVariablesCanBeMade
<1>1. BuilderInit => Provided
  BY DEF BuilderInit, Init, Provided
<1>2. Provided /\ [BuilderNext]_<<vars, builderVars>> => Provided'
  <2>1. [BuilderNext]_<<vars, builderVars>> => [Next]_vars
    BY DEF BuilderNext
  <2> QED
    BY <2>1, Provides
<1>3. Provided => NewVariablesCanBeMade
  <2> SUFFICES ASSUME Provided, pc = "ready", NEW t \in typesForNewVar
               PROVE  CanBeMade(t)
    BY DEF NewVariablesCanBeMade, CanBeMade
  <2>1. CASE t = number \/ t = any
    <3> DEFINE d == Operator("Number", {}, number)
    <3>1. d \in LiteralDsps /\ d.op \in LiteralWeight
      BY DEF LiteralDsps, LiteralWeight, Operator, Method
    <3>2. d.op # "BuiltinConstructor" /\ d.must = {} /\ d.gives = number
      BY DEF Operator, Method
    <3>3. Suits(number, t)
      BY <2>1, SuitsItself, ANumberSuitsAny DEF number
    <3>4. "Literal" \in {"Literal", "NewExpression"}
      OBVIOUS
    <3> HIDE DEF d
    <3> QED
      BY <3>1, <3>2, <3>3, <3>4, LiteralOnes, Offers
  <2>2. CASE t = string
    <3> DEFINE d == Operator("String", {}, string)
    <3>1. d \in LiteralDsps /\ d.op \in LiteralWeight
      BY DEF LiteralDsps, LiteralWeight, Operator, Method
    <3>2. d.op # "BuiltinConstructor" /\ d.must = {} /\ d.gives = string
      BY DEF Operator, Method
    <3>3. Suits(string, t)
      BY <2>2, SuitsItself DEF string
    <3>4. "Literal" \in {"Literal", "NewExpression"}
      OBVIOUS
    <3> HIDE DEF d
    <3> QED
      BY <3>1, <3>2, <3>3, <3>4, LiteralOnes, Offers
  <2>3. CASE t = regexp
    <3> DEFINE d == Operator("RegExp", {}, regexp)
    <3>1. d \in LiteralDsps /\ d.op \in LiteralWeight
      BY DEF LiteralDsps, LiteralWeight, Operator, Method
    <3>2. d.op # "BuiltinConstructor" /\ d.must = {} /\ d.gives = regexp
      BY DEF Operator, Method
    <3>3. Suits(regexp, t)
      BY <2>3, SuitsItself DEF regexp
    <3>4. "Literal" \in {"Literal", "NewExpression"}
      OBVIOUS
    <3> HIDE DEF d
    <3> QED
      BY <3>1, <3>2, <3>3, <3>4, LiteralOnes, Offers
  <2>4. ASSUME NEW d \in NewExpressionDsps, d.op \in NewExpressionWeight,
               d.must = {}, Suits(d.gives, t)
        PROVE  CanBeMade(t)
    <3>1. d.op # "BuiltinConstructor"
      BY <2>4 DEF NewExpressionWeight
    <3>2. "NewExpression" \in {"Literal", "NewExpression"}
      OBVIOUS
    <3> QED
      BY <2>4, <3>1, <3>2, NewOnes, Offers
  <2>5. CASE t \in {object, array, numberArray}
    <3> DEFINE d == Operator("Array", {}, array)
    <3>1. d \in NewExpressionDsps /\ d.op \in NewExpressionWeight
      BY DEF NewExpressionDsps, NewExpressionWeight, Operator, Method
    <3>2. d.must = {} /\ d.gives = array
      BY DEF Operator, Method
    <3>3. Suits(array, t)
      BY <2>5, AnArraySuits DEF array, numberArray
    <3> HIDE DEF d
    <3> QED
      BY <2>4, <3>1, <3>2, <3>3
  <2>6. CASE t \in {typedarray, date}
    <3>1. /\ Suits(typedarray, typedarray) /\ Suits(date, date)
      BY SuitsItself DEF typedarray, date
    <3>2. \E d \in NewExpressionDsps :
              d.op \in NewExpressionWeight /\ d.must = {} /\ d.gives = t
      <4> DEFINE d == Operator("Int8Array", {}, typedarray)
                 e == Operator("Date", {}, date)
      <4>1. {d, e} \subseteq NewExpressionDsps
        BY DEF NewExpressionDsps
      <4>2. /\ d.op \in NewExpressionWeight /\ d.must = {} /\ d.gives = typedarray
            /\ e.op \in NewExpressionWeight /\ e.must = {} /\ e.gives = date
        BY DEF NewExpressionWeight, Operator, Method
      <4> HIDE DEF d, e
      <4> QED
        BY <2>6, <4>1, <4>2
    <3> QED
      BY <2>4, <2>6, <3>1, <3>2
  <2>7. CASE t \in {map, set}
    <3>1. /\ Suits(map, map) /\ Suits(set, set)
      BY SuitsItself DEF map, set
    <3>2. \E d \in NewExpressionDsps :
              d.op \in NewExpressionWeight /\ d.must = {} /\ d.gives = t
      <4> DEFINE d == Method("Map", {}, {}, {iterable}, map)
                 e == Method("Set", {}, {}, {iterable}, set)
      <4>1. {d, e} \subseteq NewExpressionDsps
        BY DEF NewExpressionDsps
      <4>2. /\ d.op \in NewExpressionWeight /\ d.must = {} /\ d.gives = map
            /\ e.op \in NewExpressionWeight /\ e.must = {} /\ e.gives = set
        BY DEF NewExpressionWeight, Method
      <4> HIDE DEF d, e
      <4> QED
        BY <2>7, <4>1, <4>2
    <3> QED
      BY <2>4, <2>7, <3>1, <3>2
  <2> QED
    BY <2>1, <2>2, <2>3, <2>5, <2>6, <2>7 DEF typesForNewVar
<1> QED
  BY <1>1, <1>2, <1>3, PTL DEF BuilderSpec

-----------------------------------------------------------------------------
(* The context is complete.  Key gives the keys of a type, Basic those of  *)
(* the literals, Scarce those that only a variable in scope brings.        *)
Key(t) == getCompatibleBaseTypes(t, FALSE)
Basic == {"number", "string", "boolean", "null", "regexp", "math", "constructor"}
Scarce == {"date", "map", "set", "weakmap", "weakset", "dataview"}
Ready(t) == isTypeSupported(t, Basic)
Ordinary(t) == Key(t) \cap Scarce = {}

LEMMA KeysAre ==
    /\ \A b : b \notin {"object", "descriptor"} => Key(T(b)) = {b}
    /\ \A c : Key(Ctor(c)) = {"constructor"} /\ Key(Proto(c)) = {"prototype"}
              /\ Key(Arr(c)) = {"array"}
    /\ Key(object) = {"object"} /\ Key({}) = {}
    /\ \A s, t : Key(s \cup t) = Key(s) \cup Key(t)
<1>1. \A b : T(b) = {[base |-> b, of |-> ""]} /\ [base |-> b, of |-> ""].base = b
  BY DEF T
<1>2. \A b : b \notin {"object", "descriptor"} => Key(T(b)) = {b}
  BY <1>1 DEF Key, getCompatibleBaseTypes
<1>3. Key(object) = {"object"}
  BY <1>1 DEF Key, getCompatibleBaseTypes, object
<1>4. \A c : Key(Ctor(c)) = {"constructor"} /\ Key(Proto(c)) = {"prototype"}
             /\ Key(Arr(c)) = {"array"}
  BY DEF Key, getCompatibleBaseTypes, Ctor, Proto, Arr
<1>5. \A s, t : Key(s \cup t) = Key(s) \cup Key(t)
  BY DEF Key, getCompatibleBaseTypes
<1>6. Key({}) = {}
  BY DEF Key, getCompatibleBaseTypes
<1> QED
  BY <1>2, <1>3, <1>4, <1>5, <1>6

LEMMA ReadyTypes ==
    /\ Ready(any) /\ Ready(object) /\ Ready(descriptor) /\ Ready(functionExp)
    /\ Ready(number) /\ Ready(string) /\ Ready(boolean) /\ Ready(regexp)
    /\ Ready(math) /\ Ready(constructor) /\ Ready(number \cup string)
    /\ Ready(number \cup string \cup symbol) /\ Ready(string \cup symbol)
    /\ Ready(object \cup null) /\ Ready(iterable)
    /\ \A c : Ready(Ctor(c))
<1>1. \A t : Key(t) \cap Basic # {} => Ready(t)
  BY DEF Ready, isTypeSupported, Key
<1>2. /\ Key(number) = {"number"} /\ Key(string) = {"string"}
      /\ Key(boolean) = {"boolean"} /\ Key(regexp) = {"regexp"}
      /\ Key(math) = {"math"} /\ Key(constructor) = {"constructor"}
      /\ Key(null) = {"null"}
  BY KeysAre DEF number, string, boolean, regexp, math, constructor, null
<1>3. /\ Ready(number) /\ Ready(string) /\ Ready(boolean) /\ Ready(regexp)
      /\ Ready(math) /\ Ready(constructor) /\ \A c : Ready(Ctor(c))
  BY <1>1, <1>2, KeysAre DEF Basic
<1>4. \A s, t : Key(s) \cap Basic # {} => Ready(s \cup t) /\ Ready(t \cup s)
  <2> SUFFICES ASSUME NEW s, NEW t, Key(s) \cap Basic # {}
               PROVE  Ready(s \cup t) /\ Ready(t \cup s)
    OBVIOUS
  <2>1. Key(s \cup t) = Key(s) \cup Key(t) /\ t \cup s = s \cup t
    BY KeysAre
  <2>2. Key(s \cup t) \cap Basic # {}
    BY <2>1
  <2> QED
    BY <1>1, <2>1, <2>2
<1>5. /\ Key(number) \cap Basic # {} /\ Key(string) \cap Basic # {}
      /\ Key(null) \cap Basic # {}
  BY <1>2 DEF Basic
<1>6. /\ Ready(number \cup string) /\ Ready(string \cup symbol)
      /\ Ready(object \cup null)
  BY <1>4, <1>5
<1>7. Ready(number \cup string \cup symbol)
  <2>1. number \cup string \cup symbol = number \cup (string \cup symbol)
    OBVIOUS
  <2> QED
    BY <1>4, <1>5, <2>1
<1>8. Ready(iterable)
  <2>1. iterable = string \cup (array \cup typedarray \cup map \cup set)
    BY DEF iterable
  <2> QED
    BY <1>4, <1>5, <2>1
<1>9. Ready(any) /\ Ready(object) /\ Ready(descriptor) /\ Ready(functionExp)
  BY DEF Ready, isTypeSupported
<1> QED
  BY <1>3, <1>6, <1>7, <1>8, <1>9

LEMMA OrdinaryTypes ==
    /\ Ordinary(any) /\ Ordinary(object) /\ Ordinary(number) /\ Ordinary(string)
    /\ Ordinary(boolean) /\ Ordinary(undefined) /\ Ordinary(null)
    /\ Ordinary(regexp) /\ Ordinary(math) /\ Ordinary(constructor)
    /\ Ordinary(typedarray) /\ Ordinary(array) /\ Ordinary(numberArray)
    /\ Ordinary(stringArray) /\ Ordinary(iterator) /\ Ordinary(arraybuffer)
    /\ Ordinary(prototype) /\ Ordinary(number \cup string)
    /\ \A c : Ordinary(Ctor(c)) /\ Ordinary(Proto(c))
<1>1. \A b : b \notin {"object", "descriptor"} \cup Scarce => Ordinary(T(b))
  BY KeysAre DEF Ordinary
<1>2. /\ Ordinary(any) /\ Ordinary(number) /\ Ordinary(string)
      /\ Ordinary(boolean) /\ Ordinary(undefined) /\ Ordinary(null)
      /\ Ordinary(regexp) /\ Ordinary(math) /\ Ordinary(constructor)
      /\ Ordinary(typedarray) /\ Ordinary(iterator) /\ Ordinary(arraybuffer)
      /\ Ordinary(prototype)
  BY <1>1 DEF Scarce, any, number, string, boolean, undefined, null, regexp,
     math, constructor, typedarray, iterator, arraybuffer, prototype
<1>3. /\ Ordinary(object) /\ \A c : Ordinary(Ctor(c)) /\ Ordinary(Proto(c))
      /\ Ordinary(array) /\ Ordinary(numberArray) /\ Ordinary(stringArray)
  BY KeysAre DEF Ordinary, Scarce, array, numberArray, stringArray
<1>4. Ordinary(number \cup string)
  BY <1>2, KeysAre DEF Ordinary
<1> QED
  BY <1>2, <1>3, <1>4

-----------------------------------------------------------------------------
(* Of what an entry needs, all but w is ready from the literals on; and it *)
(* gives nothing scarce that it did not need.                              *)
Entry(b, d, w) ==
    /\ \A t \in Needs(b.name, d) :
          \/ Ready(t)
          \/ t = w /\ w # {}
          \/ w = typedarray /\ t = typedarray \cup array
    /\ w = {} \/ w \in Needs(b.name, d)
    /\ Ordinary(d.gives) \/ d.gives = w

(* All the entries of a builder need the same, or one that needs it is not *)
(* helped by the others.                                                   *)
Dsps(b) == b.props \cup b.funcs
Uniform(b, w) ==
    \/ \A d \in Dsps(b) : Entry(b, d, w)
    \/ \A d \in Dsps(b) : /\ Entry(b, d, w) \/ Entry(b, d, {})
                          /\ Key(d.gives) \cap Key(w) = {}

(* The same table by table.                                                *)
Serves(dsps, w) ==
    \A d \in dsps :
       /\ d.on = w
       /\ \A t \in d.must \cup d.may :
             Ready(t) \/ (w = typedarray /\ t = typedarray \cup array)
       /\ Ordinary(d.gives) \/ d.gives = w

LEMMA ServesUniform ==
    ASSUME NEW w, NEW b, NEW p, NEW f, Serves(p, w), Serves(f, w),
           b.props \subseteq p, b.funcs \subseteq f, b.name \notin Unchecked
    PROVE  Uniform(b, w)
<1> SUFFICES ASSUME NEW d \in p \cup f PROVE Entry(b, d, w)
  BY DEF Uniform, Dsps
<1>1. /\ d.on = w
      /\ \A t \in d.must \cup d.may :
            Ready(t) \/ (w = typedarray /\ t = typedarray \cup array)
      /\ Ordinary(d.gives) \/ d.gives = w
  BY DEF Serves
<1>2. Needs(b.name, d) = (IF w = {} THEN {} ELSE {w}) \cup d.must \cup d.may
  BY <1>1 DEF Needs
<1> QED
  BY <1>1, <1>2 DEF Entry

LEMMA ExpressionsUniform == \A k \in 1..5 : Uniform(Expressions[k], {})
<1>1. Uniform(Expressions[1], {})
  <2>1. \A d \in MemberExpressionDsps : Ordinary(d.gives)
    BY OrdinaryTypes DEF MemberExpressionDsps, Operator, Method
  <2>2. /\ Dsps(Expressions[1]) \subseteq MemberExpressionDsps
        /\ Expressions[1].name = "MemberExpression"
    BY DEF Dsps, Expressions, Expression, Builtin, Weighted
  <2>3. \A d : Needs("MemberExpression", d) = {}
    BY DEF Needs, Unchecked
  <2> QED
    BY <2>1, <2>2, <2>3 DEF Uniform, Entry
<1>2. /\ Serves(BinaryExpressionDsps, {}) /\ Serves(UnaryExpressionDsps, {})
      /\ Serves(UpdateExpressionDsps, {}) /\ Serves(LogicalExpressionDsps, {})
      /\ Serves({}, {})
  BY ReadyTypes, OrdinaryTypes
     DEF Serves, BinaryExpressionDsps, UnaryExpressionDsps,
         UpdateExpressionDsps, LogicalExpressionDsps, Operator, Method
<1>3. /\ Expressions[2].props \subseteq BinaryExpressionDsps
      /\ Expressions[3].props \subseteq UnaryExpressionDsps
      /\ Expressions[4].props \subseteq UpdateExpressionDsps
      /\ Expressions[5].props \subseteq LogicalExpressionDsps
      /\ \A k \in 2..5 : Expressions[k].funcs = {} /\ Expressions[k].name \notin Unchecked
  BY DEF Expressions, Expression, Builtin, Weighted, Unchecked
<1>4. \A k \in 2..5 : Expressions[k].funcs \subseteq {}
  BY <1>3
<1>5. Uniform(Expressions[2], {}) /\ Uniform(Expressions[3], {})
  BY <1>2, <1>3, <1>4, ServesUniform
<1>6. Uniform(Expressions[4], {}) /\ Uniform(Expressions[5], {})
  BY <1>2, <1>3, <1>4, ServesUniform
<1> QED
  BY <1>1, <1>5, <1>6

(* The builders of the values of a class need such a value; those of its   *)
(* constructor need that.                                                  *)
LEMMA ValuesServe ==
    /\ Serves(NumberFunctionDsps, number)
    /\ Serves(DatePropertyDsps, date) /\ Serves(DateFunctionDsps, date)
    /\ Serves(StringPropertyDsps, string) /\ Serves(StringFunctionDsps, string)
    /\ Serves(RegExpPropertyDsps, regexp) /\ Serves(RegExpFunctionDsps, regexp)
    /\ Serves(ArrayPropertyDsps, array) /\ Serves(ArrayFunctionDsps, array)
    /\ Serves(TypedArrayPropertyDsps, typedarray)
    /\ Serves(TypedArrayFunctionDsps, typedarray)
    /\ Serves(MapPropertyDsps, map) /\ Serves(MapFunctionDsps, map)
    /\ Serves(SetPropertyDsps, set) /\ Serves(SetFunctionDsps, set)
    /\ Serves(WeakMapPropertyDsps, weakmap)
    /\ Serves(WeakMapFunctionDsps, weakmap)
    /\ Serves(WeakSetPropertyDsps, weakset)
    /\ Serves(WeakSetFunctionDsps, weakset)
    /\ Serves(ArrayBufferPropertyDsps, arraybuffer)
    /\ Serves(ArrayBufferFunctionDsps, arraybuffer)
    /\ Serves(DataViewPropertyDsps, dataview)
    /\ Serves(DataViewFunctionDsps, dataview)
    /\ Serves(ObjectPropertyDsps, object) /\ Serves(ObjectFunctionDsps, object)
    /\ Serves(IteratorFunctionDsps, iterator)
<1>1. Serves(NumberFunctionDsps, number)
  BY ReadyTypes, OrdinaryTypes DEF Serves, NumberFunctionDsps, Property, Method
<1>2. Serves(DatePropertyDsps, date) /\ Serves(DateFunctionDsps, date)
  BY ReadyTypes, OrdinaryTypes DEF Serves, DatePropertyDsps, DateFunctionDsps,
     Property, Method
<1>3. Serves(StringPropertyDsps, string) /\ Serves(StringFunctionDsps, string)
  BY ReadyTypes, OrdinaryTypes
     DEF Serves, StringPropertyDsps, StringFunctionDsps,
     Property, Method
<1>4. Serves(RegExpPropertyDsps, regexp) /\ Serves(RegExpFunctionDsps, regexp)
  BY ReadyTypes, OrdinaryTypes
     DEF Serves, RegExpPropertyDsps, RegExpFunctionDsps,
     Property, Method
<1>5. Serves(ArrayPropertyDsps, array) /\ Serves(ArrayFunctionDsps, array)
  BY ReadyTypes, OrdinaryTypes
     DEF Serves, ArrayPropertyDsps, ArrayFunctionDsps,
     Property, Method
<1>6. /\ Serves(TypedArrayPropertyDsps, typedarray)
      /\ Serves(TypedArrayFunctionDsps, typedarray)
  BY ReadyTypes, OrdinaryTypes
     DEF Serves, TypedArrayPropertyDsps, TypedArrayFunctionDsps,
     Property, Method
<1>7. Serves(MapPropertyDsps, map) /\ Serves(MapFunctionDsps, map)
  BY ReadyTypes, OrdinaryTypes DEF Serves, MapPropertyDsps, MapFunctionDsps,
     Property, Method
<1>8. Serves(SetPropertyDsps, set) /\ Serves(SetFunctionDsps, set)
  BY ReadyTypes, OrdinaryTypes DEF Serves, SetPropertyDsps, SetFunctionDsps,
     Property, Method
<1>9. /\ Serves(WeakMapPropertyDsps, weakmap)
      /\ Serves(WeakMapFunctionDsps, weakmap)
  BY ReadyTypes, OrdinaryTypes
     DEF Serves, WeakMapPropertyDsps, WeakMapFunctionDsps,
     Property, Method
<1>10. /\ Serves(WeakSetPropertyDsps, weakset)
       /\ Serves(WeakSetFunctionDsps, weakset)
  BY ReadyTypes, OrdinaryTypes
     DEF Serves, WeakSetPropertyDsps, WeakSetFunctionDsps,
     Property, Method
<1>11. /\ Serves(ArrayBufferPropertyDsps, arraybuffer)
       /\ Serves(ArrayBufferFunctionDsps, arraybuffer)
  BY ReadyTypes, OrdinaryTypes
     DEF Serves, ArrayBufferPropertyDsps, ArrayBufferFunctionDsps,
     Property, Method
<1>12. /\ Serves(DataViewPropertyDsps, dataview)
       /\ Serves(DataViewFunctionDsps, dataview)
  BY ReadyTypes, OrdinaryTypes
     DEF Serves, DataViewPropertyDsps, DataViewFunctionDsps,
     Property, Method
<1>13. Serves(ObjectPropertyDsps, object) /\ Serves(ObjectFunctionDsps, object)
  BY ReadyTypes, OrdinaryTypes
     DEF Serves, ObjectPropertyDsps, ObjectFunctionDsps,
     Property, Method
<1>14. Serves(IteratorFunctionDsps, iterator)
  BY ReadyTypes, OrdinaryTypes
     DEF Serves, IteratorFunctionDsps, Property, Method
<1> QED
  BY <1>1, <1>2, <1>3, <1>4, <1>5, <1>6, <1>7, <1>8, <1>9, <1>10,
     <1>11, <1>12, <1>13, <1>14

LEMMA ConstructorsServe ==
    /\ Serves(NumberConstructorPropertyDsps, Ctor("Number"))
    /\ Serves(NumberConstructorFunctionDsps, Ctor("Number"))
    /\ Serves(MathPropertyDsps, math) /\ Serves(MathFunctionDsps, math)
    /\ Serves(DateConstructorPropertyDsps, Ctor("Date"))
    /\ Serves(DateConstructorFunctionDsps, Ctor("Date"))
    /\ Serves(StringConstructorPropertyDsps, Ctor("String"))
    /\ Serves(StringConstructorFunctionDsps, Ctor("String"))
    /\ Serves(RegExpConstructorPropertyDsps, Ctor("RegExp"))
    /\ Serves(ArrayConstructorPropertyDsps, Ctor("Array"))
    /\ Serves(ArrayConstructorFunctionDsps, Ctor("Array"))
    /\ Serves(TypedArrayConstructorPropertyDsps, Ctor("TypedArray"))
    /\ Serves(TypedArrayConstructorFunctionDsps, Ctor("TypedArray"))
    /\ Serves(MapConstructorPropertyDsps, Ctor("Map"))
    /\ Serves(SetConstructorPropertyDsps, Ctor("Set"))
    /\ Serves(WeakMapConstructorPropertyDsps, Ctor("WeakMap"))
    /\ Serves(WeakSetConstructorPropertyDsps, Ctor("WeakSet"))
    /\ Serves(DataViewConstructorPropertyDsps, Ctor("DataView"))
    /\ Serves(ObjectConstructorPropertyDsps, Ctor("Object"))
    /\ Serves(ObjectConstructorFunctionDsps, Ctor("Object"))
<1>1. Serves(NumberConstructorPropertyDsps, Ctor("Number"))
  BY ReadyTypes, OrdinaryTypes DEF Serves, NumberConstructorPropertyDsps,
     Property, Method
<1>2. Serves(NumberConstructorFunctionDsps, Ctor("Number"))
  BY ReadyTypes, OrdinaryTypes DEF Serves, NumberConstructorFunctionDsps,
     Method
<1>3. Serves(MathPropertyDsps, math) /\ Serves(MathFunctionDsps, math)
  BY ReadyTypes, OrdinaryTypes
     DEF Serves, MathPropertyDsps, MathFunctionDsps, Property, Method
<1>4. Serves(DateConstructorPropertyDsps, Ctor("Date"))
  BY ReadyTypes, OrdinaryTypes DEF Serves, DateConstructorPropertyDsps,
     Property, Method
<1>5. Serves(DateConstructorFunctionDsps, Ctor("Date"))
  BY ReadyTypes, OrdinaryTypes DEF Serves, DateConstructorFunctionDsps,
     Method
<1>6. Serves(StringConstructorPropertyDsps, Ctor("String"))
  BY ReadyTypes, OrdinaryTypes DEF Serves, StringConstructorPropertyDsps,
     Property, Method
<1>7. Serves(StringConstructorFunctionDsps, Ctor("String"))
  BY ReadyTypes, OrdinaryTypes DEF Serves, StringConstructorFunctionDsps,
     Method
<1>8. Serves(RegExpConstructorPropertyDsps, Ctor("RegExp"))
  BY ReadyTypes, OrdinaryTypes DEF Serves, RegExpConstructorPropertyDsps,
     Property, Method
<1>9. Serves(ArrayConstructorPropertyDsps, Ctor("Array"))
  BY ReadyTypes, OrdinaryTypes DEF Serves, ArrayConstructorPropertyDsps,
     Property, Method
<1>10. Serves(ArrayConstructorFunctionDsps, Ctor("Array"))
  BY ReadyTypes, OrdinaryTypes DEF Serves, ArrayConstructorFunctionDsps,
     Method
<1>11. Serves(TypedArrayConstructorPropertyDsps, Ctor("TypedArray"))
  BY ReadyTypes, OrdinaryTypes DEF Serves, TypedArrayConstructorPropertyDsps,
     Property, Method
<1>12. Serves(TypedArrayConstructorFunctionDsps, Ctor("TypedArray"))
  BY ReadyTypes, OrdinaryTypes DEF Serves, TypedArrayConstructorFunctionDsps,
     Method
<1>13. Serves(MapConstructorPropertyDsps, Ctor("Map"))
  BY ReadyTypes, OrdinaryTypes DEF Serves, MapConstructorPropertyDsps,
     Property, Method
<1>14. Serves(SetConstructorPropertyDsps, Ctor("Set"))
  BY ReadyTypes, OrdinaryTypes DEF Serves, SetConstructorPropertyDsps,
     Property, Method
<1>15. Serves(WeakMapConstructorPropertyDsps, Ctor("WeakMap"))
  BY ReadyTypes, OrdinaryTypes DEF Serves, WeakMapConstructorPropertyDsps,
     Property, Method
<1>16. Serves(WeakSetConstructorPropertyDsps, Ctor("WeakSet"))
  BY ReadyTypes, OrdinaryTypes DEF Serves, WeakSetConstructorPropertyDsps,
     Property, Method
<1>17. Serves(DataViewConstructorPropertyDsps, Ctor("DataView"))
  BY ReadyTypes, OrdinaryTypes DEF Serves, DataViewConstructorPropertyDsps,
     Property, Method
<1>18. Serves(ObjectConstructorPropertyDsps, Ctor("Object"))
  BY ReadyTypes, OrdinaryTypes DEF Serves, ObjectConstructorPropertyDsps,
     Property, Method
<1>19. Serves(ObjectConstructorFunctionDsps, Ctor("Object"))
  <2>1. \A d \in ObjectConstructorFunctionDsps : d.on = Ctor("Object") /\ d.may = {}
    BY DEF ObjectConstructorFunctionDsps, Method
  <2>2. \A d \in ObjectConstructorFunctionDsps : Ordinary(d.gives)
    BY OrdinaryTypes DEF ObjectConstructorFunctionDsps, Method
  <2> DEFINE key == number \cup string \cup symbol
             name == string \cup symbol
             proto == object \cup null
  <2>3. \A d \in ObjectConstructorFunctionDsps : \A t \in d.must : Ready(t)
    <3>1. \A d \in ObjectConstructorFunctionDsps :
              d.must \subseteq {object, key, descriptor, name, proto}
      <4> HIDE DEF key, name, proto
      <4> QED
        BY DEF ObjectConstructorFunctionDsps, Method, key, name, proto
    <3>2. Ready(object) /\ Ready(key) /\ Ready(descriptor) /\ Ready(name) /\ Ready(proto)
      BY ReadyTypes
    <3> QED
      BY <3>1, <3>2
  <2> QED
    BY <2>1, <2>2, <2>3 DEF Serves
<1> QED
  BY <1>1, <1>2, <1>3, <1>4, <1>5, <1>6, <1>7, <1>8, <1>9, <1>10,
     <1>11, <1>12, <1>13, <1>14, <1>15, <1>16, <1>17, <1>18, <1>19

(* What an entry needs that only comes in the course of the rounds, or     *)
(* only with a variable.                                                   *)
Lasting == {date, map, set, weakmap, weakset, dataview}
Wanted(w) ==
    \/ w = {}
    \/ Ready(w) /\ Ordinary(w)
    \/ w \in {array, typedarray, iterator, arraybuffer} \cup Lasting
Suited(b, k) == \E w : Uniform(b, w) /\ Wanted(w) /\ (k <= 11 => w # arraybuffer)

LEMMA Distinct ==
    \A w : w \in {number, date, string, regexp, array, typedarray, math, {}, object}
           => w # arraybuffer
<1>1. \A b : arraybuffer = T(b) => b = "arraybuffer"
  BY Differ DEF arraybuffer
<1>2. arraybuffer # array /\ arraybuffer # {}
  <2>1. Key(arraybuffer) = {"arraybuffer"} /\ Key(array) = {"array"} /\ Key({}) = {}
    BY KeysAre DEF arraybuffer, array
  <2> QED
    BY <2>1
<1> QED
  BY <1>1, <1>2 DEF number, date, string, regexp, typedarray, math, object

LEMMA NothingServes ==
    Serves({}, number) /\ Serves({}, iterator) /\ \A c : Serves({}, Ctor(c))
BY DEF Serves

LEMMA FirstValuesSuited == \A k \in 1..6 : Suited(builtinBuilders[k], k + 5)
<1>1. /\ NumberBuilder.props \subseteq {}
      /\ NumberBuilder.funcs \subseteq NumberFunctionDsps
      /\ DateBuilder.props \subseteq DatePropertyDsps
      /\ DateBuilder.funcs \subseteq DateFunctionDsps
      /\ StringBuilder.props \subseteq StringPropertyDsps
      /\ StringBuilder.funcs \subseteq StringFunctionDsps
      /\ RegExpBuilder.props \subseteq RegExpPropertyDsps
      /\ RegExpBuilder.funcs \subseteq RegExpFunctionDsps
      /\ ArrayBuilder.props \subseteq ArrayPropertyDsps
      /\ ArrayBuilder.funcs \subseteq ArrayFunctionDsps
      /\ TypedArrayBuilder.props \subseteq TypedArrayPropertyDsps
      /\ TypedArrayBuilder.funcs \subseteq TypedArrayFunctionDsps
  BY DEF NumberBuilder, DateBuilder, StringBuilder, RegExpBuilder,
     ArrayBuilder,
     TypedArrayBuilder, Builtin, Weighted
<1>2. \A k \in 1..6 : builtinBuilders[k].name \notin Unchecked
  BY DEF builtinBuilders, NumberBuilder, DateBuilder, StringBuilder,
     RegExpBuilder, ArrayBuilder, TypedArrayBuilder, Builtin, Unchecked
<1>3. /\ builtinBuilders[1] = NumberBuilder
      /\ builtinBuilders[2] = DateBuilder
      /\ builtinBuilders[3] = StringBuilder
      /\ builtinBuilders[4] = RegExpBuilder
      /\ builtinBuilders[5] = ArrayBuilder
      /\ builtinBuilders[6] = TypedArrayBuilder
  BY DEF builtinBuilders
<1>4. /\ Wanted(array)
      /\ Wanted(date)
      /\ Wanted(number)
      /\ Wanted(regexp)
      /\ Wanted(string)
      /\ Wanted(typedarray)
  BY ReadyTypes, OrdinaryTypes DEF Wanted, Lasting
<1>5. Suited(NumberBuilder, 6)
  <2>1. Uniform(NumberBuilder, number)
    BY <1>1, <1>2, <1>3, ValuesServe, ConstructorsServe, NothingServes,
       ServesUniform
  <2> QED
    BY <1>4, <2>1, Distinct DEF Suited
<1>6. Suited(DateBuilder, 7)
  <2>1. Uniform(DateBuilder, date)
    BY <1>1, <1>2, <1>3, ValuesServe, ConstructorsServe, NothingServes,
       ServesUniform
  <2> QED
    BY <1>4, <2>1, Distinct DEF Suited
<1>7. Suited(StringBuilder, 8)
  <2>1. Uniform(StringBuilder, string)
    BY <1>1, <1>2, <1>3, ValuesServe, ConstructorsServe, NothingServes,
       ServesUniform
  <2> QED
    BY <1>4, <2>1, Distinct DEF Suited
<1>8. Suited(RegExpBuilder, 9)
  <2>1. Uniform(RegExpBuilder, regexp)
    BY <1>1, <1>2, <1>3, ValuesServe, ConstructorsServe, NothingServes,
       ServesUniform
  <2> QED
    BY <1>4, <2>1, Distinct DEF Suited
<1>9. Suited(ArrayBuilder, 10)
  <2>1. Uniform(ArrayBuilder, array)
    BY <1>1, <1>2, <1>3, ValuesServe, ConstructorsServe, NothingServes,
       ServesUniform
  <2> QED
    BY <1>4, <2>1, Distinct DEF Suited
<1>10. Suited(TypedArrayBuilder, 11)
  <2>1. Uniform(TypedArrayBuilder, typedarray)
    BY <1>1, <1>2, <1>3, ValuesServe, ConstructorsServe, NothingServes,
       ServesUniform
  <2> QED
    BY <1>4, <2>1, Distinct DEF Suited
<1>11. \A k \in 1..6 : k = 1 \/ k = 2 \/ k = 3 \/ k = 4 \/ k = 5 \/ k = 6
  OBVIOUS
<1> QED
  BY <1>3, <1>5, <1>6, <1>7, <1>8, <1>9, <1>10, <1>11


LEMMA LastValuesSuited == \A k \in 7..14 : Suited(builtinBuilders[k], k + 5)
<1>1. /\ MapBuilder.props \subseteq MapPropertyDsps
      /\ MapBuilder.funcs \subseteq MapFunctionDsps
      /\ SetBuilder.props \subseteq SetPropertyDsps
      /\ SetBuilder.funcs \subseteq SetFunctionDsps
      /\ WeakMapBuilder.props \subseteq WeakMapPropertyDsps
      /\ WeakMapBuilder.funcs \subseteq WeakMapFunctionDsps
      /\ WeakSetBuilder.props \subseteq WeakSetPropertyDsps
      /\ WeakSetBuilder.funcs \subseteq WeakSetFunctionDsps
      /\ ArrayBufferBuilder.props \subseteq ArrayBufferPropertyDsps
      /\ ArrayBufferBuilder.funcs \subseteq ArrayBufferFunctionDsps
      /\ DataViewBuilder.props \subseteq DataViewPropertyDsps
      /\ DataViewBuilder.funcs \subseteq DataViewFunctionDsps
      /\ ObjectBuilder.props \subseteq ObjectPropertyDsps
      /\ ObjectBuilder.funcs \subseteq ObjectFunctionDsps
      /\ IteratorBuilder.props \subseteq {}
      /\ IteratorBuilder.funcs \subseteq IteratorFunctionDsps
  BY DEF MapBuilder, SetBuilder, WeakMapBuilder, WeakSetBuilder,
     ArrayBufferBuilder, DataViewBuilder, ObjectBuilder, IteratorBuilder,
     Builtin, Weighted
<1>2. \A k \in 7..14 : builtinBuilders[k].name \notin Unchecked
  BY DEF builtinBuilders, MapBuilder, SetBuilder, WeakMapBuilder,
     WeakSetBuilder,
     ArrayBufferBuilder, DataViewBuilder, ObjectBuilder, IteratorBuilder,
     Builtin, Unchecked
<1>3. /\ builtinBuilders[7] = MapBuilder
      /\ builtinBuilders[8] = SetBuilder
      /\ builtinBuilders[9] = WeakMapBuilder
      /\ builtinBuilders[10] = WeakSetBuilder
      /\ builtinBuilders[11] = ArrayBufferBuilder
      /\ builtinBuilders[12] = DataViewBuilder
      /\ builtinBuilders[13] = ObjectBuilder
      /\ builtinBuilders[14] = IteratorBuilder
  BY DEF builtinBuilders
<1>4. /\ Wanted(arraybuffer)
      /\ Wanted(dataview)
      /\ Wanted(iterator)
      /\ Wanted(map)
      /\ Wanted(object)
      /\ Wanted(set)
      /\ Wanted(weakmap)
      /\ Wanted(weakset)
  BY ReadyTypes, OrdinaryTypes DEF Wanted, Lasting
<1>5. Suited(MapBuilder, 12)
  <2>1. Uniform(MapBuilder, map)
    BY <1>1, <1>2, <1>3, ValuesServe, ConstructorsServe, NothingServes,
       ServesUniform
  <2> QED
    BY <1>4, <2>1 DEF Suited
<1>6. Suited(SetBuilder, 13)
  <2>1. Uniform(SetBuilder, set)
    BY <1>1, <1>2, <1>3, ValuesServe, ConstructorsServe, NothingServes,
       ServesUniform
  <2> QED
    BY <1>4, <2>1 DEF Suited
<1>7. Suited(WeakMapBuilder, 14)
  <2>1. Uniform(WeakMapBuilder, weakmap)
    BY <1>1, <1>2, <1>3, ValuesServe, ConstructorsServe, NothingServes,
       ServesUniform
  <2> QED
    BY <1>4, <2>1 DEF Suited
<1>8. Suited(WeakSetBuilder, 15)
  <2>1. Uniform(WeakSetBuilder, weakset)
    BY <1>1, <1>2, <1>3, ValuesServe, ConstructorsServe, NothingServes,
       ServesUniform
  <2> QED
    BY <1>4, <2>1 DEF Suited
<1>9. Suited(ArrayBufferBuilder, 16)
  <2>1. Uniform(ArrayBufferBuilder, arraybuffer)
    BY <1>1, <1>2, <1>3, ValuesServe, ConstructorsServe, NothingServes,
       ServesUniform
  <2> QED
    BY <1>4, <2>1 DEF Suited
<1>10. Suited(DataViewBuilder, 17)
  <2>1. Uniform(DataViewBuilder, dataview)
    BY <1>1, <1>2, <1>3, ValuesServe, ConstructorsServe, NothingServes,
       ServesUniform
  <2> QED
    BY <1>4, <2>1 DEF Suited
<1>11. Suited(ObjectBuilder, 18)
  <2>1. Uniform(ObjectBuilder, object)
    BY <1>1, <1>2, <1>3, ValuesServe, ConstructorsServe, NothingServes,
       ServesUniform
  <2> QED
    BY <1>4, <2>1 DEF Suited
<1>12. Suited(IteratorBuilder, 19)
  <2>1. Uniform(IteratorBuilder, iterator)
    BY <1>1, <1>2, <1>3, ValuesServe, ConstructorsServe, NothingServes,
       ServesUniform
  <2> QED
    BY <1>4, <2>1 DEF Suited
<1>13. \A k \in 7..14 : k = 7 \/ k = 8 \/ k = 9 \/ k = 10 \/ k = 11 \/ k = 12 \/ k = 13 \/ k = 14
  OBVIOUS
<1> QED
  BY <1>3, <1>5, <1>6, <1>7, <1>8, <1>9, <1>10, <1>11, <1>12, <1>13


(* Only transfer needs a buffer, and nothing gives one.                    *)
LEMMA BufferCtorUniform == Uniform(ArrayBufferCtorBuilder, arraybuffer)
<1> DEFINE c == Ctor("ArrayBuffer")
           b == ArrayBufferCtorBuilder
<1>1. /\ b.props \subseteq ArrayBufferConstructorPropertyDsps
      /\ b.funcs \subseteq ArrayBufferConstructorFunctionDsps
      /\ b.name \notin Unchecked
  BY DEF ArrayBufferCtorBuilder, Builtin, Weighted, Unchecked
<1>2. /\ \A x \in ArrayBufferConstructorPropertyDsps :
            x.on = c /\ x.must = {} /\ x.may = {} /\ x.gives = Proto("ArrayBuffer")
      /\ \A x \in ArrayBufferConstructorFunctionDsps :
            /\ x.on = c /\ x.gives = boolean
            /\ \/ x.must = {any} /\ x.may = {}
               \/ x.must = {arraybuffer} /\ x.may = {number}
  BY DEF ArrayBufferConstructorPropertyDsps,
     ArrayBufferConstructorFunctionDsps,
     Property, Method
<1>3. /\ Key(Proto("ArrayBuffer")) = {"prototype"} /\ Key(boolean) = {"boolean"}
      /\ Key(arraybuffer) = {"arraybuffer"}
  BY KeysAre DEF boolean, arraybuffer
<1>4. /\ Ready(c) /\ Ready(any) /\ Ready(number)
      /\ Ordinary(boolean) /\ Ordinary(Proto("ArrayBuffer"))
  BY ReadyTypes, OrdinaryTypes
<1>5. c # {}
  BY TypesAreGiven
<1> HIDE DEF b, c
<1> SUFFICES ASSUME NEW x \in Dsps(b)
             PROVE  /\ Entry(b, x, arraybuffer) \/ Entry(b, x, {})
                    /\ Key(x.gives) \cap Key(arraybuffer) = {}
  BY DEF Uniform, b
<1>6. \/ x \in ArrayBufferConstructorPropertyDsps
      \/ x \in ArrayBufferConstructorFunctionDsps
  BY <1>1 DEF Dsps
<1>7. Needs(b.name, x) = {c} \cup x.must \cup x.may
  BY <1>1, <1>2, <1>5, <1>6 DEF Needs
<1>8. x.gives \in {boolean, Proto("ArrayBuffer")}
  BY <1>2, <1>6
<1>9. CASE arraybuffer \in x.must
  BY <1>2, <1>3, <1>4, <1>6, <1>7, <1>8, <1>9, TypesAreGiven DEF Entry
<1>10. CASE arraybuffer \notin x.must
  <2>1. \A t \in Needs(b.name, x) : Ready(t)
    BY <1>2, <1>4, <1>6, <1>7, <1>10
  <2> QED
    BY <1>3, <1>4, <1>8, <2>1 DEF Entry
<1> QED
  BY <1>9, <1>10

LEMMA FirstCtorsSuited == \A k \in 1..7 : Suited(builtinCtorBuilders[k], k + 19)
<1>1. /\ NumberCtorBuilder.props \subseteq NumberConstructorPropertyDsps
      /\ NumberCtorBuilder.funcs \subseteq NumberConstructorFunctionDsps
      /\ MathBuilder.props \subseteq MathPropertyDsps
      /\ MathBuilder.funcs \subseteq MathFunctionDsps
      /\ DateCtorBuilder.props \subseteq DateConstructorPropertyDsps
      /\ DateCtorBuilder.funcs \subseteq DateConstructorFunctionDsps
      /\ StringCtorBuilder.props \subseteq StringConstructorPropertyDsps
      /\ StringCtorBuilder.funcs \subseteq StringConstructorFunctionDsps
      /\ RegExpCtorBuilder.props \subseteq RegExpConstructorPropertyDsps
      /\ RegExpCtorBuilder.funcs \subseteq {}
      /\ ArrayCtorBuilder.props \subseteq ArrayConstructorPropertyDsps
      /\ ArrayCtorBuilder.funcs \subseteq ArrayConstructorFunctionDsps
      /\ TypedArrayCtorBuilder.props \subseteq TypedArrayConstructorPropertyDsps
      /\ TypedArrayCtorBuilder.funcs \subseteq TypedArrayConstructorFunctionDsps
  BY DEF NumberCtorBuilder, MathBuilder, DateCtorBuilder, StringCtorBuilder,
     RegExpCtorBuilder, ArrayCtorBuilder, TypedArrayCtorBuilder, Builtin,
     Weighted
<1>2. \A k \in 1..7 : builtinCtorBuilders[k].name \notin Unchecked
  BY DEF builtinCtorBuilders, NumberCtorBuilder, MathBuilder, DateCtorBuilder,
     StringCtorBuilder, RegExpCtorBuilder, ArrayCtorBuilder,
     TypedArrayCtorBuilder, Builtin, Unchecked
<1>3. /\ builtinCtorBuilders[1] = NumberCtorBuilder
      /\ builtinCtorBuilders[2] = MathBuilder
      /\ builtinCtorBuilders[3] = DateCtorBuilder
      /\ builtinCtorBuilders[4] = StringCtorBuilder
      /\ builtinCtorBuilders[5] = RegExpCtorBuilder
      /\ builtinCtorBuilders[6] = ArrayCtorBuilder
      /\ builtinCtorBuilders[7] = TypedArrayCtorBuilder
  BY DEF builtinCtorBuilders
<1>4. /\ Wanted(math)
      /\ \A c : Wanted(Ctor(c))
  BY ReadyTypes, OrdinaryTypes DEF Wanted, Lasting
<1>5. Suited(NumberCtorBuilder, 20)
  <2>1. Uniform(NumberCtorBuilder, Ctor("Number"))
    BY <1>1, <1>2, <1>3, ValuesServe, ConstructorsServe, NothingServes,
       ServesUniform
  <2> QED
    BY <1>4, <2>1 DEF Suited
<1>6. Suited(MathBuilder, 21)
  <2>1. Uniform(MathBuilder, math)
    BY <1>1, <1>2, <1>3, ValuesServe, ConstructorsServe, NothingServes,
       ServesUniform
  <2> QED
    BY <1>4, <2>1 DEF Suited
<1>7. Suited(DateCtorBuilder, 22)
  <2>1. Uniform(DateCtorBuilder, Ctor("Date"))
    BY <1>1, <1>2, <1>3, ValuesServe, ConstructorsServe, NothingServes,
       ServesUniform
  <2> QED
    BY <1>4, <2>1 DEF Suited
<1>8. Suited(StringCtorBuilder, 23)
  <2>1. Uniform(StringCtorBuilder, Ctor("String"))
    BY <1>1, <1>2, <1>3, ValuesServe, ConstructorsServe, NothingServes,
       ServesUniform
  <2> QED
    BY <1>4, <2>1 DEF Suited
<1>9. Suited(RegExpCtorBuilder, 24)
  <2>1. Uniform(RegExpCtorBuilder, Ctor("RegExp"))
    BY <1>1, <1>2, <1>3, ValuesServe, ConstructorsServe, NothingServes,
       ServesUniform
  <2> QED
    BY <1>4, <2>1 DEF Suited
<1>10. Suited(ArrayCtorBuilder, 25)
  <2>1. Uniform(ArrayCtorBuilder, Ctor("Array"))
    BY <1>1, <1>2, <1>3, ValuesServe, ConstructorsServe, NothingServes,
       ServesUniform
  <2> QED
    BY <1>4, <2>1 DEF Suited
<1>11. Suited(TypedArrayCtorBuilder, 26)
  <2>1. Uniform(TypedArrayCtorBuilder, Ctor("TypedArray"))
    BY <1>1, <1>2, <1>3, ValuesServe, ConstructorsServe, NothingServes,
       ServesUniform
  <2> QED
    BY <1>4, <2>1 DEF Suited
<1>12. \A k \in 1..7 : k = 1 \/ k = 2 \/ k = 3 \/ k = 4 \/ k = 5 \/ k = 6 \/ k = 7
  OBVIOUS
<1> QED
  BY <1>3, <1>5, <1>6, <1>7, <1>8, <1>9, <1>10, <1>11, <1>12


LEMMA LastCtorsSuited == \A k \in 8..14 : Suited(builtinCtorBuilders[k], k + 19)
<1>1. /\ MapCtorBuilder.props \subseteq MapConstructorPropertyDsps
      /\ MapCtorBuilder.funcs \subseteq {}
      /\ SetCtorBuilder.props \subseteq SetConstructorPropertyDsps
      /\ SetCtorBuilder.funcs \subseteq {}
      /\ WeakMapCtorBuilder.props \subseteq WeakMapConstructorPropertyDsps
      /\ WeakMapCtorBuilder.funcs \subseteq {}
      /\ WeakSetCtorBuilder.props \subseteq WeakSetConstructorPropertyDsps
      /\ WeakSetCtorBuilder.funcs \subseteq {}
      /\ ArrayBufferCtorBuilder.props \subseteq ArrayBufferConstructorPropertyDsps
      /\ ArrayBufferCtorBuilder.funcs \subseteq ArrayBufferConstructorFunctionDsps
      /\ DataViewCtorBuilder.props \subseteq DataViewConstructorPropertyDsps
      /\ DataViewCtorBuilder.funcs \subseteq {}
      /\ ObjectCtorBuilder.props \subseteq ObjectConstructorPropertyDsps
      /\ ObjectCtorBuilder.funcs \subseteq ObjectConstructorFunctionDsps
  BY DEF MapCtorBuilder, SetCtorBuilder, WeakMapCtorBuilder,
     WeakSetCtorBuilder,
     ArrayBufferCtorBuilder, DataViewCtorBuilder, ObjectCtorBuilder, Builtin,
     Weighted
<1>2. \A k \in 8..14 : builtinCtorBuilders[k].name \notin Unchecked
  BY DEF builtinCtorBuilders, MapCtorBuilder, SetCtorBuilder,
     WeakMapCtorBuilder,
     WeakSetCtorBuilder, ArrayBufferCtorBuilder, DataViewCtorBuilder,
     ObjectCtorBuilder, Builtin, Unchecked
<1>3. /\ builtinCtorBuilders[8] = MapCtorBuilder
      /\ builtinCtorBuilders[9] = SetCtorBuilder
      /\ builtinCtorBuilders[10] = WeakMapCtorBuilder
      /\ builtinCtorBuilders[11] = WeakSetCtorBuilder
      /\ builtinCtorBuilders[12] = ArrayBufferCtorBuilder
      /\ builtinCtorBuilders[13] = DataViewCtorBuilder
      /\ builtinCtorBuilders[14] = ObjectCtorBuilder
  BY DEF builtinCtorBuilders
<1>4. /\ Wanted(arraybuffer)
      /\ \A c : Wanted(Ctor(c))
  BY ReadyTypes, OrdinaryTypes DEF Wanted, Lasting
<1>5. Suited(MapCtorBuilder, 27)
  <2>1. Uniform(MapCtorBuilder, Ctor("Map"))
    BY <1>1, <1>2, <1>3, ValuesServe, ConstructorsServe, NothingServes,
       ServesUniform
  <2> QED
    BY <1>4, <2>1 DEF Suited
<1>6. Suited(SetCtorBuilder, 28)
  <2>1. Uniform(SetCtorBuilder, Ctor("Set"))
    BY <1>1, <1>2, <1>3, ValuesServe, ConstructorsServe, NothingServes,
       ServesUniform
  <2> QED
    BY <1>4, <2>1 DEF Suited
<1>7. Suited(WeakMapCtorBuilder, 29)
  <2>1. Uniform(WeakMapCtorBuilder, Ctor("WeakMap"))
    BY <1>1, <1>2, <1>3, ValuesServe, ConstructorsServe, NothingServes,
       ServesUniform
  <2> QED
    BY <1>4, <2>1 DEF Suited
<1>8. Suited(WeakSetCtorBuilder, 30)
  <2>1. Uniform(WeakSetCtorBuilder, Ctor("WeakSet"))
    BY <1>1, <1>2, <1>3, ValuesServe, ConstructorsServe, NothingServes,
       ServesUniform
  <2> QED
    BY <1>4, <2>1 DEF Suited
<1>9. Suited(ArrayBufferCtorBuilder, 31)
  <2>1. Uniform(ArrayBufferCtorBuilder, arraybuffer)
    BY BufferCtorUniform
  <2> QED
    BY <1>4, <2>1 DEF Suited
<1>10. Suited(DataViewCtorBuilder, 32)
  <2>1. Uniform(DataViewCtorBuilder, Ctor("DataView"))
    BY <1>1, <1>2, <1>3, ValuesServe, ConstructorsServe, NothingServes,
       ServesUniform
  <2> QED
    BY <1>4, <2>1 DEF Suited
<1>11. Suited(ObjectCtorBuilder, 33)
  <2>1. Uniform(ObjectCtorBuilder, Ctor("Object"))
    BY <1>1, <1>2, <1>3, ValuesServe, ConstructorsServe, NothingServes,
       ServesUniform
  <2> QED
    BY <1>4, <2>1 DEF Suited
<1>12. \A k \in 8..14 : k = 8 \/ k = 9 \/ k = 10 \/ k = 11 \/ k = 12 \/ k = 13 \/ k = 14
  OBVIOUS
<1> QED
  BY <1>3, <1>5, <1>6, <1>7, <1>8, <1>9, <1>10, <1>11, <1>12


LEMMA AllSuited == \A k \in 1..33 : Suited(Builders[k], k)
<1>1. ASSUME NEW k \in 1..5 PROVE Suited(Expressions[k], k)
  BY ExpressionsUniform, Distinct DEF Suited, Wanted
<1>2. ASSUME NEW k \in 1..14 PROVE Suited(builtinBuilders[k], k + 5)
  <2>1. k \in 1..6 \/ k \in 7..14
    OBVIOUS
  <2> QED
    BY <2>1, FirstValuesSuited, LastValuesSuited
<1>3. ASSUME NEW k \in 1..14 PROVE Suited(builtinCtorBuilders[k], k + 19)
  <2>1. k \in 1..7 \/ k \in 8..14
    OBVIOUS
  <2> QED
    BY <2>1, FirstCtorsSuited, LastCtorsSuited
<1> TAKE k \in 1..33
<1>4. CASE k \in 1..5
  BY <1>1, <1>4, BuildersAre
<1>5. CASE k \in 6..19
  <2>1. k - 5 \in 1..14 /\ (k - 5) + 5 = k /\ ~(k <= 5) /\ k <= 19
    BY <1>5
  <2>2. Suited(builtinBuilders[k - 5], (k - 5) + 5)
    BY <1>2, <2>1
  <2> QED
    BY <2>1, <2>2, BuildersAre
<1>6. CASE k \in 20..33
  <2>1. k - 19 \in 1..14 /\ (k - 19) + 19 = k /\ ~(k <= 5) /\ ~(k <= 19)
    BY <1>6
  <2>2. Suited(builtinCtorBuilders[k - 19], (k - 19) + 19)
    BY <1>3, <2>1
  <2> QED
    BY <2>1, <2>2, BuildersAre
<1>7. k \in 1..5 \/ k \in 6..19 \/ k \in 20..33
  OBVIOUS
<1> QED
  BY <1>4, <1>5, <1>6, <1>7

-----------------------------------------------------------------------------
(* What an import does.                                                    *)
LEMMA BasesAre ==
    /\ \A A, B : BaseTypes(A \cup B) = BaseTypes(A) \cup BaseTypes(B)
    /\ \A A : \A o \in A : Key(o.dsp.gives) \subseteq BaseTypes(A)
    /\ \A A : \A x \in BaseTypes(A) : \E o \in A : x \in Key(o.dsp.gives)
BY DEF BaseTypes, Key

LEMMA SupportGrows ==
    \A t, X, Y : X \subseteq Y /\ isTypeSupported(t, X) => isTypeSupported(t, Y)
BY DEF isTypeSupported

LEMMA SupportIs ==
    /\ \A t, X : Key(t) \cap X # {} => isTypeSupported(t, X)
    /\ \A t \in {array, typedarray, iterator, arraybuffer} \cup Lasting :
          \E x : /\ Key(t) = {x} /\ (t \in Lasting => x \in Scarce)
                 /\ \A X : isTypeSupported(t, X) => x \in X
<1>1. \A t, X : Key(t) \cap X # {} => isTypeSupported(t, X)
  BY DEF isTypeSupported, Key
<1>2. /\ Key(typedarray) = {"typedarray"} /\ Key(iterator) = {"iterator"}
      /\ Key(arraybuffer) = {"arraybuffer"} /\ Key(array) = {"array"}
      /\ Key(date) = {"date"} /\ Key(map) = {"map"} /\ Key(set) = {"set"}
      /\ Key(weakmap) = {"weakmap"} /\ Key(weakset) = {"weakset"}
      /\ Key(dataview) = {"dataview"}
  BY KeysAre
     DEF typedarray, iterator, arraybuffer, array, date, map, set, weakmap,
     weakset, dataview
<1>3. /\ Key(any) = {"any"} /\ Key(object) = {"object"}
      /\ Key(functionExp) = {"function expression"} /\ Key(descriptor) = {"object"}
  <2>1. /\ descriptor = {[base |-> "descriptor", of |-> ""]}
        /\ [base |-> "descriptor", of |-> ""].base = "descriptor"
    BY DEF descriptor, T
  <2>2. Key(descriptor) = {"object"}
    BY <2>1 DEF Key, getCompatibleBaseTypes
  <2> QED
    BY <2>2, KeysAre DEF any, functionExp
<1>4. ASSUME NEW t, NEW x, Key(t) = {x}, x \notin {"any", "object", "function expression"},
             NEW X, isTypeSupported(t, X)
      PROVE  x \in X
  <2>1. t \notin {any, object, descriptor, functionExp}
    BY <1>3, <1>4
  <2> QED
    BY <1>4, <2>1 DEF isTypeSupported, Key
<1>5. ASSUME NEW t \in {array, typedarray, iterator, arraybuffer} \cup Lasting
      PROVE  \E x : /\ Key(t) = {x} /\ (t \in Lasting => x \in Scarce)
                    /\ \A X : isTypeSupported(t, X) => x \in X
  <2>1. PICK x : /\ Key(t) = {x} /\ x \notin {"any", "object", "function expression"}
                 /\ t \in Lasting => x \in Scarce
    <3>1. CASE t \in Lasting
      BY <1>2, <3>1 DEF Lasting, Scarce
    <3>2. CASE t \notin Lasting
      BY <1>2, <1>5, <3>2
    <3> QED
      BY <3>1, <3>2
  <2>2. \A X : isTypeSupported(t, X) => x \in X
    BY <1>4, <2>1
  <2> QED
    BY <2>1, <2>2
<1> QED
  BY <1>1, <1>5

LEMMA NeedsOne ==
    ASSUME NEW b, NEW d, NEW w, Entry(b, d, w), NEW X, Basic \subseteq X
    PROVE  (\A t \in Needs(b.name, d) : isTypeSupported(t, X))
           <=> w = {} \/ isTypeSupported(w, X)
<1>1. \A t : Ready(t) => isTypeSupported(t, X)
  BY SupportGrows DEF Ready
<1>2. isTypeSupported(typedarray, X) => isTypeSupported(typedarray \cup array, X)
  <2>1. PICK x : Key(typedarray) = {x} /\ \A Y : isTypeSupported(typedarray, Y) => x \in Y
    BY SupportIs
  <2>2. Key(typedarray \cup array) = Key(typedarray) \cup Key(array)
    BY KeysAre
  <2>3. isTypeSupported(typedarray, X) => Key(typedarray \cup array) \cap X # {}
    BY <2>1, <2>2
  <2> QED
    BY <2>3, SupportIs
<1>3. typedarray # {}
  BY Plain DEF typedarray
<1> QED
  BY <1>1, <1>2, <1>3 DEF Entry

LEMMA ImportsIt ==
    ASSUME NEW b, NEW dsps, NEW d \in dsps, NEW w, Entry(b, d, w), NEW A,
           Basic \subseteq BaseTypes(A), w = {} \/ isTypeSupported(w, BaseTypes(A))
    PROVE  Offer(b.name, d) \in A \cup Importable(b.name, dsps, A)
<1>1. \A t \in Needs(b.name, d) : isTypeSupported(t, BaseTypes(A))
  BY NeedsOne
<1> QED
  BY <1>1 DEF Importable, Offer

LEMMA ImportedIs ==
    ASSUME NEW n, NEW dsps, NEW A, NEW o \in Importable(n, dsps, A)
    PROVE  \E d \in dsps : /\ o = Offer(n, d) /\ o.dsp = d /\ o \notin A
                           /\ \A t \in Needs(n, d) : isTypeSupported(t, BaseTypes(A))
BY DEF Importable, Offer

(* After an import nothing more of the table is importable.                *)
LEMMA ImportsOnce ==
    ASSUME NEW b, NEW w, Uniform(b, w), NEW dsps \in SUBSET Dsps(b), NEW A,
           Basic \subseteq BaseTypes(A)
    PROVE  Importable(b.name, dsps, A \cup Importable(b.name, dsps, A)) = {}
<1> DEFINE new == Importable(b.name, dsps, A)
<1> SUFFICES ASSUME NEW o \in Importable(b.name, dsps, A \cup new) PROVE FALSE
  OBVIOUS
<1>1. PICK d \in dsps :
          /\ o = Offer(b.name, d) /\ o \notin A \cup new
          /\ \A t \in Needs(b.name, d) : isTypeSupported(t, BaseTypes(A \cup new))
  BY ImportedIs
<1>2. BaseTypes(A \cup new) = BaseTypes(A) \cup BaseTypes(new)
  BY BasesAre
<1>3. ASSUME NEW v, Entry(b, d, v)
      PROVE  v # {} /\ isTypeSupported(v, BaseTypes(A \cup new))
             /\ ~isTypeSupported(v, BaseTypes(A))
  <2>1. v = {} \/ isTypeSupported(v, BaseTypes(A \cup new))
    BY <1>1, <1>2, <1>3, NeedsOne
  <2>2. ~(v = {} \/ isTypeSupported(v, BaseTypes(A)))
    BY <1>1, <1>3, ImportsIt
  <2> QED
    BY <2>1, <2>2
<1>4. CASE \A e \in Dsps(b) : Entry(b, e, w)
  <2>1. w # {} /\ ~isTypeSupported(w, BaseTypes(A))
    BY <1>3, <1>4
  <2>2. \A e \in dsps : w \in Needs(b.name, e)
    BY <1>4, <2>1 DEF Entry
  <2>3. new = {}
    BY <2>1, <2>2, ImportedIs
  <2>4. BaseTypes(A \cup new) = BaseTypes(A)
    BY <2>3
  <2> QED
    BY <1>3, <1>4, <2>4
<1>5. CASE \A e \in Dsps(b) : /\ Entry(b, e, w) \/ Entry(b, e, {})
                              /\ Key(e.gives) \cap Key(w) = {}
  <2>1. Entry(b, d, w) /\ isTypeSupported(w, BaseTypes(A \cup new))
        /\ ~isTypeSupported(w, BaseTypes(A))
    BY <1>3, <1>5
  <2>2. Key(w) \cap BaseTypes(new) = {}
    <3> SUFFICES ASSUME NEW x \in BaseTypes(new) PROVE x \notin Key(w)
      OBVIOUS
    <3>1. PICK p \in new : x \in Key(p.dsp.gives)
      BY BasesAre
    <3>2. p.dsp \in Dsps(b)
      BY ImportedIs
    <3> QED
      BY <1>5, <3>1, <3>2
  <2>3. isTypeSupported(w, BaseTypes(A))
    BY <1>2, <2>1, <2>2 DEF isTypeSupported, Key
  <2> QED
    BY <2>1, <2>3
<1> QED
  BY <1>4, <1>5 DEF Uniform

-----------------------------------------------------------------------------
(* The rounds.  In the first one plusOffer is taken up, so that there is a *)
(* second; four more offers make what a round must have found before the   *)
(* turn of a builder that waits for it.                                    *)
VarBases == UNION {Key(t) : t \in variables}
plusOffer ==
    Offer("BinaryExpression", Operator("+", {number \cup string}, number \cup string))
matchOffer == Offer("String", Method("match", string, {regexp}, {}, array))
entriesOffer == Offer("Array", Method("entries", array, {}, {}, iterator))
ofOffer == Offer("TypedArrayCtor", Method("of", Ctor("TypedArray"), {number}, {}, typedarray))
bufferOffer == Offer("TypedArray", Property("buffer", typedarray, arraybuffer))

(* Not in the first round, unless a round has just begun.                  *)
Late == plusOffer \in offers /\ (turn <= 2 \/ ~updated)

(* A builder has offered what it will ever offer.                          *)
Lasts(w) ==
    \/ w = {} \/ Ready(w)
    \/ w \in {array, typedarray, iterator, arraybuffer}
    \/ w \in Lasting /\ Key(w) \subseteq VarBases
Settled(k) ==
    LET b == Builders[k] IN
    \E w : /\ Uniform(b, w) /\ Wanted(w)
           /\ \A d \in Dsps(b), v \in {w, {}} :
                 Entry(b, d, v) /\ Lasts(v) => Offer(b.name, d) \in offers

Founded ==
    /\ "Number" \in ctors /\ ctors \subseteq DOMAIN CtorBuilderOf
    /\ pc \in {"literals", "bindings", "constructors"} =>
          turn = 1 /\ \A o \in offers : o.builder \in {"Literal", "Variable"}
    /\ pc \in {"loop", "declarations"} =>
          Basic \subseteq BaseTypes(offers) /\ VarBases \subseteq BaseTypes(offers)
    /\ pc = "constructors" => VarBases \subseteq BaseTypes(offers)
    /\ pc # "ready" => BaseTypes(offers) \cap Scarce \subseteq VarBases
Marked ==
    pc = "loop" =>
       /\ turn > 2 => plusOffer \in offers
       /\ turn > 8 \/ Late => matchOffer \in offers
       /\ turn > 10 \/ Late => entriesOffer \in offers
       /\ turn > 11 /\ Late => bufferOffer \in offers
       /\ turn > 26 \/ Late => ofOffer \in offers
Closing ==
    /\ pc = "loop" /\ Late => \A k \in 1..33 : k < turn => Settled(k)
    /\ pc = "declarations" => \A k \in 1..33 : Settled(k)
ContextInv == TypeOK /\ Early /\ Provided /\ Founded /\ Marked /\ Closing

LEMMA ClosedThen == ContextInv => ContextIsClosed
<1> SUFFICES ASSUME ContextInv PROVE ContextIsClosed
  OBVIOUS
<1> USE DEF ContextInv
<1>1. TablesAreOrderless
  <2> SUFFICES ASSUME pc = "loop", turn <= Len(Builders)
               PROVE  LET b == Builders[turn]
                          props == offers \cup Importable(b.name, b.props, offers)
                          funcs == props \cup Importable(b.name, b.funcs, props)
                      IN  /\ Importable(b.name, b.props, props) = {}
                          /\ Importable(b.name, b.funcs, funcs) = {}
    BY DEF TablesAreOrderless
  <2>1. turn \in 1..33
    BY BuildersAre DEF TypeOK
  <2> DEFINE b == Builders[turn]
             props == offers \cup Importable(b.name, b.props, offers)
  <2>2. PICK w : Uniform(b, w)
    BY <2>1, AllSuited DEF Suited
  <2>3. Basic \subseteq BaseTypes(offers) /\ Basic \subseteq BaseTypes(props)
    BY BasesAre DEF Founded
  <2>4. b.props \in SUBSET Dsps(b) /\ b.funcs \in SUBSET Dsps(b)
    BY DEF Dsps
  <2> HIDE DEF b
  <2>5. Importable(b.name, b.props, props) = {}
    BY <2>2, <2>3, <2>4, ImportsOnce
  <2>6. Importable(b.name, b.funcs, props \cup Importable(b.name, b.funcs, props)) = {}
    <3> HIDE DEF props
    <3> QED
      BY <2>2, <2>3, <2>4, ImportsOnce
  <2> QED
    BY <2>5, <2>6 DEF b
<1>2. ASSUME pc = "declarations", NEW k \in DOMAIN Builders,
             NEW dsps \in {Builders[k].props, Builders[k].funcs}
      PROVE  Importable(Builders[k].name, dsps, offers) = {}
  <2> DEFINE b == Builders[k]
  <2>1. Settled(k)
    BY <1>2, BuildersAre DEF Closing
  <2>2. PICK w : /\ Uniform(b, w) /\ Wanted(w)
                 /\ \A d \in Dsps(b), v \in {w, {}} :
                       Entry(b, d, v) /\ Lasts(v) => Offer(b.name, d) \in offers
    BY <2>1 DEF Settled
  <2> SUFFICES ASSUME NEW o \in Importable(b.name, dsps, offers) PROVE FALSE
    OBVIOUS
  <2>3. PICK d \in dsps :
            /\ o = Offer(b.name, d) /\ o \notin offers
            /\ \A t \in Needs(b.name, d) : isTypeSupported(t, BaseTypes(offers))
    BY ImportedIs
  <2>4. d \in Dsps(b)
    BY DEF Dsps
  <2>5. PICK v \in {w, {}} : Entry(b, d, v)
    BY <2>2, <2>4 DEF Uniform
  <2>6. v = {} \/ isTypeSupported(v, BaseTypes(offers))
    BY <1>2, <2>3, <2>5, NeedsOne DEF Founded
  <2>7. Lasts(v)
    <3>1. ASSUME v \in Lasting PROVE Key(v) \subseteq VarBases
      <4>1. PICK x : /\ Key(v) = {x} /\ x \in Scarce
                     /\ \A X : isTypeSupported(v, X) => x \in X
        BY <3>1, SupportIs
      <4>2. v # {}
        BY <4>1, KeysAre
      <4>3. x \in BaseTypes(offers)
        BY <2>6, <4>1, <4>2
      <4> QED
        BY <1>2, <4>1, <4>3 DEF Founded
    <3> QED
      BY <2>2, <3>1 DEF Lasts, Wanted
  <2> QED
    BY <2>2, <2>3, <2>4, <2>5, <2>7
<1>3. ctors \subseteq DOMAIN CtorBuilderOf
  BY DEF Founded
<1> QED
  BY <1>1, <1>2, <1>3 DEF ContextIsClosed

(* The five offers are entries of the tables.                              *)
EntryOf(o, k, needs, gives) ==
    /\ o = Offer(Builders[k].name, o.dsp) /\ o.dsp \in Dsps(Builders[k])
    /\ Needs(Builders[k].name, o.dsp) = needs /\ o.dsp.gives = gives

LEMMA Milestones ==
    /\ EntryOf(plusOffer, 2, {number \cup string}, number \cup string)
    /\ plusOffer.dsp \in Builders[2].props
    /\ EntryOf(matchOffer, 8, {string, regexp}, array)
    /\ EntryOf(entriesOffer, 10, {array}, iterator)
    /\ EntryOf(bufferOffer, 11, {typedarray}, arraybuffer)
    /\ EntryOf(ofOffer, 26, {Ctor("TypedArray"), number}, typedarray)
<1>1. /\ Builders[2] = Expressions[2] /\ Builders[8] = builtinBuilders[3]
      /\ Builders[10] = builtinBuilders[5] /\ Builders[11] = builtinBuilders[6]
      /\ Builders[26] = builtinCtorBuilders[7]
  BY BuildersAre
<1>2. /\ builtinBuilders[3] = StringBuilder /\ builtinBuilders[5] = ArrayBuilder
      /\ builtinBuilders[6] = TypedArrayBuilder
      /\ builtinCtorBuilders[7] = TypedArrayCtorBuilder
  BY DEF builtinBuilders, builtinCtorBuilders
<1>3. string # {} /\ array # {} /\ typedarray # {} /\ Ctor("TypedArray") # {}
  BY Plain, TypesAreGiven DEF string, typedarray, array, Arr
<1>4. EntryOf(plusOffer, 2, {number \cup string}, number \cup string) /\ plusOffer.dsp \in Builders[2].props
  <2> DEFINE e == Operator("+", {number \cup string}, number \cup string)
  <2>1. /\ Builders[2].name = "BinaryExpression"
        /\ Builders[2].props = Weighted(BinaryExpressionDsps, BinaryExpressionWeight)
    BY <1>1 DEF Expressions, Expression, Builtin
  <2>2. /\ e \in BinaryExpressionDsps /\ e.op \in BinaryExpressionWeight
        /\ e.on = {} /\ e.must = {number \cup string} /\ e.may = {}
        /\ e.gives = number \cup string
    BY DEF BinaryExpressionDsps, BinaryExpressionWeight, Operator, Method
  <2>3. plusOffer = Offer("BinaryExpression", e) /\ plusOffer.dsp = e
    BY DEF plusOffer, Offer
  <2> HIDE DEF e
  <2> QED
    BY <2>1, <2>2, <2>3 DEF EntryOf, Dsps, Weighted, Needs, Unchecked
<1>5. EntryOf(matchOffer, 8, {string, regexp}, array)
  <2> DEFINE e == Method("match", string, {regexp}, {}, array)
  <2>1. /\ Builders[8].name = "String"
        /\ Builders[8].funcs = Weighted(StringFunctionDsps, StringFunctionWeight)
    BY <1>1, <1>2 DEF StringBuilder, Builtin
  <2>2. /\ e \in StringFunctionDsps /\ e.op \in StringFunctionWeight
        /\ e.on = string /\ e.must = {regexp} /\ e.may = {} /\ e.gives = array
    BY DEF StringFunctionDsps, StringFunctionWeight, Method
  <2>3. matchOffer = Offer("String", e) /\ matchOffer.dsp = e
    BY DEF matchOffer, Offer
  <2> HIDE DEF e
  <2> QED
    BY <1>3, <2>1, <2>2, <2>3 DEF EntryOf, Dsps, Weighted, Needs, Unchecked
<1>6. EntryOf(entriesOffer, 10, {array}, iterator)
  <2> DEFINE e == Method("entries", array, {}, {}, iterator)
  <2>1. /\ Builders[10].name = "Array"
        /\ Builders[10].funcs = Weighted(ArrayFunctionDsps, ArrayFunctionWeight)
    BY <1>1, <1>2 DEF ArrayBuilder, Builtin
  <2>2. /\ e \in ArrayFunctionDsps /\ e.op \in ArrayFunctionWeight
        /\ e.on = array /\ e.must = {} /\ e.may = {} /\ e.gives = iterator
    BY DEF ArrayFunctionDsps, ArrayFunctionWeight, Method
  <2>3. entriesOffer = Offer("Array", e) /\ entriesOffer.dsp = e
    BY DEF entriesOffer, Offer
  <2> HIDE DEF e
  <2> QED
    BY <1>3, <2>1, <2>2, <2>3 DEF EntryOf, Dsps, Weighted, Needs, Unchecked
<1>7. EntryOf(bufferOffer, 11, {typedarray}, arraybuffer)
  <2> DEFINE e == Property("buffer", typedarray, arraybuffer)
  <2>1. /\ Builders[11].name = "TypedArray"
        /\ Builders[11].props = Weighted(TypedArrayPropertyDsps, TypedArrayProepertyWeight)
    BY <1>1, <1>2 DEF TypedArrayBuilder, Builtin
  <2>2. /\ e \in TypedArrayPropertyDsps /\ e.op \in TypedArrayProepertyWeight
        /\ e.on = typedarray /\ e.must = {} /\ e.may = {} /\ e.gives = arraybuffer
    BY DEF TypedArrayPropertyDsps, TypedArrayProepertyWeight, Property, Method
  <2>3. bufferOffer = Offer("TypedArray", e) /\ bufferOffer.dsp = e
    BY DEF bufferOffer, Offer
  <2> HIDE DEF e
  <2> QED
    BY <1>3, <2>1, <2>2, <2>3 DEF EntryOf, Dsps, Weighted, Needs, Unchecked
<1>8. EntryOf(ofOffer, 26, {Ctor("TypedArray"), number}, typedarray)
  <2> DEFINE e == Method("of", Ctor("TypedArray"), {number}, {}, typedarray)
  <2>1. /\ Builders[26].name = "TypedArrayCtor"
        /\ Builders[26].funcs = Weighted(TypedArrayConstructorFunctionDsps,
                                         TypedArrayConstructorFunctionWeight)
    BY <1>1, <1>2 DEF TypedArrayCtorBuilder, Builtin
  <2>2. /\ e \in TypedArrayConstructorFunctionDsps
        /\ e.op \in TypedArrayConstructorFunctionWeight
        /\ e.on = Ctor("TypedArray") /\ e.must = {number} /\ e.may = {}
        /\ e.gives = typedarray
    BY DEF TypedArrayConstructorFunctionDsps,
       TypedArrayConstructorFunctionWeight, Method
  <2>3. ofOffer = Offer("TypedArrayCtor", e) /\ ofOffer.dsp = e
    BY DEF ofOffer, Offer
  <2> HIDE DEF e
  <2> QED
    BY <1>3, <2>1, <2>2, <2>3 DEF EntryOf, Dsps, Weighted, Needs, Unchecked
<1> QED
  BY <1>4, <1>5, <1>6, <1>7, <1>8

(* ImportNext imports whatever of its builder is supported.                *)
LEMMA Takes ==
    ASSUME pc = "loop", Basic \subseteq BaseTypes(offers), ImportNext, NEW w,
           NEW d \in Dsps(Builders[turn]), Entry(Builders[turn], d, w),
           w = {} \/ isTypeSupported(w, BaseTypes(offers))
    PROVE  Offer(Builders[turn].name, d) \in offers'
<1> DEFINE b == Builders[turn]
           props == Importable(b.name, b.props, offers)
           funcs == Importable(b.name, b.funcs, offers \cup props)
<1>1. offers' = offers \cup props \cup funcs
  BY DEF ImportNext
<1> HIDE DEF b
<1>2. CASE d \in b.props
  <2>1. Offer(b.name, d) \in offers \cup props
    BY <1>2, ImportsIt DEF b
  <2> QED
    BY <1>1, <2>1 DEF b
<1>3. CASE d \in b.funcs
  <2> HIDE DEF props
  <2>1. /\ Basic \subseteq BaseTypes(offers \cup props)
        /\ w = {} \/ isTypeSupported(w, BaseTypes(offers \cup props))
    BY BasesAre, SupportGrows
  <2>2. Offer(b.name, d) \in (offers \cup props) \cup funcs
    BY <1>3, <2>1, ImportsIt DEF b
  <2> QED
    BY <1>1, <2>2 DEF b
<1> QED
  BY <1>2, <1>3 DEF Dsps, b

(* The same for an offer all of whose needs are supported.                 *)
LEMMA TakesReady ==
    ASSUME pc = "loop", ImportNext, NEW o, NEW k, turn = k, NEW needs, NEW gives,
           EntryOf(o, k, needs, gives),
           \A t \in needs : isTypeSupported(t, BaseTypes(offers))
    PROVE  o \in offers'
<1> DEFINE b == Builders[turn]
           props == Importable(b.name, b.props, offers)
           funcs == Importable(b.name, b.funcs, offers \cup props)
<1>1. offers' = offers \cup props \cup funcs
  BY DEF ImportNext
<1>2. /\ o = Offer(b.name, o.dsp) /\ o.dsp \in b.props \cup b.funcs
      /\ \A t \in Needs(b.name, o.dsp) :
            isTypeSupported(t, BaseTypes(offers))
            /\ isTypeSupported(t, BaseTypes(offers \cup props))
  <2> HIDE DEF props
  <2> QED
    BY BasesAre, SupportGrows DEF EntryOf, Dsps
<1> QED
  BY <1>1, <1>2 DEF Importable

(* It imports nothing scarce: only what needs a scarce type gives one.     *)
LEMMA TakesNothingScarce ==
    ASSUME NEW b, NEW w, Uniform(b, w), Wanted(w), NEW dsps \in SUBSET Dsps(b),
           NEW A, Basic \subseteq BaseTypes(A), BaseTypes(A) \cap Scarce \subseteq VarBases
    PROVE  BaseTypes(A \cup Importable(b.name, dsps, A)) \cap Scarce \subseteq VarBases
<1> DEFINE new == Importable(b.name, dsps, A)
<1> SUFFICES ASSUME NEW x \in BaseTypes(new), x \in Scarce PROVE x \in VarBases
  BY BasesAre
<1>1. PICK o \in new : x \in Key(o.dsp.gives)
  BY BasesAre
<1>2. PICK d \in dsps : /\ o.dsp = d
                        /\ \A t \in Needs(b.name, d) : isTypeSupported(t, BaseTypes(A))
  BY ImportedIs
<1>3. PICK v \in {w, {}} : Entry(b, d, v)
  BY DEF Uniform
<1>4. ~Ordinary(d.gives)
  BY <1>1, <1>2 DEF Ordinary
<1>5. d.gives = v
  BY <1>3, <1>4 DEF Entry
<1>6. v \in Lasting
  <2>1. Ordinary({}) /\ Ordinary(array) /\ Ordinary(typedarray) /\ Ordinary(iterator)
        /\ Ordinary(arraybuffer)
    BY OrdinaryTypes, KeysAre DEF Ordinary
  <2> QED
    BY <1>4, <1>5, <2>1 DEF Wanted
<1>7. PICK y : Key(v) = {y} /\ \A X : isTypeSupported(v, X) => y \in X
  BY <1>6, SupportIs
<1>8. v # {}
  BY <1>7, KeysAre
<1>9. isTypeSupported(v, BaseTypes(A))
  BY <1>2, <1>3, <1>8 DEF Entry
<1> QED
  BY <1>1, <1>2, <1>5, <1>7, <1>9

LEMMA LiteralBases ==
    ASSUME NEW A, Literals \subseteq A,
           Offer("Literal", Operator("BuiltinConstructor", {}, Ctor("Number"))) \in A
    PROVE  Basic \subseteq BaseTypes(A)
<1> DEFINE lit(op, t) == Offer("Literal", Operator(op, {}, t))
<1>1. \A op, t : lit(op, t).dsp.gives = t
  BY DEF Offer, Operator, Method
<1>2. /\ lit("Boolean", boolean) \in Literals /\ lit("String", string) \in Literals
      /\ lit("Number", number) \in Literals /\ lit("Null", null) \in Literals
      /\ lit("RegExp", regexp) \in Literals /\ lit("Math", math) \in Literals
  BY DEF Literals, Weighted, LiteralDsps, LiteralWeight, Operator, Method
<1>3. lit("BuiltinConstructor", Ctor("Number")) \in A
  OBVIOUS
<1> HIDE DEF lit
<1>4. /\ Key(boolean) = {"boolean"} /\ Key(string) = {"string"} /\ Key(number) = {"number"}
      /\ Key(null) = {"null"} /\ Key(regexp) = {"regexp"} /\ Key(math) = {"math"}
      /\ Key(Ctor("Number")) = {"constructor"}
  BY KeysAre DEF boolean, string, number, null, regexp, math
<1>5. \A op, t, x : lit(op, t) \in A /\ Key(t) = {x} => x \in BaseTypes(A)
  BY <1>1, BasesAre
<1>6. /\ lit("Boolean", boolean) \in A /\ lit("String", string) \in A
      /\ lit("Number", number) \in A /\ lit("Null", null) \in A
      /\ lit("RegExp", regexp) \in A /\ lit("Math", math) \in A
  BY <1>2
<1>7. /\ "boolean" \in BaseTypes(A) /\ "string" \in BaseTypes(A)
      /\ "number" \in BaseTypes(A) /\ "null" \in BaseTypes(A)
      /\ "regexp" \in BaseTypes(A) /\ "math" \in BaseTypes(A)
      /\ "constructor" \in BaseTypes(A)
  BY <1>3, <1>4, <1>5, <1>6
<1> QED
  BY <1>7 DEF Basic

LEMMA LiteralsStep == ContextInv /\ ImportLiterals => (Founded /\ Marked /\ Closing)'
<1> SUFFICES ASSUME ContextInv, ImportLiterals PROVE (Founded /\ Marked /\ Closing)'
  OBVIOUS
<1>1. /\ pc = "literals" /\ pc' = "bindings" /\ offers = {} /\ ctors' = ctors
      /\ variables' = variables /\ turn' = turn
      /\ offers' = Importable("Literal", Weighted(LiteralDsps, LiteralWeight), offers)
  BY DEF ImportLiterals, ContextInv, Provided
<1>2. \A o \in offers' : o.builder = "Literal" /\ o.dsp \in LiteralDsps
  <2> TAKE o \in offers'
  <2>1. PICK d \in Weighted(LiteralDsps, LiteralWeight) : o = Offer("Literal", d)
    BY <1>1, ImportedIs
  <2> QED
    BY <2>1 DEF Offer, Weighted
<1>3. BaseTypes(offers') \cap Scarce = {}
  <2>1. \A d \in LiteralDsps : Ordinary(d.gives)
    BY OrdinaryTypes DEF LiteralDsps, Operator, Method
  <2>2. \A x \in BaseTypes(offers') : \E o \in offers' : x \in Key(o.dsp.gives)
    BY BasesAre
  <2> QED
    BY <1>2, <2>1, <2>2 DEF Ordinary
<1> QED
  BY <1>1, <1>2, <1>3 DEF ContextInv, Founded, Marked, Closing

LEMMA BindingsStep == ContextInv /\ ImportBindings => (Founded /\ Marked /\ Closing)'
<1> SUFFICES ASSUME ContextInv, ImportBindings PROVE (Founded /\ Marked /\ Closing)'
  OBVIOUS
<1> DEFINE new == {Offer("Variable", Operator("var", {}, t)) : t \in variables'}
<1>1. /\ pc = "bindings" /\ pc' = "constructors" /\ variables = {} /\ turn' = turn
      /\ ctors' = ctors \cup ConstructorsOf(variables') /\ offers' = offers \cup new
  BY DEF ImportBindings, ContextInv, Early
<1>2. \A t : /\ Offer("Variable", Operator("var", {}, t)).dsp.gives = t
             /\ Offer("Variable", Operator("var", {}, t)).builder = "Variable"
  BY DEF Offer, Operator, Method
<1>3. \A o \in offers' : o.builder \in {"Literal", "Variable"}
  BY <1>1, <1>2 DEF ContextInv, Founded
<1>4. BaseTypes(new) = VarBases'
  <2>1. VarBases' = UNION {Key(t) : t \in variables'}
    BY DEF VarBases
  <2>2. ASSUME NEW x \in BaseTypes(new) PROVE x \in VarBases'
    BY <1>2, <2>1, <2>2, BasesAre
  <2>3. ASSUME NEW t \in variables', NEW x \in Key(t) PROVE x \in BaseTypes(new)
    <3>1. Offer("Variable", Operator("var", {}, t)) \in new
      OBVIOUS
    <3> QED
      BY <1>2, <3>1, BasesAre
  <2> QED
    BY <2>1, <2>2, <2>3
<1> HIDE DEF new
<1>5. VarBases = {}
  BY <1>1 DEF VarBases
<1>6. BaseTypes(offers') = BaseTypes(offers) \cup VarBases'
  BY <1>1, <1>4, BasesAre
<1>7. BaseTypes(offers) \cap Scarce = {}
  BY <1>1, <1>5 DEF ContextInv, Founded
<1>8. "Number" \in ctors' /\ ctors' \subseteq DOMAIN CtorBuilderOf
  <2>1. ctors \subseteq DOMAIN CtorBuilderOf /\ "Number" \in ctors
    BY DEF ContextInv, Founded
  <2>2. ConstructorsOf(variables') \subseteq DOMAIN CtorBuilderOf
    BY DEF ConstructorsOf, constructorTypes, NotInterestingCtors, CtorBuilderOf
  <2> QED
    BY <1>1, <2>1, <2>2
<1> QED
  BY <1>1, <1>3, <1>6, <1>7, <1>8 DEF ContextInv, Founded, Marked, Closing

LEMMA ConstructorsStep == ContextInv /\ AddConstructors => (Founded /\ Marked /\ Closing)'
<1> SUFFICES ASSUME ContextInv, AddConstructors PROVE (Founded /\ Marked /\ Closing)'
  OBVIOUS
<1> DEFINE lit(c) == Offer("Literal", Operator("BuiltinConstructor", {}, Ctor(c)))
           new == {lit(c) : c \in ctors}
<1>1. /\ pc = "constructors" /\ pc' = "loop" /\ variables' = variables
      /\ ctors' = ctors /\ offers' = offers \cup new /\ turn = 1 /\ turn' = 1
  BY DEF AddConstructors, ContextInv, Founded
<1>2. \A c : lit(c).dsp.gives = Ctor(c) /\ lit(c).builder = "Literal"
  BY DEF Offer, Operator, Method
<1>3. Basic \subseteq BaseTypes(offers')
  <2>1. Literals \subseteq offers' /\ lit("Number") \in offers'
    BY <1>1 DEF ContextInv, Provided, Founded
  <2> QED
    BY <2>1, LiteralBases
<1>4. BaseTypes(new) \cap Scarce = {}
  <2>1. \A x \in BaseTypes(new) : \E o \in new : x \in Key(o.dsp.gives)
    BY BasesAre
  <2>2. \A o \in new : Ordinary(o.dsp.gives)
    BY <1>2, OrdinaryTypes
  <2> QED
    BY <2>1, <2>2 DEF Ordinary
<1>5. plusOffer \notin offers'
  <2>1. \A o \in offers' : o.builder \in {"Literal", "Variable"}
    BY <1>1, <1>2 DEF ContextInv, Founded
  <2>2. plusOffer.builder = "BinaryExpression"
    BY DEF plusOffer, Offer
  <2> QED
    BY <2>1, <2>2
<1> HIDE DEF new
<1>6. /\ BaseTypes(offers') = BaseTypes(offers) \cup BaseTypes(new)
      /\ VarBases' = VarBases
  BY <1>1, BasesAre DEF VarBases
<1>7. /\ VarBases \subseteq BaseTypes(offers) /\ BaseTypes(offers) \cap Scarce \subseteq VarBases
      /\ "Number" \in ctors /\ ctors \subseteq DOMAIN CtorBuilderOf
  BY <1>1 DEF ContextInv, Founded
<1>8. plusOffer' = plusOffer
  BY DEF plusOffer
<1>9. Founded'
  BY <1>1, <1>3, <1>4, <1>6, <1>7 DEF Founded
<1>10. ~Late'
  BY <1>5, <1>8 DEF Late
<1> QED
  BY <1>1, <1>9, <1>10 DEF Marked, Closing

LEMMA RoundStep == ContextInv /\ GoRound => (Founded /\ Marked /\ Closing)'
<1> SUFFICES ASSUME ContextInv, GoRound PROVE (Founded /\ Marked /\ Closing)'
  OBVIOUS
<1>1. /\ pc = "loop" /\ turn = 34 /\ turn' = 1 /\ updated' = FALSE
      /\ pc' = IF updated THEN "loop" ELSE "declarations"
      /\ variables' = variables /\ ctors' = ctors /\ offers' = offers
  BY BuildersAre DEF GoRound, Again, ContextInv, TypeOK
<1>2. /\ plusOffer \in offers /\ matchOffer \in offers /\ entriesOffer \in offers
      /\ ofOffer \in offers
  BY <1>1 DEF ContextInv, Marked
<1>3. VarBases' = VarBases /\ \A k : Settled(k)' = Settled(k)
  BY <1>1 DEF VarBases, Settled, Lasts
<1>4. pc' = "declarations" => \A k \in 1..33 : Settled(k)
  BY <1>1, <1>2 DEF ContextInv, Closing, Late
<1> QED
  BY <1>1, <1>2, <1>3, <1>4 DEF ContextInv, Founded, Marked, Closing

LEMMA NextStep == ContextInv /\ ImportNext => (Founded /\ Marked /\ Closing)'
<1> SUFFICES ASSUME ContextInv, ImportNext PROVE (Founded /\ Marked /\ Closing)'
  OBVIOUS
<1> DEFINE b == Builders[turn]
           props == Importable(b.name, b.props, offers)
           funcs == Importable(b.name, b.funcs, offers \cup props)
<1>1. /\ pc = "loop" /\ pc' = "loop" /\ turn \in 1..33 /\ turn' = turn + 1
      /\ offers' = offers \cup props \cup funcs /\ offers \subseteq offers'
      /\ updated' = (updated \/ (turn <= 5 /\ props # {}))
      /\ variables' = variables /\ ctors' = ctors
  <2>1. Len(Expressions) = 5
    BY DEF Expressions
  <2> QED
    BY <2>1, BuildersAre DEF ImportNext, ContextInv, TypeOK
<1>2. /\ Basic \subseteq BaseTypes(offers) /\ VarBases \subseteq BaseTypes(offers)
      /\ BaseTypes(offers) \cap Scarce \subseteq VarBases
      /\ "Number" \in ctors /\ ctors \subseteq DOMAIN CtorBuilderOf
  BY <1>1 DEF ContextInv, Founded
<1>3. PICK w : Uniform(b, w) /\ Wanted(w) /\ (turn <= 11 => w # arraybuffer)
  BY <1>1, AllSuited DEF Suited
<1>4. b.props \in SUBSET Dsps(b) /\ b.funcs \in SUBSET Dsps(b)
  BY DEF Dsps
<1>5. BaseTypes(offers) \subseteq BaseTypes(offers')
  <2>1. offers' = offers \cup (props \cup funcs)
    BY <1>1
  <2> QED
    BY <2>1, BasesAre
<1>6. \A t \in {string, regexp, number, number \cup string, Ctor("TypedArray")} :
          isTypeSupported(t, BaseTypes(offers))
  BY <1>2, ReadyTypes, SupportGrows DEF Ready
<1>7. \A o \in offers : o.dsp.gives \in {array, typedarray, iterator, arraybuffer}
                          => isTypeSupported(o.dsp.gives, BaseTypes(offers))
  <2> SUFFICES ASSUME NEW o \in offers,
                      o.dsp.gives \in {array, typedarray, iterator, arraybuffer}
               PROVE  isTypeSupported(o.dsp.gives, BaseTypes(offers))
    OBVIOUS
  <2>1. PICK x : Key(o.dsp.gives) = {x}
    BY SupportIs
  <2>2. x \in BaseTypes(offers)
    BY <2>1, BasesAre
  <2> QED
    BY <2>1, <2>2, SupportIs
<1>8. Founded'
  <2>1. BaseTypes(offers') \cap Scarce \subseteq VarBases
    <3>1. BaseTypes(offers \cup props) \cap Scarce \subseteq VarBases
      BY <1>2, <1>3, <1>4, TakesNothingScarce
    <3>2. Basic \subseteq BaseTypes(offers \cup props)
      BY <1>2, BasesAre
    <3> HIDE DEF b, props
    <3>3. BaseTypes((offers \cup props) \cup funcs) \cap Scarce \subseteq VarBases
      BY <1>3, <1>4, <3>1, <3>2, TakesNothingScarce
    <3> QED
      BY <1>1, <3>3
  <2>2. VarBases' = VarBases
    BY <1>1 DEF VarBases
  <2> QED
    BY <1>1, <1>2, <1>5, <2>1, <2>2 DEF Founded
<1> HIDE DEF funcs
<1>9. Late' => Late
  <2> HIDE DEF b, props
  <2>1. plusOffer' = plusOffer
    BY DEF plusOffer
  <2> SUFFICES ASSUME plusOffer \in offers', turn + 1 <= 2 \/ ~updated'
               PROVE  Late
    BY <1>1, <2>1 DEF Late
  <2>2. turn > 1 => ~updated /\ ~(turn <= 5 /\ props # {})
    <3> SUFFICES ASSUME turn > 1
                 PROVE  ~updated /\ ~(turn <= 5 /\ props # {})
      OBVIOUS
    <3>1. ~(turn + 1 <= 2)
      BY <1>1
    <3>2. ~updated'
      BY <3>1, Zenon
    <3>3. updated' = (updated \/ (turn <= 5 /\ props # {}))
      BY <1>1
    <3> QED
      BY <3>2, <3>3, Zenon
  <2>3. CASE turn = 1
    <3>1. \A o \in props \cup funcs : o.builder = "MemberExpression"
      <4>1. b.name = "MemberExpression"
        BY <2>3, BuildersAre DEF b, Expressions, Expression, Builtin
      <4> QED
        BY <4>1 DEF props, funcs, Importable, Offer
    <3>2. plusOffer.builder = "BinaryExpression"
      BY DEF plusOffer, Offer
    <3> QED
      BY <1>1, <2>3, <3>1, <3>2 DEF Late
  <2>4. CASE turn = 2
    <3>1. props = {}
      <4>1. turn > 1 /\ turn <= 5
        BY <2>4
      <4> QED
        BY <2>2, <4>1, Zenon
    <3>2. /\ plusOffer = Offer(b.name, plusOffer.dsp) /\ plusOffer.dsp \in b.props
          /\ Needs(b.name, plusOffer.dsp) = {number \cup string}
      BY <2>4, Milestones DEF b, EntryOf
    <3>3. plusOffer \in offers
      <4>1. \A type \in Needs(b.name, plusOffer.dsp) :
                isTypeSupported(type, BaseTypes(offers))
        BY <1>6, <3>2
      <4>2. plusOffer \in {Offer(b.name, d) : d \in b.props}
        BY <3>2
      <4>3. plusOffer.dsp = plusOffer.dsp /\ plusOffer \notin props
        BY <3>1
      <4> QED
        BY <4>1, <4>2, <4>3 DEF props, Importable
    <3> QED
      BY <2>4, <3>3 DEF Late
  <2>5. CASE turn > 2
    <3>1. ~updated
      <4>1. turn > 1
        BY <1>1, <2>5
      <4> QED
        BY <2>2, <4>1, Zenon
    <3>2. plusOffer \in offers
      BY <1>1, <2>5 DEF ContextInv, Marked
    <3> QED
      BY <3>1, <3>2, Zenon DEF Late
  <2> QED
    BY <1>1, <2>3, <2>4, <2>5
<1>10. Marked'
  <2>1. turn = 2 => plusOffer \in offers'
    <3> SUFFICES ASSUME turn = 2 PROVE plusOffer \in offers'
      OBVIOUS
    <3>1. PICK needs, gives : /\ EntryOf(plusOffer, 2, needs, gives)
                              /\ needs = {number \cup string}
      BY Milestones
    <3>2. \A t \in needs : isTypeSupported(t, BaseTypes(offers))
      BY <1>6, <3>1
    <3> QED
      BY <1>1, <3>1, <3>2, TakesReady
  <2>2. turn = 8 => matchOffer \in offers'
    BY <1>1, <1>6, Milestones, TakesReady
  <2>3. turn = 10 => entriesOffer \in offers'
    <3> SUFFICES ASSUME turn = 10 PROVE entriesOffer \in offers'
      OBVIOUS
    <3>1. matchOffer \in offers
      BY <1>1 DEF ContextInv, Marked
    <3>2. isTypeSupported(array, BaseTypes(offers))
      BY <1>7, <3>1, Milestones DEF EntryOf
    <3> QED
      BY <1>1, <3>2, Milestones, TakesReady
  <2>4. turn = 11 /\ Late => bufferOffer \in offers'
    <3> SUFFICES ASSUME turn = 11, Late PROVE bufferOffer \in offers'
      OBVIOUS
    <3>1. ofOffer \in offers
      BY <1>1 DEF ContextInv, Marked
    <3>2. isTypeSupported(typedarray, BaseTypes(offers))
      BY <1>7, <3>1, Milestones DEF EntryOf
    <3> QED
      BY <1>1, <3>2, Milestones, TakesReady
  <2>5. turn = 26 => ofOffer \in offers'
    BY <1>1, <1>6, Milestones, TakesReady
  <2>6. /\ turn > 2 => plusOffer \in offers'
        /\ turn > 8 \/ Late => matchOffer \in offers'
        /\ turn > 10 \/ Late => entriesOffer \in offers'
        /\ turn > 11 /\ Late => bufferOffer \in offers'
        /\ turn > 26 \/ Late => ofOffer \in offers'
    BY <1>1 DEF ContextInv, Marked
  <2>7. /\ plusOffer' = plusOffer /\ matchOffer' = matchOffer
        /\ entriesOffer' = entriesOffer /\ bufferOffer' = bufferOffer
        /\ ofOffer' = ofOffer
    BY DEF plusOffer, matchOffer, entriesOffer, bufferOffer, ofOffer
  <2> QED
    BY <1>1, <1>9, <2>1, <2>2, <2>3, <2>4, <2>5, <2>6, <2>7 DEF Marked
<1>11. Closing'
  <2> SUFFICES ASSUME Late', NEW k \in 1..33, k <= turn PROVE Settled(k)'
    BY <1>1 DEF Closing
  <2>1. Late /\ \A v : Lasts(v)' = Lasts(v)
    BY <1>1, <1>9 DEF Lasts, VarBases
  <2>2. CASE k < turn
    <3>1. Settled(k)
      BY <1>1, <2>1, <2>2 DEF ContextInv, Closing
    <3> QED
      BY <1>1, <2>1, <3>1 DEF Settled
  <2>3. CASE k = turn
    <3>1. /\ matchOffer \in offers /\ entriesOffer \in offers /\ ofOffer \in offers
          /\ turn > 11 => bufferOffer \in offers
      BY <1>1, <2>1 DEF ContextInv, Marked
    <3>2. /\ isTypeSupported(array, BaseTypes(offers))
          /\ isTypeSupported(iterator, BaseTypes(offers))
          /\ isTypeSupported(typedarray, BaseTypes(offers))
          /\ turn > 11 => isTypeSupported(arraybuffer, BaseTypes(offers))
      BY <1>7, <3>1, Milestones DEF EntryOf
    <3>3. ASSUME NEW v \in {w, {}}, Lasts(v)
          PROVE  v = {} \/ isTypeSupported(v, BaseTypes(offers))
      <4>1. ASSUME v \in Lasting, Key(v) \subseteq VarBases
            PROVE  isTypeSupported(v, BaseTypes(offers))
        <5>1. PICK x : Key(v) = {x}
          BY <4>1, SupportIs
        <5> QED
          BY <1>2, <4>1, <5>1, SupportIs
      <4>2. Ready(v) => isTypeSupported(v, BaseTypes(offers))
        BY <1>2, SupportGrows DEF Ready
      <4>3. v = arraybuffer => turn > 11
        <5>1. arraybuffer # {}
          BY TypesAreGiven
        <5> QED
          BY <1>1, <1>3, <5>1
      <4> QED
        BY <3>2, <3>3, <4>1, <4>2, <4>3 DEF Lasts
    <3>4. ASSUME NEW d \in Dsps(b), NEW v \in {w, {}}, Entry(b, d, v), Lasts(v)
          PROVE  Offer(b.name, d) \in offers'
      BY <1>1, <1>2, <3>3, <3>4, Takes
    <3> QED
      BY <1>3, <2>1, <2>3, <3>4 DEF Settled
  <2> QED
    BY <1>1, <2>2, <2>3
<1> QED
  BY <1>8, <1>10, <1>11

(* When the context is built no rule is left that could be imported,       *)
(* whatever is in scope: the loop ends when the expressions have nothing   *)
(* new, and by then the other builders have nothing new either.            *)
THEOREM ContextAlwaysClosed == BuilderSpec => []ContextIsClosed
<1>1. BuilderInit => ContextInv
  <2> SUFFICES ASSUME BuilderInit PROVE ContextInv
    OBVIOUS
  <2>1. TypeOK /\ Early /\ Provided
    BY ContextInit DEF BuilderInit, Init, Provided
  <2>2. Founded
    <3>1. BaseTypes({}) = {}
      BY BasesAre
    <3> QED
      BY <3>1 DEF BuilderInit, Init, Founded, CtorBuilderOf
  <2> QED
    BY <2>1, <2>2 DEF BuilderInit, Init, ContextInv, Marked, Closing
<1>2. ContextInv /\ [BuilderNext]_<<vars, builderVars>> => ContextInv'
  <2> SUFFICES ASSUME ContextInv, [BuilderNext]_<<vars, builderVars>> PROVE ContextInv'
    OBVIOUS
  <2>1. [Next]_vars
    BY DEF BuilderNext
  <2>2. TypeOK' /\ Early' /\ Provided'
    BY <2>1, ContextTyped, Provides DEF ContextInv
  <2>3. (Founded /\ Marked /\ Closing)'
    <3>1. CASE ImportDeclarations
      BY <3>1 DEF ImportDeclarations, ContextInv, Founded, Marked, Closing
    <3>2. CASE UNCHANGED vars
      BY <3>2
         DEF vars, ContextInv, Founded, Marked, Closing, Late, VarBases, Settled, Lasts
    <3> QED
      BY <2>1, <3>1, <3>2, LiteralsStep, BindingsStep, ConstructorsStep,
         NextStep, RoundStep
         DEF Next
  <2> QED
    BY <2>2, <2>3 DEF ContextInv
<1> QED
  BY <1>1, <1>2, ClosedThen, PTL DEF BuilderSpec
=============================================================================
