----------------------------- MODULE Types_proofs -----------------------------
(***************************************************************************)
(* The types of a test case, for every program: as infer() leaves them in  *)
(* the tree and as Parse() reads them again (TypedAST), and, at the end,   *)
(* with the files of fuzz_inputs that hold them, for every number of test  *)
(* cases and rounds, wherever esfuzz is killed (FuzzInputs).               *)
(***************************************************************************)
EXTENDS TypedAST, FuzzInputs, FiniteSetTheorems, SequenceTheorems, WellFoundedInduction, TLAPS

(***************************************************************************)
(* Sequences, and the places that elements have in a set.                  *)
(***************************************************************************)
LEMMA LeastExists ==
    ASSUME NEW S, S \subseteq Nat, S # {}
    PROVE  \E k \in S : \A j \in S : k <= j
  <1>1. PICK x \in S : \A y \in S : ~(<<y, x>> \in OpToRel(<, Nat))
    BY WFMin, NatLessThanWellFounded
  <1>2. \A y \in S : ~(y < x)
    BY <1>1 DEF OpToRel
  <1> QED
    BY <1>2

LEMMA FrontDef ==
    ASSUME NEW S, NEW s \in Seq(S), s # << >>
    PROVE  /\ Front(s) \in Seq(S) /\ Len(s) \in Nat \ {0}
           /\ Len(Front(s)) = Len(s) - 1
           /\ \A n \in 1..Len(s) - 1 : Front(s)[n] = s[n]
           /\ Last(s) = s[Len(s)] /\ Last(s) \in S
  <1>1. Len(s) \in Nat /\ Len(s) # 0
    BY EmptySeq
  <1>2. \A n \in 1..Len(s) - 1 : s[n] \in S
    BY <1>1
  <1>3. /\ Front(s) \in Seq(S) /\ Len(Front(s)) = Len(s) - 1
        /\ \A n \in 1..Len(s) - 1 : Front(s)[n] = s[n]
    <2> DEFINE m == Len(s) - 1
    <2>1. m \in Nat /\ 1 \in Int /\ \A n \in 1..m : s[n] \in S
      BY <1>1, <1>2
    <2> HIDE DEF m
    <2>2. /\ SubSeq(s, 1, m) \in Seq(S)
          /\ Len(SubSeq(s, 1, m)) = IF 1 <= m THEN m - 1 + 1 ELSE 0
          /\ \A n \in 1..m - 1 + 1 : SubSeq(s, 1, m)[n] = s[1 + n - 1]
      BY <2>1, SubSeqProperties
    <2>3. /\ Len(SubSeq(s, 1, m)) = m
          /\ \A n \in 1..m : SubSeq(s, 1, m)[n] = s[n]
      BY <2>1, <2>2
    <2> QED
      BY <2>2, <2>3 DEF Front, m
  <1> QED
    BY <1>1, <1>3 DEF Last

(* The n-th element of a set of numbers.                                   *)
LEMMA NthExists ==
    ASSUME NEW S, S \subseteq Nat, IsFiniteSet(S), NEW n \in 1..Cardinality(S)
    PROVE  \E j \in S : Cardinality({i \in S : i <= j}) = n
  <1> DEFINE upto(j) == {i \in S : i <= j}
             rank == [j \in S |-> Cardinality(upto(j))]
             N == Cardinality(S)
  <1>1. N \in Nat
    BY FS_CardinalityType
  <1>2. ASSUME NEW j \in S
        PROVE  /\ IsFiniteSet(upto(j)) /\ Cardinality(upto(j)) \in 1..N
    <2>1. upto(j) \in SUBSET S /\ upto(j) # {}
      BY <1>2
    <2> HIDE DEF upto
    <2>2. IsFiniteSet(upto(j)) /\ Cardinality(upto(j)) <= N
      BY <2>1, FS_Subset
    <2>3. Cardinality(upto(j)) \in Nat /\ Cardinality(upto(j)) # 0
      BY <2>1, <2>2, FS_CardinalityType, FS_EmptySet
    <2> QED
      BY <1>1, <2>2, <2>3
  <1>3. ASSUME NEW j \in S, NEW k \in S, j < k
        PROVE  Cardinality(upto(j)) # Cardinality(upto(k))
    <2>1. j \in Nat /\ k \in Nat /\ \A i \in S : i \in Nat
      OBVIOUS
    <2>3. \A i \in S : i <= j => i <= k
      BY <1>3, <2>1
    <2>4. k <= k /\ ~(k <= j)
      BY <1>3, <2>1
    <2>5. upto(j) \subseteq upto(k)
      BY <2>3
    <2>6. k \in upto(k) /\ k \notin upto(j)
      BY <2>4
    <2>2. IsFiniteSet(upto(k))
      BY <1>2
    <2> HIDE DEF upto
    <2>7. upto(j) \in SUBSET upto(k) /\ upto(j) # upto(k)
      BY <2>5, <2>6
    <2> QED
      BY <2>2, <2>7, FS_Subset
  <1>4. rank \in Injection(S, 1..N)
    <2>1. rank \in [S -> 1..N]
      BY <1>2
    <2>2. \A j, k \in S : rank[j] = rank[k] => j = k
      <3>1. \A j, k \in S : j < k \/ k < j \/ j = k
        OBVIOUS
      <3> HIDE DEF upto
      <3> QED
        BY <1>3, <3>1
    <2> HIDE DEF rank, N
    <2> QED
      BY <2>1, <2>2 DEF Injection, IsInjective
  <1>5. IsFiniteSet(1..N) /\ Cardinality(1..N) = N
    BY <1>1, FS_Interval
  <1>6. rank \in Surjection(S, 1..N)
    <2> HIDE DEF rank
    <2> QED
      BY <1>4, <1>5, FS_Injection
  <1>7. PICK j \in S : rank[j] = n
    <2> HIDE DEF rank
    <2> QED
      BY <1>6 DEF Surjection
  <1> QED
    BY <1>7
-----------------------------------------------------------------------------
(***************************************************************************)
(* Types as trees.                                                         *)
(***************************************************************************)
IsType(type) == /\ type = [p \in DOMAIN type |-> type[p]]
                /\ DOMAIN type \subseteq Seq(Nat)
                /\ \A p \in DOMAIN type :
                       type[p] = [class |-> type[p].class, name |-> type[p].name]

LEMMA PathDef ==
    ASSUME NEW n \in Nat, NEW p \in Seq(Nat)
    PROVE  /\ <<n>> \o p \in Seq(Nat) /\ <<n>> \o p # << >>
           /\ Head(<<n>> \o p) = n /\ Tail(<<n>> \o p) = p
  <1>1. /\ <<n>> \in Seq(Nat) /\ Len(<<n>>) = 1
        /\ Len(p) \in Nat
    OBVIOUS
  <1> DEFINE s == <<n>> \o p
  <1>2. /\ s \in Seq(Nat) /\ Len(s) = 1 + Len(p)
        /\ \A i \in 1..1 + Len(p) : s[i] = IF i <= 1 THEN <<n>>[i] ELSE p[i - 1]
    BY <1>1, ConcatProperties
  <1> HIDE DEF s
  <1>3. s # << >>
    BY <1>1, <1>2
  <1>4. Head(s) = n
    BY <1>1, <1>2
  <1>5. /\ Tail(s) \in Seq(Nat) /\ Len(Tail(s)) = Len(p)
        /\ \A i \in 1..Len(p) : Tail(s)[i] = s[i + 1]
    BY <1>1, <1>2, <1>3, HeadTailProperties
  <1>6. \A i \in 1..Len(p) : Tail(s)[i] = p[i]
    BY <1>1, <1>2, <1>5
  <1>7. Tail(s) = p
    BY <1>5, <1>6, SeqEqual
  <1> QED
    BY <1>2, <1>3, <1>4, <1>7 DEF s

LEMMA PathParts ==
    ASSUME NEW p \in Seq(Nat), p # << >>
    PROVE  Head(p) \in Nat /\ Tail(p) \in Seq(Nat) /\ <<Head(p)>> \o Tail(p) = p
  <1> DEFINE h == Head(p)
             t == Tail(p)
             s == <<h>> \o t
  <1>1. Len(p) \in Nat /\ Len(p) # 0
    BY EmptySeq
  <1>2. /\ h \in Nat /\ t \in Seq(Nat) /\ Len(t) = Len(p) - 1
        /\ \A i \in 1..Len(t) : t[i] = p[i + 1]
    BY HeadTailProperties
  <1>3. h = p[1]
    BY <1>1
  <1> HIDE DEF h, t
  <1>4. <<h>> \in Seq(Nat) /\ Len(<<h>>) = 1 /\ <<h>>[1] = h
    BY <1>2
  <1>5. /\ s \in Seq(Nat) /\ Len(s) = 1 + Len(t)
        /\ \A i \in 1..1 + Len(t) : s[i] = IF i <= 1 THEN <<h>>[i] ELSE t[i - 1]
    BY <1>2, <1>4, ConcatProperties
  <1> HIDE DEF s
  <1>6. Len(s) = Len(p)
    BY <1>1, <1>2, <1>5
  <1>7. ASSUME NEW i \in 1..Len(p) PROVE s[i] = p[i]
    <2>1. CASE i = 1
      BY <1>1, <1>2, <1>3, <1>4, <1>5, <2>1
    <2>2. CASE i # 1
      <3>1. i - 1 \in 1..Len(t) /\ (i - 1) + 1 = i /\ i \in 1..1 + Len(t) /\ ~(i <= 1)
        BY <1>1, <1>2, <2>2
      <3> QED
        BY <1>2, <1>5, <3>1
    <2> QED
      BY <2>1, <2>2
  <1>8. s = p
    BY <1>5, <1>6, <1>7, SeqEqual
  <1> QED
    BY <1>2, <1>8 DEF h, t, s

LEMMA TypeDef ==
    ASSUME NEW class, NEW name, NEW parts, DOMAIN parts \subseteq Nat,
           \A n \in DOMAIN parts : IsType(parts[n])
    PROVE  /\ IsType(Type(class, name, parts))
           /\ << >> \in DOMAIN Type(class, name, parts)
           /\ Type(class, name, parts)[<< >>].class = class
           /\ \A n \in DOMAIN parts : Part(Type(class, name, parts), n) = parts[n]
  <1> DEFINE t == Type(class, name, parts)
             below(n) == {<<n>> \o q : q \in DOMAIN parts[n]}
             D == {<< >>} \cup UNION {below(n) : n \in DOMAIN parts}
  <1>1. DOMAIN t = D /\ t = [p \in D |-> t[p]]
    BY DEF Type
  <1>2. \A n \in DOMAIN parts : \A q \in DOMAIN parts[n] :
            /\ n \in Nat /\ q \in Seq(Nat)
            /\ <<n>> \o q \in Seq(Nat) /\ <<n>> \o q # << >>
            /\ Head(<<n>> \o q) = n /\ Tail(<<n>> \o q) = q
    BY PathDef DEF IsType
  <1>3. \A n \in DOMAIN parts : \A r \in below(n) :
            r \in D /\ r # << >> /\ Head(r) = n /\ r \in Seq(Nat)
    <2> SUFFICES ASSUME NEW n \in DOMAIN parts, NEW q \in DOMAIN parts[n]
                 PROVE  LET r == <<n>> \o q
                        IN  r \in D /\ r # << >> /\ Head(r) = n /\ r \in Seq(Nat)
      OBVIOUS
    <2>1. <<n>> \o q \in below(n)
      OBVIOUS
    <2> HIDE DEF below
    <2> QED
      BY <1>2, <2>1
  <1>8. D \subseteq Seq(Nat)
    <2>1. << >> \in Seq(Nat)
      OBVIOUS
    <2>2. \A n \in DOMAIN parts : below(n) \subseteq Seq(Nat)
      BY <1>3
    <2> HIDE DEF below
    <2> QED
      BY <2>1, <2>2
  <1>4. t[<< >>].class = class
    BY DEF Type
  <1>5. ASSUME NEW n \in DOMAIN parts PROVE Part(t, n) = parts[n]
    <2>1. {r \in DOMAIN t \ {<< >>} : Head(r) = n} = below(n)
      <3>1. \A r \in below(n) : r \in D /\ r # << >> /\ Head(r) = n
        BY <1>3
      <3>2. ASSUME NEW r \in D, r # << >>, Head(r) = n PROVE r \in below(n)
        <4>1. PICK m \in DOMAIN parts : r \in below(m)
          BY <3>2
        <4>2. Head(r) = m
          BY <1>3, <4>1
        <4> QED
          BY <3>2, <4>1, <4>2
      <3> HIDE DEF D, below, t
      <3> QED
        BY <1>1, <3>1, <3>2
    <2>2. {Tail(r) : r \in below(n)} = DOMAIN parts[n]
      BY <1>2
    <2>3. ASSUME NEW q \in DOMAIN parts[n] PROVE t[<<n>> \o q] = parts[n][q]
      <3>1. <<n>> \o q \in D
        BY <2>3
      <3> QED
        BY <1>2, <3>1, <2>3 DEF Type
    <2>4. Part(t, n) = [q \in DOMAIN parts[n] |-> t[<<n>> \o q]]
      <3> HIDE DEF t, below
      <3> QED
        BY <2>1, <2>2 DEF Part
    <2>5. parts[n] = [q \in DOMAIN parts[n] |-> parts[n][q]]
      BY DEF IsType
    <2> HIDE DEF t, D, below
    <2> QED
      BY <2>3, <2>4, <2>5
  <1>9. t[<< >>] = [class |-> t[<< >>].class, name |-> t[<< >>].name]
    BY DEF Type
  <1>10. ASSUME NEW r \in D PROVE t[r] = [class |-> t[r].class, name |-> t[r].name]
    <2>1. CASE r = << >>
      BY <1>9, <2>1
    <2>2. CASE r # << >>
      <3>1. PICK n \in DOMAIN parts : r \in below(n)
        BY <2>2
      <3>2. PICK q \in DOMAIN parts[n] : r = <<n>> \o q
        BY <3>1
      <3>3. t[r] = parts[n][q]
        BY <1>2, <1>10, <2>2, <3>2 DEF Type
      <3>4. parts[n][q] = [class |-> parts[n][q].class, name |-> parts[n][q].name]
        BY <3>2 DEF IsType
      <3> QED
        BY <3>3, <3>4
    <2> QED
      BY <2>1, <2>2
  <1> HIDE DEF D, below
  <1>6. IsType(t)
    BY <1>1, <1>8, <1>10 DEF IsType
  <1>7. << >> \in DOMAIN t
    BY <1>1 DEF D
  <1> QED
    BY <1>4, <1>5, <1>6, <1>7 DEF t

LEMMA PartTyped ==
    ASSUME NEW type, IsType(type), NEW n
    PROVE  IsType(Part(type, n))
  <1> DEFINE D == {Tail(q) : q \in {r \in DOMAIN type \ {<< >>} : Head(r) = n}}
  <1>1. ASSUME NEW p \in D PROVE p \in Seq(Nat) /\ <<n>> \o p \in DOMAIN type
    <2>1. PICK r \in DOMAIN type \ {<< >>} : Head(r) = n /\ p = Tail(r)
      BY <1>1
    <2>2. r \in Seq(Nat) /\ r # << >>
      BY <2>1 DEF IsType
    <2> QED
      BY <2>1, <2>2, PathParts
  <1>2. Part(type, n) = [p \in D |-> type[<<n>> \o p]]
    BY DEF Part
  <1> HIDE DEF D
  <1>3. /\ DOMAIN Part(type, n) = D
        /\ \A p \in D : Part(type, n)[p] = type[<<n>> \o p]
    BY <1>2
  <1>4. \A p \in D : Part(type, n)[p] = [class |-> Part(type, n)[p].class,
                                        name |-> Part(type, n)[p].name]
    BY <1>1, <1>3 DEF IsType
  <1>5. D \subseteq Seq(Nat)
    BY <1>1
  <1> QED
    BY <1>2, <1>3, <1>4, <1>5 DEF IsType

LEMMA ConsDef ==
    ASSUME NEW x, NEW n \in Nat, NEW args, args = [i \in 1..n |-> args[i]]
    PROVE  /\ DOMAIN (<<x>> \o args) = 1..n + 1
           /\ (<<x>> \o args)[1] = x
           /\ \A i \in 1..n : (<<x>> \o args)[i + 1] = args[i]
  <1> DEFINE S == {x} \cup {args[i] : i \in 1..n}
  <1>1. /\ args \in Seq(S) /\ Len(args) = n
    <2>1. args \in [1..n -> S]
      OBVIOUS
    <2> HIDE DEF S
    <2> QED
      BY <2>1
  <1>2. <<x>> \in Seq(S) /\ Len(<<x>>) = 1 /\ <<x>>[1] = x
    OBVIOUS
  <1> HIDE DEF S
  <1> DEFINE s == <<x>> \o args
  <1>3. /\ s \in Seq(S) /\ Len(s) = 1 + n
        /\ \A i \in 1..1 + n : s[i] = IF i <= 1 THEN <<x>>[i] ELSE args[i - 1]
    BY <1>1, <1>2, ConcatProperties
  <1> HIDE DEF s
  <1>4. DOMAIN s = 1..n + 1
    BY <1>3
  <1>5. s[1] = x
    <2>1. 1 \in 1..1 + n /\ 1 <= 1
      OBVIOUS
    <2>2. s[1] = <<x>>[1]
      BY <1>3, <2>1
    <2> QED
      BY <1>2, <2>2
  <1>6. ASSUME NEW i \in 1..n PROVE s[i + 1] = args[i]
    <2>1. i + 1 \in 1..1 + n /\ ~(i + 1 <= 1) /\ (i + 1) - 1 = i
      OBVIOUS
    <2> QED
      BY <1>3, <2>1
  <1> QED
    BY <1>4, <1>5, <1>6 DEF s

LEMMA UntypedTyped == IsType(Untyped)
  BY DEF IsType, Untyped

LEMMA SingletonTyped ==
    ASSUME NEW class, NEW name
    PROVE  /\ IsType(Type(class, name, << >>))
           /\ Type(class, name, << >>) # Untyped
           /\ Type(class, name, << >>)[<< >>].class = class
  <1>1. DOMAIN << >> = {}
    OBVIOUS
  <1>2. DOMAIN << >> \subseteq Nat /\ \A n \in DOMAIN << >> : IsType(<< >>[n])
    BY <1>1
  <1>3. /\ IsType(Type(class, name, << >>)) /\ << >> \in DOMAIN Type(class, name, << >>)
        /\ Type(class, name, << >>)[<< >>].class = class
    BY <1>2, TypeDef
  <1> QED
    BY <1>1, <1>3 DEF Untyped

(* What a function's type says that it returns.                            *)
LEMMA FunctionDef ==
    ASSUME NEW ret, IsType(ret),
           NEW n \in Nat, NEW args, args = [i \in 1..n |-> args[i]],
           \A i \in 1..n : IsType(args[i])
    PROVE  /\ IsType(FunctionType(ret, args)) /\ IsFunction(FunctionType(ret, args))
           /\ ret # Untyped => Ret(FunctionType(ret, args)) = ret
  <1> DEFINE first == IF ret = Untyped THEN anyType ELSE ret
             parts == <<first>> \o args
  <1>1. IsType(first)
    BY SingletonTyped DEF anyType, Singleton
  <1>2. /\ DOMAIN parts = 1..n + 1 /\ parts[1] = first
        /\ \A i \in 1..n : parts[i + 1] = args[i]
    BY ConsDef
  <1>3. FunctionType(ret, args) = Type("Function", "", parts)
    BY DEF FunctionType
  <1> HIDE DEF first, parts
  <1>4. \A i \in 1..n + 1 : IsType(parts[i])
    <2> SUFFICES ASSUME NEW i \in 1..n + 1 PROVE IsType(parts[i])
      OBVIOUS
    <2>1. CASE i = 1
      BY <1>1, <1>2, <2>1
    <2>2. CASE i # 1
      <3>1. i - 1 \in 1..n /\ (i - 1) + 1 = i
        BY <2>2
      <3>2. parts[i] = args[i - 1]
        BY <1>2, <3>1
      <3> QED
        BY <3>1, <3>2
    <2> QED
      BY <2>1, <2>2
  <1>5. /\ DOMAIN parts \subseteq Nat /\ 1 \in DOMAIN parts
        /\ \A i \in DOMAIN parts : IsType(parts[i])
    BY <1>2, <1>4
  <1>6. /\ IsType(Type("Function", "", parts))
        /\ << >> \in DOMAIN Type("Function", "", parts)
        /\ Type("Function", "", parts)[<< >>].class = "Function"
        /\ Part(Type("Function", "", parts), 1) = parts[1]
    <2>1. ASSUME NEW class, NEW name
          PROVE  /\ IsType(Type(class, name, parts))
                 /\ << >> \in DOMAIN Type(class, name, parts)
                 /\ Type(class, name, parts)[<< >>].class = class
                 /\ \A i \in DOMAIN parts : Part(Type(class, name, parts), i) = parts[i]
      BY <1>5, TypeDef
    <2> QED
      BY <1>5, <2>1
  <1>7. Type("Function", "", parts) # Untyped
    <2>1. DOMAIN << >> = {}
      OBVIOUS
    <2> QED
      BY <1>6, <2>1 DEF Untyped
  <1>8. ret # Untyped => parts[1] = ret
    BY <1>2 DEF first
  <1> QED
    <2>1. IsFunction(Type("Function", "", parts))
      BY <1>6, <1>7 DEF IsFunction
    <2>2. ret # Untyped => Ret(Type("Function", "", parts)) = ret
      BY <1>6, <1>8 DEF Ret
    <2> QED
      BY <1>3, <1>6, <2>1, <2>2

LEMMA WrappedTyped ==
    ASSUME NEW class, NEW name, NEW x, IsType(x)
    PROVE  IsType(Type(class, name, <<x>>))
  <1> DEFINE parts == <<x>>
  <1>1. DOMAIN parts = {1} /\ parts[1] = x
    OBVIOUS
  <1> HIDE DEF parts
  <1>2. DOMAIN parts \subseteq Nat /\ \A n \in DOMAIN parts : IsType(parts[n])
    BY <1>1
  <1>3. IsType(Type(class, name, parts))
    BY <1>2, TypeDef
  <1> QED
    BY <1>3 DEF parts

LEMMA NamedTypes ==
    /\ IsType(voidType) /\ IsType(anyType) /\ IsType(undefinedType)
    /\ IsType(numberType) /\ IsType(stringType) /\ IsType(mathType)
    /\ IsType(reflectType) /\ IsType(immutableType) /\ IsType(functionType)
    /\ IsType(MixedType(<<numberType, stringType>>))
    /\ IsType(FunctionType(stringType, <<numberType>>))
    /\ \A name : IsType(ConstructorType(name)) /\ IsType(PrototypeType(name))
                 /\ IsType(CustomType(name))
    /\ voidType # Untyped /\ ~IsFunction(voidType)
  <1>1. /\ IsType(voidType) /\ IsType(anyType) /\ IsType(undefinedType)
        /\ IsType(numberType) /\ IsType(stringType) /\ IsType(mathType)
        /\ IsType(reflectType) /\ IsType(immutableType)
    BY SingletonTyped DEF Singleton, voidType, anyType, undefinedType, numberType,
       stringType, mathType, reflectType, immutableType
  <1>2. \A name : IsType(ConstructorType(name)) /\ IsType(PrototypeType(name))
                  /\ IsType(CustomType(name))
    BY SingletonTyped DEF ConstructorType, PrototypeType, CustomType
  <1>3. ASSUME NEW ret, IsType(ret), NEW x, IsType(x)
        PROVE  IsType(FunctionType(ret, <<x>>))
    <2>1. <<x>> = [i \in 1..1 |-> <<x>>[i]] /\ \A i \in 1..1 : <<x>>[i] = x
      OBVIOUS
    <2> QED
      BY <1>3, <2>1, FunctionDef
  <1>4. IsType(functionType) /\ IsType(FunctionType(stringType, <<numberType>>))
    BY <1>1, <1>3, UntypedTyped DEF functionType
  <1>5. IsType(MixedType(<<numberType, stringType>>))
    <2> DEFINE parts == <<numberType, stringType>>
    <2>1. DOMAIN parts = 1..2 /\ parts[1] = numberType /\ parts[2] = stringType
      OBVIOUS
    <2> HIDE DEF parts
    <2>2. DOMAIN parts \subseteq Nat /\ \A i \in DOMAIN parts : IsType(parts[i])
      BY <1>1, <2>1
    <2> QED
      BY <2>2, TypeDef DEF MixedType, parts
  <1>6. voidType # Untyped /\ ~IsFunction(voidType)
    <2>1. voidType[<< >>].class = "Void" /\ voidType # Untyped
      BY SingletonTyped DEF voidType, Singleton
    <2> QED
      BY <2>1 DEF IsFunction
  <1> QED
    BY <1>1, <1>2, <1>4, <1>5, <1>6

LEMMA SingletonTypesTyped ==
    \A name \in DOMAIN singletonTypes : IsType(singletonTypes[name])
  <1>1. DOMAIN singletonTypes = {"any", "undefined", "number", "string", "function"}
    BY DEF singletonTypes
  <1>2. /\ singletonTypes["any"] = anyType /\ singletonTypes["undefined"] = undefinedType
        /\ singletonTypes["number"] = numberType /\ singletonTypes["string"] = stringType
        /\ singletonTypes["function"] = functionType
    BY DEF singletonTypes
  <1> QED
    BY <1>1, <1>2, NamedTypes

LEMMA SeenNodeTyped ==
    ASSUME NEW node, node.type = "array" => node.name \in {"number", "string", "any"}
    PROVE  IsType(json2node(node))
  <1>0. DOMAIN singletonTypes = {"any", "undefined", "number", "string", "function"}
    BY DEF singletonTypes
  <1>1. CASE node.type = "object"
    <2>1. json2node(node) = ObjectType(<< >>)
      BY <1>0, <1>1 DEF json2node
    <2> QED
      BY <2>1, SingletonTyped DEF ObjectType
  <1>2. CASE node.type = "pair"
    <2>1. json2node(node) = PairType(node.name, << >>)
      BY <1>0, <1>2 DEF json2node
    <2> QED
      BY <2>1, SingletonTyped DEF PairType
  <1>3. CASE node.type = "array"
    <2>1. node.name \in DOMAIN singletonTypes
      BY <1>3 DEF singletonTypes
    <2>2. IsType(ArrayType(singletonTypes[node.name]))
      BY <2>1, SingletonTypesTyped, WrappedTyped DEF ArrayType
    <2>3. json2node(node) = ArrayType(singletonTypes[node.name])
      BY <1>0, <1>3 DEF json2node
    <2> QED
      BY <2>2, <2>3
  <1>4. CASE node.type = "mixed"
    <2>1. json2node(node) = MixedType(<< >>)
      BY <1>0, <1>4 DEF json2node
    <2> QED
      BY <2>1, SingletonTyped DEF MixedType
  <1>5. CASE /\ node.type \in DOMAIN singletonTypes
             /\ node.type \notin {"object", "pair", "array", "mixed"}
    <2>1. json2node(node) = singletonTypes[node.type]
      BY <1>5 DEF json2node
    <2> QED
      BY <1>5, <2>1, SingletonTypesTyped
  <1>6. CASE node.type \notin DOMAIN singletonTypes \cup {"object", "pair", "array", "mixed"}
    <2>1. json2node(node) = CustomType(node.type)
      BY <1>6 DEF json2node
    <2> QED
      BY <2>1, NamedTypes
  <1> QED
    BY <1>1, <1>2, <1>3, <1>4, <1>5, <1>6

LEMMA SeenTyped ==
    ASSUME NEW o, Traced(o)
    PROVE  IsType(json2type(o))
  <1> DEFINE places == UNION {{<<p, q>> : q \in DOMAIN json2node(o[p])} : p \in DOMAIN o}
             home(r) == CHOOSE x \in places : x[1] \o x[2] = r
             ends == {x[1] \o x[2] : x \in places}
  <1>1. \A p \in DOMAIN o : p \in Seq(Nat) /\ IsType(json2node(o[p]))
    BY SeenNodeTyped DEF Traced
  <1>2. \A p \in DOMAIN o : \A q \in DOMAIN json2node(o[p]) :
            <<p, q>>[1] \o <<p, q>>[2] \in Seq(Nat)
    <2>1. \A p \in DOMAIN o : \A q \in DOMAIN json2node(o[p]) : p \o q \in Seq(Nat)
      BY <1>1, ConcatProperties DEF IsType
    <2>2. \A p, q : <<p, q>>[1] = p /\ <<p, q>>[2] = q
      OBVIOUS
    <2> QED
      BY <2>1, <2>2
  <1>3. ends \subseteq Seq(Nat)
    <2>1. ASSUME NEW x \in places PROVE x[1] \o x[2] \in Seq(Nat)
      <3>1. PICK p \in DOMAIN o : x \in {<<p, q>> : q \in DOMAIN json2node(o[p])}
        BY <2>1
      <3> QED
        BY <1>2, <3>1
    <2> HIDE DEF places
    <2> QED
      BY <2>1
  <1>4. /\ DOMAIN json2type(o) = ends
        /\ json2type(o) = [r \in ends |-> json2type(o)[r]]
    <2>1. json2type(o) = [r \in ends |-> json2node(o[home(r)[1]])[home(r)[2]]]
      BY DEF json2type
    <2> HIDE DEF ends, places, home
    <2> QED
      BY <2>1
  <1>5. ASSUME NEW r \in ends
        PROVE  json2type(o)[r] = [class |-> json2type(o)[r].class,
                                  name |-> json2type(o)[r].name]
    <2>1. PICK x \in places : x[1] \o x[2] = r
      BY <1>5
    <2>2. home(r) \in places
      <3> HIDE DEF places
      <3> QED
        BY <2>1
    <2>3. PICK y : y = home(r)
      OBVIOUS
    <2>4. PICK p \in DOMAIN o : y \in {<<p, q>> : q \in DOMAIN json2node(o[p])}
      BY <2>2, <2>3
    <2>5. PICK q \in DOMAIN json2node(o[p]) : y = <<p, q>>
      BY <2>4
    <2>6. json2type(o)[r] = json2node(o[p])[q]
      <3>1. json2type(o)[r] = json2node(o[y[1]])[y[2]]
        <4>1. json2type(o) = [e \in ends |-> json2node(o[home(e)[1]])[home(e)[2]]]
          BY DEF json2type
        <4> HIDE DEF ends, places, home
        <4> QED
          BY <1>5, <2>3, <4>1
      <3> QED
        BY <2>5, <3>1
    <2>7. json2node(o[p])[q] = [class |-> json2node(o[p])[q].class,
                                name |-> json2node(o[p])[q].name]
      BY <1>1, <2>5 DEF IsType
    <2> QED
      BY <2>6, <2>7
  <1> HIDE DEF ends
  <1> QED
    BY <1>3, <1>4, <1>5 DEF IsType

LEMMA MembersTyped ==
    ASSUME NEW object, NEW name, name \in DOMAIN Members(object)
    PROVE  IsType(Members(object)[name])
  <1> DEFINE f == FunctionType(stringType, <<numberType>>)
             ofString == [length |-> numberType, charAt |-> f]
             ofConstructor == [prototype |-> PrototypeType("String"), fromCharCode |-> f]
             ofFunction == [length |-> numberType, prototype |-> PrototypeType("Function")]
  <1>1. /\ IsType(numberType) /\ IsType(f)
        /\ IsType(PrototypeType("String")) /\ IsType(PrototypeType("Function"))
    BY NamedTypes
  <1>2. Members(object) \in {<< >>, ofString, ofConstructor, ofFunction}
    <2> HIDE DEF f
    <2> QED
      BY DEF Members, f
  <1> HIDE DEF f
  <1>3. \A n \in DOMAIN ofString : IsType(ofString[n])
    BY <1>1
  <1>4. \A n \in DOMAIN ofConstructor : IsType(ofConstructor[n])
    BY <1>1
  <1>5. \A n \in DOMAIN ofFunction : IsType(ofFunction[n])
    BY <1>1
  <1>6. \A n \in DOMAIN << >> : IsType(<< >>[n])
    OBVIOUS
  <1> HIDE DEF ofString, ofConstructor, ofFunction
  <1> QED
    BY <1>2, <1>3, <1>4, <1>5, <1>6
-----------------------------------------------------------------------------
(***************************************************************************)
(* Trees as sequences of nodes.                                            *)
(***************************************************************************)
IsNode(node) ==
    /\ node = [kind |-> node.kind, name |-> node.name, depth |-> node.depth]
    /\ node.depth \in Nat
IsTree(tree) ==
    /\ tree \in Seq(Range(tree)) /\ \A k \in DOMAIN tree : IsNode(tree[k])
    /\ tree # << >> /\ tree[1].depth = 0
    /\ \A k \in 2..Len(tree) : tree[k].depth \in 1..tree[k - 1].depth + 1

LEMMA ParsedIsTree ==
    ASSUME NEW tree, Parsed(tree)
    PROVE  IsTree(tree)
  <1> DEFINE Records == [kind : STRING, name : STRING, depth : Nat]
  <1>1. tree \in Seq(Records)
    BY DEF Parsed
  <1>2. Len(tree) \in Nat /\ DOMAIN tree = 1..Len(tree)
        /\ tree = [k \in 1..Len(tree) |-> tree[k]]
        /\ \A k \in DOMAIN tree : tree[k] \in Records
    <2> HIDE DEF Records
    <2>1. Len(tree) \in Nat /\ DOMAIN tree = 1..Len(tree)
          /\ tree \in [1..Len(tree) -> Records]
      BY <1>1, LenProperties
    <2> QED
      BY <2>1
  <1>3. \A node \in Records : IsNode(node)
    BY DEF IsNode
  <1> HIDE DEF Records
  <1>4. tree \in [1..Len(tree) -> Range(tree)]
    BY <1>2 DEF Range
  <1>5. tree \in Seq(Range(tree))
    BY <1>2, <1>4
  <1>6. \A k \in DOMAIN tree : IsNode(tree[k])
    BY <1>2, <1>3
  <1> QED
    BY <1>5, <1>6 DEF Parsed, IsTree

LEMMA NodesDef ==
    ASSUME IsTree(code)
    PROVE  /\ Nodes = 1..Len(code) /\ Len(code) \in Nat \ {0}
           /\ \A k \in Nodes : k \in Nat /\ IsNode(code[k]) /\ code[k].depth \in Nat
  <1>1. code \in Seq(Range(code)) /\ code # << >>
    BY DEF IsTree
  <1>2. Len(code) \in Nat \ {0}
    BY <1>1, EmptySeq
  <1>3. Nodes = 1..Len(code)
    BY <1>1 DEF Nodes
  <1>4. \A k \in 1..Len(code) : IsNode(code[k])
    BY <1>3 DEF IsTree, Nodes
  <1> QED
    BY <1>2, <1>3, <1>4 DEF IsNode

(* A node has one parent.                                                  *)
LEMMA OneParent ==
    ASSUME IsTree(code), NEW a \in Nodes, NEW b \in Nodes,
           NEW j, j \in Children(a), j \in Children(b)
    PROVE  a = b
  <1>1. /\ Nodes = 1..Len(code) /\ Len(code) \in Nat
        /\ \A k \in Nodes : k \in Nat /\ code[k].depth \in Nat
    BY NodesDef
  <1>2. ASSUME NEW k \in Nodes, j \in Children(k)
        PROVE  /\ j \in Nodes /\ k < j /\ code[j].depth = code[k].depth + 1
               /\ \A i \in k + 1..j : code[i].depth > code[k].depth
    BY <1>2 DEF Children, Below, Inside, Nodes
  <1>3. ASSUME NEW x \in Nodes, NEW y \in Nodes, j \in Children(x), j \in Children(y)
        PROVE  ~(x < y)
    <2>1. /\ x \in Nat /\ y \in Nat /\ j \in Nat
          /\ code[x].depth \in Nat /\ code[y].depth \in Nat
      BY <1>1, <1>2, <1>3
    <2>2. code[x].depth = code[y].depth
      BY <1>2, <1>3, <2>1
    <2>3. SUFFICES ASSUME x < y PROVE FALSE
      OBVIOUS
    <2>4. y \in x + 1..j
      BY <1>2, <1>3, <2>1, <2>3
    <2>5. code[y].depth > code[x].depth
      BY <1>2, <1>3, <2>4
    <2> QED
      BY <2>1, <2>2, <2>5
  <1> QED
    BY <1>1, <1>3

LEMMA ChildrenDef ==
    ASSUME IsTree(code), NEW k \in Nodes
    PROVE  /\ Children(k) \subseteq Nodes /\ IsFiniteSet(Children(k))
           /\ Cardinality(Children(k)) \in Nat
           /\ \A j \in Children(k) : j > k
           /\ \A n \in 1..Cardinality(Children(k)) : Child(k, n) \in Children(k)
  <1>1. Nodes = 1..Len(code) /\ Len(code) \in Nat
    BY NodesDef
  <1>2. /\ Children(k) \subseteq Nodes
        /\ \A j \in Children(k) : j > k
    BY DEF Children, Below, Inside, Nodes
  <1>3. IsFiniteSet(Nodes)
    BY <1>1, FS_Interval
  <1>4. IsFiniteSet(Children(k)) /\ Cardinality(Children(k)) \in Nat
    BY <1>2, <1>3, FS_Subset, FS_CardinalityType
  <1>5. ASSUME NEW n \in 1..Cardinality(Children(k))
        PROVE  Child(k, n) \in Children(k)
    <2>1. Children(k) \subseteq Nat
      BY <1>1, <1>2
    <2>2. \E j \in Children(k) : Cardinality({i \in Children(k) : i <= j}) = n
      BY <1>4, <2>1, NthExists
    <2> QED
      BY <2>2 DEF Child
  <1> QED
    BY <1>2, <1>4, <1>5

(* The first child is the node that comes next.                            *)
LEMMA FirstChild ==
    ASSUME IsTree(code), NEW k \in Nodes, k < Len(code),
           code[k + 1].depth = code[k].depth + 1
    PROVE  Child(k, 1) = k + 1 /\ k + 1 \in Children(k)
  <1>1. /\ Nodes = 1..Len(code) /\ Len(code) \in Nat
        /\ \A i \in Nodes : i \in Nat /\ code[i].depth \in Nat
    BY NodesDef
  <1>2. k + 1 \in Nodes
    BY <1>1
  <1>3. k + 1 \in Children(k)
    <2>1. \A i \in k + 1..k + 1 : i = k + 1
      BY <1>1
    <2>2. code[k + 1].depth > code[k].depth
      BY <1>1
    <2>3. k + 1 > k
      BY <1>1
    <2> QED
      BY <1>2, <2>1, <2>2, <2>3 DEF Children, Below, Inside, Nodes
  <1>4. \A j \in Children(k) : j \in Nat /\ k + 1 <= j
    BY <1>1, ChildrenDef
  <1>5. {i \in Children(k) : i <= k + 1} = {k + 1}
    BY <1>1, <1>3, <1>4
  <1>6. Cardinality({k + 1}) = 1
    BY FS_Singleton
  <1>7. ASSUME NEW j \in Children(k), Cardinality({i \in Children(k) : i <= j}) = 1
        PROVE  j = k + 1
    <2>1. IsFiniteSet({i \in Children(k) : i <= j})
      BY ChildrenDef, FS_Subset
    <2>2. PICK x : {i \in Children(k) : i <= j} = {x}
      BY <1>7, <2>1, FS_Singleton
    <2>3. j \in {i \in Children(k) : i <= j} /\ k + 1 \in {i \in Children(k) : i <= j}
      BY <1>3, <1>4, <1>7
    <2> QED
      BY <2>2, <2>3
  <1> QED
    BY <1>3, <1>5, <1>6, <1>7 DEF Child

LEMMA OnlyChild ==
    ASSUME IsTree(code), NEW k \in Nodes, Children(k) # {}
    PROVE  Child(k, 1) \in Children(k)
  <1>1. Cardinality(Children(k)) # 0
    BY ChildrenDef, FS_EmptySet
  <1>2. 1 \in 1..Cardinality(Children(k))
    BY <1>1, ChildrenDef
  <1> QED
    BY <1>2, ChildrenDef

LEMMA SecondChild ==
    ASSUME IsTree(code), NEW k \in Nodes,
           NEW i \in Children(k), NEW j \in Children(k), i # j
    PROVE  Child(k, 2) \in Children(k)
  <1>1. {i, j} \subseteq Children(k) /\ IsFiniteSet(Children(k))
    BY ChildrenDef
  <1>2. Cardinality({i, j}) = 2
    <2>1. IsFiniteSet({i}) /\ Cardinality({i}) = 1 /\ j \notin {i}
      BY FS_Singleton
    <2>2. Cardinality({i} \cup {j}) = Cardinality({i}) + 1
      BY <2>1, FS_AddElement
    <2>3. {i} \cup {j} = {i, j}
      OBVIOUS
    <2> QED
      BY <2>1, <2>2, <2>3
  <1>3. 2 <= Cardinality(Children(k))
    BY <1>1, <1>2, FS_Subset
  <1> QED
    BY <1>3, ChildrenDef

(* A function's parameters are children of it.                             *)
LEMMA ParamsDef ==
    ASSUME IsTree(code), NEW k \in Nodes
    PROVE  \E m \in Nat :
             /\ Params(k) = [n \in 1..m |-> Params(k)[n]]
             /\ \A n \in 1..m : Params(k)[n] \in Children(k)
             /\ ToSet(Params(k)) \subseteq Children(k)
  <1> DEFINE names == IF code[k].kind = "Arrow" THEN 0 ELSE 1
             c == Cardinality(Children(k))
             m == IF c - names - 1 >= 0 THEN c - names - 1 ELSE 0
  <1>1. c \in Nat /\ names \in {0, 1}
    BY ChildrenDef
  <1>2. Params(k) = [n \in 1..c - names - 1 |-> Child(k, names + n)]
    BY DEF Params
  <1> HIDE DEF c, names
  <1>3. m \in Nat /\ 1..c - names - 1 = 1..m
    BY <1>1
  <1>4. ASSUME NEW n \in 1..m PROVE names + n \in 1..c
    BY <1>1
  <1>5. Params(k) = [n \in 1..m |-> Child(k, names + n)]
    BY <1>2, <1>3
  <1> HIDE DEF m
  <1>6. ASSUME NEW n \in 1..m PROVE Params(k)[n] \in Children(k)
    <2>1. Child(k, names + n) \in Children(k)
      BY <1>4, ChildrenDef DEF c
    <2> QED
      BY <1>5, <2>1
  <1>7. DOMAIN Params(k) = 1..m
    BY <1>5
  <1>8. ToSet(Params(k)) \subseteq Children(k)
    BY <1>6, <1>7 DEF ToSet
  <1> QED
    BY <1>3, <1>5, <1>6, <1>8

(* What is not the end of the sequence ends at a node that is no deeper.   *)
LEMMA BelowDef ==
    ASSUME IsTree(code), NEW k \in Nodes
    PROVE  /\ Cardinality(Below(k)) \in Nat /\ k + Cardinality(Below(k)) \in Nodes
           /\ Below(k) = k + 1..k + Cardinality(Below(k))
           /\ k + Cardinality(Below(k)) < Len(code) =>
                 code[k + Cardinality(Below(k)) + 1].depth <= code[k].depth
  <1> DEFINE S == {e \in Nat : /\ e >= k /\ e <= Len(code)
                               /\ e < Len(code) => code[e + 1].depth <= code[k].depth}
  <1>1. /\ Nodes = 1..Len(code) /\ Len(code) \in Nat
        /\ \A i \in Nodes : i \in Nat /\ code[i].depth \in Nat
    BY NodesDef
  <1>2. Len(code) \in S
    BY <1>1
  <1>3. PICK e \in S : \A f \in S : e <= f
    BY <1>2, LeastExists
  <1>4. /\ e \in Nat /\ e >= k /\ e <= Len(code) /\ e \in Nodes
        /\ e < Len(code) => code[e + 1].depth <= code[k].depth
    BY <1>1
  <1>5. ASSUME NEW i \in k + 1..e PROVE code[i].depth > code[k].depth
    <2>1. i - 1 \in Nat /\ i - 1 >= k /\ i - 1 < Len(code) /\ ~(e <= i - 1)
          /\ (i - 1) + 1 = i /\ i \in Nodes
      BY <1>1, <1>4
    <2>2. i - 1 \notin S
      BY <1>3, <2>1
    <2>3. ~(code[i].depth <= code[k].depth)
      BY <2>1, <2>2
    <2> QED
      BY <1>1, <2>1, <2>3
  <1> HIDE DEF S
  <1>6. Below(k) = k + 1..e
    <2>1. ASSUME NEW j \in k + 1..e PROVE j \in Below(k)
      <3>1. j \in Nodes /\ j > k
        BY <1>1, <1>4
      <3>2. \A i \in k + 1..j : i \in k + 1..e
        BY <1>1, <1>4
      <3> QED
        BY <1>5, <3>1, <3>2 DEF Below, Inside, Nodes
    <2>2. ASSUME NEW j \in Below(k) PROVE j \in k + 1..e
      <3>1. /\ j \in Nodes /\ j > k
            /\ \A i \in k + 1..j : code[i].depth > code[k].depth
        BY DEF Below, Inside, Nodes
      <3>2. SUFFICES ASSUME j > e PROVE FALSE
        BY <1>1, <1>4, <3>1
      <3>3. e + 1 \in k + 1..j /\ e < Len(code) /\ e + 1 \in Nodes
        BY <1>1, <1>4, <3>1, <3>2
      <3>4. code[e + 1].depth > code[k].depth /\ code[e + 1].depth <= code[k].depth
        BY <1>4, <3>1, <3>3
      <3> QED
        BY <1>1, <3>3, <3>4
    <2> QED
      BY <2>1, <2>2
  <1>7. Cardinality(k + 1..e) = e - k
    <2>1. k + 1 \in Int /\ e \in Int
      BY <1>1, <1>4
    <2>2. Cardinality(k + 1..e) = IF k + 1 > e THEN 0 ELSE e - (k + 1) + 1
      BY <2>1, FS_Interval
    <2> QED
      BY <1>1, <1>4, <2>2
  <1>8. k + (e - k) = e /\ e - k \in Nat
    BY <1>1, <1>4
  <1> QED
    BY <1>4, <1>6, <1>7, <1>8
-----------------------------------------------------------------------------
(***************************************************************************)
(* Traversals.  The nodes that are open are those above the next one, each *)
(* a level below the one before, and what came after one of them is deeper *)
(* than it.                                                                *)
(***************************************************************************)
Walks(tree, next, above) ==
    /\ above \in Seq(DOMAIN tree) /\ next \in 1..Len(tree) + 1
    /\ \A n \in 1..Len(above) : above[n] < next /\ tree[above[n]].depth = n - 1
    /\ \A n \in 1..Len(above) - 1 : above[n] < above[n + 1]
    /\ next \in DOMAIN tree => tree[next].depth <= Len(above)
    /\ \A n \in 1..Len(above) : \A j \in DOMAIN tree :
            above[n] < j /\ j < next => tree[j].depth > n - 1
Walk == Walks(code, at, open)
(* The nodes that were left.                                               *)
Done == {k \in Nodes : k < at /\ \A n \in 1..Len(open) : open[n] # k}

LEMMA WalkStarts ==
    ASSUME NEW tree, IsTree(tree)
    PROVE  Walks(tree, 1, << >>)
  <1>1. Len(tree) \in Nat /\ tree[1].depth = 0
    BY DEF IsTree
  <1>2. << >> \in Seq(DOMAIN tree) /\ Len(<< >>) = 0
    OBVIOUS
  <1> QED
    BY <1>1, <1>2 DEF Walks

LEMMA DoneStarts ==
    ASSUME IsTree(code), at = 1
    PROVE  Done = {}
  BY NodesDef DEF Done

LEMMA OpenDef ==
    ASSUME IsTree(code), Walk
    PROVE  /\ open \in Seq(Nodes) /\ Len(open) \in Nat /\ at \in Nat
           /\ \A n \in 1..Len(open) : open[n] \in Nodes /\ open[n] < at
  <1>1. open \in Seq(Nodes) /\ at \in 1..Len(code) + 1
    BY DEF Walk, Walks, Nodes
  <1>2. Len(open) \in Nat /\ \A n \in 1..Len(open) : open[n] \in Nodes
    BY <1>1
  <1> QED
    BY <1>1, <1>2, NodesDef DEF Walk, Walks

LEMMA WalkEnters ==
    ASSUME IsTree(code), Walk, MayEnter, code' = code,
           open' = Append(open, at), at' = at + 1
    PROVE  /\ Walk' /\ Done' = Done
           /\ Len(open') = Len(open) + 1 /\ open'[Len(open) + 1] = at
           /\ \A n \in 1..Len(open) : open'[n] = open[n]
  <1>1. /\ Nodes = 1..Len(code) /\ Len(code) \in Nat
        /\ \A i \in Nodes : i \in Nat /\ code[i].depth \in Nat
    BY NodesDef
  <1>2. /\ open \in Seq(Nodes) /\ Len(open) \in Nat
        /\ \A n \in 1..Len(open) : open[n] \in Nodes
    BY OpenDef
  <1>3. at \in Nodes /\ code[at].depth = Len(open)
    BY DEF MayEnter
  <1>4. /\ open' \in Seq(Nodes) /\ Len(open') = Len(open) + 1
        /\ open'[Len(open) + 1] = at
        /\ \A n \in 1..Len(open) : open'[n] = open[n]
    BY <1>2, <1>3, AppendProperties
  <1>5. /\ \A n \in 1..Len(open) : open[n] < at /\ code[open[n]].depth = n - 1
        /\ \A n \in 1..Len(open) - 1 : open[n] < open[n + 1]
        /\ \A n \in 1..Len(open) : \A j \in Nodes :
               open[n] < j /\ j < at => code[j].depth > n - 1
    BY DEF Walk, Walks, Nodes
  <1>6. \A n \in 1..Len(open') : n \in 1..Len(open) \/ n = Len(open) + 1
    BY <1>2, <1>4
  <1>7. \A n \in 1..Len(open') : open'[n] < at + 1 /\ code[open'[n]].depth = n - 1
    <2> SUFFICES ASSUME NEW n \in 1..Len(open')
                 PROVE  open'[n] < at + 1 /\ code[open'[n]].depth = n - 1
      OBVIOUS
    <2>1. CASE n \in 1..Len(open)
      <3>1. open'[n] = open[n] /\ open[n] \in Nat /\ open[n] < at
        BY <1>1, <1>2, <1>4, <1>5, <2>1
      <3>2. code[open'[n]].depth = n - 1
        BY <1>5, <2>1, <3>1
      <3> QED
        BY <1>1, <1>3, <3>1, <3>2
    <2>2. CASE n = Len(open) + 1
      BY <1>1, <1>2, <1>3, <1>4, <2>2
    <2> QED
      BY <1>6, <2>1, <2>2
  <1>8. \A n \in 1..Len(open') - 1 : open'[n] < open'[n + 1]
    <2> SUFFICES ASSUME NEW n \in 1..Len(open') - 1 PROVE open'[n] < open'[n + 1]
      OBVIOUS
    <2>1. n \in 1..Len(open) /\ n \in Nat
      BY <1>2, <1>4
    <2>2. CASE n = Len(open)
      BY <1>2, <1>4, <1>5, <2>1, <2>2
    <2>3. CASE n # Len(open)
      <3>1. n \in 1..Len(open) - 1 /\ n + 1 \in 1..Len(open)
        BY <1>2, <2>1, <2>3
      <3> QED
        BY <1>4, <1>5, <2>1, <3>1
    <2> QED
      BY <2>2, <2>3
  <1>9. at + 1 \in Nodes => code[at + 1].depth <= Len(open')
    <2>1. SUFFICES ASSUME at + 1 \in Nodes PROVE code[at + 1].depth <= Len(open')
      OBVIOUS
    <2>2. at + 1 \in 2..Len(code) /\ (at + 1) - 1 = at
      BY <1>1, <1>3, <2>1
    <2>3. code[at + 1].depth \in 1..code[at].depth + 1
      BY <2>2 DEF IsTree
    <2> QED
      BY <1>1, <1>3, <1>4, <2>3
  <1>10. \A n \in 1..Len(open') : \A j \in Nodes :
             open'[n] < j /\ j < at + 1 => code[j].depth > n - 1
    <2> SUFFICES ASSUME NEW n \in 1..Len(open'), NEW j \in Nodes,
                        open'[n] < j, j < at + 1
                 PROVE  code[j].depth > n - 1
      OBVIOUS
    <2>1. CASE n \in 1..Len(open)
      <3>1. open'[n] = open[n]
        BY <1>4, <2>1
      <3>2. CASE j = at
        BY <1>2, <1>3, <2>1, <3>2
      <3>3. CASE j # at
        <4>1. j < at
          BY <1>1, <1>3, <3>3
        <4> QED
          BY <1>5, <2>1, <3>1, <4>1
      <3> QED
        BY <3>2, <3>3
    <2>2. CASE n = Len(open) + 1
      BY <1>1, <1>3, <1>4, <2>2
    <2> QED
      BY <1>6, <2>1, <2>2
  <1>11. at + 1 \in 1..Len(code) + 1
    BY <1>1, <1>3
  <1>12. Walk'
    BY <1>4, <1>7, <1>8, <1>9, <1>10, <1>11 DEF Walk, Walks, Nodes
  <1>13. ASSUME NEW k \in Nodes
         PROVE  /\ k < at + 1 /\ (\A n \in 1..Len(open') : open'[n] # k)
                    => k < at /\ \A n \in 1..Len(open) : open[n] # k
                /\ k < at /\ (\A n \in 1..Len(open) : open[n] # k)
                    => k < at + 1 /\ \A n \in 1..Len(open') : open'[n] # k
    <2>1. k < at => k < at + 1 /\ k # at
      BY <1>1, <1>3
    <2>2. k < at + 1 /\ k # at => k < at
      BY <1>1, <1>3
    <2>3. 1..Len(open') = 1..Len(open) \cup {Len(open) + 1}
      BY <1>2, <1>4
    <2> QED
      BY <1>4, <2>1, <2>2, <2>3
  <1>14. Done' = Done
    BY <1>13 DEF Done, Nodes
  <1> QED
    BY <1>4, <1>12, <1>14

LEMMA WalkExits ==
    ASSUME IsTree(code), Walk, MayExit, code' = code,
           open' = Front(open), at' = at
    PROVE  /\ Walk' /\ Done' = Done \cup {Exiting}
           /\ Exiting \in Nodes /\ Exiting \notin Done /\ Exiting < at
           /\ Exiting = open[Len(open)] /\ Below(Exiting) \subseteq Done
           /\ Below(Exiting) = Exiting + 1..at - 1
           /\ Len(open) \in Nat \ {0} /\ Len(open') = Len(open) - 1
           /\ \A n \in 1..Len(open) - 1 : open'[n] = open[n]
  <1>1. /\ Nodes = 1..Len(code) /\ Len(code) \in Nat
        /\ \A i \in Nodes : i \in Nat /\ code[i].depth \in Nat
    BY NodesDef
  <1>2. /\ open \in Seq(Nodes) /\ open # << >> /\ at \in Nat
        /\ \A n \in 1..Len(open) : open[n] \in Nodes /\ open[n] < at
    BY OpenDef DEF MayExit
  <1>3. /\ open' \in Seq(Nodes) /\ Len(open) \in Nat \ {0}
        /\ Len(open') = Len(open) - 1
        /\ \A n \in 1..Len(open) - 1 : open'[n] = open[n]
        /\ Exiting = open[Len(open)]
    BY <1>2, FrontDef DEF Exiting
  <1>4. /\ \A n \in 1..Len(open) : code[open[n]].depth = n - 1
        /\ \A n \in 1..Len(open) - 1 : open[n] < open[n + 1]
        /\ \A n \in 1..Len(open) : \A j \in Nodes :
               open[n] < j /\ j < at => code[j].depth > n - 1
        /\ at \in Nodes => code[at].depth <= Len(open)
        /\ at \in 1..Len(code) + 1
    BY DEF Walk, Walks, Nodes
  <1>5. /\ Exiting \in Nodes /\ Exiting < at /\ code[Exiting].depth = Len(open) - 1
    BY <1>2, <1>3, <1>4
  <1>6. at \in Nodes => code[at].depth <= Len(open) - 1
    BY <1>1, <1>3, <1>4 DEF MayExit, MayEnter
  <1>7. Walk'
    <2>1. \A n \in 1..Len(open') : n \in 1..Len(open) - 1 /\ n \in 1..Len(open)
      BY <1>3
    <2>2. \A n \in 1..Len(open') : open'[n] < at /\ code[open'[n]].depth = n - 1
      BY <1>2, <1>3, <1>4, <2>1
    <2>3. \A n \in 1..Len(open') - 1 : open'[n] < open'[n + 1]
      <3> SUFFICES ASSUME NEW n \in 1..Len(open') - 1 PROVE open'[n] < open'[n + 1]
        OBVIOUS
      <3>1. n \in 1..Len(open) - 1 /\ n + 1 \in 1..Len(open) - 1
        BY <1>3
      <3> QED
        BY <1>3, <1>4, <3>1
    <2>4. \A n \in 1..Len(open') : \A j \in Nodes :
              open'[n] < j /\ j < at => code[j].depth > n - 1
      BY <1>3, <1>4, <2>1
    <2> QED
      BY <1>3, <1>4, <1>6, <2>2, <2>3, <2>4 DEF Walk, Walks, Nodes
  <1>8. Done' = Done \cup {Exiting}
    <2>1. ASSUME NEW k \in Nodes
          PROVE  (\A n \in 1..Len(open') : open'[n] # k)
                    <=> k = Exiting \/ \A n \in 1..Len(open) : open[n] # k
      <3>1. \A n \in 1..Len(open) : n \in 1..Len(open) - 1 \/ n = Len(open)
        BY <1>3
      <3>2. 1..Len(open') = 1..Len(open) - 1 /\ 1..Len(open) - 1 \subseteq 1..Len(open)
        BY <1>3
      <3>3. \A n \in 1..Len(open) - 1 : open[n] # Exiting
        <4> SUFFICES ASSUME NEW n \in 1..Len(open) - 1 PROVE open[n] # Exiting
          OBVIOUS
        <4>1. n - 1 # Len(open) - 1 /\ n \in 1..Len(open)
          BY <1>3
        <4> QED
          BY <1>4, <1>5, <4>1
      <3> QED
        BY <1>3, <3>1, <3>2, <3>3
    <2> QED
      BY <1>5, <2>1 DEF Done, Nodes
  <1>9. Exiting \notin Done
    <2>1. Len(open) \in 1..Len(open)
      BY <1>3
    <2> QED
      BY <1>3, <2>1 DEF Done
  <1>10. ASSUME NEW j \in Below(Exiting) PROVE j \in Nodes /\ Exiting < j /\ j < at
    <2>1. /\ j \in Nodes /\ Exiting < j
          /\ \A i \in Exiting + 1..j : code[i].depth > code[Exiting].depth
      BY DEF Below, Inside, Nodes
    <2>2. SUFFICES ASSUME at <= j PROVE FALSE
      BY <1>1, <1>2, <2>1
    <2>3. at \in Exiting + 1..j /\ at \in Nodes
      BY <1>1, <1>2, <1>4, <1>5, <2>1, <2>2
    <2>4. code[at].depth > code[Exiting].depth
      BY <2>1, <2>3
    <2> QED
      BY <1>1, <1>3, <1>5, <1>6, <2>3, <2>4
  <1>11. ASSUME NEW j \in Nodes, Exiting < j, j < at
         PROVE  \A n \in 1..Len(open) : open[n] # j
    <2> SUFFICES ASSUME NEW n \in 1..Len(open), open[n] = j PROVE FALSE
      OBVIOUS
    <2>1. Len(open) \in 1..Len(open)
      BY <1>3
    <2>2. code[j].depth > Len(open) - 1
      BY <1>3, <1>4, <1>11, <2>1
    <2>3. code[j].depth = n - 1
      BY <1>4
    <2> QED
      BY <1>3, <2>2, <2>3
  <1>12. Below(Exiting) \subseteq Done
    BY <1>10, <1>11 DEF Done
  <1>13. Below(Exiting) = Exiting + 1..at - 1
    <2>1. ASSUME NEW j \in Below(Exiting) PROVE j \in Exiting + 1..at - 1
      BY <1>1, <1>2, <1>5, <1>10
    <2>2. ASSUME NEW j \in Exiting + 1..at - 1 PROVE j \in Below(Exiting)
      <3>1. Len(open) \in 1..Len(open)
        BY <1>3
      <3>2. ASSUME NEW i \in Exiting + 1..j
            PROVE  i \in Nodes /\ code[i].depth > code[Exiting].depth
        <4>1. i \in Nodes /\ Exiting < i /\ i < at
          <5>1. Exiting \in Nat /\ Exiting >= 1
            BY <1>1, <1>5
          <5>2. j \in Int /\ j <= at - 1
            BY <1>2, <5>1
          <5>3. i \in Int /\ Exiting + 1 <= i /\ i <= j
            BY <5>1, <5>2
          <5> QED
            BY <1>1, <1>2, <1>4, <5>1, <5>2, <5>3
        <4> QED
          BY <1>3, <1>4, <1>5, <3>1, <4>1
      <3>3. j \in Nodes /\ j > Exiting
        BY <1>1, <1>2, <1>4, <1>5
      <3> QED
        BY <3>2, <3>3 DEF Below, Inside, Nodes
    <2> QED
      BY <2>1, <2>2
  <1> QED
    BY <1>3, <1>5, <1>7, <1>8, <1>9, <1>12, <1>13

LEMMA WalkEnds ==
    ASSUME IsTree(code), Walk, Traversed
    PROVE  Done = Nodes
  <1>1. Nodes = 1..Len(code) /\ Len(code) \in Nat /\ at \in Nat
    BY NodesDef, OpenDef
  <1>2. open = << >> /\ at > Len(code)
    BY DEF Traversed
  <1>3. Len(open) = 0
    BY <1>2
  <1>4. \A k \in Nodes : k < at
    BY <1>1, <1>2
  <1> QED
    BY <1>3, <1>4 DEF Done
-----------------------------------------------------------------------------
(***************************************************************************)
(* infer(): calls have the types of what the functions return.             *)
(***************************************************************************)
InferTyped ==
    /\ Parsed(code) /\ Walk /\ change \in BOOLEAN
    /\ itype = [k \in Nodes |-> itype[k]] /\ \A k \in Nodes : IsType(itype[k])
    /\ funcMap = [n \in FuncNames |-> funcMap[n]]
    /\ \A n \in FuncNames : IsType(funcMap[n])
(* What funcMap has for a function of that name alone is what its node has,*)
(* from when it is left for the first time.                                *)
Declared ==
    \A d \in Declarations : Sole(d) =>
        \/ funcMap[NameOf(d)] = Untyped /\ itype[d] = voidType /\ d \notin Done
        \/ funcMap[NameOf(d)] = itype[d] /\ IsFunction(itype[d])
(* In a round without a change the nodes that were left have the types that*)
(* would be inferred for them now.                                         *)
ReturnsAgree ==
    \A d \in Declarations : d \in Done /\ Sole(d) /\ findRetType(d) # Untyped =>
        Ret(itype[d]) = findRetType(d)
NamesAgree ==
    \A d \in Declarations : \A k \in Done :
        Sole(d) /\ Named(d, k) /\ funcMap[NameOf(d)] # Untyped =>
            itype[k] = funcMap[NameOf(d)]
CalleesAgree ==
    \A k \in Done : code[k].kind = "Call" /\ inferCall(k) # Untyped =>
        itype[k] = inferCall(k)
InferInv ==
    pc \in {"infer", "typed"} =>
        /\ InferTyped /\ Declared
        /\ ~change => ReturnsAgree /\ NamesAgree /\ CalleesAgree
        /\ pc = "typed" => Done = Nodes

LEMMA SameTree ==
    ASSUME code' = code
    PROVE  /\ Nodes' = Nodes /\ Declarations' = Declarations
           /\ \A k : /\ Below(k)' = Below(k) /\ Children(k)' = Children(k)
                     /\ Returns(k)' = Returns(k)
                     /\ Child(k, 1)' = Child(k, 1)
                     /\ NameOf(k)' = NameOf(k) /\ Sole(k)' = Sole(k)
                     /\ \A d : Named(d, k)' = Named(d, k)
  <1>1. Nodes' = Nodes /\ Declarations' = Declarations
    BY DEF Nodes, Declarations
  <1>2. \A k : Below(k)' = Below(k)
    BY DEF Below
  <1>3. \A k : Children(k)' = Children(k)
    BY <1>2 DEF Children
  <1>4. \A k : Child(k, 1)' = Child(k, 1)
    BY <1>3 DEF Child
  <1>5. \A k : Returns(k)' = Returns(k)
    BY <1>2 DEF Returns
  <1>6. \A k : NameOf(k)' = NameOf(k)
    BY <1>4 DEF NameOf
  <1>7. \A k : Sole(k)' = Sole(k)
    BY <1>1, <1>6 DEF Sole
  <1>8. \A k, d : Named(d, k)' = Named(d, k)
    BY <1>6 DEF Named
  <1> QED
    BY <1>1, <1>2, <1>3, <1>4, <1>5, <1>6, <1>7, <1>8

(* What a function returns is the type of a return's child, or none.       *)
LEMMA RetTypeDef ==
    ASSUME IsTree(code), NEW k \in Nodes
    PROVE  \/ findRetType(k) = undefinedType
              /\ (code' = code => findRetType(k)' = undefinedType)
           \/ \E r \in Nodes : \E j \in Children(r) :
                 /\ code[r].kind = "Return" /\ findRetType(k) = itype[j]
                 /\ code' = code => findRetType(k)' = itype'[j]
  <1> DEFINE first == CHOOSE r \in Returns(k) : \A s \in Returns(k) : r <= s
  <1>1. code' = code =>
            /\ Returns(k)' = Returns(k)
            /\ \A r : Children(r)' = Children(r) /\ Child(r, 1)' = Child(r, 1)
    BY SameTree
  <1>2. CASE Returns(k) = {}
    BY <1>1, <1>2 DEF findRetType
  <1>3. CASE Returns(k) # {}
    <2>1. Returns(k) \subseteq Nodes /\ \A r \in Returns(k) : code[r].kind = "Return"
      BY DEF Returns, Below, Inside, Nodes
    <2>2. Returns(k) \subseteq Nat
      BY <2>1, NodesDef
    <2>3. PICK r : r = first
      OBVIOUS
    <2>4. r \in Returns(k)
      BY <1>3, <2>2, <2>3, LeastExists
    <2>5. findRetType(k) =
              IF Children(r) = {} THEN undefinedType ELSE itype[Child(r, 1)]
      BY <1>3, <2>3 DEF findRetType
    <2>6. code' = code => findRetType(k)' =
              IF Children(r) = {} THEN undefinedType ELSE itype'[Child(r, 1)]
      <3> SUFFICES ASSUME code' = code
                   PROVE  findRetType(k)' =
                      IF Children(r) = {} THEN undefinedType ELSE itype'[Child(r, 1)]
        OBVIOUS
      <3>1. Returns(k)' # {} /\ r = CHOOSE x \in Returns(k)' : \A s \in Returns(k)' : x <= s
        BY <1>1, <1>3, <2>3
      <3>2. findRetType(k)' =
              IF Children(r)' = {} THEN undefinedType ELSE itype'[Child(r, 1)']
        BY <3>1 DEF findRetType
      <3> QED
        BY <1>1, <3>2
    <2>7. CASE Children(r) = {}
      BY <2>5, <2>6, <2>7
    <2>8. CASE Children(r) # {}
      <3>1. Child(r, 1) \in Children(r)
        BY <2>1, <2>4, <2>8, OnlyChild
      <3> QED
        BY <2>1, <2>4, <2>5, <2>6, <2>8, <3>1
    <2> QED
      BY <2>7, <2>8
  <1> QED
    BY <1>2, <1>3

LEMMA RetTypeTyped ==
    ASSUME InferTyped, NEW k \in Nodes
    PROVE  IsType(findRetType(k))
  <1>1. IsTree(code)
    BY ParsedIsTree DEF InferTyped
  <1>2. \A r \in Nodes : Children(r) \subseteq Nodes
    BY <1>1, ChildrenDef
  <1> QED
    BY <1>1, <1>2, RetTypeDef, NamedTypes DEF InferTyped

LEMMA inferFunctionDef ==
    ASSUME InferTyped, NEW k \in Nodes
    PROVE  /\ IsType(inferFunction(k)) /\ IsFunction(inferFunction(k))
           /\ findRetType(k) # Untyped => Ret(inferFunction(k)) = findRetType(k)
  <1>1. IsTree(code)
    BY ParsedIsTree DEF InferTyped
  <1>2. PICK m \in Nat :
            /\ Params(k) = [n \in 1..m |-> Params(k)[n]]
            /\ \A n \in 1..m : Params(k)[n] \in Children(k)
    BY <1>1, ParamsDef
  <1>3. DOMAIN Params(k) = 1..m
    BY <1>2
  <1> DEFINE args == [n \in 1..m |-> ParamType(Params(k)[n])]
  <1>4. inferFunction(k) = FunctionType(findRetType(k), args)
    BY <1>3 DEF inferFunction
  <1>5. \A n \in 1..m : args[n] = ParamType(Params(k)[n])
    OBVIOUS
  <1>6. args = [n \in 1..m |-> args[n]]
    OBVIOUS
  <1> HIDE DEF args
  <1>7. \A n \in 1..m : IsType(args[n])
    <2> SUFFICES ASSUME NEW n \in 1..m PROVE IsType(args[n])
      OBVIOUS
    <2>1. Params(k)[n] \in Nodes
      BY <1>1, <1>2, ChildrenDef
    <2>2. IsType(itype[Params(k)[n]]) /\ IsType(anyType)
      BY <2>1, NamedTypes DEF InferTyped
    <2> QED
      BY <1>5, <2>2 DEF ParamType
  <1>8. IsType(findRetType(k))
    BY RetTypeTyped
  <1> QED
    BY <1>4, <1>6, <1>7, <1>8, FunctionDef

LEMMA CallDef ==
    ASSUME Parsed(code), NEW k \in Nodes,
           code[k].kind \in {"Call", "FunctionDeclaration"}
    PROVE  Child(k, 1) = k + 1 /\ Child(k, 1) \in Children(k) /\ Child(k, 1) \in Nodes
  <1>1. k < Len(code) /\ code[k + 1].depth = code[k].depth + 1
    BY DEF Parsed, Nodes
  <1>2. IsTree(code)
    BY ParsedIsTree
  <1> QED
    BY <1>1, <1>2, FirstChild, ChildrenDef

LEMMA NameDef ==
    ASSUME Parsed(code), NEW d \in Declarations
    PROVE  d \in Nodes /\ NameOf(d) \in FuncNames
  <1>1. d \in Nodes /\ code[d].kind = "FunctionDeclaration"
    BY DEF Declarations
  <1>2. Child(d, 1) = d + 1
    BY <1>1, CallDef
  <1>3. code[d + 1].name \in FuncNames
    BY <1>1 DEF Parsed, Nodes
  <1> QED
    BY <1>1, <1>2, <1>3 DEF NameOf

LEMMA InferredTyped ==
    ASSUME InferTyped, NEW k \in Nodes
    PROVE  IsType(Inferred(k))
  <1>1. IsTree(code) /\ Parsed(code)
    BY ParsedIsTree DEF InferTyped
  <1>2. \A j \in Nodes : IsType(itype[j])
    BY DEF InferTyped
  <1>3. IsType(inferLiteral(k))
    BY NamedTypes DEF inferLiteral
  <1>4. IsType(inferPlus(k))
    BY NamedTypes DEF inferPlus
  <1>5. IsType(inferArray(k))
    <2>1. \A elem : IsType(elem) => IsType(ArrayType(elem))
      BY WrappedTyped DEF ArrayType
    <2>2. inferArray(k) \in {ArrayType(numberType), ArrayType(stringType), ArrayType(anyType)}
      BY DEF inferArray
    <2> QED
      BY <2>1, <2>2, NamedTypes
  <1>6. IsType(inferFunction(k))
    BY inferFunctionDef
  <1>7. IsType(inferIdentifier(k))
    <2>1. \/ inferIdentifier(k) \in {immutableType, itype[k]}
          \/ \E n \in FuncNames : inferIdentifier(k) = funcMap[n]
      BY DEF inferIdentifier
    <2> QED
      BY <1>2, <2>1, NamedTypes DEF InferTyped
  <1>8. ASSUME code[k].kind = "Call" PROVE IsType(inferCall(k))
    <2>1. IsType(itype[Child(k, 1)])
      BY <1>1, <1>2, <1>8, CallDef
    <2> QED
      BY <2>1, PartTyped DEF inferCall, Ret
  <1>9. IsType(inferMemberExpression(k))
    BY <1>2, MembersTyped DEF inferMemberExpression
  <1>10. ASSUME code[k].kind = "AssignmentPattern" PROVE IsType(itype[Child(k, 2)])
    <2>1. PICK i \in Inside(code, k), j \in Inside(code, k) :
              i < j /\ {code[i].depth, code[j].depth} = {code[k].depth + 1}
      BY <1>1, <1>10 DEF Parsed, Nodes
    <2>2. i \in Children(k) /\ j \in Children(k)
      BY <2>1 DEF Children, Below
    <2>3. i \in Nat /\ j \in Nat
      BY <1>1, <2>2, ChildrenDef, NodesDef
    <2>4. i # j
      BY <2>1, <2>3
    <2>5. Child(k, 2) \in Children(k)
      BY <1>1, <2>2, <2>4, SecondChild
    <2> QED
      BY <1>1, <1>2, <2>5, ChildrenDef
  <1>11. \/ Inferred(k) \in {inferLiteral(k), inferPlus(k), numberType, inferArray(k),
                             inferFunction(k), inferIdentifier(k),
                             inferMemberExpression(k), itype[k]}
         \/ code[k].kind = "Call" /\ Inferred(k) = inferCall(k)
         \/ code[k].kind = "AssignmentPattern" /\ Inferred(k) = itype[Child(k, 2)]
    BY DEF Inferred
  <1> QED
    BY <1>2, <1>3, <1>4, <1>5, <1>6, <1>7, <1>8, <1>9, <1>10, <1>11, NamedTypes

LEMMA InferredDef ==
    ASSUME NEW k
    PROVE  /\ IsFunctionNode(k) => Inferred(k) = inferFunction(k)
           /\ code[k].kind = "Identifier" => Inferred(k) = inferIdentifier(k)
           /\ code[k].kind = "Call" => Inferred(k) = inferCall(k)
  BY DEF Inferred, IsFunctionNode

(* What leaving a node does to the types: its own becomes what is inferred *)
(* for it, and that of an untyped parameter any.                           *)
LEMMA InferExitDef ==
    ASSUME InferTyped, InferExit
    PROVE  /\ IsTree(code) /\ code' = code /\ open' = Front(open) /\ at' = at
           /\ pc = "infer" /\ pc' = "infer"
           /\ Walk' /\ Exiting \in Nodes /\ Exiting \notin Done
           /\ Done' = Done \cup {Exiting}
           /\ itype' = [j \in Nodes |-> itype'[j]] /\ itype'[Exiting] = Inferred(Exiting)
           /\ \A j \in Nodes : j # Exiting =>
                 \/ itype'[j] = itype[j]
                 \/ /\ itype[j] = Untyped /\ itype'[j] = anyType
                    /\ IsFunctionNode(Exiting) /\ j \in Children(Exiting)
           /\ change' = (change \/ Inferred(Exiting) # itype[Exiting])
           /\ funcMap' = IF code[Exiting].kind # "FunctionDeclaration" THEN funcMap
                         ELSE [funcMap EXCEPT ![NameOf(Exiting)] = Inferred(Exiting)]
  <1> DEFINE k == Exiting
             params == IF IsFunctionNode(k) THEN ToSet(Params(k)) ELSE {}
             same == isEqual(Inferred(k), itype[k])
  <1>1. IsTree(code) /\ Walk
    BY ParsedIsTree DEF InferTyped
  <1>2. /\ code' = code /\ open' = Front(open) /\ at' = at
        /\ pc = "infer" /\ pc' = "infer" /\ MayExit
    BY DEF InferExit
  <1>3. /\ Walk' /\ k \in Nodes /\ k \notin Done /\ Done' = Done \cup {k}
    BY <1>1, <1>2, WalkExits
  <1>4. /\ itype' = [j \in Nodes |-> CASE j = k /\ ~same -> Inferred(k)
                                       [] j \in params -> ParamType(j)
                                       [] OTHER -> itype[j]]
        /\ change' = (change \/ ~same)
        /\ funcMap' = IF code[k].kind # "FunctionDeclaration" THEN funcMap
                      ELSE [funcMap EXCEPT ![NameOf(k)] = Inferred(k)]
    BY DEF InferExit, NameOf
  <1>5. same <=> Inferred(k) = itype[k]
    BY DEF isEqual
  <1>6. IsFunctionNode(k) => params \subseteq Children(k)
    BY <1>1, <1>3, ParamsDef
  <1>7. \A j \in Children(k) : j > k
    BY <1>1, <1>3, ChildrenDef
  <1>8. k \in Nat
    BY <1>1, <1>3, NodesDef
  <1>9. k \notin params
    BY <1>6, <1>7, <1>8
  <1>10. \A j \in params : IsFunctionNode(k) /\ j \in Children(k)
    BY <1>6
  <1> HIDE DEF k, params, same
  <1>11. itype' = [j \in Nodes |-> itype'[j]] /\ itype'[k] = Inferred(k)
    BY <1>3, <1>4, <1>5, <1>9
  <1>12. ASSUME NEW j \in Nodes, j # k
         PROVE  \/ itype'[j] = itype[j]
                \/ /\ itype[j] = Untyped /\ itype'[j] = anyType
                   /\ IsFunctionNode(k) /\ j \in Children(k)
    <2>1. CASE j \in params
      <3>1. itype'[j] = ParamType(j)
        BY <1>4, <1>12, <2>1
      <3> QED
        BY <1>10, <2>1, <3>1 DEF ParamType
    <2>2. CASE j \notin params
      BY <1>4, <1>12, <2>2
    <2> QED
      BY <2>1, <2>2
  <1>13. change' = (change \/ Inferred(k) # itype[k])
    BY <1>4, <1>5
  <1> QED
    BY <1>1, <1>2, <1>3, <1>4, <1>11, <1>12, <1>13 DEF k

LEMMA InferTypedKept ==
    ASSUME InferTyped, InferExit
    PROVE  InferTyped'
  <1>1. /\ IsTree(code) /\ code' = code /\ Walk' /\ Exiting \in Nodes
        /\ itype' = [j \in Nodes |-> itype'[j]] /\ itype'[Exiting] = Inferred(Exiting)
        /\ \A j \in Nodes : j # Exiting => itype'[j] \in {itype[j], anyType}
        /\ change' = (change \/ Inferred(Exiting) # itype[Exiting])
        /\ funcMap' = IF code[Exiting].kind # "FunctionDeclaration" THEN funcMap
                      ELSE [funcMap EXCEPT ![NameOf(Exiting)] = Inferred(Exiting)]
    BY InferExitDef
  <1>2. Parsed(code)' /\ Nodes' = Nodes
    <2>1. Parsed(code)
      BY DEF InferTyped
    <2>2. Parsed(code)'
      BY <1>1, <2>1
    <2> QED
      BY <1>1, <2>2 DEF Nodes
  <1>3. IsType(Inferred(Exiting))
    BY <1>1, InferredTyped
  <1>4. \A j \in Nodes : IsType(itype'[j])
    BY <1>1, <1>3, NamedTypes DEF InferTyped
  <1>5. change' \in BOOLEAN
    BY <1>1 DEF InferTyped
  <1>6. /\ funcMap' = [n \in FuncNames |-> funcMap'[n]]
        /\ \A n \in FuncNames : IsType(funcMap'[n])
    BY <1>1, <1>3 DEF InferTyped
  <1> QED
    BY <1>1, <1>2, <1>4, <1>5, <1>6 DEF InferTyped

LEMMA DeclaredKept ==
    ASSUME InferTyped, Declared, InferExit
    PROVE  Declared'
  <1>1. /\ IsTree(code) /\ code' = code /\ Exiting \in Nodes
        /\ Done' = Done \cup {Exiting}
        /\ itype'[Exiting] = Inferred(Exiting)
        /\ \A j \in Nodes : j # Exiting => itype'[j] = itype[j] \/ itype[j] = Untyped
        /\ funcMap' = IF code[Exiting].kind # "FunctionDeclaration" THEN funcMap
                      ELSE [funcMap EXCEPT ![NameOf(Exiting)] = Inferred(Exiting)]
    BY InferExitDef
  <1>2. Parsed(code) /\ DOMAIN funcMap = FuncNames
    BY DEF InferTyped
  <1>3. SUFFICES ASSUME NEW d \in Declarations, Sole(d)
                 PROVE  \/ /\ funcMap'[NameOf(d)] = Untyped
                           /\ itype'[d] = voidType /\ d \notin Done'
                        \/ funcMap'[NameOf(d)] = itype'[d] /\ IsFunction(itype'[d])
    BY <1>1, SameTree DEF Declared
  <1>4. d \in Nodes /\ NameOf(d) \in FuncNames /\ code[d].kind = "FunctionDeclaration"
    BY <1>2, <1>3, NameDef DEF Declarations
  <1>5. CASE d = Exiting
    <2>1. IsFunctionNode(d)
      BY <1>4 DEF IsFunctionNode
    <2>2. Inferred(d) = inferFunction(d)
      BY <2>1, InferredDef
    <2>3. IsFunction(Inferred(d))
      BY <1>4, <2>2, inferFunctionDef
    <2>4. funcMap'[NameOf(d)] = Inferred(d)
      BY <1>1, <1>2, <1>4, <1>5
    <2> QED
      BY <1>1, <1>5, <2>3, <2>4
  <1>6. CASE d # Exiting
    <2>1. itype[d] # Untyped
      BY <1>3, NamedTypes DEF Declared, IsFunction
    <2>2. itype'[d] = itype[d]
      BY <1>1, <1>4, <1>6, <2>1
    <2>3. funcMap'[NameOf(d)] = funcMap[NameOf(d)]
      <3>1. CASE code[Exiting].kind # "FunctionDeclaration"
        BY <1>1, <3>1
      <3>2. CASE code[Exiting].kind = "FunctionDeclaration"
        <4>1. Exiting \in Declarations
          BY <1>1, <3>2 DEF Declarations
        <4>2. NameOf(Exiting) # NameOf(d)
          BY <1>3, <1>6, <4>1 DEF Sole
        <4> QED
          BY <1>1, <1>2, <1>4, <3>2, <4>2
      <3> QED
        BY <3>1, <3>2
    <2> QED
      BY <1>1, <1>3, <1>6, <2>2, <2>3 DEF Declared
  <1> QED
    BY <1>5, <1>6

(* Without a change only untyped parameters get a type.                    *)
LEMMA QuietExit ==
    ASSUME InferTyped, InferExit, ~change'
    PROVE  /\ ~change /\ Inferred(Exiting) = itype[Exiting]
           /\ \A j \in Nodes : itype[j] # Untyped => itype'[j] = itype[j]
           /\ \A r \in Nodes : \A j \in Children(r) :
                 ~IsFunctionNode(r) => itype'[j] = itype[j]
  <1>1. /\ IsTree(code) /\ Exiting \in Nodes
        /\ itype'[Exiting] = Inferred(Exiting)
        /\ \A j \in Nodes : j # Exiting =>
              \/ itype'[j] = itype[j]
              \/ /\ itype[j] = Untyped /\ itype'[j] = anyType
                 /\ IsFunctionNode(Exiting) /\ j \in Children(Exiting)
        /\ change' = (change \/ Inferred(Exiting) # itype[Exiting])
    BY InferExitDef
  <1>2. ~change /\ Inferred(Exiting) = itype[Exiting]
    BY <1>1
  <1>3. \A j \in Nodes : itype[j] # Untyped => itype'[j] = itype[j]
    BY <1>1, <1>2
  <1>4. ASSUME NEW r \in Nodes, NEW j \in Children(r), ~IsFunctionNode(r)
        PROVE  itype'[j] = itype[j]
    <2>1. j \in Nodes
      BY <1>1, <1>4, ChildrenDef
    <2>2. j \in Children(Exiting) => Exiting = r
      BY <1>1, <1>4, OneParent
    <2> QED
      BY <1>1, <1>2, <1>4, <2>1, <2>2
  <1> QED
    BY <1>2, <1>3, <1>4

LEMMA ReturnsKept ==
    ASSUME InferTyped, Declared, ReturnsAgree, InferExit, ~change'
    PROVE  ReturnsAgree'
  <1>1. /\ IsTree(code) /\ code' = code /\ Exiting \in Nodes
        /\ Done' = Done \cup {Exiting} /\ itype'[Exiting] = Inferred(Exiting)
    BY InferExitDef
  <1>2. SUFFICES ASSUME NEW d \in Declarations, d \in Done', Sole(d),
                        findRetType(d)' # Untyped
                 PROVE  Ret(itype'[d]) = findRetType(d)'
    BY <1>1, SameTree DEF ReturnsAgree
  <1>3. d \in Nodes /\ IsFunctionNode(d)
    BY DEF Declarations, IsFunctionNode
  <1>4. findRetType(d)' = findRetType(d)
    <2>1. \A r \in Nodes : code[r].kind = "Return" => ~IsFunctionNode(r)
      BY DEF IsFunctionNode
    <2>2. \A r \in Nodes : code[r].kind = "Return" =>
              \A j \in Children(r) : itype'[j] = itype[j]
      BY <2>1, QuietExit
    <2>3. \/ findRetType(d) = undefinedType /\ findRetType(d)' = undefinedType
          \/ \E r \in Nodes : \E j \in Children(r) :
                 /\ code[r].kind = "Return" /\ findRetType(d) = itype[j]
                 /\ findRetType(d)' = itype'[j]
      BY <1>1, <1>3, RetTypeDef
    <2> QED
      BY <2>2, <2>3
  <1>5. CASE d = Exiting
    <2>1. itype'[d] = inferFunction(d)
      BY <1>1, <1>3, <1>5, InferredDef
    <2> QED
      BY <1>2, <1>3, <1>4, <2>1, inferFunctionDef
  <1>6. CASE d # Exiting
    <2>1. itype[d] # Untyped
      BY <1>2, NamedTypes DEF Declared, IsFunction
    <2>2. itype'[d] = itype[d]
      BY <1>3, <2>1, QuietExit
    <2> QED
      BY <1>1, <1>2, <1>4, <1>6, <2>2 DEF ReturnsAgree
  <1> QED
    BY <1>5, <1>6

LEMMA NamesKept ==
    ASSUME InferTyped, Declared, NamesAgree, InferExit, ~change'
    PROVE  NamesAgree'
  <1>1. /\ IsTree(code) /\ code' = code /\ Exiting \in Nodes
        /\ Done' = Done \cup {Exiting} /\ itype'[Exiting] = Inferred(Exiting)
    BY InferExitDef
  <1>2. SUFFICES ASSUME NEW d \in Declarations, NEW k \in Done', Sole(d), Named(d, k),
                        funcMap'[NameOf(d)] # Untyped
                 PROVE  itype'[k] = funcMap'[NameOf(d)]
    BY <1>1, SameTree DEF NamesAgree
  <1>3. d \in Nodes /\ NameOf(d) \in FuncNames
    BY NameDef DEF InferTyped
  <1>4. Declared'
    BY DeclaredKept
  <1>5. Sole(d)' /\ d \in Declarations' /\ NameOf(d)' = NameOf(d)
    BY <1>1, <1>2, SameTree
  <1>6. funcMap'[NameOf(d)] = itype'[d] /\ IsFunction(itype'[d])
    BY <1>2, <1>4, <1>5 DEF Declared
  <1>7. itype[d] # Untyped
    BY <1>2, NamedTypes DEF Declared, IsFunction
  <1>8. itype'[d] = itype[d]
    BY <1>3, <1>7, QuietExit
  <1>9. funcMap[NameOf(d)] = itype[d]
    BY <1>2, <1>6, <1>8, NamedTypes DEF Declared
  <1>10. CASE k = Exiting
    <2>1. Inferred(k) = inferIdentifier(k)
      BY <1>2, InferredDef DEF Named
    <2>2. inferIdentifier(k) = funcMap[NameOf(d)]
      BY <1>2, <1>3, <1>7, <1>9 DEF inferIdentifier, Named
    <2> QED
      BY <1>1, <1>6, <1>8, <1>9, <1>10, <2>1, <2>2
  <1>11. CASE k # Exiting
    <2>1. k \in Done /\ k \in Nodes
      BY <1>1, <1>11 DEF Done
    <2>2. itype[k] = funcMap[NameOf(d)]
      BY <1>2, <1>7, <1>9, <2>1 DEF NamesAgree
    <2>3. itype'[k] = itype[k]
      BY <1>7, <1>9, <2>1, <2>2, QuietExit
    <2> QED
      BY <1>6, <1>8, <1>9, <2>2, <2>3
  <1> QED
    BY <1>10, <1>11

LEMMA CalleesKept ==
    ASSUME InferTyped, CalleesAgree, InferExit, ~change'
    PROVE  CalleesAgree'
  <1>1. /\ IsTree(code) /\ code' = code /\ Exiting \in Nodes
        /\ Done' = Done \cup {Exiting} /\ itype'[Exiting] = Inferred(Exiting)
    BY InferExitDef
  <1>2. SUFFICES ASSUME NEW k \in Done', code[k].kind = "Call", inferCall(k)' # Untyped
                 PROVE  itype'[k] = inferCall(k)'
    BY <1>1 DEF CalleesAgree
  <1>3. k \in Nodes
    BY <1>1 DEF Done
  <1>4. Child(k, 1) \in Children(k) /\ Child(k, 1)' = Child(k, 1)
    BY <1>1, <1>2, <1>3, CallDef, SameTree DEF InferTyped
  <1>5. itype'[Child(k, 1)] = itype[Child(k, 1)]
    <2>1. ~IsFunctionNode(k)
      BY <1>2 DEF IsFunctionNode
    <2> QED
      BY <1>3, <1>4, <2>1, QuietExit
  <1>6. inferCall(k)' = inferCall(k)
    BY <1>4, <1>5 DEF inferCall
  <1>7. CASE k = Exiting
    BY <1>1, <1>2, <1>6, <1>7, InferredDef
  <1>8. CASE k # Exiting
    <2>1. k \in Done
      BY <1>1, <1>8
    <2>2. itype[k] = inferCall(k)
      BY <1>2, <1>6, <2>1 DEF CalleesAgree
    <2>3. itype'[k] = itype[k]
      BY <1>2, <1>3, <1>6, <2>2, QuietExit
    <2> QED
      BY <1>6, <2>2, <2>3
  <1> QED
    BY <1>7, <1>8

LEMMA RawTyped ==
    ASSUME NEW k, NEW seen, Traced(seen)
    PROVE  IsType(RawType(k, seen))
  <1>1. ASSUME NEW name, name \in BuiltinNonConstructorNames PROVE IsType(getType(name))
    <2>1. getType("Math") = mathType /\ getType("Reflect") = reflectType
      BY DEF getType
    <2> QED
      BY <1>1, <2>1, NamedTypes DEF BuiltinNonConstructorNames
  <1>2. IsType(json2type(seen)) /\ IsType(Untyped) /\ IsType(voidType)
    BY SeenTyped, UntypedTyped, NamedTypes
  <1>3. IsType(ConstructorType(code[k].name))
    BY NamedTypes
  <1>4. \/ RawType(k, seen) \in {voidType, ConstructorType(code[k].name),
                                 Untyped, json2type(seen)}
        \/ /\ code[k].name \in BuiltinNonConstructorNames
           /\ RawType(k, seen) = getType(code[k].name)
    BY DEF RawType
  <1> QED
    BY <1>1, <1>2, <1>3, <1>4

LEMMA InferStarts ==
    ASSUME Init
    PROVE  InferInv
  <1>1. PICK p \in Programs :
            /\ code = p.code
            /\ itype = [k \in Nodes |-> RawType(k, p.seen[k])]
            /\ pc = "infer" /\ at = 1 /\ open = << >> /\ change = FALSE
            /\ funcMap = [n \in FuncNames |-> Untyped]
    BY DEF Init
  <1>2. /\ Parsed(code) /\ DOMAIN p.seen = Nodes
        /\ \A k \in Nodes : Traced(p.seen[k])
    BY <1>1, TypedASTAssumption DEF Nodes
  <1>3. IsTree(code)
    BY <1>2, ParsedIsTree
  <1>4. Walk
    BY <1>1, <1>3, WalkStarts DEF Walk
  <1>5. itype = [k \in Nodes |-> itype[k]] /\ \A k \in Nodes : IsType(itype[k])
    BY <1>1, <1>2, RawTyped
  <1>6. InferTyped
    BY <1>1, <1>2, <1>4, <1>5, UntypedTyped DEF InferTyped
  <1>7. Done = {}
    BY <1>1, <1>3, DoneStarts
  <1>8. Declared
    <2> SUFFICES ASSUME NEW d \in Declarations
                 PROVE  funcMap[NameOf(d)] = Untyped /\ itype[d] = voidType
      BY <1>7 DEF Declared
    <2>1. d \in Nodes /\ NameOf(d) \in FuncNames /\ code[d].kind = "FunctionDeclaration"
      BY <1>2, NameDef DEF Declarations
    <2>2. RawType(d, p.seen[d]) = voidType
      BY <2>1 DEF RawType, Statements
    <2> QED
      BY <1>1, <2>1, <2>2
  <1>9. ReturnsAgree /\ NamesAgree /\ CalleesAgree
    BY <1>7 DEF ReturnsAgree, NamesAgree, CalleesAgree
  <1> QED
    BY <1>1, <1>6, <1>8, <1>9 DEF InferInv

LEMMA InferKept ==
    ASSUME InferInv, [Next]_vars
    PROVE  InferInv'
  <1>1. CASE InferEnter
    <2>1. /\ pc = "infer" /\ MayEnter /\ code' = code /\ pc' = pc
          /\ open' = Append(open, at) /\ at' = at + 1
          /\ itype' = itype /\ change' = change /\ funcMap' = funcMap
      BY <1>1 DEF InferEnter, inferVars
    <2>2. /\ InferTyped /\ Declared
          /\ ~change => ReturnsAgree /\ NamesAgree /\ CalleesAgree
      BY <2>1 DEF InferInv
    <2>3. IsTree(code) /\ Walk
      BY <2>2, ParsedIsTree DEF InferTyped
    <2>4. Walk' /\ Done' = Done
      BY <2>1, <2>3, WalkEnters
    <2>5. InferTyped'
      <3>1. Parsed(code)
        BY <2>2 DEF InferTyped
      <3>2. Parsed(code)'
        BY <2>1, <3>1
      <3>3. Nodes' = Nodes
        BY <2>1, SameTree
      <3> QED
        BY <2>1, <2>2, <2>4, <3>2, <3>3 DEF InferTyped
    <2>6. Declared'
      BY <2>1, <2>2, <2>4, SameTree DEF Declared
    <2>7. ReturnsAgree => ReturnsAgree'
      <3>1. \A d \in Declarations : findRetType(d)' = findRetType(d)
        <4> SUFFICES ASSUME NEW d \in Declarations
                     PROVE  findRetType(d)' = findRetType(d)
          OBVIOUS
        <4>1. d \in Nodes
          BY DEF Declarations
        <4> QED
          BY <2>1, <2>3, <4>1, RetTypeDef
      <3> QED
        BY <2>1, <2>4, <3>1, SameTree DEF ReturnsAgree
    <2>8. NamesAgree => NamesAgree'
      BY <2>1, <2>4, SameTree DEF NamesAgree
    <2>9. CalleesAgree => CalleesAgree'
      <3>1. \A k : inferCall(k)' = inferCall(k)
        BY <2>1, SameTree DEF inferCall
      <3> QED
        BY <2>1, <2>4, <3>1 DEF CalleesAgree
    <2> QED
      BY <2>1, <2>2, <2>5, <2>6, <2>7, <2>8, <2>9 DEF InferInv
  <1>2. CASE InferExit
    <2>1. pc = "infer" /\ pc' = "infer"
      BY <1>2 DEF InferExit
    <2>2. /\ InferTyped /\ Declared
          /\ ~change => ReturnsAgree /\ NamesAgree /\ CalleesAgree
      BY <2>1 DEF InferInv
    <2>3. InferTyped' /\ Declared'
      BY <1>2, <2>2, InferTypedKept, DeclaredKept
    <2>4. ASSUME ~change' PROVE ReturnsAgree' /\ NamesAgree' /\ CalleesAgree'
      <3>1. ~change
        BY <1>2, <2>2, <2>4, QuietExit
      <3> QED
        BY <1>2, <2>2, <2>4, <3>1, ReturnsKept, NamesKept, CalleesKept
    <2> QED
      BY <2>1, <2>3, <2>4 DEF InferInv
  <1>3. CASE EndRound
    <2>1. /\ pc = "infer" /\ Traversed /\ code' = code /\ open' = open
          /\ itype' = itype /\ funcMap' = funcMap
      BY <1>3 DEF EndRound
    <2>2. /\ InferTyped /\ Declared
          /\ ~change => ReturnsAgree /\ NamesAgree /\ CalleesAgree
      BY <2>1 DEF InferInv
    <2>3. IsTree(code) /\ Walk /\ Parsed(code)
      BY <2>2, ParsedIsTree DEF InferTyped
    <2>4. Nodes' = Nodes /\ Parsed(code)'
      BY <2>1, <2>3, SameTree
    <2>5. CASE Again
      <3>1. change' = FALSE /\ at' = 1 /\ pc' = "infer"
        BY <1>3, <2>1, <2>5 DEF EndRound
      <3>2. IsTree(code)'
        BY <2>1, <2>3
      <3>3. Walks(code, 1, << >>)
        BY <2>3, WalkStarts
      <3>4. Walk'
        BY <2>1, <3>1, <3>3 DEF Walk, Traversed
      <3>5. Done' = {}
        BY <2>1, <2>3, <3>1, NodesDef DEF Done, Nodes
      <3>6. InferTyped'
        BY <2>1, <2>2, <2>4, <3>1, <3>4 DEF InferTyped
      <3>7. Declared'
        BY <2>1, <2>2, <3>5, SameTree DEF Declared
      <3>8. ReturnsAgree' /\ NamesAgree' /\ CalleesAgree'
        BY <3>5 DEF ReturnsAgree, NamesAgree, CalleesAgree
      <3> QED
        BY <3>1, <3>6, <3>7, <3>8 DEF InferInv
    <2>6. CASE ~Again
      <3>1. pc' = "typed" /\ change' = change /\ at' = at
        BY <1>3, <2>1, <2>6 DEF EndRound
      <3>2. Done = Nodes
        BY <2>1, <2>3, WalkEnds
      <3>3. Walk' /\ Done' = Done
        BY <2>1, <2>3, <3>1 DEF Walk, Done, Nodes
      <3>4. InferTyped'
        BY <2>1, <2>2, <2>4, <3>1, <3>3 DEF InferTyped
      <3>5. Declared'
        BY <2>1, <2>2, <3>3, SameTree DEF Declared
      <3>6. ReturnsAgree => ReturnsAgree'
        <4>1. \A d \in Declarations : findRetType(d)' = findRetType(d)
          <5> SUFFICES ASSUME NEW d \in Declarations
                       PROVE  findRetType(d)' = findRetType(d)
            OBVIOUS
          <5>1. d \in Nodes
            BY DEF Declarations
          <5> QED
            BY <2>1, <2>3, <5>1, RetTypeDef
        <4> QED
          BY <2>1, <3>3, <4>1, SameTree DEF ReturnsAgree
      <3>7. NamesAgree => NamesAgree'
        BY <2>1, <3>3, SameTree DEF NamesAgree
      <3>8. CalleesAgree => CalleesAgree'
        <4>1. \A k : inferCall(k)' = inferCall(k)
          BY <2>1, SameTree DEF inferCall
        <4> QED
          BY <2>1, <3>3, <4>1 DEF CalleesAgree
      <3> QED
        BY <2>2, <2>4, <3>1, <3>2, <3>3, <3>4, <3>5, <3>6, <3>7, <3>8 DEF InferInv
    <2> QED
      BY <2>5, <2>6
  <1>4. CASE writeToFile \/ Parse \/ ParseEnter \/ ParseExit \/ ParseEnd \/ MutateNode
    <2>1. pc' \notin {"infer", "typed"}
      BY <1>4 DEF writeToFile, Parse, ParseEnter, ParseExit, ParseEnd, MutateNode
    <2> QED
      BY <2>1 DEF InferInv
  <1>5. CASE UNCHANGED vars
    <2>1. /\ code' = code /\ itype' = itype /\ pc' = pc /\ at' = at /\ open' = open
          /\ change' = change /\ funcMap' = funcMap
      BY <1>5 DEF vars
    <2>2. SUFFICES ASSUME pc \in {"infer", "typed"} PROVE InferInv'
      BY <2>1 DEF InferInv
    <2>3. /\ InferTyped /\ Declared
          /\ ~change => ReturnsAgree /\ NamesAgree /\ CalleesAgree
          /\ pc = "typed" => Done = Nodes
      BY <2>2 DEF InferInv
    <2>4. IsTree(code) /\ Parsed(code) /\ Walk
      BY <2>3, ParsedIsTree DEF InferTyped
    <2>5. Parsed(code)' /\ Nodes' = Nodes
      BY <2>1, <2>4, SameTree
    <2>6. Walk' /\ Done' = Done
      BY <2>1, <2>4 DEF Walk, Done, Nodes
    <2>7. InferTyped'
      BY <2>1, <2>3, <2>5, <2>6 DEF InferTyped
    <2>8. Declared'
      BY <2>1, <2>3, <2>6, SameTree DEF Declared
    <2>9. ReturnsAgree => ReturnsAgree'
      <3>1. \A d \in Declarations : findRetType(d)' = findRetType(d)
        <4> SUFFICES ASSUME NEW d \in Declarations
                     PROVE  findRetType(d)' = findRetType(d)
          OBVIOUS
        <4>1. d \in Nodes
          BY DEF Declarations
        <4> QED
          BY <2>1, <2>4, <4>1, RetTypeDef
      <3> QED
        BY <2>1, <2>6, <3>1, SameTree DEF ReturnsAgree
    <2>10. NamesAgree => NamesAgree'
      BY <2>1, <2>6, SameTree DEF NamesAgree
    <2>11. CalleesAgree => CalleesAgree'
      <3>1. \A k : inferCall(k)' = inferCall(k)
        BY <2>1, SameTree DEF inferCall
      <3> QED
        BY <2>1, <2>6, <3>1 DEF CalleesAgree
    <2> QED
      BY <2>1, <2>3, <2>5, <2>6, <2>7, <2>8, <2>9, <2>10, <2>11 DEF InferInv
  <1> QED
    BY <1>1, <1>2, <1>3, <1>4, <1>5 DEF Next

LEMMA CallsFollow ==
    ASSUME InferInv
    PROVE  CallsAgree
  <1> SUFFICES ASSUME pc = "typed", ~change,
                      NEW d \in Declarations, NEW k \in Nodes,
                      code[k].kind = "Call", Named(d, Child(k, 1)), Sole(d),
                      findRetType(d) # Untyped
               PROVE  itype[k] = findRetType(d)
    BY DEF CallsAgree
  <1>1. /\ InferTyped /\ Declared /\ ReturnsAgree /\ NamesAgree /\ CalleesAgree
        /\ Done = Nodes /\ Parsed(code)
    BY DEF InferInv, InferTyped
  <1>2. d \in Nodes
    BY DEF Declarations
  <1>3. Child(k, 1) \in Nodes
    BY <1>1, CallDef
  <1>4. funcMap[NameOf(d)] = itype[d] /\ IsFunction(itype[d])
    BY <1>1, <1>2 DEF Declared
  <1>5. funcMap[NameOf(d)] # Untyped
    BY <1>4 DEF IsFunction
  <1>6. itype[Child(k, 1)] = itype[d]
    BY <1>1, <1>3, <1>4, <1>5 DEF NamesAgree
  <1>7. Ret(itype[d]) = findRetType(d)
    BY <1>1, <1>2 DEF ReturnsAgree
  <1>8. inferCall(k) = findRetType(d)
    BY <1>4, <1>6, <1>7 DEF inferCall
  <1> QED
    BY <1>1, <1>8 DEF CalleesAgree

(* Whatever the program and however many functions the types come through: *)
(* where infer() ends in a round without a change, a call of a function    *)
(* has the type that the function returns (esinfer.ts, Inferer.infer).     *)
THEOREM CallsAlwaysAgree == Spec => []CallsAgree
  <1>1. Init => InferInv
    BY InferStarts
  <1>2. InferInv /\ [Next]_vars => InferInv'
    BY InferKept
  <1>3. InferInv => CallsAgree
    BY CallsFollow
  <1> QED
    BY <1>1, <1>2, <1>3, PTL DEF Spec
-----------------------------------------------------------------------------
(***************************************************************************)
(* What is written is parsed again: numbers that a literal denotes stay in *)
(* their place.                                                            *)
(***************************************************************************)
Writable(tree) ==
    /\ IsTree(tree)
    /\ \A k \in DOMAIN tree :
          tree[k].kind = "Number" => tree[k].name \notin {"negative", "minusInfinity"}
Written(node) == IF node.kind = "Number" THEN Literal(node) ELSE node
SameAs(node, old) ==
    \/ node = old
    \/ /\ node.depth = old.depth /\ node.kind = "Identifier" /\ old.name \in Nameable

LEMMA FlattenSingletons ==
    ASSUME NEW S, NEW s \in Seq(S), s # << >>
    PROVE  FlattenSeq([k \in DOMAIN s |-> <<s[k]>>]) = s
  <1> DEFINE L == Len(s)
             seqs == [k \in DOMAIN s |-> <<s[k]>>]
             upto(n) == [j \in 1..n |-> s[j]]
             flatten == CHOOSE f : f = [n \in 1..L |-> IF n = 1 THEN seqs[n]
                                                       ELSE f[n - 1] \o seqs[n]]
  <1>1. L \in Nat \ {0} /\ DOMAIN s = 1..L /\ \A j \in 1..L : s[j] \in S
    BY EmptySeq
  <1>2. /\ \A n \in 1..L : seqs[n] = <<s[n]>>
        /\ Len(seqs) = L
    <2>1. seqs \in [1..L -> {<<x>> : x \in S}]
      BY <1>1
    <2>2. DOMAIN seqs = 1..L
      BY <1>1
    <2>3. seqs \in Seq({<<x>> : x \in S})
      BY <1>1, <2>1
    <2>4. Len(seqs) = L
      BY <1>1, <2>2, <2>3
    <2> QED
      BY <1>1, <2>4
  <1> HIDE DEF L, seqs
  <1>3. ASSUME NEW n \in 1..L
        PROVE  upto(n) \in Seq(S) /\ Len(upto(n)) = n
    <2>1. n \in Nat /\ \A j \in 1..n : s[j] \in S
      BY <1>1
    <2>2. upto(n) \in [1..n -> S]
      BY <2>1
    <2> QED
      BY <2>1, <2>2
  <1>4. upto(1) = <<s[1]>>
    <2>1. upto(1) \in Seq(S) /\ Len(upto(1)) = 1 /\ upto(1)[1] = s[1]
      BY <1>1, <1>3
    <2>2. <<s[1]>> \in Seq(S) /\ Len(<<s[1]>>) = 1 /\ <<s[1]>>[1] = s[1]
      BY <1>1
    <2> HIDE DEF upto
    <2> QED
      BY <2>1, <2>2, SeqEqual
  <1>5. ASSUME NEW n \in 1..L, n # 1 PROVE upto(n) = upto(n - 1) \o <<s[n]>>
    <2>1. /\ n \in Nat /\ n - 1 \in 1..L /\ (n - 1) + 1 = n
      BY <1>1, <1>5
    <2>2. /\ upto(n) \in Seq(S) /\ Len(upto(n)) = n
          /\ upto(n - 1) \in Seq(S) /\ Len(upto(n - 1)) = n - 1
      BY <1>3, <2>1
    <2>3. <<s[n]>> \in Seq(S) /\ Len(<<s[n]>>) = 1 /\ <<s[n]>>[1] = s[n]
      BY <1>1
    <2>4. /\ \A j \in 1..n : upto(n)[j] = s[j]
          /\ \A j \in 1..n - 1 : upto(n - 1)[j] = s[j]
      OBVIOUS
    <2> HIDE DEF upto
    <2> DEFINE c == upto(n - 1) \o <<s[n]>>
    <2>5. /\ c \in Seq(S) /\ Len(c) = (n - 1) + 1
          /\ \A j \in 1..(n - 1) + 1 :
                c[j] = IF j <= n - 1 THEN upto(n - 1)[j] ELSE <<s[n]>>[j - (n - 1)]
      BY <2>2, <2>3, ConcatProperties
    <2> HIDE DEF c
    <2>6. ASSUME NEW j \in 1..n PROVE c[j] = upto(n)[j]
      <3>1. CASE j = n
        <4>1. j \in 1..(n - 1) + 1 /\ ~(j <= n - 1) /\ j - (n - 1) = 1
          BY <2>1, <3>1
        <4> QED
          BY <2>3, <2>4, <2>5, <3>1, <4>1
      <3>2. CASE j # n
        <4>1. j \in 1..n - 1 /\ j \in 1..(n - 1) + 1 /\ j <= n - 1
          BY <2>1, <3>2
        <4> QED
          BY <2>4, <2>5, <4>1
      <3> QED
        BY <3>1, <3>2
    <2>7. c = upto(n)
      BY <2>1, <2>2, <2>5, <2>6, SeqEqual
    <2> QED
      BY <2>7 DEF c
  <1> HIDE DEF upto
  <1> DEFINE w == [n \in 1..L |-> upto(n)]
  <1>6. w = [n \in 1..L |-> IF n = 1 THEN seqs[n] ELSE w[n - 1] \o seqs[n]]
    <2>1. ASSUME NEW n \in 1..L
          PROVE  upto(n) = IF n = 1 THEN seqs[n] ELSE w[n - 1] \o seqs[n]
      <3>1. CASE n = 1
        BY <1>2, <1>4, <3>1
      <3>2. CASE n # 1
        <4>1. n - 1 \in 1..L
          BY <1>1, <3>2
        <4> QED
          BY <1>2, <1>5, <3>2, <4>1
      <3> QED
        BY <3>1, <3>2
    <2> QED
      BY <2>1
  <1>7. flatten = [n \in 1..L |-> IF n = 1 THEN seqs[n] ELSE flatten[n - 1] \o seqs[n]]
    <2> HIDE DEF w
    <2> QED
      BY <1>6
  <1> HIDE DEF flatten
  <1>8. ASSUME NEW n \in 1..L PROVE flatten[n] = upto(n)
    <2> DEFINE Bad == {m \in 1..L : flatten[m] # upto(m)}
    <2>1. SUFFICES ASSUME Bad # {} PROVE FALSE
      OBVIOUS
    <2>2. Bad \subseteq Nat
      BY <1>1
    <2>3. PICK m \in Bad : \A x \in Bad : m <= x
      <3> HIDE DEF Bad
      <3> QED
        BY <2>1, <2>2, LeastExists
    <2>4. CASE m = 1
      BY <1>1, <1>2, <1>4, <1>7, <2>4
    <2>5. CASE m # 1
      <3>1. m - 1 \in 1..L /\ ~(m <= m - 1)
        BY <1>1, <2>5
      <3>2. flatten[m - 1] = upto(m - 1)
        BY <2>3, <3>1
      <3>3. flatten[m] = flatten[m - 1] \o seqs[m]
        BY <1>7, <2>5
      <3> QED
        BY <1>2, <1>5, <2>5, <3>2, <3>3
    <2> QED
      BY <2>4, <2>5
  <1>9. upto(L) = s
    <2>1. L \in 1..L
      BY <1>1
    <2>2. upto(L) \in Seq(S) /\ Len(upto(L)) = L
      BY <1>3, <2>1
    <2>3. \A j \in 1..L : upto(L)[j] = s[j]
      BY DEF upto
    <2> QED
      BY <2>2, <2>3, SeqEqual DEF L
  <1>10. FlattenSeq(seqs) = flatten[L]
    BY <1>1, <1>2 DEF FlattenSeq, flatten
  <1> QED
    BY <1>1, <1>8, <1>9, <1>10 DEF seqs

LEMMA WrittenDef ==
    ASSUME NEW node, IsNode(node),
           node.kind = "Number" => node.name \notin {"negative", "minusInfinity"}
    PROVE  /\ Reparsed(node) = <<Written(node)>> /\ IsNode(Written(node))
           /\ Written(node).depth = node.depth /\ SameAs(Written(node), node)
           /\ Written(node).kind = "Number" => Written(node) = node
  <1>1. CASE node.kind # "Number"
    BY <1>1 DEF Reparsed, Written, SameAs
  <1>2. CASE node.kind = "Number" /\ node.name \in Nameable
    <2>1. Written(node) = [node EXCEPT !.kind = "Identifier"]
      BY <1>2 DEF Written, Literal
    <2> DEFINE new == [kind |-> "Identifier", name |-> node.name, depth |-> node.depth]
    <2>4. Written(node) = new
      BY <2>1 DEF IsNode
    <2>5. new.depth = node.depth /\ new.kind = "Identifier" /\ new.name = node.name
          /\ node.depth \in Nat
      BY DEF IsNode
    <2>6. IsNode(new)
      <3>1. new = [kind |-> new.kind, name |-> new.name, depth |-> new.depth]
        OBVIOUS
      <3> QED
        BY <2>5, <3>1 DEF IsNode
    <2> HIDE DEF new
    <2>2. /\ IsNode(Written(node)) /\ Written(node).depth = node.depth
          /\ Written(node).kind = "Identifier"
      BY <2>4, <2>5, <2>6
    <2>3. Reparsed(node) = <<Written(node)>>
      BY <1>2 DEF Reparsed, Written
    <2> QED
      BY <1>2, <2>2, <2>3 DEF SameAs
  <1>3. CASE node.kind = "Number" /\ node.name \notin Nameable
    <2>1. Written(node) = node
      BY <1>3 DEF Written, Literal
    <2>2. Reparsed(node) = <<Written(node)>>
      BY <1>3 DEF Reparsed, Written
    <2> QED
      BY <2>1, <2>2 DEF SameAs
  <1> QED
    BY <1>1, <1>2, <1>3

LEMMA PrintedDef ==
    ASSUME NEW tree, Writable(tree)
    PROVE  /\ Writable(Printed(tree)) /\ DOMAIN Printed(tree) = DOMAIN tree
           /\ \A k \in DOMAIN tree : SameAs(Printed(tree)[k], tree[k])
  <1> DEFINE w == [k \in 1..Len(tree) |-> Written(tree[k])]
  <1>1. /\ IsTree(tree) /\ tree \in Seq(Range(tree)) /\ tree # << >>
        /\ Len(tree) \in Nat \ {0} /\ DOMAIN tree = 1..Len(tree)
        /\ \A k \in 1..Len(tree) : IsNode(tree[k])
    BY EmptySeq DEF Writable, IsTree
  <1>2. ASSUME NEW k \in 1..Len(tree)
        PROVE  /\ Reparsed(tree[k]) = <<Written(tree[k])>>
               /\ IsNode(Written(tree[k]))
               /\ Written(tree[k]).depth = tree[k].depth
               /\ SameAs(Written(tree[k]), tree[k])
               /\ Written(tree[k]).kind = "Number" => Written(tree[k]) = tree[k]
    BY <1>1, WrittenDef DEF Writable
  <1>3. /\ w \in Seq(Range(w)) /\ DOMAIN w = 1..Len(tree) /\ Len(w) = Len(tree)
        /\ \A k \in 1..Len(tree) : w[k] = Written(tree[k])
    <2>1. w \in [1..Len(tree) -> Range(w)]
      BY DEF Range
    <2> QED
      BY <1>1, <2>1
  <1>4. w # << >>
    BY <1>1, <1>3
  <1> HIDE DEF w
  <1>5. Printed(tree) = w
    <2>1. [k \in DOMAIN tree |-> Reparsed(tree[k])] = [k \in DOMAIN w |-> <<w[k]>>]
      BY <1>1, <1>2, <1>3
    <2> QED
      BY <1>3, <1>4, <2>1, FlattenSingletons DEF Printed
  <1>6. IsTree(w)
    <2>1. 1 \in 1..Len(tree) /\ w[1].depth = 0
      BY <1>1, <1>2, <1>3 DEF IsTree
    <2>2. ASSUME NEW k \in 2..Len(w) PROVE w[k].depth \in 1..w[k - 1].depth + 1
      <3>1. k \in 2..Len(tree) /\ k \in 1..Len(tree) /\ k - 1 \in 1..Len(tree)
        BY <1>1, <1>3
      <3> QED
        BY <1>1, <1>2, <1>3, <3>1 DEF IsTree
    <2> QED
      BY <1>2, <1>3, <1>4, <2>1, <2>2 DEF IsTree
  <1>7. \A k \in DOMAIN w : w[k].kind = "Number" => w[k].name \notin {"negative", "minusInfinity"}
    BY <1>1, <1>2, <1>3 DEF Writable
  <1> QED
    BY <1>1, <1>2, <1>3, <1>5, <1>6, <1>7 DEF Writable

(* What takes the place of a node and what lies below it.                  *)
Puts(r, s, new, k, e, m, l, S) ==
    /\ r \in Seq(S) /\ Len(r) = k - 1 + m + l - e
    /\ \A j \in 1..k - 1 : r[j] = s[j]
    /\ \A j \in 1..m : r[k - 1 + j] = new[j]
    /\ \A j \in e + 1..l : r[k - 1 + m + j - e] = s[j]
LEMMA ReplacedDef ==
    ASSUME NEW S, NEW s \in Seq(S), NEW new \in Seq(S),
           NEW k \in Nat, NEW e \in Nat, NEW m \in Nat, NEW l \in Nat,
           Len(s) = l, Len(new) = m, 1 <= k, k <= e, e <= l,
           Below(k) = k + 1..e, Cardinality(Below(k)) = e - k
    PROVE  Puts(Replaced(s, k, new), s, new, k, e, m, l, S)
  <1> DEFINE q == k - 1
             z == l - e
             p == q + m
             first == e + 1
             a == SubSeq(s, 1, q)
             b == a \o new
             c == SubSeq(s, first, l)
             r == b \o c
  <1>1. \A j \in 1..l : s[j] \in S
    OBVIOUS
  <1>2. q \in Nat /\ z \in Nat /\ p \in Nat /\ first \in Nat /\ 1 \in Int
    OBVIOUS
  <1>3. Replaced(s, k, new) = r
    <2>1. k + 1 + (e - k) = first
      OBVIOUS
    <2> QED
      BY <2>1 DEF Replaced
  <1>4. /\ a \in Seq(S) /\ Len(a) = q /\ \A j \in 1..q : a[j] = s[j]
    <2>1. \A j \in 1..q : s[j] \in S
      BY <1>1
    <2> HIDE DEF q
    <2>2. /\ a \in Seq(S) /\ Len(a) = IF 1 <= q THEN q - 1 + 1 ELSE 0
          /\ \A j \in 1..q - 1 + 1 : a[j] = s[1 + j - 1]
      BY <1>2, <2>1, SubSeqProperties
    <2> HIDE DEF a
    <2>3. \A j \in 1..q : j \in 1..q - 1 + 1 /\ 1 + j - 1 = j
      BY <1>2
    <2>4. Len(a) = q
      BY <1>2, <2>2
    <2>5. \A j \in 1..q : a[j] = s[j]
      BY <2>2, <2>3
    <2> QED
      BY <2>2, <2>4, <2>5
  <1>5. /\ c \in Seq(S) /\ Len(c) = z /\ \A j \in 1..z : c[j] = s[e + j]
    <2>1. \A j \in first..l : s[j] \in S
      BY <1>1
    <2>2. first = e + 1 /\ z = l - e
      OBVIOUS
    <2> HIDE DEF first, z, a
    <2>3. /\ c \in Seq(S) /\ Len(c) = IF first <= l THEN l - first + 1 ELSE 0
          /\ \A j \in 1..l - first + 1 : c[j] = s[first + j - 1]
      BY <1>2, <2>1, SubSeqProperties
    <2> HIDE DEF c
    <2>4. \A j \in 1..z : j \in 1..l - first + 1 /\ first + j - 1 = e + j
      BY <1>2, <2>2
    <2>5. Len(c) = z
      BY <1>2, <2>2, <2>3
    <2>6. \A j \in 1..z : c[j] = s[e + j]
      BY <2>3, <2>4
    <2> QED
      BY <2>3, <2>5, <2>6
  <1> HIDE DEF a, c
  <1>6. /\ b \in Seq(S) /\ Len(b) = q + m
        /\ \A j \in 1..q + m : b[j] = IF j <= q THEN a[j] ELSE new[j - q]
    <2> HIDE DEF q
    <2> QED
      BY <1>4, ConcatProperties
  <1> HIDE DEF b
  <1>7. /\ r \in Seq(S) /\ Len(r) = p + z
        /\ \A j \in 1..p + z : r[j] = IF j <= p THEN b[j] ELSE c[j - p]
    <2>1. b \in Seq(S) /\ Len(b) = p
      BY <1>6
    <2>2. c \in Seq(S) /\ Len(c) = z
      BY <1>5
    <2> HIDE DEF p, z, q, first
    <2>3. /\ b \o c \in Seq(S) /\ Len(b \o c) = Len(b) + Len(c)
          /\ \A j \in 1..Len(b) + Len(c) :
                (b \o c)[j] = IF j <= Len(b) THEN b[j] ELSE c[j - Len(b)]
      BY <2>1, <2>2, ConcatProperties
    <2> QED
      BY <2>1, <2>2, <2>3
  <1> HIDE DEF r
  <1>8. ASSUME NEW j \in 1..k - 1 PROVE r[j] = s[j]
    <2>1. j \in 1..q /\ j \in 1..q + m /\ j <= q /\ j \in 1..p + z /\ j <= p
      OBVIOUS
    <2> QED
      BY <1>4, <1>6, <1>7, <2>1
  <1>9. ASSUME NEW j \in 1..m PROVE r[k - 1 + j] = new[j]
    <2> DEFINE i == q + j
    <2>1. /\ i \in 1..p + z /\ i <= p /\ i \in 1..q + m /\ ~(i <= q) /\ i - q = j
      OBVIOUS
    <2>2. i = k - 1 + j
      OBVIOUS
    <2> HIDE DEF i
    <2>3. r[i] = new[j]
      BY <1>6, <1>7, <2>1
    <2> QED
      BY <2>2, <2>3
  <1>10. ASSUME NEW j \in e + 1..l PROVE r[k - 1 + m + j - e] = s[j]
    <2> DEFINE i == p + (j - e)
    <2>1. j \in Nat /\ e < j /\ j <= l
      OBVIOUS
    <2>2. /\ i \in 1..p + z /\ ~(i <= p) /\ i - p = j - e
          /\ j - e \in 1..z /\ e + (j - e) = j
      BY <1>2, <2>1
    <2>3. i = k - 1 + m + j - e
      BY <1>2, <2>1
    <2> HIDE DEF i
    <2>4. r[i] = c[j - e]
      BY <1>7, <2>2
    <2>5. c[j - e] = s[j]
      BY <1>5, <2>2
    <2> QED
      BY <2>3, <2>4, <2>5
  <1>11. p + z = k - 1 + m + l - e
    OBVIOUS
  <1> QED
    BY <1>3, <1>7, <1>8, <1>9, <1>10, <1>11 DEF Puts

LEMMA TupleDef ==
    ASSUME NEW m \in Nat, NEW s, s = [j \in 1..m |-> s[j]]
    PROVE  s \in Seq(Range(s)) /\ Len(s) = m /\ DOMAIN s = 1..m
  <1>1. DOMAIN s = 1..m
    OBVIOUS
  <1>2. s \in [1..m -> Range(s)]
    BY <1>1 DEF Range
  <1>3. s \in Seq(Range(s))
    BY <1>2
  <1>4. Len(s) \in Nat /\ DOMAIN s = 1..Len(s)
    BY <1>3, LenProperties
  <1>5. Len(s) = m
    BY <1>1, <1>4
  <1> QED
    BY <1>1, <1>3, <1>5

(* What is built in place of an expression, with its types.                *)
Fits(new, depth) ==
    \E m \in Nat \ {0} :
        /\ new.code = [j \in 1..m |-> new.code[j]]
        /\ new.types = [j \in 1..m |-> new.types[j]]
        /\ \A j \in 1..m :
              /\ IsNode(new.code[j]) /\ IsType(new.types[j])
              /\ new.code[j].depth = IF j = 1 THEN depth ELSE depth + 1
              /\ new.code[j].kind = "Number" =>
                    new.code[j].name \notin {"negative", "minusInfinity"}

LEMMA NodeDef ==
    ASSUME NEW kind, NEW name, NEW depth \in Nat
    PROVE  /\ IsNode(Node(kind, name, depth)) /\ Node(kind, name, depth).kind = kind
           /\ Node(kind, name, depth).name = name
           /\ Node(kind, name, depth).depth = depth
  BY DEF Node, IsNode

LEMMA FitsOne ==
    ASSUME NEW new, NEW depth \in Nat, NEW a, NEW t, new.code = <<a>>,
           new.types = [j \in DOMAIN new.code |-> t] \/ new.types = <<t>>,
           IsNode(a), IsType(t), a.depth = depth,
           a.kind = "Number" => a.name \notin {"negative", "minusInfinity"}
    PROVE  Fits(new, depth)
  <1>1. /\ new.code = [j \in 1..1 |-> new.code[j]]
        /\ \A j \in 1..1 : j = 1 /\ new.code[j] = a
    OBVIOUS
  <1>2. DOMAIN new.code = 1..1
    BY <1>1
  <1>3. /\ new.types = [j \in 1..1 |-> new.types[j]]
        /\ \A j \in 1..1 : new.types[j] = t
    BY <1>2
  <1>4. 1 \in Nat \ {0}
    OBVIOUS
  <1>5. \A j \in 1..1 :
           /\ IsNode(new.code[j]) /\ IsType(new.types[j])
           /\ new.code[j].depth = IF j = 1 THEN depth ELSE depth + 1
           /\ new.code[j].kind = "Number" =>
                 new.code[j].name \notin {"negative", "minusInfinity"}
    BY <1>1, <1>3
  <1> QED
    BY <1>1, <1>3, <1>4, <1>5 DEF Fits

LEMMA FitsTwo ==
    ASSUME NEW new, NEW depth \in Nat, NEW a, NEW b, NEW s, NEW t,
           new.code = <<a, b>>,
           (new.types = [j \in DOMAIN new.code |-> t] /\ s = t) \/ new.types = <<s, t>>,
           IsNode(a), IsNode(b), IsType(s), IsType(t),
           a.depth = depth, b.depth = depth + 1, a.kind # "Number",
           b.kind = "Number" => b.name \notin {"negative", "minusInfinity"}
    PROVE  Fits(new, depth)
  <1>1. /\ new.code = [j \in 1..2 |-> new.code[j]]
        /\ new.code[1] = a /\ new.code[2] = b
    OBVIOUS
  <1>2. DOMAIN new.code = 1..2
    BY <1>1
  <1>3. /\ new.types = [j \in 1..2 |-> new.types[j]]
        /\ new.types[1] = s /\ new.types[2] = t
    BY <1>2
  <1>4. 2 \in Nat \ {0} /\ \A j \in 1..2 : j = 1 \/ j = 2
    OBVIOUS
  <1>5. \A j \in 1..2 :
           /\ IsNode(new.code[j]) /\ IsType(new.types[j])
           /\ new.code[j].depth = IF j = 1 THEN depth ELSE depth + 1
           /\ new.code[j].kind = "Number" =>
                 new.code[j].name \notin {"negative", "minusInfinity"}
    BY <1>1, <1>3, <1>4
  <1> QED
    BY <1>1, <1>3, <1>4, <1>5 DEF Fits

LEMMA BuiltDef ==
    ASSUME NEW depth \in Nat, NEW new \in Built(depth)
    PROVE  Fits(new, depth)
  <1>1. depth + 1 \in Nat
    OBVIOUS
  <1>2. CASE \E c \in buildNumber(depth) :
                new = [code |-> c, types |-> [j \in DOMAIN c |-> numberType]]
    <2>1. PICK c \in buildNumber(depth) :
              new = [code |-> c, types |-> [j \in DOMAIN c |-> numberType]]
      BY <1>2
    <2>2. new.code = c /\ new.types = [j \in DOMAIN new.code |-> numberType]
      BY <2>1
    <2>3. PICK n \in gen :
              c = IF n \notin DOMAIN Negated THEN <<Node("Number", n, depth)>>
                  ELSE <<Node("Unary", "-", depth), Node("Number", Negated[n], depth + 1)>>
      BY <2>1 DEF buildNumber
    <2>4. DOMAIN Negated = {"negative", "NaN", "minusInfinity"}
          /\ \A x \in DOMAIN Negated : Negated[x] \in {"positive", "NaN", "Infinity"}
      BY DEF Negated
    <2>5. IsType(numberType)
      BY NamedTypes
    <2>6. CASE n \notin DOMAIN Negated
      <3> DEFINE a == Node("Number", n, depth)
      <3>1. IsNode(a) /\ a.depth = depth /\ a.name = n
        BY NodeDef
      <3>2. new.code = <<a>> /\ n \notin {"negative", "minusInfinity"}
        BY <2>2, <2>3, <2>4, <2>6
      <3> HIDE DEF a
      <3> QED
        BY <2>2, <2>5, <3>1, <3>2, FitsOne
    <2>7. CASE n \in DOMAIN Negated
      <3> DEFINE a == Node("Unary", "-", depth)
                 b == Node("Number", Negated[n], depth + 1)
      <3>1. /\ IsNode(a) /\ a.depth = depth /\ a.kind = "Unary"
            /\ IsNode(b) /\ b.depth = depth + 1 /\ b.name = Negated[n]
        BY <1>1, NodeDef
      <3>2. new.code = <<a, b>> /\ b.name \notin {"negative", "minusInfinity"}
        BY <2>2, <2>3, <2>4, <2>7, <3>1
      <3>3. a.kind # "Number"
        BY <3>1
      <3> HIDE DEF a, b
      <3> QED
        BY <2>2, <2>5, <3>1, <3>2, <3>3, FitsTwo
    <2> QED
      BY <2>6, <2>7
  <1>3. CASE new = [code |-> buildPrototype(depth),
                    types |-> <<PrototypeType("Array"), ConstructorType("Array"), voidType>>]
    <2> DEFINE a == Node("Member", "", depth)
               b == Node("Identifier", "Array", depth + 1)
               c == Node("Identifier", "prototype", depth + 1)
    <2>1. /\ IsNode(a) /\ a.depth = depth /\ a.kind = "Member"
          /\ IsNode(b) /\ b.depth = depth + 1 /\ b.kind = "Identifier"
          /\ IsNode(c) /\ c.depth = depth + 1 /\ c.kind = "Identifier"
      <3>1. \A kind, name : /\ IsNode(Node(kind, name, depth))
                            /\ Node(kind, name, depth).kind = kind
                            /\ Node(kind, name, depth).depth = depth
        BY NodeDef
      <3>2. \A kind, name : /\ IsNode(Node(kind, name, depth + 1))
                            /\ Node(kind, name, depth + 1).kind = kind
                            /\ Node(kind, name, depth + 1).depth = depth + 1
        BY <1>1, NodeDef
      <3> QED
        BY <3>1, <3>2
    <2>2. new.code = <<a, b, c>>
          /\ new.types = <<PrototypeType("Array"), ConstructorType("Array"), voidType>>
      BY <1>3 DEF buildPrototype
    <2> HIDE DEF a, b, c
    <2>3. /\ new.code = [j \in 1..3 |-> new.code[j]]
          /\ new.code[1] = a /\ new.code[2] = b /\ new.code[3] = c
      BY <2>2
    <2>4. /\ new.types = [j \in 1..3 |-> new.types[j]]
          /\ new.types[1] = PrototypeType("Array")
          /\ new.types[2] = ConstructorType("Array") /\ new.types[3] = voidType
      BY <2>2
    <2>5. 3 \in Nat \ {0} /\ \A j \in 1..3 : j = 1 \/ j = 2 \/ j = 3
      OBVIOUS
    <2>6. \A j \in 1..3 : IsType(new.types[j])
      BY <2>4, <2>5, NamedTypes
    <2>7. \A j \in 1..3 :
             /\ IsNode(new.code[j])
             /\ new.code[j].depth = IF j = 1 THEN depth ELSE depth + 1
             /\ new.code[j].kind # "Number"
      BY <2>1, <2>3, <2>5
    <2> QED
      BY <2>3, <2>4, <2>5, <2>6, <2>7 DEF Fits
  <1>4. CASE new = [code |-> buildFunctionExpression(depth),
                    types |-> <<FunctionExpressionType(anyType), voidType>>]
    <2> DEFINE a == Node("FunctionExpression", "", depth)
               b == Node("Statement", "block", depth + 1)
    <2>1. /\ IsNode(a) /\ a.depth = depth /\ a.kind = "FunctionExpression"
          /\ IsNode(b) /\ b.depth = depth + 1 /\ b.kind = "Statement"
      <3>1. \A kind, name : /\ IsNode(Node(kind, name, depth))
                            /\ Node(kind, name, depth).kind = kind
                            /\ Node(kind, name, depth).depth = depth
        BY NodeDef
      <3>2. \A kind, name : /\ IsNode(Node(kind, name, depth + 1))
                            /\ Node(kind, name, depth + 1).kind = kind
                            /\ Node(kind, name, depth + 1).depth = depth + 1
        BY <1>1, NodeDef
      <3> QED
        BY <3>1, <3>2
    <2>2. new.code = <<a, b>> /\ new.types = <<FunctionExpressionType(anyType), voidType>>
      BY <1>4 DEF buildFunctionExpression
    <2>3. IsType(FunctionExpressionType(anyType)) /\ IsType(voidType)
      BY NamedTypes, WrappedTyped DEF FunctionExpressionType
    <2>4. a.kind # "Number" /\ b.kind # "Number"
      BY <2>1
    <2> HIDE DEF a, b
    <2> QED
      BY <2>1, <2>2, <2>3, <2>4, FitsTwo
  <1> QED
    BY <1>2, <1>3, <1>4 DEF Built

(* A tree with its types, as it is written.                                *)
Stored(tree, types) ==
    /\ Writable(tree) /\ types = [k \in DOMAIN tree |-> types[k]]
    /\ \A k \in DOMAIN tree : IsType(types[k])

LEMMA MutantStored ==
    ASSUME Stored(code, itype), MutateNode
    PROVE  Stored(code', itype')
  <1>1. PICK k \in Nodes : \E new \in Built(code[k].depth) :
            code' = Replaced(code, k, new.code) /\ itype' = Replaced(itype, k, new.types)
    BY DEF MutateNode
  <1>2. PICK new \in Built(code[k].depth) :
            code' = Replaced(code, k, new.code) /\ itype' = Replaced(itype, k, new.types)
    BY <1>1
  <1> DEFINE d == code[k].depth
  <1>3. IsTree(code) /\ code \in Seq(Range(code))
    BY DEF Stored, Writable, IsTree
  <1>4. /\ Nodes = 1..Len(code) /\ Len(code) \in Nat \ {0}
        /\ \A j \in Nodes : j \in Nat /\ IsNode(code[j]) /\ code[j].depth \in Nat
    BY <1>3, NodesDef
  <1>5. Fits(new, d)
    BY <1>2, <1>4, BuiltDef
  <1>6. PICK m \in Nat \ {0} :
            /\ new.code = [j \in 1..m |-> new.code[j]]
            /\ new.types = [j \in 1..m |-> new.types[j]]
            /\ \A j \in 1..m :
                  /\ IsNode(new.code[j]) /\ IsType(new.types[j])
                  /\ new.code[j].depth = IF j = 1 THEN d ELSE d + 1
                  /\ new.code[j].kind = "Number" =>
                        new.code[j].name \notin {"negative", "minusInfinity"}
    BY <1>5 DEF Fits
  <1>7. /\ new.code \in Seq(Range(new.code)) /\ Len(new.code) = m
        /\ new.types \in Seq(Range(new.types)) /\ Len(new.types) = m
    BY <1>6, TupleDef
  <1> DEFINE l == Len(code)
             e == k + Cardinality(Below(k))
  <1>8. /\ e \in Nodes /\ Below(k) = k + 1..e /\ Cardinality(Below(k)) \in Nat
        /\ e < l => code[e + 1].depth <= d
    BY <1>3, BelowDef
  <1>9. /\ k \in Nat /\ e \in Nat /\ l \in Nat /\ m \in Nat /\ d \in Nat /\ m >= 1
        /\ 1 <= k /\ k <= e /\ e <= l /\ Cardinality(Below(k)) = e - k
    BY <1>4, <1>6, <1>8
  <1>10. /\ itype \in Seq(Range(itype)) /\ Len(itype) = l
         /\ \A j \in 1..l : IsType(itype[j])
    <2>1. itype = [j \in 1..l |-> itype[j]] /\ \A j \in 1..l : IsType(itype[j])
      BY <1>4 DEF Stored, Nodes
    <2> QED
      BY <1>9, <2>1, TupleDef
  <1> DEFINE S == Range(code) \cup Range(new.code)
             T == Range(itype) \cup Range(new.types)
             z == k - 1 + m + l - e
  <1>11. /\ code \in Seq(S) /\ new.code \in Seq(S)
         /\ itype \in Seq(T) /\ new.types \in Seq(T)
    BY <1>3, <1>7, <1>10
  <1> HIDE DEF S, T, e, l, d
  <1>12. /\ code' \in Seq(S) /\ Len(code') = z
         /\ \A j \in 1..k - 1 : code'[j] = code[j]
         /\ \A j \in 1..m : code'[k - 1 + j] = new.code[j]
         /\ \A j \in e + 1..l : code'[k - 1 + m + j - e] = code[j]
    <2> DEFINE x == new.code
               s == code
    <2>1. /\ s \in Seq(S) /\ x \in Seq(S) /\ Len(s) = l /\ Len(x) = m
      BY <1>7, <1>10, <1>11 DEF l
    <2>2. /\ k \in Nat /\ e \in Nat /\ m \in Nat /\ l \in Nat
          /\ 1 <= k /\ k <= e /\ e <= l
          /\ Below(k) = k + 1..e /\ Cardinality(Below(k)) = e - k
      BY <1>8, <1>9
    <2> HIDE DEF x, s
    <2>3. Puts(Replaced(s, k, x), s, x, k, e, m, l, S)
      BY <2>1, <2>2, ReplacedDef
    <2> QED
      BY <1>2, <2>3 DEF Puts, x, s
  <1>13. /\ itype' \in Seq(T) /\ Len(itype') = z
         /\ \A j \in 1..k - 1 : itype'[j] = itype[j]
         /\ \A j \in 1..m : itype'[k - 1 + j] = new.types[j]
         /\ \A j \in e + 1..l : itype'[k - 1 + m + j - e] = itype[j]
    <2> DEFINE x == new.types
               s == itype
    <2>1. /\ s \in Seq(T) /\ x \in Seq(T) /\ Len(s) = l /\ Len(x) = m
      BY <1>7, <1>10, <1>11 DEF l
    <2>2. /\ k \in Nat /\ e \in Nat /\ m \in Nat /\ l \in Nat
          /\ 1 <= k /\ k <= e /\ e <= l
          /\ Below(k) = k + 1..e /\ Cardinality(Below(k)) = e - k
      BY <1>8, <1>9
    <2> HIDE DEF x, s
    <2>3. Puts(Replaced(s, k, x), s, x, k, e, m, l, T)
      BY <2>1, <2>2, ReplacedDef
    <2> QED
      BY <1>2, <2>3 DEF Puts, x, s
  <1>14. /\ z \in Nat \ {0} /\ DOMAIN code' = 1..z /\ DOMAIN itype' = 1..z
         /\ code' = [j \in 1..z |-> code'[j]] /\ itype' = [j \in 1..z |-> itype'[j]]
    <2>1. z \in Nat \ {0}
      BY <1>9
    <2> HIDE DEF z
    <2> QED
      BY <1>12, <1>13, <2>1
  (* Where a place of the new tree comes from.                             *)
  <1>15. ASSUME NEW i \in 1..z
         PROVE  \/ i \in 1..k - 1
                \/ \E j \in 1..m : i = k - 1 + j
                \/ \E j \in e + 1..l : i = k - 1 + m + j - e
    <2>1. i \in Nat /\ 1 <= i /\ i <= k - 1 + m + l - e
      BY <1>9, <1>14
    <2>2. CASE i <= k - 1
      BY <1>9, <2>1, <2>2
    <2>3. CASE ~(i <= k - 1) /\ i <= k - 1 + m
      <3>1. i - (k - 1) \in 1..m /\ i = k - 1 + (i - (k - 1))
        BY <1>9, <2>1, <2>3
      <3> QED
        BY <3>1
    <2>4. CASE ~(i <= k - 1 + m)
      <3> DEFINE j == i - (k - 1 + m) + e
      <3>1. j \in e + 1..l /\ i = k - 1 + m + j - e
        BY <1>9, <2>1, <2>4
      <3> QED
        BY <3>1
    <2> QED
      BY <2>2, <2>3, <2>4
  <1>16. ASSUME NEW i \in 1..z
         PROVE  /\ IsNode(code'[i]) /\ IsType(itype'[i])
                /\ code'[i].kind = "Number" =>
                      code'[i].name \notin {"negative", "minusInfinity"}
    <2>1. \A j \in 1..l : /\ IsNode(code[j]) /\ IsType(itype[j])
                          /\ code[j].kind = "Number" =>
                                code[j].name \notin {"negative", "minusInfinity"}
      BY <1>4, <1>10 DEF Stored, Writable, Nodes, l
    <2>2. CASE i \in 1..k - 1
      <3>1. i \in 1..l
        BY <1>9, <2>2
      <3> QED
        BY <1>12, <1>13, <2>1, <2>2, <3>1
    <2>3. CASE \E j \in 1..m : i = k - 1 + j
      BY <1>6, <1>12, <1>13, <2>3
    <2>4. CASE \E j \in e + 1..l : i = k - 1 + m + j - e
      <3>1. PICK j \in e + 1..l : i = k - 1 + m + j - e
        BY <2>4
      <3>2. j \in 1..l
        BY <1>9, <3>1
      <3> QED
        BY <1>12, <1>13, <2>1, <3>1, <3>2
    <2> QED
      BY <1>15, <2>2, <2>3, <2>4
  <1>17. code'[1].depth = 0
    <2>1. code[1].depth = 0
      BY <1>3 DEF IsTree
    <2>2. CASE k = 1
      <3>1. 1 \in 1..m /\ k - 1 + 1 = 1
        BY <1>9, <2>2
      <3>2. code'[1] = new.code[1]
        BY <1>12, <3>1
      <3>3. new.code[1].depth = d
        BY <1>6, <3>1
      <3> QED
        BY <2>1, <2>2, <3>2, <3>3 DEF d
    <2>3. CASE k # 1
      <3>1. 1 \in 1..k - 1
        BY <1>9, <2>3
      <3> QED
        BY <1>12, <2>1, <3>1
    <2> QED
      BY <2>2, <2>3
  <1>18. ASSUME NEW i \in 2..z PROVE code'[i].depth \in 1..code'[i - 1].depth + 1
    <2>1. i \in Nat /\ 2 <= i /\ i <= z /\ i \in 1..z
      BY <1>14
    <2>2. \A j \in 2..l : code[j].depth \in 1..code[j - 1].depth + 1
      BY <1>3 DEF IsTree, l
    <2>3. CASE i <= k - 1
      <3>1. i \in 1..k - 1 /\ i - 1 \in 1..k - 1 /\ i \in 2..l
        BY <1>9, <2>1, <2>3
      <3> QED
        BY <1>12, <2>2, <3>1
    <2>4. CASE i = k
      <3>1. 1 \in 1..m /\ k - 1 + 1 = i /\ i - 1 \in 1..k - 1 /\ k \in 2..l /\ i - 1 = k - 1
        BY <1>9, <2>1, <2>4
      <3>2. code'[i].depth = d
        BY <1>6, <1>12, <3>1
      <3>3. code'[i - 1] = code[k - 1]
        BY <1>12, <3>1
      <3> QED
        BY <2>2, <3>1, <3>2, <3>3 DEF d
    <2>5. CASE k < i /\ i <= k - 1 + m
      <3> DEFINE j == i - (k - 1)
      <3>1. /\ j \in 1..m /\ j - 1 \in 1..m /\ j # 1
            /\ k - 1 + j = i /\ k - 1 + (j - 1) = i - 1
        BY <1>9, <2>1, <2>5
      <3> HIDE DEF j
      <3>2. code'[i].depth = d + 1
        BY <1>6, <1>12, <3>1
      <3>3. code'[i - 1].depth \in {d, d + 1}
        BY <1>6, <1>12, <3>1
      <3> QED
        BY <1>9, <3>2, <3>3
    <2>6. CASE i = k + m
      <3>1. /\ e + 1 \in e + 1..l /\ k - 1 + m + (e + 1) - e = i /\ e < l
            /\ m \in 1..m /\ k - 1 + m = i - 1 /\ e + 1 \in 2..l
        BY <1>9, <2>1, <2>6
      <3>2. code'[i] = code[e + 1]
        BY <1>12, <3>1
      <3>3. code[e + 1].depth <= d /\ code[e + 1].depth \in 1..code[(e + 1) - 1].depth + 1
        BY <1>8, <2>2, <3>1
      <3>4. code'[i - 1].depth \in {d, d + 1}
        BY <1>6, <1>12, <3>1
      <3>5. e \in Nodes /\ code[e].depth \in Nat /\ (e + 1) - 1 = e
        BY <1>4, <1>8, <1>9
      <3>6. code[e + 1].depth \in Nat /\ 1 <= code[e + 1].depth
        BY <3>3, <3>5
      <3> QED
        BY <1>9, <3>2, <3>3, <3>4, <3>6
    <2>7. CASE k + m < i
      <3> DEFINE j == i - (k - 1 + m) + e
      <3>1. /\ j \in e + 1..l /\ j - 1 \in e + 1..l /\ j \in 2..l
            /\ k - 1 + m + j - e = i /\ k - 1 + m + (j - 1) - e = i - 1
        BY <1>9, <2>1, <2>7
      <3> HIDE DEF j
      <3>2. code'[i] = code[j] /\ code'[i - 1] = code[j - 1]
        BY <1>12, <3>1
      <3> QED
        BY <2>2, <3>1, <3>2
    <2>8. i <= k - 1 \/ i = k \/ (k < i /\ i <= k - 1 + m) \/ i = k + m \/ k + m < i
      BY <1>9, <2>1
    <2> QED
      BY <2>3, <2>4, <2>5, <2>6, <2>7, <2>8
  <1> HIDE DEF z
  <1>19. code' \in Seq(Range(code')) /\ code' # << >>
    <2>1. code' \in Seq(Range(code')) /\ Len(code') = z
      BY <1>14, TupleDef
    <2> QED
      BY <1>14, <2>1
  <1>20. IsTree(code')
    BY <1>12, <1>14, <1>16, <1>17, <1>18, <1>19 DEF IsTree
  <1> QED
    BY <1>14, <1>16, <1>20 DEF Stored, Writable
-----------------------------------------------------------------------------
(***************************************************************************)
(* Parse: the nodes that were entered have the types that were written at  *)
(* their places, and those that were left a depth that covers what lies    *)
(* below them.                                                             *)
(***************************************************************************)
LEMMA ReadDef ==
    ASSUME NEW type, IsType(type)
    PROVE  /\ IsType(deserialize(type))
           /\ deserialize(deserialize(type)) = deserialize(type)
  <1>1. ASSUME NEW node, node = [class |-> node.class, name |-> node.name]
        PROVE  /\ Read(node) = [class |-> Read(node).class, name |-> Read(node).name]
               /\ Read(Read(node)) = Read(node)
    <2>1. CASE node.class = "Prototype"
      <3>1. Read(node) = [class |-> "Prototype", name |-> ""]
        BY <1>1, <2>1 DEF Read
      <3> QED
        BY <3>1 DEF Read
    <2>2. CASE node.class = "FunctionExpression"
      <3>1. Read(node) = [class |-> "Function", name |-> node.name]
        BY <1>1, <2>2 DEF Read
      <3> QED
        BY <3>1 DEF Read
    <2>3. CASE node.class \notin {"Prototype", "FunctionExpression"}
      BY <1>1, <2>3 DEF Read
    <2> QED
      BY <2>1, <2>2, <2>3
  <1>2. \A p \in DOMAIN type :
            /\ Read(type[p]) = [class |-> Read(type[p]).class, name |-> Read(type[p]).name]
            /\ Read(Read(type[p])) = Read(type[p])
    BY <1>1 DEF IsType
  <1>3. /\ DOMAIN deserialize(type) = DOMAIN type
        /\ \A p \in DOMAIN type : deserialize(type)[p] = Read(type[p])
        /\ deserialize(type) = [p \in DOMAIN type |-> deserialize(type)[p]]
    BY DEF deserialize
  <1>4. deserialize(deserialize(type)) =
            [p \in DOMAIN type |-> Read(deserialize(type)[p])]
    BY <1>3 DEF deserialize
  <1>5. IsType(deserialize(type))
    BY <1>2, <1>3 DEF IsType
  <1> QED
    BY <1>2, <1>3, <1>4, <1>5

Reading ==
    /\ Stored(file.code, file.types) /\ Walk /\ DOMAIN code = DOMAIN file.code
    /\ \A k \in Nodes : SameAs(code[k], file.code[k])
    /\ \A k \in Nodes : k < at => itype[k] = deserialize(file.types[k])
Measured ==
    /\ info \in [Nodes -> [depth : Nat, maxDepth : Nat]]
    /\ lastEnterNode = at - 1
    /\ \A k \in Nodes : k < at => info[k].depth = code[k].depth
    /\ \A k \in Done : \A j \in Below(k) \cup {k} : code[j].depth <= info[k].maxDepth
    /\ \A n \in 1..Len(open) : \A j \in Nodes :
          open[n] < j /\ (n < Len(open) => j < open[n + 1]) /\ j < at =>
              code[j].depth <= info[open[n]].maxDepth
ParseInv ==
    /\ Stored(code, itype)
    /\ pc = "written" => Stored(file.code, file.types)
    /\ pc \in {"parse", "parsed"} => Reading /\ Measured
    /\ pc = "parsed" => Done = Nodes

LEMMA ParsedWritable ==
    ASSUME NEW tree, Parsed(tree)
    PROVE  Writable(tree)
  <1>1. \A k \in DOMAIN tree : tree[k].kind = "Number" => tree[k].name = "positive"
    BY DEF Parsed
  <1> QED
    BY <1>1, ParsedIsTree DEF Writable

LEMMA InferredStored ==
    ASSUME InferTyped
    PROVE  Stored(code, itype)
  <1>1. Writable(code)
    BY ParsedWritable DEF InferTyped
  <1> QED
    BY <1>1 DEF Stored, InferTyped, Nodes

LEMMA ParseEntersMeasured ==
    ASSUME Stored(code, itype), Reading, Measured, ParseEnter
    PROVE  Measured'
  <1>1. /\ MayEnter /\ code' = code /\ open' = Append(open, at) /\ at' = at + 1
        /\ info' = [info EXCEPT ![at].depth = Len(open)] /\ lastEnterNode' = at
    BY DEF ParseEnter
  <1>2. IsTree(code) /\ Walk
    BY DEF Stored, Writable, Reading
  <1>3. /\ Walk' /\ Done' = Done
        /\ Len(open') = Len(open) + 1 /\ open'[Len(open) + 1] = at
        /\ \A n \in 1..Len(open) : open'[n] = open[n]
    BY <1>1, <1>2, WalkEnters
  <1>4. /\ Nodes = 1..Len(code) /\ Len(code) \in Nat /\ at \in Nat /\ Len(open) \in Nat
        /\ \A k \in Nodes : k \in Nat
        /\ \A n \in 1..Len(open) : open[n] \in Nodes /\ open[n] < at
    BY <1>2, NodesDef, OpenDef
  <1>5. at \in Nodes /\ code[at].depth = Len(open)
    BY <1>1 DEF MayEnter
  <1>6. /\ info \in [Nodes -> [depth : Nat, maxDepth : Nat]]
        /\ \A k \in Nodes : k < at => info[k].depth = code[k].depth
        /\ \A k \in Done : \A j \in Below(k) \cup {k} : code[j].depth <= info[k].maxDepth
        /\ \A n \in 1..Len(open) : \A j \in Nodes :
              open[n] < j /\ (n < Len(open) => j < open[n + 1]) /\ j < at =>
                  code[j].depth <= info[open[n]].maxDepth
    BY DEF Measured
  <1>7. /\ info' \in [Nodes -> [depth : Nat, maxDepth : Nat]]
        /\ \A k \in Nodes : info'[k].maxDepth = info[k].maxDepth
        /\ \A k \in Nodes : k # at => info'[k].depth = info[k].depth
        /\ info'[at].depth = Len(open)
    BY <1>1, <1>4, <1>5, <1>6
  <1>8. \A k \in Nodes : k < at + 1 => info'[k].depth = code[k].depth
    <2> SUFFICES ASSUME NEW k \in Nodes, k < at + 1 PROVE info'[k].depth = code[k].depth
      OBVIOUS
    <2>1. k = at \/ k < at
      BY <1>4
    <2>2. k \in Nat
      BY <1>4
    <2> QED
      BY <1>4, <1>5, <1>6, <1>7, <2>1, <2>2
  <1>9. \A k \in Done : \A j \in Below(k) \cup {k} : code[j].depth <= info'[k].maxDepth
    BY <1>6, <1>7 DEF Done
  <1>10. ASSUME NEW n \in 1..Len(open'), NEW j \in Nodes, open'[n] < j,
                n < Len(open') => j < open'[n + 1], j < at + 1
         PROVE  code[j].depth <= info'[open'[n]].maxDepth
    <2>1. n \in Nat /\ j \in Nat
      BY <1>4
    <2>2. CASE n = Len(open) + 1
      BY <1>3, <1>4, <1>10, <2>1, <2>2
    <2>3. CASE n # Len(open) + 1
      <3>1. n \in 1..Len(open) /\ n < Len(open')
        BY <1>3, <1>4, <2>3
      <3>2. open'[n] = open[n] /\ open[n] \in Nodes
        BY <1>3, <1>4, <3>1
      <3>3. CASE n = Len(open)
        BY <1>3, <1>6, <1>7, <1>10, <2>1, <3>1, <3>2, <3>3
      <3>4. CASE n # Len(open)
        <4>1. n + 1 \in 1..Len(open) /\ n < Len(open)
          BY <1>4, <3>1, <3>4
        <4>2. open'[n + 1] = open[n + 1] /\ open[n + 1] < at /\ open[n + 1] \in Nat
          BY <1>3, <1>4, <4>1
        <4>3. j < open[n + 1] /\ j < at
          BY <1>4, <1>10, <2>1, <3>1, <4>2
        <4> QED
          BY <1>6, <1>7, <1>10, <3>1, <3>2, <4>3
      <3> QED
        BY <3>3, <3>4
    <2> QED
      BY <2>2, <2>3
  <1>11. at = (at + 1) - 1
    BY <1>4
  <1>12. Nodes' = Nodes /\ \A k : Below(k)' = Below(k)
    BY <1>1, SameTree
  <1> QED
    BY <1>1, <1>3, <1>7, <1>8, <1>9, <1>10, <1>11, <1>12 DEF Measured

LEMMA ParseExitsMeasured ==
    ASSUME Stored(code, itype), Reading, Measured, ParseExit
    PROVE  Measured'
  <1> DEFINE k == Exiting
             own == IF lastEnterNode = k THEN info[k].depth ELSE info[k].maxDepth
             left == [info EXCEPT ![k].maxDepth = own]
             L == Len(open)
             parent == open[L - 1]
  <1>1. /\ MayExit /\ code' = code /\ open' = Front(open) /\ at' = at
        /\ info' = IF L = 1 THEN left
                   ELSE [left EXCEPT ![parent].maxDepth =
                                         MaxDepthOf(left[parent].maxDepth, own)]
        /\ lastEnterNode' = lastEnterNode
    BY DEF ParseExit
  <1>2. IsTree(code) /\ Walk
    BY DEF Stored, Writable, Reading
  <1>3. /\ Walk' /\ Done' = Done \cup {k}
        /\ k \in Nodes /\ k \notin Done /\ k < at
        /\ k = open[L] /\ Below(k) = k + 1..at - 1
        /\ L \in Nat \ {0} /\ Len(open') = L - 1
        /\ \A n \in 1..L - 1 : open'[n] = open[n]
    BY <1>1, <1>2, WalkExits
  <1>4. /\ Nodes = 1..Len(code) /\ Len(code) \in Nat /\ at \in Nat
        /\ \A j \in Nodes : j \in Nat /\ code[j].depth \in Nat
        /\ \A n \in 1..L : open[n] \in Nodes /\ open[n] < at
    BY <1>2, NodesDef, OpenDef
  <1>5. /\ \A n \in 1..L - 1 : open[n] < open[n + 1]
        /\ \A n \in 1..L : code[open[n]].depth = n - 1
        /\ at \in 1..Len(code) + 1
    BY <1>2 DEF Walk, Walks
  <1>6. /\ info \in [Nodes -> [depth : Nat, maxDepth : Nat]]
        /\ lastEnterNode = at - 1
        /\ \A j \in Nodes : j < at => info[j].depth = code[j].depth
        /\ \A q \in Done : \A j \in Below(q) \cup {q} : code[j].depth <= info[q].maxDepth
        /\ \A n \in 1..L : \A j \in Nodes :
              open[n] < j /\ (n < L => j < open[n + 1]) /\ j < at =>
                  code[j].depth <= info[open[n]].maxDepth
    BY DEF Measured
  <1>7. \A j \in Nodes : info[j].depth \in Nat /\ info[j].maxDepth \in Nat
    BY <1>6
  <1> HIDE DEF k, L
  <1>8. own \in Nat
    BY <1>3, <1>7
  (* What lies below the node is not deeper than what it leaves with.      *)
  <1>9. ASSUME NEW j \in Nodes, k <= j, j < at PROVE code[j].depth <= own
    <2>1. k \in Nat /\ j \in Nat /\ L \in 1..L
      BY <1>3, <1>4
    <2>2. CASE at - 1 = k
      <3>1. j = k /\ own = info[k].depth
        BY <1>4, <1>6, <1>9, <2>1, <2>2
      <3> QED
        BY <1>3, <1>4, <1>6, <3>1
    <2>3. CASE at - 1 # k
      <3>1. own = info[k].maxDepth
        BY <1>6, <2>3
      <3>2. \A i \in Nodes : k < i /\ i < at => code[i].depth <= info[k].maxDepth
        BY <1>3, <1>6, <2>1
      <3>3. CASE j = k
        <4>1. k + 1 \in Nodes /\ k < k + 1 /\ k + 1 < at
          BY <1>3, <1>4, <1>5, <2>1, <2>3
        <4>2. k + 1 \in Below(k)
          BY <1>3, <1>4, <2>1, <4>1
        <4>3. code[k + 1].depth > code[k].depth
          BY <4>2, <2>1 DEF Below, Inside
        <4>4. code[k + 1].depth <= info[k].maxDepth
          BY <3>2, <4>1
        <4> QED
          BY <1>3, <1>4, <1>7, <3>1, <3>3, <4>1, <4>3, <4>4
      <3>4. CASE j # k
        BY <1>9, <2>1, <3>1, <3>2, <3>4
      <3> QED
        BY <3>3, <3>4
    <2> QED
      BY <2>2, <2>3
  <1>10. /\ left \in [Nodes -> [depth : Nat, maxDepth : Nat]]
         /\ left[k].maxDepth = own
         /\ \A j \in Nodes : left[j].depth = info[j].depth
         /\ \A j \in Nodes : j # k => left[j].maxDepth = info[j].maxDepth
    <2> HIDE DEF own
    <2> QED
      BY <1>3, <1>6, <1>8
  <1> HIDE DEF own, left
  <1>11. CASE L = 1
    <2>1. info' = left /\ \A n : ~(n \in 1..L - 1)
      BY <1>1, <1>11
    <2>2. \A j \in Nodes : j < at => info'[j].depth = code[j].depth
      BY <1>6, <1>10, <2>1
    <2>3. \A q \in Done \cup {k} : \A j \in Below(q) \cup {q} :
              code[j].depth <= info'[q].maxDepth
      <3>1. \A j \in Below(k) \cup {k} : j \in Nodes /\ k <= j /\ j < at
        BY <1>3, <1>4, <1>5
      <3>2. \A q \in Done : q # k /\ q \in Nodes
        BY <1>3 DEF Done
      <3> QED
        BY <1>6, <1>9, <1>10, <2>1, <3>1, <3>2
    <2>4. Nodes' = Nodes /\ \A q : Below(q)' = Below(q)
      BY <1>1, SameTree
    <2> QED
      BY <1>1, <1>3, <1>6, <1>10, <2>1, <2>2, <2>3, <2>4 DEF Measured
  <1>12. CASE L # 1
    <2>1. L - 1 \in 1..L /\ L - 1 \in 1..L - 1 /\ (L - 1) + 1 = L
      BY <1>3, <1>12
    <2>2. parent \in Nodes /\ parent < k /\ parent \in Nat /\ k \in Nat
      BY <1>3, <1>4, <1>5, <2>1
    <2> DEFINE most == MaxDepthOf(left[parent].maxDepth, own)
    <2>3. left[parent].maxDepth = info[parent].maxDepth /\ info[parent].maxDepth \in Nat
      BY <1>7, <1>10, <2>2
    <2>4. most \in Nat /\ own <= most /\ info[parent].maxDepth <= most
      BY <1>8, <2>3 DEF MaxDepthOf, Larger
    <2>5. info' = [left EXCEPT ![parent].maxDepth = most]
      BY <1>1, <1>12
    <2> HIDE DEF most, parent
    <2>6. /\ info' \in [Nodes -> [depth : Nat, maxDepth : Nat]]
          /\ info'[parent].maxDepth = most
          /\ \A j \in Nodes : info'[j].depth = info[j].depth
          /\ \A j \in Nodes : j # parent => info'[j].maxDepth = left[j].maxDepth
      BY <1>10, <2>2, <2>4, <2>5
    <2>7. \A j \in Nodes : j < at => info'[j].depth = code[j].depth
      BY <1>6, <2>6
    <2>8. \A q \in Done \cup {k} : \A j \in Below(q) \cup {q} :
              code[j].depth <= info'[q].maxDepth
      <3>1. \A j \in Below(k) \cup {k} : j \in Nodes /\ k <= j /\ j < at
        BY <1>3, <1>4, <1>5
      <3>2. k # parent /\ info'[k].maxDepth = own
        BY <1>3, <1>10, <2>2, <2>6
      <3>3. \A q \in Done : q # k /\ q \in Nodes /\ q # parent
        BY <1>3, <2>1 DEF Done, L, parent
      <3>4. \A q \in Done : info'[q].maxDepth = info[q].maxDepth
        BY <1>10, <2>6, <3>3
      <3> QED
        BY <1>6, <1>9, <3>1, <3>2, <3>4
    <2>9. ASSUME NEW n \in 1..L - 1, NEW j \in Nodes, open'[n] < j,
                 n < L - 1 => j < open'[n + 1], j < at
          PROVE  code[j].depth <= info'[open'[n]].maxDepth
      <3>1. n \in 1..L /\ n < L /\ open'[n] = open[n] /\ open[n] \in Nodes /\ n \in Nat
            /\ j \in Nat
        BY <1>3, <1>4
      <3>2. CASE n = L - 1
        <4>1. open[n] = parent
          BY <3>2 DEF parent
        <4>2. CASE j < k
          <5>1. n + 1 = L /\ j < open[n + 1]
            BY <1>3, <2>1, <3>2, <4>2
          <5>2. code[j].depth <= info[parent].maxDepth
            BY <1>6, <2>9, <3>1, <4>1, <5>1
          <5> QED
            BY <1>4, <2>3, <2>4, <2>6, <3>1, <4>1, <5>2
        <4>3. CASE ~(j < k)
          <5>1. k <= j
            BY <2>2, <3>1, <4>3
          <5>2. code[j].depth <= own
            BY <1>9, <2>9, <5>1
          <5> QED
            BY <1>4, <1>8, <2>4, <2>6, <3>1, <4>1, <5>2
        <4> QED
          BY <4>2, <4>3
      <3>3. CASE n # L - 1
        <4>1. n < L - 1 /\ n + 1 \in 1..L - 1
          BY <1>3, <3>1, <3>3
        <4>2. j < open[n + 1]
          BY <1>3, <2>9, <4>1
        <4>3. code[j].depth <= info[open[n]].maxDepth
          BY <1>6, <2>9, <3>1, <4>2
        <4>4. open[n] # parent /\ open[n] # k
          <5>1. code[open[n]].depth = n - 1
            BY <1>5, <3>1
          <5>2. code[parent].depth = (L - 1) - 1 /\ code[k].depth = L - 1
            BY <1>3, <1>5, <2>1 DEF parent
          <5>3. n - 1 # (L - 1) - 1 /\ n - 1 # L - 1
            BY <1>3, <3>1, <3>3
          <5> QED
            BY <5>1, <5>2, <5>3
        <4> QED
          BY <1>10, <2>6, <3>1, <4>3, <4>4
      <3> QED
        BY <3>2, <3>3
    <2>10. Nodes' = Nodes /\ \A q : Below(q)' = Below(q)
      BY <1>1, SameTree
    <2> QED
      BY <1>1, <1>3, <1>6, <2>6, <2>7, <2>8, <2>9, <2>10 DEF Measured
  <1> QED
    BY <1>11, <1>12

LEMMA ParseBegins ==
    ASSUME ParseInv, Parse
    PROVE  Stored(code', itype') /\ Reading' /\ Measured'
  <1>1. /\ pc = "written" /\ code' = Printed(file.code)
        /\ itype' = [k \in DOMAIN code' |-> Untyped]
        /\ info' = [k \in DOMAIN code' |-> [depth |-> 0, maxDepth |-> 0]]
        /\ lastEnterNode' = 0 /\ at' = 1 /\ open' = << >> /\ file' = file
    BY DEF Parse
  <1>2. Stored(file.code, file.types)
    BY <1>1 DEF ParseInv
  <1>3. /\ Writable(code') /\ DOMAIN code' = DOMAIN file.code
        /\ \A k \in DOMAIN file.code : SameAs(code'[k], file.code[k])
    BY <1>1, <1>2, PrintedDef DEF Stored
  <1>4. Stored(code', itype')
    BY <1>1, <1>3, UntypedTyped DEF Stored
  <1>5. IsTree(code')
    BY <1>3 DEF Writable
  <1>6. Walks(code', 1, << >>)
    BY <1>5, WalkStarts
  <1>7. Walk'
    BY <1>1, <1>6 DEF Walk
  <1>8. Nodes' = DOMAIN code' /\ \A k \in Nodes' : k \in Nat /\ ~(k < 1)
    <2>1. code' \in Seq(Range(code'))
      BY <1>5 DEF IsTree
    <2>2. DOMAIN code' = 1..Len(code') /\ Len(code') \in Nat
      BY <2>1
    <2> QED
      BY <2>2 DEF Nodes
  <1>9. Reading'
    BY <1>1, <1>2, <1>3, <1>7, <1>8 DEF Reading, Nodes
  <1>10. Done' = {}
    BY <1>1, <1>8 DEF Done
  <1>11. info' \in [Nodes' -> [depth : Nat, maxDepth : Nat]]
    BY <1>1, <1>8
  <1>12. ~(\E n : n \in 1..Len(open'))
    BY <1>1
  <1>13. Measured'
    BY <1>1, <1>8, <1>10, <1>11, <1>12 DEF Measured
  <1> QED
    BY <1>4, <1>9, <1>13

LEMMA ParseEntersReading ==
    ASSUME Stored(code, itype), Reading, ParseEnter
    PROVE  Stored(code', itype') /\ Reading'
  <1>1. /\ MayEnter /\ code' = code /\ open' = Append(open, at) /\ at' = at + 1
        /\ file' = file
        /\ itype' = IF at \in DOMAIN file.types
                    THEN [itype EXCEPT ![at] = deserialize(file.types[at])] ELSE itype
    BY DEF ParseEnter
  <1>2. IsTree(code) /\ Walk
    BY DEF Stored, Writable, Reading
  <1>3. Walk' /\ Nodes' = Nodes
    BY <1>1, <1>2, WalkEnters, SameTree
  <1>4. at \in Nodes /\ at \in Nat /\ \A k \in Nodes : k \in Nat
    BY <1>1, <1>2, NodesDef DEF MayEnter
  <1>5. /\ Stored(file.code, file.types) /\ DOMAIN code = DOMAIN file.code
        /\ \A k \in Nodes : SameAs(code[k], file.code[k])
        /\ \A k \in Nodes : k < at => itype[k] = deserialize(file.types[k])
    BY DEF Reading
  <1>6. DOMAIN file.types = Nodes /\ IsType(file.types[at])
    BY <1>4, <1>5 DEF Stored, Nodes
  <1>7. itype = [k \in Nodes |-> itype[k]] /\ \A k \in Nodes : IsType(itype[k])
    BY DEF Stored, Nodes
  <1>8. /\ DOMAIN itype' = Nodes /\ itype' = [k \in Nodes |-> itype'[k]]
        /\ itype'[at] = deserialize(file.types[at])
        /\ \A k \in Nodes : k # at => itype'[k] = itype[k]
    <2>1. itype' = [itype EXCEPT ![at] = deserialize(file.types[at])]
      BY <1>1, <1>4, <1>6
    <2> QED
      BY <1>4, <1>7, <2>1
  <1>9. \A k \in Nodes : IsType(itype'[k])
    BY <1>6, <1>7, <1>8, ReadDef
  <1>10. Writable(code)
    BY DEF Stored
  <1>11. Stored(code', itype')
    BY <1>1, <1>8, <1>9, <1>10 DEF Stored, Nodes
  <1>12. \A k \in Nodes : k < at + 1 => itype'[k] = deserialize(file.types[k])
    <2> SUFFICES ASSUME NEW k \in Nodes, k < at + 1
                 PROVE  itype'[k] = deserialize(file.types[k])
      OBVIOUS
    <2>1. k = at \/ (k # at /\ k < at)
      BY <1>4
    <2> QED
      BY <1>5, <1>8, <2>1
  <1>13. Reading'
    BY <1>1, <1>3, <1>5, <1>12 DEF Reading
  <1> QED
    BY <1>11, <1>13

LEMMA ParseExitsReading ==
    ASSUME Stored(code, itype), Reading, ParseExit
    PROVE  Stored(code', itype') /\ Reading'
  <1>1. /\ MayExit /\ code' = code /\ open' = Front(open) /\ at' = at
        /\ file' = file /\ itype' = itype
    BY DEF ParseExit
  <1>2. IsTree(code) /\ Walk
    BY DEF Stored, Writable, Reading
  <1>3. Walk' /\ Nodes' = Nodes
    BY <1>1, <1>2, WalkExits, SameTree
  <1>4. Reading'
    BY <1>1, <1>3 DEF Reading
  <1> QED
    BY <1>1, <1>4

LEMMA ParseStarts ==
    ASSUME Init
    PROVE  ParseInv
  <1>1. pc = "infer"
    BY DEF Init
  <1>2. InferTyped
    BY <1>1, InferStarts DEF InferInv
  <1>3. Stored(code, itype)
    BY <1>2, InferredStored
  <1> QED
    BY <1>1, <1>3 DEF ParseInv

LEMMA ParseKept ==
    ASSUME InferInv, InferInv', ParseInv, [Next]_vars
    PROVE  ParseInv'
  <1>1. CASE InferEnter \/ InferExit \/ EndRound
    <2>1. pc' \in {"infer", "typed"}
      BY <1>1 DEF InferEnter, InferExit, EndRound
    <2>2. InferTyped'
      BY <2>1 DEF InferInv
    <2>3. Writable(code')
      BY <2>2, ParsedWritable DEF InferTyped
    <2>4. Stored(code', itype')
      BY <2>2, <2>3 DEF Stored, InferTyped, Nodes
    <2> QED
      BY <2>1, <2>4 DEF ParseInv
  <1>2. CASE writeToFile
    <2>1. /\ pc' = "written" /\ code' = code /\ itype' = itype
          /\ file' = [code |-> code, types |-> itype]
      BY <1>2 DEF writeToFile
    <2>2. Stored(code, itype)
      BY DEF ParseInv
    <2>3. file'.code = code /\ file'.types = itype
      BY <2>1
    <2> QED
      BY <2>1, <2>2, <2>3 DEF ParseInv
  <1>3. CASE Parse
    <2>1. pc' = "parse"
      BY <1>3 DEF Parse
    <2> QED
      BY <1>3, <2>1, ParseBegins DEF ParseInv
  <1>4. CASE ParseEnter
    <2>1. pc = "parse" /\ pc' = "parse"
      BY <1>4 DEF ParseEnter
    <2>2. Stored(code, itype) /\ Reading /\ Measured
      BY <2>1 DEF ParseInv
    <2> QED
      BY <1>4, <2>1, <2>2, ParseEntersReading, ParseEntersMeasured DEF ParseInv
  <1>5. CASE ParseExit
    <2>1. pc = "parse" /\ pc' = "parse"
      BY <1>5 DEF ParseExit
    <2>2. Stored(code, itype) /\ Reading /\ Measured
      BY <2>1 DEF ParseInv
    <2> QED
      BY <1>5, <2>1, <2>2, ParseExitsReading, ParseExitsMeasured DEF ParseInv
  <1>6. CASE ParseEnd
    <2>1. /\ pc = "parse" /\ pc' = "parsed" /\ Traversed /\ code' = code
          /\ itype' = itype /\ file' = file /\ at' = at /\ open' = open
          /\ info' = info /\ lastEnterNode' = lastEnterNode
      BY <1>6 DEF ParseEnd, parseVars
    <2>2. Stored(code, itype) /\ Reading /\ Measured
      BY <2>1 DEF ParseInv
    <2>3. IsTree(code) /\ Walk
      BY <2>2 DEF Stored, Writable, Reading
    <2>4. Done = Nodes
      BY <2>1, <2>3, WalkEnds
    <2>5. /\ Nodes' = Nodes /\ Done' = Done /\ Walk' = Walk
          /\ \A k : Below(k)' = Below(k)
      BY <2>1, SameTree DEF Done, Walk
    <2>6. Reading'
      BY <2>1, <2>2, <2>5 DEF Reading
    <2>7. Measured'
      BY <2>1, <2>2, <2>5 DEF Measured
    <2> QED
      BY <2>1, <2>2, <2>4, <2>5, <2>6, <2>7 DEF ParseInv
  <1>7. CASE MutateNode
    <2>1. pc' = "mutated" /\ Stored(code, itype)
      BY <1>7 DEF MutateNode, ParseInv
    <2> QED
      BY <1>7, <2>1, MutantStored DEF ParseInv
  <1>8. CASE UNCHANGED vars
    <2>1. /\ pc' = pc /\ code' = code /\ itype' = itype /\ file' = file
          /\ at' = at /\ open' = open /\ info' = info
          /\ lastEnterNode' = lastEnterNode
      BY <1>8 DEF vars, parseVars
    <2>2. /\ Nodes' = Nodes /\ Done' = Done /\ Walk' = Walk
          /\ \A k : Below(k)' = Below(k)
      BY <2>1, SameTree DEF Done, Walk
    <2>3. Reading => Reading'
      BY <2>1, <2>2 DEF Reading
    <2>4. Measured => Measured'
      BY <2>1, <2>2 DEF Measured
    <2> QED
      BY <2>1, <2>2, <2>3, <2>4 DEF ParseInv
  <1> QED
    BY <1>1, <1>2, <1>3, <1>4, <1>5, <1>6, <1>7, <1>8 DEF Next

LEMMA ParsedAligned ==
    ASSUME ParseInv
    PROVE  TypesStayAligned
  <1> SUFFICES ASSUME pc = "parsed"
               PROVE  /\ DOMAIN code = DOMAIN file.code
                      /\ \A k \in Nodes : /\ SameNode(k)
                                          /\ itype[k] = deserialize(file.types[k])
                                          /\ itype[k] = deserialize(itype[k])
    BY DEF TypesStayAligned
  <1>1. /\ Reading /\ Done = Nodes /\ Stored(file.code, file.types)
        /\ DOMAIN code = DOMAIN file.code
    BY DEF ParseInv, Reading
  <1>2. \A k \in Nodes : k < at
    BY <1>1 DEF Done
  <1>3. \A k \in Nodes : SameNode(k)
    BY <1>1 DEF Reading, SameAs, SameNode
  <1>4. \A k \in Nodes : itype[k] = deserialize(file.types[k])
    BY <1>1, <1>2 DEF Reading
  <1>5. \A k \in Nodes : IsType(file.types[k])
    BY <1>1 DEF Stored, Nodes
  <1>6. \A k \in Nodes : itype[k] = deserialize(itype[k])
    BY <1>4, <1>5, ReadDef
  <1> QED
    BY <1>1, <1>3, <1>4, <1>6

LEMMA ParsedMeasured ==
    ASSUME ParseInv
    PROVE  WeightsAreDefined
  <1> SUFFICES ASSUME pc = "parsed", NEW k \in Nodes
               PROVE  /\ info[k].depth = code[k].depth
                      /\ \A j \in Below(k) \cup {k} : code[j].depth <= info[k].maxDepth
    BY DEF WeightsAreDefined
  <1>1. Measured /\ Done = Nodes
    BY DEF ParseInv
  <1>2. k < at
    BY <1>1 DEF Done
  <1> QED
    BY <1>1, <1>2 DEF Measured

(* The strengthening that the two theorems below rest on: while Parse goes *)
(* through the program, what it has entered has its type and what it has   *)
(* left its depths (esparse.ts, Parse).                                    *)
THEOREM ParseAlways == Spec => [](InferInv /\ ParseInv)
  <1>1. Init => InferInv /\ ParseInv
    BY InferStarts, ParseStarts
  <1>2. InferInv /\ ParseInv /\ [Next]_vars => InferInv' /\ ParseInv'
    BY InferKept, ParseKept
  <1> QED
    BY <1>1, <1>2, PTL DEF Spec

(* The types are written without the nodes they belong to: whatever the    *)
(* program and however often it is mutated and written, a node has the type*)
(* that was written for it once Parse has gone through the program         *)
(* (esparse.ts, Parse, against estypes.ts, dumpTypes and deserialize).     *)
THEOREM AlignedAlways == Spec => []TypesStayAligned
  <1>1. InferInv /\ ParseInv => TypesStayAligned
    BY ParsedAligned
  <1> QED
    BY <1>1, ParseAlways, PTL

(* A program of any depth and shape: the index that calWeight computes from*)
(* what Parse says of a node is that of a weight (esparse.ts, Parse,       *)
(* against esweight.ts).                                                   *)
THEOREM WeightsAlways == Spec => []WeightsAreDefined
  <1>1. InferInv /\ ParseInv => WeightsAreDefined
    BY ParsedMeasured
  <1> QED
    BY <1>1, ParseAlways, PTL
-----------------------------------------------------------------------------
(***************************************************************************)
(* FuzzInputs: nothing that esfuzz made is lost to the next round.         *)
(***************************************************************************)
FilesTyped ==
    /\ js \in [0 .. Cnt - 1 -> File]
    /\ place \in 0 .. Cnt
    /\ phase \in {"fetch", "parse", "code", "types", "run"}
    /\ made \in 0 .. MaxRound
    /\ phase = "types" => place < Cnt

HasRun(k) == js[k] \in Case => js[k] \in ran

(* What was run, and what is about to be overwritten.                      *)
RanSoFar ==
    \A k \in 0 .. Cnt - 1 :
        /\ phase \in {"fetch", "parse"} => HasRun(k)
        /\ phase = "code" /\ k >= place => HasRun(k)
        /\ phase = "types" /\ k > place => HasRun(k)
        /\ phase = "run" /\ k < place => HasRun(k)

FilesInv == FilesTyped /\ RanSoFar

LEMMA NoCase == Absent \notin Case /\ Empty \notin Case
  <1>1. \A c \in Case : DOMAIN c = {"round", "i", "size"}
    BY DEF Case
  <1>2. DOMAIN Absent = {"file"} /\ DOMAIN Empty = {"file"}
    BY DEF Absent, Empty
  <1> QED
    BY <1>1, <1>2

LEMMA InitFiles == FilesInit => FilesInv
  <1> SUFFICES ASSUME FilesInit PROVE FilesInv
    OBVIOUS
  <1>1. FilesTyped
    BY FuzzInputsAssumption DEF FilesInit, FilesTyped, File
  <1>2. RanSoFar
    BY NoCase DEF FilesInit, RanSoFar, HasRun
  <1> QED
    BY <1>1, <1>2 DEF FilesInv

(* The steps of esfuzz write only what was run.                            *)
LEMMA Overwritten ==
    ASSUME FilesInv, FilesNext, NEW k \in 0 .. Cnt - 1, js'[k] # js[k]
    PROVE  HasRun(k)
  <1>1. /\ phase = "code" /\ k = place
    BY FuzzInputsAssumption
    DEF FilesInv, FilesTyped, FilesNext, Fetch, ReadInput, ParseFails, DumpCode, DumpTypes,
        EndGenerate, TimeOut, RunNothing, RunCase, EndDir
  <1> QED
    BY <1>1, FuzzInputsAssumption DEF FilesInv, FilesTyped, RanSoFar

LEMMA StepFiles == FilesInv /\ [FilesNext]_filesVars => FilesInv'
  <1> SUFFICES ASSUME FilesInv, [FilesNext]_filesVars PROVE FilesInv'
    OBVIOUS
  <1> USE FuzzInputsAssumption DEF FilesInv
  <1>1. CASE UNCHANGED filesVars
    BY <1>1 DEF filesVars, FilesTyped, RanSoFar, HasRun
  <1>2. CASE Fetch \/ ReadInput \/ ParseFails
    BY <1>2 DEF Fetch, ReadInput, ParseFails, FilesTyped, RanSoFar, HasRun
  <1>3. CASE DumpCode
    <2>1. PICK c \in Case : js' = [js EXCEPT ![place] = c]
      <3>1. PICK s \in Size :
               js' = [js EXCEPT ![place] = [round |-> made, i |-> place, size |-> s]]
        BY <1>3 DEF DumpCode
      <3>2. [round |-> made, i |-> place, size |-> s] \in Case
        BY DEF FilesTyped, Case
      <3> QED
        BY <3>1, <3>2
    <2> QED
      BY <1>3, <2>1 DEF DumpCode, FilesTyped, File, RanSoFar, HasRun
  <1>4. CASE DumpTypes \/ EndGenerate
    BY <1>4 DEF DumpTypes, EndGenerate, FilesTyped, RanSoFar, HasRun
  <1>5. CASE TimeOut
    BY <1>5 DEF TimeOut, FilesTyped, File, RanSoFar
  <1>6. CASE RunNothing
    BY <1>6, NoCase DEF RunNothing, FilesTyped, RanSoFar, HasRun
  <1>7. CASE RunCase
    BY <1>7 DEF RunCase, FilesTyped, RanSoFar, HasRun
  <1>8. CASE EndDir
    BY <1>8 DEF EndDir, FilesTyped, RanSoFar, HasRun
  <1> QED
    BY <1>1, <1>2, <1>3, <1>4, <1>5, <1>6, <1>7, <1>8 DEF FilesNext

THEOREM FilesInductive == FilesSpec => []FilesInv
  BY InitFiles, StepFiles, PTL DEF FilesSpec

(* No test case is overwritten before it was run.                          *)
THEOREM NothingOverwritten == FilesSpec => EveryCaseRuns
  <1>1. FilesInv /\ [FilesNext]_filesVars =>
            [\A k \in 0 .. Cnt - 1 :
                js'[k] # js[k] /\ js[k] \in Case => js[k] \in ran]_filesVars
    BY Overwritten DEF HasRun
  <1> QED
    BY <1>1, FilesInductive, PTL DEF FilesSpec, EveryCaseRuns
-----------------------------------------------------------------------------
(* What a place holds, as it would be queued; a test case that is being    *)
(* written does not count, as its types may still follow.                  *)
Pair(k) == [js |-> js[k], t |-> jst[k]]
MixedPlace(k) == js[k] \in Case /\ jst[k] # js[k] /\ ~(phase = "types" /\ k = place)
MixUps == {e \in queue : e.t # e.js}
          \cup {Pair(k) : k \in {n \in 0 .. Cnt - 1 : MixedPlace(n)}}

(* Each mix-up, queued or still in the directory, costs a kill.            *)
PaidByKills ==
    IsFiniteSet(MixUps) /\ Cardinality(MixUps) <= kills /\ kills \in Nat

MInv == /\ FilesInv /\ jst \in [0 .. Cnt - 1 -> File]
        /\ DOMAIN js = 0 .. Cnt - 1 /\ PaidByKills

LEMMA NoMoreMixUps ==
    ASSUME MInv, MixUps' \subseteq MixUps, kills' = kills
    PROVE  PaidByKills'
  <1> DEFINE M == MixUps
             N == MixUps'
  <1>1. IsFiniteSet(M) /\ N \subseteq M
    BY DEF MInv, PaidByKills
  <1> HIDE DEF M, N
  <1>2. /\ IsFiniteSet(N) /\ Cardinality(N) <= Cardinality(M)
        /\ Cardinality(M) \in Nat /\ Cardinality(N) \in Nat
    BY <1>1, FS_Subset, FS_CardinalityType
  <1> QED
    BY <1>2 DEF MInv, PaidByKills, M, N

LEMMA OneMoreMixUp ==
    ASSUME MInv, NEW e, MixUps' \subseteq MixUps \cup {e}, kills' = kills + 1
    PROVE  PaidByKills'
  <1> DEFINE M == MixUps
             N == MixUps'
             O == MixUps \cup {e}
  <1>1. /\ IsFiniteSet(M) /\ N \subseteq O /\ O = M \cup {e}
    BY DEF MInv, PaidByKills
  <1> HIDE DEF M, N, O
  <1>2. /\ IsFiniteSet(O) /\ Cardinality(M) \in Nat
        /\ Cardinality(O) \in {Cardinality(M), Cardinality(M) + 1}
    BY <1>1, FS_AddElement, FS_CardinalityType
  <1>3. /\ IsFiniteSet(N) /\ Cardinality(N) <= Cardinality(O)
        /\ Cardinality(N) \in Nat
    BY <1>1, <1>2, FS_Subset, FS_CardinalityType
  <1> QED
    BY <1>2, <1>3 DEF MInv, PaidByKills, M, N

LEMMA InitMInv == FilesInit => MInv
  <1> SUFFICES ASSUME FilesInit PROVE MInv
    OBVIOUS
  <1>1. MixUps = {}
    <2>1. \A k \in 0 .. Cnt - 1 : ~MixedPlace(k)
      BY NoCase DEF FilesInit, MixedPlace
    <2>2. \A e \in queue : e.t = e.js
      BY DEF FilesInit
    <2> QED
      BY <2>1, <2>2 DEF MixUps
  <1>2. PaidByKills
    BY <1>1, FS_EmptySet DEF PaidByKills, FilesInit
  <1> QED
    BY <1>2, InitFiles DEF MInv, FilesInit, File

(* The steps that leave the queue alone: what they write is no mix-up, but *)
(* for the place where the thirty seconds were over.                       *)
LEMMA PlacesKeep ==
    ASSUME MInv, queue' = queue, NEW S,
           \A k \in 0 .. Cnt - 1 : MixedPlace(k)' =>
               \/ Pair(k)' \in S
               \/ MixedPlace(k) /\ js'[k] = js[k] /\ jst'[k] = jst[k]
    PROVE  MixUps' \subseteq MixUps \cup S
  <1>1. \A k \in 0 .. Cnt - 1 : MixedPlace(k)' => Pair(k)' \in MixUps \cup S
    BY DEF Pair, MixUps
  <1> QED
    BY <1>1 DEF MixUps

LEMMA StepMixUps == MInv /\ [FilesNext]_filesVars => PaidByKills'
  <1> SUFFICES ASSUME MInv, [FilesNext]_filesVars PROVE PaidByKills'
    OBVIOUS
  <1> USE FuzzInputsAssumption
  <1>0. /\ FilesInv /\ FilesTyped /\ place \in 0 .. Cnt /\ jst \in [0 .. Cnt - 1 -> File]
        /\ DOMAIN js = 0 .. Cnt - 1
    BY DEF MInv, FilesInv, FilesTyped
  <1>1. CASE \/ UNCHANGED filesVars \/ Fetch \/ ReadInput \/ ParseFails \/ DumpTypes
             \/ DumpCode \/ EndGenerate \/ RunNothing \/ EndDir
    <2>1. queue' = queue /\ kills' = kills
      BY <1>1 DEF filesVars, Fetch, ReadInput, ParseFails, DumpTypes, DumpCode,
                  EndGenerate, RunNothing, EndDir
    <2>2. \A k \in 0 .. Cnt - 1 : MixedPlace(k)' =>
              \/ Pair(k)' \in {}
              \/ MixedPlace(k) /\ js'[k] = js[k] /\ jst'[k] = jst[k]
      BY <1>0, <1>1 DEF MixedPlace, filesVars, Fetch, ReadInput, ParseFails, DumpTypes,
            DumpCode, EndGenerate, RunNothing, EndDir
    <2>3. MixUps' \subseteq MixUps \cup {}
      BY <2>1, <2>2, PlacesKeep
    <2> QED
      BY <2>1, <2>3, NoMoreMixUps
  <1>2. CASE TimeOut
    <2>1. queue' = queue /\ kills' = kills + 1
      BY <1>2 DEF TimeOut
    <2> DEFINE e == [js |-> js'[place], t |-> jst'[place]]
    <2>2. \A k \in 0 .. Cnt - 1 : MixedPlace(k)' =>
              \/ Pair(k)' \in {e}
              \/ MixedPlace(k) /\ js'[k] = js[k] /\ jst'[k] = jst[k]
      <3>1. ASSUME NEW k \in 0 .. Cnt - 1, MixedPlace(k)', k # place
            PROVE  MixedPlace(k) /\ js'[k] = js[k] /\ jst'[k] = jst[k]
        BY <1>0, <1>2, <3>1 DEF MixedPlace, TimeOut
      <3>2. ASSUME NEW k \in 0 .. Cnt - 1, k = place PROVE Pair(k)' \in {e}
        BY <3>2 DEF Pair
      <3> HIDE DEF e
      <3> QED
        BY <3>1, <3>2
    <2> HIDE DEF e
    <2>3. MixUps' \subseteq MixUps \cup {e}
      BY <2>1, <2>2, PlacesKeep
    <2> QED
      BY <2>1, <2>3, OneMoreMixUp
  <1>3. CASE RunCase
    <2>1. /\ phase = "run" /\ place < Cnt /\ js[place] \notin {Absent, Empty}
          /\ queue' \in {queue, queue \cup {[js |-> js[place], t |-> jst[place]]}}
          /\ kills' = kills /\ UNCHANGED <<js, jst, phase>>
      BY <1>3 DEF RunCase, Insert
    <2>2. place \in 0 .. Cnt - 1 /\ js[place] \in Case
      BY <1>0, <2>1 DEF FilesTyped, File
    <2>3. jst[place] # js[place] => Pair(place) \in MixUps
      BY <2>1, <2>2 DEF MixUps, MixedPlace
    <2>4. ASSUME NEW x \in queue', x.t # x.js PROVE x \in MixUps
      <3>1. CASE x \in queue
        BY <2>4, <3>1 DEF MixUps
      <3>2. CASE x = [js |-> js[place], t |-> jst[place]]
        BY <2>3, <2>4, <3>2 DEF Pair
      <3> QED
        BY <2>1, <3>1, <3>2
    <2>5. \A k \in 0 .. Cnt - 1 :
              MixedPlace(k)' => Pair(k)' = Pair(k) /\ MixedPlace(k)
      BY <2>1 DEF MixedPlace, Pair
    <2>6. MixUps' \subseteq MixUps
      BY <2>4, <2>5 DEF MixUps
    <2> QED
      BY <2>1, <2>6, NoMoreMixUps
  <1> QED
    BY <1>1, <1>2, <1>3 DEF FilesNext

LEMMA StepMInv == MInv /\ [FilesNext]_filesVars => MInv'
  <1> SUFFICES ASSUME MInv, [FilesNext]_filesVars PROVE MInv'
    OBVIOUS
  <1>1. FilesInv' /\ PaidByKills'
    BY StepFiles, StepMixUps DEF MInv
  <1>2. jst' \in [0 .. Cnt - 1 -> File]
    <2>1. /\ jst \in [0 .. Cnt - 1 -> File] /\ js \in [0 .. Cnt - 1 -> File]
          /\ place \in 0 .. Cnt /\ (phase = "types" => place < Cnt)
      BY DEF MInv, FilesInv, FilesTyped
    <2>2. js[place] \in File \/ place = Cnt
      BY <2>1, FuzzInputsAssumption
    <2> QED
      BY <2>1, <2>2, FuzzInputsAssumption
      DEF FilesNext, filesVars, Fetch, ReadInput, ParseFails, DumpCode, DumpTypes,
          EndGenerate, TimeOut, RunNothing, RunCase, EndDir, File
  <1>3. DOMAIN js' = 0 .. Cnt - 1
    BY <1>1 DEF FilesInv, FilesTyped
  <1> QED
    BY <1>1, <1>2, <1>3 DEF MInv

(* A test case is queued with types of another, or an empty file, at most  *)
(* once for every time that esfuzz was killed, over all rounds.            *)
THEOREM MixUpsAreRare == FilesSpec => []OneMixUpPerKill
  <1>1. MInv => OneMixUpPerKill
    <2> SUFFICES ASSUME MInv PROVE OneMixUpPerKill
      OBVIOUS
    <2> DEFINE Q == {e \in queue : e.t # e.js}
               M == MixUps
    <2>1. IsFiniteSet(M) /\ Q \subseteq M /\ Cardinality(M) <= kills
          /\ kills \in Nat
      BY DEF MInv, PaidByKills, MixUps
    <2> HIDE DEF Q, M
    <2>2. /\ IsFiniteSet(Q) /\ Cardinality(Q) <= Cardinality(M)
          /\ Cardinality(M) \in Nat /\ Cardinality(Q) \in Nat
      BY <2>1, FS_Subset, FS_CardinalityType
    <2>3. Cardinality(Q) <= kills
      BY <2>1, <2>2
    <2> QED
      BY <2>3 DEF OneMixUpPerKill, Q
  <1> QED
    BY <1>1, InitMInv, StepMInv, PTL DEF FilesSpec
=============================================================================
