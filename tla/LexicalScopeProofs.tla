-------------------------- MODULE LexicalScopeProofs --------------------------
(***************************************************************************)
(* Proofs for name resolution, for all files: every use is bound to the    *)
(* symbol that the text means, and exactly the well-scoped files are       *)
(* accepted.                                                               *)
(***************************************************************************)
EXTENDS LexicalScope, SequenceTheorems, FiniteSetTheorems, WellFoundedInduction, TLAPS

-----------------------------------------------------------------------------
(***************************************************************************)
(* Sets of places.                                                         *)
(***************************************************************************)
LEMMA SmallestIsElement ==
  ASSUME NEW S \in SUBSET Nat, S # {}
  PROVE  Smallest(S) \in S /\ \A y \in S : Smallest(S) <= y
<1> DEFINE R == {p \in Nat \X Nat : p[1] < p[2]}
<1>1. IsWellFoundedOn(R, Nat)
  BY NatLessThanWellFounded DEF OpToRel
<1>2. PICK x \in S : \A y \in S : <<y, x>> \notin R
  <2> HIDE DEF R
  <2> QED
    BY <1>1, WFMin
<1>3. ASSUME NEW y \in S PROVE x <= y
  <2>1. x \in Nat /\ y \in Nat
    OBVIOUS
  <2>2. y < x => <<y, x>> \in R
    BY <2>1
  <2>3. <<y, x>> \notin R
    BY <1>2
  <2> HIDE DEF R
  <2> QED
    BY <2>1, <2>2, <2>3
<1> QED
  BY <1>3 DEF Smallest

LEMMA LargestIsElement ==
  ASSUME NEW n \in Nat, NEW S \in SUBSET (1..n), NEW default
  PROVE  /\ S # {} => Largest(S, default) \in S /\ \A y \in S : y <= Largest(S, default)
         /\ S = {} => Largest(S, default) = default
<1> DEFINE D == {n - y : y \in S}
<1>1. CASE S # {}
  <2>1. D \in SUBSET Nat /\ D # {}
    BY <1>1
  <2>2. PICK d \in D : \A e \in D : d <= e
    BY <2>1, SmallestIsElement
  <2>3. PICK x \in S : d = n - x
    OBVIOUS
  <2>4. ASSUME NEW y \in S PROVE y <= x
    <3>1. n - y \in D /\ x \in 1..n /\ y \in 1..n
      OBVIOUS
    <3>2. n - x <= n - y
      BY <2>2, <2>3, <3>1
    <3> QED
      BY <3>1, <3>2
  <2> QED
    BY <1>1, <2>4 DEF Largest
<1> QED
  BY <1>1 DEF Largest

\* What holds from the beginning on and goes on holds everywhere.
LEMMA FromTheStart ==
  ASSUME NEW n \in Nat, NEW Good,
         1 \in Good, \A p \in 1..n : (\A q \in 1..p : q \in Good) => p + 1 \in Good
  PROVE  1..(n + 1) \subseteq Good
<1> DEFINE Bad == (1..(n + 1)) \ Good
<1> SUFFICES ASSUME Bad # {} PROVE FALSE
  OBVIOUS
<1>1. Bad \in SUBSET Nat
  OBVIOUS
<1>2. PICK x \in Bad : \A y \in Bad : x <= y
  BY <1>1, SmallestIsElement
<1>3. x \in 1..(n + 1) /\ x # 1 /\ x \notin Good
  OBVIOUS
<1>4. x - 1 \in 1..n /\ (x - 1) + 1 = x
  BY <1>3
<1>5. ASSUME NEW q \in 1..(x - 1) PROVE q \in Good
  <2>1. q \in 1..(n + 1) /\ ~ (x <= q)
    BY <1>3, <1>5
  <2> QED
    BY <1>2, <2>1
<1> QED
  BY <1>3, <1>4, <1>5

-----------------------------------------------------------------------------
(***************************************************************************)
(* Texts.                                                                  *)
(***************************************************************************)
LEMMA Text ==
  ASSUME NEW t \in Texts
  PROVE  /\ Len(t) \in Nat /\ DOMAIN t = 1..Len(t)
         /\ \A p \in DOMAIN t : t[p].t = "end" => Level(t, p) > 0
         /\ Level(t, Len(t) + 1) = 0
BY TextsAssumption

LEMMA Counting ==
  ASSUME NEW p \in Nat, NEW A
  PROVE  LET below(n) == {q \in 1..(n - 1) : q \in A}
         IN  /\ Cardinality(below(p)) \in Nat
             /\ p > 0 => Cardinality(below(p + 1)) = Cardinality(below(p)) + (IF p \in A THEN 1 ELSE 0)
             /\ Cardinality(below(1)) = 0
<1> DEFINE below(n) == {q \in 1..(n - 1) : q \in A}
<1>1. IsFiniteSet(1..(p - 1)) /\ below(p) \subseteq 1..(p - 1)
  BY FS_Interval
<1>2. IsFiniteSet(below(p)) /\ Cardinality(below(p)) \in Nat
  BY <1>1, FS_Subset, FS_CardinalityType
<1>3. p > 0 => below(p + 1) = (IF p \in A THEN below(p) \cup {p} ELSE below(p)) /\ p \notin below(p)
  OBVIOUS
<1>4. below(1) = {}
  OBVIOUS
<1> HIDE DEF below
<1>5. Cardinality(below(1)) = 0
  BY <1>4, FS_EmptySet
<1>6. p > 0 => Cardinality(below(p + 1)) = Cardinality(below(p)) + (IF p \in A THEN 1 ELSE 0)
  <2>1. p > 0 /\ p \in A => Cardinality(below(p + 1)) = Cardinality(below(p)) + 1
    <3>1. p > 0 => Cardinality(below(p) \cup {p}) = Cardinality(below(p)) + 1
      BY <1>2, <1>3, FS_AddElement
    <3> QED
      BY <1>3, <3>1
  <2>2. p > 0 /\ p \notin A => Cardinality(below(p + 1)) = Cardinality(below(p))
    BY <1>3
  <2> QED
    BY <1>2, <2>1, <2>2
<1> QED
  BY <1>2, <1>5, <1>6 DEF below

LEMMA LevelStep ==
  ASSUME NEW t, NEW p \in Nat
  PROVE  /\ Level(t, p) \in Int
         /\ Level(t, 1) = 0
         /\ p > 0 => Level(t, p + 1) =
              IF Opens(t[p]) THEN Level(t, p) + 1
              ELSE IF t[p].t = "end" THEN Level(t, p) - 1 ELSE Level(t, p)
<1> DEFINE A == {q \in Nat : Opens(t[q])}
           B == {q \in Nat : t[q].t = "end"}
           a(n) == {q \in 1..(n - 1) : q \in A}
           b(n) == {q \in 1..(n - 1) : q \in B}
<1>1. \A n \in Nat : Level(t, n) = Cardinality(a(n)) - Cardinality(b(n))
  <2> TAKE n \in Nat
  <2>1. a(n) = {q \in 1..(n - 1) : Opens(t[q])} /\ b(n) = {q \in 1..(n - 1) : t[q].t = "end"}
    OBVIOUS
  <2> QED
    BY <2>1 DEF Level
<1>2. p \in A /\ p \in B => FALSE
  BY DEF Opens
<1>3. p \in A <=> Opens(t[p])
  OBVIOUS
<1>4. p \in B <=> t[p].t = "end"
  OBVIOUS
<1> HIDE DEF A, B
<1>5. /\ Cardinality(a(p)) \in Nat /\ Cardinality(a(1)) = 0
      /\ p > 0 => Cardinality(a(p + 1)) = Cardinality(a(p)) + (IF p \in A THEN 1 ELSE 0)
  BY Counting
<1>6. /\ Cardinality(b(p)) \in Nat /\ Cardinality(b(1)) = 0
      /\ p > 0 => Cardinality(b(p + 1)) = Cardinality(b(p)) + (IF p \in B THEN 1 ELSE 0)
  BY Counting
<1> HIDE DEF a, b
<1> QED
  BY <1>1, <1>2, <1>3, <1>4, <1>5, <1>6

-----------------------------------------------------------------------------
(***************************************************************************)
(* The scopes around a token.                                              *)
(***************************************************************************)
LEMMA AroundFacts ==
  ASSUME NEW t, NEW p \in Nat
  PROVE  /\ Enclosing(t, p) \subseteq 1..(p - 1)
         /\ Enclosing(t, p) # {} =>
              /\ Around(t, p) \in Enclosing(t, p) /\ Around(t, p) # ROOT
              /\ \A o \in Enclosing(t, p) : o <= Around(t, p)
         /\ Enclosing(t, p) = {} => Around(t, p) = ROOT
         /\ Around(t, p) \in Nat
<1>1. Enclosing(t, p) \subseteq 1..(p - 1)
  BY DEF Enclosing
<1>2. PICK n \in Nat : Enclosing(t, p) \subseteq 1..n
  BY <1>1
<1> DEFINE E == Enclosing(t, p)
<1>3. Around(t, p) = Largest(E, ROOT)
  BY DEF Around
<1> HIDE DEF E
<1>4. /\ E # {} => Largest(E, ROOT) \in E /\ \A o \in E : o <= Largest(E, ROOT)
      /\ E = {} => Largest(E, ROOT) = ROOT
  BY <1>2, LargestIsElement DEF E
<1>5. /\ E # {} => Around(t, p) \in E /\ \A o \in E : o <= Around(t, p)
      /\ E = {} => Around(t, p) = ROOT
  BY <1>3, <1>4
<1>6. \A o \in E : o \in Nat /\ o # ROOT
  BY <1>2 DEF E, ROOT
<1>7. Around(t, p) \in Nat
  BY <1>5, <1>6 DEF ROOT
<1> QED
  BY <1>1, <1>5, <1>6, <1>7 DEF E

LEMMA FunctionAroundFacts ==
  ASSUME NEW t, NEW p \in Nat
  PROVE  LET fns == {o \in Enclosing(t, p) : t[o].t = "fn"}
         IN  /\ fns # {} => /\ FunctionAround(t, p) \in fns
                            /\ \A o \in fns : o <= FunctionAround(t, p)
             /\ fns = {} => FunctionAround(t, p) = NULL
<1> DEFINE fns == {o \in Enclosing(t, p) : t[o].t = "fn"}
<1>1. fns \subseteq 1..(p - 1)
  BY AroundFacts
<1>2. FunctionAround(t, p) = Largest(fns, NULL)
  BY DEF FunctionAround
<1> HIDE DEF fns
<1>3. PICK n \in Nat : fns \subseteq 1..n
  <2>1. 1..(p - 1) \subseteq 1..p
    OBVIOUS
  <2> QED
    BY <1>1, <2>1
<1>4. /\ fns # {} => Largest(fns, NULL) \in fns /\ \A o \in fns : o <= Largest(fns, NULL)
      /\ fns = {} => Largest(fns, NULL) = NULL
  BY <1>3, LargestIsElement
<1>5. /\ fns # {} => FunctionAround(t, p) \in fns /\ \A o \in fns : o <= FunctionAround(t, p)
      /\ fns = {} => FunctionAround(t, p) = NULL
  BY <1>2, <1>4
<1> QED
  BY <1>5 DEF fns

\* Scopes are nested.
LEMMA Nested ==
  ASSUME NEW t, NEW p \in Nat, NEW o \in Enclosing(t, p)
  PROVE  /\ o \in Nat /\ 1 <= o /\ o < p /\ Opens(t[o]) /\ Level(t, o) < Level(t, p)
         /\ Enclosing(t, o) = {i \in Enclosing(t, p) : i < o}
<1>1. o \in 1..(p - 1) /\ Opens(t[o]) /\ \A q \in (o + 1)..p : Level(t, q) > Level(t, o)
  BY DEF Enclosing
<1>2. o \in Nat /\ 1 <= o /\ o < p
  BY <1>1
<1>3. Level(t, o) \in Int /\ Level(t, p) \in Int /\ Level(t, o) < Level(t, p)
  BY <1>1, <1>2, LevelStep
<1>4. ASSUME NEW i \in Enclosing(t, o) PROVE i \in Enclosing(t, p) /\ i < o
  <2>1. i \in 1..(o - 1) /\ Opens(t[i]) /\ \A q \in (i + 1)..o : Level(t, q) > Level(t, i)
    BY <1>4 DEF Enclosing
  <2>2. i \in Nat /\ i \in 1..(p - 1) /\ i < o /\ o \in (i + 1)..o
    BY <1>2, <2>1
  <2>3. Level(t, o) > Level(t, i)
    BY <2>1, <2>2
  <2>4. ASSUME NEW q \in (i + 1)..p PROVE Level(t, q) > Level(t, i)
    <3>1. q \in Nat /\ Level(t, q) \in Int /\ Level(t, i) \in Int
      BY <2>2, LevelStep
    <3>2. CASE q <= o
      BY <2>1, <2>2, <3>1, <3>2, <1>2
    <3>3. CASE q > o
      <4>1. q \in (o + 1)..p
        BY <1>2, <3>1, <3>3
      <4> QED
        BY <1>1, <1>3, <2>3, <3>1, <4>1
    <3> QED
      BY <1>2, <3>1, <3>2, <3>3
  <2> QED
    BY <2>1, <2>2, <2>4 DEF Enclosing
<1>5. ASSUME NEW i \in Enclosing(t, p), i < o PROVE i \in Enclosing(t, o)
  <2>1. i \in 1..(p - 1) /\ Opens(t[i]) /\ \A q \in (i + 1)..p : Level(t, q) > Level(t, i)
    BY <1>5 DEF Enclosing
  <2>2. i \in 1..(o - 1) /\ \A q \in (i + 1)..o : q \in (i + 1)..p
    BY <1>2, <1>5, <2>1
  <2> QED
    BY <2>1, <2>2 DEF Enclosing
<1> QED
  BY <1>1, <1>2, <1>3, <1>4, <1>5

\* The level tells how many scopes are around.
LevelTells(t, p) ==
  Level(t, p) = IF Around(t, p) = ROOT THEN 0 ELSE Level(t, Around(t, p)) + 1

LEMMA EnclosingStep ==
  ASSUME NEW t \in Texts, NEW p \in DOMAIN t, LevelTells(t, p)
  PROVE  /\ Opens(t[p]) => Enclosing(t, p + 1) = Enclosing(t, p) \cup {p}
         /\ ~ Opens(t[p]) /\ t[p].t # "end" => Enclosing(t, p + 1) = Enclosing(t, p)
         /\ t[p].t = "end" => /\ Around(t, p) \in Enclosing(t, p)
                              /\ Enclosing(t, p + 1) = Enclosing(t, p) \ {Around(t, p)}
<1>1. p \in Nat /\ p > 0 /\ p + 1 \in Nat
  BY Text
<1>2. Level(t, p) \in Int /\ Level(t, p + 1) \in Int
  BY <1>1, LevelStep
<1>3. ASSUME NEW o
      PROVE  o \in Enclosing(t, p + 1) <=>
               \/ o \in Enclosing(t, p) /\ Level(t, p + 1) > Level(t, o)
               \/ o = p /\ Opens(t[p]) /\ Level(t, p + 1) > Level(t, p)
  <2>1. CASE o = p
    <3>1. o \in 1..((p + 1) - 1) /\ (o + 1)..(p + 1) = {p + 1} /\ o \notin 1..(p - 1)
      BY <1>1, <2>1
    <3> QED
      BY <2>1, <3>1 DEF Enclosing
  <2>2. CASE o # p
    <3>1. o \in 1..((p + 1) - 1) <=> o \in 1..(p - 1)
      BY <1>1, <2>2
    <3>2. ASSUME o \in 1..(p - 1) PROVE (o + 1)..(p + 1) = ((o + 1)..p) \cup {p + 1}
      BY <1>1, <3>2
    <3> QED
      BY <2>2, <3>1, <3>2 DEF Enclosing
  <2> QED
    BY <2>1, <2>2
<1>4. \A o \in Enclosing(t, p) : o # p /\ Level(t, o) < Level(t, p) /\ Level(t, o) \in Int
  BY <1>1, Nested, LevelStep
<1>5. CASE Opens(t[p])
  <2>1. Level(t, p + 1) = Level(t, p) + 1 /\ t[p].t # "end"
    BY <1>1, <1>5, LevelStep DEF Opens
  <2> QED
    BY <1>2, <1>3, <1>4, <1>5, <2>1
<1>6. CASE ~ Opens(t[p]) /\ t[p].t # "end"
  <2>1. Level(t, p + 1) = Level(t, p)
    BY <1>1, <1>6, LevelStep
  <2> QED
    BY <1>2, <1>3, <1>4, <1>6, <2>1
<1>7. CASE t[p].t = "end"
  <2>1. Level(t, p + 1) = Level(t, p) - 1 /\ ~ Opens(t[p]) /\ Level(t, p) > 0
    BY <1>1, <1>7, LevelStep, Text DEF Opens
  <2> DEFINE a == Around(t, p)
  <2>2. a # ROOT
    BY <1>2, <2>1 DEF LevelTells
  <2>3. a \in Enclosing(t, p) /\ \A o \in Enclosing(t, p) : o <= a
    BY <1>1, <2>2, AroundFacts
  <2>4. Level(t, p) = Level(t, a) + 1 /\ Level(t, a) \in Int
    BY <1>4, <2>2, <2>3 DEF LevelTells
  <2>5. ASSUME NEW o \in Enclosing(t, p), o # a PROVE Level(t, o) < Level(t, a)
    <3>1. o \in Nat /\ a \in Nat /\ o < a
      BY <1>1, <2>3, <2>5, Nested
    <3>2. o \in Enclosing(t, a)
      BY <1>1, <2>3, <3>1, Nested
    <3> QED
      BY <3>1, <3>2, Nested
  <2> HIDE DEF a
  <2>6. Enclosing(t, p + 1) = Enclosing(t, p) \ {a}
    BY <1>2, <1>3, <1>4, <2>1, <2>3, <2>4, <2>5
  <2> QED
    BY <1>7, <2>1, <2>3, <2>6 DEF a
<1> QED
  BY <1>5, <1>6, <1>7

\* Around a closed scope is what was around the one that it closes.
LEMMA AroundStep ==
  ASSUME NEW t \in Texts, NEW p \in DOMAIN t, LevelTells(t, p)
  PROVE  /\ Opens(t[p]) => Around(t, p + 1) = p
         /\ ~ Opens(t[p]) /\ t[p].t # "end" => Around(t, p + 1) = Around(t, p)
         /\ t[p].t = "end" => Enclosing(t, p + 1) = Enclosing(t, Around(t, p))
<1>1. p \in Nat /\ p > 0 /\ p + 1 \in Nat
  BY Text
<1>2. CASE Opens(t[p])
  <2>1. Enclosing(t, p + 1) = Enclosing(t, p) \cup {p}
    BY <1>2, EnclosingStep
  <2>2. Around(t, p + 1) \in Enclosing(t, p + 1) /\ p <= Around(t, p + 1)
    BY <1>1, <2>1, AroundFacts
  <2>3. Around(t, p + 1) \in 1..p
    BY <1>1, <2>2, AroundFacts
  <2> QED
    BY <1>1, <1>2, <2>2, <2>3 DEF Opens
<1>3. CASE ~ Opens(t[p]) /\ t[p].t # "end"
  BY <1>3, EnclosingStep DEF Around
<1>4. CASE t[p].t = "end"
  <2> DEFINE a == Around(t, p)
  <2>1. a \in Enclosing(t, p) /\ Enclosing(t, p + 1) = Enclosing(t, p) \ {a}
    BY <1>4, EnclosingStep
  <2>2. \A o \in Enclosing(t, p) : o <= a /\ o \in Nat
    BY <1>1, <2>1, AroundFacts, Nested
  <2>3. Enclosing(t, a) = {i \in Enclosing(t, p) : i < a}
    BY <1>1, <2>1, Nested
  <2>4. a \in Nat
    BY <2>1, <2>2
  <2> HIDE DEF a
  <2>5. {i \in Enclosing(t, p) : i < a} = Enclosing(t, p) \ {a}
    BY <2>2, <2>4
  <2> QED
    BY <1>4, <2>1, <2>3, <2>5 DEF a, Opens
<1> QED
  BY <1>2, <1>3, <1>4

LEMMA LevelsTell ==
  ASSUME NEW t \in Texts, NEW p \in 1..(Len(t) + 1)
  PROVE  LevelTells(t, p) /\ Level(t, p) >= 0
<1> DEFINE n == Len(t)
           Good == {q \in Nat : LevelTells(t, q) /\ Level(t, q) >= 0}
<1>1. n \in Nat /\ DOMAIN t = 1..n
  BY Text
<1>2. 1 \in Good
  <2>1. Enclosing(t, 1) = {}
    BY AroundFacts
  <2>2. Around(t, 1) = ROOT /\ Level(t, 1) = 0
    BY <2>1, AroundFacts, LevelStep
  <2> QED
    BY <2>2 DEF LevelTells
<1>3. ASSUME NEW q \in 1..n, \A i \in 1..q : i \in Good
      PROVE  q + 1 \in Good
  <2>1. /\ q \in Nat /\ q > 0 /\ q + 1 \in Nat /\ LevelTells(t, q) /\ q \in DOMAIN t
        /\ Level(t, q) >= 0 /\ Level(t, q) \in Int
    BY <1>1, <1>3, LevelStep
  <2>2. CASE Opens(t[q])
    <3>1. Around(t, q + 1) = q /\ q # ROOT
      BY <2>1, <2>2, AroundStep DEF ROOT
    <3>2. Level(t, q + 1) = Level(t, q) + 1
      BY <2>1, <2>2, LevelStep
    <3> QED
      BY <2>1, <3>1, <3>2 DEF LevelTells
  <2>3. CASE ~ Opens(t[q]) /\ t[q].t # "end"
    <3>1. Around(t, q + 1) = Around(t, q) /\ Level(t, q + 1) = Level(t, q)
      BY <2>1, <2>3, AroundStep, LevelStep
    <3> QED
      BY <2>1, <3>1 DEF LevelTells
  <2>4. CASE t[q].t = "end"
    <3> DEFINE a == Around(t, q)
    <3>1. a \in Enclosing(t, q)
      BY <2>1, <2>4, EnclosingStep
    <3>2. a \in 1..q /\ a # ROOT
      BY <2>1, <3>1, Nested DEF ROOT
    <3>3. LevelTells(t, a) /\ a \in Nat /\ Level(t, a) >= 0
      BY <1>3, <3>2
    <3>4. Around(t, q + 1) = Around(t, a)
      BY <2>1, <2>4, AroundStep DEF Around
    <3>5. Level(t, q + 1) = Level(t, q) - 1 /\ Level(t, q) = Level(t, a) + 1
      BY <2>1, <2>4, <3>2, LevelStep DEF LevelTells, Opens
    <3>6. Level(t, a) \in Int
      BY <3>3, LevelStep
    <3> HIDE DEF a
    <3>7. Level(t, q + 1) = Level(t, a)
      BY <3>5, <3>6
    <3> QED
      BY <2>1, <3>3, <3>4, <3>7 DEF LevelTells
  <2> QED
    BY <2>2, <2>3, <2>4
<1> HIDE DEF n, Good
<1>4. 1..(n + 1) \subseteq Good
  BY <1>1, <1>2, <1>3, FromTheStart
<1> QED
  BY <1>4 DEF n, Good

\* How the scopes and functions around change from token to token
LEMMA ScopeStep ==
  ASSUME NEW t \in Texts, NEW p \in DOMAIN t
  PROVE  /\ Opens(t[p]) =>
              /\ Enclosing(t, p + 1) = Enclosing(t, p) \cup {p} /\ Around(t, p + 1) = p
              /\ FunctionAround(t, p + 1) = IF t[p].t = "fn" THEN p ELSE FunctionAround(t, p)
         /\ ~ Opens(t[p]) /\ t[p].t # "end" =>
              /\ Enclosing(t, p + 1) = Enclosing(t, p) /\ Around(t, p + 1) = Around(t, p)
              /\ FunctionAround(t, p + 1) = FunctionAround(t, p)
         /\ t[p].t = "end" =>
              /\ Around(t, p) \in Enclosing(t, p)
              /\ Around(t, p + 1) = Around(t, Around(t, p))
              /\ FunctionAround(t, p + 1) = FunctionAround(t, Around(t, p))
<1>1. p \in Nat /\ p > 0 /\ p + 1 \in Nat /\ p \in 1..(Len(t) + 1)
  BY Text
<1>2. LevelTells(t, p)
  BY <1>1, LevelsTell
<1>3. CASE Opens(t[p])
  <2>1. Enclosing(t, p + 1) = Enclosing(t, p) \cup {p} /\ Around(t, p + 1) = p
    BY <1>2, <1>3, EnclosingStep, AroundStep
  <2> DEFINE fns(q) == {o \in Enclosing(t, q) : t[o].t = "fn"}
  <2>2. CASE t[p].t = "fn"
    <3>1. p \in fns(p + 1) /\ fns(p + 1) \subseteq 1..p
      BY <1>1, <2>1, <2>2, AroundFacts
    <3>2. FunctionAround(t, p + 1) \in fns(p + 1) /\ p <= FunctionAround(t, p + 1)
      BY <1>1, <3>1, FunctionAroundFacts
    <3>3. FunctionAround(t, p + 1) \in 1..p
      BY <3>1, <3>2
    <3> HIDE DEF fns
    <3>4. FunctionAround(t, p + 1) = p
      BY <1>1, <3>2, <3>3
    <3> QED
      BY <1>3, <2>1, <2>2, <3>4 DEF Opens
  <2>3. CASE t[p].t # "fn"
    <3>1. fns(p + 1) = fns(p)
      BY <2>1, <2>3
    <3>2. FunctionAround(t, p + 1) = FunctionAround(t, p)
      BY <3>1 DEF FunctionAround
    <3> QED
      BY <1>3, <2>1, <2>3, <3>2 DEF Opens
  <2> QED
    BY <2>2, <2>3
<1>4. CASE ~ Opens(t[p]) /\ t[p].t # "end"
  <2>1. Enclosing(t, p + 1) = Enclosing(t, p)
    BY <1>2, <1>4, EnclosingStep
  <2> QED
    BY <1>4, <2>1 DEF Around, FunctionAround
<1>5. CASE t[p].t = "end"
  <2>1. Enclosing(t, p + 1) = Enclosing(t, Around(t, p)) /\ Around(t, p) \in Enclosing(t, p)
    BY <1>2, <1>5, AroundStep, EnclosingStep
  <2>2. Around(t, p + 1) = Around(t, Around(t, p))
    BY <2>1 DEF Around
  <2>3. FunctionAround(t, p + 1) = FunctionAround(t, Around(t, p))
    BY <2>1 DEF FunctionAround
  <2> QED
    BY <1>5, <2>1, <2>2, <2>3 DEF Opens
<1> QED
  BY <1>3, <1>4, <1>5

LEMMA Outermost ==
  ASSUME NEW t \in Texts
  PROVE  /\ Enclosing(t, 1) = {} /\ Around(t, 1) = ROOT /\ FunctionAround(t, 1) = NULL
         /\ Around(t, Len(t) + 1) = ROOT
<1>1. Enclosing(t, 1) = {}
  BY AroundFacts
<1>2. Around(t, 1) = ROOT /\ FunctionAround(t, 1) = NULL
  BY <1>1, AroundFacts, FunctionAroundFacts
<1>3. Around(t, Len(t) + 1) = ROOT
  <2> DEFINE n == Len(t) + 1
             a == Around(t, n)
  <2>1. n \in Nat /\ n \in 1..n /\ Level(t, n) = 0 /\ LevelTells(t, n)
    BY Text, LevelsTell
  <2>2. a \in Nat /\ (a # ROOT => a \in Enclosing(t, n))
    BY <2>1, AroundFacts
  <2>3. a # ROOT => a \in 1..n
    BY <2>1, <2>2, Nested
  <2>4. a # ROOT => Level(t, a) >= 0 /\ Level(t, a) \in Int /\ Level(t, n) = Level(t, a) + 1
    BY <2>1, <2>2, <2>3, LevelsTell, LevelStep DEF LevelTells
  <2> HIDE DEF a, n
  <2>5. a = ROOT
    BY <2>1, <2>4
  <2> QED
    BY <2>5 DEF a, n
<1> QED
  BY <1>1, <1>2, <1>3

-----------------------------------------------------------------------------
(***************************************************************************)
(* The inductive invariant.                                                *)
(***************************************************************************)
Slots == (Int \X Int) \cup {NULL}

\* Types
Typed ==
  /\ text \in Texts /\ pass \in {"root", "local", "done"} /\ at \in 1..(Len(text) + 1)
  /\ pass = "done" => at = 1
  /\ saved \in Seq(Nat \X Slots)
  /\ tables \in [Scopes -> [Key -> Slots]]
  /\ parent \in [Scopes -> Int \cup {NULL}]
  /\ function \in [Symbols -> Slots]
  /\ binding \in [DOMAIN text -> Slots]
  /\ look \in Int \cup {NULL}

\* The symbol of the function around token p; the first walk knows none.
FuncIn(t, bound, walk, p) ==
  IF walk = "root" \/ FunctionAround(t, p) = NULL THEN NULL ELSE bound[FunctionAround(t, p)]

\* The walk is in the scope and in the function that the text is in,
WalkRight == scope = Around(text, at) /\ func = FuncIn(text, binding, pass, at)

\* and has saved those of the scopes around.
OuterScope(stack, s, k) == IF k <= Len(stack) THEN stack[k][1] ELSE s

SavedRight ==
  /\ OuterScope(saved, scope, 1) = ROOT
  /\ \A k \in 1..Len(saved) :
       LET o == OuterScope(saved, scope, k + 1)
       IN  o \in DOMAIN text /\ saved[k] = <<Around(text, o), FuncIn(text, binding, pass, o)>>

\* The first walk has entered the first definition of each name so far, the
\* second one replaces it by the variables up to here.
FirstDefinition(t, s, p, key) ==
  LET before == {q \in Defining(t, s, key, {"fn", "def"}) : q < p}
  IN  IF before = {} THEN NULL ELSE Symbol(Smallest(before), 0)

TablesRight ==
  /\ pass = "root" =>
       \A s \in Scopes : \A key \in Key :
         tables[s][key] = IF s >= 0 THEN FirstDefinition(text, s, at, key) ELSE NULL
  /\ pass = "local" =>
       \A s \in Scopes : \A key \in Key :
         tables[s][key] = IF s >= 0 THEN InBlock(text, s, at, key)
                          ELSE IF -s < at THEN AsParam(text, -s, key) ELSE NULL

\* The links lead to the scope around, past the parameters of a function.
ParentsRight ==
  /\ parent[ROOT] = NULL
  /\ pass = "local" =>
       \A o \in 1..(at - 1) :
         /\ text[o].t = "fn" => parent[o] = -o /\ parent[-o] = Around(text, o)
         /\ text[o].t = "block" => parent[o] = Around(text, o)

\* The function that a symbol is marked with
Owner(t, bound, s) ==
  IF s[2] > 0 THEN bound[s[1]]
  ELSE IF t[s[1]].t = "let" THEN FuncIn(t, bound, "local", s[1]) ELSE NULL

OwnersRight ==
  /\ pass = "root" => \A s \in Symbols : function[s] = NULL
  /\ pass = "local" =>
       \A s \in Symbols : function[s] = IF s[1] < at THEN Owner(text, binding, s) ELSE NULL

\* The name at token p is defined before in its scope.
Taken(t, p) == \E q \in Defining(t, Around(t, p), t[p].key, {"fn", "def"}) : q < p

FunctionsBound ==
  \A p \in DOMAIN text :
    text[p].t = "fn" /\ (pass # "root" \/ p < at) =>
      binding[p] = IF Taken(text, p) THEN NULL ELSE Symbol(p, 0)

UsesBound ==
  \A p \in Uses(text) :
    pass = "done" \/ (pass = "local" /\ p < at) => binding[p] = Meant(text, p)

\* What the walks have checked up to token p of the walk
NamesFree(t, p) == \A q \in 1..(p - 1) : t[q].t \in {"fn", "def"} => ~ Taken(t, q)

UsesAllowed(t, p) ==
  \A q \in 1..(p - 1) :
    /\ t[q].t = "fn" => \A i, j \in DOMAIN t[q].params : i # j => t[q].params[i] # t[q].params[j]
    /\ t[q].t = "use" => Meant(t, q) # NULL /\ Home(t, Meant(t, q)) \in {NULL, FunctionAround(t, q)}

ErrorsRight ==
  errors = {} <=>
    CASE pass = "root" -> NamesFree(text, at)
      [] pass = "local" -> NamesFree(text, Len(text) + 1) /\ UsesAllowed(text, at)
      [] OTHER -> NamesFree(text, Len(text) + 1) /\ UsesAllowed(text, Len(text) + 1)

\* A name that is looked up is not known in the scopes further in.
LookRight ==
  look # NULL =>
    /\ In("local", "use") /\ look \in Scopes
    /\ LET o == IF look >= 0 THEN look ELSE -look
       IN  /\ o \in Enclosing(text, at) \cup {ROOT}
           /\ \A i \in Enclosing(text, at) : i > o => Known(text, i, at, Token.key) = NULL
           /\ look < 0 => text[o].t = "fn" /\ InBlock(text, o, at, Token.key) = NULL

IInv ==
  /\ Typed /\ WalkRight /\ SavedRight /\ TablesRight /\ ParentsRight /\ OwnersRight
  /\ FunctionsBound /\ UsesBound /\ ErrorsRight /\ LookRight

-----------------------------------------------------------------------------
(***************************************************************************)
(* The walk.                                                               *)
(***************************************************************************)
LEMMA Places ==
  ASSUME Typed
  PROVE  /\ text \in Texts /\ Len(text) \in Nat /\ DOMAIN text = 1..Len(text)
         /\ at \in Nat /\ at > 0 /\ (at <= Len(text) => at \in DOMAIN text /\ at + 1 \in 1..(Len(text) + 1))
         /\ (~ (at <= Len(text)) => at = Len(text) + 1)
BY Text DEF Typed

LEMMA TokenShape ==
  ASSUME NEW t \in Texts, NEW p \in DOMAIN t
  PROVE  /\ t[p].t \in {"block", "end", "fn", "let", "def", "use"}
         /\ t[p].t \in {"fn", "let", "def", "use"} => t[p].key \in Key
         /\ t[p].t \in {"fn", "let"} => t[p].key.kind = "VARIABLE"
         /\ t[p].t = "fn" =>
              /\ t[p].params \in Seq({key \in Key : key.kind = "VARIABLE"})
              /\ DOMAIN t[p].params \in SUBSET (Nat \ {0})
<1>1. IsToken(t[p])
  BY TextsAssumption
<1>2. CASE t[p] \in {Block, End}
  BY <1>2 DEF Block, End
<1>3. CASE t[p] \notin {Block, End}
  BY <1>1, <1>3 DEF IsToken
<1> QED
  BY <1>2, <1>3

Entering ==
  /\ at \in DOMAIN text /\ Opens(text[at]) /\ pass # "done" /\ pass' = pass /\ at' = at + 1
  /\ scope' = at /\ saved' = Append(saved, <<scope, func>>)
  /\ func' = IF pass = "local" /\ text[at].t = "fn" THEN binding[at] ELSE func

Leaving ==
  /\ at \in DOMAIN text /\ text[at].t = "end" /\ pass' = pass /\ at' = at + 1
  /\ scope' = saved[Len(saved)][1] /\ func' = saved[Len(saved)][2]
  /\ saved' = SubSeq(saved, 1, Len(saved) - 1)

Passing ==
  /\ at \in DOMAIN text /\ ~ Opens(text[at]) /\ text[at].t # "end" /\ pass' = pass /\ at' = at + 1
  /\ UNCHANGED <<scope, func, saved>>

Starting ==
  /\ pass # "done" /\ at = Len(text) + 1 /\ at' = 1
  /\ pass' = IF pass = "root" THEN "local" ELSE "done"
  /\ UNCHANGED <<scope, func, saved, binding>>

Looking == UNCHANGED <<pass, at, scope, func, saved, binding>>

FnsStay == \A f \in DOMAIN text : text[f].t = "fn" /\ pass # "root" => binding'[f] = binding[f]

\* The actions as steps of the walk
LEMMA Moves ==
  ASSUME Typed, Next
  PROVE  /\ text' = text /\ FnsStay
         /\ Entering \/ Leaving \/ Passing \/ Starting \/ Looking
<1>1. /\ Len(text) \in Nat /\ DOMAIN text = 1..Len(text) /\ at \in Nat
      /\ at <= Len(text) => at \in DOMAIN text
      /\ ~ (at <= Len(text)) => at = Len(text) + 1
  BY Places
<1>2. binding \in [DOMAIN text -> Slots]
  BY DEF Typed
<1>3. ASSUME NEW walk, NEW kind, In(walk, kind)
      PROVE  at \in DOMAIN text /\ text[at].t = kind /\ pass = walk
  BY <1>1, <1>3 DEF In, Token
<1>4. CASE RootFn
  <2>1. In("root", "fn")
    BY <1>4 DEF RootFn
  <2>2. at \in DOMAIN text /\ text[at].t = "fn" /\ pass = "root"
    BY <1>3, <2>1
  <2> QED
    BY <1>4, <2>2 DEF RootFn, Entering, FnsStay, Save, Opens, BlockScope
<1>5. CASE RootBlock
  <2>1. In("root", "block")
    BY <1>5 DEF RootBlock
  <2>2. at \in DOMAIN text /\ text[at].t = "block" /\ pass = "root"
    BY <1>3, <2>1
  <2> QED
    BY <1>5, <2>2 DEF RootBlock, Entering, FnsStay, Save, Opens, BlockScope
<1>6. CASE RootDef
  <2>1. In("root", "def")
    BY <1>6 DEF RootDef
  <2>2. at \in DOMAIN text /\ text[at].t = "def" /\ pass = "root"
    BY <1>3, <2>1
  <2> QED
    BY <1>6, <2>2 DEF RootDef, Passing, FnsStay, Opens
<1>7. CASE RootSkip
  <2>1. In("root", "let") \/ In("root", "use")
    BY <1>7 DEF RootSkip
  <2>2. at \in DOMAIN text /\ text[at].t \in {"let", "use"} /\ pass = "root"
    BY <1>3, <2>1
  <2> QED
    BY <1>7, <2>2 DEF RootSkip, Passing, FnsStay, Opens
<1>8. CASE LocalFn
  <2>1. In("local", "fn")
    BY <1>8 DEF LocalFn
  <2>2. at \in DOMAIN text /\ text[at].t = "fn" /\ pass = "local"
    BY <1>3, <2>1
  <2> QED
    BY <1>8, <2>2 DEF LocalFn, Entering, FnsStay, Save, Opens, BlockScope
<1>9. CASE LocalBlock
  <2>1. In("local", "block")
    BY <1>9 DEF LocalBlock
  <2>2. at \in DOMAIN text /\ text[at].t = "block" /\ pass = "local"
    BY <1>3, <2>1
  <2> QED
    BY <1>9, <2>2 DEF LocalBlock, Entering, FnsStay, Save, Opens, BlockScope
<1>10. CASE LocalLet
  <2>1. In("local", "let")
    BY <1>10 DEF LocalLet
  <2>2. at \in DOMAIN text /\ text[at].t = "let" /\ pass = "local"
    BY <1>3, <2>1
  <2> QED
    BY <1>10, <2>2 DEF LocalLet, Passing, FnsStay, Opens
<1>11. CASE LocalSkip
  <2>1. In("local", "def")
    BY <1>11 DEF LocalSkip
  <2>2. at \in DOMAIN text /\ text[at].t = "def" /\ pass = "local"
    BY <1>3, <2>1
  <2> QED
    BY <1>11, <2>2 DEF LocalSkip, Passing, FnsStay, Opens
<1>12. CASE LocalUse
  <2>1. In("local", "use")
    BY <1>12 DEF LocalUse
  <2>2. at \in DOMAIN text /\ text[at].t = "use" /\ pass = "local"
    BY <1>3, <2>1
  <2>3. binding' = [binding EXCEPT ![at] = Found] /\ text' = text
    BY <1>12 DEF LocalUse
  <2>4. FnsStay
    BY <1>2, <2>2, <2>3 DEF FnsStay
  <2> QED
    BY <1>12, <2>2, <2>4 DEF LocalUse, Passing, Opens
<1>13. CASE LookUp \/ LookOutwards
  BY <1>13 DEF LookUp, LookOutwards, Looking, FnsStay
<1>14. CASE LeaveScope
  <2>1. at \in DOMAIN text /\ text[at].t = "end"
    BY <1>3, <1>14 DEF LeaveScope
  <2> QED
    BY <1>14, <2>1 DEF LeaveScope, Leaving, FnsStay
<1>15. CASE NextPass
  BY <1>1, <1>15 DEF NextPass, Starting, FnsStay
<1> QED
  BY <1>4, <1>5, <1>6, <1>7, <1>8, <1>9, <1>10, <1>11, <1>12, <1>13, <1>14, <1>15 DEF Next

\* The functions around keep their symbols.
LEMMA FuncStays ==
  ASSUME Typed, FnsStay, NEW o \in Nat, o <= Len(text) + 1
  PROVE  FuncIn(text, binding', pass, o) = FuncIn(text, binding, pass, o)
<1>1. CASE pass = "root" \/ FunctionAround(text, o) = NULL
  BY <1>1 DEF FuncIn
<1>2. CASE pass # "root" /\ FunctionAround(text, o) # NULL
  <2> DEFINE f == FunctionAround(text, o)
  <2>1. f \in Enclosing(text, o) /\ text[f].t = "fn"
    BY <1>2, FunctionAroundFacts
  <2>2. f \in 1..(o - 1)
    BY <2>1, AroundFacts
  <2>3. f \in DOMAIN text
    BY <2>2, Places
  <2> HIDE DEF f
  <2>4. binding'[f] = binding[f]
    BY <1>2, <2>1, <2>3 DEF FnsStay
  <2> QED
    BY <1>2, <2>4 DEF FuncIn, f
<1> QED
  BY <1>1, <1>2

LEMMA TopSaved ==
  ASSUME Typed, WalkRight, SavedRight, Leaving
  PROVE  /\ Len(saved) \in Nat \ {0} /\ scope \in DOMAIN text
         /\ saved[Len(saved)] = <<Around(text, scope), FuncIn(text, binding, pass, scope)>>
<1>1. Len(saved) \in Nat
  BY DEF Typed
<1>2. scope \in Enclosing(text, at)
  BY ScopeStep, Places DEF WalkRight, Leaving
<1>3. scope # ROOT
  BY <1>2, Places, Nested DEF ROOT
<1>4. Len(saved) # 0
  BY <1>3 DEF SavedRight, OuterScope
<1>5. OuterScope(saved, scope, Len(saved) + 1) = scope
  BY <1>1 DEF OuterScope
<1>6. Len(saved) \in 1..Len(saved)
  BY <1>1, <1>4
<1> QED
  BY <1>1, <1>4, <1>5, <1>6 DEF SavedRight

LEMMA WalkKeeps ==
  ASSUME Typed, WalkRight, SavedRight, Next
  PROVE  WalkRight'
<1>1. /\ text \in Texts /\ at \in Nat /\ at + 1 \in Nat /\ Len(text) \in Nat /\ DOMAIN text = 1..Len(text)
      /\ at <= Len(text) + 1
  BY Places
<1>2. text' = text /\ FnsStay
  BY Moves
<1> SUFFICES scope' = Around(text, at') /\ func' = FuncIn(text, binding', pass', at')
  BY <1>2 DEF WalkRight
<1>3. scope = Around(text, at) /\ func = FuncIn(text, binding, pass, at)
  BY DEF WalkRight
<1>4. CASE Entering
  <2>1. /\ Around(text, at + 1) = at
        /\ FunctionAround(text, at + 1) = IF text[at].t = "fn" THEN at ELSE FunctionAround(text, at)
    BY <1>1, <1>4, ScopeStep DEF Entering
  <2>2. at # NULL
    BY <1>1, NullAssumption
  <2>3. FuncIn(text, binding, pass, at + 1) =
          IF pass # "root" /\ text[at].t = "fn" THEN binding[at] ELSE FuncIn(text, binding, pass, at)
    BY <2>1, <2>2 DEF FuncIn
  <2>4. FuncIn(text, binding', pass, at + 1) = FuncIn(text, binding, pass, at + 1)
    BY <1>1, <1>2, <1>4, FuncStays DEF Entering
  <2> QED
    BY <1>3, <1>4, <2>1, <2>3, <2>4 DEF Entering, Typed
<1>5. CASE Leaving
  <2>1. /\ saved[Len(saved)] = <<Around(text, scope), FuncIn(text, binding, pass, scope)>>
        /\ scope \in DOMAIN text
    BY <1>5, TopSaved
  <2>2. Around(text, at + 1) = Around(text, scope) /\ FunctionAround(text, at + 1) = FunctionAround(text, scope)
    BY <1>1, <1>3, <1>5, ScopeStep DEF Leaving
  <2>3. FuncIn(text, binding, pass, at + 1) = FuncIn(text, binding, pass, scope)
    BY <2>2 DEF FuncIn
  <2>4. FuncIn(text, binding', pass, at + 1) = FuncIn(text, binding, pass, at + 1)
    BY <1>1, <1>2, <1>5, FuncStays DEF Leaving
  <2> QED
    BY <1>5, <2>1, <2>2, <2>3, <2>4 DEF Leaving
<1>6. CASE Passing
  <2>1. Around(text, at + 1) = Around(text, at) /\ FunctionAround(text, at + 1) = FunctionAround(text, at)
    BY <1>1, <1>6, ScopeStep DEF Passing
  <2>2. FuncIn(text, binding, pass, at + 1) = FuncIn(text, binding, pass, at)
    BY <2>1 DEF FuncIn
  <2>3. FuncIn(text, binding', pass, at + 1) = FuncIn(text, binding, pass, at + 1)
    BY <1>1, <1>2, <1>6, FuncStays DEF Passing
  <2> QED
    BY <1>3, <1>6, <2>1, <2>2, <2>3 DEF Passing
<1>7. CASE Starting
  <2>1. Around(text, at) = ROOT /\ Around(text, 1) = ROOT /\ FunctionAround(text, 1) = NULL
    BY <1>1, <1>7, Outermost DEF Starting
  <2>2. FunctionAround(text, at) = NULL
    <3>1. Enclosing(text, at) = {}
      BY <1>1, <2>1, AroundFacts
    <3> QED
      BY <1>1, <3>1, FunctionAroundFacts
  <2> QED
    BY <1>3, <1>7, <2>1, <2>2 DEF Starting, FuncIn
<1>8. CASE Looking
  BY <1>3, <1>8 DEF Looking
<1> QED
  BY <1>4, <1>5, <1>6, <1>7, <1>8, Moves

LEMMA SavedKeeps ==
  ASSUME Typed, WalkRight, SavedRight, Next
  PROVE  SavedRight'
<1> DEFINE n == Len(saved)
           S(k) == OuterScope(saved, scope, k)
           T(k) == OuterScope(saved', scope', k)
<1>1. /\ text \in Texts /\ at \in Nat /\ Len(text) \in Nat /\ DOMAIN text = 1..Len(text)
      /\ at <= Len(text) + 1 /\ n \in Nat /\ saved \in Seq(Nat \X Slots)
  BY Places DEF Typed
<1>2. text' = text /\ FnsStay
  BY Moves
<1>3. scope = Around(text, at) /\ func = FuncIn(text, binding, pass, at)
  BY DEF WalkRight
<1>4. /\ S(1) = ROOT
      /\ \A k \in 1..n : /\ S(k + 1) \in DOMAIN text
                         /\ saved[k] = <<Around(text, S(k + 1)), FuncIn(text, binding, pass, S(k + 1))>>
  BY DEF SavedRight
<1> SUFFICES /\ T(1) = ROOT
             /\ \A k \in 1..Len(saved') :
                  /\ T(k + 1) \in DOMAIN text
                  /\ saved'[k] = <<Around(text, T(k + 1)), FuncIn(text, binding', pass', T(k + 1))>>
  BY <1>2 DEF SavedRight
<1>5. \A o \in DOMAIN text : FuncIn(text, binding', pass, o) = FuncIn(text, binding, pass, o)
  BY <1>1, <1>2, FuncStays
<1>6. CASE Entering
  <2> DEFINE e == <<scope, func>>
  <2>1. e \in Nat \X Slots
    <3>1. scope \in Nat
      BY <1>1, <1>3, AroundFacts
    <3>2. func \in Slots
      <4>1. CASE pass = "root" \/ FunctionAround(text, at) = NULL
        BY <1>3, <4>1 DEF FuncIn, Slots
      <4>2. CASE pass # "root" /\ FunctionAround(text, at) # NULL
        <5>1. FunctionAround(text, at) \in 1..(at - 1)
          BY <1>1, <4>2, FunctionAroundFacts, AroundFacts
        <5>2. FunctionAround(text, at) \in DOMAIN text
          BY <1>1, <5>1
        <5> QED
          BY <1>3, <4>2, <5>2 DEF FuncIn, Typed
      <4> QED
        BY <4>1, <4>2
    <3> QED
      BY <3>1, <3>2
  <2>2. saved' = Append(saved, e) /\ scope' = at /\ pass' = pass /\ at \in DOMAIN text
    BY <1>6 DEF Entering
  <2> HIDE DEF e
  <2>3. /\ Len(saved') = n + 1 /\ saved'[n + 1] = e
        /\ \A k \in 1..n : saved'[k] = saved[k]
    BY <1>1, <2>1, <2>2, AppendProperties
  <2>4. T(n + 2) = at
    BY <1>1, <2>2, <2>3 DEF OuterScope
  <2>5. \A k \in 1..(n + 1) : T(k) = S(k)
    <3> TAKE k \in 1..(n + 1)
    <3>1. k <= Len(saved')
      BY <1>1, <2>3
    <3>2. T(k) = saved'[k][1]
      BY <3>1 DEF OuterScope
    <3>3. CASE k = n + 1
      <4>1. ~ (k <= n)
        BY <1>1, <3>3
      <4> QED
        BY <2>3, <3>2, <3>3, <4>1 DEF OuterScope, e
    <3>4. CASE k # n + 1
      <4>1. k \in 1..n /\ k <= n
        BY <1>1, <3>4
      <4> QED
        BY <2>3, <3>2, <4>1 DEF OuterScope
    <3> QED
      BY <3>3, <3>4
  <2> HIDE DEF S, T, n
  <2>6. ASSUME NEW k \in 1..(n + 1)
        PROVE  /\ T(k + 1) \in DOMAIN text
               /\ saved'[k] = <<Around(text, T(k + 1)), FuncIn(text, binding', pass', T(k + 1))>>
    <3>1. CASE k = n + 1
      <4>1. k + 1 = n + 2
        BY <1>1, <3>1
      <4> QED
        BY <1>3, <1>5, <2>2, <2>3, <2>4, <3>1, <4>1 DEF e
    <3>2. CASE k # n + 1
      <4>1. k \in 1..n /\ k + 1 \in 1..(n + 1)
        BY <1>1, <3>2
      <4> QED
        BY <1>4, <1>5, <2>2, <2>3, <2>5, <4>1
    <3> QED
      BY <3>1, <3>2
  <2>7. T(1) = ROOT
    <3>1. 1 \in 1..(n + 1)
      BY <1>1
    <3> QED
      BY <1>4, <2>5, <3>1
  <2> QED
    BY <2>3, <2>6, <2>7
<1>7. CASE Leaving
  <2>1. n # 0
    BY <1>7, TopSaved
  <2>2. /\ saved' = SubSeq(saved, 1, n - 1) /\ scope' = saved[n][1] /\ pass' = pass
    BY <1>7 DEF Leaving
  <2>3. Len(saved') = n - 1 /\ \A k \in 1..(n - 1) : saved'[k] = saved[k]
    <3>1. /\ n - 1 \in Int /\ 1 \in Int /\ \A k \in 1..(n - 1) : saved[k] \in Nat \X Slots
          /\ n - 1 >= 0
      BY <1>1, <2>1
    <3>2. /\ Len(saved') = IF 1 <= n - 1 THEN n - 1 - 1 + 1 ELSE 0
          /\ \A k \in 1..(n - 1 - 1 + 1) : saved'[k] = saved[1 + k - 1]
      <4> HIDE DEF n
      <4> QED
        BY <2>2, <3>1, SubSeqProperties
    <3> HIDE DEF n
    <3>3. n - 1 - 1 + 1 = n - 1 /\ \A k \in 1..(n - 1) : 1 + k - 1 = k
      BY <1>1
    <3>4. (IF 1 <= n - 1 THEN n - 1 ELSE 0) = n - 1
      BY <1>1, <2>1
    <3> QED
      BY <3>2, <3>3, <3>4
  <2>4. \A k \in 1..n : T(k) = S(k)
    <3> TAKE k \in 1..n
    <3>1. k <= n
      BY <1>1
    <3>2. S(k) = saved[k][1]
      BY <3>1 DEF OuterScope
    <3>3. CASE k = n
      <4>1. ~ (k <= Len(saved'))
        BY <1>1, <2>3, <3>3
      <4> QED
        BY <2>2, <3>2, <3>3, <4>1 DEF OuterScope
    <3>4. CASE k # n
      <4>1. k \in 1..(n - 1) /\ k <= Len(saved')
        BY <1>1, <2>3, <3>4
      <4> QED
        BY <2>3, <3>2, <4>1 DEF OuterScope
    <3> QED
      BY <3>3, <3>4
  <2> HIDE DEF S, T, n
  <2>5. 1 \in 1..n /\ \A k \in 1..(n - 1) : k \in 1..n /\ k + 1 \in 1..n
    BY <1>1, <2>1
  <2> QED
    BY <1>4, <1>5, <2>2, <2>3, <2>4, <2>5
<1>8. CASE Passing \/ Looking
  BY <1>4, <1>5, <1>8 DEF Passing, Looking
<1>9. CASE Starting
  <2>1. scope = ROOT
    BY <1>1, <1>3, <1>9, Outermost DEF Starting
  <2>2. n = 0
    <3> SUFFICES ASSUME n # 0 PROVE FALSE
      OBVIOUS
    <3>1. n \in 1..n /\ ~ (n + 1 <= n)
      BY <1>1
    <3>2. S(n + 1) = scope /\ S(n + 1) \in DOMAIN text
      BY <1>4, <3>1 DEF OuterScope
    <3> QED
      BY <1>1, <2>1, <3>2 DEF ROOT
  <2> QED
    BY <1>4, <1>9, <2>2 DEF Starting
<1> QED
  BY <1>6, <1>7, <1>8, <1>9, Moves

-----------------------------------------------------------------------------
(***************************************************************************)
(* What a scope knows, from token to token.                                *)
(***************************************************************************)
LEMMA SymbolIsNotNull ==
  ASSUME NEW p \in Int, NEW i \in Int
  PROVE  Symbol(p, i) # NULL /\ Symbol(p, i) \in Slots /\ Symbol(p, i)[1] = p /\ Symbol(p, i)[2] = i
BY NullAssumption DEF Symbol, Slots

LEMMA DefiningFacts ==
  ASSUME NEW t \in Texts, NEW o, NEW key, NEW kinds
  PROVE  /\ Defining(t, o, key, kinds) \in SUBSET Nat
         /\ Defining(t, o, key, kinds) \subseteq 1..Len(t)
BY Text DEF Defining

LEMMA FirstDefinitionStep ==
  ASSUME NEW t \in Texts, NEW p \in DOMAIN t, NEW s, NEW key
  PROVE  /\ FirstDefinition(t, s, p + 1, key) =
              IF /\ t[p].t \in {"fn", "def"} /\ t[p].key = key /\ Around(t, p) = s
                 /\ FirstDefinition(t, s, p, key) = NULL
              THEN Symbol(p, 0) ELSE FirstDefinition(t, s, p, key)
<1> DEFINE D == Defining(t, s, key, {"fn", "def"})
           A == {q \in D : q < p}
           B == {q \in D : q < p + 1}
<1>1. p \in Nat /\ D \in SUBSET Nat
  BY Text, DefiningFacts
<1>2. p \in D <=> t[p].t \in {"fn", "def"} /\ t[p].key = key /\ Around(t, p) = s
  BY DEF Defining
<1>3. /\ FirstDefinition(t, s, p, key) = IF A = {} THEN NULL ELSE Symbol(Smallest(A), 0)
      /\ FirstDefinition(t, s, p + 1, key) = IF B = {} THEN NULL ELSE Symbol(Smallest(B), 0)
  BY DEF FirstDefinition
<1>4. A \in SUBSET Nat /\ B \in SUBSET Nat /\ \A q \in A : q < p
  BY <1>1
<1>5. B = IF p \in D THEN A \cup {p} ELSE A
  BY <1>1
<1> HIDE DEF D, A, B
<1>6. A # {} => Smallest(A) \in A /\ FirstDefinition(t, s, p, key) # NULL
  <2> SUFFICES ASSUME A # {} PROVE Smallest(A) \in A /\ FirstDefinition(t, s, p, key) # NULL
    OBVIOUS
  <2>1. Smallest(A) \in A
    BY <1>4, SmallestIsElement
  <2>2. PICK x \in Nat : x = Smallest(A)
    BY <1>4, <2>1
  <2>3. Symbol(x, 0) # NULL
    BY SymbolIsNotNull
  <2>4. FirstDefinition(t, s, p, key) = Symbol(x, 0)
    BY <1>3, <2>2
  <2> QED
    BY <2>1, <2>3, <2>4
<1>7. CASE p \notin D
  BY <1>2, <1>3, <1>5, <1>7
<1>8. CASE p \in D /\ A = {}
  <2>1. B = {p} /\ Smallest(B) \in B
    BY <1>4, <1>5, <1>8, SmallestIsElement
  <2> QED
    BY <1>2, <1>3, <1>8, <2>1
<1>9. CASE p \in D /\ A # {}
  <2>1. /\ Smallest(A) \in A /\ \A y \in A : Smallest(A) <= y
        /\ Smallest(B) \in B /\ \A y \in B : Smallest(B) <= y
    BY <1>4, <1>5, <1>9, SmallestIsElement
  <2>2. Smallest(B) <= Smallest(A) /\ Smallest(A) < p /\ Smallest(A) \in Nat /\ Smallest(B) \in Nat
    BY <1>4, <1>5, <1>9, <2>1
  <2>3. Smallest(B) \in A
    BY <1>1, <1>5, <1>9, <2>1, <2>2
  <2>4. Smallest(B) = Smallest(A)
    BY <2>1, <2>2, <2>3
  <2> QED
    BY <1>3, <1>5, <1>6, <1>9, <2>4
<1> QED
  BY <1>7, <1>8, <1>9

LEMMA InBlockStep ==
  ASSUME NEW t \in Texts, NEW p \in DOMAIN t, NEW s, NEW key
  PROVE  InBlock(t, s, p + 1, key) =
           IF t[p].t = "let" /\ t[p].key = key /\ Around(t, p) = s
           THEN Symbol(p, 0) ELSE InBlock(t, s, p, key)
<1> DEFINE D == Defining(t, s, key, {"let"})
           A == {q \in D : q < p}
           B == {q \in D : q < p + 1}
<1>1. p \in Nat /\ D \in SUBSET Nat /\ D \subseteq 1..Len(t) /\ Len(t) \in Nat
  BY Text, DefiningFacts
<1>2. p \in D <=> t[p].t = "let" /\ t[p].key = key /\ Around(t, p) = s
  BY DEF Defining
<1>3. B = IF p \in D THEN A \cup {p} ELSE A
  BY <1>1
<1>4. CASE p \notin D
  BY <1>2, <1>3, <1>4 DEF InBlock
<1>5. CASE p \in D
  <2>1. B \subseteq 1..Len(t) /\ B # {} /\ p \in B /\ \A q \in B : q <= p /\ q \in Nat
    BY <1>1, <1>3, <1>5
  <2>2. InBlock(t, s, p + 1, key) = Symbol(Largest(B, NULL), 0)
    BY <2>1 DEF InBlock
  <2> HIDE DEF B
  <2>3. Largest(B, NULL) \in B /\ p <= Largest(B, NULL)
    BY <1>1, <2>1, LargestIsElement
  <2>4. Largest(B, NULL) = p
    BY <1>1, <2>1, <2>3
  <2> QED
    BY <1>2, <1>5, <2>2, <2>4
<1> QED
  BY <1>4, <1>5

LEMMA InBlockAtFirst ==
  ASSUME NEW t \in Texts, NEW s, NEW key
  PROVE  InBlock(t, s, 1, key) = FirstDefinition(t, s, Len(t) + 1, key)
<1> DEFINE L == Defining(t, s, key, {"let"})
           D == Defining(t, s, key, {"fn", "def"})
<1>1. Len(t) \in Nat /\ L \subseteq 1..Len(t) /\ D \subseteq 1..Len(t)
  BY Text, DefiningFacts
<1>2. {q \in L : q < 1} = {} /\ {q \in D : q < Len(t) + 1} = D
  BY <1>1
<1> QED
  BY <1>2 DEF InBlock, FirstDefinition

\* The symbols that a scope knows are symbols, by the kind of their definition.
LEMMA InBlockFacts ==
  ASSUME NEW t \in Texts, NEW o, NEW p \in Nat, NEW key, InBlock(t, o, p, key) # NULL
  PROVE  \E q \in DOMAIN t :
           /\ InBlock(t, o, p, key) = Symbol(q, 0) /\ t[q].key = key
           /\ t[q].t \in {"fn", "def"} \/ (t[q].t = "let" /\ q < p)
<1> DEFINE A == {q \in Defining(t, o, key, {"let"}) : q < p}
           D == Defining(t, o, key, {"fn", "def"})
<1>1. /\ Len(t) \in Nat /\ A \subseteq 1..Len(t) /\ D \subseteq 1..Len(t) /\ D \in SUBSET Nat
      /\ DOMAIN t = 1..Len(t)
  BY Text, DefiningFacts
<1>2. InBlock(t, o, p, key) = IF A # {} THEN Symbol(Largest(A, NULL), 0)
                              ELSE IF D # {} THEN Symbol(Smallest(D), 0) ELSE NULL
  BY DEF InBlock
<1>3. \A q \in A : q < p /\ t[q].key = key /\ t[q].t = "let"
  BY DEF Defining
<1>4. \A q \in D : t[q].key = key /\ t[q].t \in {"fn", "def"}
  BY DEF Defining
<1> HIDE DEF A, D
<1>5. CASE A # {}
  <2>1. Largest(A, NULL) \in A
    BY <1>1, <1>5, LargestIsElement
  <2> QED
    BY <1>1, <1>2, <1>3, <1>5, <2>1
<1>6. CASE A = {}
  <2>1. D # {}
    BY <1>2, <1>6
  <2>2. Smallest(D) \in D
    BY <1>1, <2>1, SmallestIsElement
  <2> QED
    BY <1>1, <1>2, <1>4, <1>6, <2>1, <2>2
<1> QED
  BY <1>5, <1>6

LEMMA AsParamFacts ==
  ASSUME NEW t \in Texts, NEW o \in DOMAIN t \cup {ROOT}, NEW key
  PROVE  /\ o = ROOT \/ t[o].t # "fn" => AsParam(t, o, key) = NULL
         /\ AsParam(t, o, key) # NULL =>
              \E i \in DOMAIN t[o].params :
                AsParam(t, o, key) = Symbol(o, i) /\ i \in Nat \ {0} /\ t[o].params[i] = key
         /\ AsParam(t, o, key) \in Slots
<1>1. CASE o = ROOT \/ t[o].t # "fn"
  BY <1>1 DEF AsParam, Slots
<1>2. CASE o # ROOT /\ t[o].t = "fn"
  <2> DEFINE same == {i \in DOMAIN t[o].params : t[o].params[i] = key}
  <2>1. same \in SUBSET Nat /\ same \subseteq Nat \ {0} /\ o \in Nat
    <3>1. o \in DOMAIN t /\ o \in Nat
      BY <1>2, Text
    <3>2. DOMAIN t[o].params \in SUBSET (Nat \ {0})
      BY <1>2, <3>1, TokenShape
    <3>3. same \subseteq DOMAIN t[o].params
      OBVIOUS
    <3> HIDE DEF same
    <3> QED
      BY <3>1, <3>2, <3>3
  <2>2. AsParam(t, o, key) = IF same = {} THEN NULL ELSE Symbol(o, Smallest(same))
    BY <1>2 DEF AsParam
  <2>3. same # {} => Smallest(same) \in same
    <3> HIDE DEF same
    <3> QED
      BY <2>1, SmallestIsElement
  <2>4. CASE same = {}
    BY <1>2, <2>2, <2>4 DEF Slots
  <2>5. CASE same # {}
    <3>1. PICK i : i = Smallest(same)
      OBVIOUS
    <3>2. i \in DOMAIN t[o].params /\ t[o].params[i] = key /\ i \in Nat \ {0}
      BY <2>1, <2>3, <2>5, <3>1
    <3>3. AsParam(t, o, key) = Symbol(o, i)
      BY <2>2, <2>5, <3>1
    <3>4. Symbol(o, i) \in Slots
      BY <2>1, <3>2, SymbolIsNotNull
    <3> QED
      BY <1>2, <3>2, <3>3, <3>4
  <2> QED
    BY <2>4, <2>5
<1> QED
  BY <1>1, <1>2

-----------------------------------------------------------------------------
(***************************************************************************)
(* What the actions do to the tables, links and marks.                     *)
(***************************************************************************)
LEMMA ScopeTyped ==
  ASSUME Typed, WalkRight
  PROVE  /\ scope \in Nat /\ scope \in Scopes /\ scope \in Enclosing(text, at) \cup {ROOT}
         /\ func \in Slots
         /\ at \in DOMAIN text => at \in Scopes /\ -at \in Scopes /\ at > 0
<1>1. /\ text \in Texts /\ at \in Nat /\ at > 0 /\ Len(text) \in Nat /\ DOMAIN text = 1..Len(text)
      /\ at <= Len(text) + 1
  BY Places
<1>2. scope = Around(text, at) /\ func = FuncIn(text, binding, pass, at)
  BY DEF WalkRight
<1>3. scope \in Nat /\ scope \in Enclosing(text, at) \cup {ROOT}
  BY <1>1, <1>2, AroundFacts
<1>4. scope \in Scopes
  <2>1. scope \in 1..(at - 1) \/ scope = 0
    BY <1>1, <1>3, AroundFacts DEF ROOT
  <2> QED
    BY <1>1, <2>1 DEF Scopes
<1>5. func \in Slots
  <2>1. CASE pass = "root" \/ FunctionAround(text, at) = NULL
    BY <1>2, <2>1 DEF FuncIn, Slots
  <2>2. CASE pass # "root" /\ FunctionAround(text, at) # NULL
    <3>1. FunctionAround(text, at) \in 1..(at - 1)
      BY <1>1, <2>2, FunctionAroundFacts, AroundFacts
    <3>2. FunctionAround(text, at) \in DOMAIN text
      BY <1>1, <3>1
    <3> QED
      BY <1>2, <2>2, <3>2 DEF FuncIn, Typed
  <2> QED
    BY <2>1, <2>2
<1>6. at \in DOMAIN text => at \in Scopes /\ -at \in Scopes /\ at > 0
  BY <1>1 DEF Scopes
<1> QED
  BY <1>3, <1>4, <1>5, <1>6

LEMMA AtToken ==
  ASSUME Typed, NEW walk, NEW kind, In(walk, kind)
  PROVE  /\ at \in DOMAIN text /\ text[at].t = kind /\ Token = text[at] /\ pass = walk
         /\ at \in Nat /\ at > 0
BY Places DEF In, Token

LEMMA Updated ==
  ASSUME NEW S, NEW K, NEW V, NEW f \in [S -> [K -> V]], NEW a \in S, NEW b \in K, NEW v \in V
  PROVE  LET g == [f EXCEPT ![a][b] = v]
         IN  /\ g \in [S -> [K -> V]]
             /\ \A s \in S : \A k \in K : g[s][k] = IF s = a /\ k = b THEN v ELSE f[s][k]
OBVIOUS

\* In the first walk a name that is free is entered.
Definitions ==
  \A s \in Scopes : \A key \in Key :
    tables'[s][key] = IF /\ text[at].t \in {"fn", "def"} /\ text[at].key = key /\ s = scope
                         /\ tables[s][key] = NULL
                      THEN Symbol(at, 0) ELSE tables[s][key]

\* In the second one variables and parameters are.
Variables ==
  \A s \in Scopes : \A key \in Key :
    tables'[s][key] = IF text[at].t = "let" /\ text[at].key = key /\ s = scope THEN Symbol(at, 0)
                      ELSE IF text[at].t = "fn" /\ s = -at THEN AsParam(text, at, key)
                      ELSE tables[s][key]

LEMMA DefineOnceMoves ==
  ASSUME Typed, WalkRight, at \in DOMAIN text, text[at].t \in {"fn", "def"}, DefineOnce
  PROVE  /\ tables' \in [Scopes -> [Key -> Slots]] /\ Definitions
         /\ tables' = tables <=> tables[scope][text[at].key] # NULL
         /\ errors' = {} <=> errors = {} /\ tables[scope][text[at].key] = NULL
<1> DEFINE key == text[at].key
<1>1. /\ key \in Key /\ scope \in Scopes /\ at \in Nat /\ Token = text[at]
      /\ tables \in [Scopes -> [Key -> Slots]]
  BY TokenShape, ScopeTyped, Places DEF Token, Typed
<1>2. Symbol(at, 0) \in Slots /\ Symbol(at, 0) # NULL
  BY <1>1, SymbolIsNotNull
<1>3. CASE tables[scope][key] = NULL
  <2>1. tables' = [tables EXCEPT ![scope][key] = Symbol(at, 0)] /\ errors' = errors
    BY <1>1, <1>3 DEF DefineOnce
  <2> HIDE DEF key
  <2>2. /\ tables' \in [Scopes -> [Key -> Slots]]
        /\ \A s \in Scopes : \A k \in Key :
             tables'[s][k] = IF s = scope /\ k = key THEN Symbol(at, 0) ELSE tables[s][k]
    BY <1>1, <1>2, <2>1, Updated
  <2>3. tables'[scope][key] # tables[scope][key]
    BY <1>1, <1>2, <1>3, <2>2
  <2>4. Definitions
    BY <1>3, <2>2 DEF Definitions, key
  <2> QED
    BY <1>3, <2>1, <2>2, <2>3, <2>4 DEF key
<1>4. CASE tables[scope][key] # NULL
  <2>1. errors' = errors \cup {<<"exists", at>>} /\ tables' = tables
    BY <1>1, <1>4 DEF DefineOnce, Report
  <2> QED
    BY <1>1, <1>4, <2>1 DEF Definitions
<1> QED
  BY <1>3, <1>4

LEMMA ParamsMove ==
  ASSUME Typed, In("local", "fn"), NEW key \in Key
  PROVE  FirstParam(key) = AsParam(text, at, key) /\ FirstParam(key) \in Slots
<1>1. at \in DOMAIN text /\ text[at].t = "fn" /\ Token = text[at] /\ at \in Nat /\ at > 0 /\ text \in Texts
  BY AtToken DEF Typed
<1>2. FirstParam(key) = AsParam(text, at, key)
  <2> DEFINE same == {i \in DOMAIN text[at].params : text[at].params[i] = key}
  <2>1. at # ROOT
    BY <1>1 DEF ROOT
  <2>2. FirstParam(key) = IF same = {} THEN NULL ELSE Symbol(at, Smallest(same))
    BY <1>1 DEF FirstParam, Smallest
  <2>3. AsParam(text, at, key) = IF same = {} THEN NULL ELSE Symbol(at, Smallest(same))
    BY <1>1, <2>1 DEF AsParam
  <2> QED
    BY <2>2, <2>3
<1> QED
  BY <1>1, <1>2, AsParamFacts

LEMMA TablesMove ==
  ASSUME Typed, WalkRight, Next
  PROVE  /\ tables' \in [Scopes -> [Key -> Slots]]
         /\ \/ /\ at \in DOMAIN text /\ pass' = pass /\ at' = at + 1
               /\ pass = "root" => Definitions
               /\ pass = "local" => Variables
            \/ UNCHANGED tables /\ (Starting \/ Looking)
<1>1. /\ tables \in [Scopes -> [Key -> Slots]] /\ scope \in Scopes /\ scope \in Nat /\ text \in Texts
      /\ Len(text) \in Nat /\ at <= Len(text) + 1
  BY ScopeTyped, Places DEF Typed
<1>2. CASE RootFn \/ RootDef
  <2>1. In("root", "fn") \/ In("root", "def")
    BY <1>2 DEF RootFn, RootDef
  <2>2. at \in DOMAIN text /\ text[at].t \in {"fn", "def"} /\ pass = "root"
    BY <2>1, AtToken
  <2>3. DefineOnce /\ pass' = pass /\ at' = at + 1
    BY <1>2 DEF RootFn, RootDef
  <2> QED
    BY <2>2, <2>3, DefineOnceMoves
<1>3. CASE RootBlock \/ RootSkip
  <2>1. In("root", "block") \/ In("root", "let") \/ In("root", "use")
    BY <1>3 DEF RootBlock, RootSkip
  <2>2. at \in DOMAIN text /\ text[at].t \in {"block", "let", "use"} /\ pass = "root"
    BY <2>1, AtToken
  <2>3. tables' = tables /\ pass' = pass /\ at' = at + 1
    BY <1>3 DEF RootBlock, RootSkip
  <2> QED
    BY <1>1, <2>2, <2>3 DEF Definitions
<1>4. CASE LocalFn
  <2>1. In("local", "fn")
    BY <1>4 DEF LocalFn
  <2>2. at \in DOMAIN text /\ text[at].t = "fn" /\ pass = "local" /\ -at \in Scopes
    BY <2>1, AtToken, ScopeTyped
  <2>3. /\ tables' = [tables EXCEPT ![-at] = [k \in Key |-> FirstParam(k)]]
        /\ pass' = pass /\ at' = at + 1
    BY <1>4 DEF LocalFn, ParamScope
  <2>4. \A k \in Key : FirstParam(k) = AsParam(text, at, k) /\ FirstParam(k) \in Slots
    BY <2>1, ParamsMove
  <2>5. [k \in Key |-> FirstParam(k)] \in [Key -> Slots]
    BY <2>4
  <2>6. /\ tables' \in [Scopes -> [Key -> Slots]]
        /\ \A s \in Scopes : tables'[s] = IF s = -at THEN [k \in Key |-> FirstParam(k)] ELSE tables[s]
    BY <1>1, <2>2, <2>3, <2>5
  <2>7. Variables
    BY <2>2, <2>4, <2>6 DEF Variables
  <2> QED
    BY <2>2, <2>3, <2>6, <2>7
<1>5. CASE LocalLet
  <2>1. In("local", "let")
    BY <1>5 DEF LocalLet
  <2>2. at \in DOMAIN text /\ text[at].t = "let" /\ pass = "local" /\ Token = text[at] /\ at \in Nat
    BY <2>1, AtToken
  <2>3. text[at].key \in Key
    BY <1>1, <2>2, TokenShape
  <2>4. tables' = [tables EXCEPT ![scope][text[at].key] = Symbol(at, 0)] /\ pass' = pass /\ at' = at + 1
    BY <1>5, <2>2 DEF LocalLet
  <2>5. Symbol(at, 0) \in Slots
    BY <2>2, SymbolIsNotNull
  <2>6. PICK key \in Key : key = text[at].key
    BY <2>3
  <2>7. /\ tables' \in [Scopes -> [Key -> Slots]]
        /\ \A s \in Scopes : \A k \in Key :
             tables'[s][k] = IF s = scope /\ k = key THEN Symbol(at, 0) ELSE tables[s][k]
    BY <1>1, <2>4, <2>5, <2>6, Updated
  <2>8. Variables
    BY <2>2, <2>6, <2>7 DEF Variables
  <2> QED
    BY <2>2, <2>4, <2>7, <2>8
<1>6. CASE LocalBlock \/ LocalUse \/ LocalSkip
  <2>1. In("local", "block") \/ In("local", "use") \/ In("local", "def")
    BY <1>6 DEF LocalBlock, LocalUse, LocalSkip
  <2>2. at \in DOMAIN text /\ text[at].t \in {"block", "use", "def"} /\ pass = "local"
    BY <2>1, AtToken
  <2>3. tables' = tables /\ pass' = pass /\ at' = at + 1
    BY <1>6 DEF LocalBlock, LocalUse, LocalSkip
  <2> QED
    BY <1>1, <2>2, <2>3 DEF Variables
<1>7. CASE LookUp \/ LookOutwards
  BY <1>1, <1>7 DEF LookUp, LookOutwards, Looking
<1>8. CASE LeaveScope
  <2>1. at \in DOMAIN text /\ text[at].t = "end"
    BY <1>8, AtToken DEF LeaveScope
  <2> QED
    BY <1>1, <1>8, <2>1 DEF LeaveScope, Definitions, Variables
<1>9. CASE NextPass
  <2>1. at = Len(text) + 1
    BY <1>1, <1>9, Places DEF NextPass
  <2> QED
    BY <1>1, <1>9, <2>1 DEF NextPass, Starting
<1> QED
  BY <1>2, <1>3, <1>4, <1>5, <1>6, <1>7, <1>8, <1>9 DEF Next

LEMMA TablesKeeps ==
  ASSUME Typed, WalkRight, TablesRight, Next
  PROVE  TablesRight'
<1>1. /\ text \in Texts /\ at \in Nat /\ at > 0 /\ Len(text) \in Nat /\ text' = text /\ Scopes' = Scopes
      /\ \A s \in Scopes : s \in Int
  BY Places, Moves DEF Scopes
<1>2. scope = Around(text, at) /\ scope \in Nat
  BY ScopeTyped DEF WalkRight
<1>3. CASE at \in DOMAIN text /\ pass' = pass /\ at' = at + 1 /\ pass = "root" /\ Definitions
  <2> SUFFICES ASSUME NEW s \in Scopes, NEW key \in Key
               PROVE  tables'[s][key] = IF s >= 0 THEN FirstDefinition(text, s, at + 1, key) ELSE NULL
    BY <1>1, <1>3 DEF TablesRight
  <2>1. tables[s][key] = IF s >= 0 THEN FirstDefinition(text, s, at, key) ELSE NULL
    BY <1>3 DEF TablesRight
  <2>2. tables'[s][key] = IF /\ text[at].t \in {"fn", "def"} /\ text[at].key = key /\ s = scope
                             /\ tables[s][key] = NULL
                          THEN Symbol(at, 0) ELSE tables[s][key]
    BY <1>3 DEF Definitions
  <2> QED
    BY <1>1, <1>2, <1>3, <2>1, <2>2, FirstDefinitionStep
<1>4. CASE at \in DOMAIN text /\ pass' = pass /\ at' = at + 1 /\ pass = "local" /\ Variables
  <2> SUFFICES ASSUME NEW s \in Scopes, NEW key \in Key
               PROVE  tables'[s][key] = IF s >= 0 THEN InBlock(text, s, at + 1, key)
                                        ELSE IF -s < at + 1 THEN AsParam(text, -s, key) ELSE NULL
    BY <1>1, <1>4 DEF TablesRight
  <2>1. tables[s][key] = IF s >= 0 THEN InBlock(text, s, at, key)
                         ELSE IF -s < at THEN AsParam(text, -s, key) ELSE NULL
    BY <1>4 DEF TablesRight
  <2>2. tables'[s][key] = IF text[at].t = "let" /\ text[at].key = key /\ s = scope THEN Symbol(at, 0)
                          ELSE IF text[at].t = "fn" /\ s = -at THEN AsParam(text, at, key)
                          ELSE tables[s][key]
    BY <1>4 DEF Variables
  <2>3. CASE s >= 0
    BY <1>1, <1>2, <1>4, <2>1, <2>2, <2>3, InBlockStep
  <2>4. CASE s < 0
    <3>1. s # scope /\ s \in Int
      BY <1>1, <1>2, <2>4
    <3>2. CASE s = -at
      <4>1. -s = at /\ ~ (s >= 0) /\ ~ (-s < at) /\ -s < at + 1
        BY <1>1, <3>2
      <4>2. text[at].t # "fn" => AsParam(text, at, key) = NULL
        BY DEF AsParam
      <4> QED
        BY <2>1, <2>2, <3>1, <3>2, <4>1, <4>2
    <3>3. CASE s # -at
      <4>1. ~ (s >= 0) /\ (-s < at <=> -s < at + 1)
        BY <1>1, <2>4, <3>1, <3>3
      <4> QED
        BY <2>1, <2>2, <3>1, <3>3, <4>1
    <3> QED
      BY <3>2, <3>3
  <2> QED
    BY <1>1, <2>3, <2>4
<1>5. CASE UNCHANGED tables /\ Looking
  BY <1>1, <1>5 DEF TablesRight, Looking
<1>6. CASE UNCHANGED tables /\ Starting
  <2>1. CASE pass = "root"
    <3> SUFFICES ASSUME NEW s \in Scopes, NEW key \in Key
                 PROVE  tables[s][key] = IF s >= 0 THEN InBlock(text, s, 1, key)
                                         ELSE IF -s < 1 THEN AsParam(text, -s, key) ELSE NULL
      BY <1>1, <1>6, <2>1 DEF TablesRight, Starting
    <3>1. tables[s][key] = IF s >= 0 THEN FirstDefinition(text, s, Len(text) + 1, key) ELSE NULL
      BY <1>6, <2>1 DEF TablesRight, Starting
    <3>2. s < 0 => ~ (-s < 1)
      BY <1>1
    <3> QED
      BY <1>1, <3>1, <3>2, InBlockAtFirst
  <2>2. CASE pass # "root"
    BY <1>6, <2>2 DEF TablesRight, Starting
  <2> QED
    BY <2>1, <2>2
<1>7. CASE at \in DOMAIN text /\ pass' = pass /\ at' = at + 1 /\ pass = "done"
  BY <1>7 DEF TablesRight
<1> QED
  BY <1>3, <1>4, <1>5, <1>6, <1>7, TablesMove DEF Typed

LEMMA SymbolFacts ==
  ASSUME text \in Texts, NEW s \in Symbols
  PROVE  /\ s[1] \in DOMAIN text /\ s[1] \in Nat /\ s[2] \in Nat /\ s = Symbol(s[1], s[2])
         /\ s[2] > 0 => text[s[1]].t = "fn"
<1>1. DOMAIN text \subseteq Nat
  BY Text
<1>2. CASE s \in {Symbol(p, 0) : p \in DOMAIN text}
  BY <1>1, <1>2 DEF Symbol
<1>3. CASE s \in UNION {{Symbol(p, i) : i \in DOMAIN text[p].params} :
                          p \in {q \in DOMAIN text : text[q].t = "fn"}}
  <2>1. PICK p \in DOMAIN text : text[p].t = "fn" /\ s \in {Symbol(p, i) : i \in DOMAIN text[p].params}
    BY <1>3
  <2>2. PICK i \in DOMAIN text[p].params : s = Symbol(p, i)
    BY <2>1
  <2>3. i \in Nat
    BY <2>1, TokenShape
  <2> QED
    BY <1>1, <2>1, <2>2, <2>3 DEF Symbol
<1> QED
  BY <1>2, <1>3 DEF Symbols

LEMMA SymbolsHave ==
  ASSUME NEW p \in DOMAIN text
  PROVE  /\ Symbol(p, 0) \in Symbols
         /\ text[p].t = "fn" => \A i \in DOMAIN text[p].params : Symbol(p, i) \in Symbols
BY DEF Symbols

\* In the second walk a scope is linked to the one around.
Linked ==
  \A s \in Scopes :
    parent'[s] = IF s = at /\ text[at].t = "fn" THEN -at
                 ELSE IF (s = at /\ text[at].t = "block") \/ (s = -at /\ text[at].t = "fn") THEN scope
                 ELSE parent[s]

LEMMA ParentsMove ==
  ASSUME Typed, WalkRight, Next
  PROVE  /\ parent' \in [Scopes -> Int \cup {NULL}] /\ parent'[ROOT] = parent[ROOT]
         /\ \/ /\ at \in DOMAIN text /\ pass' = pass /\ at' = at + 1
               /\ pass = "local" => Linked
            \/ UNCHANGED parent /\ (Starting \/ Looking)
<1>1. /\ parent \in [Scopes -> Int \cup {NULL}] /\ scope \in Int /\ text \in Texts
      /\ Len(text) \in Nat /\ at <= Len(text) + 1 /\ ROOT \in Scopes /\ at \in Nat /\ at > 0
      /\ at \in DOMAIN text => at \in Scopes /\ -at \in Scopes
  BY ScopeTyped, Places DEF Typed, Scopes, ROOT
<1>2. CASE RootFn \/ RootBlock
  <2>1. In("root", "fn") \/ In("root", "block")
    BY <1>2 DEF RootFn, RootBlock
  <2>2. at \in DOMAIN text /\ pass = "root"
    BY <2>1, AtToken
  <2>3. /\ pass' = pass /\ at' = at + 1
        /\ parent' = [parent EXCEPT ![at] = -at] \/ parent' = [parent EXCEPT ![at] = scope]
    BY <1>2 DEF RootFn, RootBlock, BlockScope, ParamScope
  <2> QED
    BY <1>1, <2>2, <2>3 DEF ROOT
<1>3. CASE RootDef \/ RootSkip \/ LeaveScope \/ LocalLet \/ LocalUse \/ LocalSkip
  <2>1. \/ In("root", "def") \/ In("root", "let") \/ In("root", "use") \/ In(pass, "end")
        \/ In("local", "let") \/ In("local", "use") \/ In("local", "def")
    BY <1>3 DEF RootDef, RootSkip, LeaveScope, LocalLet, LocalUse, LocalSkip
  <2>2. at \in DOMAIN text /\ text[at].t \notin {"fn", "block"}
    BY <2>1, AtToken
  <2>3. pass' = pass /\ at' = at + 1 /\ parent' = parent
    BY <1>3 DEF RootDef, RootSkip, LeaveScope, LocalLet, LocalUse, LocalSkip
  <2> QED
    BY <1>1, <2>2, <2>3 DEF Linked
<1>4. CASE LocalFn
  <2>1. In("local", "fn")
    BY <1>4 DEF LocalFn
  <2>2. at \in DOMAIN text /\ pass = "local" /\ text[at].t = "fn"
    BY <2>1, AtToken
  <2>3. /\ pass' = pass /\ at' = at + 1 /\ parent' = [parent EXCEPT ![-at] = scope, ![at] = -at]
    BY <1>4 DEF LocalFn, BlockScope, ParamScope
  <2>4. parent' \in [Scopes -> Int \cup {NULL}] /\ parent'[ROOT] = parent[ROOT]
    BY <1>1, <2>2, <2>3 DEF ROOT
  <2>5. Linked
    BY <1>1, <2>2, <2>3 DEF Linked
  <2> QED
    BY <2>2, <2>3, <2>4, <2>5
<1>5. CASE LocalBlock
  <2>1. In("local", "block")
    BY <1>5 DEF LocalBlock
  <2>2. at \in DOMAIN text /\ pass = "local" /\ text[at].t = "block"
    BY <2>1, AtToken
  <2>3. /\ pass' = pass /\ at' = at + 1 /\ parent' = [parent EXCEPT ![at] = scope]
    BY <1>5 DEF LocalBlock, BlockScope
  <2>4. Linked
    BY <1>1, <2>2, <2>3 DEF Linked
  <2> QED
    BY <1>1, <2>2, <2>3, <2>4 DEF ROOT
<1>6. CASE LookUp \/ LookOutwards
  BY <1>1, <1>6 DEF LookUp, LookOutwards, Looking
<1>7. CASE NextPass
  <2>1. at = Len(text) + 1
    BY <1>1, <1>7, Places DEF NextPass
  <2> QED
    BY <1>1, <1>7, <2>1 DEF NextPass, Starting
<1> QED
  BY <1>2, <1>3, <1>4, <1>5, <1>6, <1>7 DEF Next

LEMMA ParentsKeeps ==
  ASSUME Typed, WalkRight, ParentsRight, Next
  PROVE  ParentsRight'
<1>1. /\ text \in Texts /\ at \in Nat /\ at > 0 /\ Len(text) \in Nat /\ text' = text
      /\ DOMAIN text = 1..Len(text)
  BY Places, Moves
<1>2. scope = Around(text, at) /\ parent'[ROOT] = NULL
  BY ParentsMove DEF WalkRight, ParentsRight
<1>3. CASE at \in DOMAIN text /\ pass' = pass /\ at' = at + 1 /\ pass = "local" /\ Linked
  <2> SUFFICES ASSUME NEW o \in 1..at
               PROVE  /\ text[o].t = "fn" => parent'[o] = -o /\ parent'[-o] = Around(text, o)
                      /\ text[o].t = "block" => parent'[o] = Around(text, o)
    BY <1>1, <1>2, <1>3 DEF ParentsRight
  <2>1. o \in Scopes /\ -o \in Scopes /\ o \in Nat /\ o > 0
    BY <1>1, <1>3 DEF Scopes
  <2>2. o # -at /\ -o # at
    BY <1>1, <2>1
  <2>3. CASE o = at
    BY <1>2, <1>3, <2>1, <2>2, <2>3 DEF Linked
  <2>4. CASE o # at
    <3>1. o \in 1..(at - 1) /\ -o # -at
      BY <1>1, <2>1, <2>4
    <3>2. parent'[o] = parent[o] /\ parent'[-o] = parent[-o]
      BY <1>3, <2>1, <2>2, <2>4, <3>1 DEF Linked
    <3> QED
      BY <1>3, <3>1, <3>2 DEF ParentsRight
  <2> QED
    BY <2>3, <2>4
<1>4. CASE pass' # "local"
  BY <1>2, <1>4 DEF ParentsRight
<1>5. CASE UNCHANGED parent /\ Looking
  BY <1>1, <1>5 DEF Looking, ParentsRight
<1>6. CASE Starting
  BY <1>2, <1>6 DEF Starting, ParentsRight
<1> QED
  BY <1>3, <1>4, <1>5, <1>6, ParentsMove

\* In the second walk parameters and variables are marked.
Marked ==
  \A s \in Symbols :
    function'[s] = IF s[1] = at /\ s[2] > 0 THEN binding[at]
                   ELSE IF s = Symbol(at, 0) /\ text[at].t = "let" THEN func
                   ELSE function[s]

LEMMA OwnersMove ==
  ASSUME Typed, WalkRight, Next
  PROVE  /\ function' \in [Symbols -> Slots]
         /\ \/ at \in DOMAIN text /\ pass = "local" /\ pass' = pass /\ at' = at + 1 /\ Marked
            \/ UNCHANGED function /\ (pass' # "local" \/ Starting \/ Looking)
<1>1. /\ function \in [Symbols -> Slots] /\ binding \in [DOMAIN text -> Slots] /\ func \in Slots
      /\ at \in Nat /\ text \in Texts
  BY ScopeTyped, Places DEF Typed
<1>2. \A s \in Symbols : s[2] > 0 => text[s[1]].t = "fn"
  BY <1>1, SymbolFacts
<1>3. CASE RootFn \/ RootDef \/ RootBlock \/ RootSkip
  <2>1. In("root", "fn") \/ In("root", "def") \/ In("root", "block") \/ In("root", "let") \/ In("root", "use")
    BY <1>3 DEF RootFn, RootDef, RootBlock, RootSkip
  <2>2. pass = "root"
    BY <2>1, AtToken
  <2> QED
    BY <1>1, <1>3, <2>2 DEF RootFn, RootDef, RootBlock, RootSkip
<1>4. CASE LocalFn
  <2>1. In("local", "fn")
    BY <1>4 DEF LocalFn
  <2>2. at \in DOMAIN text /\ pass = "local" /\ text[at].t = "fn"
    BY <2>1, AtToken
  <2>3. /\ pass' = pass /\ at' = at + 1
        /\ function' = [s \in Symbols |-> IF s[1] = at /\ s[2] > 0 THEN binding[at] ELSE function[s]]
    BY <1>4 DEF LocalFn
  <2>4. function' \in [Symbols -> Slots]
    BY <1>1, <2>2, <2>3
  <2>5. Marked
    BY <2>2, <2>3 DEF Marked
  <2> QED
    BY <2>2, <2>3, <2>4, <2>5
<1>5. CASE LocalLet
  <2>1. In("local", "let")
    BY <1>5 DEF LocalLet
  <2>2. at \in DOMAIN text /\ pass = "local" /\ text[at].t = "let"
    BY <2>1, AtToken
  <2>3. pass' = pass /\ at' = at + 1 /\ function' = [function EXCEPT ![Symbol(at, 0)] = func]
    BY <1>5 DEF LocalLet
  <2>4. Symbol(at, 0) \in Symbols
    BY <2>2, SymbolsHave
  <2>5. function' \in [Symbols -> Slots]
    BY <1>1, <2>3
  <2>6. \A s \in Symbols : function'[s] = IF s = Symbol(at, 0) THEN func ELSE function[s]
    BY <1>1, <2>3, <2>4
  <2>7. Marked
    BY <1>2, <2>2, <2>6 DEF Marked
  <2> QED
    BY <2>2, <2>3, <2>5, <2>7
<1>6. CASE LocalBlock \/ LocalUse \/ LocalSkip \/ (LeaveScope /\ pass = "local")
  <2>1. In("local", "block") \/ In("local", "use") \/ In("local", "def") \/ In("local", "end")
    BY <1>6 DEF LocalBlock, LocalUse, LocalSkip, LeaveScope
  <2>2. at \in DOMAIN text /\ pass = "local" /\ text[at].t \notin {"fn", "let"}
    BY <2>1, AtToken
  <2>3. pass' = pass /\ at' = at + 1 /\ function' = function
    BY <1>6 DEF LocalBlock, LocalUse, LocalSkip, LeaveScope
  <2>4. Marked
    BY <1>2, <2>2, <2>3 DEF Marked
  <2> QED
    BY <1>1, <2>2, <2>3, <2>4
<1>7. CASE LookUp \/ LookOutwards \/ (LeaveScope /\ pass # "local")
  BY <1>1, <1>7 DEF LookUp, LookOutwards, Looking, LeaveScope
<1>8. CASE NextPass
  <2>1. at = Len(text) + 1
    BY <1>8, Places DEF NextPass
  <2> QED
    BY <1>1, <1>8, <2>1 DEF NextPass, Starting
<1> QED
  BY <1>3, <1>4, <1>5, <1>6, <1>7, <1>8 DEF Next

LEMMA OwnersKeeps ==
  ASSUME Typed, WalkRight, OwnersRight, Next
  PROVE  OwnersRight'
<1>1. /\ text \in Texts /\ at \in Nat /\ at > 0 /\ Len(text) \in Nat /\ DOMAIN text = 1..Len(text)
      /\ text' = text /\ FnsStay
  BY Places, Moves
<1>2. Symbols' = Symbols
  BY <1>1 DEF Symbols
<1>3. func = FuncIn(text, binding, pass, at)
  BY DEF WalkRight
<1>4. pass = "local" => \A s \in Symbols : Owner(text, binding', s) = Owner(text, binding, s)
  <2> SUFFICES ASSUME pass = "local", NEW s \in Symbols
               PROVE  Owner(text, binding', s) = Owner(text, binding, s)
    OBVIOUS
  <2>1. s[1] \in DOMAIN text /\ s[1] \in Nat /\ (s[2] > 0 => text[s[1]].t = "fn")
    BY <1>1, SymbolFacts
  <2>2. s[2] > 0 => binding'[s[1]] = binding[s[1]]
    BY <1>1, <2>1 DEF FnsStay
  <2>3. FuncIn(text, binding', "local", s[1]) = FuncIn(text, binding, "local", s[1])
    <3>1. PICK o \in Nat : o = s[1] /\ o <= Len(text) + 1
      BY <1>1, <2>1
    <3>2. FuncIn(text, binding', pass, o) = FuncIn(text, binding, pass, o)
      BY <1>1, <3>1, FuncStays
    <3> QED
      BY <3>1, <3>2
  <2> QED
    BY <2>2, <2>3 DEF Owner
<1>5. CASE at \in DOMAIN text /\ pass = "local" /\ pass' = pass /\ at' = at + 1 /\ Marked
  <2> SUFFICES ASSUME NEW s \in Symbols
               PROVE  function'[s] = IF s[1] < at + 1 THEN Owner(text, binding, s) ELSE NULL
    BY <1>1, <1>2, <1>4, <1>5 DEF OwnersRight
  <2>1. function[s] = IF s[1] < at THEN Owner(text, binding, s) ELSE NULL
    BY <1>5 DEF OwnersRight
  <2>2. function'[s] = IF s[1] = at /\ s[2] > 0 THEN binding[at]
                       ELSE IF s = Symbol(at, 0) /\ text[at].t = "let" THEN func
                       ELSE function[s]
    BY <1>5 DEF Marked
  <2>3. s[1] \in DOMAIN text /\ s[1] \in Nat /\ s[2] \in Nat /\ s = Symbol(s[1], s[2])
    BY <1>1, SymbolFacts
  <2>4. CASE s[1] # at
    <3>1. s # Symbol(at, 0) /\ (s[1] < at <=> s[1] < at + 1)
      BY <1>1, <2>3, <2>4 DEF Symbol
    <3> QED
      BY <2>1, <2>2, <2>4, <3>1
  <2>5. CASE s[1] = at /\ s[2] > 0
    <3>1. s[1] < at + 1
      BY <1>1, <2>5
    <3> QED
      BY <2>2, <2>5, <3>1 DEF Owner
  <2>6. CASE s[1] = at /\ ~ (s[2] > 0)
    <3>1. s = Symbol(at, 0) /\ s[1] < at + 1 /\ ~ (s[1] < at)
      BY <1>1, <2>3, <2>6
    <3>2. Owner(text, binding, s) = IF text[at].t = "let" THEN func ELSE NULL
      BY <1>3, <1>5, <2>6 DEF Owner
    <3> QED
      BY <2>1, <2>2, <2>6, <3>1, <3>2
  <2> QED
    BY <2>4, <2>5, <2>6
<1>6. CASE UNCHANGED function /\ pass' # "local"
  <2>1. pass' = "root" => pass = "root"
    BY Moves DEF Entering, Leaving, Passing, Starting, Looking
  <2> QED
    BY <1>1, <1>2, <1>6, <2>1 DEF OwnersRight
<1>7. CASE UNCHANGED function /\ Starting
  <2>1. CASE pass = "root"
    <3>1. pass' = "local" /\ at' = 1
      BY <1>7, <2>1 DEF Starting
    <3>2. \A s \in Symbols : ~ (s[1] < 1)
      <4> TAKE s \in Symbols
      <4>1. s[1] \in 1..Len(text)
        BY <1>1, SymbolFacts
      <4> QED
        BY <1>1, <4>1
    <3> QED
      BY <1>1, <1>2, <1>7, <2>1, <3>1, <3>2 DEF OwnersRight
  <2>2. CASE pass # "root"
    BY <1>7, <2>2 DEF OwnersRight, Starting
  <2> QED
    BY <2>1, <2>2
<1>8. CASE UNCHANGED function /\ Looking
  BY <1>1, <1>2, <1>4, <1>8 DEF OwnersRight, Looking
<1> QED
  BY <1>5, <1>6, <1>7, <1>8, OwnersMove

-----------------------------------------------------------------------------
(***************************************************************************)
(* Binding names.                                                          *)
(***************************************************************************)
\* After the second walk nothing happens.
LEMMA Finished ==
  ASSUME Typed, Next
  PROVE  pass # "done"
<1> SUFFICES ASSUME pass = "done" PROVE FALSE
  OBVIOUS
<1>1. text \in Texts /\ at = 1
  BY DEF Typed
<1>2. ~ In(pass, "end")
  <2> SUFFICES ASSUME In(pass, "end") PROVE FALSE
    OBVIOUS
  <2>1. 1 \in DOMAIN text /\ text[1].t = "end"
    BY <1>1, AtToken
  <2>2. Level(text, 1) > 0
    BY <1>1, <2>1, Text
  <2>3. Level(text, 1) = 0
    BY LevelStep
  <2> QED
    BY <2>2, <2>3
<1> QED
  BY <1>2 DEF Next, In, RootFn, RootDef, RootBlock, RootSkip, LocalFn, LocalBlock, LocalLet, LocalSkip,
              LookUp, LookOutwards, LocalUse, LeaveScope, NextPass

LEMMA TakenIsKnown ==
  ASSUME NEW t \in Texts, NEW p \in DOMAIN t
  PROVE  Taken(t, p) <=> FirstDefinition(t, Around(t, p), p, t[p].key) # NULL
<1> DEFINE A == {q \in Defining(t, Around(t, p), t[p].key, {"fn", "def"}) : q < p}
<1>1. Taken(t, p) <=> A # {}
  BY DEF Taken
<1>2. A \in SUBSET Nat
  BY DefiningFacts
<1>3. FirstDefinition(t, Around(t, p), p, t[p].key) = IF A = {} THEN NULL ELSE Symbol(Smallest(A), 0)
  BY DEF FirstDefinition
<1> HIDE DEF A
<1>4. CASE A # {}
  <2>1. PICK x \in Nat : x = Smallest(A)
    BY <1>2, <1>4, SmallestIsElement
  <2>2. Symbol(x, 0) # NULL
    BY SymbolIsNotNull
  <2> QED
    BY <1>1, <1>3, <1>4, <2>1, <2>2
<1> QED
  BY <1>1, <1>3, <1>4

\* Whether the name of the definition at hand is taken
LEMMA TableTells ==
  ASSUME Typed, WalkRight, TablesRight, pass = "root", at \in DOMAIN text, text[at].t \in {"fn", "def"}
  PROVE  tables[scope][text[at].key] # NULL <=> Taken(text, at)
<1>1. scope \in Scopes /\ scope \in Nat /\ text[at].key \in Key /\ scope = Around(text, at)
  BY ScopeTyped, TokenShape DEF Typed, WalkRight
<1>2. tables[scope][text[at].key] = FirstDefinition(text, scope, at, text[at].key)
  <2>1. PICK s \in Scopes : s = scope /\ s >= 0
    BY <1>1
  <2>2. PICK key \in Key : key = text[at].key
    BY <1>1
  <2> QED
    BY <2>1, <2>2 DEF TablesRight
<1> QED
  BY <1>1, <1>2, TakenIsKnown DEF Typed

LEMMA FunctionsKeep ==
  ASSUME Typed, WalkRight, TablesRight, FunctionsBound, Next
  PROVE  FunctionsBound'
<1>1. /\ text \in Texts /\ at \in Nat /\ at > 0 /\ Len(text) \in Nat /\ DOMAIN text = 1..Len(text)
      /\ text' = text /\ FnsStay /\ at <= Len(text) + 1
      /\ binding \in [DOMAIN text -> Slots]
  BY Places, Moves DEF Typed
<1> SUFFICES ASSUME NEW p \in DOMAIN text, text[p].t = "fn", pass' # "root" \/ p < at'
             PROVE  binding'[p] = IF Taken(text, p) THEN NULL ELSE Symbol(p, 0)
  BY <1>1 DEF FunctionsBound
<1>2. pass # "root" \/ p < at => binding[p] = IF Taken(text, p) THEN NULL ELSE Symbol(p, 0)
  BY DEF FunctionsBound
<1>3. CASE pass # "root"
  BY <1>1, <1>2, <1>3 DEF FnsStay
<1>4. CASE pass = "root" /\ RootFn
  <2>1. In("root", "fn")
    BY <1>4 DEF RootFn
  <2>2. at \in DOMAIN text /\ text[at].t = "fn" /\ pass = "root"
    BY <2>1, AtToken
  <2>3. /\ DefineOnce /\ at' = at + 1 /\ pass' = pass
        /\ binding' = [binding EXCEPT ![at] = IF tables' = tables THEN NULL ELSE Symbol(at, 0)]
    BY <1>4 DEF RootFn
  <2>4. tables' = tables <=> Taken(text, at)
    BY <2>2, <2>3, DefineOnceMoves, TableTells
  <2>5. p = at \/ p < at
    BY <1>1, <1>4, <2>3
  <2> QED
    BY <1>1, <1>2, <2>2, <2>3, <2>4, <2>5
<1>5. CASE pass = "root" /\ ~ RootFn
  <2>1. binding' = binding
    BY <1>5 DEF Next, In, RootDef, RootBlock, RootSkip, LocalFn, LocalBlock, LocalLet, LocalSkip,
                LookUp, LookOutwards, LocalUse, LeaveScope, NextPass
  <2>2. \/ at' = at + 1 /\ pass' = pass /\ (at \in DOMAIN text => text[at].t # "fn") /\ at \in DOMAIN text
        \/ at' = at /\ pass' = pass
        \/ at = Len(text) + 1
    <3>1. CASE Entering
      <4>1. at \in DOMAIN text /\ text[at].t # "fn"
        <5>1. \/ RootBlock \/ RootDef \/ RootSkip \/ LeaveScope \/ NextPass
          BY <1>5 DEF Next, In, LocalFn, LocalBlock, LocalLet, LocalSkip, LookUp, LookOutwards, LocalUse
        <5>2. \/ In("root", "block") \/ In("root", "def") \/ In("root", "let") \/ In("root", "use")
              \/ In(pass, "end") \/ at > Len(text)
          BY <5>1 DEF RootBlock, RootDef, RootSkip, LeaveScope, NextPass
        <5>3. at \in DOMAIN text
          BY <3>1 DEF Entering
        <5>4. ~ (at > Len(text))
          BY <1>1, <5>3
        <5> QED
          BY <5>2, <5>3, <5>4, AtToken
      <4> QED
        BY <3>1, <4>1 DEF Entering
    <3>2. CASE Leaving \/ Passing
      BY <3>2 DEF Leaving, Passing, Opens
    <3>3. CASE Starting \/ Looking
      BY <3>3 DEF Starting, Looking
    <3> QED
      BY <3>1, <3>2, <3>3, Moves
  <2>3. p < at
    <3>1. p # at \/ at = Len(text) + 1 \/ at' = at
      BY <2>2
    <3>2. CASE at = Len(text) + 1
      BY <1>1, <3>2
    <3>3. CASE at # Len(text) + 1
      <4>1. pass' = pass /\ p < at' /\ ((at' = at + 1 /\ text[at].t # "fn") \/ at' = at)
        BY <1>5, <2>2, <3>3
      <4>2. p \in Nat
        BY <1>1
      <4> QED
        BY <1>1, <4>1, <4>2
    <3> QED
      BY <3>2, <3>3
  <2> QED
    BY <1>2, <2>1, <2>3
<1> QED
  BY <1>3, <1>4, <1>5

LEMMA KnownFacts ==
  ASSUME NEW t, NEW o, NEW p, NEW key
  PROVE  /\ Known(t, o, p, key) = NULL <=> InBlock(t, o, p, key) = NULL /\ AsParam(t, o, key) = NULL
         /\ InBlock(t, o, p, key) # NULL => Known(t, o, p, key) = InBlock(t, o, p, key)
         /\ InBlock(t, o, p, key) = NULL => Known(t, o, p, key) = AsParam(t, o, key)
BY DEF Known

\* What is looked at while a name is looked up
LEMMA Looked ==
  ASSUME Typed, TablesRight, ParentsRight, LookRight, look # NULL
  PROVE  LET o == IF look >= 0 THEN look ELSE -look
         IN  /\ at \in DOMAIN text /\ text[at].t = "use" /\ Token = text[at] /\ text[at].key \in Key
             /\ look \in Scopes /\ look \in Int /\ Found \in Slots
             /\ o \in Enclosing(text, at) \cup {ROOT} /\ o \in Nat
             /\ \A i \in Enclosing(text, at) : i > o => Known(text, i, at, text[at].key) = NULL
             /\ look >= 0 => Found = InBlock(text, o, at, text[at].key)
             /\ look < 0 => /\ Found = AsParam(text, o, text[at].key)
                            /\ InBlock(text, o, at, text[at].key) = NULL
             /\ look = ROOT => parent[look] = NULL
             /\ look > 0 /\ text[o].t = "fn" => parent[look] = -o
             /\ (look > 0 /\ text[o].t # "fn") \/ look < 0 => parent[look] = Around(text, o)
<1> DEFINE o == IF look >= 0 THEN look ELSE -look
           key == text[at].key
<1>1. /\ In("local", "use") /\ look \in Scopes /\ o \in Enclosing(text, at) \cup {ROOT}
      /\ \A i \in Enclosing(text, at) : i > o => Known(text, i, at, Token.key) = NULL
      /\ look < 0 => text[o].t = "fn" /\ InBlock(text, o, at, Token.key) = NULL
  BY DEF LookRight
<1>2. at \in DOMAIN text /\ text[at].t = "use" /\ Token = text[at] /\ pass = "local" /\ at \in Nat
  BY <1>1, AtToken
<1>3. key \in Key /\ look \in Int /\ text \in Texts
  BY <1>1, <1>2, TokenShape DEF Scopes, Typed
<1>4. o \in Nat
  BY <1>3
<1>5. Found = tables[look][key] /\ Found \in Slots
  BY <1>1, <1>2, <1>3 DEF Found, Typed
<1>6. look # 0 => o \in Enclosing(text, at) /\ o \in 1..(at - 1) /\ Opens(text[o])
  <2>1. look # 0 => o # ROOT
    BY <1>3 DEF ROOT
  <2>2. look # 0 => o \in Enclosing(text, at)
    BY <1>1, <2>1
  <2> HIDE DEF o
  <2> QED
    BY <1>2, <1>3, <2>2, AroundFacts, Nested
<1>7. /\ look >= 0 => Found = InBlock(text, o, at, key)
      /\ look < 0 => Found = AsParam(text, o, key)
  <2>1. tables[look][key] = IF look >= 0 THEN InBlock(text, look, at, key)
                            ELSE IF -look < at THEN AsParam(text, -look, key) ELSE NULL
    <3> HIDE DEF key
    <3> QED
      BY <1>1, <1>2, <1>3 DEF TablesRight
  <2>2. look < 0 => -look < at
    BY <1>2, <1>3, <1>6
  <2> QED
    BY <1>3, <1>5, <2>1, <2>2
<1>8. look = ROOT => parent[look] = NULL
  BY DEF ParentsRight
<1>9. look # 0 => /\ text[o].t = "fn" => parent[o] = -o /\ parent[-o] = Around(text, o)
                  /\ text[o].t = "block" => parent[o] = Around(text, o)
  <2> HIDE DEF o
  <2> QED
    BY <1>2, <1>6 DEF ParentsRight
<1>10. look > 0 => look = o
  BY <1>3
<1>11. look < 0 => look = -o /\ look # 0 /\ text[o].t = "fn"
  BY <1>1, <1>3
<1>12. look > 0 => look # 0
  BY <1>3
<1> HIDE DEF o
<1>13. look > 0 /\ text[o].t # "fn" => text[o].t = "block"
  BY <1>6, <1>12 DEF Opens
<1>14. /\ look > 0 /\ text[o].t = "fn" => parent[look] = -o
       /\ (look > 0 /\ text[o].t # "fn") \/ look < 0 => parent[look] = Around(text, o)
  BY <1>9, <1>10, <1>11, <1>12, <1>13
<1> QED
  BY <1>1, <1>2, <1>3, <1>4, <1>5, <1>7, <1>8, <1>14 DEF o

\* When the search ends it has found what the text means.
LEMMA FoundIsMeant ==
  ASSUME Typed, TablesRight, ParentsRight, LookRight, look # NULL, Found # NULL \/ parent[look] = NULL
  PROVE  Found = Meant(text, at)
<1> DEFINE o == IF look >= 0 THEN look ELSE -look
           key == text[at].key
           knowing == {i \in Enclosing(text, at) \cup {ROOT} : Known(text, i, at, key) # NULL}
<1>1. /\ look \in Int /\ o \in Enclosing(text, at) \cup {ROOT} /\ o \in Nat /\ Found \in Slots
      /\ \A i \in Enclosing(text, at) : i > o => Known(text, i, at, key) = NULL
      /\ look >= 0 => Found = InBlock(text, o, at, key)
      /\ look < 0 => Found = AsParam(text, o, key) /\ InBlock(text, o, at, key) = NULL
      /\ look > 0 /\ text[o].t = "fn" => parent[look] = -o
      /\ (look > 0 /\ text[o].t # "fn") \/ look < 0 => parent[look] = Around(text, o)
  BY Looked
<1>2. at \in Nat /\ Enclosing(text, at) \subseteq 1..(at - 1)
  BY Places, AroundFacts
<1>3. Meant(text, at) = IF knowing = {} THEN NULL ELSE Known(text, Largest(knowing, ROOT), at, key)
  BY DEF Meant
<1>4. \A i \in Enclosing(text, at) \cup {ROOT} : i > o => i \in Enclosing(text, at)
  BY <1>1 DEF ROOT
<1>5. \A i \in knowing : i \in Nat /\ ~ (i > o)
  BY <1>1, <1>2, <1>4 DEF ROOT
<1>6. look = 0 => o = ROOT
  BY DEF ROOT
<1>7. Around(text, o) # NULL /\ -o # NULL
  BY <1>1, AroundFacts, NullAssumption
<1>8. CASE Found # NULL
  <2>1. Known(text, o, at, key) = Found
    BY <1>1, <1>8 DEF Known
  <2>2. o \in knowing
    BY <1>1, <1>8, <2>1
  <2> HIDE DEF knowing, o
  <2>3. Largest(knowing, ROOT) = o
    <3>1. \A i \in knowing : i <= o /\ i \in Nat
      BY <1>1, <1>5
    <3>2. \A x \in knowing : (\A m \in knowing : m <= x) => x = o
      BY <1>1, <2>2, <3>1
    <3> QED
      BY <2>2, <3>1, <3>2 DEF Largest
  <2> QED
    BY <1>3, <2>1, <2>2, <2>3
<1>9. CASE Found = NULL
  <2>1. parent[look] = NULL
    BY <1>9
  <2>2. look = 0
    BY <1>1, <1>7, <2>1
  <2>3. o = ROOT /\ look >= 0
    BY <1>1, <1>6, <2>2
  <2>4. Known(text, ROOT, at, key) = NULL
    <3>1. AsParam(text, ROOT, key) = NULL
      BY DEF AsParam
    <3>2. InBlock(text, ROOT, at, key) = NULL
      BY <1>1, <1>9, <2>3
    <3> QED
      BY <3>1, <3>2, KnownFacts
  <2>5. \A i \in Enclosing(text, at) : i > o
    BY <1>2, <2>3 DEF ROOT
  <2>6. knowing = {}
    BY <1>1, <2>4, <2>5
  <2> QED
    BY <1>3, <1>9, <2>6
<1> QED
  BY <1>8, <1>9

LEMMA UsesKeep ==
  ASSUME Typed, TablesRight, ParentsRight, LookRight, UsesBound, Next
  PROVE  UsesBound'
<1>1. /\ text \in Texts /\ at \in Nat /\ at > 0 /\ Len(text) \in Nat /\ DOMAIN text = 1..Len(text)
      /\ text' = text /\ binding \in [DOMAIN text -> Slots]
  BY Places, Moves DEF Typed
<1> SUFFICES ASSUME NEW p \in Uses(text), pass' = "done" \/ (pass' = "local" /\ p < at')
             PROVE  binding'[p] = Meant(text, p)
  BY <1>1 DEF UsesBound
<1>2. p \in DOMAIN text /\ p \in Nat /\ p <= Len(text) /\ p > 0 /\ text[p].t = "use"
  BY <1>1 DEF Uses
<1>3. pass = "local" /\ p < at => binding[p] = Meant(text, p)
  BY DEF UsesBound
<1>4. CASE LocalUse
  <2>1. In("local", "use") /\ look # NULL /\ (Found # NULL \/ parent[look] = NULL)
    BY <1>4 DEF LocalUse
  <2>2. at \in DOMAIN text /\ pass = "local"
    BY <2>1, AtToken
  <2>3. binding' = [binding EXCEPT ![at] = Found] /\ at' = at + 1 /\ pass' = pass
    BY <1>4 DEF LocalUse
  <2>4. Found = Meant(text, at)
    BY <2>1, FoundIsMeant
  <2>5. p = at \/ p < at
    BY <1>1, <1>2, <2>2, <2>3
  <2> QED
    BY <1>1, <1>2, <1>3, <2>2, <2>3, <2>4, <2>5
<1>5. CASE NextPass
  <2>1. at = Len(text) + 1 /\ binding' = binding /\ at' = 1
    BY <1>5, Places DEF NextPass
  <2>2. pass' = "done" /\ pass # "done"
    BY <1>2, <1>5, <2>1 DEF NextPass
  <2>3. pass = "local" /\ p < at
    BY <1>1, <1>2, <1>5, <2>1, <2>2 DEF NextPass, Typed
  <2> QED
    BY <1>3, <2>1, <2>3
<1>6. CASE RootFn \/ RootDef \/ RootBlock \/ RootSkip
  BY <1>6, AtToken, Finished DEF In, RootFn, RootDef, RootBlock, RootSkip
<1>7. CASE LocalFn \/ LocalBlock \/ LocalLet \/ LocalSkip \/ LeaveScope
  <2>1. \/ In("local", "fn") \/ In("local", "block") \/ In("local", "let")
        \/ In("local", "def") \/ In(pass, "end")
    BY <1>7 DEF LocalFn, LocalBlock, LocalLet, LocalSkip, LeaveScope
  <2>2. at \in DOMAIN text /\ text[at].t # "use"
    BY <2>1, AtToken
  <2>3. binding' = binding /\ at' = at + 1 /\ pass' = pass
    BY <1>7 DEF LocalFn, LocalBlock, LocalLet, LocalSkip, LeaveScope
  <2>4. pass = "local" /\ p < at
    BY <1>1, <1>2, <2>2, <2>3, Finished
  <2> QED
    BY <1>3, <2>3, <2>4
<1>8. CASE LookUp \/ LookOutwards
  BY <1>3, <1>8, Finished DEF LookUp, LookOutwards
<1> QED
  BY <1>4, <1>5, <1>6, <1>7, <1>8 DEF Next

LEMMA LookKeeps ==
  ASSUME Typed, WalkRight, TablesRight, ParentsRight, LookRight, Next
  PROVE  LookRight'
<1>1. text' = text /\ Scopes' = Scopes /\ at \in Nat /\ text \in Texts
  BY Places, Moves DEF Scopes
<1>2. look # NULL => In("local", "use")
  BY DEF LookRight
<1>3. CASE LookUp
  <2>1. /\ In("local", "use") /\ look' = scope /\ In("local", "use")' /\ at' = at
    BY <1>3 DEF LookUp, In, Token
  <2>2. scope \in Nat /\ scope \in Scopes /\ scope \in Enclosing(text, at) \cup {ROOT} /\ scope >= 0
    BY ScopeTyped
  <2>3. \A i \in Enclosing(text, at) : ~ (i > scope)
    BY <1>1, AroundFacts DEF WalkRight
  <2> QED
    BY <1>1, <2>1, <2>2, <2>3 DEF LookRight, Token
<1>4. CASE LookOutwards
  <2> DEFINE o == IF look >= 0 THEN look ELSE -look
             key == text[at].key
             new == IF look' >= 0 THEN look' ELSE -look'
  <2>1. /\ In("local", "use") /\ look # NULL /\ Found = NULL /\ parent[look] # NULL
        /\ look' = parent[look] /\ In("local", "use")' /\ at' = at /\ Token' = Token
    BY <1>4 DEF LookOutwards, In, Token
  <2>2. /\ Token = text[at] /\ look \in Int /\ look \in Scopes
        /\ o \in Enclosing(text, at) \cup {ROOT} /\ o \in Nat
        /\ \A i \in Enclosing(text, at) : i > o => Known(text, i, at, key) = NULL
        /\ look >= 0 => Found = InBlock(text, o, at, key)
        /\ look < 0 => Found = AsParam(text, o, key) /\ InBlock(text, o, at, key) = NULL
        /\ look = ROOT => parent[look] = NULL
        /\ look > 0 /\ text[o].t = "fn" => parent[look] = -o
        /\ (look > 0 /\ text[o].t # "fn") \/ look < 0 => parent[look] = Around(text, o)
    BY <2>1, Looked
  <2>3. look # 0 /\ o # ROOT /\ o \in Enclosing(text, at) /\ InBlock(text, o, at, key) = NULL
    BY <2>1, <2>2 DEF ROOT
  <2>4. o \in Scopes /\ -o \in Scopes /\ o > 0
    BY <2>2, <2>3 DEF Scopes, ROOT
  <2>5. CASE look > 0 /\ text[o].t = "fn"
    <3>1. look' = -o /\ look' < 0 /\ new = o
      BY <2>1, <2>2, <2>4, <2>5
    <3>2. /\ look' \in Scopes /\ o \in Enclosing(text, at)
          /\ \A i \in Enclosing(text, at) : i > o => Known(text, i, at, key) = NULL
          /\ text[o].t = "fn" /\ InBlock(text, o, at, key) = NULL
      BY <2>2, <2>3, <2>4, <2>5, <3>1
    <3> HIDE DEF o
    <3> QED
      BY <1>1, <2>1, <2>2, <3>1, <3>2 DEF LookRight
  <2>6. CASE (look > 0 /\ text[o].t # "fn") \/ look < 0
    <3> DEFINE a == Around(text, o)
    <3>1. look' = a
      BY <2>1, <2>2, <2>6
    <3>2. Known(text, o, at, key) = NULL
      <4>1. AsParam(text, o, key) = NULL
        BY <2>1, <2>2, <2>6 DEF AsParam
      <4> QED
        BY <2>3, <4>1, KnownFacts
    <3>3. Enclosing(text, o) = {i \in Enclosing(text, at) : i < o}
      BY <1>1, <2>3, Nested
    <3>4. /\ a \in Nat /\ (a # ROOT => a \in Enclosing(text, o))
          /\ \A i \in Enclosing(text, o) : i <= a
      BY <2>2, AroundFacts
    <3>5. a \in Enclosing(text, at) \cup {ROOT} /\ a \in Scopes
      <4>1. a # ROOT => a \in Enclosing(text, at) /\ a < o
        BY <3>3, <3>4
      <4> HIDE DEF a, o
      <4> QED
        BY <2>2, <2>4, <3>4, <4>1 DEF ROOT, Scopes
    <3>6. ASSUME NEW i \in Enclosing(text, at), i > a PROVE Known(text, i, at, key) = NULL
      <4>1. i \in Nat
        BY <1>1, Nested
      <4>2. i \notin Enclosing(text, o)
        BY <3>4, <3>6, <4>1
      <4>3. ~ (i < o)
        BY <3>3, <4>2
      <4>4. i = o \/ i > o
        BY <2>2, <4>1, <4>3
      <4> QED
        BY <2>2, <3>2, <4>4
    <3>7. look' >= 0 /\ ~ (look' < 0) /\ look' # NULL
      BY <3>1, <3>4, NullAssumption
    <3> HIDE DEF a
    <3> QED
      BY <1>1, <2>1, <2>2, <3>1, <3>5, <3>6, <3>7 DEF LookRight
  <2> QED
    BY <2>2, <2>3, <2>5, <2>6
<1>5. CASE LocalUse
  BY <1>5 DEF LocalUse, LookRight
<1>6. CASE RootFn \/ RootDef \/ RootBlock \/ RootSkip \/ LocalFn \/ LocalBlock \/ LocalLet \/ LocalSkip \/ LeaveScope
  <2>1. \/ In("root", "fn") \/ In("root", "def") \/ In("root", "block") \/ In("root", "let")
        \/ In("root", "use") \/ In("local", "fn") \/ In("local", "block") \/ In("local", "let")
        \/ In("local", "def") \/ In(pass, "end")
    BY <1>6 DEF RootFn, RootDef, RootBlock, RootSkip, LocalFn, LocalBlock, LocalLet, LocalSkip, LeaveScope
  <2>2. ~ In("local", "use")
    BY <2>1 DEF In
  <2>3. look' = look
    BY <1>6 DEF RootFn, RootDef, RootBlock, RootSkip, LocalFn, LocalBlock, LocalLet, LocalSkip, LeaveScope
  <2> QED
    BY <1>2, <2>2, <2>3 DEF LookRight
<1>7. CASE NextPass
  <2>1. ~ In("local", "use")
    BY <1>7, Places DEF NextPass, In
  <2> QED
    BY <1>2, <1>7, <2>1 DEF NextPass, LookRight
<1> QED
  BY <1>3, <1>4, <1>5, <1>6, <1>7 DEF Next

LEMMA TypedKeeps ==
  ASSUME Typed, WalkRight, SavedRight, TablesRight, ParentsRight, LookRight, Next
  PROVE  Typed'
<1>1. /\ text \in Texts /\ text' = text /\ Scopes' = Scopes /\ Symbols' = Symbols
      /\ at \in Nat /\ at > 0 /\ Len(text) \in Nat /\ DOMAIN text = 1..Len(text) /\ at <= Len(text) + 1
      /\ pass \in {"root", "local", "done"} /\ saved \in Seq(Nat \X Slots)
      /\ binding \in [DOMAIN text -> Slots] /\ look \in Int \cup {NULL}
  BY Places, Moves DEF Typed, Scopes, Symbols
<1>2. scope \in Nat /\ func \in Slots
  BY ScopeTyped
<1>3. /\ pass' \in {"root", "local", "done"} /\ at' \in 1..(Len(text) + 1)
      /\ pass' = "done" => at' = 1
  BY <1>1, Finished, Moves DEF Entering, Leaving, Passing, Starting, Looking
<1>4. saved' \in Seq(Nat \X Slots)
  <2>1. CASE Entering
    BY <1>1, <1>2, <2>1, AppendProperties DEF Entering
  <2>2. CASE Leaving
    <3> DEFINE n == Len(saved)
    <3>1. n \in Nat \ {0}
      BY <2>2, TopSaved
    <3>2. saved' = SubSeq(saved, 1, n - 1)
      BY <2>2 DEF Leaving
    <3>3. \A i \in 1..(n - 1) : saved[i] \in Nat \X Slots
      BY <1>1, <3>1
    <3>4. n - 1 \in Int
      BY <3>1
    <3> HIDE DEF n
    <3> QED
      BY <3>2, <3>3, <3>4, SubSeqProperties
  <2>3. CASE Passing \/ Starting \/ Looking
    BY <1>1, <2>3 DEF Passing, Starting, Looking
  <2> QED
    BY <2>1, <2>2, <2>3, Moves
<1>5. /\ tables' \in [Scopes -> [Key -> Slots]] /\ parent' \in [Scopes -> Int \cup {NULL}]
      /\ function' \in [Symbols -> Slots]
  BY TablesMove, ParentsMove, OwnersMove
<1>6. binding' \in [DOMAIN text -> Slots]
  <2>1. CASE RootFn
    <3>1. In("root", "fn") /\ binding' = [binding EXCEPT ![at] = IF tables' = tables THEN NULL ELSE Symbol(at, 0)]
      BY <2>1 DEF RootFn
    <3>2. Symbol(at, 0) \in Slots /\ NULL \in Slots
      BY <1>1, SymbolIsNotNull DEF Slots
    <3> QED
      BY <1>1, <3>1, <3>2
  <2>2. CASE LocalUse
    <3>1. look # NULL /\ binding' = [binding EXCEPT ![at] = Found]
      BY <2>2 DEF LocalUse
    <3>2. Found \in Slots
      BY <3>1, Looked
    <3> QED
      BY <1>1, <3>1, <3>2
  <2>3. CASE ~ RootFn /\ ~ LocalUse
    BY <1>1, <2>3 DEF Next, RootDef, RootBlock, RootSkip, LocalFn, LocalBlock, LocalLet, LocalSkip,
                      LookUp, LookOutwards, LeaveScope, NextPass
  <2> QED
    BY <2>1, <2>2, <2>3
<1>7. look' \in Int \cup {NULL}
  <2>1. CASE LookUp
    BY <1>2, <2>1 DEF LookUp
  <2>2. CASE LookOutwards
    <3>1. look # NULL /\ look' = parent[look]
      BY <2>2 DEF LookOutwards
    <3> QED
      BY <3>1 DEF LookRight, Typed
  <2>3. CASE ~ LookUp /\ ~ LookOutwards
    BY <1>1, <2>3 DEF Next, RootFn, RootDef, RootBlock, RootSkip, LocalFn, LocalBlock, LocalLet, LocalSkip,
                      LocalUse, LeaveScope, NextPass
  <2> QED
    BY <2>1, <2>2, <2>3
<1> QED
  BY <1>1, <1>3, <1>4, <1>5, <1>6, <1>7 DEF Typed

-----------------------------------------------------------------------------
(***************************************************************************)
(* Errors.                                                                 *)
(***************************************************************************)
\* What a name means is defined in a scope around its use or is a parameter.
LEMMA MeantFacts ==
  ASSUME NEW t \in Texts, NEW p \in DOMAIN t, Meant(t, p) # NULL
  PROVE  \/ \E q \in DOMAIN t : /\ Meant(t, p) = Symbol(q, 0) /\ t[q].key = t[p].key
                                /\ t[q].t \in {"fn", "def"} \/ (t[q].t = "let" /\ q < p)
         \/ \E q \in Enclosing(t, p) : \E i \in Nat \ {0} :
              /\ Meant(t, p) = Symbol(q, i) /\ t[q].t = "fn" /\ q \in DOMAIN t
              /\ i \in DOMAIN t[q].params /\ t[q].params[i] = t[p].key
<1> DEFINE key == t[p].key
           knowing == {i \in Enclosing(t, p) \cup {ROOT} : Known(t, i, p, key) # NULL}
<1>1. p \in Nat /\ Enclosing(t, p) \subseteq DOMAIN t /\ p \in 1..Len(t) /\ Len(t) \in Nat
  BY Text, AroundFacts
<1>2. Meant(t, p) = IF knowing = {} THEN NULL ELSE Known(t, Largest(knowing, ROOT), p, key)
  BY DEF Meant
<1>3. knowing # {}
  BY <1>2
<1>4. PICK o : o = Largest(knowing, ROOT)
  OBVIOUS
<1>5. Meant(t, p) = Known(t, o, p, key)
  BY <1>2, <1>3, <1>4
<1>6. o \in Enclosing(t, p) \cup {ROOT}
  <2>1. CASE knowing \ {ROOT} = {}
    <3>1. knowing = {ROOT}
      BY <1>3, <2>1
    <3>2. o = ROOT
      <4> HIDE DEF knowing
      <4> QED
        BY <1>4, <3>1 DEF Largest, ROOT
    <3> QED
      BY <3>2
  <2>2. CASE knowing \ {ROOT} # {}
    <3> DEFINE S == knowing \ {ROOT}
    <3>1. /\ S \in SUBSET (1..Len(t)) /\ S \subseteq Enclosing(t, p) /\ S # {}
          /\ \A i \in knowing : i \in S \/ i = ROOT
      BY <1>1, <2>2, Text
    <3> HIDE DEF S, knowing
    <3>2. PICK x \in S : \A y \in S : y <= x
      <4>1. Largest(S, ROOT) \in S /\ \A y \in S : y <= Largest(S, ROOT)
        BY <1>1, <3>1, LargestIsElement
      <4> QED
        BY <4>1
    <3>3. ASSUME NEW y \in knowing PROVE y <= x
      <4>1. x \in 1..Len(t)
        BY <3>1, <3>2
      <4>2. CASE y = ROOT
        BY <1>1, <4>1, <4>2 DEF ROOT
      <4>3. CASE y \in S
        BY <3>2, <4>3
      <4> QED
        BY <3>1, <4>2, <4>3
    <3>4. o \in knowing
      <4>1. x \in knowing
        BY <3>2 DEF S
      <4> QED
        BY <1>3, <1>4, <3>3, <4>1 DEF Largest
    <3> QED
      BY <3>4 DEF knowing
  <2> QED
    BY <2>1, <2>2
<1>7. CASE InBlock(t, o, p, key) # NULL
  <2>1. Meant(t, p) = InBlock(t, o, p, key)
    BY <1>5, <1>7, KnownFacts
  <2> QED
    BY <1>1, <1>7, <2>1, InBlockFacts
<1>8. CASE InBlock(t, o, p, key) = NULL
  <2>1. Meant(t, p) = AsParam(t, o, key)
    BY <1>5, <1>8, KnownFacts
  <2>2. o \in DOMAIN t \cup {ROOT}
    BY <1>1, <1>6
  <2>3. o # ROOT /\ t[o].t = "fn" /\ AsParam(t, o, key) # NULL
    BY <2>1, <2>2, AsParamFacts
  <2>4. PICK i \in DOMAIN t[o].params :
          AsParam(t, o, key) = Symbol(o, i) /\ i \in Nat \ {0} /\ t[o].params[i] = key
    BY <2>2, <2>3, AsParamFacts
  <2>5. o \in Enclosing(t, p) /\ o \in DOMAIN t
    BY <1>6, <2>2, <2>3
  <2> QED
    BY <2>1, <2>3, <2>4, <2>5
<1> QED
  BY <1>7, <1>8

\* The function of a variable is told by its symbol if no name is taken.
LEMMA FuncInTells ==
  ASSUME Typed, FunctionsBound, pass = "local", NamesFree(text, Len(text) + 1),
         NEW o \in Nat, o <= Len(text) + 1
  PROVE  FuncIn(text, binding, "local", o) =
           IF FunctionAround(text, o) = NULL THEN NULL ELSE Symbol(FunctionAround(text, o), 0)
<1>1. CASE FunctionAround(text, o) = NULL
  BY <1>1 DEF FuncIn
<1>2. CASE FunctionAround(text, o) # NULL
  <2>1. PICK f : f = FunctionAround(text, o)
    OBVIOUS
  <2>2. f \in Enclosing(text, o) /\ text[f].t = "fn"
    BY <1>2, <2>1, FunctionAroundFacts
  <2>3. f \in DOMAIN text /\ f \in 1..((Len(text) + 1) - 1)
    BY <2>2, AroundFacts, Places
  <2>4. binding[f] = Symbol(f, 0)
    BY <2>2, <2>3 DEF FunctionsBound, NamesFree
  <2> QED
    BY <1>2, <2>1, <2>4 DEF FuncIn
<1> QED
  BY <1>1, <1>2

LEMMA CapturesRight ==
  ASSUME Typed, WalkRight, OwnersRight, FunctionsBound, NamesFree(text, Len(text) + 1),
         In("local", "use"), Meant(text, at) # NULL
  PROVE  Captures(Meant(text, at)) <=> Home(text, Meant(text, at)) \notin {NULL, FunctionAround(text, at)}
<1>1. /\ at \in DOMAIN text /\ pass = "local" /\ Token = text[at] /\ text \in Texts /\ at \in Nat
      /\ at <= Len(text) + 1 /\ DOMAIN text = 1..Len(text) /\ Len(text) \in Nat
  BY AtToken, Places
<1>2. PICK s : s = Meant(text, at)
  OBVIOUS
<1>3. PICK f : f = FunctionAround(text, at)
  OBVIOUS
<1>4. func = IF f = NULL THEN NULL ELSE Symbol(f, 0)
  BY <1>1, <1>3, FuncInTells DEF WalkRight
<1>5. Captures(s) <=> text[at].key.kind = "VARIABLE" /\ function[s] # NULL /\ function[s] # func
  BY <1>1 DEF Captures
<1>6. \A x \in Symbols : function[x] = IF x[1] < at THEN Owner(text, binding, x) ELSE NULL
  BY <1>1 DEF OwnersRight
<1>7. \A x \in Int : Symbol(x, 0) # NULL /\ \A y \in Int : Symbol(x, 0) = Symbol(y, 0) => x = y
  BY SymbolIsNotNull
<1>8. f # NULL => f \in Int
  <2>1. f # NULL => f \in Enclosing(text, at)
    BY <1>1, <1>3, FunctionAroundFacts
  <2> QED
    BY <1>1, <2>1, Nested
<1>9. CASE \E q \in DOMAIN text : /\ s = Symbol(q, 0) /\ text[q].key = text[at].key
                                  /\ text[q].t \in {"fn", "def"} \/ (text[q].t = "let" /\ q < at)
  <2>1. PICK q \in DOMAIN text : /\ s = Symbol(q, 0) /\ text[q].key = text[at].key
                                 /\ text[q].t \in {"fn", "def"} \/ (text[q].t = "let" /\ q < at)
    BY <1>9
  <2>2. s \in Symbols /\ s[1] = q /\ s[2] = 0 /\ q \in Nat /\ ~ (s[2] > 0) /\ q <= Len(text) + 1
    BY <1>1, <2>1, SymbolsHave, SymbolIsNotNull
  <2>3. CASE text[q].t \in {"fn", "def"}
    <3>1. Owner(text, binding, s) = NULL /\ Home(text, s) = NULL
      BY <2>2, <2>3 DEF Owner, Home
    <3> QED
      BY <1>2, <1>5, <1>6, <2>2, <3>1
  <2>4. CASE text[q].t = "let" /\ q < at
    <3>1. PICK g : g = FunctionAround(text, q)
      OBVIOUS
    <3>2. function[s] = FuncIn(text, binding, "local", q) /\ Home(text, s) = g
      BY <1>6, <2>2, <2>4, <3>1 DEF Owner, Home
    <3>3. function[s] = IF g = NULL THEN NULL ELSE Symbol(g, 0)
      BY <1>1, <2>2, <3>1, <3>2, FuncInTells
    <3>4. g # NULL => g \in Int
      <4>1. g # NULL => g \in Enclosing(text, q)
        BY <2>2, <3>1, FunctionAroundFacts
      <4> QED
        BY <2>2, <4>1, Nested
    <3>5. text[at].key.kind = "VARIABLE"
      BY <1>1, <2>1, <2>4, TokenShape
    <3> QED
      BY <1>2, <1>3, <1>4, <1>5, <1>7, <1>8, <3>2, <3>3, <3>4, <3>5
  <2> QED
    BY <2>1, <2>3, <2>4
<1>10. CASE \E q \in Enclosing(text, at) : \E i \in Nat \ {0} :
              /\ s = Symbol(q, i) /\ text[q].t = "fn" /\ q \in DOMAIN text
              /\ i \in DOMAIN text[q].params /\ text[q].params[i] = text[at].key
  <2>1. PICK q \in Enclosing(text, at), i \in Nat \ {0} :
              /\ s = Symbol(q, i) /\ text[q].t = "fn" /\ q \in DOMAIN text
              /\ i \in DOMAIN text[q].params /\ text[q].params[i] = text[at].key
    BY <1>10
  <2>2. q \in Nat /\ q < at /\ q \in 1..((Len(text) + 1) - 1)
    BY <1>1, <2>1, Nested
  <2>3. s \in Symbols /\ s[1] = q /\ s[2] > 0
    BY <2>1, <2>2, SymbolsHave, SymbolIsNotNull
  <2>4. binding[q] = Symbol(q, 0)
    BY <1>1, <2>1, <2>2 DEF FunctionsBound, NamesFree
  <2>5. function[s] = Symbol(q, 0) /\ Home(text, s) = q
    BY <1>6, <2>2, <2>3, <2>4 DEF Owner, Home
  <2>6. text[at].key.kind = "VARIABLE"
    <3>1. text[q].params \in Seq({key \in Key : key.kind = "VARIABLE"})
      BY <1>1, <2>1, TokenShape
    <3>2. text[q].params[i] \in {key \in Key : key.kind = "VARIABLE"}
      BY <2>1, <3>1
    <3> QED
      BY <2>1, <3>2
  <2>7. f # NULL
    <3> DEFINE fns == {o \in Enclosing(text, at) : text[o].t = "fn"}
    <3>1. q \in fns
      BY <2>1
    <3>2. f \in fns
      BY <1>1, <1>3, <3>1, FunctionAroundFacts
    <3>3. f \in Int
      BY <1>1, <3>2, Nested
    <3> QED
      BY <3>3, NullAssumption
  <2>8. q # NULL /\ q \in Int
    BY <2>2, NullAssumption
  <2> QED
    BY <1>2, <1>3, <1>4, <1>5, <1>7, <1>8, <2>5, <2>6, <2>7, <2>8
<1> QED
  BY <1>1, <1>2, <1>9, <1>10, MeantFacts

LEMMA NamesFreeStep ==
  ASSUME NEW t \in Texts, NEW p \in DOMAIN t
  PROVE  NamesFree(t, p + 1) <=> NamesFree(t, p) /\ (t[p].t \in {"fn", "def"} => ~ Taken(t, p))
<1>1. p \in Nat /\ p > 0
  BY Text
<1>2. 1..((p + 1) - 1) = (1..(p - 1)) \cup {p}
  BY <1>1
<1> QED
  BY <1>2 DEF NamesFree

Allowed(t, q) ==
  /\ t[q].t = "fn" => \A i, j \in DOMAIN t[q].params : i # j => t[q].params[i] # t[q].params[j]
  /\ t[q].t = "use" => Meant(t, q) # NULL /\ Home(t, Meant(t, q)) \in {NULL, FunctionAround(t, q)}

LEMMA UsesAllowedStep ==
  ASSUME NEW t \in Texts, NEW p \in DOMAIN t
  PROVE  UsesAllowed(t, p + 1) <=> UsesAllowed(t, p) /\ Allowed(t, p)
<1>1. p \in Nat /\ p > 0
  BY Text
<1>2. 1..((p + 1) - 1) = (1..(p - 1)) \cup {p}
  BY <1>1
<1>3. \A n : UsesAllowed(t, n) <=> \A q \in 1..(n - 1) : Allowed(t, q)
  BY DEF UsesAllowed, Allowed
<1> HIDE DEF Allowed
<1> QED
  BY <1>2, <1>3

LEMMA ErrorsTell ==
  /\ pass = "root" => (ErrorsRight <=> (errors = {} <=> NamesFree(text, at)))
  /\ pass = "local" => (ErrorsRight <=> (errors = {} <=> NamesFree(text, Len(text) + 1) /\ UsesAllowed(text, at)))
  /\ pass = "done" => (ErrorsRight <=> (errors = {} <=> NamesFree(text, Len(text) + 1)
                                                        /\ UsesAllowed(text, Len(text) + 1)))
BY DEF ErrorsRight

LEMMA ErrorsKeep ==
  ASSUME Typed, WalkRight, TablesRight, ParentsRight, OwnersRight, FunctionsBound, LookRight, ErrorsRight, Next
  PROVE  ErrorsRight'
<1>1. /\ text \in Texts /\ text' = text /\ at \in Nat /\ Len(text) \in Nat
      /\ pass \in {"root", "local", "done"} /\ pass # "done"
  BY Places, Moves, Finished DEF Typed
<1> DEFINE Free == NamesFree(text, Len(text) + 1)
<1>2. pass = "root" => (errors = {} <=> NamesFree(text, at))
  BY ErrorsTell
<1>3. pass = "local" => (errors = {} <=> Free /\ UsesAllowed(text, at))
  BY ErrorsTell
<1>4. ASSUME pass = "root", pass' = "root", at' = at + 1, errors' = {} <=> NamesFree(text, at + 1)
      PROVE  ErrorsRight'
  BY <1>1, <1>4 DEF ErrorsRight
<1>5. ASSUME pass = "local", pass' = "local", at' = at + 1,
             errors' = {} <=> Free /\ UsesAllowed(text, at + 1)
      PROVE  ErrorsRight'
  BY <1>1, <1>5 DEF ErrorsRight
<1> HIDE DEF Free
<1>6. CASE RootFn \/ RootDef
  <2>1. In("root", "fn") \/ In("root", "def")
    BY <1>6 DEF RootFn, RootDef
  <2>2. at \in DOMAIN text /\ text[at].t \in {"fn", "def"} /\ pass = "root"
    BY <2>1, AtToken
  <2>3. DefineOnce /\ pass' = pass /\ at' = at + 1
    BY <1>6 DEF RootFn, RootDef
  <2>4. errors' = {} <=> errors = {} /\ ~ Taken(text, at)
    BY <2>2, <2>3, DefineOnceMoves, TableTells
  <2>5. errors' = {} <=> NamesFree(text, at + 1)
    BY <1>1, <1>2, <2>2, <2>4, NamesFreeStep
  <2> QED
    BY <1>4, <2>2, <2>3, <2>5
<1>7. CASE RootBlock \/ RootSkip \/ (LeaveScope /\ pass = "root")
  <2>1. In("root", "block") \/ In("root", "let") \/ In("root", "use") \/ In("root", "end")
    BY <1>7 DEF RootBlock, RootSkip, LeaveScope
  <2>2. at \in DOMAIN text /\ text[at].t \notin {"fn", "def"} /\ pass = "root"
    BY <2>1, AtToken
  <2>3. errors' = errors /\ pass' = pass /\ at' = at + 1
    BY <1>7 DEF RootBlock, RootSkip, LeaveScope
  <2>4. errors' = {} <=> NamesFree(text, at + 1)
    BY <1>1, <1>2, <2>2, <2>3, NamesFreeStep
  <2> QED
    BY <1>4, <2>2, <2>3, <2>4
<1>8. CASE LocalFn
  <2>1. In("local", "fn")
    BY <1>8 DEF LocalFn
  <2>2. at \in DOMAIN text /\ text[at].t = "fn" /\ pass = "local" /\ Token = text[at]
    BY <2>1, AtToken
  <2>3. pass' = pass /\ at' = at + 1
    BY <1>8 DEF LocalFn
  <2>4. errors' = {} <=> errors = {} /\ ParamsDiffer
    BY <1>8 DEF LocalFn, Report
  <2>5. Allowed(text, at) <=> ParamsDiffer
    BY <2>2 DEF Allowed, ParamsDiffer
  <2>6. errors' = {} <=> Free /\ UsesAllowed(text, at + 1)
    BY <1>1, <1>3, <2>2, <2>4, <2>5, UsesAllowedStep
  <2> QED
    BY <1>5, <2>2, <2>3, <2>6
<1>9. CASE LocalUse
  <2>1. In("local", "use") /\ look # NULL /\ (Found # NULL \/ parent[look] = NULL)
    BY <1>9 DEF LocalUse
  <2>2. at \in DOMAIN text /\ text[at].t = "use" /\ pass = "local" /\ Token = text[at]
    BY <2>1, AtToken
  <2>3. pass' = pass /\ at' = at + 1
    BY <1>9 DEF LocalUse
  <2>4. errors' = {} <=> errors = {} /\ Found # NULL /\ ~ Captures(Found)
    BY <1>9 DEF LocalUse, Report
  <2>5. Found = Meant(text, at)
    BY <2>1, FoundIsMeant
  <2>6. Free /\ Meant(text, at) # NULL =>
          (Captures(Meant(text, at)) <=> Home(text, Meant(text, at)) \notin {NULL, FunctionAround(text, at)})
    BY <2>1, CapturesRight DEF Free
  <2>7. Allowed(text, at) <=>
          Meant(text, at) # NULL /\ Home(text, Meant(text, at)) \in {NULL, FunctionAround(text, at)}
    BY <2>2 DEF Allowed
  <2>8. errors' = {} <=> Free /\ UsesAllowed(text, at + 1)
    <3>1. Free => (Meant(text, at) # NULL /\ ~ Captures(Meant(text, at)) <=> Allowed(text, at))
      BY <2>6, <2>7
    <3>2. errors' = {} <=> errors = {} /\ Meant(text, at) # NULL /\ ~ Captures(Meant(text, at))
      BY <2>4, <2>5
    <3>3. UsesAllowed(text, at + 1) <=> UsesAllowed(text, at) /\ Allowed(text, at)
      BY <1>1, <2>2, UsesAllowedStep
    <3>4. errors = {} <=> Free /\ UsesAllowed(text, at)
      BY <1>3, <2>2
    <3> QED
      BY <3>1, <3>2, <3>3, <3>4
  <2> QED
    BY <1>5, <2>2, <2>3, <2>8
<1>10. CASE LocalBlock \/ LocalLet \/ LocalSkip \/ (LeaveScope /\ pass = "local")
  <2>1. In("local", "block") \/ In("local", "let") \/ In("local", "def") \/ In("local", "end")
    BY <1>10 DEF LocalBlock, LocalLet, LocalSkip, LeaveScope
  <2>2. at \in DOMAIN text /\ text[at].t \notin {"fn", "use"} /\ pass = "local"
    BY <2>1, AtToken
  <2>3. errors' = errors /\ pass' = pass /\ at' = at + 1
    BY <1>10 DEF LocalBlock, LocalLet, LocalSkip, LeaveScope
  <2>4. Allowed(text, at)
    BY <2>2 DEF Allowed
  <2>5. errors' = {} <=> Free /\ UsesAllowed(text, at + 1)
    BY <1>1, <1>3, <2>2, <2>3, <2>4, UsesAllowedStep
  <2> QED
    BY <1>5, <2>2, <2>3, <2>5
<1>11. CASE LookUp \/ LookOutwards
  BY <1>1, <1>11 DEF LookUp, LookOutwards, ErrorsRight
<1>12. CASE NextPass
  <2>1. at = Len(text) + 1 /\ errors' = errors /\ at' = 1
    BY <1>12, Places DEF NextPass
  <2>2. CASE pass = "root"
    <3>1. pass' = "local"
      BY <1>12, <2>2 DEF NextPass
    <3>2. UsesAllowed(text, 1)
      BY DEF UsesAllowed
    <3> QED
      BY <1>1, <1>2, <2>1, <2>2, <3>1, <3>2 DEF ErrorsRight
  <2>3. CASE pass = "local"
    <3>1. pass' = "done"
      BY <1>12, <2>3 DEF NextPass
    <3> QED
      BY <1>1, <1>3, <2>1, <2>3, <3>1 DEF ErrorsRight, Free
  <2> QED
    BY <1>1, <2>2, <2>3
<1> QED
  BY <1>1, <1>6, <1>7, <1>8, <1>9, <1>10, <1>11, <1>12 DEF Next

-----------------------------------------------------------------------------
(***************************************************************************)
(* The invariant holds, and it says what the names mean.                   *)
(***************************************************************************)
LEMMA InitIInv == Init => IInv
<1> SUFFICES ASSUME Init PROVE IInv
  OBVIOUS
<1>1. /\ text \in Texts /\ Len(text) \in Nat /\ DOMAIN text = 1..Len(text)
      /\ pass = "root" /\ at = 1 /\ scope = ROOT /\ func = NULL /\ saved = <<>> /\ errors = {} /\ look = NULL
      /\ tables = [s \in Scopes |-> [k \in Key |-> NULL]] /\ parent = [s \in Scopes |-> NULL]
      /\ function = [s \in Symbols |-> NULL] /\ binding = [p \in DOMAIN text |-> NULL]
  BY Text DEF Init
<1>2. Typed
  <2>1. at \in 1..(Len(text) + 1) /\ saved \in Seq(Nat \X Slots) /\ NULL \in Slots
    BY <1>1 DEF Slots
  <2> QED
    BY <1>1, <2>1 DEF Typed
<1>3. WalkRight
  BY <1>1, Outermost DEF WalkRight, FuncIn
<1>4. SavedRight
  BY <1>1 DEF SavedRight, OuterScope
<1>5. TablesRight
  <2>1. ASSUME NEW s \in Scopes, NEW key \in Key
        PROVE  tables[s][key] = NULL /\ FirstDefinition(text, s, 1, key) = NULL
    <3>1. {q \in Defining(text, s, key, {"fn", "def"}) : q < 1} = {}
      BY <1>1, DefiningFacts
    <3> QED
      BY <1>1, <3>1 DEF FirstDefinition
  <2> QED
    BY <1>1, <2>1 DEF TablesRight
<1>6. ParentsRight
  BY <1>1 DEF ParentsRight, Scopes, ROOT
<1>7. OwnersRight
  BY <1>1 DEF OwnersRight
<1>8. FunctionsBound /\ UsesBound
  BY <1>1 DEF FunctionsBound, UsesBound
<1>9. ErrorsRight
  <2>1. NamesFree(text, 1)
    BY DEF NamesFree
  <2> QED
    BY <1>1, <2>1, ErrorsTell
<1>10. LookRight
  BY <1>1 DEF LookRight
<1> QED
  BY <1>2, <1>3, <1>4, <1>5, <1>6, <1>7, <1>8, <1>9, <1>10 DEF IInv

LEMMA NextIInv == IInv /\ [Next]_vars => IInv'
<1> SUFFICES ASSUME IInv, [Next]_vars PROVE IInv'
  OBVIOUS
<1>1. CASE Next
  <2>1. /\ Typed /\ WalkRight /\ SavedRight /\ TablesRight /\ ParentsRight /\ OwnersRight
        /\ FunctionsBound /\ UsesBound /\ ErrorsRight /\ LookRight
    BY DEF IInv
  <2>2. Typed' /\ WalkRight' /\ SavedRight'
    BY <1>1, <2>1, TypedKeeps, WalkKeeps, SavedKeeps
  <2>3. TablesRight' /\ ParentsRight' /\ OwnersRight' /\ LookRight'
    BY <1>1, <2>1, TablesKeeps, ParentsKeeps, OwnersKeeps, LookKeeps
  <2>4. FunctionsBound' /\ UsesBound' /\ ErrorsRight'
    BY <1>1, <2>1, FunctionsKeep, UsesKeep, ErrorsKeep
  <2> QED
    BY <2>2, <2>3, <2>4 DEF IInv
<1>2. CASE UNCHANGED vars
  <2>1. UNCHANGED <<text, pass, at, scope, func, saved, tables, parent, function, binding, errors, look>>
    BY <1>2 DEF vars
  <2>2. Scopes' = Scopes /\ Symbols' = Symbols
    BY <2>1 DEF Scopes, Symbols
  <2>3. Typed' /\ WalkRight' /\ SavedRight'
    BY <2>1, <2>2 DEF IInv, Typed, WalkRight, SavedRight
  <2>4. TablesRight' /\ ParentsRight' /\ OwnersRight'
    BY <2>1, <2>2 DEF IInv, TablesRight, ParentsRight, OwnersRight
  <2>5. FunctionsBound' /\ UsesBound' /\ ErrorsRight'
    BY <2>1 DEF IInv, FunctionsBound, UsesBound, ErrorsRight
  <2>6. LookRight'
    BY <2>1, <2>2 DEF IInv, LookRight, In, Token
  <2> QED
    BY <2>3, <2>4, <2>5, <2>6 DEF IInv
<1> QED
  BY <1>1, <1>2

LEMMA IInvHolds == Spec => []IInv
BY InitIInv, NextIInv, PTL DEF Spec

\* A name is defined once in its scope if no definition finds it taken.
LEMMA NoneTaken ==
  ASSUME NEW t \in Texts
  PROVE  NamesFree(t, Len(t) + 1) <=>
           \A p \in DOMAIN t :
             t[p].t \in {"fn", "def"} => Defining(t, Around(t, p), t[p].key, {"fn", "def"}) = {p}
<1> DEFINE D(p) == Defining(t, Around(t, p), t[p].key, {"fn", "def"})
<1>1. Len(t) \in Nat /\ DOMAIN t = 1..Len(t)
  BY Text
<1>2. (Len(t) + 1) - 1 = Len(t)
  BY <1>1
<1>3. NamesFree(t, Len(t) + 1) <=> \A p \in DOMAIN t : t[p].t \in {"fn", "def"} => ~ Taken(t, p)
  BY <1>1, <1>2 DEF NamesFree
<1>4. \A p \in DOMAIN t : Taken(t, p) <=> \E q \in D(p) : q < p
  BY DEF Taken
<1>5. \A p \in DOMAIN t : t[p].t \in {"fn", "def"} => p \in D(p)
  BY DEF Defining
<1>6. \A p \in DOMAIN t : \A q \in D(p) : q \in DOMAIN t /\ D(q) = D(p) /\ t[q].t \in {"fn", "def"} /\ q \in Nat
  BY <1>1 DEF Defining
<1>7. \A p \in DOMAIN t : p \in Nat
  BY <1>1
<1> HIDE DEF D
<1>8. ASSUME \A p \in DOMAIN t : t[p].t \in {"fn", "def"} => ~ Taken(t, p),
             NEW p \in DOMAIN t, t[p].t \in {"fn", "def"}
      PROVE  D(p) = {p}
  <2> SUFFICES ASSUME NEW q \in D(p), q # p PROVE FALSE
    BY <1>5, <1>8
  <2>1. q \in DOMAIN t /\ D(q) = D(p) /\ t[q].t \in {"fn", "def"} /\ q \in Nat /\ p \in Nat
    BY <1>6, <1>7, <1>8
  <2>2. CASE q < p
    BY <1>4, <1>8, <2>2
  <2>3. CASE p < q
    <3>1. p \in D(q)
      BY <1>5, <1>8, <2>1
    <3> QED
      BY <1>4, <1>8, <2>1, <2>3, <3>1
  <2> QED
    BY <2>1, <2>2, <2>3
<1>9. ASSUME \A p \in DOMAIN t : t[p].t \in {"fn", "def"} => D(p) = {p},
             NEW p \in DOMAIN t, t[p].t \in {"fn", "def"}
      PROVE  ~ Taken(t, p)
  <2>1. D(p) = {p} /\ p \in Nat
    BY <1>7, <1>9
  <2>2. ~ (p < p)
    BY <2>1
  <2> QED
    BY <1>4, <2>1, <2>2
<1>10. (\A p \in DOMAIN t : t[p].t \in {"fn", "def"} => ~ Taken(t, p)) <=>
         \A p \in DOMAIN t : t[p].t \in {"fn", "def"} => D(p) = {p}
  BY <1>8, <1>9
<1> QED
  BY <1>3, <1>10 DEF D

LEMMA AllAllowed ==
  ASSUME NEW t \in Texts
  PROVE  WellScoped(t) <=> NamesFree(t, Len(t) + 1) /\ UsesAllowed(t, Len(t) + 1)
<1>1. 1..((Len(t) + 1) - 1) = DOMAIN t
  BY Text
<1>2. UsesAllowed(t, Len(t) + 1) <=> \A q \in DOMAIN t : Allowed(t, q)
  BY <1>1 DEF UsesAllowed, Allowed
<1>3. (\A q \in DOMAIN t : Allowed(t, q)) <=>
        /\ \A p \in Uses(t) :
             Meant(t, p) # NULL /\ Home(t, Meant(t, p)) \in {NULL, FunctionAround(t, p)}
        /\ \A p \in DOMAIN t :
             t[p].t = "fn" => \A i, j \in DOMAIN t[p].params : i # j => t[p].params[i] # t[p].params[j]
  BY DEF Allowed, Uses
<1> QED
  BY <1>2, <1>3, NoneTaken DEF WellScoped

\* For every file, every use of a name is bound to the symbol that the text
\* means by it (buildSymbolTables of compiler/varbuild.c).
THEOREM NamesMeanWhatTheTextSays == Spec => []BindingsLexical
<1>1. IInv => BindingsLexical
  BY DEF IInv, UsesBound, BindingsLexical
<1> QED
  BY <1>1, IInvHolds, PTL

\* For every file, no error is reported exactly if the file is well scoped.
THEOREM WellScopedIsAccepted == Spec => []AcceptsWellScoped
<1>1. IInv => AcceptsWellScoped
  <2> SUFFICES ASSUME IInv, pass = "done" PROVE errors = {} <=> WellScoped(text)
    BY DEF AcceptsWellScoped
  <2>1. text \in Texts /\ ErrorsRight
    BY DEF IInv, Typed
  <2>2. errors = {} <=> NamesFree(text, Len(text) + 1) /\ UsesAllowed(text, Len(text) + 1)
    BY <2>1, ErrorsTell
  <2> QED
    BY <2>1, <2>2, AllAllowed
<1> QED
  BY <1>1, IInvHolds, PTL
=============================================================================
