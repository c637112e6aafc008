--------------------------- MODULE ConstEvalProofs --------------------------
(***************************************************************************)
(* Proofs for the evaluation of constants of ConstEval, for every set of   *)
(* programs whose sizes descend: no chain of calls goes round without      *)
(* meeting a mark, a value is the one the definitions mean, what is        *)
(* reported as recursive is, every constant with a meaning is evaluated,   *)
(* and without an error only what evaluation has no case for has no value. *)
(***************************************************************************)
EXTENDS ConstEval, SequenceTheorems, FiniteSetTheorems, WellFoundedInduction, TLAPS

Marks == Values \cup {NULL, REC}

Frames ==
  [def : Consts, phase : {"infer", "eval"}, goal : {"types", "value"}, rest : Seq(Term),
   wait : Consts \cup {NONE}, acc : Values \cup {NULL}, old : Nat]

MessageKinds == {"illegal", "recursive", "recursive size", "outside", "mismatch"}
Messages == MessageKinds \X Consts \X Consts
Visits == {"types", "values"} \X Consts

\* Types
Typed ==
  /\ prog \in Programs
  /\ value \in [Consts -> Marks]
  /\ evaluated \in [Consts -> BOOLEAN]
  /\ errors \in Seq(Messages)
  /\ todo \in Seq(Visits)
  /\ stack \in Seq(Frames)

Rank(p) == CHOOSE rank \in [Consts -> Consts] : SizesDescend(p, rank)

\* While the types are done, only smaller constants are asked for.
SizesOnly(f, rank) ==
  f.phase = "infer" =>
    \A i \in DOMAIN f.rest : f.rest[i].op = "ref" /\ rank[f.rest[i].of] < rank[f.def]

\* An evaluation that has passed the checks
Clear(f) ==
  f.phase = "eval" => \A i \in DOMAIN f.rest : f.rest[i].op # "mismatch"

AskSmaller == \A k \in DOMAIN stack : SizesOnly(stack[k], Rank(prog))

\* What is being evaluated is marked, and not asked for again,
Marked ==
  \A k \in DOMAIN stack :
    stack[k].phase = "eval" =>
      /\ value[stack[k].def] = REC
      /\ \A j \in DOMAIN stack : k < j => stack[j].def # stack[k].def

\* and nothing else is marked.
MarksAreCalls ==
  \A c \in Consts :
    value[c] = REC => \E k \in DOMAIN stack : stack[k].phase = "eval" /\ stack[k].def = c

\* A chain of calls without an evaluation goes down.
Descends ==
  \A i, j \in DOMAIN stack :
    i < j => \/ \E k \in i..(j - 1) : stack[k].phase = "eval"
             \/ Rank(prog)[stack[j].def] < Rank(prog)[stack[i].def]

\* Every call but the first one is for the value that the one before waits for.
CallsWait ==
  \A k \in DOMAIN stack :
    k > 1 => stack[k].goal = "value" /\ stack[k - 1].wait = stack[k].def

\* As long as there is no error, every definition has passed the checks and
\* been evaluated when the call that waits for it goes on,
AllClear ==
  errors = <<>> =>
    /\ \A k \in DOMAIN stack : stack[k].old = 0 /\ Clear(stack[k])
    /\ stack # <<>> /\ Top.wait # NONE => evaluated[Top.wait]

\* and no constant is forgotten.
Planned(c) ==
  \/ evaluated[c]
  \/ \E i \in DOMAIN todo : todo[i] = <<"values", c>>
  \/ stack # <<>> /\ stack[1].def = c /\ stack[1].goal = "value"

AllPlanned == errors = <<>> => \A c \in Consts : Planned(c)

IInv ==
  /\ Typed /\ AskSmaller /\ Marked /\ MarksAreCalls
  /\ Descends /\ CallsWait /\ AllClear /\ AllPlanned

-----------------------------------------------------------------------------
(***************************************************************************)
(* The stack and its innermost call.                                       *)
(***************************************************************************)
LEMMA RankDescends ==
  ASSUME NEW p \in Programs
  PROVE  /\ Rank(p) \in [Consts -> Consts] /\ SizesDescend(p, Rank(p))
         /\ p \in [Consts -> Body]
<1>1. p \in [Consts -> Body] /\ \E rank \in [Consts -> Consts] : SizesDescend(p, rank)
  BY ProgramsAssumption
<1> QED
  BY <1>1, Zenon DEF Rank

LEMMA TopIsFrame ==
  ASSUME Typed, stack # <<>>
  PROVE  /\ Len(stack) \in Nat \ {0} /\ DOMAIN stack = 1..Len(stack) /\ Top \in Frames
         /\ \A k \in 1..Len(stack) : stack[k] \in Frames
<1>1. stack \in Seq(Frames)
  BY DEF Typed
<1>2. Len(stack) \in Nat \ {0} /\ DOMAIN stack = 1..Len(stack)
  BY <1>1
<1>3. \A k \in 1..Len(stack) : stack[k] \in Frames
  BY <1>1
<1> QED
  BY <1>2, <1>3 DEF Top

LEMMA Replaced ==
  ASSUME Typed, stack # <<>>, NEW g \in Frames, stack' = Replace(g)
  PROVE  /\ stack' \in Seq(Frames) /\ stack' # <<>>
         /\ Len(stack') = Len(stack) /\ DOMAIN stack' = DOMAIN stack
         /\ Top' = g
         /\ \A k \in DOMAIN stack : stack'[k] = IF k = Len(stack) THEN g ELSE stack[k]
<1>1. stack \in Seq(Frames) /\ Len(stack) \in 1..Len(stack) /\ DOMAIN stack = 1..Len(stack)
  BY TopIsFrame DEF Typed
<1>2. /\ stack' \in Seq(Frames) /\ Len(stack') = Len(stack)
      /\ \A k \in 1..Len(stack) : stack'[k] = IF k = Len(stack) THEN g ELSE stack[k]
  BY <1>1, ExceptSeq DEF Replace
<1>3. DOMAIN stack' = DOMAIN stack /\ stack' # <<>>
  <2>1. DOMAIN stack' = 1..Len(stack')
    BY <1>2, LenProperties
  <2>2. DOMAIN stack' = DOMAIN stack
    BY <1>1, <1>2, <2>1
  <2>3. Len(stack) \in DOMAIN stack'
    BY <1>1, <2>2
  <2>4. DOMAIN <<>> = {}
    OBVIOUS
  <2> QED
    BY <2>2, <2>3, <2>4
<1>4. Top' = g
  BY <1>1, <1>2 DEF Top
<1> QED
  BY <1>1, <1>2, <1>3, <1>4

LEMMA Popped ==
  ASSUME Typed, stack # <<>>, stack' = Pop
  PROVE  /\ stack' \in Seq(Frames) /\ Len(stack') = Len(stack) - 1
         /\ DOMAIN stack' = 1..(Len(stack) - 1)
         /\ \A k \in 1..(Len(stack) - 1) : stack'[k] = stack[k]
         /\ stack' = <<>> <=> Len(stack) = 1
<1>1. Len(stack) \in Nat \ {0} /\ \A k \in 1..Len(stack) : stack[k] \in Frames
  BY TopIsFrame
<1> DEFINE n == Len(stack)
<1>2. n - 1 \in Int /\ 1 \in Int /\ \A k \in 1..(n - 1) : stack[k] \in Frames
  BY <1>1
<1>3. /\ stack' \in Seq(Frames) /\ Len(stack') = IF 1 <= n - 1 THEN n - 1 - 1 + 1 ELSE 0
      /\ \A k \in 1..(n - 1 - 1 + 1) : stack'[k] = stack[1 + k - 1]
  <2>1. stack' = SubSeq(stack, 1, n - 1)
    BY DEF Pop
  <2> HIDE DEF n
  <2> QED
    BY <1>2, <2>1, SubSeqProperties
<1>4. Len(stack') = n - 1 /\ \A k \in 1..(n - 1) : stack'[k] = stack[k]
  <2>1. n \in Nat \ {0}
    BY <1>1
  <2> HIDE DEF n
  <2>2. n - 1 - 1 + 1 = n - 1 /\ \A k \in 1..(n - 1) : 1 + k - 1 = k
    BY <2>1
  <2>3. (IF 1 <= n - 1 THEN n - 1 ELSE 0) = n - 1
    BY <2>1
  <2>4. \A k \in 1..(n - 1) : stack'[k] = stack[k]
    BY <1>3, <2>2
  <2> QED
    BY <1>3, <2>2, <2>3, <2>4
<1>5. DOMAIN stack' = 1..(n - 1)
  BY <1>3, <1>4
<1>6. stack' = <<>> <=> n = 1
  BY <1>1, <1>3, <1>4
<1> QED
  BY <1>3, <1>4, <1>5, <1>6

-----------------------------------------------------------------------------
(***************************************************************************)
(* The innermost call goes on and no other one is touched.                 *)
(***************************************************************************)
LEMMA TopGoesOn ==
  ASSUME IInv, UNCHANGED <<prog, value, evaluated, todo>>,
         stack # <<>>, NEW g \in Frames, stack' = Replace(g),
         g.def = Top.def, g.phase = Top.phase, g.goal = Top.goal, g.old = Top.old,
         g.wait \in {NONE, Top.wait}, SizesOnly(g, Rank(prog)), errors' \in Seq(Messages),
         errors' = <<>> => errors = <<>> /\ Clear(g)
  PROVE  IInv'
<1>1. Typed
  BY DEF IInv
<1>2. /\ stack' \in Seq(Frames) /\ stack' # <<>>
      /\ Len(stack') = Len(stack) /\ DOMAIN stack' = DOMAIN stack /\ Top' = g
      /\ \A k \in DOMAIN stack : stack'[k] = IF k = Len(stack) THEN g ELSE stack[k]
  BY <1>1, Replaced
<1>3. Len(stack) \in Nat \ {0} /\ DOMAIN stack = 1..Len(stack) /\ Top = stack[Len(stack)]
  BY <1>1, TopIsFrame DEF Top
<1>4. \A k \in DOMAIN stack : /\ stack'[k].def = stack[k].def
                              /\ stack'[k].phase = stack[k].phase
                              /\ stack'[k].goal = stack[k].goal
                              /\ stack'[k].old = stack[k].old
  BY <1>2, <1>3
<1>5. Rank(prog)' = Rank(prog)
  BY DEF Rank, SizesDescend
<1>6. Typed'
  BY <1>1, <1>2 DEF Typed
<1>7. AskSmaller'
  <2>1. \A k \in DOMAIN stack : SizesOnly(stack'[k], Rank(prog))
    BY <1>2 DEF IInv, AskSmaller
  <2> QED
    BY <1>2, <1>5, <2>1 DEF AskSmaller
<1>8. Marked'
  BY <1>2, <1>4 DEF IInv, Marked
<1>9. MarksAreCalls'
  BY <1>2, <1>4 DEF IInv, MarksAreCalls
<1>10. Descends'
  <2> SUFFICES ASSUME NEW i \in DOMAIN stack, NEW j \in DOMAIN stack, i < j
               PROVE  \/ \E k \in i..(j - 1) : stack'[k].phase = "eval"
                      \/ Rank(prog)[stack[j].def] < Rank(prog)[stack[i].def]
    BY <1>2, <1>4, <1>5 DEF Descends
  <2>1. \A k \in i..(j - 1) : k \in DOMAIN stack
    BY <1>3
  <2> QED
    BY <1>4, <2>1 DEF IInv, Descends
<1>11. CallsWait'
  <2> SUFFICES ASSUME NEW k \in DOMAIN stack, k > 1
               PROVE  stack'[k].goal = "value" /\ stack'[k - 1].wait = stack'[k].def
    BY <1>2 DEF CallsWait
  <2>1. k - 1 \in DOMAIN stack /\ k - 1 # Len(stack)
    BY <1>3
  <2>2. stack'[k - 1] = stack[k - 1]
    BY <1>2, <2>1
  <2> QED
    BY <1>4, <2>2 DEF IInv, CallsWait
<1>12. AllClear'
  <2> SUFFICES ASSUME errors' = <<>>
               PROVE  /\ \A k \in DOMAIN stack : stack'[k].old = 0 /\ Clear(stack'[k])
                      /\ g.wait # NONE => evaluated[g.wait]
    BY <1>2 DEF AllClear
  <2>1. errors = <<>> /\ Clear(g)
    OBVIOUS
  <2>2. /\ \A k \in DOMAIN stack : stack[k].old = 0 /\ Clear(stack[k])
        /\ Top.wait # NONE => evaluated[Top.wait]
    BY <2>1 DEF IInv, AllClear
  <2>3. \A k \in DOMAIN stack : Clear(stack'[k])
    BY <1>2, <2>1, <2>2
  <2> QED
    BY <1>2, <1>4, <2>2, <2>3
<1>13. AllPlanned'
  <2>1. stack'[1].def = stack[1].def /\ stack'[1].goal = stack[1].goal
    BY <1>3, <1>4
  <2> QED
    BY <1>2, <2>1 DEF IInv, AllPlanned, Planned
<1> QED
  BY <1>6, <1>7, <1>8, <1>9, <1>10, <1>11, <1>12, <1>13 DEF IInv

-----------------------------------------------------------------------------
(***************************************************************************)
(* What the innermost call does with a value.                              *)
(***************************************************************************)
\* The call stays the one it was, and an evaluation goes wrong only when there
\* is no value.
LEMMA TakeFacts ==
  ASSUME NEW f \in Frames, NEW v \in Marks, NEW rank \in [Consts -> Consts],
         f.rest # <<>>, Head(f.rest).op \in {"ref", "if"}, SizesOnly(f, rank)
  PROVE  LET g == Take(f, v)
         IN  /\ g \in Frames
             /\ g.def = f.def /\ g.phase = f.phase /\ g.goal = f.goal /\ g.old = f.old
             /\ g.wait = NONE /\ SizesOnly(g, rank)
             /\ Clear(f) => Clear(g)
             /\ g.acc = NULL => v = NULL \/ f.acc = NULL
<1> DEFINE tail == Tail(f.rest)
<1>1. f.rest \in Seq(Term) /\ f.phase \in {"infer", "eval"} /\ f.acc \in Values \cup {NULL}
  BY DEF Frames
<1>2. /\ Head(f.rest) \in Term /\ tail \in Seq(Term)
      /\ DOMAIN tail = 1..(Len(f.rest) - 1)
      /\ \A i \in DOMAIN tail : tail[i] = f.rest[i + 1] /\ i + 1 \in DOMAIN f.rest
  <2>1. /\ Head(f.rest) \in Term /\ tail \in Seq(Term) /\ Len(tail) = Len(f.rest) - 1
        /\ \A i \in 1..Len(tail) : tail[i] = f.rest[i + 1]
    BY <1>1, HeadTailProperties
  <2>2. DOMAIN tail = 1..Len(tail) /\ DOMAIN f.rest = 1..Len(f.rest) /\ Len(f.rest) \in Nat
    BY <1>1, <2>1, LenProperties
  <2> HIDE DEF tail
  <2> QED
    BY <2>1, <2>2
<1> HIDE DEF tail
<1>3. CASE f.phase = "infer"
  <2>1. Take(f, v) = [f EXCEPT !.rest = tail, !.wait = NONE]
    BY <1>3 DEF Take, tail
  <2>2. SizesOnly(Take(f, v), rank)
    BY <1>2, <1>3, <2>1 DEF SizesOnly, Frames
  <2>3. Clear(Take(f, v))
    BY <1>3, <2>1 DEF Clear, Frames
  <2> QED
    BY <1>2, <2>1, <2>2, <2>3 DEF Frames
<1>4. CASE f.phase = "eval" /\ v = NULL
  <2>1. Take(f, v) = [f EXCEPT !.rest = <<>>, !.wait = NONE, !.acc = NULL]
    BY <1>4 DEF Take
  <2>2. <<>> \in Seq(Term)
    OBVIOUS
  <2>3. Clear(Take(f, v))
    BY <2>1 DEF Clear, Frames
  <2> QED
    BY <1>4, <2>1, <2>2, <2>3 DEF Frames, SizesOnly
<1>5. CASE f.phase = "eval" /\ v # NULL /\ Head(f.rest).op = "if"
  <2> DEFINE one == Ref(IF v = 1 THEN Head(f.rest).yes ELSE Head(f.rest).no)
             rest == <<one>> \o tail
  <2>1. Take(f, v) = [f EXCEPT !.rest = rest, !.wait = NONE]
    BY <1>5 DEF Take, tail
  <2>2. one \in Term /\ one.op = "ref"
    BY <1>2 DEF Term, Ref
  <2>3. /\ rest \in Seq(Term)
        /\ \A i \in DOMAIN rest : \/ rest[i] = one
                                  \/ i - 1 \in DOMAIN tail /\ rest[i] = tail[i - 1]
    <3> HIDE DEF one
    <3>1. <<one>> \in Seq(Term) /\ Len(<<one>>) = 1 /\ <<one>>[1] = one
      BY <2>2
    <3>2. /\ rest \in Seq(Term) /\ Len(rest) = Len(<<one>>) + Len(tail)
          /\ \A i \in 1..(Len(<<one>>) + Len(tail)) :
               rest[i] = IF i <= Len(<<one>>) THEN <<one>>[i] ELSE tail[i - Len(<<one>>)]
      BY <1>2, <3>1, ConcatProperties
    <3>3. DOMAIN rest = 1..Len(rest) /\ DOMAIN tail = 1..Len(tail) /\ Len(tail) \in Nat
      BY <1>2, <3>2, LenProperties
    <3> HIDE DEF rest
    <3> QED
      BY <3>1, <3>2, <3>3
  <2> HIDE DEF one, rest
  <2>4. Clear(f) => Clear(Take(f, v))
    <3> SUFFICES ASSUME Clear(f), NEW i \in DOMAIN rest
                 PROVE  rest[i].op # "mismatch"
      BY <2>1 DEF Clear, Frames
    <3>1. CASE rest[i] = one
      BY <2>2, <3>1
    <3>2. CASE i - 1 \in DOMAIN tail /\ rest[i] = tail[i - 1]
      BY <1>2, <1>5, <3>2 DEF Clear
    <3> QED
      BY <2>3, <3>1, <3>2
  <2> QED
    BY <1>5, <2>1, <2>3, <2>4 DEF Frames, SizesOnly
<1>6. CASE f.phase = "eval" /\ v # NULL /\ Head(f.rest).op = "ref"
  <2> DEFINE sum == (f.acc + v) % 2
  <2>1. Take(f, v) = [f EXCEPT !.rest = tail, !.wait = NONE, !.acc = sum]
    BY <1>6 DEF Take, tail
  <2>2. sum \in Values
    BY <1>1 DEF Marks, Values, NULL, REC
  <2>3. sum # NULL
    BY <2>2 DEF Values, NULL
  <2> HIDE DEF sum
  <2>4. Clear(f) => Clear(Take(f, v))
    BY <1>2, <1>6, <2>1 DEF Clear, Frames
  <2> QED
    BY <1>2, <1>6, <2>1, <2>2, <2>3, <2>4 DEF Frames, SizesOnly
<1> QED
  BY <1>1, <1>3, <1>4, <1>5, <1>6

-----------------------------------------------------------------------------
(***************************************************************************)
(* The operations.                                                         *)
(***************************************************************************)
LEMMA Reported ==
  ASSUME Typed, NEW kind \in MessageKinds, NEW c \in Consts, NEW d \in Consts, Report(kind, c, d)
  PROVE  errors' \in Seq(Messages) /\ errors' # <<>>
<1>1. <<kind, c, d>> \in Messages /\ errors \in Seq(Messages)
  BY DEF Messages, Typed
<1> DEFINE m == <<kind, c, d>>
<1>2. errors' = Append(errors, m)
  BY DEF Report
<1> HIDE DEF m
<1>3. errors' \in Seq(Messages) /\ Len(errors') = Len(errors) + 1 /\ Len(errors) \in Nat
  BY <1>1, <1>2, AppendProperties, LenProperties DEF m
<1>4. Len(errors) + 1 # 0 /\ \A q : q = <<>> => Len(q) = 0
  BY <1>3
<1> QED
  BY <1>3, <1>4

LEMMA AskedIsConst ==
  ASSUME Typed, Asking
  PROVE  Asked \in Consts /\ Top \in Frames
<1>1. Top \in Frames /\ Top.rest # <<>>
  BY TopIsFrame DEF Asking
<1>2. Top.rest \in Seq(Term)
  BY <1>1 DEF Frames
<1>3. Head(Top.rest) \in Term
  BY <1>1, <1>2, HeadTailProperties
<1> QED
  BY <1>1, <1>3 DEF Asked, Term

LEMMA TopInInv ==
  ASSUME IInv, stack # <<>>
  PROVE  SizesOnly(Top, Rank(prog)) /\ (errors = <<>> => Clear(Top) /\ Top.old = 0)
<1>1. Len(stack) \in DOMAIN stack
  BY TopIsFrame DEF IInv
<1> QED
  BY <1>1 DEF IInv, AskSmaller, AllClear, Top

\* A call that takes a value goes on.
LEMMA TakeGoesOn ==
  ASSUME IInv, Asking, UNCHANGED <<prog, value, evaluated, todo>>, NEW v \in Marks,
         stack' = Replace(Take(Top, v)), errors' \in Seq(Messages),
         errors' = <<>> => errors = <<>>
  PROVE  IInv'
<1>1. Typed /\ stack # <<>> /\ Top.rest # <<>> /\ Head(Top.rest).op \in {"ref", "if"}
  BY DEF IInv, Asking
<1>2. Top \in Frames /\ Rank(prog) \in [Consts -> Consts]
  BY <1>1, TopIsFrame, RankDescends DEF Typed
<1>3. SizesOnly(Top, Rank(prog)) /\ (errors = <<>> => Clear(Top))
  BY <1>1, TopInInv
<1> DEFINE g == Take(Top, v)
<1>4. /\ g \in Frames
      /\ g.def = Top.def /\ g.phase = Top.phase /\ g.goal = Top.goal /\ g.old = Top.old
      /\ g.wait = NONE /\ SizesOnly(g, Rank(prog))
      /\ Clear(Top) => Clear(g)
  BY <1>1, <1>2, <1>3, TakeFacts
<1>5. stack' = Replace(g)
  OBVIOUS
<1> HIDE DEF g
<1> QED
  BY <1>1, <1>3, <1>4, <1>5, TopGoesOn

LEMMA ReferStep ==
  ASSUME IInv, ReferToOpen \/ ReferToEvaluated \/ ReferToIllegal \/ Resume
  PROVE  IInv'
<1>1. Typed /\ Asking
  BY DEF IInv, ReferToOpen, ReferToEvaluated, ReferToIllegal, Resume
<1>2. Asked \in Consts /\ Top \in Frames
  BY <1>1, AskedIsConst
<1>3. Top.def \in Consts /\ Top.wait \in Consts \cup {NONE}
  BY <1>2 DEF Frames
<1>4. value[Asked] \in Marks /\ NULL \in Marks /\ errors \in Seq(Messages)
  BY <1>1, <1>2 DEF Typed, Marks
<1>5. CASE ReferToOpen
  <2>1. errors' \in Seq(Messages) /\ errors' # <<>>
    BY <1>1, <1>2, <1>3, <1>5, Reported DEF MessageKinds, ReferToOpen
  <2> QED
    BY <1>1, <1>4, <1>5, <2>1, TakeGoesOn DEF ReferToOpen
<1>6. CASE ReferToEvaluated
  BY <1>1, <1>4, <1>6, TakeGoesOn DEF ReferToEvaluated
<1>7. CASE ReferToIllegal
  <2>1. errors' \in Seq(Messages) /\ errors' # <<>>
    BY <1>1, <1>2, <1>7, Reported DEF MessageKinds, ReferToIllegal
  <2> QED
    BY <1>1, <1>4, <1>7, <2>1, TakeGoesOn DEF ReferToIllegal
<1>8. CASE Resume
  <2>1. Top.wait \in Consts
    BY <1>3, <1>8 DEF Resume
  <2>2. value[Top.wait] \in Marks
    BY <1>1, <2>1 DEF Typed
  <2> QED
    BY <1>1, <1>4, <1>8, <2>2, TakeGoesOn DEF Resume
<1> QED
  BY <1>5, <1>6, <1>7, <1>8

LEMMA NothingStep ==
  ASSUME IInv, EvaluateToNothing
  PROVE  IInv'
<1>1. Typed /\ stack # <<>> /\ Top.rest # <<>>
  BY DEF IInv, EvaluateToNothing
<1>2. Top \in Frames /\ Top.def \in Consts /\ Top.rest \in Seq(Term)
  BY <1>1, TopIsFrame DEF Frames
<1>3. Head(Top.rest) = Top.rest[1] /\ 1 \in DOMAIN Top.rest
  BY <1>1, <1>2
<1>4. SizesOnly(Top, Rank(prog)) /\ (errors = <<>> => Clear(Top))
  BY <1>1, TopInInv
<1>5. Top.phase = "eval"
  <2>1. Top.rest[1].op # "ref"
    BY <1>3 DEF EvaluateToNothing
  <2> QED
    BY <1>2, <1>3, <1>4, <2>1 DEF SizesOnly, Frames
<1>6. errors' \in Seq(Messages) /\ (errors' = <<>> => errors = <<>>)
  <2>1. CASE Head(Top.rest).op = "outside"
    BY <1>1, <1>2, <2>1, Reported DEF MessageKinds, EvaluateToNothing
  <2>2. CASE Head(Top.rest).op # "outside"
    BY <1>1, <2>2 DEF EvaluateToNothing, Typed
  <2> QED
    BY <2>1, <2>2
<1> DEFINE g == [Top EXCEPT !.rest = <<>>, !.acc = NULL]
<1>7. /\ g \in Frames /\ g.def = Top.def /\ g.phase = Top.phase /\ g.goal = Top.goal
      /\ g.old = Top.old /\ g.wait = Top.wait /\ g.rest = <<>>
  <2>1. <<>> \in Seq(Term)
    OBVIOUS
  <2> QED
    BY <1>2, <2>1 DEF Frames
<1>8. stack' = Replace(g)
  BY DEF EvaluateToNothing
<1> HIDE DEF g
<1>9. SizesOnly(g, Rank(prog)) /\ Clear(g)
  BY <1>5, <1>7 DEF SizesOnly, Clear
<1> QED
  BY <1>1, <1>6, <1>7, <1>8, <1>9, TopGoesOn DEF EvaluateToNothing

\* A new call first does the types.
LEMMA NewCall ==
  ASSUME Typed, NEW c \in Consts, NEW goal \in {"types", "value"}
  PROVE  LET f == Frame(c, goal)
         IN  /\ f \in Frames /\ f.def = c /\ f.phase = "infer" /\ f.goal = goal
             /\ f.wait = NONE /\ SizesOnly(f, Rank(prog)) /\ Clear(f)
             /\ errors = <<>> => f.old = 0
<1>1. /\ Rank(prog) \in [Consts -> Consts] /\ SizesDescend(prog, Rank(prog))
      /\ prog \in [Consts -> Body] /\ Len(errors) \in Nat
  BY RankDescends DEF Typed
<1>2. prog[c].sizes \in Seq(Consts)
  BY <1>1 DEF Body
<1> DEFINE s == prog[c].sizes
<1>3. \A i \in DOMAIN s : s[i] \in Consts /\ Rank(prog)[s[i]] < Rank(prog)[c]
  BY <1>1, <1>2 DEF SizesDescend
<1>4. /\ Sizes(c) \in Seq(Term) /\ DOMAIN Sizes(c) = DOMAIN s
      /\ \A i \in DOMAIN s : Sizes(c)[i] = Ref(s[i])
  <2>1. Sizes(c) = [i \in DOMAIN s |-> Ref(s[i])]
    BY DEF Sizes
  <2>2. DOMAIN s = 1..Len(s) /\ Len(s) \in Nat
    BY <1>2
  <2> HIDE DEF s
  <2>3. \A i \in DOMAIN s : Ref(s[i]) \in Term
    BY <1>3 DEF Ref, Term
  <2>4. [i \in 1..Len(s) |-> Ref(s[i])] \in Seq(Term)
    BY <2>2, <2>3, IsASeq
  <2> QED
    BY <2>1, <2>2, <2>4
<1> HIDE DEF s
<1> DEFINE f == Frame(c, goal)
<1>5. f = [def |-> c, phase |-> "infer", goal |-> goal, rest |-> Sizes(c),
           wait |-> NONE, acc |-> NULL, old |-> Len(errors)]
  BY DEF Frame
<1>6. f \in Frames
  BY <1>1, <1>4, <1>5 DEF Frames
<1>7. \A i \in DOMAIN s : Ref(s[i]).op = "ref" /\ Ref(s[i]).of = s[i]
  BY DEF Ref
<1>8. SizesOnly(f, Rank(prog))
  BY <1>3, <1>4, <1>5, <1>7 DEF SizesOnly
<1>9. errors = <<>> => Len(errors) = 0
  OBVIOUS
<1> QED
  BY <1>5, <1>6, <1>8, <1>9 DEF Clear

\* The first call
LEMMA FirstCall ==
  ASSUME IInv, UNCHANGED <<prog, value, evaluated, errors>>, todo' \in Seq(Visits),
         stack = <<>>, NEW f \in Frames, stack' = <<f>>, f.phase = "infer", f.wait = NONE,
         SizesOnly(f, Rank(prog)), Clear(f), errors = <<>> => f.old = 0, AllPlanned'
  PROVE  IInv'
<1>1. stack' \in Seq(Frames) /\ DOMAIN stack' = {1} /\ stack'[1] = f /\ Len(stack') = 1
  OBVIOUS
<1>2. Rank(prog)' = Rank(prog)
  BY DEF Rank, SizesDescend
<1>3. Top' = f
  BY <1>1 DEF Top
<1>4. \A c \in Consts : value[c] # REC
  BY DEF IInv, MarksAreCalls
<1>5. Typed' /\ AskSmaller'
  BY <1>1, <1>2 DEF IInv, Typed, AskSmaller
<1>6. Marked' /\ MarksAreCalls'
  BY <1>1, <1>4 DEF Marked, MarksAreCalls
<1>7. Descends' /\ CallsWait'
  BY <1>1 DEF Descends, CallsWait
<1>8. AllClear'
  BY <1>1, <1>3 DEF IInv, AllClear
<1> QED
  BY <1>5, <1>6, <1>7, <1>8 DEF IInv

\* What is still to visit
LEMMA Visited ==
  ASSUME Typed, todo # <<>>, todo' = Tail(todo)
  PROVE  /\ todo' \in Seq(Visits) /\ Head(todo)[1] \in {"types", "values"}
         /\ Head(todo)[2] \in Consts
         /\ \A v : v # Head(todo) /\ (\E i \in DOMAIN todo : todo[i] = v)
                     => \E i \in DOMAIN todo' : todo'[i] = v
<1>1. /\ Head(todo) \in Visits /\ todo' \in Seq(Visits) /\ Len(todo') = Len(todo) - 1
      /\ \A i \in 1..Len(todo') : todo'[i] = todo[i + 1]
  BY HeadTailProperties DEF Typed
<1>2. /\ DOMAIN todo = 1..Len(todo) /\ DOMAIN todo' = 1..Len(todo') /\ Len(todo) \in Nat
      /\ Head(todo) = todo[1]
  BY <1>1 DEF Typed
<1>3. ASSUME NEW v, v # Head(todo), NEW i \in DOMAIN todo, todo[i] = v
      PROVE  \E k \in DOMAIN todo' : todo'[k] = v
  <2>1. i # 1 /\ i - 1 \in 1..Len(todo') /\ i - 1 + 1 = i
    BY <1>1, <1>2, <1>3
  <2> QED
    BY <1>1, <1>2, <1>3, <2>1
<1>4. Head(todo)[1] \in {"types", "values"} /\ Head(todo)[2] \in Consts
  BY <1>1 DEF Visits
<1> QED
  BY <1>1, <1>3, <1>4

\* A visit that needs no call
LEMMA Unopened ==
  ASSUME IInv, UNCHANGED <<prog, value, evaluated, stack>>, todo' \in Seq(Visits),
         errors' \in Seq(Messages), stack = <<>>, errors' = <<>> => errors = <<>>, AllPlanned'
  PROVE  IInv'
<1>1. DOMAIN stack = {} /\ stack' = stack
  OBVIOUS
<1>2. Typed' /\ AskSmaller' /\ Marked' /\ MarksAreCalls' /\ Descends' /\ CallsWait'
  BY <1>1 DEF IInv, Typed, AskSmaller, Marked, MarksAreCalls, Descends, CallsWait
<1>3. AllClear'
  BY <1>1 DEF IInv, AllClear
<1> QED
  BY <1>2, <1>3 DEF IInv

LEMMA TypesStep ==
  ASSUME IInv, VisitForTypes
  PROVE  IInv'
<1>1. Typed /\ todo # <<>> /\ todo' = Tail(todo) /\ Head(todo)[1] = "types"
  BY DEF IInv, VisitForTypes
<1>2. /\ todo' \in Seq(Visits) /\ Head(todo)[2] \in Consts
      /\ \A v : v # Head(todo) /\ (\E i \in DOMAIN todo : todo[i] = v)
                  => \E i \in DOMAIN todo' : todo'[i] = v
  BY <1>1, Visited
<1> DEFINE f == Frame(Head(todo)[2], "types")
<1>3. /\ f \in Frames /\ f.phase = "infer" /\ f.wait = NONE /\ SizesOnly(f, Rank(prog))
      /\ Clear(f) /\ (errors = <<>> => f.old = 0)
  BY <1>1, <1>2, NewCall
<1>4. /\ UNCHANGED <<prog, value, evaluated, errors>> /\ stack = <<>> /\ stack' = <<f>>
  BY DEF VisitForTypes
<1> HIDE DEF f
<1>5. AllPlanned'
  <2>1. \A c \in Consts : <<"values", c>> # Head(todo)
    BY <1>1
  <2>2. ASSUME NEW c \in Consts, Planned(c)
        PROVE  evaluated[c] \/ \E i \in DOMAIN todo' : todo'[i] = <<"values", c>>
    BY <1>2, <1>4, <2>1, <2>2 DEF Planned
  <2> QED
    BY <1>4, <2>2 DEF IInv, AllPlanned, Planned
<1> QED
  BY <1>2, <1>3, <1>4, <1>5, FirstCall

LEMMA ValueStep ==
  ASSUME IInv, VisitForValue
  PROVE  IInv'
<1> DEFINE c == Head(todo)[2]
<1>1. Typed /\ todo # <<>> /\ todo' = Tail(todo) /\ Head(todo)[1] = "values" /\ stack = <<>>
  BY DEF IInv, VisitForValue
<1>2. /\ todo' \in Seq(Visits) /\ c \in Consts
      /\ \A v : v # Head(todo) /\ (\E i \in DOMAIN todo : todo[i] = v)
                  => \E i \in DOMAIN todo' : todo'[i] = v
  BY <1>1, Visited
<1>3. \A d \in Consts : d # c => <<"values", d>> # Head(todo)
  OBVIOUS
<1>4. ASSUME NEW d \in Consts, d # c, Planned(d)
      PROVE  evaluated[d] \/ \E i \in DOMAIN todo' : todo'[i] = <<"values", d>>
  BY <1>1, <1>2, <1>3, <1>4 DEF Planned
<1>5. prog' = prog /\ value' = value /\ evaluated' = evaluated
  BY DEF VisitForValue
<1>6. CASE evaluated[c] /\ UNCHANGED <<errors, stack>>
  <2>1. AllPlanned'
    BY <1>4, <1>5, <1>6 DEF IInv, AllPlanned, Planned
  <2> QED
    BY <1>1, <1>2, <1>5, <1>6, <2>1, Unopened DEF Typed
<1>7. CASE ~ evaluated[c] /\ Report("illegal", c, c) /\ UNCHANGED stack
  <2>1. errors' \in Seq(Messages) /\ errors' # <<>>
    BY <1>1, <1>2, <1>7, Reported DEF MessageKinds
  <2> QED
    BY <1>1, <1>2, <1>5, <1>7, <2>1, Unopened DEF AllPlanned
<1>8. CASE ~ evaluated[c] /\ stack' = <<Frame(c, "value")>> /\ UNCHANGED errors
  <2> DEFINE f == Frame(c, "value")
  <2>1. /\ f \in Frames /\ f.def = c /\ f.phase = "infer" /\ f.goal = "value"
        /\ f.wait = NONE /\ SizesOnly(f, Rank(prog))
        /\ Clear(f) /\ (errors = <<>> => f.old = 0)
    BY <1>1, <1>2, NewCall
  <2>2. stack' = <<f>> /\ errors' = errors
    BY <1>8
  <2> HIDE DEF f
  <2>3. AllPlanned'
    BY <1>4, <1>5, <2>1, <2>2 DEF IInv, AllPlanned, Planned
  <2> QED
    BY <1>1, <1>2, <1>5, <2>1, <2>2, <2>3, FirstCall
<1> QED
  BY <1>6, <1>7, <1>8 DEF VisitForValue

\* Asking a constant that has yet to be evaluated
LEMMA NewStep ==
  ASSUME IInv, ReferToNew
  PROVE  IInv'
<1>1. Typed /\ Asking /\ stack # <<>>
  BY DEF IInv, ReferToNew, Asking
<1>2. Asked \in Consts /\ Top \in Frames /\ Top.rest # <<>>
  BY <1>1, AskedIsConst DEF Asking
<1> DEFINE n == Len(stack)
           f == Frame(Asked, "value")
           g == [Top EXCEPT !.wait = Asked]
<1>3. /\ f \in Frames /\ f.def = Asked /\ f.phase = "infer" /\ f.goal = "value"
      /\ f.wait = NONE /\ SizesOnly(f, Rank(prog)) /\ Clear(f)
      /\ errors = <<>> => f.old = 0
  BY <1>1, <1>2, NewCall
<1>4. /\ g \in Frames /\ g.def = Top.def /\ g.phase = Top.phase /\ g.goal = Top.goal
      /\ g.old = Top.old /\ g.wait = Asked /\ g.rest = Top.rest /\ g.acc = Top.acc
  BY <1>2 DEF Frames
<1>5. n \in Nat \ {0} /\ DOMAIN stack = 1..n /\ stack \in Seq(Frames) /\ Top = stack[n]
  BY <1>1, TopIsFrame DEF Typed, Top
<1>6. /\ UNCHANGED <<prog, value, evaluated, errors, todo>>
      /\ stack' = Append(Replace(g), f) /\ value[Asked] # REC
  BY DEF ReferToNew
<1> HIDE DEF f, g
<1>7. /\ Replace(g) \in Seq(Frames) /\ Len(Replace(g)) = n
      /\ \A k \in 1..n : Replace(g)[k] = IF k = n THEN g ELSE stack[k]
  BY <1>4, <1>5, ExceptSeq DEF Replace
<1>8. /\ stack' \in Seq(Frames) /\ DOMAIN stack' = 1..(n + 1) /\ Len(stack') = n + 1
      /\ stack'[n + 1] = f /\ stack'[n] = g
      /\ \A k \in 1..n : stack'[k] = IF k = n THEN g ELSE stack[k]
  <2> DEFINE t == Replace(g)
  <2>1. stack' = Append(t, f) /\ t \in Seq(Frames) /\ Len(t) = n
    BY <1>6, <1>7
  <2> HIDE DEF t
  <2>2. /\ stack' \in Seq(Frames) /\ Len(stack') = Len(t) + 1
        /\ \A i \in 1..Len(t) : stack'[i] = t[i]
        /\ stack'[Len(t) + 1] = f
    BY <1>3, <2>1, AppendProperties
  <2>3. DOMAIN stack' = 1..Len(stack')
    BY <2>2, LenProperties
  <2> HIDE DEF n
  <2> QED
    BY <1>5, <1>7, <2>1, <2>2, <2>3 DEF t
<1> HIDE DEF n
<1>9. \A k \in 1..n : /\ stack'[k].def = stack[k].def /\ stack'[k].phase = stack[k].phase
                      /\ stack'[k].goal = stack[k].goal /\ stack'[k].old = stack[k].old
                      /\ stack'[k].rest = stack[k].rest /\ stack'[k].acc = stack[k].acc
  BY <1>4, <1>5, <1>8
<1>10. Rank(prog)' = Rank(prog) /\ stack' # <<>> /\ Top' = f
  <2>1. Rank(prog)' = Rank(prog)
    BY <1>6 DEF Rank, SizesDescend
  <2>2. Top' = f
    BY <1>8 DEF Top
  <2>3. 1 \in DOMAIN stack'
    BY <1>5, <1>8
  <2> QED
    BY <2>1, <2>2, <2>3
<1>11. \A k \in 1..(n + 1) : k \in 1..n \/ k = n + 1
  BY <1>5
<1>12. Typed'
  BY <1>6, <1>8 DEF IInv, Typed
<1>13. AskSmaller'
  <2>1. \A k \in 1..n : SizesOnly(stack'[k], Rank(prog))
    BY <1>5, <1>9 DEF IInv, AskSmaller, SizesOnly
  <2> QED
    BY <1>3, <1>8, <1>10, <1>11, <2>1 DEF AskSmaller
<1>14. Marked'
  <2>1. \A k \in 1..n : stack[k].phase = "eval" =>
          /\ value[stack[k].def] = REC /\ stack[k].def # Asked
          /\ \A j \in 1..n : k < j => stack[j].def # stack[k].def
    BY <1>5, <1>6 DEF IInv, Marked
  <2> QED
    BY <1>3, <1>6, <1>8, <1>9, <1>11, <2>1 DEF Marked
<1>15. MarksAreCalls'
  <2>1. \A k \in 1..n : k \in 1..(n + 1)
    BY <1>5
  <2> QED
    BY <1>5, <1>6, <1>8, <1>9, <2>1 DEF IInv, MarksAreCalls
<1>16. Descends'
  <2> DEFINE r == Rank(prog)
  <2> SUFFICES ASSUME NEW i \in 1..(n + 1), NEW j \in 1..(n + 1), i < j
               PROVE  \/ \E k \in i..(j - 1) : stack'[k].phase = "eval"
                      \/ r[stack'[j].def] < r[stack'[i].def]
    BY <1>8, <1>10 DEF Descends
  <2>1. i \in 1..n /\ \A k \in i..(j - 1) : k \in 1..n
    BY <1>5
  <2>2. CASE j \in 1..n
    BY <1>5, <1>9, <2>1, <2>2 DEF IInv, Descends
  <2>3. CASE j = n + 1
    <3>1. n \in i..(j - 1) /\ n \in 1..n
      BY <1>5, <2>1, <2>3
    <3>2. CASE Top.phase = "eval"
      BY <1>5, <1>9, <3>1, <3>2
    <3>3. CASE Top.phase = "infer"
      <4>1. r \in [Consts -> Consts]
        BY <1>1, RankDescends DEF Typed
      <4>2. Top.rest \in Seq(Term)
        BY <1>2 DEF Frames
      <4>3. 1 \in DOMAIN Top.rest /\ Asked = Top.rest[1].of
        BY <1>2, <4>2 DEF Asked
      <4>4. r[Asked] < r[Top.def]
        BY <1>1, <3>3, <4>3, TopInInv DEF SizesOnly
      <4>5. r[Asked] \in Nat /\ r[Top.def] \in Nat /\ r[stack[i].def] \in Nat
        <5>1. stack[i].def \in Consts /\ Top.def \in Consts
          BY <1>1, <1>2, <2>1, TopIsFrame DEF Frames, n
        <5>2. Consts \subseteq Nat
          BY DEF Consts
        <5> HIDE DEF r
        <5> QED
          BY <1>2, <4>1, <5>1, <5>2
      <4>6. i = n \/ (\E k \in i..(n - 1) : stack[k].phase = "eval") \/ r[Top.def] < r[stack[i].def]
        BY <1>5, <2>1 DEF IInv, Descends
      <4>7. \A k \in i..(n - 1) : k \in i..(j - 1)
        BY <1>5, <2>1, <2>3
      <4>8. stack'[i].def = stack[i].def /\ stack'[j].def = Asked
        BY <1>3, <1>8, <1>9, <2>1, <2>3
      <4>9. CASE \E k \in i..(n - 1) : stack[k].phase = "eval"
        BY <1>9, <2>1, <4>7, <4>9
      <4>10. CASE i = n \/ r[Top.def] < r[stack[i].def]
        <5>1. r[Asked] < r[stack[i].def]
          <6> HIDE DEF r
          <6> QED
            BY <1>5, <4>4, <4>5, <4>10
        <5> QED
          BY <4>8, <5>1
      <4> QED
        BY <4>6, <4>9, <4>10
    <3> QED
      BY <1>2, <3>2, <3>3 DEF Frames
  <2> QED
    BY <1>11, <2>2, <2>3
<1>17. CallsWait'
  <2> SUFFICES ASSUME NEW k \in 1..(n + 1), k > 1
               PROVE  stack'[k].goal = "value" /\ stack'[k - 1].wait = stack'[k].def
    BY <1>8 DEF CallsWait
  <2>1. CASE k \in 1..n
    <3>1. k - 1 \in 1..n /\ k - 1 # n
      BY <1>5, <2>1
    <3> QED
      BY <1>5, <1>8, <1>9, <2>1, <3>1 DEF IInv, CallsWait
  <2>2. CASE k = n + 1
    BY <1>3, <1>4, <1>5, <1>8, <2>2
  <2> QED
    BY <1>11, <2>1, <2>2
<1>18. AllClear'
  <2>1. ASSUME errors = <<>>, NEW k \in 1..n
        PROVE  stack'[k].old = 0 /\ Clear(stack'[k])
    BY <1>5, <1>9, <2>1 DEF IInv, AllClear, Clear
  <2> QED
    BY <1>3, <1>6, <1>8, <1>10, <1>11, <2>1 DEF IInv, AllClear
<1>19. AllPlanned'
  <2>1. 1 \in 1..n /\ stack'[1].def = stack[1].def /\ stack'[1].goal = stack[1].goal
    BY <1>5, <1>9
  <2> QED
    BY <1>6, <1>10, <2>1 DEF IInv, AllPlanned, Planned
<1> QED
  BY <1>12, <1>13, <1>14, <1>15, <1>16, <1>17, <1>18, <1>19 DEF IInv

\* A call that ends leaves the others as they are.
LEMMA CallEnds ==
  ASSUME IInv, UNCHANGED <<prog, todo>>, stack # <<>>, stack' = Pop,
         value' \in [Consts -> Marks], evaluated' \in [Consts -> BOOLEAN],
         errors' \in Seq(Messages), errors' = <<>> => errors = <<>>,
         \/ Top.phase = "infer" /\ value' = value
         \/ /\ Top.phase = "eval" /\ value'[Top.def] # REC
            /\ \A c \in Consts : c # Top.def => value'[c] = value[c],
         errors' = <<>> =>
           /\ \A c \in Consts : evaluated[c] => evaluated'[c]
           /\ Len(stack) > 1 \/ Top.goal = "value" => evaluated'[Top.def]
  PROVE  IInv'
<1> DEFINE n == Len(stack)
<1>1. Typed
  BY DEF IInv
<1>2. /\ n \in Nat \ {0} /\ DOMAIN stack = 1..n /\ Top = stack[n] /\ Top \in Frames
      /\ \A k \in 1..n : stack[k] \in Frames
  BY <1>1, TopIsFrame DEF Top
<1>3. /\ stack' \in Seq(Frames) /\ Len(stack') = n - 1 /\ DOMAIN stack' = 1..(n - 1)
      /\ \A k \in 1..(n - 1) : stack'[k] = stack[k]
      /\ stack' = <<>> <=> n = 1
  BY <1>1, Popped
<1>4. prog' = prog /\ todo' = todo
  OBVIOUS
<1>5. errors' = <<>> /\ (n > 1 \/ Top.goal = "value") => evaluated'[Top.def]
  OBVIOUS
<1> HIDE DEF n
<1>6. \A k \in 1..(n - 1) : k \in 1..n /\ k < n
  BY <1>2
<1>7. Rank(prog)' = Rank(prog)
  BY <1>4 DEF Rank, SizesDescend
<1>8. \A k \in 1..(n - 1) : stack[k].phase = "eval" =>
        stack[k].def # Top.def /\ value'[stack[k].def] = value[stack[k].def]
  <2> TAKE k \in 1..(n - 1)
  <2> HAVE stack[k].phase = "eval"
  <2>1. k \in 1..n /\ n \in 1..n /\ k < n
    BY <1>2, <1>6
  <2>2. stack[k].def # Top.def
    BY <1>2, <2>1 DEF IInv, Marked
  <2>3. stack[k].def \in Consts
    BY <1>2, <2>1 DEF Frames
  <2> QED
    BY <2>2, <2>3
<1>9. Typed'
  BY <1>1, <1>3 DEF Typed
<1>10. AskSmaller'
  BY <1>2, <1>3, <1>6, <1>7 DEF IInv, AskSmaller
<1>11. Marked'
  BY <1>2, <1>3, <1>6, <1>8 DEF IInv, Marked
<1>12. MarksAreCalls'
  <2> SUFFICES ASSUME NEW c \in Consts, value'[c] = REC
               PROVE  \E k \in 1..(n - 1) : stack[k].phase = "eval" /\ stack[k].def = c
    BY <1>3 DEF MarksAreCalls
  <2>1. value[c] = REC /\ (Top.phase = "infer" \/ c # Top.def)
    OBVIOUS
  <2>2. PICK k \in 1..n : stack[k].phase = "eval" /\ stack[k].def = c
    BY <1>2, <2>1 DEF IInv, MarksAreCalls
  <2>3. k # n
    BY <1>2, <2>1, <2>2
  <2> QED
    BY <1>2, <2>2, <2>3
<1>13. Descends'
  <2> SUFFICES ASSUME NEW i \in 1..(n - 1), NEW j \in 1..(n - 1), i < j
               PROVE  \/ \E k \in i..(j - 1) : stack'[k].phase = "eval"
                      \/ Rank(prog)[stack'[j].def] < Rank(prog)[stack'[i].def]
    BY <1>3, <1>7 DEF Descends
  <2>1. \A k \in i..(j - 1) : k \in 1..(n - 1)
    BY <1>2
  <2>2. \/ \E k \in i..(j - 1) : stack[k].phase = "eval"
        \/ Rank(prog)[stack[j].def] < Rank(prog)[stack[i].def]
    BY <1>2, <1>6 DEF IInv, Descends
  <2> QED
    BY <1>3, <2>1, <2>2
<1>14. CallsWait'
  <2> SUFFICES ASSUME NEW k \in 1..(n - 1), k > 1
               PROVE  stack[k].goal = "value" /\ stack'[k - 1].wait = stack[k].def
    BY <1>3 DEF CallsWait
  <2>1. k - 1 \in 1..(n - 1)
    BY <1>2
  <2> QED
    BY <1>2, <1>3, <1>6, <2>1 DEF IInv, CallsWait
<1>15. AllClear'
  <2> SUFFICES ASSUME errors' = <<>>
               PROVE  /\ \A k \in 1..(n - 1) : stack[k].old = 0 /\ Clear(stack[k])
                      /\ n # 1 => evaluated'[Top'.wait]
    BY <1>3 DEF AllClear
  <2>1. \A k \in 1..(n - 1) : stack[k].old = 0 /\ Clear(stack[k])
    BY <1>2, <1>6 DEF IInv, AllClear
  <2>2. ASSUME n # 1
        PROVE  evaluated'[Top'.wait]
    <3>1. n > 1 /\ n \in 1..n /\ n - 1 \in 1..(n - 1)
      BY <1>2, <2>2
    <3>2. Top' = stack[n - 1]
      BY <1>3, <3>1 DEF Top
    <3>3. Top'.wait = Top.def
      BY <1>2, <3>1, <3>2 DEF IInv, CallsWait
    <3> QED
      BY <1>5, <3>1, <3>3
  <2> QED
    BY <2>1, <2>2
<1>16. AllPlanned'
  <2> SUFFICES ASSUME errors' = <<>>, NEW c \in Consts
               PROVE  Planned(c)'
    BY DEF AllPlanned
  <2>1. Planned(c) /\ (evaluated[c] => evaluated'[c])
    BY DEF IInv, AllPlanned
  <2>2. CASE n = 1
    BY <1>2, <1>4, <1>5, <2>1, <2>2 DEF Planned
  <2>3. CASE n # 1
    <3>1. 1 \in 1..(n - 1)
      BY <1>2, <2>3
    <3> QED
      BY <1>3, <1>4, <2>1, <2>3, <3>1 DEF Planned
  <2> QED
    BY <2>2, <2>3
<1> QED
  BY <1>9, <1>10, <1>11, <1>12, <1>13, <1>14, <1>15, <1>16 DEF IInv

\* The types of a definition are done and its value is evaluated now.
LEMMA EvaluationBegins ==
  ASSUME IInv, UNCHANGED <<prog, evaluated, todo>>, stack # <<>>, Top.phase = "infer",
         value' = [value EXCEPT ![Top.def] = REC], stack' = Replace(Evaluating(Top)),
         errors' \in Seq(Messages),
         errors' = <<>> => errors = <<>> /\ ~ Has(Top.def, "mismatch")
  PROVE  IInv'
<1> DEFINE n == Len(stack)
           g == Evaluating(Top)
<1>1. Typed /\ prog \in [Consts -> Body]
  BY RankDescends DEF IInv, Typed
<1>2. /\ n \in Nat \ {0} /\ DOMAIN stack = 1..n /\ Top = stack[n] /\ Top \in Frames
      /\ Top.def \in Consts
  BY <1>1, TopIsFrame DEF Top, Frames
<1>3. /\ g \in Frames /\ g.def = Top.def /\ g.phase = "eval" /\ g.goal = Top.goal
      /\ g.old = Top.old /\ g.wait = Top.wait /\ g.rest = prog[Top.def].terms /\ g.acc = 1
  <2>1. prog[Top.def].terms \in Seq(Term)
    BY <1>1, <1>2 DEF Body
  <2> QED
    BY <1>2, <2>1 DEF Evaluating, Terms, Frames, Values
<1> HIDE DEF g
<1>4. /\ stack' \in Seq(Frames) /\ stack' # <<>>
      /\ DOMAIN stack' = DOMAIN stack /\ Top' = g
      /\ \A k \in DOMAIN stack : stack'[k] = IF k = n THEN g ELSE stack[k]
  BY <1>1, <1>3, Replaced DEF g
<1> HIDE DEF n
<1>5. \A k \in 1..n :
        /\ stack'[k].def = stack[k].def /\ stack'[k].goal = stack[k].goal
        /\ stack'[k].old = stack[k].old /\ stack'[k].wait = stack[k].wait
        /\ stack'[k].phase = "eval" <=> k = n \/ stack[k].phase = "eval"
  BY <1>2, <1>3, <1>4
<1>6. prog' = prog /\ evaluated' = evaluated /\ todo' = todo /\ Rank(prog)' = Rank(prog)
  BY DEF Rank, SizesDescend
<1>7. value' \in [Consts -> Marks] /\ value'[Top.def] = REC
      /\ \A c \in Consts : value'[c] = IF c = Top.def THEN REC ELSE value[c]
  BY <1>1, <1>2 DEF Typed, Marks
<1>8. Typed'
  BY <1>1, <1>4, <1>7 DEF Typed
<1>9. AskSmaller'
  <2>1. SizesOnly(g, Rank(prog))
    BY <1>3 DEF SizesOnly
  <2>2. \A k \in 1..n : SizesOnly(stack'[k], Rank(prog))
    BY <1>2, <1>4, <2>1 DEF IInv, AskSmaller
  <2> QED
    BY <1>2, <1>4, <1>6, <2>2 DEF AskSmaller
<1>10. Marked'
  <2> SUFFICES ASSUME NEW k \in 1..n, k = n \/ stack[k].phase = "eval"
               PROVE  /\ value'[stack[k].def] = REC
                      /\ \A j \in 1..n : k < j => stack[j].def # stack[k].def
    BY <1>2, <1>4, <1>5 DEF Marked
  <2>1. CASE k = n
    BY <1>2, <1>7, <2>1
  <2>2. CASE stack[k].phase = "eval"
    <3>1. /\ value[stack[k].def] = REC
          /\ \A j \in 1..n : k < j => stack[j].def # stack[k].def
      BY <1>2, <2>2 DEF IInv, Marked
    <3>2. stack[k].def \in Consts
      BY <1>1, TopIsFrame DEF Frames, n
    <3> QED
      BY <1>7, <3>1, <3>2
  <2> QED
    BY <2>1, <2>2
<1>11. MarksAreCalls'
  <2> SUFFICES ASSUME NEW c \in Consts, value'[c] = REC
               PROVE  \E k \in 1..n : (k = n \/ stack[k].phase = "eval") /\ stack[k].def = c
    BY <1>2, <1>4, <1>5 DEF MarksAreCalls
  <2>1. CASE c = Top.def
    BY <1>2, <2>1
  <2>2. CASE value[c] = REC
    BY <1>2, <2>2 DEF IInv, MarksAreCalls
  <2> QED
    BY <1>7, <2>1, <2>2
<1>12. Descends'
  <2> SUFFICES ASSUME NEW i \in 1..n, NEW j \in 1..n, i < j
               PROVE  \/ \E k \in i..(j - 1) : stack'[k].phase = "eval"
                      \/ Rank(prog)[stack'[j].def] < Rank(prog)[stack'[i].def]
    BY <1>2, <1>4, <1>6 DEF Descends
  <2>1. \A k \in i..(j - 1) : k \in 1..n
    BY <1>2
  <2>2. \/ \E k \in i..(j - 1) : stack[k].phase = "eval"
        \/ Rank(prog)[stack[j].def] < Rank(prog)[stack[i].def]
    BY <1>2 DEF IInv, Descends
  <2> QED
    BY <1>5, <2>1, <2>2
<1>13. CallsWait'
  <2> SUFFICES ASSUME NEW k \in 1..n, k > 1
               PROVE  stack'[k].goal = "value" /\ stack'[k - 1].wait = stack'[k].def
    BY <1>2, <1>4 DEF CallsWait
  <2>1. k - 1 \in 1..n
    BY <1>2
  <2>2. stack[k].goal = "value" /\ stack[k - 1].wait = stack[k].def
    BY <1>2 DEF IInv, CallsWait
  <2> QED
    BY <1>5, <2>1, <2>2
<1>14. AllClear'
  <2> SUFFICES ASSUME errors' = <<>>
               PROVE  /\ \A k \in 1..n : stack'[k].old = 0 /\ Clear(stack'[k])
                      /\ g.wait # NONE => evaluated[g.wait]
    BY <1>2, <1>4, <1>6 DEF AllClear
  <2>1. errors = <<>> /\ ~ Has(Top.def, "mismatch")
    OBVIOUS
  <2>2. /\ \A k \in 1..n : stack[k].old = 0 /\ Clear(stack[k])
        /\ Top.wait # NONE => evaluated[Top.wait]
    BY <1>2, <2>1 DEF IInv, AllClear
  <2>3. Clear(g)
    BY <1>3, <2>1 DEF Clear, Has
  <2>4. \A k \in 1..n : Clear(stack'[k])
    BY <1>2, <1>4, <2>2, <2>3
  <2> QED
    BY <1>3, <1>5, <2>2, <2>4
<1>15. AllPlanned'
  <2>1. 1 \in 1..n /\ stack'[1].def = stack[1].def /\ stack'[1].goal = stack[1].goal
    BY <1>2, <1>5
  <2> QED
    BY <1>4, <1>6, <2>1 DEF IInv, AllPlanned, Planned
<1> QED
  BY <1>8, <1>9, <1>10, <1>11, <1>12, <1>13, <1>14, <1>15 DEF IInv

LEMMA EndInferStep ==
  ASSUME IInv, EndInfer
  PROVE  IInv'
<1>1. Typed /\ stack # <<>> /\ Top.phase = "infer"
  BY DEF IInv, EndInfer
<1>2. Top \in Frames /\ Top.def \in Consts /\ Len(stack) \in Nat \ {0}
  BY <1>1, TopIsFrame DEF Frames
<1>3. /\ errors' \in Seq(Messages)
      /\ errors' = <<>> => errors = <<>> /\ ~ Has(Top.def, "mismatch")
  <2>1. CASE errors = <<>> /\ Has(Top.def, "mismatch")
    <3> DEFINE m == <<"mismatch", Top.def, Top.def>>
    <3>1. m \in Messages /\ errors' = <<m>>
      BY <1>2, <2>1 DEF EndInfer, ErrorsAfterChecks, Messages, MessageKinds
    <3> HIDE DEF m
    <3> QED
      BY <3>1
  <2>2. CASE ~ (errors = <<>> /\ Has(Top.def, "mismatch"))
    BY <1>1, <2>2 DEF EndInfer, ErrorsAfterChecks, Typed
  <2> QED
    BY <2>1, <2>2
<1>4. prog' = prog /\ evaluated' = evaluated /\ todo' = todo
  BY DEF EndInfer
<1>5. CASE Top.goal = "value" /\ Len(errors') = Top.old
  BY <1>1, <1>3, <1>4, <1>5, EvaluationBegins DEF EndInfer
<1>6. CASE ~ (Top.goal = "value" /\ Len(errors') = Top.old)
  <2>1. stack' = Pop /\ value' = value
    BY <1>6 DEF EndInfer
  <2>2. errors' = <<>> => Top.goal # "value" /\ ~ Len(stack) > 1
    <3> SUFFICES ASSUME errors' = <<>>
                 PROVE  Top.goal # "value" /\ ~ Len(stack) > 1
      OBVIOUS
    <3>1. Top.old = 0
      BY <1>1, <1>3, TopInInv
    <3>2. Len(errors') = 0
      OBVIOUS
    <3>3. Top.goal # "value"
      BY <1>6, <3>1, <3>2
    <3>4. Len(stack) > 1 => Top.goal = "value"
      BY <1>1, <1>2, TopIsFrame DEF IInv, CallsWait, Top
    <3> QED
      BY <3>3, <3>4
  <2> QED
    BY <1>1, <1>3, <1>4, <2>1, <2>2, CallEnds DEF Typed
<1> QED
  BY <1>5, <1>6

LEMMA EndEvalStep ==
  ASSUME IInv, EndEval
  PROVE  IInv'
<1>1. Typed /\ stack # <<>> /\ Top.phase = "eval"
  BY DEF IInv, EndEval
<1>2. Top \in Frames /\ Top.def \in Consts /\ Top.acc \in Values \cup {NULL}
  BY <1>1, TopIsFrame DEF Frames
<1>3. Top.acc \in Marks /\ Top.acc # REC
  BY <1>2 DEF Marks, Values, NULL, REC
<1>4. /\ value' \in [Consts -> Marks] /\ evaluated' \in [Consts -> BOOLEAN]
      /\ value'[Top.def] = Top.acc /\ evaluated'[Top.def]
      /\ \A c \in Consts : c # Top.def => value'[c] = value[c] /\ evaluated'[c] = evaluated[c]
  BY <1>1, <1>2, <1>3 DEF EndEval, Typed
<1>5. /\ prog' = prog /\ errors' = errors /\ todo' = todo /\ stack' = Pop
      /\ errors \in Seq(Messages)
  BY <1>1 DEF EndEval, Typed
<1>6. \A c \in Consts : evaluated[c] => evaluated'[c]
  BY <1>4
<1> QED
  BY <1>1, <1>3, <1>4, <1>5, <1>6, CallEnds

-----------------------------------------------------------------------------
(***************************************************************************)
(* The invariants.                                                         *)
(***************************************************************************)
LEMMA IInvInit ==
  ASSUME Init
  PROVE  IInv
<1> DEFINE types == [c \in Consts |-> <<"types", c>>]
           values == [c \in Consts |-> <<"values", c>>]
<1>1. N \in Nat /\ Consts = 1..N
  BY ProgramsAssumption DEF Consts
<1>2. /\ types \in Seq(Visits) /\ values \in Seq(Visits)
      /\ Len(types) = N /\ Len(values) = N
  <2>1. \A c \in Consts : <<"types", c>> \in Visits /\ <<"values", c>> \in Visits
    BY DEF Visits
  <2>2. types \in [1..N -> Visits] /\ values \in [1..N -> Visits]
    BY <1>1, <2>1
  <2> HIDE DEF types, values
  <2>3. types \in Seq(Visits) /\ values \in Seq(Visits)
    BY <1>1, <2>2, SeqDef
  <2>4. Len(types) \in Nat /\ Len(values) \in Nat
        /\ DOMAIN types = 1..Len(types) /\ DOMAIN values = 1..Len(values)
    BY <2>3, LenProperties
  <2>5. DOMAIN types = 1..N /\ DOMAIN values = 1..N
    BY <2>2
  <2>6. \A m \in Nat : 1..m = 1..N => m = N
    BY <1>1
  <2> QED
    BY <2>3, <2>4, <2>5, <2>6
<1>3. \A c \in Consts : values[c] = <<"values", c>>
  OBVIOUS
<1>4. todo = types \o values
  BY DEF Init
<1> HIDE DEF types, values
<1>5. /\ todo \in Seq(Visits) /\ Len(todo) = N + N
      /\ \A i \in 1..(N + N) : todo[i] = IF i <= N THEN types[i] ELSE values[i - N]
  <2>1. /\ types \o values \in Seq(Visits)
        /\ Len(types \o values) = Len(types) + Len(values)
        /\ \A i \in 1..(Len(types) + Len(values)) :
             (types \o values)[i] = IF i <= Len(types) THEN types[i] ELSE values[i - Len(types)]
    BY <1>2, ConcatProperties
  <2> QED
    BY <1>2, <1>4, <2>1
<1>6. DOMAIN todo = 1..(N + N)
  BY <1>5, LenProperties
<1>7. ASSUME NEW c \in Consts PROVE Planned(c)
  <2> DEFINE i == c + N
  <2>1. i \in 1..(N + N) /\ ~ i <= N /\ i - N = c
    BY <1>1
  <2> HIDE DEF i
  <2>2. todo[i] = values[c]
    BY <1>5, <2>1
  <2>3. todo[i] = <<"values", c>>
    BY <1>3, <2>2
  <2> QED
    BY <1>6, <2>1, <2>3 DEF Planned
<1>8. /\ prog \in Programs /\ errors = <<>> /\ stack = <<>>
      /\ value = [c \in Consts |-> NULL] /\ evaluated = [c \in Consts |-> FALSE]
  BY DEF Init
<1>9. Typed
  BY <1>5, <1>8 DEF Typed, Marks
<1>10. AskSmaller /\ Marked /\ Descends /\ CallsWait
  BY <1>8 DEF AskSmaller, Marked, Descends, CallsWait
<1>11. MarksAreCalls
  BY <1>8 DEF MarksAreCalls, NULL, REC
<1>12. AllClear /\ AllPlanned
  BY <1>7, <1>8 DEF AllClear, AllPlanned
<1> QED
  BY <1>9, <1>10, <1>11, <1>12 DEF IInv

LEMMA IInvNext ==
  ASSUME IInv, [Next]_vars
  PROVE  IInv'
<1>1. CASE Next
  <2>1. CASE ReferToOpen \/ ReferToEvaluated \/ ReferToIllegal \/ Resume
    BY <2>1, ReferStep
  <2>2. CASE VisitForTypes
    BY <2>2, TypesStep
  <2>3. CASE VisitForValue
    BY <2>3, ValueStep
  <2>4. CASE ReferToNew
    BY <2>4, NewStep
  <2>5. CASE EvaluateToNothing
    BY <2>5, NothingStep
  <2>6. CASE EndInfer
    BY <2>6, EndInferStep
  <2>7. CASE EndEval
    BY <2>7, EndEvalStep
  <2> QED
    BY <1>1, <2>1, <2>2, <2>3, <2>4, <2>5, <2>6, <2>7 DEF Next
<1>2. CASE UNCHANGED vars
  <2>1. Rank(prog)' = Rank(prog)
    BY <1>2 DEF vars, Rank, SizesDescend
  <2>2. Typed' /\ Marked' /\ MarksAreCalls' /\ CallsWait'
    BY <1>2 DEF vars, IInv, Typed, Marked, MarksAreCalls, CallsWait
  <2>3. AskSmaller' /\ Descends'
    BY <1>2, <2>1 DEF vars, IInv, AskSmaller, Descends
  <2>4. AllClear' /\ AllPlanned'
    BY <1>2 DEF vars, IInv, AllClear, AllPlanned, Planned, Top
  <2> QED
    BY <2>2, <2>3, <2>4 DEF IInv
<1> QED
  BY <1>1, <1>2

THEOREM Invariance == Spec => []IInv
<1>1. Init => IInv
  BY IInvInit
<1>2. IInv /\ [Next]_vars => IInv'
  BY IInvNext
<1> QED
  BY <1>1, <1>2, PTL DEF Spec

\* Whatever the definitions are, a call that evaluateConstantDefinition makes
\* for a constant it is already busy with lies behind a call that has marked
\* its constant RECURSION_CHECK_TYPE.
THEOREM CyclesAreNoticed == Spec => []CyclesMeetAMark
<1>1. IInv => CyclesMeetAMark
  <2> SUFFICES ASSUME IInv, NEW i \in DOMAIN stack, NEW j \in DOMAIN stack, i < j,
                      stack[i].def = stack[j].def
               PROVE  \E k \in i..(j - 1) : value[stack[k].def] = REC
    BY DEF CyclesMeetAMark
  <2>1. Typed /\ stack # <<>>
    BY DEF IInv
  <2>2. DOMAIN stack = 1..Len(stack) /\ Len(stack) \in Nat /\ \A k \in DOMAIN stack : stack[k] \in Frames
    BY <2>1, TopIsFrame
  <2>3. Rank(prog)[stack[i].def] \in Nat
    <3>1. Rank(prog) \in [Consts -> Consts] /\ stack[i].def \in Consts
      BY <2>1, <2>2, RankDescends DEF Typed, Frames
    <3> QED
      BY <3>1 DEF Consts
  <2>4. PICK k \in i..(j - 1) : stack[k].phase = "eval"
    BY <2>3 DEF IInv, Descends
  <2>5. k \in DOMAIN stack
    BY <2>2
  <2> QED
    BY <2>4, <2>5 DEF IInv, Marked
<1> QED
  BY <1>1, Invariance, PTL

-----------------------------------------------------------------------------
(***************************************************************************)
(* Values.  A value that is found follows from the definitions; what the   *)
(* calls on the way have is what they are to have found so far.            *)
(***************************************************************************)
\* What a call goes through: the sizes in its types, or the terms of its value.
Items(f) == IF f.phase = "eval" THEN Terms(f.def) ELSE Sizes(f.def)

\* How many of them it is done with
Done(f) == Len(Items(f)) - Len(f.rest)

\* The reference that stands for an if, to the branch that known selects
Selected(term, item, known) ==
  /\ term.op = "if" /\ known[term.of] \in Values
  /\ item = Ref(IF known[term.of] = 1 THEN term.yes ELSE term.no)

\* What a call has before it are the items of its definition, with a branch
\* in place of the first one at most.
RestOfItems(f, known) ==
  /\ Len(f.rest) <= Len(Items(f))
  /\ \A i \in DOMAIN f.rest :
       \/ f.rest[i] = Items(f)[Done(f) + i]
       \/ i = 1 /\ f.phase = "eval" /\ Selected(Items(f)[Done(f) + 1], f.rest[1], known)

\* What it has behind it is summed up.
Ones(terms, n, known) == {i \in 1..n : TermMeaning(terms[i], known) = 1}

SumRight(f, known) ==
  f.phase = "eval" /\ f.acc \in Values =>
    /\ \A i \in 1..Done(f) : TermMeaning(Terms(f.def)[i], known) # NULL
    /\ f.acc = (1 + Cardinality(Ones(Terms(f.def), Done(f), known))) % 2

\* A call that waits does so for the constant that comes next, and one that
\* has gone wrong is over.
WaitRight(f) ==
  /\ f.wait # NONE =>
       f.rest # <<>> /\ Head(f.rest).op \in {"ref", "if"} /\ Head(f.rest).of = f.wait
  /\ f.phase = "eval" /\ f.acc = NULL => f.rest = <<>>

Follows(f) ==
  /\ WaitRight(f)
  /\ \A known \in Valuations :
       Complete(known, FALSE) => RestOfItems(f, known) /\ SumRight(f, known)

CallsFollow == \A k \in DOMAIN stack : Follows(stack[k])

\* What is waited for is not being evaluated further out.
WaitForIdle ==
  \A j, k \in DOMAIN stack :
    j <= k /\ stack[j].phase = "eval" /\ stack[k].wait # NONE => stack[j].def # stack[k].wait

VInv == CallsFollow /\ WaitForIdle /\ ValuesAreRight /\ RecursionIsReal

-----------------------------------------------------------------------------
(***************************************************************************)
(* What the terms mean.                                                    *)
(***************************************************************************)
LEMMA MeaningIsValue ==
  ASSUME NEW term \in Term, NEW known \in Valuations
  PROVE  TermMeaning(term, known) \in Values \cup {NULL}
BY DEF Term, Valuations, TermMeaning

LEMMA OnesFinite ==
  ASSUME NEW terms, NEW n \in Nat, NEW known
  PROVE  IsFiniteSet(Ones(terms, n, known)) /\ Cardinality(Ones(terms, n, known)) \in Nat
<1>1. IsFiniteSet(1..n)
  BY FS_Interval
<1>2. Ones(terms, n, known) \subseteq 1..n
  BY DEF Ones
<1> QED
  BY <1>1, <1>2, FS_Subset, FS_CardinalityType

\* One term more
LEMMA SumGoesOn ==
  ASSUME NEW terms, NEW n \in Nat, NEW known, NEW v \in Values,
         TermMeaning(terms[n + 1], known) = v, NEW acc,
         acc = (1 + Cardinality(Ones(terms, n, known))) % 2
  PROVE  (acc + v) % 2 = (1 + Cardinality(Ones(terms, n + 1, known))) % 2
<1> DEFINE ones == Ones(terms, n, known)
<1>1. IsFiniteSet(ones) /\ Cardinality(ones) \in Nat /\ n + 1 \notin ones
  BY OnesFinite DEF Ones
<1>2. Ones(terms, n + 1, known) = IF v = 1 THEN ones \cup {n + 1} ELSE ones
  <2>1. 1..n + 1 = (1..n) \cup {n + 1}
    OBVIOUS
  <2> QED
    BY <2>1 DEF Ones, Values
<1> HIDE DEF ones
<1>3. Cardinality(Ones(terms, n + 1, known)) = Cardinality(ones) + v
  <2>1. Cardinality(ones \cup {n + 1}) = Cardinality(ones) + 1
    BY <1>1, FS_AddElement
  <2> QED
    BY <1>1, <1>2, <2>1 DEF Values
<1>4. ASSUME NEW c \in Nat PROVE (((1 + c) % 2) + v) % 2 = (1 + (c + v)) % 2
  BY DEF Values
<1> QED
  BY <1>1, <1>3, <1>4 DEF ones

LEMMA Definitions ==
  ASSUME Typed, NEW c \in Consts
  PROVE  /\ Terms(c) \in Seq(Term) /\ Len(Terms(c)) \in Nat /\ DOMAIN Terms(c) = 1..Len(Terms(c))
         /\ prog[c].sizes \in Seq(Consts) /\ Len(Sizes(c)) \in Nat
         /\ DOMAIN Sizes(c) = 1..Len(Sizes(c)) /\ DOMAIN prog[c].sizes = DOMAIN Sizes(c)
         /\ \A i \in DOMAIN Sizes(c) : Sizes(c)[i] = Ref(prog[c].sizes[i])
<1>1. prog[c] \in Body
  BY RankDescends DEF Typed
<1>2. prog[c].terms \in Seq(Term) /\ prog[c].sizes \in Seq(Consts)
  BY <1>1 DEF Body
<1>3. Terms(c) \in Seq(Term) /\ Len(Terms(c)) \in Nat /\ DOMAIN Terms(c) = 1..Len(Terms(c))
  BY <1>2 DEF Terms
<1> DEFINE s == prog[c].sizes
<1>4. s \in Seq(Consts) /\ Len(s) \in Nat /\ DOMAIN s = 1..Len(s)
  BY <1>2
<1>5. Sizes(c) = [i \in DOMAIN s |-> Ref(s[i])]
  BY DEF Sizes
<1> HIDE DEF s
<1>6. DOMAIN Sizes(c) = 1..Len(s) /\ \A i \in 1..Len(s) : Sizes(c)[i] = Ref(s[i])
  BY <1>4, <1>5
<1>7. Len(Sizes(c)) = Len(s)
  BY <1>4, <1>5, <1>6
<1> QED
  BY <1>3, <1>4, <1>6, <1>7 DEF s

\* The items of a call are a sequence.
LEMMA ItemsOfCall ==
  ASSUME Typed, NEW f \in Frames
  PROVE  /\ Len(Items(f)) \in Nat /\ f.rest \in Seq(Term) /\ Len(f.rest) \in Nat
         /\ DOMAIN f.rest = 1..Len(f.rest)
         /\ f.phase = "eval" => Items(f) = Terms(f.def)
         /\ f.phase # "eval" => Items(f) = Sizes(f.def)
<1>1. f.def \in Consts /\ f.rest \in Seq(Term)
  BY DEF Frames
<1> QED
  BY <1>1, Definitions DEF Items
-----------------------------------------------------------------------------
(***************************************************************************)
(* What a call does with a value, again.                                   *)
(***************************************************************************)
LEMMA TakeFollows ==
  ASSUME Typed, NEW f \in Frames, Follows(f), f.rest # <<>>, Head(f.rest).op \in {"ref", "if"},
         NEW v \in Values \cup {NULL},
         \A known \in Valuations :
           Complete(known, FALSE) /\ v \in Values => known[Head(f.rest).of] = v
  PROVE  Follows(Take(f, v))
<1> DEFINE tail == Tail(f.rest)
           h == Head(f.rest)
           n == Len(f.rest)
           items == Items(f)
           m == Len(items)
<1>1. /\ m \in Nat /\ f.rest \in Seq(Term) /\ n \in Nat \ {0} /\ DOMAIN f.rest = 1..n
      /\ f.phase \in {"infer", "eval"} /\ f.acc \in Values \cup {NULL}
      /\ h = f.rest[1] /\ h \in Term
  BY ItemsOfCall DEF Frames
<1>2. /\ tail \in Seq(Term) /\ Len(tail) = n - 1 /\ DOMAIN tail = 1..(n - 1)
      /\ \A i \in 1..(n - 1) : tail[i] = f.rest[i + 1]
  <2>1. /\ tail \in Seq(Term) /\ Len(tail) = n - 1
        /\ \A i \in 1..Len(tail) : tail[i] = f.rest[i + 1]
    BY <1>1, HeadTailProperties
  <2>2. DOMAIN tail = 1..Len(tail)
    BY <2>1, LenProperties
  <2> HIDE DEF tail, n
  <2> QED
    BY <2>1, <2>2
<1>3. h.op \in {"ref", "if"}
  OBVIOUS
<1> HIDE DEF tail, h, n, m
<1>4. CASE f.phase = "infer"
  <2>1. Take(f, v) = [f EXCEPT !.rest = tail, !.wait = NONE]
    BY <1>4 DEF Take, tail
  <2> DEFINE g == Take(f, v)
  <2>2. g.def = f.def /\ g.phase = "infer" /\ g.wait = NONE /\ g.rest = tail
    BY <1>4, <2>1 DEF Frames
  <2> HIDE DEF g
  <2>3. Items(g) = items
    BY <1>4, <2>2 DEF Items
  <2>4. WaitRight(g)
    BY <2>2 DEF WaitRight
  <2> SUFFICES ASSUME NEW known \in Valuations, Complete(known, FALSE)
               PROVE  RestOfItems(g, known) /\ SumRight(g, known)
    BY <2>4 DEF Follows, g
  <2>5. n <= m /\ \A i \in 1..n : f.rest[i] = items[m - n + i]
    BY <1>1, <1>4 DEF Follows, RestOfItems, Done, n, m
  <2>6. m - (n - 1) = m - n + 1 /\ \A i \in 1..(n - 1) : i + 1 \in 1..n /\ m - n + (i + 1) = m - n + 1 + i
    BY <1>1
  <2>7. Len(items) = m /\ Len(tail) = n - 1 /\ n - 1 <= m
    BY <1>1, <1>2, <2>5 DEF m
  <2> HIDE DEF items
  <2>8. Done(g) = m - n + 1
    BY <2>2, <2>3, <2>6, <2>7 DEF Done
  <2>9. \A i \in 1..(n - 1) : tail[i] = items[Done(g) + i]
    BY <1>2, <2>5, <2>6, <2>8
  <2>10. RestOfItems(g, known)
    BY <1>2, <2>2, <2>3, <2>7, <2>9 DEF RestOfItems
  <2> QED
    BY <2>2, <2>10 DEF SumRight
<1>5. CASE f.phase = "eval" /\ v = NULL
  <2>1. Take(f, v) = [f EXCEPT !.rest = <<>>, !.wait = NONE, !.acc = NULL]
    BY <1>5 DEF Take
  <2> DEFINE g == Take(f, v)
  <2>2. /\ g.def = f.def /\ g.phase = "eval" /\ g.wait = NONE /\ g.rest = <<>>
        /\ g.acc = NULL
    BY <1>5, <2>1 DEF Frames
  <2> HIDE DEF g
  <2>3. g.acc \notin Values
    BY <2>2 DEF Values, NULL
  <2>4. Items(g) = items
    BY <1>5, <2>2 DEF Items
  <2> HIDE DEF items
  <2>5. Len(g.rest) = 0 /\ DOMAIN g.rest = {} /\ 0 <= Len(items)
    BY <1>1, <2>2 DEF m
  <2>6. WaitRight(g)
    BY <2>2 DEF WaitRight
  <2>7. \A known : RestOfItems(g, known) /\ SumRight(g, known)
    BY <2>3, <2>4, <2>5 DEF RestOfItems, SumRight
  <2> QED
    BY <2>6, <2>7 DEF Follows, g
<1>6. CASE f.phase = "eval" /\ v # NULL
  <2>1. v \in Values /\ f.acc \in Values /\ items = Terms(f.def)
    BY <1>1, <1>6 DEF Follows, WaitRight, Items
  <2> DEFINE d == m - n
  <2>2. ASSUME NEW known \in Valuations, Complete(known, FALSE)
        PROVE  /\ known[h.of] = v /\ d \in Nat
               /\ \A i \in 1..n : i > 1 => f.rest[i] = items[d + i]
               /\ h = items[d + 1] \/ Selected(items[d + 1], h, known)
               /\ \A i \in 1..d : TermMeaning(items[i], known) # NULL
               /\ f.acc = (1 + Cardinality(Ones(items, d, known))) % 2
    <3>1. known[h.of] = v
      BY <2>1, <2>2 DEF h
    <3>2. RestOfItems(f, known) /\ SumRight(f, known)
      BY <2>2 DEF Follows
    <3>3. /\ n <= m /\ 1 \in 1..n /\ d = Done(f)
          /\ \A i \in 1..n : f.rest[i] = items[d + i] \/ (i = 1 /\ Selected(items[d + 1], h, known))
      <4>1. n <= m /\ 1 \in 1..n /\ d = Done(f)
        BY <1>1, <3>2 DEF RestOfItems, Done, n, m
      <4> HIDE DEF items, d
      <4>2. \A i \in 1..n : f.rest[i] = items[d + i] \/ (i = 1 /\ Selected(items[d + 1], h, known))
        BY <1>1, <3>2, <4>1 DEF RestOfItems, items
      <4> QED
        BY <4>1, <4>2
    <3>4. d \in Nat
      BY <1>1, <3>3
    <3>5. \A i \in 1..n : i > 1 => f.rest[i] = items[d + i]
      BY <3>3
    <3>6. h = items[d + 1] \/ Selected(items[d + 1], h, known)
      BY <1>1, <3>3
    <3>7. /\ \A i \in 1..d : TermMeaning(items[i], known) # NULL
          /\ f.acc = (1 + Cardinality(Ones(items, d, known))) % 2
      BY <1>6, <2>1, <3>2 DEF SumRight, Done, n, m
    <3> QED
      BY <3>1, <3>4, <3>5, <3>6, <3>7
  <2>3. CASE h.op = "if"
    <3> DEFINE one == Ref(IF v = 1 THEN h.yes ELSE h.no)
               rest == <<one>> \o tail
               g == Take(f, v)
    <3>1. g = [f EXCEPT !.rest = rest, !.wait = NONE]
      BY <1>6, <2>3 DEF Take, tail, h
    <3>2. one \in Term
      BY <1>1 DEF Term, Ref
    <3>3. /\ rest \in Seq(Term) /\ Len(rest) = n /\ DOMAIN rest = 1..n
          /\ rest[1] = one /\ \A i \in 1..n : i > 1 => rest[i] = f.rest[i]
      <4> HIDE DEF one
      <4>1. <<one>> \in Seq(Term) /\ Len(<<one>>) = 1 /\ <<one>>[1] = one
        BY <3>2
      <4>2. /\ rest \in Seq(Term) /\ Len(rest) = 1 + Len(tail)
            /\ \A i \in 1..(1 + Len(tail)) : rest[i] = IF i <= 1 THEN <<one>>[i] ELSE tail[i - 1]
        BY <1>2, <4>1, ConcatProperties
      <4> HIDE DEF rest
      <4>3. DOMAIN rest = 1..Len(rest)
        BY <4>2, LenProperties
      <4>4. Len(rest) = n /\ 1 \in 1..n
        BY <1>1, <1>2, <4>2
      <4>5. rest[1] = one
        BY <1>1, <1>2, <4>1, <4>2
      <4>6. ASSUME NEW i \in 1..n, i > 1 PROVE rest[i] = f.rest[i]
        <5>1. i - 1 \in 1..(n - 1) /\ (i - 1) + 1 = i /\ i \in 1..(1 + Len(tail)) /\ ~ (i <= 1)
          BY <1>1, <1>2, <4>6
        <5> QED
          BY <1>2, <4>2, <5>1
      <4> QED
        BY <4>2, <4>3, <4>4, <4>5, <4>6
    <3> HIDE DEF rest
    <3>4. /\ g.def = f.def /\ g.phase = "eval" /\ g.wait = NONE /\ g.rest = rest
          /\ g.acc = f.acc
      BY <1>6, <3>1 DEF Frames
    <3> HIDE DEF g, one
    <3>5. Items(g) = items /\ Done(g) = d /\ Terms(g.def) = items
      BY <1>6, <2>1, <3>3, <3>4 DEF Items, Done, m
    <3>6. WaitRight(g)
      BY <2>1, <3>4 DEF WaitRight, Values, NULL
    <3> SUFFICES ASSUME NEW known \in Valuations, Complete(known, FALSE)
                 PROVE  RestOfItems(g, known) /\ SumRight(g, known)
      BY <3>6 DEF Follows, g
    <3>7. h = items[d + 1]
      <4>1. ~ Selected(items[d + 1], h, known)
        BY <2>3 DEF Selected, Ref
      <4> QED
        BY <2>2, <4>1
    <3>8. Selected(items[d + 1], rest[1], known)
      BY <2>1, <2>2, <2>3, <3>3, <3>7 DEF Selected, one
    <3>9. Len(rest) <= Len(items)
      <4>1. d \in Nat /\ d = m - n
        BY <2>2
      <4> HIDE DEF d
      <4> QED
        BY <1>1, <3>3, <4>1 DEF m
    <3> HIDE DEF items, d
    <3>10. \A i \in 1..n : rest[i] = items[d + i] \/ (i = 1 /\ Selected(items[d + 1], rest[1], known))
      <4> TAKE i \in 1..n
      <4>1. CASE i > 1
        BY <2>2, <3>3, <4>1
      <4>2. CASE i = 1
        BY <3>8, <4>2
      <4> QED
        BY <1>1, <4>1, <4>2
    <3>11. RestOfItems(g, known)
      BY <3>3, <3>4, <3>5, <3>9, <3>10 DEF RestOfItems
    <3>12. SumRight(g, known)
      BY <2>2, <3>4, <3>5 DEF SumRight
    <3> QED
      BY <3>11, <3>12
  <2>4. CASE h.op = "ref"
    <3> DEFINE sum == (f.acc + v) % 2
               g == Take(f, v)
    <3>1. g = [f EXCEPT !.rest = tail, !.wait = NONE, !.acc = sum]
      BY <1>6, <2>4 DEF Take, tail, h
    <3>2. sum \in Values
      BY <2>1 DEF Values
    <3> HIDE DEF sum
    <3>3. /\ g.def = f.def /\ g.phase = "eval" /\ g.wait = NONE /\ g.rest = tail
          /\ g.acc = sum
      BY <1>6, <3>1 DEF Frames
    <3> HIDE DEF g
    <3>4. d + 1 = m - (n - 1)
      BY <1>1
    <3>5. Items(g) = items /\ Done(g) = d + 1 /\ Terms(g.def) = items
      BY <1>2, <1>6, <2>1, <3>3, <3>4 DEF Items, Done, m
    <3>6. WaitRight(g)
      BY <3>2, <3>3 DEF WaitRight, Values, NULL
    <3> SUFFICES ASSUME NEW known \in Valuations, Complete(known, FALSE)
                 PROVE  RestOfItems(g, known) /\ SumRight(g, known)
      BY <3>6 DEF Follows, g
    <3>7. TermMeaning(items[d + 1], known) = v
      <4>1. CASE h = items[d + 1]
        BY <2>2, <2>4, <4>1 DEF TermMeaning
      <4>2. CASE Selected(items[d + 1], h, known)
        <5> DEFINE t == items[d + 1]
        <5>1. /\ t.op = "if" /\ known[t.of] # NULL
              /\ h.of = IF known[t.of] = 1 THEN t.yes ELSE t.no
          BY <4>2 DEF Selected, Ref, Values, NULL
        <5>2. TermMeaning(t, known) = known[h.of]
          BY <5>1 DEF TermMeaning
        <5> QED
          BY <2>2, <5>2
      <4> QED
        BY <2>2, <4>1, <4>2
    <3>8. d \in Nat
      BY <2>2
    <3>9. \A i \in 1..(n - 1) : tail[i] = items[d + 1 + i]
      <4> TAKE i \in 1..(n - 1)
      <4>1. i + 1 \in 1..n /\ i + 1 > 1 /\ d + (i + 1) = d + 1 + i
        BY <1>1, <3>8
      <4> QED
        BY <1>2, <2>2, <4>1
    <3>10. Len(tail) <= Len(items)
      BY <1>1, <1>2, <3>8 DEF m
    <3> HIDE DEF items, d
    <3>11. RestOfItems(g, known)
      BY <1>2, <3>3, <3>5, <3>9, <3>10 DEF RestOfItems
    <3>12. sum = (1 + Cardinality(Ones(items, d + 1, known))) % 2
      <4>1. f.acc = (1 + Cardinality(Ones(items, d, known))) % 2
        BY <2>2
      <4> QED
        BY <2>1, <3>7, <3>8, <4>1, SumGoesOn DEF sum
    <3>13. \A i \in 1..(d + 1) : TermMeaning(items[i], known) # NULL
      <4> TAKE i \in 1..(d + 1)
      <4>1. i \in 1..d \/ i = d + 1
        BY <3>8
      <4>2. v # NULL
        BY <1>6
      <4>3. \A j \in 1..d : TermMeaning(items[j], known) # NULL
        BY <2>2
      <4> QED
        BY <3>7, <4>1, <4>2, <4>3
    <3> QED
      BY <3>3, <3>5, <3>11, <3>12, <3>13 DEF SumRight
  <2> QED
    BY <1>3, <2>3, <2>4
<1> QED
  BY <1>1, <1>4, <1>5, <1>6
LEMMA BeginFollows ==
  ASSUME Typed, NEW f \in Frames, f.wait = NONE
  PROVE  Follows(Evaluating(f)) /\ Evaluating(f).wait = NONE
<1> DEFINE g == Evaluating(f)
<1>1. /\ g.def = f.def /\ g.phase = "eval" /\ g.wait = NONE /\ g.rest = Terms(f.def)
      /\ g.acc = 1
  BY DEF Evaluating, Frames
<1> HIDE DEF g
<1>2. f.def \in Consts
  BY DEF Frames
<1>3. Items(g) = Terms(f.def) /\ Len(Terms(f.def)) \in Nat
  BY <1>1, <1>2, Definitions DEF Items
<1>4. Done(g) = 0
  BY <1>1, <1>3 DEF Done
<1>5. WaitRight(g)
  BY <1>1 DEF WaitRight, NULL
<1>6. ASSUME NEW known PROVE RestOfItems(g, known) /\ SumRight(g, known)
  <2>1. DOMAIN Terms(f.def) = 1..Len(Terms(f.def))
    BY <1>2, Definitions
  <2>2. RestOfItems(g, known)
    BY <1>1, <1>3, <1>4, <2>1 DEF RestOfItems
  <2>3. Ones(Terms(g.def), 0, known) = {}
    BY DEF Ones
  <2>4. Cardinality(Ones(Terms(g.def), 0, known)) = 0
    BY <2>3, FS_EmptySet
  <2>5. SumRight(g, known)
    BY <1>1, <1>4, <2>4 DEF SumRight
  <2> QED
    BY <2>2, <2>5
<1> QED
  BY <1>1, <1>5, <1>6 DEF Follows, g

LEMMA NewFollows ==
  ASSUME Typed, NEW c \in Consts, NEW goal
  PROVE  Follows(Frame(c, goal)) /\ Frame(c, goal).wait = NONE /\ Frame(c, goal).phase = "infer"
<1> DEFINE g == Frame(c, goal)
<1>1. g.def = c /\ g.phase = "infer" /\ g.wait = NONE /\ g.rest = Sizes(c)
  BY DEF Frame
<1> HIDE DEF g
<1>2. Items(g) = Sizes(c) /\ Len(Sizes(c)) \in Nat /\ DOMAIN Sizes(c) = 1..Len(Sizes(c))
  BY <1>1, Definitions DEF Items
<1>3. Done(g) = 0
  BY <1>1, <1>2 DEF Done
<1>4. WaitRight(g)
  BY <1>1 DEF WaitRight
<1>5. ASSUME NEW known PROVE RestOfItems(g, known) /\ SumRight(g, known)
  BY <1>1, <1>2, <1>3 DEF RestOfItems, SumRight
<1> QED
  BY <1>1, <1>4, <1>5 DEF Follows, g

LEMMA NothingFollows ==
  ASSUME Typed, NEW f \in Frames, f.wait = NONE, f.phase = "eval"
  PROVE  LET g == [f EXCEPT !.rest = <<>>, !.acc = NULL]
         IN  Follows(g) /\ g.wait = NONE
<1> DEFINE g == [f EXCEPT !.rest = <<>>, !.acc = NULL]
<1>1. g.def = f.def /\ g.phase = "eval" /\ g.wait = NONE /\ g.rest = <<>> /\ g.acc = NULL
  BY DEF Frames
<1> HIDE DEF g
<1>2. f.def \in Consts
  BY DEF Frames
<1>3. Items(g) = Terms(f.def) /\ Len(Terms(f.def)) \in Nat
  BY <1>1, <1>2, Definitions DEF Items
<1>4. Len(g.rest) = 0 /\ DOMAIN g.rest = {} /\ 0 <= Len(Items(g))
  BY <1>1, <1>3
<1>5. WaitRight(g)
  BY <1>1 DEF WaitRight
<1>6. g.acc \notin Values
  BY <1>1 DEF Values, NULL
<1>7. ASSUME NEW known PROVE RestOfItems(g, known) /\ SumRight(g, known)
  BY <1>4, <1>6 DEF RestOfItems, SumRight
<1> QED
  BY <1>1, <1>5, <1>7 DEF Follows, g

\* An evaluation that is over has found what its definition means.
LEMMA EvaluationFollows ==
  ASSUME Typed, NEW f \in Frames, Follows(f), f.phase = "eval", f.rest = <<>>, f.acc \in Values
  PROVE  Means(f.def, f.acc, FALSE)
<1> SUFFICES ASSUME NEW known \in Valuations, Complete(known, FALSE)
             PROVE  known[f.def] = f.acc
  BY DEF Means
<1> DEFINE terms == Terms(f.def)
           d == Len(terms)
<1>1. f.def \in Consts
  BY DEF Frames
<1>2. d \in Nat /\ DOMAIN terms = 1..d
  BY <1>1, Definitions
<1>3. Len(f.rest) = 0
  OBVIOUS
<1>4. Done(f) = d
  BY <1>2, <1>3 DEF Done, Items
<1>5. /\ \A i \in 1..d : TermMeaning(terms[i], known) # NULL
      /\ f.acc = (1 + Cardinality(Ones(terms, d, known))) % 2
  BY <1>4 DEF Follows, SumRight
<1>6. terms = prog[f.def].terms
  BY DEF Terms
<1> HIDE DEF terms, d
<1>7. Ones(terms, d, known) = {i \in DOMAIN terms : TermMeaning(terms[i], known) = 1}
  BY <1>2 DEF Ones
<1>8. BodyMeaning(prog[f.def], known, FALSE) = f.acc
  BY <1>2, <1>5, <1>6, <1>7 DEF BodyMeaning
<1>9. BodyMeaning(prog[f.def], known, FALSE) \in {NULL, known[f.def]}
  BY <1>1 DEF Complete
<1>10. f.acc # NULL
  BY DEF Values, NULL
<1> QED
  BY <1>8, <1>9, <1>10
-----------------------------------------------------------------------------
(***************************************************************************)
(* The definitions have a meaning: what more is known makes more known.    *)
(***************************************************************************)
Below(J, K) == \A c \in Consts : J[c] \in {NULL, K[c]}

\* What follows from known, at once
FollowsFrom(known) == [c \in Consts |-> BodyMeaning(prog[c], known, FALSE)]

Open(known) == {c \in Consts : known[c] = NULL}

LEMMA TermMonotone ==
  ASSUME NEW J \in Valuations, NEW K \in Valuations, Below(J, K), NEW term \in Term
  PROVE  TermMeaning(term, J) \in {NULL, TermMeaning(term, K)}
<1>1. term.of \in Consts /\ term.yes \in Consts /\ term.no \in Consts
  BY DEF Term
<1> QED
  BY <1>1 DEF Below, TermMeaning

LEMMA BodyMonotone ==
  ASSUME NEW J \in Valuations, NEW K \in Valuations, Below(J, K), NEW body \in Body,
         NEW s \in BOOLEAN, NEW t \in BOOLEAN, t => s
  PROVE  BodyMeaning(body, J, s) \in {NULL, BodyMeaning(body, K, t)}
<1> SUFFICES ASSUME BodyMeaning(body, J, s) # NULL
             PROVE  BodyMeaning(body, J, s) = BodyMeaning(body, K, t)
  OBVIOUS
<1> DEFINE D == DOMAIN body.terms
<1>1. /\ \A i \in D : TermMeaning(body.terms[i], J) # NULL
      /\ s => \A i \in DOMAIN body.sizes : J[body.sizes[i]] # NULL
  BY DEF BodyMeaning
<1>2. /\ \A i \in D : body.terms[i] \in Term
      /\ \A i \in DOMAIN body.sizes : body.sizes[i] \in Consts
  BY DEF Body
<1>3. \A i \in D : TermMeaning(body.terms[i], J) = TermMeaning(body.terms[i], K)
  BY <1>1, <1>2, TermMonotone
<1>4. t => \A i \in DOMAIN body.sizes : K[body.sizes[i]] # NULL
  BY <1>1, <1>2 DEF Below
<1>5. BodyMeaning(body, J, s) = (1 + Cardinality({i \in D : TermMeaning(body.terms[i], J) = 1})) % 2
  BY DEF BodyMeaning
<1>6. BodyMeaning(body, K, t) = (1 + Cardinality({i \in D : TermMeaning(body.terms[i], K) = 1})) % 2
  BY <1>1, <1>3, <1>4 DEF BodyMeaning
<1>7. {i \in D : TermMeaning(body.terms[i], J) = 1} = {i \in D : TermMeaning(body.terms[i], K) = 1}
  BY <1>3
<1> QED
  BY <1>5, <1>6, <1>7

LEMMA BodyIsValue ==
  ASSUME NEW known, NEW body \in Body, NEW s
  PROVE  BodyMeaning(body, known, s) \in Values \cup {NULL}
<1> DEFINE D == DOMAIN body.terms
           ones == {i \in D : TermMeaning(body.terms[i], known) = 1}
<1>1. D = 1..Len(body.terms) /\ Len(body.terms) \in Nat
  BY DEF Body
<1>2. IsFiniteSet(D) /\ ones \subseteq D
  BY <1>1, FS_Interval
<1>3. Cardinality(ones) \in Nat
  BY <1>2, FS_Subset, FS_CardinalityType
<1>4. BodyMeaning(body, known, s) \in {NULL, (1 + Cardinality(ones)) % 2}
  BY DEF BodyMeaning
<1> HIDE DEF ones
<1>5. (1 + Cardinality(ones)) % 2 \in Values
  BY <1>3 DEF Values
<1> QED
  BY <1>4, <1>5

\* There is a valuation that what follows from it adds nothing to.
LEMMA CompleteExists ==
  ASSUME Typed
  PROVE  \E known \in Valuations : Complete(known, FALSE)
<1> DEFINE Sound == {K \in Valuations : Below(K, FollowsFrom(K))}
           Counts == {Cardinality(Open(K)) : K \in Sound}
<1>1. \A c \in Consts : prog[c] \in Body
  BY RankDescends DEF Typed
<1>2. \A K \in Valuations : FollowsFrom(K) \in Valuations
  BY <1>1, BodyIsValue DEF FollowsFrom, Valuations
<1>3. ASSUME NEW K \in Sound PROVE FollowsFrom(K) \in Sound
  <2> DEFINE L == FollowsFrom(K)
  <2>1. K \in Valuations /\ L \in Valuations /\ Below(K, L)
    BY <1>2
  <2>2. ASSUME NEW c \in Consts PROVE L[c] \in {NULL, FollowsFrom(L)[c]}
    <3>1. L[c] = BodyMeaning(prog[c], K, FALSE) /\ FollowsFrom(L)[c] = BodyMeaning(prog[c], L, FALSE)
      BY DEF FollowsFrom
    <3> HIDE DEF L
    <3> QED
      BY <1>1, <2>1, <3>1, BodyMonotone
  <2> QED
    BY <2>1, <2>2 DEF Below
<1>4. ASSUME NEW K PROVE IsFiniteSet(Open(K)) /\ Cardinality(Open(K)) \in Nat
  <2>1. IsFiniteSet(Consts) /\ Open(K) \subseteq Consts
    BY ProgramsAssumption, FS_Interval DEF Consts, Open
  <2> QED
    BY <2>1, FS_Subset, FS_CardinalityType
<1>5. Counts \subseteq Nat
  BY <1>4
<1>6. Counts # {}
  <2> DEFINE none == [c \in Consts |-> NULL]
  <2>1. none \in Valuations /\ Below(none, FollowsFrom(none))
    BY DEF Valuations, Below
  <2> QED
    BY <2>1
<1>7. PICK n \in Counts : \A m \in Counts : ~ (m < n)
  <2> DEFINE Rel == {p \in Nat \X Nat : p[1] < p[2]}
  <2>1. IsWellFoundedOn(Rel, Nat)
    BY NatLessThanWellFounded DEF OpToRel
  <2> HIDE DEF Counts, Rel
  <2>2. PICK x \in Counts : \A y \in Counts : <<y, x>> \notin Rel
    BY <1>5, <1>6, <2>1, WFMin
  <2>3. ASSUME NEW y \in Counts PROVE ~ (y < x)
    <3>1. <<y, x>> \in Nat \X Nat /\ <<y, x>> \notin Rel
      BY <1>5, <2>2
    <3> QED
      BY <3>1 DEF Rel
  <2> QED
    BY <2>3
<1>8. PICK K \in Sound : n = Cardinality(Open(K))
  OBVIOUS
<1> DEFINE L == FollowsFrom(K)
<1>9. K \in Valuations /\ L \in Valuations /\ Below(K, L) /\ Cardinality(Open(L)) \in Counts
  BY <1>2, <1>3
<1>10. Open(L) \subseteq Open(K)
  BY <1>9 DEF Open, Below
<1> HIDE DEF Sound, Counts
<1>11. Cardinality(Open(L)) <= Cardinality(Open(K)) /\ ~ (Cardinality(Open(L)) < Cardinality(Open(K)))
  BY <1>4, <1>7, <1>8, <1>9, <1>10, FS_Subset
<1>12. Open(L) = Open(K)
  BY <1>4, <1>10, <1>11, FS_Subset
<1>13. ASSUME NEW c \in Consts PROVE BodyMeaning(prog[c], K, FALSE) \in {NULL, K[c]}
  <2>1. L[c] = BodyMeaning(prog[c], K, FALSE)
    BY DEF FollowsFrom
  <2> HIDE DEF L
  <2>2. K[c] = NULL => L[c] = NULL
    BY <1>12 DEF Open
  <2> QED
    BY <1>9, <2>1, <2>2 DEF Below
<1> QED
  BY <1>9, <1>13 DEF Complete
-----------------------------------------------------------------------------
(***************************************************************************)
(* Recursion.  The calls from the one that evaluates a constant on to the  *)
(* innermost one, which asks for it again, are a cycle.                    *)
(***************************************************************************)
Cyclic == {c \in Consts : c \in Reach(c) /\ ~ \E v \in Values : Means(c, v, TRUE)}

\* What a call asks for is what its definition has next.
LEMMA NextItem ==
  ASSUME Typed, NEW f \in Frames, Follows(f), f.rest # <<>>, Head(f.rest).op \in {"ref", "if"},
         NEW known \in Valuations, Complete(known, FALSE)
  PROVE  LET h == Head(f.rest)
             body == prog[f.def]
         IN  \/ \E i \in DOMAIN body.sizes : h.of = body.sizes[i]
             \/ \E i \in DOMAIN body.terms :
                  h = body.terms[i] \/ Selected(body.terms[i], h, known)
<1> DEFINE h == Head(f.rest)
           i == Done(f) + 1
<1>1. /\ Len(Items(f)) \in Nat /\ Len(f.rest) \in Nat \ {0} /\ 1 \in DOMAIN f.rest /\ h = f.rest[1]
      /\ f.phase \in {"infer", "eval"} /\ f.def \in Consts
  BY ItemsOfCall DEF Frames
<1>2. Len(f.rest) <= Len(Items(f)) /\ (h = Items(f)[i] \/ (f.phase = "eval" /\ Selected(Items(f)[i], h, known)))
  BY <1>1 DEF Follows, RestOfItems
<1>3. i \in 1..Len(Items(f))
  BY <1>1, <1>2 DEF Done
<1> HIDE DEF h, i
<1>4. CASE f.phase = "eval"
  <2>1. Items(f) = prog[f.def].terms /\ DOMAIN prog[f.def].terms = 1..Len(Items(f))
    BY <1>1, <1>4, Definitions DEF Items, Terms
  <2> QED
    BY <1>2, <1>3, <2>1 DEF h
<1>5. CASE f.phase = "infer"
  <2>1. Items(f) = Sizes(f.def)
    BY <1>5 DEF Items
  <2>2. i \in DOMAIN prog[f.def].sizes /\ Items(f)[i] = Ref(prog[f.def].sizes[i])
    BY <1>1, <1>3, <2>1, Definitions
  <2>3. h = Items(f)[i]
    BY <1>2, <1>5
  <2> QED
    BY <2>2, <2>3 DEF h, Ref
<1> QED
  BY <1>1, <1>4, <1>5

LEMMA AskedIsMentioned ==
  ASSUME Typed, NEW f \in Frames, Follows(f), f.rest # <<>>, Head(f.rest).op \in {"ref", "if"}
  PROVE  Head(f.rest).of \in Mentions(f.def)
<1> DEFINE h == Head(f.rest)
           body == prog[f.def]
<1>1. PICK known \in Valuations : Complete(known, FALSE)
  BY CompleteExists
<1>2. \/ \E i \in DOMAIN body.sizes : h.of = body.sizes[i]
      \/ \E i \in DOMAIN body.terms : h = body.terms[i] \/ Selected(body.terms[i], h, known)
  BY <1>1, NextItem
<1>3. h.op \in {"ref", "if"}
  OBVIOUS
<1> HIDE DEF h
<1>4. CASE \E i \in DOMAIN body.sizes : h.of = body.sizes[i]
  BY <1>4 DEF Mentions, h
<1>5. ASSUME NEW i \in DOMAIN body.terms, h = body.terms[i] \/ Selected(body.terms[i], h, known)
      PROVE  h.of \in MentionedBy(body.terms[i])
  BY <1>3, <1>5 DEF MentionedBy, Selected, Ref
<1>6. CASE \E i \in DOMAIN body.terms : h = body.terms[i] \/ Selected(body.terms[i], h, known)
  BY <1>5, <1>6 DEF Mentions, h
<1> QED
  BY <1>2, <1>4, <1>6

\* As long as what a call asks for is not known its definition has no value.
LEMMA NothingWithoutNext ==
  ASSUME Typed, NEW f \in Frames, Follows(f), f.rest # <<>>, Head(f.rest).op \in {"ref", "if"},
         NEW K \in Valuations, Complete(K, FALSE), NEW L \in Valuations, Below(L, K),
         L[Head(f.rest).of] = NULL
  PROVE  BodyMeaning(prog[f.def], L, TRUE) = NULL
<1> DEFINE h == Head(f.rest)
           body == prog[f.def]
<1>1. \/ \E i \in DOMAIN body.sizes : h.of = body.sizes[i]
      \/ \E i \in DOMAIN body.terms : h = body.terms[i] \/ Selected(body.terms[i], h, K)
  BY NextItem
<1>2. h.op \in {"ref", "if"} /\ L[h.of] = NULL
  OBVIOUS
<1>3. body \in Body
  BY RankDescends DEF Typed, Frames
<1> HIDE DEF h, body
<1>4. CASE \E i \in DOMAIN body.sizes : h.of = body.sizes[i]
  BY <1>2, <1>4 DEF BodyMeaning, body
<1>5. ASSUME NEW i \in DOMAIN body.terms, h = body.terms[i] \/ Selected(body.terms[i], h, K)
      PROVE  TermMeaning(body.terms[i], L) = NULL
  <2>1. body.terms[i] \in Term
    BY <1>3 DEF Body
  <2>2. body.terms[i].of \in Consts
    BY <2>1 DEF Term
  <2>3. CASE h = body.terms[i]
    BY <1>2, <2>3 DEF TermMeaning
  <2>4. CASE Selected(body.terms[i], h, K)
    <3>1. L[body.terms[i].of] \in {NULL, K[body.terms[i].of]}
      BY <2>2 DEF Below
    <3> QED
      BY <1>2, <2>4, <3>1 DEF Selected, TermMeaning, Ref
  <2> QED
    BY <1>5, <2>3, <2>4
<1>6. CASE \E i \in DOMAIN body.terms : h = body.terms[i] \/ Selected(body.terms[i], h, K)
  BY <1>5, <1>6 DEF BodyMeaning, body
<1> QED
  BY <1>1, <1>4, <1>6

\* What holds of the first call of a chain and is handed on holds of the last.
LEMMA HandedOn ==
  ASSUME NEW k \in Nat, NEW n \in Nat, k <= n, NEW Good,
         k \in Good, \A j \in k..(n - 1) : j \in Good => j + 1 \in Good
  PROVE  k..n \subseteq Good
<1> SUFFICES ASSUME k..n \ Good # {} PROVE FALSE
  OBVIOUS
<1> DEFINE Bad == (k..n) \ Good
           Rel == {p \in Nat \X Nat : p[1] < p[2]}
<1>1. IsWellFoundedOn(Rel, Nat)
  BY NatLessThanWellFounded DEF OpToRel
<1>2. Bad \subseteq Nat /\ Bad # {}
  OBVIOUS
<1>3. PICK x \in Bad : \A y \in Bad : <<y, x>> \notin Rel
  <2> HIDE DEF Bad, Rel
  <2> QED
    BY <1>1, <1>2, WFMin
<1>4. x \in k..n /\ x # k
  OBVIOUS
<1>5. x - 1 \in k..(n - 1) /\ (x - 1) + 1 = x /\ x - 1 \in k..n /\ x - 1 \in Nat /\ x - 1 < x
  BY <1>4
<1>6. x - 1 \in Bad
  BY <1>5
<1>7. <<x - 1, x>> \in Rel
  BY <1>5
<1> QED
  BY <1>3, <1>6, <1>7

-----------------------------------------------------------------------------
(***************************************************************************)
(* The definitions do not change, so what follows from them does not.      *)
(***************************************************************************)
LEMMA SameMeaning ==
  ASSUME prog' = prog
  PROVE  /\ \A f : Follows(f)' <=> Follows(f)
         /\ \A c, v, strict : Means(c, v, strict)' <=> Means(c, v, strict)
         /\ \A c : Reach(c)' = Reach(c)
<1>1. \A known, strict : Complete(known, strict)' <=> Complete(known, strict)
  BY DEF Complete
<1>2. \A f : Items(f)' = Items(f)
  BY DEF Items, Terms, Sizes
<1>3. \A c : Terms(c)' = Terms(c)
  BY DEF Terms
<1>4. \A f, known : /\ RestOfItems(f, known)' <=> RestOfItems(f, known)
                    /\ SumRight(f, known)' <=> SumRight(f, known)
  BY <1>2, <1>3 DEF RestOfItems, SumRight, Done
<1>5. \A c : Reach(c)' = Reach(c)
  BY DEF Reach, Mentions
<1> QED
  BY <1>1, <1>4, <1>5 DEF Follows, Means
\* The calls that there are now are right by the definitions, which stay.
LEMMA CallsFollowNow ==
  ASSUME prog' = prog, \A k \in DOMAIN stack' : Follows(stack'[k])
  PROVE  CallsFollow'
<1> SUFFICES ASSUME NEW k \in DOMAIN stack' PROVE Follows(stack[k])'
  BY DEF CallsFollow
<1>1. PICK f : f = stack'[k]
  OBVIOUS
<1>2. Follows(f)
  BY <1>1
<1>3. \A known : Complete(known, FALSE)' <=> Complete(known, FALSE)
  BY DEF Complete
<1>4. WaitRight(stack[k])'
  BY <1>1, <1>2 DEF Follows, WaitRight
<1>5. ASSUME NEW known \in Valuations, Complete(known, FALSE)
      PROVE  RestOfItems(stack[k], known)' /\ SumRight(stack[k], known)'
  <2>1. RestOfItems(f, known) /\ SumRight(f, known)
    BY <1>2, <1>5 DEF Follows
  <2>2. RestOfItems(stack[k], known)'
    BY <1>1, <2>1 DEF RestOfItems, Items, Done, Terms, Sizes, Selected
  <2>3. SumRight(stack[k], known)'
    BY <1>1, <2>1 DEF SumRight, Items, Done, Terms, Sizes
  <2> QED
    BY <2>2, <2>3
<1> QED
  BY <1>3, <1>4, <1>5 DEF Follows
-----------------------------------------------------------------------------
(***************************************************************************)
(* The steps.                                                              *)
(***************************************************************************)
\* The innermost call goes on, not waiting any more.
LEMMA TopFollows ==
  ASSUME IInv, CallsFollow, WaitForIdle, prog' = prog, stack # <<>>,
         NEW g \in Frames, stack' = Replace(g), Follows(g), g.wait = NONE
  PROVE  CallsFollow' /\ WaitForIdle'
<1>1. Len(stack) \in Nat /\ DOMAIN stack = 1..Len(stack) /\ DOMAIN stack' = DOMAIN stack
      /\ \A k \in DOMAIN stack : stack'[k] = IF k = Len(stack) THEN g ELSE stack[k]
  BY TopIsFrame, Replaced DEF IInv
<1>2. CallsFollow'
  <2>1. \A k \in DOMAIN stack : Follows(stack'[k])
    BY <1>1 DEF CallsFollow
  <2> QED
    BY <1>1, <2>1, CallsFollowNow
<1>3. WaitForIdle'
  <2> SUFFICES ASSUME NEW j \in DOMAIN stack, NEW k \in DOMAIN stack, j <= k,
                      stack'[j].phase = "eval", stack'[k].wait # NONE
               PROVE  stack'[j].def # stack'[k].wait
    BY <1>1 DEF WaitForIdle
  <2>1. k # Len(stack)
    BY <1>1
  <2>2. j # Len(stack)
    BY <1>1, <2>1
  <2> QED
    BY <1>1, <2>1, <2>2 DEF WaitForIdle
<1> QED
  BY <1>2, <1>3

\* What is known of the innermost call
LEMMA TopKnown ==
  ASSUME IInv, VInv, stack # <<>>
  PROVE  /\ Typed /\ Top \in Frames /\ Follows(Top) /\ WaitRight(Top)
         /\ Len(stack) \in DOMAIN stack /\ Top = stack[Len(stack)]
<1>1. Len(stack) \in DOMAIN stack /\ Top \in Frames
  BY TopIsFrame DEF IInv
<1>2. Follows(Top)
  BY <1>1 DEF VInv, CallsFollow, Top
<1> QED
  BY <1>1, <1>2 DEF Follows, Top, IInv

\* A value that is there is what the constant means.
LEMMA ValueTaken ==
  ASSUME Typed, ValuesAreRight, NEW c \in Consts, value[c] # REC
  PROVE  /\ value[c] \in Values \cup {NULL}
         /\ \A known \in Valuations :
              Complete(known, FALSE) /\ value[c] \in Values => known[c] = value[c]
<1>1. value[c] \in Marks
  BY DEF Typed
<1> QED
  BY <1>1 DEF Marks, ValuesAreRight, Means

LEMMA TakeKeeps ==
  ASSUME IInv, VInv, Asking, UNCHANGED <<prog, value>>, NEW v \in Values \cup {NULL},
         \A known \in Valuations : Complete(known, FALSE) /\ v \in Values => known[Asked] = v,
         stack' = Replace(Take(Top, v))
  PROVE  CallsFollow' /\ WaitForIdle' /\ ValuesAreRight'
<1>1. stack # <<>> /\ Top.rest # <<>> /\ Head(Top.rest).op \in {"ref", "if"}
  BY DEF Asking
<1>2. Typed /\ Top \in Frames /\ Follows(Top)
  BY <1>1, TopKnown
<1>3. SizesOnly(Top, Rank(prog)) /\ Rank(prog) \in [Consts -> Consts] /\ v \in Marks
  BY <1>1, <1>2, TopInInv, RankDescends DEF Typed, Marks
<1>4. Take(Top, v) \in Frames /\ Take(Top, v).wait = NONE
  BY <1>1, <1>2, <1>3, TakeFacts
<1>5. \A known \in Valuations :
        Complete(known, FALSE) /\ v \in Values => known[Head(Top.rest).of] = v
  BY DEF Asked
<1>6. Follows(Take(Top, v))
  BY <1>1, <1>2, <1>5, TakeFollows
<1>7. CallsFollow' /\ WaitForIdle'
  BY <1>1, <1>4, <1>6, TopFollows DEF VInv
<1>8. ValuesAreRight'
  BY SameMeaning DEF VInv, ValuesAreRight
<1> QED
  BY <1>7, <1>8

LEMMA ReferKeeps ==
  ASSUME IInv, VInv, ReferToOpen \/ ReferToEvaluated \/ ReferToIllegal \/ Resume
  PROVE  CallsFollow' /\ WaitForIdle' /\ ValuesAreRight'
<1>1. Typed /\ Asking /\ UNCHANGED <<prog, value>>
  BY DEF IInv, ReferToOpen, ReferToEvaluated, ReferToIllegal, Resume
<1>2. Asked \in Consts
  BY <1>1, AskedIsConst
<1>3. CASE ReferToOpen
  <2>1. NULL \notin Values
    BY DEF NULL, Values
  <2> QED
    BY <1>1, <1>3, <2>1, TakeKeeps DEF ReferToOpen
<1>4. CASE ReferToEvaluated \/ ReferToIllegal
  <2>1. value[Asked] # REC /\ stack' = Replace(Take(Top, value[Asked]))
    BY <1>4 DEF ReferToEvaluated, ReferToIllegal
  <2> QED
    BY <1>1, <1>2, <2>1, ValueTaken, TakeKeeps DEF VInv
<1>5. CASE Resume
  <2>1. stack # <<>> /\ Top.wait # NONE /\ stack' = Replace(Take(Top, value[Top.wait]))
    BY <1>5 DEF Resume, Asking
  <2>2. Top.wait = Asked
    BY <2>1, TopKnown DEF WaitRight, Asked
  <2>3. value[Asked] # REC
    <3> SUFFICES ASSUME value[Asked] = REC PROVE FALSE
      OBVIOUS
    <3>1. PICK j \in DOMAIN stack : stack[j].phase = "eval" /\ stack[j].def = Asked
      BY <1>2 DEF IInv, MarksAreCalls
    <3>2. j <= Len(stack)
      BY <1>1, <2>1, TopIsFrame
    <3> QED
      BY <2>1, <2>2, <3>1, <3>2, TopKnown DEF VInv, WaitForIdle
  <2> QED
    BY <1>1, <1>2, <2>1, <2>2, <2>3, ValueTaken, TakeKeeps DEF VInv
<1> QED
  BY <1>3, <1>4, <1>5

LEMMA NothingKeeps ==
  ASSUME IInv, VInv, EvaluateToNothing
  PROVE  CallsFollow' /\ WaitForIdle' /\ ValuesAreRight'
<1> DEFINE g == [Top EXCEPT !.rest = <<>>, !.acc = NULL]
<1>1. /\ stack # <<>> /\ Top.rest # <<>> /\ Head(Top.rest).op \in {"outside", "mismatch", "unhandled"}
      /\ stack' = Replace(g) /\ UNCHANGED <<prog, value>>
  BY DEF EvaluateToNothing
<1>2. Typed /\ Top \in Frames /\ Follows(Top) /\ WaitRight(Top)
  BY <1>1, TopKnown
<1>3. Top.wait = NONE
  BY <1>1, <1>2 DEF WaitRight
<1>4. Top.phase = "eval"
  <2>1. Top.rest \in Seq(Term) /\ Top.phase \in {"infer", "eval"}
    BY <1>2 DEF Frames
  <2>2. 1 \in DOMAIN Top.rest /\ Top.rest[1].op # "ref"
    BY <1>1, <2>1
  <2> QED
    BY <1>1, <2>1, <2>2, TopInInv DEF SizesOnly
<1>5. g \in Frames
  <2>1. <<>> \in Seq(Term)
    OBVIOUS
  <2> QED
    BY <1>2, <2>1 DEF Frames
<1>6. Follows(g) /\ g.wait = NONE
  BY <1>2, <1>3, <1>4, NothingFollows
<1> HIDE DEF g
<1>7. CallsFollow' /\ WaitForIdle'
  BY <1>1, <1>5, <1>6, TopFollows DEF VInv
<1> QED
  BY <1>1, <1>7, SameMeaning DEF VInv, ValuesAreRight

LEMMA VisitKeeps ==
  ASSUME IInv, VInv, VisitForTypes \/ VisitForValue
  PROVE  CallsFollow' /\ WaitForIdle' /\ ValuesAreRight'
<1>1. UNCHANGED <<prog, value>> /\ stack = <<>> /\ todo # <<>> /\ Typed
  BY DEF VisitForTypes, VisitForValue, IInv
<1>2. ValuesAreRight'
  BY <1>1, SameMeaning DEF VInv, ValuesAreRight
<1>3. Head(todo)[2] \in Consts
  <2>1. Head(todo) \in Visits
    BY <1>1 DEF Typed
  <2> QED
    BY <2>1 DEF Visits
<1>4. CASE stack' = stack
  <2>1. DOMAIN stack' = {}
    BY <1>1, <1>4
  <2>2. CallsFollow'
    BY <1>1, <2>1, CallsFollowNow
  <2>3. WaitForIdle'
    BY <2>1 DEF WaitForIdle
  <2> QED
    BY <1>2, <2>2, <2>3
<1>5. ASSUME NEW goal, stack' = <<Frame(Head(todo)[2], goal)>> PROVE CallsFollow' /\ WaitForIdle'
  <2> DEFINE g == Frame(Head(todo)[2], goal)
  <2>1. Follows(g) /\ g.wait = NONE
    BY <1>1, <1>3, NewFollows
  <2>2. DOMAIN stack' = {1} /\ stack'[1] = g
    BY <1>5
  <2> HIDE DEF g
  <2>3. CallsFollow'
    BY <1>1, <2>1, <2>2, CallsFollowNow
  <2>4. \A k \in DOMAIN stack' : stack'[k].wait = NONE
    BY <2>1, <2>2
  <2> QED
    BY <2>3, <2>4 DEF WaitForIdle
<1> QED
  BY <1>2, <1>4, <1>5 DEF VisitForTypes, VisitForValue

LEMMA NewKeeps ==
  ASSUME IInv, VInv, ReferToNew
  PROVE  CallsFollow' /\ WaitForIdle' /\ ValuesAreRight'
<1> DEFINE n == Len(stack)
           f == [Top EXCEPT !.wait = Asked]
           g == Frame(Asked, "value")
           mid == Replace(f)
<1>1. /\ UNCHANGED <<prog, value>> /\ Asking /\ stack # <<>> /\ Top.wait = NONE
      /\ value[Asked] # REC /\ stack' = Append(mid, g)
  BY DEF ReferToNew, Asking
<1>2. /\ Typed /\ Top \in Frames /\ Follows(Top) /\ n \in Nat \ {0} /\ DOMAIN stack = 1..n
      /\ Top = stack[n]
  BY <1>1, TopKnown, TopIsFrame DEF Top
<1>3. Asked \in Consts
  BY <1>1, <1>2, AskedIsConst
<1>4. Follows(g) /\ g.wait = NONE /\ g.phase = "infer"
  BY <1>2, <1>3, NewFollows
<1>5. g \in Frames
  BY <1>2, <1>3, NewCall
<1>6. /\ f \in Frames /\ f.def = Top.def /\ f.phase = Top.phase /\ f.rest = Top.rest
      /\ f.acc = Top.acc /\ f.wait = Asked
  BY <1>2, <1>3 DEF Frames
<1>7. Follows(f)
  <2> HIDE DEF f
  <2>1. WaitRight(f)
    BY <1>1, <1>2, <1>6 DEF Follows, WaitRight, Asking, Asked
  <2>2. Items(f) = Items(Top)
    BY <1>6 DEF Items
  <2>3. \A known : /\ RestOfItems(f, known) <=> RestOfItems(Top, known)
                   /\ SumRight(f, known) <=> SumRight(Top, known)
    BY <1>6, <2>2 DEF RestOfItems, SumRight, Done
  <2> QED
    BY <1>2, <2>1, <2>3 DEF Follows
<1> HIDE DEF f, g
<1>8. /\ mid \in Seq(Frames) /\ Len(mid) = n
      /\ \A k \in 1..n : mid[k] = IF k = n THEN f ELSE stack[k]
  <2>1. stack \in Seq(Frames) /\ n \in 1..n
    BY <1>2 DEF Typed
  <2> QED
    BY <1>2, <1>6, <2>1, ExceptSeq DEF Replace
<1> HIDE DEF mid
<1>9. /\ DOMAIN stack' = 1..(n + 1) /\ stack'[n + 1] = g
      /\ \A k \in 1..n : stack'[k] = IF k = n THEN f ELSE stack[k]
  <2>1. /\ stack' \in Seq(Frames) /\ Len(stack') = Len(mid) + 1 /\ stack'[Len(mid) + 1] = g
        /\ \A k \in 1..Len(mid) : stack'[k] = mid[k]
    BY <1>1, <1>5, <1>8, AppendProperties
  <2>2. DOMAIN stack' = 1..Len(stack')
    BY <2>1, LenProperties
  <2> QED
    BY <1>8, <2>1, <2>2
<1> HIDE DEF n
<1>10. CallsFollow'
  <2>1. \A k \in 1..n : Follows(stack[k])
    BY <1>2 DEF VInv, CallsFollow
  <2>2. \A k \in 1..(n + 1) : k \in 1..n \/ k = n + 1
    BY <1>2
  <2>3. \A k \in 1..(n + 1) : Follows(stack'[k])
    BY <1>4, <1>7, <1>9, <2>1, <2>2
  <2> QED
    BY <1>1, <1>9, <2>3, CallsFollowNow
<1>11. WaitForIdle'
  <2> SUFFICES ASSUME NEW j \in 1..(n + 1), NEW k \in 1..(n + 1), j <= k,
                      stack'[j].phase = "eval", stack'[k].wait # NONE
               PROVE  stack'[j].def # stack'[k].wait
    BY <1>9 DEF WaitForIdle
  <2>1. k \in 1..n /\ j \in 1..n
    <3>1. k # n + 1
      BY <1>4, <1>9
    <3> QED
      BY <1>2, <3>1
  <2>2. stack'[j].phase = stack[j].phase /\ stack'[j].def = stack[j].def
    BY <1>2, <1>6, <1>9, <2>1
  <2>3. CASE k = n
    <3>1. value[stack[j].def] = REC
      BY <1>2, <2>1, <2>2 DEF IInv, Marked
    <3>2. stack'[k].wait = Asked
      BY <1>6, <1>9, <2>1, <2>3
    <3> QED
      BY <1>1, <2>2, <3>1, <3>2
  <2>4. CASE k # n
    BY <1>2, <1>9, <2>1, <2>2, <2>4 DEF VInv, WaitForIdle
  <2> QED
    BY <2>3, <2>4
<1>12. ValuesAreRight'
  BY <1>1, SameMeaning DEF VInv, ValuesAreRight
<1> QED
  BY <1>10, <1>11, <1>12

\* The innermost call is over.
LEMMA PopKeeps ==
  ASSUME IInv, VInv, prog' = prog, stack # <<>>, stack' = Pop
  PROVE  CallsFollow' /\ WaitForIdle'
<1>1. /\ DOMAIN stack = 1..Len(stack) /\ DOMAIN stack' = 1..(Len(stack) - 1) /\ Len(stack) \in Nat
      /\ \A k \in 1..(Len(stack) - 1) : stack'[k] = stack[k]
  BY TopIsFrame, Popped DEF IInv
<1>2. \A k \in DOMAIN stack' : k \in DOMAIN stack /\ stack'[k] = stack[k]
  BY <1>1
<1>3. CallsFollow'
  BY <1>2, CallsFollowNow DEF VInv, CallsFollow
<1> QED
  BY <1>2, <1>3 DEF VInv, WaitForIdle

LEMMA EndInferKeeps ==
  ASSUME IInv, VInv, EndInfer
  PROVE  CallsFollow' /\ WaitForIdle' /\ ValuesAreRight'
<1>1. prog' = prog /\ stack # <<>> /\ Top.rest = <<>>
  BY DEF EndInfer
<1>2. Typed /\ Top \in Frames /\ WaitRight(Top) /\ Top.def \in Consts
  BY <1>1, TopKnown DEF Frames
<1>3. CASE stack' = Pop /\ UNCHANGED value
  BY <1>1, <1>3, PopKeeps, SameMeaning DEF VInv, ValuesAreRight
<1>4. CASE value' = [value EXCEPT ![Top.def] = REC] /\ stack' = Replace(Evaluating(Top))
  <2>1. Top.wait = NONE
    BY <1>1, <1>2 DEF WaitRight
  <2>2. Follows(Evaluating(Top)) /\ Evaluating(Top).wait = NONE
    BY <1>2, <2>1, BeginFollows
  <2>3. Evaluating(Top) \in Frames
    <3>1. Terms(Top.def) \in Seq(Term)
      BY <1>2, Definitions
    <3> QED
      BY <1>2, <3>1 DEF Evaluating, Frames, Values
  <2>4. CallsFollow' /\ WaitForIdle'
    BY <1>1, <1>4, <2>2, <2>3, TopFollows DEF VInv
  <2>5. ValuesAreRight'
    <3>1. \A c \in Consts : value'[c] \in Values => value'[c] = value[c]
      BY <1>2, <1>4 DEF Typed, Values, REC
    <3> QED
      BY <1>1, <3>1, SameMeaning DEF VInv, ValuesAreRight
  <2> QED
    BY <2>4, <2>5
<1> QED
  BY <1>3, <1>4 DEF EndInfer

LEMMA EndEvalKeeps ==
  ASSUME IInv, VInv, EndEval
  PROVE  CallsFollow' /\ WaitForIdle' /\ ValuesAreRight'
<1>1. /\ prog' = prog /\ stack # <<>> /\ Top.phase = "eval" /\ Top.rest = <<>>
      /\ value' = [value EXCEPT ![Top.def] = Top.acc] /\ stack' = Pop
  BY DEF EndEval
<1>2. Typed /\ Top \in Frames /\ Follows(Top) /\ Top.def \in Consts
  BY <1>1, TopKnown DEF Frames
<1>3. \A c \in Consts : value'[c] = IF c = Top.def THEN Top.acc ELSE value[c]
  BY <1>1, <1>2 DEF Typed
<1>4. Top.acc \in Values => Means(Top.def, Top.acc, FALSE)
  BY <1>1, <1>2, EvaluationFollows
<1>5. \A c \in Consts : value'[c] \in Values => Means(c, value'[c], FALSE)
  BY <1>3, <1>4 DEF VInv, ValuesAreRight
<1>6. ValuesAreRight'
  BY <1>1, <1>5, SameMeaning DEF ValuesAreRight
<1> QED
  BY <1>1, <1>6, PopKeeps
-----------------------------------------------------------------------------
(***************************************************************************)
(* The messages about recursion.                                           *)
(***************************************************************************)
LEMMA RecursionNow ==
  ASSUME prog' = prog,
         \A i \in DOMAIN errors' :
           errors'[i][1] \in {"recursive", "recursive size"} => errors'[i][3] \in Cyclic
  PROVE  RecursionIsReal'
<1> SUFFICES ASSUME NEW i \in DOMAIN errors', errors'[i][1] \in {"recursive", "recursive size"}
             PROVE  /\ (errors[i][3] \in Reach(errors[i][3]))'
                    /\ (~ \E v \in Values : Means(errors[i][3], v, TRUE))'
  BY DEF RecursionIsReal
<1>1. PICK c : c = errors'[i][3]
  OBVIOUS
<1>2. c \in Reach(c) /\ ~ \E v \in Values : Means(c, v, TRUE)
  BY <1>1 DEF Cyclic
<1>3. \A known : Complete(known, TRUE)' <=> Complete(known, TRUE)
  BY DEF Complete
<1>4. (errors[i][3] \in Reach(errors[i][3]))'
  <2>1. \A e : Mentions(e)' = Mentions(e)
    BY DEF Mentions
  <2>2. c \in Reach(c)'
    BY <1>2, SameMeaning
  <2> QED
    BY <1>1, <2>1, <2>2 DEF Reach
<1>5. (~ \E v \in Values : Means(errors[i][3], v, TRUE))'
  BY <1>1, <1>2, <1>3 DEF Means
<1> QED
  BY <1>4, <1>5

LEMMA Appended ==
  ASSUME NEW S, NEW q \in Seq(S), NEW e \in S
  PROVE  \A i \in DOMAIN Append(q, e) :
           (i \in DOMAIN q /\ Append(q, e)[i] = q[i]) \/ Append(q, e)[i] = e
<1>1. Len(q) \in Nat /\ DOMAIN q = 1..Len(q)
  BY LenProperties
<1>2. /\ DOMAIN Append(q, e) = 1..(Len(q) + 1)
      /\ \A i \in 1..Len(q) : Append(q, e)[i] = q[i]
      /\ Append(q, e)[Len(q) + 1] = e
  BY <1>1, AppendProperties, LenProperties
<1>3. \A i \in 1..(Len(q) + 1) : i \in 1..Len(q) \/ i = Len(q) + 1
  BY <1>1
<1> QED
  BY <1>1, <1>2, <1>3

LEMMA NewMessage ==
  ASSUME Typed, RecursionIsReal, prog' = prog,
         NEW kind \in MessageKinds, NEW c \in Consts, NEW d \in Consts, Report(kind, c, d),
         kind \in {"recursive", "recursive size"} => d \in Cyclic
  PROVE  RecursionIsReal'
<1> DEFINE m == <<kind, c, d>>
<1>1. m[1] = kind /\ m[3] = d /\ errors' = Append(errors, m)
  BY DEF Report
<1>2. m \in Messages /\ errors \in Seq(Messages)
  BY DEF Messages, Typed
<1> HIDE DEF m
<1>3. \A i \in DOMAIN errors' : (i \in DOMAIN errors /\ errors'[i] = errors[i]) \/ errors'[i] = m
  BY <1>1, <1>2, Appended, Zenon
<1>4. \A i \in DOMAIN errors :
        errors[i][1] \in {"recursive", "recursive size"} => errors[i][3] \in Cyclic
  BY DEF RecursionIsReal, Cyclic, Reach
<1>5. \A i \in DOMAIN errors' :
        errors'[i][1] \in {"recursive", "recursive size"} => errors'[i][3] \in Cyclic
  BY <1>1, <1>3, <1>4, Zenon
<1> QED
  BY <1>5, RecursionNow

LEMMA SameMessages ==
  ASSUME RecursionIsReal, UNCHANGED <<prog, errors>>
  PROVE  RecursionIsReal'
BY RecursionNow DEF RecursionIsReal, Cyclic, Reach

\* The definitions, with what the sizes need, leave the constant without a value.
NoMeaning(c) ==
  \E K, L \in Valuations :
    Complete(K, FALSE) /\ Complete(L, TRUE) /\ Below(L, K) /\ L[c] = NULL

\* The constant that is asked for is marked: the calls from there on are a cycle.
LEMMA OpenIsCyclic ==
  ASSUME IInv, VInv, Asking, value[Asked] = REC
  PROVE  Asked \in Cyclic /\ NoMeaning(Asked)
<1> DEFINE n == Len(stack)
           x == Asked
<1>1. /\ Typed /\ stack # <<>> /\ Asked \in Consts /\ n \in Nat \ {0} /\ DOMAIN stack = 1..n
      /\ \A j \in 1..n : stack[j] \in Frames
  BY AskedIsConst, TopIsFrame DEF IInv, Asking
<1>2. PICK k \in 1..n : stack[k].phase = "eval" /\ stack[k].def = x
  BY <1>1 DEF IInv, MarksAreCalls
<1>3. ASSUME NEW j \in k..n
      PROVE  /\ stack[j] \in Frames /\ stack[j].def \in Consts /\ Follows(stack[j])
             /\ stack[j].rest # <<>> /\ Head(stack[j].rest).op \in {"ref", "if"}
             /\ j = n => Head(stack[j].rest).of = x
             /\ j < n => j + 1 \in k..n /\ Head(stack[j].rest).of = stack[j + 1].def
  <2>1. j \in 1..n /\ stack[j] \in Frames /\ Follows(stack[j])
    BY <1>1, <1>2, <1>3 DEF VInv, CallsFollow
  <2>2. stack[j].def \in Consts
    BY <2>1 DEF Frames
  <2>3. CASE j = n
    BY <2>1, <2>2, <2>3 DEF Asking, Asked, Top
  <2>4. CASE j < n
    <3>1. j + 1 \in 1..n /\ j + 1 > 1 /\ (j + 1) - 1 = j /\ j + 1 \in k..n /\ j # n
      BY <1>1, <1>2, <2>1, <2>4
    <3>2. stack[j].wait = stack[j + 1].def
      BY <1>1, <3>1 DEF IInv, CallsWait
    <3>3. stack[j + 1].def \in Consts
      BY <1>1, <3>1 DEF Frames
    <3>4. stack[j].wait # NONE
      BY <3>2, <3>3, ProgramsAssumption DEF Consts, NONE
    <3> QED
      BY <2>1, <2>2, <3>1, <3>2, <3>4 DEF Follows, WaitRight
  <2>5. j = n \/ j < n
    <3>1. k \in 1..n /\ j \in k..n /\ n \in Nat
      BY <1>1, <1>2
    <3> HIDE DEF n
    <3> QED
      BY <3>1
  <2> QED
    BY <2>3, <2>4, <2>5
<1>4. k \in k..n /\ n \in k..n /\ k \in Nat /\ k <= n
  BY <1>1, <1>2
<1> HIDE DEF n, x
<1>5. x \in Reach(x)
  <2> SUFFICES ASSUME NEW S \in SUBSET Consts, \A e \in S \cup {x} : Mentions(e) \subseteq S
               PROVE  x \in S
    BY <1>1 DEF Reach, x
  <2>1. \A j \in k..n : Head(stack[j].rest).of \in Mentions(stack[j].def)
    BY <1>1, <1>3, AskedIsMentioned
  <2> DEFINE Good == {j \in k..n : stack[j].def \in S \cup {x}}
  <2>2. k \in Good
    BY <1>2, <1>4
  <2>3. ASSUME NEW j \in k..(n - 1), j \in Good PROVE j + 1 \in Good
    <3>1. j \in k..n /\ j < n /\ stack[j].def \in S \cup {x}
      BY <1>1, <1>2, <2>3 DEF n
    <3>2. j + 1 \in k..n /\ Head(stack[j].rest).of = stack[j + 1].def
      BY <1>3, <3>1
    <3> QED
      BY <2>1, <3>1, <3>2
  <2>4. n \in Good
    <3> HIDE DEF Good
    <3>1. k..n \subseteq Good
      BY <1>1, <1>4, <2>2, <2>3, HandedOn DEF n
    <3> QED
      BY <1>4, <3>1
  <2> QED
    BY <1>3, <1>4, <2>1, <2>4
<1>6. NoMeaning(x)
  <2>1. PICK K \in Valuations : Complete(K, FALSE)
    BY <1>1, CompleteExists
  <2> DEFINE Inside == {stack[j].def : j \in k..n}
             L == [c \in Consts |-> IF c \in Inside THEN NULL ELSE K[c]]
  <2>2. L \in Valuations /\ Below(L, K)
    BY DEF Valuations, Below
  <2>3. x \in Inside
    BY <1>2, <1>4
  <2>4. \A j \in k..n : Head(stack[j].rest).of \in Inside
    <3> TAKE j \in k..n
    <3>1. CASE j = n
      BY <1>3, <2>3, <3>1
    <3>2. CASE j < n
      BY <1>3, <3>2
    <3>3. j = n \/ j < n
      BY <1>1, <1>2
    <3> QED
      BY <3>1, <3>2, <3>3
  <2>5. \A c \in Inside : c \in Consts /\ L[c] = NULL
    BY <1>3
  <2> HIDE DEF L, Inside
  <2>6. ASSUME NEW c \in Consts PROVE BodyMeaning(prog[c], L, TRUE) \in {NULL, L[c]}
    <3>1. CASE c \in Inside
      <4>1. PICK j \in k..n : c = stack[j].def
        BY <3>1 DEF Inside
      <4>2. L[Head(stack[j].rest).of] = NULL
        BY <2>4, <2>5
      <4>3. BodyMeaning(prog[c], L, TRUE) = NULL
        BY <1>1, <1>3, <2>1, <2>2, <4>1, <4>2, NothingWithoutNext
      <4> QED
        BY <4>3
    <3>2. CASE c \notin Inside
      <4>1. L[c] = K[c]
        BY <3>2 DEF L
      <4>2. prog[c] \in Body
        BY <1>1, RankDescends DEF Typed
      <4>3. BodyMeaning(prog[c], L, TRUE) \in {NULL, BodyMeaning(prog[c], K, FALSE)}
        BY <2>1, <2>2, <4>2, BodyMonotone
      <4> QED
        BY <2>1, <4>1, <4>3 DEF Complete
    <3> QED
      BY <3>1, <3>2
  <2> QED
    BY <2>1, <2>2, <2>3, <2>5, <2>6 DEF Complete, NoMeaning
<1>7. NULL \notin Values
  BY DEF NULL, Values
<1> QED
  BY <1>1, <1>5, <1>6, <1>7 DEF Cyclic, Means, NoMeaning, x

LEMMA RecursionKeeps ==
  ASSUME IInv, VInv, Next
  PROVE  RecursionIsReal'
<1>1. Typed /\ RecursionIsReal
  BY DEF IInv, VInv
<1>2. CASE ReferToOpen
  <2>1. Asking /\ value[Asked] = REC /\ prog' = prog /\ stack # <<>>
    BY <1>2 DEF ReferToOpen, Asking
  <2>2. Asked \in Cyclic
    BY <2>1, OpenIsCyclic
  <2>3. Asked \in Consts /\ Top.def \in Consts
    BY <1>1, <2>1, AskedIsConst DEF Frames
  <2>4. PICK kind \in MessageKinds : Report(kind, Top.def, Asked)
    BY <1>2 DEF ReferToOpen, MessageKinds
  <2> QED
    BY <1>1, <2>1, <2>2, <2>3, <2>4, NewMessage
<1>3. CASE ReferToIllegal
  <2>1. Asking /\ Asked \in Consts /\ prog' = prog /\ Report("illegal", Asked, Asked)
    BY <1>1, <1>3, AskedIsConst DEF ReferToIllegal
  <2> QED
    BY <1>1, <2>1, NewMessage DEF MessageKinds
<1>4. CASE EvaluateToNothing
  <2>1. prog' = prog /\ Top.def \in Consts
    BY <1>1, <1>4, TopIsFrame DEF EvaluateToNothing, Frames
  <2>2. CASE Report("outside", Top.def, Top.def)
    BY <1>1, <2>1, <2>2, NewMessage DEF MessageKinds
  <2>3. CASE UNCHANGED errors
    BY <1>1, <2>1, <2>3, SameMessages
  <2> QED
    BY <1>4, <2>2, <2>3 DEF EvaluateToNothing
<1>5. CASE VisitForValue
  <2> DEFINE c == Head(todo)[2]
  <2>1. prog' = prog /\ c \in Consts
    <3>1. todo \in Seq(Visits) /\ todo # <<>> /\ prog' = prog
      BY <1>1, <1>5 DEF VisitForValue, Typed
    <3>2. Head(todo) \in Visits
      BY <3>1
    <3> QED
      BY <3>1, <3>2 DEF Visits
  <2>2. CASE Report("illegal", c, c)
    BY <1>1, <2>1, <2>2, NewMessage DEF MessageKinds
  <2>3. CASE UNCHANGED errors
    BY <1>1, <2>1, <2>3, SameMessages
  <2> QED
    BY <1>5, <2>2, <2>3 DEF VisitForValue
<1>6. CASE EndInfer
  <2>1. prog' = prog /\ errors' = ErrorsAfterChecks
    BY <1>6 DEF EndInfer
  <2>2. CASE errors' = errors
    BY <1>1, <2>1, <2>2, SameMessages
  <2>3. CASE errors' = <<<<"mismatch", Top.def, Top.def>>>>
    <3>1. \A i \in DOMAIN errors' : errors'[i][1] = "mismatch"
      BY <2>3
    <3> QED
      BY <2>1, <3>1, RecursionNow
  <2> QED
    BY <2>1, <2>2, <2>3 DEF ErrorsAfterChecks
<1>7. CASE VisitForTypes \/ ReferToEvaluated \/ ReferToNew \/ Resume \/ EndEval
  <2>1. UNCHANGED <<prog, errors>>
    BY <1>7 DEF VisitForTypes, ReferToEvaluated, ReferToNew, Resume, EndEval
  <2> QED
    BY <1>1, <2>1, SameMessages
<1> QED
  BY <1>2, <1>3, <1>4, <1>5, <1>6, <1>7 DEF Next
-----------------------------------------------------------------------------
LEMMA VInvInit ==
  ASSUME Init
  PROVE  VInv
<1>1. DOMAIN stack = {} /\ DOMAIN errors = {}
  BY DEF Init
<1>2. \A c \in Consts : value[c] \notin Values
  BY DEF Init, Values, NULL
<1> QED
  BY <1>1, <1>2 DEF VInv, CallsFollow, WaitForIdle, ValuesAreRight, RecursionIsReal

LEMMA VInvNext ==
  ASSUME IInv, VInv, [Next]_vars
  PROVE  VInv'
<1>1. CASE Next
  <2>1. RecursionIsReal'
    BY <1>1, RecursionKeeps
  <2>2. CallsFollow' /\ WaitForIdle' /\ ValuesAreRight'
    BY <1>1, VisitKeeps, ReferKeeps, NewKeeps, NothingKeeps, EndInferKeeps, EndEvalKeeps DEF Next
  <2> QED
    BY <2>1, <2>2 DEF VInv
<1>2. CASE UNCHANGED vars
  <2>1. UNCHANGED <<prog, value, errors, stack>>
    BY <1>2 DEF vars
  <2>2. CallsFollow'
    BY <2>1, CallsFollowNow DEF VInv, CallsFollow
  <2>3. WaitForIdle'
    BY <2>1 DEF VInv, WaitForIdle
  <2>4. ValuesAreRight'
    BY <2>1, SameMeaning DEF VInv, ValuesAreRight
  <2>5. RecursionIsReal'
    BY <2>1, SameMessages DEF VInv
  <2> QED
    BY <2>2, <2>3, <2>4, <2>5 DEF VInv
<1> QED
  BY <1>1, <1>2

LEMMA ValuesInvariant == Spec => []VInv
<1>1. Init => VInv
  BY VInvInit
<1>2. IInv /\ VInv /\ [Next]_vars => VInv'
  BY VInvNext
<1> QED
  BY <1>1, <1>2, Invariance, PTL DEF Spec

\* A constant has no other value than the one that the definitions give it,
\* in whatever order the constants are evaluated and whatever went wrong
\* before (evaluateConstantDefinition, evaluateConstExpr).
THEOREM ValuesFollowDefinitions == Spec => []ValuesAreRight
<1>1. VInv => ValuesAreRight
  BY DEF VInv
<1> QED
  BY <1>1, ValuesInvariant, PTL

\* What is reported as recursive is: the definition goes round, and gives no
\* value (the check for RECURSION_CHECK_TYPE).
THEOREM ReportedRecursionIsReal == Spec => []RecursionIsReal
<1>1. VInv => RecursionIsReal
  BY DEF VInv
<1> QED
  BY <1>1, ValuesInvariant, PTL
-----------------------------------------------------------------------------
(***************************************************************************)
(* Constants without a value.  Whatever goes wrong, a constant is left     *)
(* without a value only if its definition gives it none; and until the     *)
(* first error only an operation that evaluation has no case for can.      *)
(***************************************************************************)
Lost(clean) == {c \in Consts : NoMeaning(c) /\ (clean => RestsOnUnhandled(c))}

LostNow == Lost(errors = <<>>)

\* What was evaluated in vain, or is about to be, is lost,
LostValues == \A c \in Consts : evaluated[c] /\ value[c] = NULL => c \in LostNow

LostCalls ==
  \A k \in DOMAIN stack :
    \/ stack[k].phase = "eval" /\ stack[k].acc = NULL
    \/ stack[k].phase = "infer" /\ Len(errors) # stack[k].old
    => stack[k].def \in LostNow

\* a call that goes on with a constant that was not evaluated does so in vain,
LostWaits == stack # <<>> /\ Top.wait # NONE => evaluated[Top.wait] \/ Top.wait \in LostNow

\* and a constant that is not to be evaluated any more need not be.
LostPlans == \A c \in Consts : Planned(c) \/ c \in LostNow

NInv == LostValues /\ LostCalls /\ LostWaits /\ LostPlans

-----------------------------------------------------------------------------
\* A constant is without a meaning for a term that has no value.
LEMMA LostForTerm ==
  ASSUME Typed, NEW c \in Consts, NEW op \in {"illegal", "outside", "mismatch", "unhandled"},
         Has(c, op), NEW clean \in BOOLEAN, clean => op = "unhandled"
  PROVE  c \in Lost(clean)
<1>1. PICK i \in DOMAIN prog[c].terms : prog[c].terms[i].op = op
  BY DEF Has
<1>2. PICK K \in Valuations : Complete(K, FALSE)
  BY CompleteExists
<1> DEFINE L == [K EXCEPT ![c] = NULL]
<1>3. L \in Valuations /\ Below(L, K) /\ L[c] = NULL
  BY DEF Valuations, Below
<1>4. \A d \in Consts : d # c => L[d] = K[d]
  BY DEF Valuations
<1> HIDE DEF L
<1>5. ASSUME NEW d \in Consts PROVE BodyMeaning(prog[d], L, TRUE) \in {NULL, L[d]}
  <2>1. CASE d = c
    <3>1. TermMeaning(prog[c].terms[i], L) = NULL
      BY <1>1 DEF TermMeaning
    <3> QED
      BY <2>1, <3>1 DEF BodyMeaning
  <2>2. CASE d # c
    <3>1. prog[d] \in Body
      BY RankDescends DEF Typed
    <3>2. BodyMeaning(prog[d], L, TRUE) \in {NULL, BodyMeaning(prog[d], K, FALSE)}
      BY <1>2, <1>3, <3>1, BodyMonotone
    <3> QED
      BY <1>2, <1>4, <2>2, <3>2 DEF Complete
  <2> QED
    BY <2>1, <2>2
<1>6. NoMeaning(c)
  BY <1>2, <1>3, <1>5 DEF NoMeaning, Complete
<1>7. clean => RestsOnUnhandled(c)
  BY DEF RestsOnUnhandled
<1> QED
  BY <1>6, <1>7 DEF Lost

\* The definition that needs a lost constant next is lost itself.
LEMMA LossHandedOn ==
  ASSUME Typed, NEW f \in Frames, Follows(f), f.rest # <<>>, Head(f.rest).op \in {"ref", "if"},
         NEW clean \in BOOLEAN, Head(f.rest).of \in Lost(clean)
  PROVE  f.def \in Lost(clean)
<1> DEFINE x == Head(f.rest).of
           c == f.def
<1>1. c \in Consts /\ x \in Consts /\ NoMeaning(x) /\ (clean => RestsOnUnhandled(x))
  BY DEF Frames, Lost
<1>2. NoMeaning(c)
  <2>1. PICK K \in Valuations, J \in Valuations :
          Complete(K, FALSE) /\ Complete(J, TRUE) /\ Below(J, K) /\ J[x] = NULL
    BY <1>1 DEF NoMeaning
  <2> DEFINE L == [J EXCEPT ![c] = NULL]
  <2>2. L \in Valuations /\ Below(L, K) /\ Below(L, J) /\ L[c] = NULL
    BY <1>1, <2>1 DEF Valuations, Below
  <2>3. \A d \in Consts : d # c => L[d] = J[d]
    BY DEF Valuations
  <2>4. BodyMeaning(prog[c], J, TRUE) = NULL
    BY <2>1, NothingWithoutNext
  <2> HIDE DEF L
  <2>5. ASSUME NEW d \in Consts PROVE BodyMeaning(prog[d], L, TRUE) \in {NULL, L[d]}
    <3>1. prog[d] \in Body
      BY RankDescends DEF Typed
    <3>2. BodyMeaning(prog[d], L, TRUE) \in {NULL, BodyMeaning(prog[d], J, TRUE)}
      BY <2>2, <3>1, BodyMonotone
    <3>3. CASE d = c
      BY <2>4, <3>2, <3>3
    <3>4. CASE d # c
      BY <2>1, <2>3, <3>2, <3>4 DEF Complete
    <3> QED
      BY <3>3, <3>4
  <2> QED
    BY <2>1, <2>2, <2>5 DEF NoMeaning, Complete
<1>3. clean => RestsOnUnhandled(c)
  <2> SUFFICES ASSUME RestsOnUnhandled(x) PROVE RestsOnUnhandled(c)
    BY <1>1
  <2>1. PICK d \in Reach(x) \cup {x} : Has(d, "unhandled")
    BY DEF RestsOnUnhandled
  <2>2. x \in Mentions(c)
    BY AskedIsMentioned
  <2>3. d \in Reach(c)
    <3> SUFFICES ASSUME NEW S \in SUBSET Consts, \A e \in S \cup {c} : Mentions(e) \subseteq S
                 PROVE  d \in S
      BY <1>1, <2>1 DEF Reach
    <3>1. x \in S /\ S \cup {x} = S
      BY <2>2
    <3> QED
      BY <2>1, <3>1 DEF Reach
  <2> QED
    BY <2>1, <2>3 DEF RestsOnUnhandled
<1> QED
  BY <1>1, <1>2, <1>3 DEF Lost

\* Every call but the innermost one asks for the constant of the next.
LEMMA CallAsks ==
  ASSUME IInv, VInv, stack # <<>>, NEW j \in 1..(Len(stack) - 1)
  PROVE  /\ stack[j] \in Frames /\ Follows(stack[j]) /\ stack[j].rest # <<>>
         /\ Head(stack[j].rest).op \in {"ref", "if"}
         /\ Head(stack[j].rest).of = stack[j + 1].def
<1>1. Len(stack) \in Nat /\ DOMAIN stack = 1..Len(stack) /\ \A k \in 1..Len(stack) : stack[k] \in Frames
  BY TopIsFrame DEF IInv
<1>2. j \in 1..Len(stack) /\ j + 1 \in 1..Len(stack) /\ j + 1 > 1 /\ (j + 1) - 1 = j
  BY <1>1
<1>3. stack[j].wait = stack[j + 1].def
  BY <1>1, <1>2 DEF IInv, CallsWait
<1>4. stack[j + 1].def \in Consts
  BY <1>1, <1>2 DEF Frames
<1>5. stack[j].wait # NONE
  BY <1>3, <1>4, ProgramsAssumption DEF Consts, NONE
<1>6. Follows(stack[j])
  BY <1>1, <1>2 DEF VInv, CallsFollow
<1> QED
  BY <1>1, <1>2, <1>3, <1>5, <1>6 DEF Follows, WaitRight

\* When the innermost definition is lost all that wait for it are.
LEMMA AllAreLost ==
  ASSUME IInv, VInv, stack # <<>>, NEW clean \in BOOLEAN, Top.def \in Lost(clean)
  PROVE  \A k \in DOMAIN stack : stack[k].def \in Lost(clean)
<1> DEFINE n == Len(stack)
           Good == {j \in 1..n : stack[j].def \notin Lost(clean)}
<1>1. n \in Nat \ {0} /\ DOMAIN stack = 1..n /\ Typed
  BY TopIsFrame DEF IInv
<1>2. ASSUME NEW j \in 1..(n - 1), stack[j + 1].def \in Lost(clean)
      PROVE  stack[j].def \in Lost(clean)
  BY <1>1, <1>2, CallAsks, LossHandedOn
<1>3. Top = stack[n]
  BY DEF Top
<1> HIDE DEF n
<1> SUFFICES ASSUME NEW k \in 1..n, stack[k].def \notin Lost(clean) PROVE FALSE
  BY <1>1
<1>4. k \in Nat /\ k <= n /\ k \in Good
  BY <1>1
<1>5. ASSUME NEW j \in k..(n - 1), j \in Good PROVE j + 1 \in Good
  <2>1. j \in 1..(n - 1) /\ j + 1 \in 1..n
    BY <1>1
  <2> QED
    BY <1>2, <1>5, <2>1
<1> HIDE DEF Good
<1>6. k..n \subseteq Good
  BY <1>1, <1>4, <1>5, HandedOn
<1>7. n \in k..n
  BY <1>1
<1> QED
  BY <1>3, <1>6, <1>7 DEF Good

-----------------------------------------------------------------------------
\* Who is lost stays so, and after the first error no less is needed.
LEMMA LostAfter ==
  ASSUME prog' = prog, errors' = <<>> => errors = <<>>
  PROVE  \E clean \in BOOLEAN :
           (clean <=> errors' = <<>>) /\ LostNow' = Lost(clean) /\ LostNow \subseteq Lost(clean)
<1>1. \A known, strict : Complete(known, strict)' <=> Complete(known, strict)
  BY DEF Complete
<1>2. \A c : NoMeaning(c)' <=> NoMeaning(c)
  BY <1>1 DEF NoMeaning
<1>3. \A c : RestsOnUnhandled(c)' <=> RestsOnUnhandled(c)
  <2>1. \A c, op : Has(c, op)' <=> Has(c, op)
    BY DEF Has
  <2> QED
    BY <2>1, SameMeaning DEF RestsOnUnhandled
<1>4. PICK clean \in BOOLEAN : clean <=> errors' = <<>>
  OBVIOUS
<1>5. LostNow' = {c \in Consts : NoMeaning(c)' /\ (errors' = <<>> => RestsOnUnhandled(c)')}
  BY DEF LostNow, Lost
<1>6. LostNow' = Lost(clean)
  BY <1>2, <1>3, <1>4, <1>5 DEF Lost
<1>7. LostNow \subseteq Lost(clean)
  BY <1>4 DEF LostNow, Lost
<1> QED
  BY <1>4, <1>6, <1>7

\* What evaluates to nothing is a term of the definition.
LEMMA NothingItem ==
  ASSUME IInv, VInv, EvaluateToNothing
  PROVE  /\ Typed /\ Top \in Frames /\ Top.phase = "eval" /\ Top.wait = NONE
         /\ Top.rest # <<>> /\ Has(Top.def, Head(Top.rest).op)
<1>1. /\ stack # <<>> /\ Top.rest # <<>> /\ Head(Top.rest).op \in {"outside", "mismatch", "unhandled"}
  BY DEF EvaluateToNothing
<1>2. Typed /\ Top \in Frames /\ Follows(Top) /\ WaitRight(Top) /\ Top.def \in Consts
  BY <1>1, TopKnown DEF Frames
<1>3. /\ Top.rest \in Seq(Term) /\ Top.phase \in {"infer", "eval"}
      /\ 1 \in DOMAIN Top.rest /\ Head(Top.rest) = Top.rest[1]
  BY <1>1, <1>2 DEF Frames
<1>4. Top.phase = "eval"
  <2>1. Top.rest[1].op # "ref"
    BY <1>1, <1>3
  <2> QED
    BY <1>1, <1>3, <2>1, TopInInv DEF IInv, SizesOnly
<1>5. PICK known \in Valuations : Complete(known, FALSE)
  BY <1>2, CompleteExists
<1>6. RestOfItems(Top, known)
  BY <1>2, <1>5 DEF Follows
<1> DEFINE i == Done(Top) + 1
<1>7. Items(Top) = Terms(Top.def) /\ DOMAIN Terms(Top.def) = 1..Len(Terms(Top.def))
      /\ Len(Terms(Top.def)) \in Nat /\ Len(Top.rest) \in Nat \ {0}
  BY <1>1, <1>2, <1>4, Definitions, ItemsOfCall DEF Items
<1>8. i \in DOMAIN Terms(Top.def)
  BY <1>6, <1>7 DEF RestOfItems, Done
<1>9. Top.rest[1] = Terms(Top.def)[i]
  <2>1. Top.rest[1].op # "ref"
    BY <1>1, <1>3
  <2>2. ~ Selected(Terms(Top.def)[i], Top.rest[1], known)
    BY <2>1 DEF Selected, Ref
  <2> QED
    BY <1>3, <1>6, <1>7, <2>2 DEF RestOfItems
<1> HIDE DEF i
<1>10. Has(Top.def, Head(Top.rest).op)
  BY <1>3, <1>8, <1>9 DEF Has, Terms
<1> QED
  BY <1>1, <1>2, <1>3, <1>4, <1>10 DEF WaitRight

\* A message is about a constant that the innermost definition cannot do without.
LEMMA ErrorsAreLosses ==
  ASSUME IInv, VInv, Next, stack # <<>>
  PROVE  errors' = errors \/ (errors' # <<>> /\ Top.def \in Lost(FALSE))
<1>1. Typed /\ Top \in Frames /\ Follows(Top) /\ Top.def \in Consts
  BY TopKnown DEF Frames
<1>2. ASSUME Asking, Asked \in Lost(FALSE) PROVE Top.def \in Lost(FALSE)
  BY <1>1, <1>2, LossHandedOn DEF Asking, Asked
<1>3. CASE ReferToOpen
  <2>1. Asking /\ value[Asked] = REC /\ Asked \in Consts
    BY <1>1, <1>3, AskedIsConst DEF ReferToOpen
  <2>2. Asked \in Lost(FALSE)
    BY <2>1, OpenIsCyclic DEF Lost
  <2>3. PICK kind \in MessageKinds : Report(kind, Top.def, Asked)
    BY <1>3 DEF ReferToOpen, MessageKinds
  <2> QED
    BY <1>1, <1>2, <2>1, <2>2, <2>3, Reported
<1>4. CASE ReferToIllegal
  <2>1. Asking /\ Asked \in Consts /\ Has(Asked, "illegal") /\ Report("illegal", Asked, Asked)
    BY <1>1, <1>4, AskedIsConst DEF ReferToIllegal, Valid
  <2>2. Asked \in Lost(FALSE)
    BY <1>1, <2>1, LostForTerm
  <2> QED
    BY <1>1, <1>2, <2>1, <2>2, Reported DEF MessageKinds
<1>5. CASE EvaluateToNothing
  <2>1. CASE Head(Top.rest).op = "outside"
    <3>1. Has(Top.def, "outside") /\ Report("outside", Top.def, Top.def)
      BY <1>5, <2>1, NothingItem DEF EvaluateToNothing
    <3> QED
      BY <1>1, <3>1, LostForTerm, Reported DEF MessageKinds
  <2>2. CASE Head(Top.rest).op # "outside"
    BY <1>5, <2>2 DEF EvaluateToNothing
  <2> QED
    BY <2>1, <2>2
<1>6. CASE EndInfer
  <2>1. CASE errors' = errors
    BY <2>1
  <2>2. CASE Has(Top.def, "mismatch") /\ errors' = <<<<"mismatch", Top.def, Top.def>>>>
    <3>1. Top.def \in Lost(FALSE)
      BY <1>1, <2>2, LostForTerm
    <3>2. \A m : <<m>> # <<>>
      OBVIOUS
    <3> QED
      BY <2>2, <3>1, <3>2
  <2> QED
    BY <1>6, <2>1, <2>2 DEF EndInfer, ErrorsAfterChecks
<1>7. CASE VisitForTypes \/ VisitForValue
  BY <1>7 DEF VisitForTypes, VisitForValue
<1>8. CASE ReferToEvaluated \/ ReferToNew \/ Resume \/ EndEval
  BY <1>8 DEF ReferToEvaluated, ReferToNew, Resume, EndEval
<1> QED
  BY <1>3, <1>4, <1>5, <1>6, <1>7, <1>8 DEF Next

\* The calls there are, after the message of the step.
LEMMA CallsAfter ==
  ASSUME IInv, VInv, NInv, Next, stack # <<>>
  PROVE  /\ prog' = prog /\ (errors' = <<>> => errors = <<>>) /\ LostNow \subseteq LostNow'
         /\ \A k \in DOMAIN stack :
              \/ stack[k].phase = "eval" /\ stack[k].acc = NULL
              \/ stack[k].phase = "infer" /\ Len(errors') # stack[k].old
              => stack[k].def \in LostNow'
<1>1. prog' = prog
  BY DEF Next, VisitForTypes, VisitForValue, ReferToOpen, ReferToEvaluated, ReferToIllegal,
         ReferToNew, Resume, EvaluateToNothing, EndInfer, EndEval
<1>2. errors' = errors \/ (errors' # <<>> /\ Top.def \in Lost(FALSE))
  BY ErrorsAreLosses
<1>3. errors' = <<>> => errors = <<>>
  BY <1>2
<1>4. PICK clean \in BOOLEAN :
        (clean <=> errors' = <<>>) /\ LostNow' = Lost(clean) /\ LostNow \subseteq Lost(clean)
  BY <1>1, <1>3, LostAfter
<1>5. CASE errors' = errors
  BY <1>1, <1>4, <1>5 DEF NInv, LostCalls
<1>6. CASE errors' # <<>> /\ Top.def \in Lost(FALSE)
  <2>1. clean = FALSE
    BY <1>4, <1>6
  <2>2. \A k \in DOMAIN stack : stack[k].def \in Lost(FALSE)
    BY <1>6, AllAreLost
  <2> QED
    BY <1>1, <1>3, <1>4, <2>1, <2>2
<1> QED
  BY <1>2, <1>5, <1>6

-----------------------------------------------------------------------------
\* The innermost call goes on, not waiting any more.
LEMMA TopLost ==
  ASSUME IInv, VInv, NInv, Next, UNCHANGED <<evaluated, todo>>,
         \A c \in Consts : evaluated[c] /\ value'[c] = NULL => value[c] = NULL,
         stack # <<>>, NEW g \in Frames, stack' = Replace(g), g.wait = NONE,
         g.def = Top.def, g.goal = Top.goal, g.old = Top.old,
         g.phase = "infer" => Top.phase = "infer",
         g.phase = "eval" /\ g.acc = NULL => Top.def \in LostNow'
  PROVE  NInv'
<1> DEFINE n == Len(stack)
<1>1. /\ n \in Nat \ {0} /\ DOMAIN stack = 1..n /\ Top = stack[n]
  BY TopIsFrame DEF IInv, Top
<1>2. /\ stack' # <<>> /\ DOMAIN stack' = DOMAIN stack /\ Top' = g
      /\ \A k \in DOMAIN stack : stack'[k] = IF k = n THEN g ELSE stack[k]
  BY Replaced DEF IInv
<1>3. LostNow \subseteq LostNow' /\
      \A k \in DOMAIN stack :
        \/ stack[k].phase = "eval" /\ stack[k].acc = NULL
        \/ stack[k].phase = "infer" /\ Len(errors') # stack[k].old
        => stack[k].def \in LostNow'
  BY CallsAfter
<1> HIDE DEF n
<1>4. LostValues'
  BY <1>3 DEF NInv, LostValues
<1>5. LostCalls'
  <2> SUFFICES ASSUME NEW k \in 1..n,
                      \/ stack'[k].phase = "eval" /\ stack'[k].acc = NULL
                      \/ stack'[k].phase = "infer" /\ Len(errors') # stack'[k].old
               PROVE  stack'[k].def \in LostNow'
    BY <1>1, <1>2 DEF LostCalls
  <2>1. CASE k = n
    BY <1>1, <1>2, <1>3, <2>1
  <2>2. CASE k # n
    BY <1>1, <1>2, <1>3, <2>2
  <2> QED
    BY <2>1, <2>2
<1>6. LostWaits'
  BY <1>2 DEF LostWaits
<1>7. LostPlans'
  <2>1. 1 \in 1..n /\ stack'[1].def = stack[1].def /\ stack'[1].goal = stack[1].goal
    BY <1>1, <1>2
  <2>2. \A c \in Consts : Planned(c) => Planned(c)'
    BY <1>2, <2>1 DEF Planned
  <2> QED
    BY <1>3, <2>2 DEF NInv, LostPlans
<1> QED
  BY <1>4, <1>5, <1>6, <1>7 DEF NInv

\* A constant that there is no value of is lost.
LEMMA TakeLost ==
  ASSUME IInv, VInv, NInv, Next, Asking, UNCHANGED <<value, evaluated, todo>>,
         NEW v \in Marks, stack' = Replace(Take(Top, v)), v = NULL => Asked \in LostNow'
  PROVE  NInv'
<1>1. stack # <<>> /\ Top.rest # <<>> /\ Head(Top.rest).op \in {"ref", "if"}
  BY DEF Asking
<1>2. Typed /\ Top \in Frames /\ Follows(Top) /\ WaitRight(Top)
  BY <1>1, TopKnown
<1>3. SizesOnly(Top, Rank(prog)) /\ Rank(prog) \in [Consts -> Consts]
  BY <1>1, <1>2, TopInInv, RankDescends DEF Typed
<1> DEFINE g == Take(Top, v)
<1>4. /\ g \in Frames /\ g.wait = NONE
      /\ g.def = Top.def /\ g.phase = Top.phase /\ g.goal = Top.goal /\ g.old = Top.old
      /\ g.acc = NULL => v = NULL \/ Top.acc = NULL
  BY <1>1, <1>2, <1>3, TakeFacts
<1>5. stack' = Replace(g)
  OBVIOUS
<1> HIDE DEF g
<1>6. ASSUME g.phase = "eval", g.acc = NULL PROVE Top.def \in LostNow'
  <2>1. Top.acc # NULL
    BY <1>1, <1>2, <1>4, <1>6 DEF WaitRight
  <2>2. Head(Top.rest).of \in LostNow'
    BY <1>4, <1>6, <2>1 DEF Asked
  <2>3. prog' = prog /\ (errors' = <<>> => errors = <<>>)
    BY <1>1, CallsAfter
  <2>4. PICK clean \in BOOLEAN : LostNow' = Lost(clean)
    BY <2>3, LostAfter
  <2> QED
    BY <1>1, <1>2, <2>2, <2>4, LossHandedOn
<1> QED
  BY <1>1, <1>4, <1>5, <1>6, TopLost

LEMMA ReferLost ==
  ASSUME IInv, VInv, NInv, Next, ReferToOpen \/ ReferToEvaluated \/ ReferToIllegal \/ Resume
  PROVE  NInv'
<1>1. Asking /\ Typed /\ stack # <<>> /\ UNCHANGED <<value, evaluated, todo>>
  BY DEF IInv, ReferToOpen, ReferToEvaluated, ReferToIllegal, Resume, Asking
<1>2. Asked \in Consts
  BY <1>1, AskedIsConst
<1>3. value[Asked] \in Marks /\ NULL \in Marks
  BY <1>1, <1>2 DEF Typed, Marks
<1>4. prog' = prog /\ (errors' = <<>> => errors = <<>>) /\ LostNow \subseteq LostNow'
  BY <1>1, CallsAfter
<1>5. PICK clean \in BOOLEAN : (clean <=> errors' = <<>>) /\ LostNow' = Lost(clean)
  BY <1>4, LostAfter
<1>6. evaluated[Asked] /\ value[Asked] = NULL => Asked \in LostNow'
  BY <1>2, <1>4 DEF NInv, LostValues
<1>7. CASE ReferToOpen
  <2>1. value[Asked] = REC /\ stack' = Replace(Take(Top, NULL))
    BY <1>7 DEF ReferToOpen
  <2>2. PICK kind \in MessageKinds : Report(kind, Top.def, Asked)
    BY <1>7 DEF ReferToOpen, MessageKinds
  <2>3. Top.def \in Consts
    BY <1>1, AskedIsConst DEF Frames
  <2>4. errors' # <<>>
    BY <1>1, <1>2, <2>2, <2>3, Reported
  <2>5. Asked \in LostNow'
    BY <1>1, <1>2, <1>5, <2>1, <2>4, OpenIsCyclic DEF Lost
  <2> QED
    BY <1>1, <1>3, <2>1, <2>5, TakeLost
<1>8. CASE ReferToEvaluated
  BY <1>1, <1>3, <1>6, <1>8, TakeLost DEF ReferToEvaluated
<1>9. CASE ReferToIllegal
  <2>1. Has(Asked, "illegal") /\ Report("illegal", Asked, Asked)
    BY <1>9 DEF ReferToIllegal, Valid
  <2>2. errors' # <<>>
    BY <1>1, <1>2, <2>1, Reported DEF MessageKinds
  <2>3. Asked \in LostNow'
    BY <1>1, <1>2, <1>5, <2>1, <2>2, LostForTerm
  <2> QED
    BY <1>1, <1>3, <1>9, <2>3, TakeLost DEF ReferToIllegal
<1>10. CASE Resume
  <2>1. Top.wait # NONE /\ stack' = Replace(Take(Top, value[Top.wait]))
    BY <1>10 DEF Resume
  <2>2. Top.wait = Asked
    BY <1>1, <2>1, TopKnown DEF WaitRight, Asked
  <2>3. value[Asked] = NULL => Asked \in LostNow'
    BY <1>1, <1>4, <1>6, <2>1, <2>2 DEF NInv, LostWaits
  <2> QED
    BY <1>1, <1>3, <2>1, <2>2, <2>3, TakeLost
<1> QED
  BY <1>7, <1>8, <1>9, <1>10

LEMMA NothingLost ==
  ASSUME IInv, VInv, NInv, Next, EvaluateToNothing
  PROVE  NInv'
<1> DEFINE op == Head(Top.rest).op
           g == [Top EXCEPT !.rest = <<>>, !.acc = NULL]
<1>1. /\ stack # <<>> /\ op \in {"outside", "mismatch", "unhandled"} /\ stack' = Replace(g)
      /\ UNCHANGED <<value, evaluated, todo>>
      /\ op = "outside" => Report("outside", Top.def, Top.def)
  BY DEF EvaluateToNothing
<1>2. /\ Typed /\ Top \in Frames /\ Top.phase = "eval" /\ Top.wait = NONE
      /\ Top.rest # <<>> /\ Has(Top.def, op) /\ Top.def \in Consts
  BY NothingItem DEF Frames
<1>3. /\ g \in Frames /\ g.wait = NONE /\ g.def = Top.def /\ g.goal = Top.goal
      /\ g.old = Top.old /\ g.phase = "eval"
  <2>1. <<>> \in Seq(Term)
    OBVIOUS
  <2> QED
    BY <1>2, <2>1 DEF Frames
<1> HIDE DEF g
<1>4. prog' = prog /\ (errors' = <<>> => errors = <<>>)
  BY <1>1, CallsAfter
<1>5. PICK clean \in BOOLEAN : (clean <=> errors' = <<>>) /\ LostNow' = Lost(clean)
  BY <1>4, LostAfter
<1>6. clean => op = "unhandled"
  <2>1. op = "outside" => errors' # <<>>
    BY <1>1, <1>2, Reported DEF MessageKinds
  <2>2. op = "mismatch" => errors # <<>>
    <3> SUFFICES ASSUME op = "mismatch", errors = <<>> PROVE FALSE
      OBVIOUS
    <3>1. Clear(Top)
      BY <1>1, TopInInv
    <3>2. Top.rest \in Seq(Term)
      BY <1>2 DEF Frames
    <3>3. 1 \in DOMAIN Top.rest /\ Top.rest[1].op = "mismatch"
      BY <1>2, <3>2
    <3> QED
      BY <1>2, <3>1, <3>3 DEF Clear
  <2> QED
    BY <1>1, <1>4, <1>5, <2>1, <2>2
<1>7. Top.def \in LostNow'
  BY <1>1, <1>2, <1>5, <1>6, LostForTerm
<1> QED
  BY <1>1, <1>3, <1>7, TopLost

\* The innermost call is over.
LEMMA PopLost ==
  ASSUME IInv, VInv, NInv, Next, UNCHANGED todo, stack # <<>>, stack' = Pop, LostValues',
         \A c \in Consts : evaluated[c] => evaluated'[c],
         Top.goal = "value" => evaluated'[Top.def] \/ Top.def \in LostNow'
  PROVE  NInv'
<1> DEFINE n == Len(stack)
<1>1. /\ n \in Nat \ {0} /\ DOMAIN stack = 1..n /\ Top = stack[n] /\ Typed
  BY TopIsFrame DEF IInv, Top
<1>2. /\ Len(stack') = n - 1 /\ DOMAIN stack' = 1..(n - 1)
      /\ \A k \in 1..(n - 1) : stack'[k] = stack[k]
      /\ stack' = <<>> <=> n = 1
  BY <1>1, Popped
<1>3. LostNow \subseteq LostNow' /\
      \A k \in DOMAIN stack :
        \/ stack[k].phase = "eval" /\ stack[k].acc = NULL
        \/ stack[k].phase = "infer" /\ Len(errors') # stack[k].old
        => stack[k].def \in LostNow'
  BY CallsAfter
<1> HIDE DEF n
<1>4. LostCalls'
  <2>1. \A k \in 1..(n - 1) : k \in 1..n
    BY <1>1
  <2> QED
    BY <1>1, <1>2, <1>3, <2>1 DEF LostCalls
<1>5. LostWaits'
  <2> SUFFICES ASSUME stack' # <<>>
               PROVE  evaluated'[Top'.wait] \/ Top'.wait \in LostNow'
    BY DEF LostWaits
  <2>1. n \in 1..n /\ n > 1 /\ n - 1 \in 1..(n - 1)
    BY <1>1, <1>2
  <2>2. Top' = stack[n - 1]
    BY <1>2, <2>1 DEF Top
  <2>3. Top'.wait = Top.def /\ Top.goal = "value"
    BY <1>1, <2>1, <2>2 DEF IInv, CallsWait
  <2> QED
    BY <2>3
<1>6. LostPlans'
  <2> SUFFICES ASSUME NEW c \in Consts PROVE Planned(c)' \/ c \in LostNow'
    BY DEF LostPlans
  <2>1. c \in LostNow \/ Planned(c)
    BY DEF NInv, LostPlans
  <2>2. CASE c \in LostNow \/ evaluated[c] \/ \E i \in DOMAIN todo : todo[i] = <<"values", c>>
    BY <1>3, <2>2 DEF Planned
  <2>3. CASE stack[1].def = c /\ stack[1].goal = "value"
    <3>1. CASE n = 1
      BY <1>1, <2>3, <3>1 DEF Planned
    <3>2. CASE n # 1
      <4>1. 1 \in 1..(n - 1)
        BY <1>1, <3>2
      <4> QED
        BY <1>2, <2>3, <3>2, <4>1 DEF Planned
    <3> QED
      BY <3>1, <3>2
  <2> QED
    BY <2>1, <2>2, <2>3 DEF Planned
<1> QED
  BY <1>4, <1>5, <1>6 DEF NInv

LEMMA EndInferLost ==
  ASSUME IInv, VInv, NInv, Next, EndInfer
  PROVE  NInv'
<1>1. stack # <<>> /\ Top.phase = "infer" /\ Top.rest = <<>> /\ UNCHANGED <<evaluated, todo>>
  BY DEF EndInfer
<1>2. /\ Typed /\ Top \in Frames /\ WaitRight(Top) /\ Top.def \in Consts
      /\ Len(stack) \in DOMAIN stack /\ Top = stack[Len(stack)]
  BY <1>1, TopKnown DEF Frames
<1>3. LostNow \subseteq LostNow' /\ (Len(errors') # Top.old => Top.def \in LostNow')
  BY <1>1, <1>2, CallsAfter
<1>4. CASE stack' = Pop /\ UNCHANGED value /\ ~ (Top.goal = "value" /\ Len(errors') = Top.old)
  <2>1. LostValues'
    BY <1>1, <1>3, <1>4 DEF NInv, LostValues
  <2> QED
    BY <1>1, <1>3, <1>4, <2>1, PopLost
<1>5. CASE value' = [value EXCEPT ![Top.def] = REC] /\ stack' = Replace(Evaluating(Top))
  <2> DEFINE g == Evaluating(Top)
  <2>1. /\ g \in Frames /\ g.wait = NONE /\ g.def = Top.def /\ g.goal = Top.goal
        /\ g.old = Top.old /\ g.phase = "eval" /\ g.acc = 1
    <3>1. Terms(Top.def) \in Seq(Term) /\ Top.wait = NONE
      BY <1>1, <1>2, Definitions DEF WaitRight
    <3> QED
      BY <1>2, <3>1 DEF Evaluating, Frames, Values
  <2>2. stack' = Replace(g)
    BY <1>5
  <2> HIDE DEF g
  <2>3. g.acc # NULL
    BY <2>1 DEF NULL
  <2>4. \A c \in Consts : value'[c] = NULL => value[c] = NULL
    BY <1>2, <1>5 DEF Typed, NULL, REC
  <2> QED
    BY <1>1, <2>1, <2>2, <2>3, <2>4, TopLost
<1> QED
  BY <1>4, <1>5 DEF EndInfer

LEMMA EndEvalLost ==
  ASSUME IInv, VInv, NInv, Next, EndEval
  PROVE  NInv'
<1>1. /\ stack # <<>> /\ Top.phase = "eval" /\ UNCHANGED todo /\ stack' = Pop
      /\ value' = [value EXCEPT ![Top.def] = Top.acc]
      /\ evaluated' = [evaluated EXCEPT ![Top.def] = TRUE]
  BY DEF EndEval
<1>2. /\ Typed /\ Top \in Frames /\ Top.def \in Consts
      /\ Len(stack) \in DOMAIN stack /\ Top = stack[Len(stack)]
  BY <1>1, TopKnown DEF Frames
<1>3. LostNow \subseteq LostNow' /\ (Top.acc = NULL => Top.def \in LostNow')
  BY <1>1, <1>2, CallsAfter
<1>4. /\ value'[Top.def] = Top.acc /\ evaluated'[Top.def]
      /\ \A c \in Consts : c # Top.def => value'[c] = value[c] /\ evaluated'[c] = evaluated[c]
  BY <1>1, <1>2 DEF Typed
<1>5. LostValues'
  BY <1>3, <1>4 DEF NInv, LostValues
<1>6. \A c \in Consts : evaluated[c] => evaluated'[c]
  BY <1>4
<1> QED
  BY <1>1, <1>4, <1>5, <1>6, PopLost

LEMMA NewLost ==
  ASSUME IInv, VInv, NInv, Next, ReferToNew
  PROVE  NInv'
<1> DEFINE n == Len(stack)
           f == [Top EXCEPT !.wait = Asked]
           g == Frame(Asked, "value")
           mid == Replace(f)
<1>1. /\ UNCHANGED <<prog, value, evaluated, errors, todo>> /\ Asking /\ stack # <<>>
      /\ stack' = Append(mid, g)
  BY DEF ReferToNew, Asking
<1>2. /\ Typed /\ Top \in Frames /\ n \in Nat \ {0} /\ DOMAIN stack = 1..n /\ Top = stack[n]
  BY <1>1, TopKnown, TopIsFrame DEF Top
<1>3. Asked \in Consts
  BY <1>1, <1>2, AskedIsConst
<1>4. g \in Frames /\ g.phase = "infer" /\ g.wait = NONE /\ g.old = Len(errors)
  BY <1>2, <1>3, NewCall DEF Frame
<1>5. /\ f \in Frames /\ f.def = Top.def /\ f.phase = Top.phase /\ f.goal = Top.goal
      /\ f.acc = Top.acc /\ f.old = Top.old
  BY <1>2, <1>3 DEF Frames
<1> HIDE DEF f, g
<1>6. /\ mid \in Seq(Frames) /\ Len(mid) = n
      /\ \A k \in 1..n : mid[k] = IF k = n THEN f ELSE stack[k]
  <2>1. stack \in Seq(Frames) /\ n \in 1..n
    BY <1>2 DEF Typed
  <2> QED
    BY <1>2, <1>5, <2>1, ExceptSeq DEF Replace
<1> HIDE DEF mid
<1>7. /\ DOMAIN stack' = 1..(n + 1) /\ stack'[n + 1] = g /\ Len(stack') = n + 1
      /\ \A k \in 1..n : stack'[k] = IF k = n THEN f ELSE stack[k]
  <2>1. /\ stack' \in Seq(Frames) /\ Len(stack') = Len(mid) + 1 /\ stack'[Len(mid) + 1] = g
        /\ \A k \in 1..Len(mid) : stack'[k] = mid[k]
    BY <1>1, <1>4, <1>6, AppendProperties
  <2>2. DOMAIN stack' = 1..Len(stack')
    BY <2>1, LenProperties
  <2> QED
    BY <1>6, <2>1, <2>2
<1>8. Top' = g
  BY <1>7 DEF Top
<1>9. LostNow \subseteq LostNow' /\
      \A k \in DOMAIN stack :
        \/ stack[k].phase = "eval" /\ stack[k].acc = NULL
        \/ stack[k].phase = "infer" /\ Len(errors') # stack[k].old
        => stack[k].def \in LostNow'
  BY <1>1, CallsAfter
<1> HIDE DEF n
<1>10. LostValues' /\ LostWaits'
  BY <1>1, <1>4, <1>8, <1>9 DEF NInv, LostValues, LostWaits
<1>11. LostCalls'
  <2> SUFFICES ASSUME NEW k \in 1..(n + 1),
                      \/ stack'[k].phase = "eval" /\ stack'[k].acc = NULL
                      \/ stack'[k].phase = "infer" /\ Len(errors') # stack'[k].old
               PROVE  stack'[k].def \in LostNow'
    BY <1>7 DEF LostCalls
  <2>1. k # n + 1
    BY <1>1, <1>4, <1>7
  <2>2. k \in 1..n
    BY <1>2, <2>1
  <2>3. /\ stack'[k].phase = stack[k].phase /\ stack'[k].acc = stack[k].acc
        /\ stack'[k].old = stack[k].old /\ stack'[k].def = stack[k].def
    BY <1>2, <1>5, <1>7, <2>2
  <2> QED
    BY <1>2, <1>9, <2>2, <2>3
<1>12. LostPlans'
  <2>1. 1 \in 1..n /\ stack'[1].def = stack[1].def /\ stack'[1].goal = stack[1].goal
    BY <1>2, <1>5, <1>7
  <2>2. stack' # <<>>
    <3>1. 1 \in DOMAIN stack'
      BY <1>2, <1>7
    <3> QED
      BY <3>1
  <2>3. \A c \in Consts : Planned(c) => Planned(c)'
    BY <1>1, <2>1, <2>2 DEF Planned
  <2> QED
    BY <1>9, <2>3 DEF NInv, LostPlans
<1> QED
  BY <1>10, <1>11, <1>12 DEF NInv

LEMMA VisitLost ==
  ASSUME IInv, VInv, NInv, VisitForTypes \/ VisitForValue
  PROVE  NInv'
<1> DEFINE c == Head(todo)[2]
<1>1. /\ UNCHANGED <<prog, value, evaluated>> /\ stack = <<>> /\ todo # <<>>
      /\ todo' = Tail(todo) /\ Typed
  BY DEF VisitForTypes, VisitForValue, IInv
<1>2. /\ c \in Consts
      /\ \A v : v # Head(todo) /\ (\E i \in DOMAIN todo : todo[i] = v)
                  => \E i \in DOMAIN todo' : todo'[i] = v
  BY <1>1, Visited
<1>3. errors' = errors \/ (errors' # <<>> /\ Has(c, "illegal"))
  <2>1. CASE VisitForTypes
    BY <2>1 DEF VisitForTypes
  <2>2. CASE VisitForValue
    <3>1. errors' = errors \/ (Report("illegal", c, c) /\ Has(c, "illegal"))
      BY <2>2 DEF VisitForValue, Valid
    <3> QED
      BY <1>1, <1>2, <3>1, Reported DEF MessageKinds
  <2> QED
    BY <2>1, <2>2
<1>4. PICK clean \in BOOLEAN :
        (clean <=> errors' = <<>>) /\ LostNow' = Lost(clean) /\ LostNow \subseteq LostNow'
  BY <1>1, <1>3, LostAfter
<1>5. Has(c, "illegal") /\ errors' # <<>> => c \in LostNow'
  BY <1>1, <1>2, <1>4, LostForTerm
<1>6. LostValues'
  BY <1>1, <1>4 DEF NInv, LostValues
<1>7. \/ stack' = <<>>
      \/ errors' = errors /\ \E goal \in {"types", "value"} :
           stack' = <<Frame(c, goal)>> /\ (Head(todo)[1] = "values" => goal = "value")
  BY <1>1 DEF VisitForTypes, VisitForValue
<1>8. LostCalls' /\ LostWaits'
  <2>1. CASE stack' = <<>>
    BY <2>1 DEF LostCalls, LostWaits
  <2>2. CASE stack' # <<>>
    <3>1. PICK goal : stack' = <<Frame(c, goal)>> /\ errors' = errors
      BY <1>7, <2>2
    <3>2. DOMAIN stack' = {1} /\ stack'[1] = Frame(c, goal) /\ Len(stack') = 1
      BY <3>1
    <3>3. /\ Frame(c, goal).phase = "infer" /\ Frame(c, goal).wait = NONE
          /\ Frame(c, goal).old = Len(errors')
      BY <3>1 DEF Frame
    <3> QED
      BY <3>2, <3>3 DEF LostCalls, LostWaits, Top
  <2> QED
    BY <2>1, <2>2
<1>9. LostPlans'
  <2> SUFFICES ASSUME NEW d \in Consts PROVE Planned(d)' \/ d \in LostNow'
    BY DEF LostPlans
  <2>1. d \in LostNow \/ evaluated[d] \/ \E i \in DOMAIN todo : todo[i] = <<"values", d>>
    BY <1>1 DEF NInv, LostPlans, Planned
  <2>2. CASE d \in LostNow \/ evaluated[d]
    BY <1>1, <1>4, <2>2 DEF Planned
  <2>3. CASE <<"values", d>> # Head(todo) /\ \E i \in DOMAIN todo : todo[i] = <<"values", d>>
    BY <1>2, <2>3 DEF Planned
  <2>4. CASE <<"values", d>> = Head(todo)
    <3>1. d = c /\ Head(todo)[1] = "values"
      BY <2>4
    <3>2. VisitForValue
      BY <3>1 DEF VisitForTypes
    <3>3. \/ evaluated[c]
          \/ Has(c, "illegal") /\ Report("illegal", c, c)
          \/ stack' = <<Frame(c, "value")>>
      BY <3>2 DEF VisitForValue, Valid
    <3>4. CASE evaluated[c]
      BY <1>1, <3>1, <3>4 DEF Planned
    <3>5. CASE Has(c, "illegal") /\ Report("illegal", c, c)
      BY <1>1, <1>2, <1>5, <3>1, <3>5, Reported DEF MessageKinds
    <3>6. CASE stack' = <<Frame(c, "value")>>
      <4>1. stack' # <<>> /\ stack'[1].def = c /\ stack'[1].goal = "value"
        BY <3>6 DEF Frame
      <4> QED
        BY <3>1, <4>1 DEF Planned
    <3> QED
      BY <3>3, <3>4, <3>5, <3>6
  <2> QED
    BY <2>1, <2>2, <2>3, <2>4
<1> QED
  BY <1>6, <1>8, <1>9 DEF NInv
-----------------------------------------------------------------------------
LEMMA NInvInit ==
  ASSUME Init
  PROVE  NInv
<1>1. AllPlanned
  BY IInvInit DEF IInv
<1>2. DOMAIN stack = {} /\ stack = <<>> /\ errors = <<>> /\ \A c \in Consts : ~ evaluated[c]
  BY DEF Init
<1>3. LostPlans
  BY <1>1, <1>2 DEF AllPlanned, LostPlans
<1> QED
  BY <1>2, <1>3 DEF NInv, LostValues, LostCalls, LostWaits

LEMMA NInvNext ==
  ASSUME IInv, VInv, NInv, [Next]_vars
  PROVE  NInv'
<1>1. CASE Next
  BY <1>1, VisitLost, ReferLost, NewLost, NothingLost, EndInferLost, EndEvalLost DEF Next
<1>2. CASE UNCHANGED vars
  <2>1. UNCHANGED <<prog, value, evaluated, errors, todo, stack>>
    BY <1>2 DEF vars
  <2>2. LostNow \subseteq LostNow'
    BY <2>1, LostAfter
  <2>3. Top' = Top /\ \A c : Planned(c)' <=> Planned(c)
    BY <2>1 DEF Top, Planned
  <2> QED
    BY <2>1, <2>2, <2>3 DEF NInv, LostValues, LostCalls, LostWaits, LostPlans
<1> QED
  BY <1>1, <1>2

LEMMA LossInvariant == Spec => []NInv
<1>1. Init => NInv
  BY NInvInit
<1>2. IInv /\ VInv /\ NInv /\ [Next]_vars => NInv'
  BY NInvNext
<1> QED
  BY <1>1, <1>2, Invariance, ValuesInvariant, PTL DEF Spec

\* Once runConstantValueEvaluation has been through all constants, each one
\* whose definition has a meaning has its value, whatever errors there were
\* before: none is given up for the failure of another one.
THEOREM DefinedAreValued == Spec => []DefinedMeansValued
<1>1. IInv /\ NInv => DefinedMeansValued
  <2> SUFFICES ASSUME IInv, NInv, Finished, NEW c \in Consts, NEW v \in Values, Means(c, v, TRUE)
               PROVE  value[c] \in Values
    BY DEF DefinedMeansValued
  <2>1. stack = <<>> /\ todo = <<>>
    BY DEF Finished
  <2>2. c \notin LostNow
    <3>1. v # NULL
      BY DEF Values, NULL
    <3> QED
      BY <3>1 DEF LostNow, Lost, NoMeaning, Means
  <2>3. evaluated[c] /\ value[c] # NULL
    BY <2>1, <2>2 DEF NInv, LostPlans, LostValues, Planned
  <2>4. value[c] # REC
    BY <2>1 DEF IInv, MarksAreCalls
  <2> QED
    BY <2>3, <2>4 DEF IInv, Typed, Marks
<1> QED
  BY <1>1, Invariance, LossInvariant, PTL

\* For a program without an error each constant has been evaluated by then,
\* and the ones without a value rest on an operation that the checks accept
\* and evaluateConstExpr has no case for, as ! on a bool: nothing else can
\* leave the code generator without the value that it reads.
THEOREM AcceptedAreValued == Spec => []AcceptedMeansValued
<1>1. IInv /\ NInv => AcceptedMeansValued
  <2> SUFFICES ASSUME IInv, NInv, Finished, errors = <<>>, NEW c \in Consts
               PROVE  evaluated[c] /\ (value[c] \in Values \/ (value[c] = NULL /\ RestsOnUnhandled(c)))
    BY DEF AcceptedMeansValued
  <2>1. stack = <<>> /\ todo = <<>>
    BY DEF Finished
  <2>2. evaluated[c]
    BY <2>1 DEF IInv, AllPlanned, Planned
  <2>3. value[c] = NULL => RestsOnUnhandled(c)
    BY <2>2 DEF NInv, LostValues, LostNow, Lost
  <2>4. value[c] # REC
    BY <2>1 DEF IInv, MarksAreCalls
  <2> QED
    BY <2>2, <2>3, <2>4 DEF IInv, Typed, Marks
<1> QED
  BY <1>1, Invariance, LossInvariant, PTL
=============================================================================
