----------------------------- MODULE TypeCompare ----------------------------
(***************************************************************************)
(* Structural comparison of types (types/types.c).  Types are the nodes of *)
(* a graph that may be cyclic through named types; comparisons that came   *)
(* out equal are remembered in a union-find structure for good, and pairs  *)
(* that are being compared count as equal.  Inference compares types with  *)
(* the right to resolve unsure ones, and every difference is an error;     *)
(* the check of casts compares them as they are, and a difference may be   *)
(* allowed; code generation leaves a cast between equal types out.         *)
(* MaxCalls bounds the comparisons.                                        *)
(***************************************************************************)
EXTENDS Naturals, Sequences, SequencesExt

CONSTANTS
  Graphs,     \* the types of a program in a row, and the pairs it compares
  MaxCalls

NULL == 0

\* A type has a kind, the type objects it is made of, and in "tag" all that is
\* compared before those: sizes, field names, how many there are.  A reference
\* is made of the type it is bound to; an unsure type has its set in "tag" and
\* is made of its fallback.
Type(kind, tag, kids) == [kind |-> kind, tag |-> tag, kids |-> kids]

\* runTypeInference, runTypeChecking, which checks the constraints again, and
\* runCodeGeneration.
Stages ==
  <<"propagate", "constraints", "assume variables", "variables", "constraints", "code">>
Inferring == {"propagate", "assume variables"}

\* The error type of the context, the first type that is made.
ErrorType == 1

VARIABLES
  type, questions,    \* the graph, and the pairs of types each stage compares
  actual,             \* the field of unsure types
  equiv,              \* the representative of each type's class
  stage,              \* the pass over the program that is running
  errors,             \* whether an error was reported
  asked, calls,       \* the comparison the caller waits for, <<>> if it does not
  call,               \* the call that begins next, <<>> if there is none
  stack,              \* the calls that wait, innermost last
  equal,              \* what the last call to end returned
  fallen,             \* history: the types that were equal by their fallback
  misled,             \* history: a pair that was taken for equal is not
  leftOut             \* history: the casts that no code is generated for

program == <<type, questions>>
typeVars == <<actual, equiv>>
runVars == <<call, stack, equal, fallen, misled>>
userVars == <<stage, errors, asked, calls, leftOut>>
vars == <<program, typeVars, runVars, userVars>>

Types == DOMAIN type

Init ==
  /\ \E g \in Graphs : type = g.types /\ questions = g.questions
  /\ actual = [t \in Types |-> NULL] /\ equiv = [t \in Types |-> t]
  /\ stage = 1 /\ calls = 0 /\ asked = <<>>
  /\ errors = (\E t \in Types : ErrorType \in ToSet(type[t].kids))
  /\ call = <<>> /\ stack = <<>> /\ equal = TRUE
  /\ fallen = {} /\ misled = FALSE /\ leftOut = {}

Kind(t) == type[t].kind

\* Where the functions on types go on from a reference or an unsure type.
Onward(t) == IF Kind(t) = "unsure" /\ actual[t] # NULL THEN actual[t] ELSE type[t].kids[1]

-----------------------------------------------------------------------------
(***************************************************************************)
(* The predicates on types walk along references and unsure types, and     *)
(* mark the types they are in as visited.                                  *)
(***************************************************************************)

\* STRUCTURAL_TYPE_CHECK_HELPER without a walk into the parts of a type.
RECURSIVE Seen(_, _, _)
Seen(Yes(_), t, visited) ==
  /\ t # NULL /\ t \notin visited
  /\ \/ Yes(t)
     \/ Kind(t) \in {"reference", "unsure"} /\ Seen(Yes, Onward(t), visited \cup {t})

isOfKind(t, kind) == LET Yes(s) == Kind(s) = kind IN Seen(Yes, t, {})

isIntegerType(t) ==
  LET Yes(s) == Kind(s) \in {"int", "uint"} \/ (Kind(s) = "unsure" /\ type[s].tag = "integer")
  IN  Seen(Yes, t, {})

isRealType(t) ==
  LET Yes(s) == Kind(s) = "real" \/ (Kind(s) = "unsure" /\ type[s].tag = "real")
  IN  Seen(Yes, t, {})

isPointerType(t) == isOfKind(t, "pointer")

isSubsetOfUnsure(set, t) ==
  CASE set = "integer" -> isIntegerType(t)
    [] set = "real"    -> isRealType(t)
    [] OTHER           -> TRUE

Parts(t) == ToSet(type[t].kids)
Plain == {"error", "void", "bool", "int", "uint", "real"}

RECURSIVE Partial(_, _)
Partial(t, visited) ==
  IF t = NULL THEN TRUE
  ELSE IF t \in visited \/ Kind(t) \in Plain THEN FALSE
  ELSE IF Kind(t) \in {"reference", "unsure"} THEN Partial(Onward(t), visited \cup {t})
  ELSE \E s \in Parts(t) : Partial(s, visited \cup {t})

isPartialType(t) == Partial(t, {})

\* The types that fillPartialType gives the type it fills in.
RECURSIVE Unfilled(_, _)
Unfilled(t, visited) ==
  IF t \in visited THEN {}
  ELSE CASE Kind(t) = "reference" -> Unfilled(Onward(t), visited \cup {t})
         [] Kind(t) = "unsure" ->
              IF Onward(t) = NULL THEN {t} ELSE Unfilled(Onward(t), visited \cup {t})
         [] OTHER -> UNION {Unfilled(s, visited \cup {t}) : s \in Parts(t)}

\* Mutant: a pointer is as large as what it points to.
RECURSIVE SizedThroughPointers(_, _)
SizedThroughPointers(t, visited) ==
  /\ t # NULL /\ t \notin visited /\ Kind(t) # "function"
  /\ IF Kind(t) \in {"reference", "unsure"} THEN SizedThroughPointers(Onward(t), visited \cup {t})
     ELSE \A s \in Parts(t) : SizedThroughPointers(s, visited \cup {t})

RECURSIVE Sized(_, _)
Sized(t, visited) ==
  /\ t # NULL /\ t \notin visited /\ Kind(t) # "function"
  /\ \/ Kind(t) \in Plain \cup {"pointer"}
     \/ Kind(t) \in {"reference", "unsure"} /\ Sized(Onward(t), visited \cup {t})
     \/ Kind(t) \in {"array", "struct", "tuple"}
          /\ \A s \in Parts(t) : Sized(s, visited \cup {t})

isSizedType(t) == Sized(t, {})

-----------------------------------------------------------------------------
(***************************************************************************)
(* compareStructuralTypesHelper, one call or return at a time.             *)
(***************************************************************************)

Waiting(i, a, b) == stack[i].pair = <<a, b>>
Assumed(a, b) == \E i \in 1..Len(stack) : Waiting(i, a, b)

Join(a, b) ==
  [t \in Types |-> IF equiv[t] = equiv[a] THEN equiv[b] ELSE equiv[t]]

\* Only inference passes a list of changed types.
Open(t, other) ==
  /\ Stages[stage] \in Inferring /\ Kind(t) = "unsure" /\ actual[t] = NULL
  /\ isSubsetOfUnsure(type[t].tag, other)

\* An unsure type is resolved to the other type, but a reference is followed
\* first, and of two unsure types the first one is resolved.
Resolves(t, other) ==
  NULL \notin {t, other} /\ Kind(other) # "reference" /\ Open(t, other)

Follows(a, b) == {Kind(a), Kind(b)} \cap {"reference", "unsure"} # {}

\* The pairs that have to be equal for a and b to be.  One step along a
\* reference or an unsure type makes one pair.
Obligations(a, b) ==
  LET one(kind) == Kind(a) = kind /\ Kind(b) # kind
      other(kind) == Kind(a) # kind /\ Kind(b) = kind
      both(kind) == Kind(a) = kind /\ Kind(b) = kind
  IN  CASE both("reference") -> << <<Onward(a), Onward(b)>> >>
        [] one("reference") -> << <<Onward(a), b>> >>
        [] other("reference") -> << <<a, Onward(b)>> >>
        [] one("unsure") -> << <<Onward(a), b>> >>
        [] other("unsure") -> << <<a, Onward(b)>> >>
        [] both("unsure") ->
             <<IF actual[a] # NULL THEN <<actual[a], b>>
               ELSE IF actual[b] # NULL THEN <<a, actual[b]>>
               ELSE <<Onward(a), Onward(b)>> >>
        [] OTHER -> [i \in DOMAIN type[a].kids |-> <<type[a].kids[i], type[b].kids[i]>>]

\* The tests of a call in their order.
Trivial(a, b) ==
  a = b \/ (NULL \notin {a, b} /\ (equiv[a] = equiv[b] \/ ErrorType \in {a, b}))

\* Mutant: what comes before the parts is not compared.
DifferInKind(a, b) ==
  IF NULL \in {a, b} THEN TRUE ELSE ~Follows(a, b) /\ Kind(a) # Kind(b)

\* Mutant: a name is no equal of what it stands for.
DifferByName(a, b) ==
  IF NULL \in {a, b} THEN TRUE ELSE <<Kind(a), type[a].tag>> # <<Kind(b), type[b].tag>>

Differ(a, b) ==
  IF NULL \in {a, b} THEN TRUE
  ELSE ~Follows(a, b) /\ <<Kind(a), type[a].tag>> # <<Kind(b), type[b].tag>>

Return(result) == call' = <<>> /\ equal' = result

CallTrivial(a, b) ==
  /\ Trivial(a, b)
  /\ Return(TRUE) /\ UNCHANGED <<typeVars, stack, fallen, misled>>

CallAssumed(a, b) ==
  /\ ~Trivial(a, b) /\ Assumed(a, b)
  /\ stack' = [i \in DOMAIN stack |-> [stack[i] EXCEPT !.used = @ \/ Waiting(i, a, b)]]
  /\ Return(TRUE) /\ UNCHANGED <<typeVars, fallen, misled>>

ResolveTo(t, other) ==
  /\ actual' = [actual EXCEPT ![t] = other]
  /\ misled' = (misled \/ t \in fallen)

CallResolve(a, b) ==
  /\ ~Trivial(a, b) /\ ~Assumed(a, b)
  /\ IF Resolves(a, b) THEN ResolveTo(a, b) ELSE Resolves(b, a) /\ ResolveTo(b, a)
  /\ equiv' = Join(a, b)
  /\ Return(TRUE) /\ UNCHANGED <<stack, fallen>>

CallDiffer(a, b) ==
  /\ ~Trivial(a, b) /\ ~Assumed(a, b) /\ Differ(a, b)
  /\ ~Resolves(a, b) /\ ~Resolves(b, a)
  /\ Return(FALSE) /\ UNCHANGED <<typeVars, stack, fallen, misled>>

CallDown(a, b) ==
  /\ ~Trivial(a, b) /\ ~Assumed(a, b) /\ ~Differ(a, b)
  /\ ~Resolves(a, b) /\ ~Resolves(b, a)
  /\ stack' = Append(stack, [pair |-> <<a, b>>, left |-> Obligations(a, b), used |-> FALSE])
  /\ Return(TRUE) /\ UNCHANGED <<typeVars, fallen, misled>>

Call ==
  /\ call # <<>>
  /\ LET a == call[1]  b == call[2]
     IN  \/ CallTrivial(a, b) \/ CallAssumed(a, b) \/ CallResolve(a, b)
         \/ CallDiffer(a, b) \/ CallDown(a, b)
  /\ UNCHANGED <<program, userVars>>

Top == stack[Len(stack)]

\* Mutant: the loop over the parts does not move on.
NextPartAgain ==
  /\ call = <<>> /\ stack # <<>> /\ equal /\ Top.left # <<>>
  /\ call' = Head(Top.left)
  /\ UNCHANGED <<program, typeVars, stack, equal, fallen, misled, userVars>>

\* The innermost call goes on with its next pair.
NextPart ==
  /\ call = <<>> /\ stack # <<>> /\ equal /\ Top.left # <<>>
  /\ call' = Head(Top.left)
  /\ stack' = [stack EXCEPT ![Len(stack)].left = Tail(@)]
  /\ UNCHANGED <<program, typeVars, equal, fallen, misled, userVars>>

\* The unsure types of a pair that is compared by their fallbacks.
ByFallback(a, b) ==
  {t \in {a, b} : /\ Kind(t) = "unsure" /\ actual[t] = NULL
                  /\ Onward(t) \in ToSet(Obligations(a, b)[1])}

ReturnEqual ==
  /\ call = <<>> /\ stack # <<>> /\ equal /\ Top.left = <<>>
  /\ equiv' = Join(Top.pair[1], Top.pair[2])
  /\ fallen' = fallen \cup ByFallback(Top.pair[1], Top.pair[2])
  /\ stack' = Front(stack)
  /\ UNCHANGED <<program, actual, call, equal, misled, userVars>>

ReturnDifferent ==
  /\ call = <<>> /\ stack # <<>> /\ ~equal
  /\ stack' = Front(stack)
  /\ misled' = (misled \/ Top.used)
  /\ UNCHANGED <<program, typeVars, call, equal, fallen, userVars>>

-----------------------------------------------------------------------------
(***************************************************************************)
(* The callers.                                                            *)
(***************************************************************************)

\* moveTypeIntoAstNode, and the comparison in the check of a cast.
Ask(a, b) ==
  /\ asked = <<>> /\ calls < MaxCalls /\ <<a, b>> \in questions[Stages[stage]]
  /\ asked' = <<a, b>> /\ call' = <<a, b>> /\ calls' = calls + 1
  /\ UNCHANGED <<program, typeVars, stack, equal, fallen, misled, stage, errors, leftOut>>

Done == asked # <<>> /\ call = <<>> /\ stack = <<>>

AnswerInference ==
  /\ Done /\ Stages[stage] \in Inferring
  /\ errors' = (errors \/ ~equal) /\ asked' = <<>>
  /\ UNCHANGED <<program, typeVars, runVars, stage, calls, leftOut>>

\* typeCheckNode, AST_AS: what may be cast although it is not equal.
Convertible(a, b) ==
  IF isIntegerType(b) THEN isIntegerType(a) \/ isPointerType(a) \/ isRealType(a)
  ELSE IF isRealType(b) THEN isRealType(a) \/ isIntegerType(a)
  ELSE isPointerType(b) /\ (isPointerType(a) \/ isIntegerType(a))

AnswerCast ==
  /\ Done /\ Stages[stage] = "constraints"
  /\ errors' = (errors \/ ~(equal \/ Convertible(asked[1], asked[2])))
  /\ asked' = <<>>
  /\ UNCHANGED <<program, typeVars, runVars, stage, calls, leftOut>>

\* buildLlvmFunctionBody, AST_AS: the value of the operand is converted, or it
\* is the value of the cast.
AnswerCode ==
  /\ Done /\ Stages[stage] = "code"
  /\ leftOut' = IF equal THEN leftOut \cup {asked} ELSE leftOut
  /\ asked' = <<>>
  /\ UNCHANGED <<program, typeVars, runVars, stage, errors, calls>>

\* FOR_ALL_MODULES_IF_OK
NextStage ==
  /\ stage < Len(Stages) /\ asked = <<>> /\ ~errors
  /\ stage' = stage + 1 /\ calls' = 0
  /\ UNCHANGED <<program, typeVars, runVars, errors, asked, leftOut>>

\* checkForUntypedVariables: the type of a variable that could not be inferred.
CheckVariable(t) ==
  /\ Stages[stage] = "variables" /\ isPartialType(t)
  /\ actual' = [s \in Types |-> IF s \in Unfilled(t, {}) THEN ErrorType ELSE actual[s]]
  /\ errors' = TRUE
  /\ UNCHANGED <<program, equiv, runVars, stage, asked, calls, leftOut>>

Step == Call \/ NextPart \/ ReturnEqual \/ ReturnDifferent

Next ==
  \/ Step \/ AnswerInference \/ AnswerCast \/ AnswerCode \/ NextStage
  \/ \E q \in questions[Stages[stage]] : Ask(q[1], q[2])
  \/ \E t \in Types : CheckVariable(t)

Spec == Init /\ [][Next]_vars /\ WF_vars(Step)

-----------------------------------------------------------------------------
(***************************************************************************)
(* Properties.                                                             *)
(***************************************************************************)

\* What a type stands for behind references and unsure types, NULL for nothing.
Concrete(t) ==
  LET step[n \in 0..Len(type)] ==
        IF n = 0 THEN t
        ELSE LET s == step[n - 1]
             IN  IF s # NULL /\ Kind(s) \in {"reference", "unsure"} THEN Onward(s) ELSE s
      last == step[Len(type)]
  IN  IF last # NULL /\ Kind(last) \in {"reference", "unsure"} THEN NULL ELSE last

Shell(t) == <<Kind(t), type[t].tag, Len(type[t].kids)>>

\* The largest relation whose pairs look the same and have related parts.
RECURSIVE LargestWithin(_)
LargestWithin(R) ==
  LET parts(a, b) ==
        \A i \in DOMAIN type[a].kids :
          <<Concrete(type[a].kids[i]), Concrete(type[b].kids[i])>> \in R
      kept == {p \in R : p[1] \in {NULL, ErrorType} \/ p[2] \in {NULL, ErrorType} \/ parts(p[1], p[2])}
  IN  IF kept = R THEN R ELSE LargestWithin(kept)

Alike ==
  LargestWithin(
    {p \in (Types \cup {NULL}) \X (Types \cup {NULL}) :
       \/ p[1] = p[2] \/ (NULL \notin ToSet(p) /\ ErrorType \in ToSet(p))
       \/ (NULL \notin ToSet(p) /\ Shell(p[1]) = Shell(p[2]))})

AreAlike(a, b) == <<Concrete(a), Concrete(b)>> \in Alike

\* Types that inference or a cast found equal, and that share a class from then
\* on, are built alike all the way down, recursive ones too; unless a pair was
\* taken for equal while it was compared and turned out different, or by the
\* fallback of a type that was resolved to another later.
EqualTypesAreAlike ==
  (asked = <<>> /\ ~errors /\ ~misled) =>
    LET alike == Alike
    IN  \A a, b \in Types :
          (a < b /\ equiv[a] = equiv[b]) => <<Concrete(a), Concrete(b)>> \in alike

\* A comparison of types that are alike does not come out different: no type
\* conflict is reported and no cast refused for types that are built alike.
AlikeTypesAreEqual == (Done /\ ~equal) => ~AreAlike(asked[1], asked[2])

\* isSizedType accepts the types whose layout is finite: built up from types
\* with a size of their own in finitely many steps.
SizedTypesAreFinite ==
  asked = <<>> =>
  LET known(S) == S \cup
        {t \in Types :
           \/ Kind(t) \in Plain \cup {"pointer"}
           \/ Kind(t) \in {"array", "struct", "tuple"} /\ Parts(t) \subseteq S
           \/ Kind(t) \in {"reference", "unsure"} /\ Onward(t) \in S}
      build[n \in 0..Len(type)] == IF n = 0 THEN {} ELSE known(build[n - 1])
  IN  \A t \in Types : isSizedType(t) <=> t \in build[Len(type)]

\* A comparison comes to an end, also of types that contain themselves.
ComparisonsEnd == asked # <<>> ~> Done

\* A cast for which no code is generated, since its types are found equal, is
\* between types that are alike.
CastsLeftOutChangeNothing == \A p \in leftOut : AreAlike(p[1], p[2])
=============================================================================
