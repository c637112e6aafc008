------------------------------ MODULE ConstEval -----------------------------
(***************************************************************************)
(* The evaluation of constants (const/defeval.c, evaluateConstantDefinition*)
(* and evaluateConstExpr of const/eval.c).  A constant is evaluated when   *)
(* the walk over all definitions or the value of another constant needs    *)
(* it; the calls of the C functions are the frames of a stack.             *)
(*                                                                         *)
(* The value of a constant is 1 plus the values of its terms, modulo 2:    *)
(*   "ref"       another constant, "of"                                    *)
(*   "if"        an if expression: "yes" where "of" is 1, "no" otherwise   *)
(*   "illegal"   something not allowed in constants, like a call           *)
(*   "mismatch"  an operation on values it is not defined for              *)
(*   "unhandled" one that the checks accept and evaluation has no case for *)
(*   "outside"   an array element that does not exist                      *)
(* In front of them are types [c]T, in casts, of the sizes c.              *)
(***************************************************************************)
EXTENDS Naturals, Sequences, FiniteSets

CONSTANTS
  N,         \* the number of constants
  Programs   \* the sets of definitions: functions from constants to bodies

Consts == 1..N   \* in the order the walk meets them
Term == [op : {"ref", "if", "illegal", "mismatch", "unhandled", "outside"},
         of : Consts, yes : Consts, no : Consts]
Body == [sizes : Seq(Consts), terms : Seq(Term)]

\* The sizes that a constant's types need need smaller ones, and so on: else
\* the code does not come to an end.
SizesDescend(p, rank) ==
  \A c \in Consts : \A i \in DOMAIN p[c].sizes : rank[p[c].sizes[i]] < rank[c]

ASSUME ProgramsAssumption ==
  /\ N \in Nat
  /\ \A p \in Programs :
       p \in [Consts -> Body] /\ \E rank \in [Consts -> Consts] : SizesDescend(p, rank)

NULL == 100    \* no value, and
REC  == 101    \* RECURSION_CHECK_TYPE: neither is one of the Values
NONE == 0
Values == {0, 1}

VARIABLES
  prog,        \* the definitions
  value, evaluated,   \* the fields of SymbolVariable
  errors,      \* the messages so far
  todo,        \* the definitions the walks have yet to visit
  stack        \* the calls in progress, the innermost one last

vars == <<prog, value, evaluated, errors, todo, stack>>

Ref(c) == [op |-> "ref", of |-> c, yes |-> c, no |-> c]

Has(c, op) == \E i \in DOMAIN prog[c].terms : prog[c].terms[i].op = op

Terms(c) == prog[c].terms
Sizes(c) == [i \in DOMAIN prog[c].sizes |-> Ref(prog[c].sizes[i])]

\* checkValidInConstExpr; a reference to a constant is always valid
Valid(c) == ~ Has(c, "illegal")

\* A call of typeInferExpr on a definition ("infer") or of evaluateConstExpr
\* on its value ("eval").  goal tells the first walk from the second one.
Frame(c, goal) ==
  [def |-> c, phase |-> "infer", goal |-> goal, rest |-> Sizes(c),
   wait |-> NONE, acc |-> NULL, old |-> Len(errors)]

Evaluating(f) == [f EXCEPT !.phase = "eval", !.rest = Terms(f.def), !.acc = 1]

Top == stack[Len(stack)]
Replace(f) == [stack EXCEPT ![Len(stack)] = f]
Pop == SubSeq(stack, 1, Len(stack) - 1)

Report(kind, in, about) == errors' = Append(errors, <<kind, in, about>>)

Init ==
  /\ prog \in Programs
  /\ value = [c \in Consts |-> NULL]
  /\ evaluated = [c \in Consts |-> FALSE]
  /\ errors = <<>>
  /\ todo = [c \in Consts |-> <<"types", c>>] \o [c \in Consts |-> <<"values", c>>]
  /\ stack = <<>>

-----------------------------------------------------------------------------
VisitForTypes ==
  /\ stack = <<>> /\ todo # <<>> /\ Head(todo)[1] = "types"
  /\ stack' = <<Frame(Head(todo)[2], "types")>>
  /\ todo' = Tail(todo)
  /\ UNCHANGED <<prog, value, evaluated, errors>>

VisitForValue ==
  /\ stack = <<>> /\ todo # <<>> /\ Head(todo)[1] = "values"
  /\ todo' = Tail(todo)
  /\ LET c == Head(todo)[2]
     IN  \/ evaluated[c] /\ UNCHANGED <<errors, stack>>
         \/ ~ evaluated[c] /\ ~ Valid(c) /\ Report("illegal", c, c) /\ UNCHANGED stack
         \/ ~ evaluated[c] /\ Valid(c) /\ stack' = <<Frame(c, "value")>> /\ UNCHANGED errors
  /\ UNCHANGED <<prog, value, evaluated>>

\* Mutant: the condition is taken the wrong way round.
TakeOtherBranch(f, v) ==
  LET item == Head(f.rest)
  IN  IF f.phase = "infer"
      THEN [f EXCEPT !.rest = Tail(@), !.wait = NONE]
      ELSE IF v = NULL
      THEN [f EXCEPT !.rest = <<>>, !.wait = NONE, !.acc = NULL]
      ELSE IF item.op = "if"
      THEN [f EXCEPT !.rest = <<Ref(IF v = 1 THEN item.no ELSE item.yes)>> \o Tail(@), !.wait = NONE]
      ELSE [f EXCEPT !.rest = Tail(@), !.wait = NONE, !.acc = (@ + v) % 2]

\* Mutant: a size without a value is asked for again.
TakeRetries(f, v) ==
  LET item == Head(f.rest)
  IN  IF f.phase = "infer"
      THEN [f EXCEPT !.rest = IF v = NULL THEN @ ELSE Tail(@), !.wait = NONE]
      ELSE IF v = NULL
      THEN [f EXCEPT !.rest = <<>>, !.wait = NONE, !.acc = NULL]
      ELSE IF item.op = "if"
      THEN [f EXCEPT !.rest = <<Ref(IF v = 1 THEN item.yes ELSE item.no)>> \o Tail(@), !.wait = NONE]
      ELSE [f EXCEPT !.rest = Tail(@), !.wait = NONE, !.acc = (@ + v) % 2]

\* What the innermost call does with the value v of the constant it asked for.
Take(f, v) ==
  LET item == Head(f.rest)
  IN  IF f.phase = "infer"
      THEN [f EXCEPT !.rest = Tail(@), !.wait = NONE]
      ELSE IF v = NULL
      THEN [f EXCEPT !.rest = <<>>, !.wait = NONE, !.acc = NULL]
      ELSE IF item.op = "if"
      THEN [f EXCEPT !.rest = <<Ref(IF v = 1 THEN item.yes ELSE item.no)>> \o Tail(@), !.wait = NONE]
      ELSE [f EXCEPT !.rest = Tail(@), !.wait = NONE, !.acc = (@ + v) % 2]

Asking == stack # <<>> /\ Top.rest # <<>> /\ Head(Top.rest).op \in {"ref", "if"}

Asked == Head(Top.rest).of

ReferToOpen ==
  /\ Asking /\ Top.wait = NONE /\ value[Asked] = REC
  /\ Report(IF Top.phase = "eval" THEN "recursive" ELSE "recursive size", Top.def, Asked)
  /\ stack' = Replace(Take(Top, NULL))
  /\ UNCHANGED <<prog, value, evaluated, todo>>

ReferToEvaluated ==
  /\ Asking /\ Top.wait = NONE /\ value[Asked] # REC /\ evaluated[Asked]
  /\ stack' = Replace(Take(Top, value[Asked]))
  /\ UNCHANGED <<prog, value, evaluated, errors, todo>>

ReferToIllegal ==
  /\ Asking /\ Top.wait = NONE /\ value[Asked] # REC /\ ~ evaluated[Asked] /\ ~ Valid(Asked)
  /\ Report("illegal", Asked, Asked)
  /\ stack' = Replace(Take(Top, value[Asked]))
  /\ UNCHANGED <<prog, value, evaluated, todo>>

\* Mutant: the mark is set before the types are checked.
ReferToNewMarked ==
  /\ Asking /\ Top.wait = NONE /\ value[Asked] # REC /\ ~ evaluated[Asked] /\ Valid(Asked)
  /\ stack' = Append(Replace([Top EXCEPT !.wait = Asked]), Frame(Asked, "value"))
  /\ value' = [value EXCEPT ![Asked] = REC]
  /\ UNCHANGED <<prog, evaluated, errors, todo>>

ReferToNew ==
  /\ Asking /\ Top.wait = NONE /\ value[Asked] # REC /\ ~ evaluated[Asked] /\ Valid(Asked)
  /\ stack' = Append(Replace([Top EXCEPT !.wait = Asked]), Frame(Asked, "value"))
  /\ UNCHANGED <<prog, value, evaluated, errors, todo>>

\* The constant asked for has been dealt with, maybe without a value.
Resume ==
  /\ Asking /\ Top.wait # NONE
  /\ stack' = Replace(Take(Top, value[Top.wait]))
  /\ UNCHANGED <<prog, value, evaluated, errors, todo>>

\* A term that has no value; only one of the three is reported.
EvaluateToNothing ==
  /\ stack # <<>> /\ Top.rest # <<>> /\ Head(Top.rest).op \in {"outside", "mismatch", "unhandled"}
  /\ IF Head(Top.rest).op = "outside" THEN Report("outside", Top.def, Top.def) ELSE UNCHANGED errors
  /\ stack' = Replace([Top EXCEPT !.rest = <<>>, !.acc = NULL])
  /\ UNCHANGED <<prog, value, evaluated, todo>>

\* Mutant: operands of a wrong type are let through.
ErrorsAfterNoChecks == errors

\* Operands of a wrong type are looked for only while there is no error at all.
\* What has no case in evaluation, like ! on a bool, is none.
ErrorsAfterChecks ==
  IF errors = <<>> /\ Has(Top.def, "mismatch")
  THEN <<<<"mismatch", Top.def, Top.def>>>> ELSE errors

\* Mutant: the constant is not marked.
EndInferUnmarked ==
  /\ stack # <<>> /\ Top.phase = "infer" /\ Top.rest = <<>>
  /\ errors' = ErrorsAfterChecks
  /\ stack' = IF Top.goal = "value" /\ Len(errors') = Top.old
              THEN Replace(Evaluating(Top)) ELSE Pop
  /\ UNCHANGED <<prog, value, evaluated, todo>>

\* Mutant: the definition is evaluated if there is no error at all.
EndInferIfClean ==
  /\ stack # <<>> /\ Top.phase = "infer" /\ Top.rest = <<>>
  /\ errors' = ErrorsAfterChecks
  /\ IF Top.goal = "value" /\ errors' = <<>>
     THEN /\ value' = [value EXCEPT ![Top.def] = REC]
          /\ stack' = Replace(Evaluating(Top))
     ELSE stack' = Pop /\ UNCHANGED value
  /\ UNCHANGED <<prog, evaluated, todo>>

\* The types are done.  The definition is evaluated if that added no error.
EndInfer ==
  /\ stack # <<>> /\ Top.phase = "infer" /\ Top.rest = <<>>
  /\ errors' = ErrorsAfterChecks
  /\ IF Top.goal = "value" /\ Len(errors') = Top.old
     THEN /\ value' = [value EXCEPT ![Top.def] = REC]
          /\ stack' = Replace(Evaluating(Top))
     ELSE stack' = Pop /\ UNCHANGED value
  /\ UNCHANGED <<prog, evaluated, todo>>

EndEval ==
  /\ stack # <<>> /\ Top.phase = "eval" /\ Top.rest = <<>>
  /\ value' = [value EXCEPT ![Top.def] = Top.acc]
  /\ evaluated' = [evaluated EXCEPT ![Top.def] = TRUE]
  /\ stack' = Pop
  /\ UNCHANGED <<prog, errors, todo>>

Next ==
  \/ VisitForTypes \/ VisitForValue
  \/ ReferToOpen \/ ReferToEvaluated \/ ReferToIllegal \/ ReferToNew \/ Resume
  \/ EvaluateToNothing \/ EndInfer \/ EndEval

Spec == Init /\ [][Next]_vars /\ WF_vars(Next)
-----------------------------------------------------------------------------
Finished == stack = <<>> /\ todo = <<>>

\* What the definitions mean.  known is a valuation: what is known of each
\* constant.  Whether a type [c]T needs c is up to the property (strict).
Valuations == [Consts -> Values \cup {NULL}]

TermMeaning(term, known) ==
  CASE term.op = "ref" -> known[term.of]
    [] term.op = "if" -> IF known[term.of] = NULL THEN NULL
                         ELSE known[IF known[term.of] = 1 THEN term.yes ELSE term.no]
    [] OTHER -> NULL

BodyMeaning(body, known, strict) ==
  LET meaning(i) == TermMeaning(body.terms[i], known)
  IN  IF \/ \E i \in DOMAIN body.terms : meaning(i) = NULL
         \/ strict /\ \E i \in DOMAIN body.sizes : known[body.sizes[i]] = NULL
      THEN NULL
      ELSE (1 + Cardinality({i \in DOMAIN body.terms : meaning(i) = 1})) % 2

\* What follows from known is known.
Complete(known, strict) ==
  \A c \in Consts : BodyMeaning(prog[c], known, strict) \in {NULL, known[c]}

\* The value of a constant is the one that no complete valuation can do
\* without: the least solution of the definitions.
Means(c, v, strict) == \A known \in Valuations : Complete(known, strict) => known[c] = v

\* Between two calls for the same constant there is one that evaluates a
\* value and has marked it, so a cycle is noticed and does not go on forever.
CyclesMeetAMark ==
  \A i, j \in DOMAIN stack :
    i < j /\ stack[i].def = stack[j].def => \E k \in i..(j - 1) : value[stack[k].def] = REC

\* A value that a constant has is the one its definition means, whatever
\* constant was evaluated first and whatever went wrong in between.
ValuesAreRight ==
  \A c \in Consts : value[c] \in Values => Means(c, value[c], FALSE)

\* The constants that the definition of c mentions, in it or in those it mentions.
MentionedBy(term) ==
  CASE term.op = "ref" -> {term.of}
    [] term.op = "if" -> {term.of, term.yes, term.no}
    [] OTHER -> {}

Mentions(c) ==
  {prog[c].sizes[i] : i \in DOMAIN prog[c].sizes}
    \cup UNION {MentionedBy(prog[c].terms[i]) : i \in DOMAIN prog[c].terms}

Reach(c) ==
  {d \in Consts : \A S \in SUBSET Consts :
                    (\A e \in S \cup {c} : Mentions(e) \subseteq S) => d \in S}

\* A constant reported as recursive is on a cycle and cannot have a value:
\* a cycle through the branch that an if does not take is no error, nor is
\* the use of a constant whose evaluation failed before.
RecursionIsReal ==
  \A i \in DOMAIN errors :
    errors[i][1] \in {"recursive", "recursive size"}
      => /\ errors[i][3] \in Reach(errors[i][3])
         /\ ~ \E v \in Values : Means(errors[i][3], v, TRUE)

\* A constant whose definition, array sizes included, has a meaning gets its
\* value in the end, whatever else in the program went wrong before: an error
\* elsewhere, or a first attempt that came while something else was evaluated.
DefinedMeansValued ==
  Finished => \A c \in Consts : (\E v \in Values : Means(c, v, TRUE)) => value[c] \in Values

\* The constant rests on an operation that evaluation has no case for.
RestsOnUnhandled(c) == \E d \in Reach(c) \cup {c} : Has(d, "unhandled")

\* Code is generated only after no error, and uses the values of constants
\* without looking whether there is one.  Every constant was evaluated by then,
\* and the only ones without a value rest on an operation that the checks
\* accept and evaluation has no case for.
AcceptedMeansValued ==
  Finished /\ errors = <<>> =>
    \A c \in Consts :
      evaluated[c] /\ (value[c] \in Values \/ (value[c] = NULL /\ RestsOnUnhandled(c)))

\* The evaluation comes to an end, also for definitions that are cyclic.
Terminates == <>Finished
=============================================================================
