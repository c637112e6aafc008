------------------------------- MODULE TreeRun ------------------------------
(***************************************************************************)
(* What a function body means, read off its syntax tree: the calls it      *)
(* makes, in order, given what the earlier calls answered, and the result  *)
(* it returns.  The code that is generated for the body must do the same.  *)
(***************************************************************************)
EXTENDS Syntax

CONSTANTS Programs, MaxCalls

VARIABLES
  prog,      \* the body
  answers,   \* what the calls made so far returned
  last,      \* the path of the last call that was made
  result     \* the values the result may have, none before the return

vars == <<prog, answers, last, result>>

Outcome(is, value, rest) == [is |-> is, value |-> value, rest |-> rest]

(***************************************************************************)
(* Meaning(n, path, in) runs node n with the answers in the sequence in.   *)
(* It waits at the first call that has no answer yet, jumps, or finishes   *)
(* with a value (meaningless for a statement); rest holds the answers that *)
(* are left.                                                               *)
(***************************************************************************)
\* f(x), with x evaluated once.
With(x, f(_)) == CHOOSE y \in {f(v) : v \in {x}} : TRUE

RECURSIVE Meaning(_, _, _)
Meaning(n, path, in) ==
  LET Run(i, rest) == Meaning(Kid(n, i), Append(path, i), rest)
      Then(out, next(_)) == With(out, LAMBDA o : IF o.is = "value" THEN next(o) ELSE o)
      Both(o) == Run(2, o.rest)
      Lazy(o) == IF o.value = (n.kind = "AND") THEN Run(2, o.rest) ELSE o
      Branch(o) == IF o.value THEN Run(2, o.rest)
                   ELSE IF HasKid(n, 3) THEN Run(3, o.rest) ELSE o
      Again(b) ==
        CASE b.is = "BREAK" -> Outcome("value", FALSE, b.rest)
          [] b.is \in {"value", "CONTINUE"} -> Meaning(n, path, b.rest)
          [] OTHER -> b
      Loop(o) == IF o.value THEN With(Run(2, o.rest), Again) ELSE o
      Returned(o) == Outcome("RETURN", o.value, o.rest)
  IN  CASE n.kind = "CALL" -> IF in = <<>> THEN Outcome("waits", path, in)
                              ELSE Outcome("value", Head(in), Tail(in))
        [] n.kind \in {"BREAK", "CONTINUE"} -> Outcome(n.kind, FALSE, in)
        [] n.kind = "RETURN" -> Then(Run(1, in), Returned)
        [] n.kind \in {"BLOCK", "BLOCK_EXPR"} -> Then(Run(1, in), Both)
        [] n.kind \in {"AND", "OR"} -> Then(Run(1, in), Lazy)
        [] n.kind \in {"IF_ELSE", "IF_ELSE_EXPR"} -> Then(Run(1, in), Branch)
        [] n.kind = "WHILE" -> Then(Run(1, in), Loop)

Here == Meaning(prog, <<>>, answers)

Init ==
  /\ prog \in Programs
  /\ answers = <<>> /\ last = <<>> /\ result = {}

Call ==
  /\ Here.is = "waits"
  /\ Len(answers) < MaxCalls
  /\ last' = Here.value
  /\ \E answer \in BOOLEAN : answers' = Append(answers, answer)
  /\ UNCHANGED <<prog, result>>

Return ==
  /\ Here.is = "RETURN"
  /\ result = {}
  /\ result' = {Here.value}
  /\ UNCHANGED <<prog, answers, last>>

\* The end of the body is reached without a return: any result may follow.
FallOff ==
  /\ Here.is = "value"
  /\ result = {}
  /\ result' = BOOLEAN
  /\ UNCHANGED <<prog, answers, last>>

Next == Call \/ Return \/ FallOff

Spec == Init /\ [][Next]_vars /\ WF_vars(Next)
=============================================================================
