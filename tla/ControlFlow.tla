----------------------------- MODULE ControlFlow ----------------------------
(***************************************************************************)
(* The nodes of function bodies, and the check that a function with a      *)
(* result returns one on every path (compiler/controlflow.c).              *)
(***************************************************************************)
EXTENDS Syntax

CONSTANT Nodes   \* all nodes of the bodies that are looked at

Arity(kind) ==
  CASE kind \in {"CALL", "BREAK", "CONTINUE"} -> {0}
    [] kind = "RETURN" -> {1}
    [] kind \in {"AND", "OR", "WHILE"} -> {2}
    [] kind = "IF_ELSE" -> {2, 3}
    [] kind = "IF_ELSE_EXPR" -> {3}
    [] kind = "BLOCK" -> Nat
    [] kind = "BLOCK_EXPR" -> Nat \ {0}
    [] OTHER -> {}

\* Every node has the children that the grammar gives it.
ASSUME TreesAssumption ==
  \A n \in Nodes : n.kids \in Seq(Nodes) /\ Len(n.kids) \in Arity(n.kind)

-----------------------------------------------------------------------------
\* Mutant: one returning branch of an if is enough.
EndsInEitherBranch(ends, n) ==
  \/ n.kind = "RETURN"
  \/ n.kind = "WHILE" /\ ends[Kid(n, 1)]
  \/ n.kind # "WHILE" /\ \E i \in DOMAIN n.kids : ends[Kid(n, i)]

\* controlFlowEndsWithReturn for one node, given what it finds for children.
EndsIn(ends, n) ==
  \/ n.kind = "RETURN"
  \/ n.kind \in {"IF_ELSE", "IF_ELSE_EXPR", "WHILE"} /\ ends[Kid(n, 1)]
  \/ /\ n.kind \in {"IF_ELSE", "IF_ELSE_EXPR"}
     /\ ends[Kid(n, 2)] /\ HasKid(n, 3) /\ ends[Kid(n, 3)]
  \/ /\ n.kind \notin {"IF_ELSE", "IF_ELSE_EXPR", "WHILE", "FN", "TYPEDEF", "ARGDEF",
                      "STATICDEF", "CONSTDEF"}
     /\ \E i \in DOMAIN n.kids : ends[Kid(n, i)]

EndsWithReturn[n \in Nodes] == EndsIn(EndsWithReturn, n)

\* checkControlFlowConstraints reports no missing return for this body of a
\* function with a result.
Accepted(body) == EndsWithReturn[body]

\* The node has a break or continue whose loop is not in the node: a loop is
\* the target of its body and not of its condition.  A body for which this is
\* so does not get to the check (buildControlFlowReferences).
JumpsOut[n \in Nodes] ==
  \/ n.kind \in {"BREAK", "CONTINUE"}
  \/ n.kind = "WHILE" /\ JumpsOut[Kid(n, 1)]
  \/ n.kind # "WHILE" /\ \E i \in DOMAIN n.kids : JumpsOut[Kid(n, i)]
=============================================================================
