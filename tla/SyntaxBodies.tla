---------------------------- MODULE SyntaxBodies ----------------------------
(***************************************************************************)
(* The bodies of functions that the parser and the passes in front of code *)
(* generation let through, enumerated by their size.                       *)
(***************************************************************************)
EXTENDS Syntax

\* The trees of a kind whose children are drawn from the given sets.
Unary(kind, A) == {Node(kind, <<a>>) : a \in A}
Binary(kind, A, B) == {Node(kind, <<a, b>>) : a \in A, b \in B}
Ternary(kind, A, B, C) == {Node(kind, <<a, b, c>>) : a \in A, b \in B, c \in C}

(***************************************************************************)
(* grammar[n] has the expressions and the statements with exactly n nodes, *)
(* as the rules expr, block_expr, if_expr, stmt, block_stmt and if of the  *)
(* parser build them.                                                      *)
(***************************************************************************)
Grammar(size) ==
  LET grammar[n \in 1..size] ==
        LET E(k) == grammar[k].expr
            S(k) == grammar[k].stmt
            pairs == {<<i, j>> \in (1..n) \X (1..n) : i + j = n - 1}
            triples == {<<i, j, k>> \in (1..n) \X (1..n) \X (1..n) : i + j + k = n - 1}
            expr ==
              IF n = 1 THEN {Leaf("CALL")} ELSE
                   UNION {Binary("AND", E(p[1]), E(p[2])) : p \in pairs}
              \cup UNION {Binary("OR", E(p[1]), E(p[2])) : p \in pairs}
              \cup UNION {Binary("BLOCK_EXPR", S(p[1]), E(p[2])) : p \in pairs}
              \cup UNION {Ternary("IF_ELSE_EXPR", E(t[1]), E(t[2]), E(t[3])) : t \in triples}
            stmt ==
              IF n = 1 THEN {Leaf("BREAK"), Leaf("CONTINUE")} ELSE
                   Unary("RETURN", E(n - 1))
              \cup UNION {Binary("BLOCK", S(p[1]), S(p[2])) : p \in pairs}
              \cup UNION {Binary("WHILE", E(p[1]), S(p[2])) : p \in pairs}
              \cup UNION {Binary("IF_ELSE", E(p[1]), S(p[2])) : p \in pairs}
              \cup UNION {Ternary("IF_ELSE", E(t[1]), S(t[2]), S(t[3])) : t \in triples}
        IN  [expr |-> expr, stmt |-> expr \cup stmt]
  IN  grammar

RECURSIVE Subtrees(_)
Subtrees(n) == {n} \cup UNION {Subtrees(Kid(n, i)) : i \in DOMAIN n.kids}

\* Some node of the given kinds occurs in the tree.
Mentions(n, kinds) == \E m \in Subtrees(n) : m.kind \in kinds

\* No break or continue is left without a loop: a loop is the target of its
\* body and not of its condition (buildControlFlowReferences, which reports
\* the others as errors).
RECURSIVE TargetsResolved(_, _)
TargetsResolved(n, inLoop) ==
  CASE n.kind \in {"BREAK", "CONTINUE"} -> inLoop
    [] n.kind = "WHILE" -> TargetsResolved(Kid(n, 1), inLoop) /\ TargetsResolved(Kid(n, 2), TRUE)
    [] OTHER -> \A i \in DOMAIN n.kids : TargetsResolved(Kid(n, i), inLoop)

\* The bodies of functions without nested functions that have up to the given
\* number of nodes and pass the resolution of break and continue.
Bodies(size) ==
  {b \in UNION {Grammar(size)[n].stmt : n \in 1..size} : TargetsResolved(b, FALSE)}
-----------------------------------------------------------------------------
\* The code of the node begins no block.
OneBlock(n) == ~ Mentions(n, {"AND", "OR", "IF_ELSE", "IF_ELSE_EXPR", "WHILE",
                              "BREAK", "CONTINUE", "RETURN"})

\* The branches of the if expressions begin no blocks of their own.
StraightBranches(n) ==
  \A m \in Subtrees(n) :
    m.kind = "IF_ELSE_EXPR" => OneBlock(Kid(m, 2)) /\ OneBlock(Kid(m, 3))
=============================================================================
