------------------------------- MODULE Syntax -------------------------------
(***************************************************************************)
(* The part of the syntax tree (ast/ast.h) that decides which statement of *)
(* a function body runs next.  A node has a kind and its children in the   *)
(* order of AST_FOR_ALL_CHILD (ast/astwalk.h).  Expressions are boolean;   *)
(* the leaf CALL is a call of a function that returns whatever the         *)
(* environment chooses.  A node is named by its path from the root, the    *)
(* sequence of its ancestors' positions among their siblings.              *)
(***************************************************************************)
EXTENDS Integers, Sequences

Node(kind, kids) == [kind |-> kind, kids |-> kids]
Leaf(kind) == Node(kind, <<>>)

Kid(n, i) == n.kids[i]
HasKid(n, i) == i \in DOMAIN n.kids
=============================================================================
