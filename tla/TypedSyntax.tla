---------------------------- MODULE TypedSyntax ----------------------------
(***************************************************************************)
(* The syntax tree of a program as the passes over types see it            *)
(* (ast/ast.h): a row per node with its kind, its parent, its children in  *)
(* the order of AST_FOR_ALL_CHILD (ast/astwalk.h), and, where it has one,  *)
(* the node of the name it defines, the name, the type that is written     *)
(* down, the names of its fields, and a number.  Lists and fields stand    *)
(* for what they contain, and types are given as what they evaluate to.    *)
(***************************************************************************)
EXTENDS TypeTerms

None == 0

Arithmetic == {"ADD", "SUB", "MUL", "DIV"}
OnIntegers == {"MOD", "SHL", "SHR", "BAND", "BOR", "BXOR"}
Equalities == {"EQ", "NE"}
Orders == {"LE", "GE", "LT", "GT"}
ArithmeticAssigns == {"ADD_ASSIGN", "SUB_ASSIGN", "MUL_ASSIGN", "DIV_ASSIGN"}
AssignsOnIntegers == {"MOD_ASSIGN", "SHL_ASSIGN", "SHR_ASSIGN", "BAND_ASSIGN", "BOR_ASSIGN", "BXOR_ASSIGN"}
Assigns == ArithmeticAssigns \cup AssignsOnIntegers \cup {"ASSIGN"}
VariableDefs == {"STATICDEF", "CONSTDEF", "VARDEF"}
Definitions == VariableDefs \cup {"FN", "ARGDEF"}

\* A program as it is written, before its nodes have numbers.
Tree(kind, var, type, names, number, kids) ==
  [kind |-> kind, var |-> var, type |-> type, names |-> names, number |-> number, kids |-> kids]

Leaf(kind) == Tree(kind, "", NULL, <<>>, 0, <<>>)
Node(kind, kids) == Tree(kind, "", NULL, <<>>, 0, kids)
Var(name) == Tree("VAR", name, NULL, <<>>, 0, <<>>)
Def(kind, name, type, kids) == Tree(kind, name, type, <<>>, 0, kids)
Fn(name, ret, args, vararg, body) == Tree("FN", name, ret, <<>>, vararg, args \o body)
As(kid, type) == Tree("AS", "", type, <<>>, 0, <<kid>>)
Sizeof(type) == Tree("SIZEOF", "", type, <<>>, 0, <<>>)
StructLit(names, kids) == Tree("STRUCT_LIT", "", NULL, names, 0, kids)
StructIndex(kid, name) == Tree("STRUCT_INDEX", "", NULL, <<name>>, 0, <<kid>>)
TupleIndex(kid, number) == Tree("TUPLE_INDEX", "", NULL, <<>>, number, <<kid>>)

\* The right side of an assignment comes first.
Assign(kind, left, right) == Node(kind, <<right, left>>)

HasName(t) == t.kind \in Definitions

RECURSIVE Size(_)
Size(t) ==
  FoldLeft(LAMBDA sum, kid : sum + Size(kid), IF HasName(t) THEN 2 ELSE 1, t.kids)

\* The rows of a tree whose root has a number, in the order of the walk; the
\* node of a name follows its definition.
RECURSIVE Rows(_, _, _)
Rows(t, id, parent) ==
  LET at[i \in 1..Len(t.kids)] ==
        IF i = 1 THEN id + (IF HasName(t) THEN 2 ELSE 1) ELSE at[i - 1] + Size(t.kids[i - 1])
      row == [kind |-> t.kind, var |-> t.var, type |-> t.type, names |-> t.names, number |-> t.number,
              parent |-> parent, name |-> IF HasName(t) THEN id + 1 ELSE None, kids |-> at]
      named == [row EXCEPT !.kind = "VAR", !.type = NULL, !.parent = id, !.name = None, !.kids = <<>>]
  IN  <<row>> \o (IF HasName(t) THEN <<named>> ELSE <<>>)
      \o FlattenSeq([i \in DOMAIN t.kids |-> Rows(t.kids[i], at[i], id)])

VARIABLE node   \* the rows

Nodes == DOMAIN node
Root == 1

Kind(n) == node[n].kind
Kid(n, i) == node[n].kids[i]
Kids(n) == node[n].kids
Arity(n) == Len(Kids(n))
Parent(n) == node[n].parent
Left(n) == IF Kind(n) \in Assigns THEN Kid(n, 2) ELSE Kid(n, 1)
Right(n) == IF Kind(n) \in Assigns THEN Kid(n, 1) ELSE Kid(n, 2)
LastKid(n) == Kid(n, Arity(n))

IsNameOf(n, d) == node[d].name = n

\* The definition and the uses of a variable, which name resolution found; the
\* newest use comes first.
DefOf(v) == CHOOSE d \in Nodes : node[d].name # None /\ node[d].var = v
NameOf(v) == node[DefOf(v)].name
Refs(v) ==
  Reverse(SelectSeq([i \in Nodes |-> i], LAMBDA n : Kind(n) = "VAR" /\ node[n].var = v /\ n # NameOf(v)))
Variables == {node[d].var : d \in {m \in Nodes : node[m].name # None}}

\* The function a return leaves (the module ControlFlowRefs).
RECURSIVE FunctionOf(_)
FunctionOf(n) == IF Kind(n) = "FN" THEN n ELSE FunctionOf(Parent(n))
=============================================================================
