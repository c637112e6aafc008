---------------------------- MODULE MCInference ----------------------------
(***************************************************************************)
(* Programs for inference.  A function has a variable or two without a     *)
(* type, and statements in every order that use them with each other, with *)
(* its arguments, with literals and with what is defined at top level      *)
(* before or after it.                                                     *)
(***************************************************************************)
EXTENDS Typing

I64 == createSizedPrimitiveType("int", 64)
I32 == createSizedPrimitiveType("int", 32)
F32 == createSizedPrimitiveType("real", 32)
U8 == CharType
F64 == createSizedPrimitiveType("real", 64)
Ptr(t) == createPointerType(t)
Arr(t) == createArrayType(t, 2)
Pair == createTypeTuple(<<U8, BoolType>>)
Struct == createTypeStruct(<<"f", "g">>, <<U8, BoolType>>)
Named == createTypeReference("Named", I32)
Function == createFunctionType(I64, <<U8>>, 0)

\* There are two of everything that is not one by itself, so that what is open
\* stays open: two sizes, two structs with a field "f", two lengths of an array.
ElementTypes == {I64, I32, U8}
Other == createTypeStruct(<<"f", "h">>, <<U8, BoolType>>)

MCUniverse ==
  ElementTypes \cup {Ptr(t) : t \in ElementTypes} \cup {Arr(t) : t \in ElementTypes}
  \cup {F64, F32, BoolType, VoidType, createArrayType(U8, 3), Ptr(Ptr(I64)), Pair, Struct, Other}

\* What a program may use: the arguments of its function, and definitions next
\* to it.
ArgumentTypes ==
  [i |-> I64, q |-> U8, b |-> BoolType, p |-> Ptr(I64), a |-> Arr(U8), t |-> Pair, s |-> Struct, h |-> Ptr(Function), n |-> Named]

TopLevel == [
  call |-> Fn("call", I64, <<Def("ARGDEF", "called", U8, <<>>)>>, 0, <<>>),
  print |-> Fn("print", VoidType, <<Def("ARGDEF", "format", Ptr(U8), <<>>)>>, 1, <<>>),
  glob |-> Def("STATICDEF", "glob", I32, <<Leaf("INT")>>),
  unit |-> Def("CONSTDEF", "unit", U8, <<Leaf("CHAR")>>)]

RECURSIVE Mentioned(_)
Mentioned(tree) == {tree.var} \cup UNION {Mentioned(tree.kids[i]) : i \in DOMAIN tree.kids}

Program(statements, ret, first) ==
  LET body == Node("BLOCK", statements)
      used(names) == SelectSeq(names, LAMBDA v : v \in Mentioned(body))
      args == used(<<"i", "q", "b", "p", "a", "t", "s", "h", "n">>)
      others == used(<<"call", "print", "glob", "unit">>)
      main == Fn("main", ret, [k \in DOMAIN args |-> Def("ARGDEF", args[k], ArgumentTypes[args[k]], <<>>)], 0, <<body>>)
      defs == [k \in DOMAIN others |-> TopLevel[others[k]]]
  IN  Node("ROOT", IF first THEN <<main>> \o defs ELSE defs \o <<main>>)

Let(name, type, value) == Def("VARDEF", name, type, value)
Set(left, right) == Assign("ASSIGN", left, right)
Return(kids) == Node("RETURN", kids)
Block(kids) == Node("BLOCK", kids)
Call(f, args) == Node("CALL", <<Var(f)>> \o args)

X == Var("x")
Y == Var("y")

Values == {Var(v) : v \in {"i", "q", "b", "p", "n", "glob", "unit"}}
  \cup {Leaf(k) : k \in {"INT", "CHAR", "REAL", "BOOL", "VOID", "STR"}}

\* Statements about a variable.
Uses(x) ==
  {Set(x, v) : v \in Values} \cup
  {Assign("ADD_ASSIGN", x, Leaf("INT")), Assign("BAND_ASSIGN", x, Var("q")),
   Set(Node("DEREF", <<x>>), Var("q")), Set(Var("p"), Node("ADDR", <<x>>)), Set(x, Node("ADDR", <<x>>)),
   Set(x, Node("NEG", <<Leaf("CHAR")>>)), Set(x, Node("NOT", <<Var("b")>>)), Set(Var("q"), Node("POS", <<x>>)),
   Set(Var("b"), Node("EQ", <<x, Leaf("REAL")>>)), Set(Var("b"), Node("LT", <<Var("q"), x>>)),
   Set(x, Node("AND", <<Var("b"), x>>)), Set(x, Node("ADD", <<x, Var("n")>>)), Node("SHL", <<x, Leaf("INT")>>),
   Set(x, Sizeof(I32)), Set(x, As(Leaf("INT"), U8)), Set(Var("i"), As(x, I64)), Set(Var("b"), As(x, BoolType)),
   Set(x, Node("INDEX", <<Var("a"), Leaf("INT")>>)), Set(Var("q"), Node("INDEX", <<Var("a"), x>>)),
   Set(Node("INDEX", <<x, Leaf("INT")>>), Var("q")),
   Set(x, StructIndex(Var("s"), "g")), Set(Var("q"), StructIndex(x, "f")), Set(x, TupleIndex(Var("t"), 1)),
   Set(x, TupleIndex(Var("t"), 2)),
   Set(Var("t"), Node("TUPLE_LIT", <<x, Leaf("BOOL")>>)), Set(Var("s"), StructLit(<<"f", "g">>, <<x, Leaf("BOOL")>>)),
   Set(x, StructLit(<<"f", "g">>, <<Var("q"), Leaf("BOOL")>>)), Set(x, StructLit(<<"f", "f">>, <<Var("q"), Leaf("BOOL")>>)), Set(x, Node("ARRAY_LIT", <<Leaf("CHAR"), Var("q")>>)),
   Call("call", <<x>>), Set(x, Call("call", <<Leaf("INT")>>)), Call("print", <<Leaf("STR"), x>>), Call("call", <<>>),
   Set(x, Node("CALL", <<Node("DEREF", <<Var("h")>>), Leaf("INT")>>)),
   Node("WHILE", <<x, Block(<<Leaf("BREAK")>>)>>), Node("WHILE", <<As(x, F64), Block(<<>>)>>),
   Node("IF_ELSE", <<Node("LE", <<x, Leaf("INT")>>), Block(<<>>), Block(<<Leaf("CONTINUE")>>)>>),
   Set(x, Node("IF_ELSE_EXPR", <<Var("b"), Node("BLOCK_EXPR", <<Leaf("INT")>>), Node("BLOCK_EXPR", <<Var("q")>>)>>)),
   Return(<<x>>), Return(<<>>), x}

\* Statements that relate two variables.
Links(x, y) ==
  {Set(x, y), Node("EQ", <<x, y>>), Node("MUL", <<x, y>>), Set(x, Node("ADDR", <<y>>)), Set(Node("DEREF", <<x>>), y),
   Set(Var("t"), Node("TUPLE_LIT", <<x, y>>)), Set(x, Node("ARRAY_LIT", <<y, y>>)), Node("INDEX", <<x, y>>),
   Node("IF_ELSE_EXPR", <<Var("b"), Node("BLOCK_EXPR", <<x>>), Node("BLOCK_EXPR", <<y>>)>>),
   Node("ARRAY_LIT", <<x, y>>), Set(x, As(y, I32)), Set(x, Node("NEG", <<y>>))}

\* The uses of a variable that differ most in what they say of it.
Telling(x) ==
  {Set(x, Var("q")), Set(Var("i"), x), Set(Node("DEREF", <<x>>), Var("q")), Set(Var("p"), Node("ADDR", <<x>>)),
   Set(x, Leaf("REAL")), Set(x, Node("NEG", <<Leaf("CHAR")>>)), Set(Var("q"), StructIndex(x, "f")),
   Set(Var("b"), As(x, BoolType)), Node("WHILE", <<x, Block(<<>>)>>), Return(<<x>>), Call("call", <<x>>),
   Set(Var("t"), Node("TUPLE_LIT", <<x, Leaf("BOOL")>>))}

OneVariable ==
  UNION {{Program(<<Let("x", NULL, <<>>), u, v>>, U8, TRUE), Program(<<Let("x", NULL, <<>>), v, u>>, U8, FALSE)} :
           u \in Uses(X), v \in Telling(X)}

WithType ==
  UNION {{Program(<<Let("x", type, <<>>), u>>, U8, TRUE), Program(<<Let("x", type, <<>>), u>>, VoidType, FALSE)} :
           type \in {I64, U8, F64, BoolType, Ptr(I64), Named}, u \in Uses(X)}

WithValue ==
  {Program(<<Let("x", NULL, <<v>>), u>>, VoidType, FALSE) : v \in Values, u \in Uses(X)}

TwoVariables ==
  UNION {{Program(<<Let("x", NULL, <<>>), Let("y", NULL, <<>>), l, u>>, U8, TRUE),
          Program(<<Let("x", NULL, <<>>), Let("y", NULL, <<>>), u, l>>, U8, FALSE)} :
           l \in Links(X, Y), u \in Telling(X) \cup Telling(Y)}

MCPrograms == OneVariable \cup WithType \cup WithValue \cup TwoVariables
=============================================================================
