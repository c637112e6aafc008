------------------------------- MODULE Typing -------------------------------
(***************************************************************************)
(* What a well-typed program is, stated without any order: an assignment   *)
(* of types to the nodes of a program that fits at every node.  The code   *)
(* generator relies on it at each node it visits.  Inference is compared   *)
(* with it: what it accepts has types that fit, and if only one choice of  *)
(* types fits, it is found.                                                *)
(***************************************************************************)
EXTENDS Inference, FiniteSets

CONSTANT Universe     \* the types that are tried for what is left open

\* A type without names and unsure types.
RECURSIVE Close(_)
Close(t) ==
  IF t = NULL THEN NULL
  ELSE IF t.kind \in Indirect THEN Close(Onward(table, t))
  ELSE [t EXCEPT !.kids = [i \in DOMAIN @ |-> Close(@[i])]]

\* A type that an unsure type makes a part of itself.
RECURSIVE Within(_, _)
Within(t, visited) ==
  /\ t # NULL
  /\ \/ t \in visited
     \/ t.kind \in Indirect /\ Within(Onward(table, t), visited \cup {t})
     \/ t.kind \notin Indirect /\ \E i \in DOMAIN t.kids : Within(t.kids[i], visited)

Endless == \E n \in Nodes : Within(res[n], {})

-----------------------------------------------------------------------------
(***************************************************************************)
(* The rules.  T gives every node a type, closed and complete.             *)
(***************************************************************************)

Integer == {"int", "uint"}
Numeric == Integer \cup {"real"}

CanBeCast(from, to) ==
  \/ from = to
  \/ to.kind \in Integer /\ from.kind \in Numeric \cup {"pointer"}
  \/ to.kind = "real" /\ from.kind \in Numeric
  \/ to.kind = "pointer" /\ from.kind \in Integer \cup {"pointer"}

RECURSIVE Place(_)
Place(n) ==
  \/ Kind(n) = "VAR" /\ Kind(DefOf(node[n].var)) # "CONSTDEF"
  \/ Kind(n) = "DEREF"
  \/ Kind(n) \in {"INDEX", "STRUCT_INDEX", "TUPLE_INDEX"} /\ Place(Kid(n, 1))

RECURSIVE HasSize(_)
HasSize(t) ==
  /\ t.kind # "function"
  /\ t.kind # "pointer" => \A i \in DOMAIN t.kids : HasSize(t.kids[i])

FitsLiteral(T, n) ==
  CASE Kind(n) \in {"INT", "CHAR", "SIZEOF"} -> T[n].kind \in Integer
    [] Kind(n) = "REAL" -> T[n].kind = "real"
    [] Kind(n) = "BOOL" -> T[n] = BoolType
    [] Kind(n) = "VOID" -> T[n] = VoidType
    [] Kind(n) = "STR" -> T[n] = createPointerType(CharType)

FitsBinary(T, n) ==
  LET l == T[Left(n)]  r == T[Right(n)]
  IN  CASE Kind(n) \in Arithmetic -> {l, r} = {T[n]} /\ T[n].kind \in Numeric
        [] Kind(n) \in OnIntegers -> {l, r} = {T[n]} /\ T[n].kind \in Integer
        [] Kind(n) \in Equalities -> l = r /\ T[n] = BoolType /\ l.kind \in Numeric \cup {"bool", "pointer"}
        [] Kind(n) \in Orders -> l = r /\ T[n] = BoolType /\ l.kind \in Numeric \cup {"pointer"}
        [] Kind(n) \in {"AND", "OR"} -> {l, r, T[n]} = {BoolType}
        [] Kind(n) = "INDEX" -> l.kind = "array" /\ l.kids[1] = T[n] /\ r.kind \in Integer
        [] Kind(n) \in Assigns ->
             /\ l = r /\ Place(Left(n)) /\ T[n] = VoidType /\ HasSize(l)
             /\ Kind(n) \in ArithmeticAssigns => l.kind \in Numeric
             /\ Kind(n) \in AssignsOnIntegers => l.kind \in Integer

FitsUnary(T, n) ==
  LET op == Kid(n, 1)
  IN  CASE Kind(n) = "POS" -> T[op] = T[n] /\ T[n].kind \in Numeric
        [] Kind(n) = "NEG" -> T[op] = T[n] /\ T[n].kind \in {"int", "real"}
        [] Kind(n) = "NOT" -> T[op] = T[n] /\ T[n].kind \in Integer \cup {"bool"}
        [] Kind(n) = "ADDR" -> T[n] = createPointerType(T[op]) /\ Place(op)
        [] Kind(n) = "DEREF" -> T[op] = createPointerType(T[n])
        [] Kind(n) = "AS" -> T[n] = Close(node[n].type) /\ CanBeCast(T[op], T[n])

FitsCompound(T, n) ==
  LET of == T[Kid(n, 1)]
      types == [i \in DOMAIN Kids(n) |-> T[Kid(n, i)]]
  IN  CASE Kind(n) = "STRUCT_LIT" -> T[n] = createTypeStruct(node[n].names, types) /\ IsInjective(node[n].names)
        [] Kind(n) = "TUPLE_LIT" -> T[n] = createTypeTuple(types)
        [] Kind(n) = "ARRAY_LIT" -> T[n].kind = "array" /\ T[n].tag = Arity(n) /\ \A t \in ToSet(types) : t = T[n].kids[1]
        [] Kind(n) = "STRUCT_INDEX" ->
             of.kind = "struct" /\ \E i \in DOMAIN of.kids : of.names[i] = node[n].names[1] /\ of.kids[i] = T[n]
        [] Kind(n) = "TUPLE_INDEX" ->
             of.kind = "tuple" /\ node[n].number < Len(of.kids) /\ of.kids[node[n].number + 1] = T[n]

FitsCall(T, n) ==
  LET f == T[Kid(n, 1)]
      more == Arity(n) - Len(f.kids)
  IN  /\ f.kind = "function" /\ Place(Kid(n, 1))
      /\ more = 0 \/ (f.tag = 1 /\ more > 0)
      /\ f.kids[1] = T[n]
      /\ \A i \in 2..Len(f.kids) : T[Kid(n, i)] = f.kids[i]

\* A definition and the type that is written down for it.
FitsDefinition(T, n) ==
  LET name == T[node[n].name]
      args == SelectSeq(Kids(n), LAMBDA k : Kind(k) = "ARGDEF")
  IN  IF Kind(n) = "FN"
      THEN name = createFunctionType(Close(node[n].type), [i \in DOMAIN args |-> T[node[args[i]].name]], node[n].number)
      ELSE /\ HasSize(name)
           /\ node[n].type # NULL => name = Close(node[n].type)
           /\ Arity(n) = 1 => T[Kid(n, 1)] = name

FitsControl(T, n) ==
  CASE Kind(n) = "RETURN" ->
         LET ret == T[node[FunctionOf(n)].name].kids[1]
         IN  ret = IF Arity(n) = 0 THEN VoidType ELSE T[Kid(n, 1)]
    [] Kind(n) \in {"IF_ELSE", "WHILE"} -> T[Kid(n, 1)] = BoolType
    [] Kind(n) = "IF_ELSE_EXPR" -> T[Kid(n, 1)] = BoolType /\ {T[Kid(n, 2)], T[Kid(n, 3)]} = {T[n]}
    [] Kind(n) = "BLOCK_EXPR" -> T[LastKid(n)] = T[n]
    [] OTHER -> T[n] = VoidType

Fits(T, n) ==
  /\ T[n] # NULL /\ ~isPartialType(table, T[n])
  /\ CASE Kind(n) = "VAR" -> T[n] = T[NameOf(node[n].var)]
       [] Kind(n) \in {"INT", "CHAR", "SIZEOF", "REAL", "BOOL", "VOID", "STR"} -> FitsLiteral(T, n)
       [] Kind(n) \in Arithmetic \cup OnIntegers \cup Equalities \cup Orders \cup {"AND", "OR", "INDEX"} \cup Assigns ->
            FitsBinary(T, n)
       [] Kind(n) \in {"POS", "NEG", "NOT", "ADDR", "DEREF", "AS"} -> FitsUnary(T, n)
       [] Kind(n) \in {"STRUCT_LIT", "TUPLE_LIT", "ARRAY_LIT", "STRUCT_INDEX", "TUPLE_INDEX"} -> FitsCompound(T, n)
       [] Kind(n) = "CALL" -> FitsCall(T, n)
       [] Kind(n) \in Definitions -> FitsDefinition(T, n)
       [] OTHER -> FitsControl(T, n)

WellTyped(T) == \A n \in Nodes : Fits(T, n)

-----------------------------------------------------------------------------
(***************************************************************************)
(* All typings of a program whose types are closed: the types of literals  *)
(* and of variables without a type or a value are open, and the rest       *)
(* follows from them.  NULL is the type of what is not chosen yet.         *)
(***************************************************************************)

Untyped(n) ==
  LET d == Parent(n)
  IN  n # Root /\ IsNameOf(n, d) /\ Kind(d) # "FN" /\ node[d].type = NULL

Open(n) == Kind(n) \in {"INT", "CHAR", "SIZEOF", "REAL"} \/ (Untyped(n) /\ Arity(Parent(n)) = 0)

TypesFor(n) ==
  CASE Kind(n) = "REAL" -> {t \in Universe : t.kind = "real"}
    [] Kind(n) = "VAR" -> Universe
    [] OTHER -> {t \in Universe : t.kind \in Integer}

PartOf(t, kind, i) ==
  IF t = NULL THEN NULL ELSE IF t.kind = kind /\ i \in DOMAIN t.kids THEN t.kids[i] ELSE ErrorType

Following(choice) ==
  LET T[n \in Nodes] ==
        LET kid(i) == T[Kid(n, i)]
            d == Parent(n)
            kids == [i \in DOMAIN Kids(n) |-> kid(i)]
            args == SelectSeq(Kids(d), LAMBDA k : Kind(k) = "ARGDEF")
            struct == kid(1)
        IN  CASE Open(n) -> IF n \in DOMAIN choice THEN choice[n] ELSE NULL
              [] n # Root /\ IsNameOf(n, d) ->
                   IF Kind(d) = "FN"
                   THEN createFunctionType(Close(node[d].type), [i \in DOMAIN args |-> Close(node[args[i]].type)], node[d].number)
                   ELSE IF node[d].type # NULL THEN Close(node[d].type) ELSE T[Kid(d, 1)]
              [] Kind(n) = "VAR" -> T[NameOf(node[n].var)]
              [] Kind(n) \in Arithmetic \cup OnIntegers -> T[Left(n)]
              [] Kind(n) \in {"POS", "NEG", "NOT"} -> kid(1)
              [] Kind(n) \in {"BOOL", "AND", "OR"} \cup Equalities \cup Orders -> BoolType
              [] Kind(n) = "STR" -> createPointerType(CharType)
              [] Kind(n) = "AS" -> Close(node[n].type)
              [] Kind(n) = "ADDR" -> createPointerType(kid(1))
              [] Kind(n) = "DEREF" -> PartOf(kid(1), "pointer", 1)
              [] Kind(n) = "INDEX" -> PartOf(kid(1), "array", 1)
              [] Kind(n) = "CALL" -> PartOf(kid(1), "function", 1)
              [] Kind(n) = "STRUCT_LIT" -> createTypeStruct(node[n].names, kids)
              [] Kind(n) = "TUPLE_LIT" -> createTypeTuple(kids)
              [] Kind(n) = "ARRAY_LIT" -> IF kids = <<>> THEN ErrorType ELSE createArrayType(kid(1), Len(kids))
              [] Kind(n) = "STRUCT_INDEX" ->
                   PartOf(struct, "struct", SelectInSeq(struct.names, LAMBDA f : f = node[n].names[1]))
              [] Kind(n) = "TUPLE_INDEX" -> PartOf(kid(1), "tuple", node[n].number + 1)
              [] Kind(n) = "IF_ELSE_EXPR" -> kid(2)
              [] Kind(n) = "BLOCK_EXPR" -> T[LastKid(n)]
              [] OTHER -> VoidType
  IN  T

\* What is known already of the nodes, their parts and their names fits.
FitsSoFar(choice) ==
  \E T \in {Following(choice)} :
    \E known \in {{n \in Nodes : ~isPartialType(table, T[n])}} :
      \A n \in known : (ToSet(Kids(n)) \cup ({node[n].name} \ {None}) \subseteq known) => Fits(T, n)

\* The choices for the nodes of a sequence, one node after the other.
Typings ==
  FoldLeft(LAMBDA found, n :
             {choice \in {(n :> t) @@ c : t \in TypesFor(n), c \in found} : FitsSoFar(choice)},
           {choice \in {<<>>} : FitsSoFar(choice)}, SelectSeq([n \in Nodes |-> n], Open))

-----------------------------------------------------------------------------
(***************************************************************************)
(* Properties.                                                             *)
(***************************************************************************)

Accepted == pass = "end" /\ ~errors

\* The condition of a branch is given the type bool over what a cast says, and
\* nothing compares the two.
CastAsCondition ==
  \E n \in Nodes : Kind(n) \in Conditionals /\ Kind(Kid(n, 1)) = "AS" /\ Close(node[Kid(n, 1)].type) # BoolType

\* The types of a program that is accepted fit at every node, whatever way they
\* took through it; but for two known gaps of the checks.
AcceptedIsWellTyped ==
  (Accepted /\ ~Endless /\ ~CastAsCondition) => WellTyped([n \in Nodes |-> Close(res[n])])

\* A program is not refused if there is exactly one way to choose the types
\* that were not written down: inference finds what follows from the rest of
\* the program, in whatever order the parts of the program come.
TheOnlyTypingIsFound == (pass = "end" /\ errors) => Cardinality(Typings) # 1
=============================================================================
