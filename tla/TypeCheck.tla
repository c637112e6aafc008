----------------------------- MODULE TypeCheck -----------------------------
(***************************************************************************)
(* The checks of a program whose types were inferred (types/check.c).  A   *)
(* check that fails reports an error; whether there is one is what the     *)
(* rest of the compiler depends on, so a pass is a condition on the nodes  *)
(* here, and it does not matter that a walk turns back at an error.        *)
(***************************************************************************)
EXTENDS TypedSyntax

VARIABLES
  res,      \* the type of each node, NULL if it has none
  table     \* the unsure types

\* The type is there and no error was reported for it.
Given(t) == t # NULL /\ ~isErrorType(t)

Of(n, kind) == isOfKind(table, res[n], kind)
IsInteger(n) == isIntegerType(table, res[n])
IsReal(n) == isRealType(table, res[n])
IsNumeric(n) == isNumericType(table, res[n])

RECURSIVE isAddressableValue(_)
isAddressableValue(n) ==
  CASE Kind(n) = "VAR" -> Kind(DefOf(node[n].var)) # "CONSTDEF"
    [] Kind(n) = "DEREF" -> TRUE
    [] Kind(n) = "INDEX" -> Of(Left(n), "pointer") \/ isAddressableValue(Left(n))
    [] Kind(n) \in {"STRUCT_INDEX", "TUPLE_INDEX"} -> isAddressableValue(Kid(n, 1))
    [] OTHER -> FALSE

isNodeWritable(n) == isAddressableValue(n) /\ (res[n] = NULL \/ isSizedType(table, res[n]))

LegalLiteral(n) ==
  Given(res[n]) =>
    CASE Kind(n) = "VOID" -> Of(n, "void")
      [] Kind(n) = "BOOL" -> Of(n, "bool")
      [] Kind(n) = "REAL" -> IsReal(n)
      [] Kind(n) \in {"INT", "CHAR", "SIZEOF"} -> IsInteger(n)
      [] Kind(n) = "STR" ->
           LET ptr == getTypeOfKind(table, res[n], "pointer")
           IN  ptr # NULL /\ getTypeOfKind(table, ptr.kids[1], "uint") = CharType

LegalAssign(n) ==
  /\ Given(res[Left(n)]) =>
       /\ Kind(n) \in ArithmeticAssigns => IsNumeric(Left(n))
       /\ Kind(n) \in AssignsOnIntegers => IsInteger(Left(n))
  /\ isNodeWritable(Left(n))

LegalCast(n) ==
  LET from == Kid(n, 1)
  IN  (NULL \notin {res[from], res[n]} /\ ~compareStructuralTypes(table, res[from], res[n])) =>
        CASE IsInteger(n) -> IsInteger(from) \/ Of(from, "pointer") \/ IsReal(from)
          [] IsReal(n) -> IsReal(from) \/ IsInteger(from)
          [] Of(n, "pointer") -> Of(from, "pointer") \/ IsInteger(from)
          [] OTHER -> FALSE

LegalIndex(n) ==
  /\ Given(res[Left(n)]) => Of(Left(n), "array")
  /\ Given(res[Right(n)]) => IsInteger(Right(n))

LegalOperation(n) ==
  /\ (Kind(n) \in Arithmetic \cup {"POS"} /\ Given(res[n])) => IsNumeric(n)
  /\ (Kind(n) \in OnIntegers /\ Given(res[n])) => IsInteger(n)
  /\ (Kind(n) = "NEG" /\ Given(res[n])) => IsReal(n) \/ Of(n, "int")
  /\ (Kind(n) = "NOT" /\ Given(res[n])) => IsInteger(n) \/ Of(n, "bool")
  /\ (Kind(n) \in Equalities /\ Given(res[Left(n)])) =>
       IsNumeric(Left(n)) \/ Of(Left(n), "bool") \/ Of(Left(n), "pointer")
  /\ (Kind(n) \in Orders /\ Given(res[Left(n)])) => IsNumeric(Left(n)) \/ Of(Left(n), "pointer")

LegalPointer(n) ==
  IF Kind(n) = "ADDR"
  THEN (Given(res[n]) => Of(n, "pointer")) /\ isAddressableValue(Kid(n, 1))
  ELSE Given(res[Kid(n, 1)]) => Of(Kid(n, 1), "pointer")

LegalReturn(n) ==
  LET func == res[node[FunctionOf(n)].name]
      type == getTypeOfKind(table, func, "function")
  IN  (Given(func) /\ Arity(n) = 0) => type # NULL /\ isOfKind(table, type.kids[1], "void")

LegalCompound(n) ==
  LET type(kind) == getTypeOfKind(table, res[n], kind)
  IN  Given(res[n]) =>
        CASE Kind(n) = "STRUCT_LIT" -> type("struct").names = node[n].names
          [] Kind(n) = "TUPLE_LIT" -> type("tuple") # NULL /\ type("tuple").tag = Arity(n)
          [] Kind(n) = "ARRAY_LIT" -> type("array") # NULL /\ type("array").tag = Arity(n)

LegalCall(n) ==
  LET f == Kid(n, 1)
      type == getTypeOfKind(table, res[f], "function")
      arguments == Arity(n) - 1
      wanted == Len(type.kids) - 1
  IN  /\ Given(res[f]) =>
           type # NULL /\ (wanted = arguments \/ (type.tag = 1 /\ wanted < arguments))
      /\ isAddressableValue(f)

LegalDefinition(n) ==
  Given(res[node[n].name]) => isSizedType(table, res[node[n].name])

LegalMember(n) ==
  LET of == Kid(n, 1)
      struct == getTypeOfKind(table, res[of], "struct")
      tuple == getTypeOfKind(table, res[of], "tuple")
  IN  Given(res[of]) =>
        IF Kind(n) = "STRUCT_INDEX"
        THEN struct # NULL /\ lookupIndexOfStructField(struct, node[n].names[1]) # 0
        ELSE tuple # NULL /\ node[n].number < tuple.tag

\* checkTypeConstraints reports nothing at the node.
Legal(n) ==
  CASE Kind(n) \in {"VOID", "BOOL", "REAL", "INT", "CHAR", "SIZEOF", "STR"} -> LegalLiteral(n)
    [] Kind(n) \in Assigns -> LegalAssign(n)
    [] Kind(n) = "AS" -> LegalCast(n)
    [] Kind(n) = "INDEX" -> LegalIndex(n)
    [] Kind(n) \in Arithmetic \cup OnIntegers \cup Equalities \cup Orders \cup {"POS", "NEG", "NOT"} ->
         LegalOperation(n)
    [] Kind(n) \in {"ADDR", "DEREF"} -> LegalPointer(n)
    [] Kind(n) = "RETURN" -> LegalReturn(n)
    [] Kind(n) \in {"STRUCT_LIT", "TUPLE_LIT", "ARRAY_LIT"} -> LegalCompound(n)
    [] Kind(n) = "CALL" -> LegalCall(n)
    [] Kind(n) \in VariableDefs \cup {"ARGDEF"} -> LegalDefinition(n)
    [] Kind(n) \in {"STRUCT_INDEX", "TUPLE_INDEX"} -> LegalMember(n)
    [] OTHER -> TRUE

checkTypeConstraints == \A n \in Nodes : Legal(n)

\* The parts of a type that are filled in with the error type after the report
\* are those of the module TypeCompare.
checkForUntypedVariables ==
  \A n \in Nodes :
    /\ Kind(n) \in {"FN", "ARGDEF"} => res[node[n].name] # NULL
    /\ Kind(n) \in VariableDefs => ~isPartialType(table, res[node[n].name])

\* The nodes of names are not walked.
checkForUntypedNodes ==
  \A n \in Nodes : res[n] # NULL \/ (n # Root /\ IsNameOf(n, Parent(n)))
=============================================================================
