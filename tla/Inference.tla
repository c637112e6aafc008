----------------------------- MODULE Inference -----------------------------
(***************************************************************************)
(* Type inference (types/infer.c).  A type that a node is given is handed  *)
(* on at once to the nodes around it, to the other uses of a variable, and *)
(* from an unsure type that is resolved to every node it was given to,     *)
(* each of which may do the same in turn.  A pass over the program is one  *)
(* step; inside a pass the calls are operators that map the types before   *)
(* to the types after.                                                     *)
(***************************************************************************)
EXTENDS TypeCheck

CONSTANT Programs     \* the trees that may be compiled

VARIABLES
  varType,    \* the type of each variable
  errors,     \* whether an error was reported
  pass        \* the pass that runs next

inferVars == <<res, table, varType, errors>>
vars == <<node, inferVars, pass>>

\* What the operators map; "taken" says whether the node that was given a type
\* last has to hand it on.
Now == [res |-> res, table |-> table, var |-> varType, errors |-> errors, taken |-> FALSE]

Becomes(s) ==
  /\ res' = s.res /\ table' = s.table /\ varType' = s.var /\ errors' = s.errors

Init ==
  /\ \E p \in Programs : node = Rows(p, Root, None)
  /\ res = [n \in Nodes |-> NULL] /\ varType = [v \in Variables |-> NULL]
  /\ table = <<>> /\ errors = FALSE
  /\ pass = "hints"

-----------------------------------------------------------------------------
(***************************************************************************)
(* Handing types on.                                                       *)
(***************************************************************************)

RECURSIVE Propagate(_, _)

\* A node that has no type takes it.
Take(s, n, t) ==
  LET taken == [s EXCEPT !.res[n] = t, !.taken = TRUE]
  IN  IF t.kind = "unsure" THEN [taken EXCEPT !.table[t.tag].refs = <<n>> \o @] ELSE taken

\* The nodes with an unsure type that was resolved look at their types again.
Revisit(s, i) ==
  FoldLeft(LAMBDA r, n : Propagate(Propagate(r, n), Parent(n)), s, s.table[i].refs)

Agree(s, changed) == [FoldLeft(Revisit, s, changed) EXCEPT !.taken = FALSE]

Conflict(s, n) == [s EXCEPT !.res[n] = ErrorType, !.errors = TRUE, !.taken = TRUE]

Compared(s, n, c) ==
  IF c.equal THEN Agree([s EXCEPT !.table = c.table], c.changed) ELSE Conflict([s EXCEPT !.table = c.table], n)

\* moveTypeIntoAstNode
Move(s, n, t) ==
  IF s.res[n] = NULL THEN Take(s, n, t)
  ELSE Compared(s, n, assertStructuralTypesEquality(s.table, s.res[n], t))

\* A node that takes a type or is in conflict with it hands its type on.
HandOn(s, n) == IF s.taken THEN Propagate(s, n) ELSE s
Give(s, n, t, onto) == HandOn(Move(s, n, t), onto)

\* Nodes and the types they are given, one after the other.
GiveAll(s, gifts) == FoldLeft(LAMBDA r, g : Give(r, g[1], g[2], g[1]), s, gifts)

GiveKids(s, n, types) ==
  LET known == [i \in 1..(IF Len(types) < Arity(n) THEN Len(types) ELSE Arity(n)) |-> <<Kid(n, i), types[i]>>]
  IN  GiveAll(s, known)

\* Mutant: the operands of a comparison may have different types.
FlowsUncompared(n) ==
  LET up == Parent(n)  l == Left(n)  r == Right(n)  op == Kid(n, 1)
      flow(from, to) == <<from, to, IF to = n THEN up ELSE to>>
  IN  CASE Kind(n) = "IF_ELSE_EXPR" ->
             LET i == Kid(n, 2)  e == Kid(n, 3)
             IN  <<flow(n, i), flow(n, e), flow(i, n), flow(i, e), flow(e, n), flow(e, i)>>
        [] Kind(n) = "BLOCK_EXPR" -> <<flow(n, LastKid(n)), flow(LastKid(n), n)>>
        [] Kind(n) \in Assigns -> <<flow(r, l), flow(l, r)>>
        [] Kind(n) \in VariableDefs ->
             IF Arity(n) = 0 THEN <<>> ELSE <<flow(node[n].name, op), flow(op, node[n].name)>>
        [] Kind(n) \in Arithmetic \cup OnIntegers ->
             <<flow(n, l), flow(n, r), flow(l, n), flow(l, r), flow(r, n), flow(r, l)>>
        [] Kind(n) \in Equalities \cup Orders -> <<>>
        [] Kind(n) \in {"NOT", "POS", "NEG"} -> <<flow(n, op), flow(op, n)>>

\* Where types flow as they are: from which node, to which, and the node that
\* hands it on from there.
Flows(n) ==
  LET up == Parent(n)  l == Left(n)  r == Right(n)  op == Kid(n, 1)
      flow(from, to) == <<from, to, IF to = n THEN up ELSE to>>
  IN  CASE Kind(n) = "IF_ELSE_EXPR" ->
             LET i == Kid(n, 2)  e == Kid(n, 3)
             IN  <<flow(n, i), flow(n, e), flow(i, n), flow(i, e), flow(e, n), flow(e, i)>>
        [] Kind(n) = "BLOCK_EXPR" -> <<flow(n, LastKid(n)), flow(LastKid(n), n)>>
        [] Kind(n) \in Assigns -> <<flow(r, l), flow(l, r)>>
        [] Kind(n) \in VariableDefs ->
             IF Arity(n) = 0 THEN <<>> ELSE <<flow(node[n].name, op), flow(op, node[n].name)>>
        [] Kind(n) \in Arithmetic \cup OnIntegers ->
             <<flow(n, l), flow(n, r), flow(l, n), flow(l, r), flow(r, n), flow(r, l)>>
        [] Kind(n) \in Equalities \cup Orders -> <<flow(l, r), flow(r, l)>>
        [] Kind(n) \in {"NOT", "POS", "NEG"} -> <<flow(n, op), flow(op, n)>>

PropagateFlows(s, n) ==
  FoldLeft(LAMBDA r, f : IF r.res[f[1]] = NULL THEN r ELSE Give(r, f[2], r.res[f[1]], f[3]), s, Flows(n))

PropagateVar(s, n) ==
  LET v == node[n].var
  IN  IF s.var[v] # NULL THEN Give(s, n, s.var[v], Parent(n))
      ELSE IF s.res[n] = NULL THEN s
      ELSE Propagate(
             FoldLeft(LAMBDA r, ref : IF ref = n THEN r ELSE Propagate(r, ref),
                      [s EXCEPT !.var[v] = s.res[n]], Refs(v)),
             NameOf(v))

\* The type found in a node's type decides what its parts or its user get.
PropagateIndex(s, n) ==
  LET array == getTypeOfKind(s.table, s.res[Left(n)], "array")
  IN  IF array = NULL THEN s ELSE Give(s, n, array.kids[1], Parent(n))

AddrUp(s, n) ==
  LET op == Kid(n, 1)
  IN  IF s.res[op] = NULL THEN s ELSE Give(s, n, createPointerType(s.res[op]), Parent(n))

AddrDown(s, n) ==
  LET ptr == getTypeOfKind(s.table, s.res[n], "pointer")
  IN  IF ptr = NULL THEN s ELSE Give(s, Kid(n, 1), ptr.kids[1], Kid(n, 1))

PropagateAddr(s, n) == AddrDown(AddrUp(s, n), n)

DerefDown(s, n) ==
  IF s.res[n] = NULL THEN s ELSE Give(s, Kid(n, 1), createPointerType(s.res[n]), Kid(n, 1))

DerefUp(s, n) ==
  LET ptr == getTypeOfKind(s.table, s.res[Kid(n, 1)], "pointer")
  IN  IF ptr = NULL THEN s ELSE Give(s, n, ptr.kids[1], Parent(n))

PropagateDeref(s, n) == DerefUp(DerefDown(s, n), n)

\* Mutant: the last argument is not given its type.
PropagateCallButLast(s, n) ==
  LET f == getTypeOfKind(s.table, s.res[Kid(n, 1)], "function")
      wanted == Len(f.kids) - 1
      given == Arity(n) - 1
  IN  IF f # NULL /\ (wanted = given \/ (f.tag = 1 /\ wanted < given))
      THEN GiveAll(Give(s, n, f.kids[1], Parent(n)), [i \in 1..wanted - 1 |-> <<Kid(n, i + 1), f.kids[i + 1]>>])
      ELSE s

PropagateCall(s, n) ==
  LET f == getTypeOfKind(s.table, s.res[Kid(n, 1)], "function")
      wanted == Len(f.kids) - 1
      given == Arity(n) - 1
  IN  IF f # NULL /\ (wanted = given \/ (f.tag = 1 /\ wanted < given))
      THEN GiveAll(Give(s, n, f.kids[1], Parent(n)), [i \in 1..wanted |-> <<Kid(n, i + 1), f.kids[i + 1]>>])
      ELSE s

HasAll(s, n) == \A i \in DOMAIN Kids(n) : s.res[Kid(n, i)] # NULL
TypesOf(s, n) == [i \in DOMAIN Kids(n) |-> s.res[Kid(n, i)]]

\* Fields with the same name are next to each other.  The code returns whether
\* there are any, against its name.
checkStructFieldsHaveNoDups(n) ==
  \A i \in DOMAIN node[n].names : i > 1 => node[n].names[i] # node[n].names[i - 1]

StructDown(s, n) ==
  LET struct == getTypeOfKind(s.table, s.res[n], "struct")
      index(i) == lookupIndexOfStructField(struct, node[n].names[i])
      wanted == SelectSeq([i \in DOMAIN Kids(n) |-> i], LAMBDA i : index(i) # 0)
  IN  IF struct = NULL THEN s
      ELSE GiveAll(s, [j \in DOMAIN wanted |-> <<Kid(n, wanted[j]), struct.kids[index(wanted[j])]>>])

StructUp(s, n) ==
  IF ~HasAll(s, n) THEN s
  ELSE IF checkStructFieldsHaveNoDups(n)
  THEN Give(s, n, createTypeStruct(node[n].names, TypesOf(s, n)), Parent(n))
  ELSE [s EXCEPT !.errors = TRUE]

PropagateStructLit(s, n) == StructUp(StructDown(s, n), n)

TupleDown(s, n) ==
  LET tuple == getTypeOfKind(s.table, s.res[n], "tuple")
  IN  IF tuple = NULL THEN s ELSE GiveKids(s, n, tuple.kids)

TupleUp(s, n) ==
  IF HasAll(s, n) THEN Give(s, n, createTypeTuple(TypesOf(s, n)), Parent(n)) ELSE s

PropagateTupleLit(s, n) == TupleUp(TupleDown(s, n), n)

\* All elements have the type of the first that has one.
Elements(s, n, t) == GiveKids(s, n, [i \in DOMAIN Kids(n) |-> t])

ArrayDown(s, n) ==
  LET array == getTypeOfKind(s.table, s.res[n], "array")
  IN  IF array = NULL THEN s ELSE Elements(s, n, array.kids[1])

ArrayUp(s, n) ==
  LET known == SelectSeq(TypesOf(s, n), LAMBDA t : t # NULL)
  IN  IF known = <<>> THEN s
      ELSE Give(Elements(s, n, Head(known)), n, createArrayType(Head(known), Arity(n)), Parent(n))

PropagateArrayLit(s, n) == ArrayUp(ArrayDown(s, n), n)

PropagateReturn(s, n) ==
  LET f == getTypeOfKind(s.table, s.res[node[FunctionOf(n)].name], "function")
  IN  IF f = NULL \/ Arity(n) = 0 THEN s ELSE Give(s, Kid(n, 1), f.kids[1], Kid(n, 1))

PropagateMember(s, n) ==
  LET of == s.res[Kid(n, 1)]
      struct == getTypeOfKind(s.table, of, "struct")
      tuple == getTypeOfKind(s.table, of, "tuple")
      i == IF Kind(n) = "STRUCT_INDEX" THEN lookupIndexOfStructField(struct, node[n].names[1])
           ELSE IF node[n].number < tuple.tag THEN node[n].number + 1 ELSE 0
      in == IF Kind(n) = "STRUCT_INDEX" THEN struct ELSE tuple
  IN  IF i = 0 THEN s ELSE Give(s, n, in.kids[i], Parent(n))

\* propagateTypes
Propagate(s, n) ==
  IF n = None THEN s
  ELSE CASE Kind(n) \in {"IF_ELSE_EXPR", "BLOCK_EXPR", "NOT", "POS", "NEG"} \cup Assigns \cup VariableDefs
                          \cup Arithmetic \cup OnIntegers \cup Equalities \cup Orders -> PropagateFlows(s, n)
         [] Kind(n) = "VAR" -> PropagateVar(s, n)
         [] Kind(n) = "INDEX" -> PropagateIndex(s, n)
         [] Kind(n) = "ADDR" -> PropagateAddr(s, n)
         [] Kind(n) = "DEREF" -> PropagateDeref(s, n)
         [] Kind(n) = "CALL" -> PropagateCall(s, n)
         [] Kind(n) = "STRUCT_LIT" -> PropagateStructLit(s, n)
         [] Kind(n) = "TUPLE_LIT" -> PropagateTupleLit(s, n)
         [] Kind(n) = "ARRAY_LIT" -> PropagateArrayLit(s, n)
         [] Kind(n) = "RETURN" -> PropagateReturn(s, n)
         [] Kind(n) \in {"STRUCT_INDEX", "TUPLE_INDEX"} -> PropagateMember(s, n)
         [] OTHER -> s

-----------------------------------------------------------------------------
(***************************************************************************)
(* The passes.                                                             *)
(***************************************************************************)

Walk(F(_, _), s, n) == FoldLeft(F, s, Kids(n))

\* propagateToVariableReferences: the type of a name is that of its variable.
TypeName(s, name, t) ==
  LET v == node[name].var
      known == [s EXCEPT !.res[name] = t, !.var[v] = t]
  IN  FoldLeft(LAMBDA r, n : Move(r, n, t), known, Refs(v) \o <<name>>)

Statements == Assigns \cup VariableDefs \cup
  {"VOID", "CONTINUE", "BREAK", "RETURN", "ROOT", "BLOCK", "IF_ELSE", "WHILE", "FN", "ARGDEF"}

Conditionals == {"IF_ELSE_EXPR", "IF_ELSE", "WHILE"}

FnType(s, n) ==
  LET args == SelectSeq(Kids(n), LAMBDA k : Kind(k) = "ARGDEF")
  IN  createFunctionType(node[n].type, [i \in DOMAIN args |-> s.res[node[args[i]].name]], node[n].number)

\* What a node says of types by itself.
OwnType(n) ==
  CASE Kind(n) \in Statements -> VoidType
    [] Kind(n) \in {"BOOL", "AND", "OR"} \cup Equalities \cup Orders -> BoolType
    [] Kind(n) = "STR" -> createPointerType(CharType)
    [] Kind(n) = "AS" -> node[n].type
    [] OTHER -> NULL

HintOwn(s, n) == IF OwnType(n) = NULL THEN s ELSE Move(s, n, OwnType(n))

\* The condition of a branch is given its type whatever it has.
HintParts(s, n) ==
  CASE Kind(n) \in {"AND", "OR"} -> FoldLeft(LAMBDA r, k : Move(r, k, BoolType), s, Kids(n))
    [] Kind(n) = "SIZEOF" /\ ~isSizedType(s.table, node[n].type) -> [s EXCEPT !.errors = TRUE]
    [] Kind(n) \in Conditionals -> [s EXCEPT !.res[Kid(n, 1)] = BoolType]
    [] Kind(n) = "FN" -> TypeName(s, node[n].name, FnType(s, n))
    [] Kind(n) \in VariableDefs \cup {"ARGDEF"} /\ node[n].type # NULL -> TypeName(s, node[n].name, node[n].type)
    [] OTHER -> s

Hint(s, n) == HintParts(HintOwn(s, n), n)

RECURSIVE evaluateTypeHints(_, _)
evaluateTypeHints(s, n) == Hint(Walk(evaluateTypeHints, s, n), n)

propagateVariableReferences(s, name) ==
  LET v == node[name].var
  IN  Propagate(FoldLeft(LAMBDA r, n : Propagate(r, Parent(n)), s, Refs(v)), Parent(name))

RECURSIVE propagateAllTypes(_, _)
propagateAllTypes(s, n) ==
  LET defined == IF Kind(n) \in Definitions THEN propagateVariableReferences(s, node[n].name) ELSE s
  IN  Propagate(Walk(propagateAllTypes, defined, n), n)

\* A node without a type is given an unsure one.
Suppose(s, n, set, fallback, onto) ==
  LET t == Unsure(Len(s.table) + 1)
  IN  Give([s EXCEPT !.table = Append(@, unsureType(set, fallback))], n, t, onto)

Sizes == createSizedPrimitiveType("uint", 0)    \* SIZE_SIZE
Ints == createSizedPrimitiveType("int", 64)
Reals == createSizedPrimitiveType("real", 64)

\* In which phase a node says which type some node has if it has none, and who
\* hands it on.
Assumption(n) ==
  LET assume(phase, at, set, fallback, onto) ==
        [phase |-> phase, at |-> at, set |-> set, fallback |-> fallback, onto |-> onto]
  IN  CASE Kind(n) = "CHAR" -> assume("literals", n, "integer", CharType, Parent(n))
        [] Kind(n) = "INT" -> assume("literals", n, "integer", Ints, Parent(n))
        [] Kind(n) = "REAL" -> assume("literals", n, "real", Reals, Parent(n))
        [] Kind(n) = "SIZEOF" -> assume("sizes", n, "integer", Sizes, Parent(n))
        [] Kind(n) = "AS" -> assume("casts", Kid(n, 1), "any", node[n].type, Kid(n, 1))
        [] Kind(n) = "INDEX" -> assume("sizes", Right(n), "integer", Sizes, Right(n))
        [] Kind(n) \in VariableDefs -> assume("vars", node[n].name, "any", NULL, node[n].name)
        [] OTHER -> assume("never", n, "any", NULL, n)

\* A variable and its value are given the same unsure type.
AssumeValue(s, n, t) ==
  IF Kind(n) \in VariableDefs /\ Arity(n) > 0 THEN Give(s, Kid(n, 1), t, Kid(n, 1)) ELSE s

AssumeAt(phase, s, n) ==
  LET a == Assumption(n)
  IN  IF a.phase # phase \/ s.res[a.at] # NULL THEN s
      ELSE AssumeValue(Suppose(s, a.at, a.set, a.fallback, a.onto), n, Unsure(Len(s.table) + 1))

RECURSIVE assumeAmbiguousTypes(_, _, _)
assumeAmbiguousTypes(phase, s, n) ==
  AssumeAt(phase, Walk(LAMBDA r, k : assumeAmbiguousTypes(phase, r, k), s, n), n)

Pass(name, then) == pass = name /\ pass' = then /\ UNCHANGED node

Hints == Pass("hints", "propagate") /\ Becomes(evaluateTypeHints(Now, Root))
PropagateAll == Pass("propagate", "sizes") /\ Becomes(propagateAllTypes(Now, Root))

AssumeSizes ==
  Pass("sizes", "literals") /\ Becomes(assumeAmbiguousTypes("sizes", Now, Root))
AssumeLiterals ==
  Pass("literals", "casts") /\ Becomes(assumeAmbiguousTypes("literals", Now, Root))
AssumeCasts ==
  Pass("casts", "constraints") /\ Becomes(assumeAmbiguousTypes("casts", Now, Root))

\* FOR_ALL_MODULES_IF_OK: after an error the passes that are left do nothing.
Check(name, then, condition) ==
  /\ ~errors /\ Pass(name, then) /\ errors' = ~condition
  /\ UNCHANGED <<res, table, varType>>

CheckConstraints == Check("constraints", "vars", checkTypeConstraints)
AssumeVars ==
  /\ ~errors /\ Pass("vars", "untyped variables")
  /\ Becomes(assumeAmbiguousTypes("vars", Now, Root))
CheckVariables == Check("untyped variables", "constraints again", checkForUntypedVariables)
CheckConstraintsAgain == Check("constraints again", "untyped nodes", checkTypeConstraints)
CheckNodes == Check("untyped nodes", "end", checkForUntypedNodes)

Skipped == {"constraints", "vars", "untyped variables", "constraints again", "untyped nodes"}
GiveUp == errors /\ pass \in Skipped /\ pass' = "end" /\ UNCHANGED <<node, inferVars>>

Next ==
  \/ Hints \/ PropagateAll \/ AssumeSizes \/ AssumeLiterals \/ AssumeCasts
  \/ CheckConstraints \/ AssumeVars \/ CheckVariables \/ CheckConstraintsAgain \/ CheckNodes
  \/ GiveUp

Spec == Init /\ [][Next]_vars
=============================================================================
