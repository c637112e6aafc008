----------------------------- MODULE TypeTerms -----------------------------
(***************************************************************************)
(* The types of expressions while they are inferred (types/types.c), as    *)
(* terms.  A term has a kind, the terms it is made of, and what is         *)
(* compared before those: "tag" is the size of a number or an array and    *)
(* whether a function takes more arguments, "names" the fields of a        *)
(* struct.  An unsure type stands for the entry "tag" of a table, which    *)
(* says what it may become, what it is if nothing else is known, what it   *)
(* has become, and the nodes it was given to.  A named type is made of     *)
(* what it stands for; the module TypeCompare has those that contain       *)
(* themselves, and what comparisons remember of each other.                *)
(***************************************************************************)
EXTENDS Integers, Sequences, SequencesExt

Type(kind, tag, names, kids) == [kind |-> kind, tag |-> tag, names |-> names, kids |-> kids]

NULL == Type("NULL", 0, <<>>, <<>>)

createUnsizedPrimitiveType(kind) == Type(kind, 0, <<>>, <<>>)
createSizedPrimitiveType(kind, size) == Type(kind, size, <<>>, <<>>)
createTypeReference(name, target) == Type("reference", 0, <<name>>, <<target>>)
Unsure(i) == Type("unsure", i, <<>>, <<>>)

ErrorType == createUnsizedPrimitiveType("error")
VoidType == createUnsizedPrimitiveType("void")
BoolType == createUnsizedPrimitiveType("bool")
CharType == createSizedPrimitiveType("uint", 8)

isErrorType(t) == t.kind = "error"

\* A type is not made of the error type but becomes it.
Made(kind, tag, names, kids) ==
  IF \E i \in DOMAIN kids : isErrorType(kids[i]) THEN ErrorType ELSE Type(kind, tag, names, kids)

createPointerType(base) == Made("pointer", 0, <<>>, <<base>>)
createArrayType(base, size) == Made("array", size, <<>>, <<base>>)
createFunctionType(ret, args, vararg) == Made("function", vararg, <<>>, <<ret>> \o args)
createTypeStruct(names, types) == Made("struct", 0, names, types)
createTypeTuple(types) == Made("tuple", Len(types), <<>>, types)

\* createUnsureType: a new entry of the table.
unsureType(set, fallback) == [set |-> set, fallback |-> fallback, actual |-> NULL, refs |-> <<>>]

-----------------------------------------------------------------------------
(***************************************************************************)
(* The predicates go along names and unsure types.                         *)
(***************************************************************************)

Indirect == {"reference", "unsure"}
Plain == {"error", "void", "bool", "int", "uint", "real"}

Onward(table, t) ==
  IF t.kind = "reference" THEN t.kids[1]
  ELSE IF table[t.tag].actual # NULL THEN table[t.tag].actual ELSE table[t.tag].fallback

\* STRUCTURAL_TYPE_CHECK_HELPER: what is met from a type on.
RECURSIVE Along(_, _, _)
Along(table, t, visited) ==
  IF t = NULL \/ t \in visited THEN {}
  ELSE {t} \cup (IF t.kind \in Indirect THEN Along(table, Onward(table, t), visited \cup {t}) ELSE {})

Met(table, t, kinds) == {s \in Along(table, t, {}) : s.kind \in kinds}
MetUnsure(table, t, set) == {s \in Met(table, t, {"unsure"}) : table[s.tag].set = set}

getTypeOfKind(table, t, kind) ==
  LET found == Met(table, t, {kind}) IN IF found = {} THEN NULL ELSE CHOOSE s \in found : TRUE

isOfKind(table, t, kind) == Met(table, t, {kind}) # {}

isIntegerType(table, t) == Met(table, t, {"int", "uint"}) \cup MetUnsure(table, t, "integer") # {}
isRealType(table, t) == Met(table, t, {"real"}) \cup MetUnsure(table, t, "real") # {}
isNumericType(table, t) == Met(table, t, {"int", "uint", "real"}) # {}

lookupIndexOfStructField(t, name) == SelectInSeq(t.names, LAMBDA n : n = name)

\* Something in the type is still open.
RECURSIVE Partial(_, _, _)
Partial(table, t, visited) ==
  IF t = NULL THEN TRUE
  ELSE IF t \in visited \/ t.kind \in Plain THEN FALSE
  ELSE IF t.kind \in Indirect THEN Partial(table, Onward(table, t), visited \cup {t})
  ELSE \E i \in DOMAIN t.kids : Partial(table, t.kids[i], visited \cup {t})

isPartialType(table, t) == Partial(table, t, {})

RECURSIVE Sized(_, _, _)
Sized(table, t, visited) ==
  /\ t # NULL /\ t \notin visited /\ t.kind # "function"
  /\ CASE t.kind \in Plain \cup {"pointer"} -> TRUE
       [] t.kind \in Indirect -> Sized(table, Onward(table, t), visited \cup {t})
       [] OTHER -> \A i \in DOMAIN t.kids : Sized(table, t.kids[i], visited \cup {t})

isSizedType(table, t) == Sized(table, t, {})

-----------------------------------------------------------------------------
(***************************************************************************)
(* compareStructuralTypesHelper.  A comparison is a record: whether the    *)
(* types were equal so far, the table, and the unsure types it resolved,   *)
(* the last one first.  "open" says whether it may resolve any, "pairs"    *)
(* are the comparisons around it.                                          *)
(***************************************************************************)

isSubsetOfUnsure(table, set, t) ==
  CASE set = "integer" -> isIntegerType(table, t)
    [] set = "real"    -> isRealType(table, t)
    [] OTHER           -> TRUE

\* What an unsure type has become, through others.  Types that became the same
\* are in one class.
RECURSIVE Become(_, _)
Become(table, t) ==
  IF t.kind = "unsure" /\ table[t.tag].actual # NULL THEN Become(table, table[t.tag].actual) ELSE t

Resolvable(table, t, other) ==
  /\ t.kind = "unsure" /\ table[t.tag].actual = NULL
  /\ other.kind # "reference" /\ isSubsetOfUnsure(table, table[t.tag].set, other)

Resolve(c, t, other) ==
  [c EXCEPT !.table[t.tag].actual = other, !.changed = <<t.tag>> \o @]

\* Along a name, an unsure type, or two of a kind at once.
OneOn(table, a, b) ==
  LET one(kind) == a.kind = kind /\ b.kind # kind
      other(kind) == a.kind # kind /\ b.kind = kind
      resolved(t) == table[t.tag].actual # NULL
  IN  CASE one("reference")   -> <<Onward(table, a), b>>
        [] other("reference") -> <<a, Onward(table, b)>>
        [] one("unsure")      -> <<Onward(table, a), b>>
        [] other("unsure")    -> <<a, Onward(table, b)>>
        [] a.kind = "unsure" /\ resolved(a) -> <<Onward(table, a), b>>
        [] a.kind = "unsure" /\ resolved(b) -> <<a, Onward(table, b)>>
        [] OTHER              -> <<Onward(table, a), Onward(table, b)>>

SameHead(a, b) ==
  <<a.kind, a.tag, a.names, Len(a.kids)>> = <<b.kind, b.tag, b.names, Len(b.kids)>>

RECURSIVE Compare(_, _, _, _, _)
Compare(c, a, b, open, pairs) ==
  LET table == c.table
      differ == [c EXCEPT !.equal = FALSE]
      more == pairs \cup {<<a, b>>}
  IN  CASE a = b -> c
        [] NULL \in {a, b} -> differ
        [] isErrorType(a) \/ isErrorType(b) \/ Become(table, a) = Become(table, b) -> c
        [] <<a, b>> \in pairs -> c
        [] OTHER ->
             IF open /\ Resolvable(table, a, b) THEN Resolve(c, a, b)
             ELSE IF open /\ Resolvable(table, b, a) THEN Resolve(c, b, a)
             ELSE IF a.kind \in Indirect \/ b.kind \in Indirect THEN
               LET on == OneOn(table, a, b) IN Compare(c, on[1], on[2], open, more)
             ELSE IF ~SameHead(a, b) THEN differ
             ELSE FoldLeft(LAMBDA d, i : IF d.equal THEN Compare(d, a.kids[i], b.kids[i], open, more) ELSE d,
                           c, [i \in DOMAIN a.kids |-> i])

comparison(table) == [equal |-> TRUE, table |-> table, changed |-> <<>>]

assertStructuralTypesEquality(table, a, b) == Compare(comparison(table), a, b, TRUE, {})
compareStructuralTypes(table, a, b) == Compare(comparison(table), a, b, FALSE, {}).equal
=============================================================================
