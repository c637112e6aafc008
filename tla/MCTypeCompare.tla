---------------------------- MODULE MCTypeCompare ---------------------------
(***************************************************************************)
(* Programs for TypeCompare.  A program is the list of its types, a type   *)
(* naming the others by their position, and the pairs its expressions make *)
(* the passes compare; the first type is the error type.                   *)
(***************************************************************************)
EXTENDS TypeCompare

Error == Type("error", 0, <<>>)
Integer(size) == Type("int", size, <<>>)
Bool == Type("bool", 0, <<>>)
Pointer(t) == Type("pointer", 0, <<t>>)
Array(n, t) == Type("array", n, <<t>>)
Tuple(ts) == Type("tuple", Len(ts), ts)
Fn(ret, args) == Type("function", Len(args), <<ret>> \o args)
Ref(t) == Type("reference", 0, <<t>>)
Unsure(set, fallback) == Type("unsure", set, <<fallback>>)

Program(types, moves, casts, late) ==
  [types |-> types,
   questions |-> [s \in ToSet(Stages) |->
     CASE s = "propagate" -> moves [] s \in {"constraints", "code"} -> casts
       [] s = "assume variables" -> late [] OTHER -> {}]]

\* type A = (&A2, int); type A2 = (&A,); and the same with bool in place of int.
RecursiveTypes == <<
  Error, Integer(64), Bool,
  Pointer(5), Ref(6), Tuple(<<7, 2>>), Pointer(8), Ref(9), Tuple(<<4>>),
  Pointer(11), Ref(12), Tuple(<<13, 3>>), Pointer(14), Ref(15), Tuple(<<10>>)>>

\* type L = (&L, int); type M = (&(&M, int), int), which are alike.
UnrolledTypes == <<
  Error, Integer(64),
  Ref(4), Tuple(<<5, 2>>), Pointer(3),
  Ref(7), Tuple(<<8, 2>>), Pointer(9), Tuple(<<10, 2>>), Pointer(6)>>

\* Literals, an operand of a cast and variables without a type.
UnsureTypes == <<
  Error, Integer(64), Integer(8), Bool,
  Unsure("integer", 2), Unsure("integer", 2), Unsure("any", 3), Unsure("any", NULL),
  Pointer(8), Pointer(3), Ref(3), Type("real", 64, <<>>), Unsure("real", 12), Array(2, 5), Array(2, 3)>>

\* Functions, and arrays with and without an end.
BuiltTypes == <<
  Error, Integer(64), Bool, Unsure("any", NULL),
  Fn(2, <<3, 4>>), Fn(2, <<3, 2>>), Fn(3, <<3, 2>>), Array(2, 9), Ref(8), Array(2, 4), Pointer(10)>>

\* After an error: the type of a node is the error type.
BrokenTypes == <<Error, Integer(64), Bool, Tuple(<<1, 2>>), Tuple(<<3, 2>>), Tuple(<<3, 3>>)>>

\* let x; let y = 1; let k: i8 = 2; let t = (k, x); let s = (x, y);
\* let w = y as i64; t = s;
LateTypes == <<
  Error, Integer(64), Integer(8), Unsure("integer", 2), Unsure("any", NULL),
  Tuple(<<3, 5>>), Tuple(<<5, 4>>), Integer(64)>>

LateGraphs == {Program(LateTypes, {}, {<<4, 8>>}, {<<6, 7>>})}

MCGraphs == LateGraphs \cup {
  Program(RecursiveTypes, {<<4, 4>>}, {<<4, 10>>, <<7, 13>>, <<2, 3>>, <<9, 15>>}, {}),
  Program(UnrolledTypes, {<<3, 6>>, <<7, 4>>, <<9, 7>>}, {<<6, 3>>, <<5, 8>>, <<10, 8>>}, {}),
  Program(UnsureTypes,
          {<<5, 3>>, <<5, 6>>, <<6, 3>>, <<6, 13>>, <<7, 5>>, <<11, 6>>, <<7, 12>>, <<14, 15>>},
          {<<5, 4>>, <<10, 5>>, <<7, 3>>}, {<<8, 9>>, <<8, 3>>, <<10, 9>>}),
  Program(BuiltTypes, {<<5, 6>>, <<6, 5>>, <<5, 7>>, <<8, 9>>, <<10, 8>>, <<4, 9>>},
          {<<5, 6>>, <<10, 8>>}, {<<4, 11>>, <<10, 4>>}),
  Program(BrokenTypes, {<<4, 5>>, <<5, 4>>, <<4, 6>>, <<6, 5>>}, {}, {})}
=============================================================================
