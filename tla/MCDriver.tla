------------------------------ MODULE MCDriver ------------------------------
(***************************************************************************)
(* No file, and two files in the order that matters: a module behind one   *)
(* that fails, and modules before and behind one of the other kinds.       *)
(***************************************************************************)
EXTENDS Driver

MCInputs == {<<>>, <<"roda", "roda">>, <<"llvm", "roda">>, <<"roda", "object">>}
=============================================================================
