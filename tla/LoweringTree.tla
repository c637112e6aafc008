---------------------------- MODULE LoweringTree ----------------------------
(***************************************************************************)
(* The generated code (Lowering) implements what the syntax tree means     *)
(* (TreeRun).                                                              *)
(***************************************************************************)
EXTENDS Lowering

Tree == INSTANCE TreeRun

\* The generated code makes the calls of the source in their order, with
\* the same decisions, returns the same result, and always gets to the next
\* of them (fairness is that a running program goes on).
ImplementsTree == Tree!Spec
=============================================================================
