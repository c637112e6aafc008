--------------------------- MODULE MCSymbolTable ---------------------------
(* Keys and declarations are model values: hash ranges over all functions, *)
(* so permuting either changes nothing a property can see.                 *)
EXTENDS SymbolTable, TLC

Symmetry == Permutations(Key) \cup Permutations(Value)
=============================================================================
