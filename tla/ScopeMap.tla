------------------------------ MODULE ScopeMap ------------------------------
(***************************************************************************)
(* What the symbol table of a scope promises to name resolution: a map     *)
(* from (name, kind) to the declaration that was added last, besides the   *)
(* list that owns the declarations.                                        *)
(***************************************************************************)
EXTENDS Sequences

CONSTANTS Key, Value, NULL

VARIABLES
  bound,    \* bound[k]: the declaration k stands for, NULL if none
  symbols   \* the declarations, the newest first

Init ==
  /\ bound = [k \in Key |-> NULL]
  /\ symbols = <<>>

Bind(k, v) ==
  /\ bound' = [bound EXCEPT ![k] = v]
  /\ symbols' = <<[key |-> k, value |-> v]>> \o symbols

Next == \E k \in Key, v \in Value : Bind(k, v)

Spec == Init /\ [][Next]_<<bound, symbols>>
=============================================================================
