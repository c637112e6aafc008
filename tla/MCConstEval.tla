----------------------------- MODULE MCConstEval ----------------------------
(***************************************************************************)
(* Small programs for ConstEval.  Length bounds the terms and sizes of a   *)
(* value and Total those of a program; Kinds are the terms without a       *)
(* constant.  Programs in which the array types of a constant's value need *)
(* the constant itself are left out: the code does not notice that cycle.  *)
(***************************************************************************)
EXTENDS ConstEval

CONSTANTS Length, Total, Kinds

Size(c) == [Ref(c) EXCEPT !.op = "size"]

\* Of the if expressions, those on the first or the last constant.
MCItems ==
  {Ref(c) : c \in Consts} \cup {Size(c) : c \in Consts}
    \cup {[op |-> "if", of |-> c, yes |-> a, no |-> 1] : c \in {1, N}, a \in Consts}
    \cup {[Ref(1) EXCEPT !.op = k] : k \in Kinds}

Sums(t) == LET sum[k \in 0..N] == IF k = 0 THEN 0 ELSE sum[k - 1] + t[k] IN sum

\* The items of a program in a row, and how many of them each constant has.
Rows ==
  {r \in (UNION {[1..n -> MCItems] : n \in 0..Total}) \X [Consts -> 0..Length] :
     Sums(r[2])[N] = Len(r[1])}

Sorted(items) ==
  [sizes |-> LET sizes == SelectSeq(items, LAMBDA item : item.op = "size")
             IN  [i \in DOMAIN sizes |-> sizes[i].of],
   terms |-> SelectSeq(items, LAMBDA item : item.op # "size")]

Cut(row, t) == [c \in Consts |-> Sorted(SubSeq(row, Sums(t)[c - 1] + 1, Sums(t)[c]))]

MCPrograms ==
  {p \in {Cut(r[1], r[2]) : r \in Rows} : \E rank \in [Consts -> Consts] : SizesDescend(p, rank)}
=============================================================================
