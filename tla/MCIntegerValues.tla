---------------------------- MODULE MCIntegerValues --------------------------
(***************************************************************************)
(* Words of two bits, so that small integers have several.                 *)
(***************************************************************************)
EXTENDS IntegerValues

Literal(prefix, digits) == [prefix |-> prefix, digits |-> digits]

\* 0, 5, 21, 48, 63, and 2049 and 4095, which have six words.
MCLiterals == {Literal("none", <<0>>), Literal("d", <<5>>), Literal("o", <<2, -1, 5>>),
               Literal("b", <<1, 1, 0, 0, 0, 0>>), Literal("h", <<3, 15>>),
               Literal("none", <<2, 0, 4, 9>>), Literal("x", <<15, 15, 15>>)}
\* 0, 0.5, -0.5, 6 and -13.5
MCReals == {0, 1, -1, 12, -27}

Type(kind, size) == [kind |-> kind, size |-> size]
MCTypes == {Type("big", 0), Type("int", 4), Type("uint", 4), Type("int", 3), Type("uint", 3), Type("int", 5)}
MCOperands == {0, 1, 3, 4, 7, 12, 16, 21}
MCShifts == {0, 1, 2, 3, 5}
=============================================================================
