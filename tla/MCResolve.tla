------------------------------ MODULE MCResolve -----------------------------
EXTENDS LexicalScope

CONSTANTS MaxTokens, x

Var == [name |-> x, kind |-> "VARIABLE"]
Type == [name |-> x, kind |-> "TYPE"]

Fns == {Fn(Var, params) : params \in {<<>>, <<Var>>}}

VariableTokens == {Block, End, Let(Var), Def(Var), Use(Var)} \cup Fns

AllTokens == VariableTokens \cup {Fn(Var, <<Var, Var>>), Def(Type), Use(Type)}

Opened(t) == Cardinality({q \in DOMAIN t : Opens(t[q])}) - Cardinality({q \in DOMAIN t : t[q].t = "end"})

\* The sequences of n tokens that can be completed to a balanced one of max.
Prefixes(tokens, max) ==
  LET prefix[n \in 0..max] ==
        IF n = 0 THEN {<<>>} ELSE
          {t \in {Append(u, token) : u \in prefix[n - 1], token \in tokens} :
             Opened(t) \in 0..(max - n)}
  IN  prefix

Bodies(tokens, max) == Prefixes(tokens, max)[max]

InFunction(bodies) == {<<fn>> \o b \o <<End>> : fn \in Fns, b \in bodies}

\* Every body of a function with up to MaxTokens tokens about variables, and
\* with fewer about types and variables; and every short file, in which
\* statements other than definitions occur in functions only.
MCTexts ==
  InFunction(Bodies(VariableTokens, MaxTokens))
  \cup InFunction(Bodies(AllTokens, MaxTokens - 2))
  \cup {t \in Bodies(AllTokens, MaxTokens - 2) :
          \A p \in DOMAIN t : t[p].t \in {"block", "let"} => Opened(SubSeq(t, 1, p - 1)) > 0}
=============================================================================
