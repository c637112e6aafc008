---------------------------- MODULE LexicalScope ----------------------------
(***************************************************************************)
(* What the names of a file mean, read off its text t, and that Resolve    *)
(* finds just that.                                                        *)
(***************************************************************************)
EXTENDS Resolve

\* The tokens whose scopes are open at token p.
Enclosing(t, p) ==
  {o \in 1..(p - 1) : Opens(t[o]) /\ \A q \in (o + 1)..p : Level(t, q) > Level(t, o)}

Largest(S, default) == IF S = {} THEN default ELSE CHOOSE n \in S : \A m \in S : m <= n

Smallest(S) == CHOOSE n \in S : \A m \in S : n <= m

\* The token that opens the innermost scope around token p.
Around(t, p) == Largest(Enclosing(t, p), ROOT)

\* The function around token p.
FunctionAround(t, p) == Largest({o \in Enclosing(t, p) : t[o].t = "fn"}, NULL)

\* The tokens that define a name in the scope opened by o.
Defining(t, o, key, kinds) ==
  {p \in DOMAIN t : t[p].t \in kinds /\ t[p].key = key /\ Around(t, p) = o}

\* A scope knows the variables defined before token p, the last of them first,
\* and the functions, statics, constants and types defined anywhere in it;
InBlock(t, o, p, key) ==
  LET before == {q \in Defining(t, o, key, {"let"}) : q < p}
      global == Defining(t, o, key, {"fn", "def"})
  IN  IF before # {} THEN Symbol(Largest(before, NULL), 0)
      ELSE IF global # {} THEN Symbol(Smallest(global), 0) ELSE NULL

\* around the body of a function are its parameters.
AsParam(t, o, key) ==
  LET same == IF o # ROOT /\ t[o].t = "fn"
              THEN {i \in DOMAIN t[o].params : t[o].params[i] = key}
              ELSE {}
  IN  IF same = {} THEN NULL ELSE Symbol(o, Smallest(same))

Known(t, o, p, key) ==
  IF InBlock(t, o, p, key) # NULL THEN InBlock(t, o, p, key) ELSE AsParam(t, o, key)

\* The symbol of the name used at token p: that of the innermost scope that
\* knows the name.
Meant(t, p) ==
  LET knowing == {o \in Enclosing(t, p) \cup {ROOT} : Known(t, o, p, t[p].key) # NULL}
  IN  IF knowing = {} THEN NULL ELSE Known(t, Largest(knowing, ROOT), p, t[p].key)

\* The function a variable or parameter lives in.
Home(t, s) ==
  IF s[2] > 0 THEN s[1] ELSE IF t[s[1]].t = "let" THEN FunctionAround(t, s[1]) ELSE NULL

Uses(t) == {p \in DOMAIN t : t[p].t = "use"}

WellScoped(t) ==
  /\ \A p \in Uses(t) :
       Meant(t, p) # NULL /\ Home(t, Meant(t, p)) \in {NULL, FunctionAround(t, p)}
  /\ \A p \in DOMAIN t :
       /\ t[p].t \in {"fn", "def"} => Defining(t, Around(t, p), t[p].key, {"fn", "def"}) = {p}
       /\ t[p].t = "fn" => \A i, j \in DOMAIN t[p].params : i # j => t[p].params[i] # t[p].params[j]

-----------------------------------------------------------------------------
\* Every use is bound to the symbol that the text means there: definitions
\* are visible before their place, variables after it, the innermost and
\* newest one wins.
BindingsLexical == pass = "done" => \A p \in Uses(text) : binding[p] = Meant(text, p)

\* The errors reported are right as a whole: a file is accepted exactly if
\* every use has a meaning, no function uses a local of another one, and no
\* definition and no parameter has a name that is taken.
AcceptsWellScoped == pass = "done" => (errors = {} <=> WellScoped(text))
=============================================================================
