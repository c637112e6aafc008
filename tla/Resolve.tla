------------------------------- MODULE Resolve ------------------------------
(***************************************************************************)
(* Name resolution (compiler/varbuild.c): two walks over a file.  The      *)
(* first enters the functions, statics, constants and types into the       *)
(* symbol table of their scope, the second enters parameters and variables *)
(* and binds every use of a name.  A symbol table is the map that          *)
(* SymbolTable implements; tables are linked to that of the outer scope.   *)
(*                                                                         *)
(* The file is given as its text, the sequence of the tokens that open and *)
(* close scopes, define and use names, in the order both walks meet them:  *)
(* the value of a variable comes before the token that defines it.         *)
(***************************************************************************)
EXTENDS Integers, Sequences, FiniteSets

CONSTANTS
  Names,   \* the names of the program
  Texts,   \* the files that are resolved
  NULL

VARIABLES
  text,      \* the file
  pass,      \* the walk that is running: "root", "local" or "done"
  at,        \* the next token
  scope,     \* the table of the current scope
  func,      \* the symbol of the function the walk is in
  saved,     \* the scopes and functions to return to
  tables,    \* the symbols of each scope: a map from (name, kind)
  parent,    \* the outer scope of each scope
  function,  \* the function each local symbol belongs to
  binding,   \* the symbol each use and each function is bound to
  errors,    \* the errors reported so far, a kind and a place
  look       \* the table that the name at hand is looked up in, NULL for none

vars == <<text, pass, at, scope, func, saved, tables, parent, function, binding, errors, look>>

Kinds == {"VARIABLE", "TYPE"}
Key == [name : Names, kind : Kinds]

Block == [t |-> "block"]
End == [t |-> "end"]
Fn(key, params) == [t |-> "fn", key |-> key, params |-> params]
Let(key) == [t |-> "let", key |-> key]
Def(key) == [t |-> "def", key |-> key]      \* static, const and type
Use(key) == [t |-> "use", key |-> key]

Opens(token) == token.t \in {"block", "fn"}

\* The name of a function, a parameter or a variable is that of a variable.
IsToken(token) ==
  \/ token \in {Block, End}
  \/ /\ token.t = "fn" /\ token = Fn(token.key, token.params)
     /\ token.key \in Key /\ token.key.kind = "VARIABLE"
     /\ token.params \in Seq({key \in Key : key.kind = "VARIABLE"})
  \/ token.t = "let" /\ token = Let(token.key) /\ token.key \in Key /\ token.key.kind = "VARIABLE"
  \/ token.t = "def" /\ token = Def(token.key) /\ token.key \in Key
  \/ token.t = "use" /\ token = Use(token.key) /\ token.key \in Key

\* How many scopes are open before token p of the text t.
Level(t, p) == Cardinality({q \in 1..(p - 1) : Opens(t[q])})
               - Cardinality({q \in 1..(p - 1) : t[q].t = "end"})

\* A text is a tree written down: what is opened is closed, nothing else is.
ASSUME TextsAssumption ==
  \A t \in Texts :
    /\ Len(t) \in Nat /\ DOMAIN t = 1..Len(t)
    /\ \A p \in DOMAIN t : IsToken(t[p]) /\ (t[p].t = "end" => Level(t, p) > 0)
    /\ Level(t, Len(t) + 1) = 0

ASSUME NullAssumption == NULL \notin Int /\ NULL \notin Int \X Int

\* A symbol is named by the place that defines it: token p, or parameter i of
\* the function at token p.
Symbol(p, i) == <<p, i>>
Symbols == {Symbol(p, 0) : p \in DOMAIN text}
           \cup UNION {{Symbol(p, i) : i \in DOMAIN text[p].params} :
                         p \in {q \in DOMAIN text : text[q].t = "fn"}}

\* The scopes: the file, the block opened by token p, and for a function at
\* token p that of its parameters.
ROOT == 0
BlockScope(p) == p
ParamScope(p) == -p
Scopes == -Len(text)..Len(text)

KeyOf(s) == IF s[2] = 0 THEN text[s[1]].key ELSE text[s[1]].params[s[2]]

Init ==
  /\ text \in Texts
  /\ pass = "root" /\ at = 1
  /\ scope = ROOT /\ func = NULL /\ saved = <<>>
  /\ tables = [s \in Scopes |-> [k \in Key |-> NULL]]
  /\ parent = [s \in Scopes |-> NULL]
  /\ function = [s \in Symbols |-> NULL]
  /\ binding = [p \in DOMAIN text |-> NULL]
  /\ errors = {}
  /\ look = NULL

Token == text[at]
In(p, t) == pass = p /\ at <= Len(text) /\ Token.t = t

Report(kind) == errors' = errors \cup {<<kind, at>>}

Save == saved' = Append(saved, <<scope, func>>)

(***************************************************************************)
(* The first walk, buildRootSymbolTables.                                  *)
(***************************************************************************)
\* Mutant: the name is entered without looking whether it is taken.
DefineOnceUnchecked ==
  /\ tables' = [tables EXCEPT ![scope][Token.key] = Symbol(at, 0)]
  /\ UNCHANGED errors

\* checkNotExisting guards the entry: the first definition is kept.
DefineOnce ==
  IF tables[scope][Token.key] = NULL
  THEN /\ tables' = [tables EXCEPT ![scope][Token.key] = Symbol(at, 0)]
       /\ UNCHANGED errors
  ELSE Report("exists") /\ UNCHANGED tables

RootFn ==
  /\ In("root", "fn")
  /\ DefineOnce
  /\ binding' = [binding EXCEPT ![at] = IF tables' = tables THEN NULL ELSE Symbol(at, 0)]
  /\ Save
  /\ scope' = BlockScope(at)
  /\ parent' = [parent EXCEPT ![BlockScope(at)] = ParamScope(at)]
  /\ at' = at + 1
  /\ UNCHANGED <<text, pass, func, function, look>>

RootDef ==
  /\ In("root", "def")
  /\ DefineOnce
  /\ at' = at + 1
  /\ UNCHANGED <<text, pass, scope, func, saved, parent, function, binding, look>>

RootBlock ==
  /\ In("root", "block")
  /\ Save
  /\ scope' = BlockScope(at)
  /\ parent' = [parent EXCEPT ![BlockScope(at)] = scope]
  /\ at' = at + 1
  /\ UNCHANGED <<text, pass, func, tables, function, binding, errors, look>>

\* Variables and uses are left to the second walk.
RootSkip ==
  /\ In("root", "let") \/ In("root", "use")
  /\ at' = at + 1
  /\ UNCHANGED <<text, pass, scope, func, saved, tables, parent, function, binding, errors, look>>

\* The recursive call for a scope returns, in either walk.
LeaveScope ==
  /\ In(pass, "end")
  /\ scope' = saved[Len(saved)][1] /\ func' = saved[Len(saved)][2]
  /\ saved' = SubSeq(saved, 1, Len(saved) - 1)
  /\ at' = at + 1
  /\ UNCHANGED <<text, pass, tables, parent, function, binding, errors, look>>

NextPass ==
  /\ pass # "done" /\ at > Len(text)
  /\ pass' = IF pass = "root" THEN "local" ELSE "done"
  /\ at' = 1
  /\ UNCHANGED <<text, scope, func, saved, tables, parent, function, binding, errors, look>>

(***************************************************************************)
(* The second walk, buildLocalSymbolTables.                                *)
(***************************************************************************)
\* The parameters of a function, the first of a name defines it.
FirstParam(key) ==
  LET same == {i \in DOMAIN Token.params : Token.params[i] = key}
  IN  IF same = {} THEN NULL ELSE Symbol(at, CHOOSE i \in same : \A j \in same : i <= j)

ParamsDiffer ==
  \A i, j \in DOMAIN Token.params : i # j => Token.params[i] # Token.params[j]

LocalFn ==
  /\ In("local", "fn")
  /\ Save
  /\ scope' = BlockScope(at)
  /\ func' = binding[at]
  /\ parent' = [parent EXCEPT ![ParamScope(at)] = scope, ![BlockScope(at)] = ParamScope(at)]
  /\ tables' = [tables EXCEPT ![ParamScope(at)] = [k \in Key |-> FirstParam(k)]]
  /\ function' = [s \in Symbols |-> IF s[1] = at /\ s[2] > 0 THEN binding[at] ELSE function[s]]
  /\ IF ParamsDiffer THEN UNCHANGED errors ELSE Report("exists")
  /\ at' = at + 1
  /\ UNCHANGED <<text, pass, binding, look>>

LocalBlock ==
  /\ In("local", "block")
  /\ Save
  /\ scope' = BlockScope(at)
  /\ parent' = [parent EXCEPT ![BlockScope(at)] = scope]
  /\ at' = at + 1
  /\ UNCHANGED <<text, pass, func, tables, function, binding, errors, look>>

\* Mutant: a variable does not shadow an earlier one of its scope.
LocalLetKeepsFirst ==
  /\ In("local", "let")
  /\ tables' = [tables EXCEPT ![scope][Token.key] = IF @ = NULL THEN Symbol(at, 0) ELSE @]
  /\ function' = [function EXCEPT ![Symbol(at, 0)] = func]
  /\ at' = at + 1
  /\ UNCHANGED <<text, pass, scope, func, saved, parent, binding, errors, look>>

LocalLet ==
  /\ In("local", "let")
  /\ tables' = [tables EXCEPT ![scope][Token.key] = Symbol(at, 0)]
  /\ function' = [function EXCEPT ![Symbol(at, 0)] = func]
  /\ at' = at + 1
  /\ UNCHANGED <<text, pass, scope, func, saved, parent, binding, errors, look>>

\* A local of another function may not be used (types have no function).
Captures(s) == Token.key.kind = "VARIABLE" /\ function[s] # NULL /\ function[s] # func

\* findEntryInTable is called, first for the table of the scope, and returns
\* when the name is found or there is no outer scope.
LookUp ==
  /\ In("local", "use") /\ look = NULL
  /\ look' = scope
  /\ UNCHANGED <<text, pass, at, scope, func, saved, tables, parent, function, binding, errors>>

Found == tables[look][Token.key]

LookOutwards ==
  /\ In("local", "use") /\ look # NULL /\ Found = NULL /\ parent[look] # NULL
  /\ look' = parent[look]
  /\ UNCHANGED <<text, pass, at, scope, func, saved, tables, parent, function, binding, errors>>

LocalUse ==
  /\ In("local", "use") /\ look # NULL /\ (Found # NULL \/ parent[look] = NULL)
  /\ binding' = [binding EXCEPT ![at] = Found]
  /\ IF Found = NULL THEN Report("undefined")
     ELSE IF Captures(Found) THEN Report("capture") ELSE UNCHANGED errors
  /\ look' = NULL
  /\ at' = at + 1
  /\ UNCHANGED <<text, pass, scope, func, saved, tables, parent, function>>

LocalSkip ==
  /\ In("local", "def")
  /\ at' = at + 1
  /\ UNCHANGED <<text, pass, scope, func, saved, tables, parent, function, binding, errors, look>>

Next ==
  \/ RootFn \/ RootDef \/ RootBlock \/ RootSkip
  \/ LocalFn \/ LocalBlock \/ LocalLet \/ LocalSkip
  \/ LookUp \/ LookOutwards \/ LocalUse
  \/ LeaveScope \/ NextPass

Spec == Init /\ [][Next]_vars
=============================================================================
