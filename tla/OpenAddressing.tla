--------------------------- MODULE OpenAddressing ---------------------------
(***************************************************************************)
(* The open-addressing hash table with linear probing that the compiler    *)
(* implements three times over: the symbol table of a scope                *)
(* (compiler/symboltable.c), the interning table of symbols                *)
(* (text/symbol.c) and the set of source files (files/fileset.c).          *)
(*                                                                         *)
(* A table is a record of its capacity and its slots; an entry pairs the   *)
(* key that is hashed with the value the slot stands for.  The hash        *)
(* function is a parameter of the operators: symbols are hashed by their   *)
(* address, so the program can meet any function.                          *)
(***************************************************************************)
EXTENDS Integers, FiniteSets

CONSTANTS
  Key,              \* what entries are looked up by
  Value,            \* what a slot yields for its key
  NULL,             \* the content of a free slot
  InitialCapacity   \* INITIAL_CAPACITY

Entry == [key : Key, value : Value]

\* Below 4 slots the growth rule lets a table fill up completely; the code
\* uses 8 and 32.
ASSUME CapacityAssumption == InitialCapacity \in Nat /\ InitialCapacity > 3
ASSUME NullAssumption == NULL \notin Entry

Tables(n) == [capacity : {n}, slots : [0..(n - 1) -> Entry \cup {NULL}]]

EmptyTable(n) == [capacity |-> n, slots |-> [i \in 0..(n - 1) |-> NULL]]

Indices(t) == 0..(t.capacity - 1)

IsIndexValid(t, i) == t.slots[i] # NULL

\* Mutant: the search does not recognise the key it looks for.
ContinueSearchBlind(t, i, k) == IsIndexValid(t, i)

ContinueSearch(t, i, k) == IsIndexValid(t, i) /\ t.slots[i].key # k

\* The slot looked at after d steps from the home slot of a key.
Probe(t, h, k, d) == ((h[k] % t.capacity) + d) % t.capacity

\* The search loop leaves at step d and not before.
StopsAt(t, h, k, d) ==
  /\ ~ ContinueSearch(t, Probe(t, h, k, d), k)
  /\ \A c \in 0..(d - 1) : ContinueSearch(t, Probe(t, h, k, c), k)

FindIndex(t, h, k) ==
  Probe(t, h, k, CHOOSE d \in Indices(t) : StopsAt(t, h, k, d))

NeedsResize(t, n) == t.capacity = 0 \/ 2 * t.capacity < 3 * n

\* Mutant: the factor 3 is left out and the table shrinks.
GrownCapacityHalved(t) ==
  IF t.capacity = 0 THEN InitialCapacity ELSE t.capacity \div 2

GrownCapacity(t) ==
  IF t.capacity = 0 THEN InitialCapacity ELSE (3 * t.capacity) \div 2

\* Store an entry in the slot where the search for its key ends.
Put(t, h, e) == [t EXCEPT !.slots[FindIndex(t, h, e.key)] = e]

-----------------------------------------------------------------------------
(***************************************************************************)
(* What makes a table correct.                                             *)
(***************************************************************************)
Occupied(t) == {i \in Indices(t) : IsIndexValid(t, i)}

Contents(t) == {t.slots[i] : i \in Occupied(t)}

\* The loop that searches for k reaches a slot where it stops.
SearchEnds(t, h, k) ==
  \E d \in Indices(t) : ~ ContinueSearch(t, Probe(t, h, k, d), k)

\* The search for the key of every stored entry ends at that entry: there is
\* no free slot and no second slot of the key on the way.
WellPlaced(t, h) ==
  \A i \in Occupied(t) :
    \E d \in Indices(t) :
      /\ Probe(t, h, t.slots[i].key, d) = i
      /\ StopsAt(t, h, t.slots[i].key, d)
=============================================================================
