---------------------------- MODULE SymbolTable ----------------------------
(***************************************************************************)
(* compiler/symboltable.c: the symbol table of one scope.                  *)
(*                                                                         *)
(* A key is a pair (name, kind), the value is the declaration a symbol was *)
(* created for.  addSymbolToTable runs in the steps pc names: it decides   *)
(* whether to grow, moves the entries one slot at a time into the new      *)
(* array, and stores the symbol.  No other call can come in between, the   *)
(* compiler is sequential; the steps are separate so that the invariants   *)
(* also say what holds in the middle of a rebuild.                         *)
(***************************************************************************)
EXTENDS OpenAddressing, Sequences

CONSTANTS
  HashValue,    \* the values the hash of a key may have
  MaxSymbols    \* bound on the number of symbols added to the scope

ASSUME HashAssumption == HashValue \subseteq Nat
ASSUME MaxSymbolsAssumption == MaxSymbols \in Nat

VARIABLES
  hash,      \* the hash function of this run of the compiler
  hashed,    \* hashed and capacity of the SymbolTable
  count,     \* number of slots in use
  symbols,   \* the list of every symbol added, the newest first
  pc,        \* where addSymbolToTable is
  var,       \* the symbol being added
  new,       \* the table under construction of rebuildHashTable
  cursor     \* the slot rebuildHashTable moves next

vars == <<hash, hashed, count, symbols, pc, var, new, cursor>>

Init ==
  /\ hash \in [Key -> HashValue]
  /\ hashed = EmptyTable(0)
  /\ count = 0
  /\ symbols = << >>
  /\ pc = "idle"
  /\ var = NULL
  /\ new = EmptyTable(0)
  /\ cursor = 0

\* Entry of addSymbolToTable, with the decision of tryResizingHashTable.
AddSymbol(e) ==
  /\ pc = "idle"
  /\ Len(symbols) < MaxSymbols
  /\ var' = e
  /\ IF NeedsResize(hashed, count)
       THEN /\ pc' = "rebuild"
            /\ new' = EmptyTable(GrownCapacity(hashed))
            /\ cursor' = 0
       ELSE /\ pc' = "insert"
            /\ UNCHANGED <<new, cursor>>
  /\ UNCHANGED <<hash, hashed, count, symbols>>

\* Mutant: entries keep their index instead of being hashed again.
MoveSlotInPlace ==
  /\ pc = "rebuild"
  /\ cursor < hashed.capacity
  /\ new' = [new EXCEPT !.slots[cursor] = hashed.slots[cursor]]
  /\ cursor' = cursor + 1
  /\ UNCHANGED <<hash, hashed, count, symbols, pc, var>>

\* One iteration of the loop of rebuildHashTable.
MoveSlot ==
  /\ pc = "rebuild"
  /\ cursor < hashed.capacity
  /\ new' = IF IsIndexValid(hashed, cursor)
              THEN Put(new, hash, hashed.slots[cursor])
              ELSE new
  /\ cursor' = cursor + 1
  /\ UNCHANGED <<hash, hashed, count, symbols, pc, var>>

\* Mutant: the capacity of the table is not updated.
FinishRebuildOldCapacity ==
  /\ pc = "rebuild"
  /\ cursor = hashed.capacity
  /\ hashed' = [hashed EXCEPT !.slots = new.slots]
  /\ new' = EmptyTable(0)
  /\ cursor' = 0
  /\ pc' = "insert"
  /\ UNCHANGED <<hash, count, symbols, var>>

\* The new array replaces the old one.
FinishRebuild ==
  /\ pc = "rebuild"
  /\ cursor = hashed.capacity
  /\ hashed' = new
  /\ new' = EmptyTable(0)
  /\ cursor' = 0
  /\ pc' = "insert"
  /\ UNCHANGED <<hash, count, symbols, var>>

\* Mutant: a symbol does not replace the one it shadows.
InsertKeepsOld ==
  /\ pc = "insert"
  /\ IF IsIndexValid(hashed, FindIndex(hashed, hash, var.key))
       THEN UNCHANGED <<count, hashed>>
       ELSE count' = count + 1 /\ hashed' = Put(hashed, hash, var)
  /\ symbols' = <<var>> \o symbols
  /\ pc' = "idle"
  /\ var' = NULL
  /\ UNCHANGED <<hash, new, cursor>>

\* The symbol takes the slot of its key, a free one or that of the symbol it
\* shadows, and is prepended to the list.
Insert ==
  /\ pc = "insert"
  /\ count' = IF IsIndexValid(hashed, FindIndex(hashed, hash, var.key))
                THEN count ELSE count + 1
  /\ hashed' = Put(hashed, hash, var)
  /\ symbols' = <<var>> \o symbols
  /\ pc' = "idle"
  /\ var' = NULL
  /\ UNCHANGED <<hash, new, cursor>>

Next ==
  \/ \E e \in Entry : AddSymbol(e)
  \/ MoveSlot
  \/ FinishRebuild
  \/ Insert

Spec == Init /\ [][Next]_vars

\* findImmediateEntryInTable, as the declaration the entry stands for.
FindImmediate(k) ==
  IF count # 0
    THEN LET i == FindIndex(hashed, hash, k)
         IN  IF IsIndexValid(hashed, i) THEN hashed.slots[i].value ELSE NULL
    ELSE NULL

-----------------------------------------------------------------------------
(***************************************************************************)
(* Properties                                                              *)
(***************************************************************************)
TypeOK ==
  /\ hash \in [Key -> HashValue]
  /\ hashed.capacity \in Nat /\ hashed \in Tables(hashed.capacity)
  /\ count \in Nat
  /\ symbols \in Seq(Entry)
  /\ pc \in {"idle", "rebuild", "insert"}
  /\ var \in Entry \cup {NULL}
  /\ (var = NULL) = (pc = "idle")
  /\ new.capacity \in Nat /\ new \in Tables(new.capacity)
  /\ cursor \in Nat

\* No search in a table that has slots runs for ever, whatever the hash
\* function and the key: not the lookups of findImmediateEntryInTable, not the
\* searches for a slot while a rebuild or an insertion is under way.
SearchesEnd ==
  \A k \in Key :
    /\ hashed.capacity > 0 => SearchEnds(hashed, hash, k)
    /\ pc = "rebuild" => SearchEnds(new, hash, k)

\* Every symbol in the hash array, and in the array a rebuild is filling, is
\* the one the search for its key finds: growing the table never strands an
\* entry behind a free slot and a key never has two slots.
EntriesReachable == WellPlaced(hashed, hash) /\ WellPlaced(new, hash)

\* The count that decides when to grow is the number of slots in use, also
\* after symbols have been shadowed.
CountExact == count = Cardinality(Occupied(hashed))

\* The occupied slots a rebuild has already moved.
Passed == {i \in Occupied(hashed) : i < cursor}

\* A rebuild has moved exactly the entries of the slots it has passed, each of
\* them to one slot.
RebuildKeepsEntries ==
  pc = "rebuild" => /\ Contents(new) = {hashed.slots[i] : i \in Passed}
                    /\ Cardinality(Occupied(new)) = Cardinality(Passed)

\* The growth rule leaves room: a table is at most one entry above two thirds
\* of its slots between two additions, and at most at two thirds, with more
\* than three slots, when an entry is about to be stored.
GrowthKeepsRoom ==
  /\ IF hashed.capacity = 0
       THEN count = 0
       ELSE hashed.capacity > 3 /\ 3 * (count - 1) <= 2 * hashed.capacity
  /\ pc = "insert" => ~ NeedsResize(hashed, count)
  /\ pc = "rebuild" => /\ NeedsResize(hashed, count)
                       /\ new.capacity = GrownCapacity(hashed)
                       /\ cursor <= hashed.capacity
  /\ pc # "rebuild" => new = EmptyTable(0)

\* A lookup yields the newest symbol of that name and kind on the list that
\* owns the symbols, and nothing for a key that was never added.
NewestWins ==
  \A k \in Key :
    LET added == {n \in DOMAIN symbols : symbols[n].key = k}
    IN  IF added = {}
          THEN FindImmediate(k) = NULL
          ELSE \E n \in added : /\ \A m \in added : n <= m
                                /\ FindImmediate(k) = symbols[n].value

\* The table implements the map it stands for: an addition rebinds its own key
\* and no other when its symbol joins the list, and no lookup changes its
\* answer at any other step, those of a rebuild included.
Abstract == INSTANCE ScopeMap WITH bound <- [k \in Key |-> FindImmediate(k)]
ImplementsScopeMap == Abstract!Spec
=============================================================================
