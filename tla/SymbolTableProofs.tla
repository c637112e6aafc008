------------------------- MODULE SymbolTableProofs -------------------------
(***************************************************************************)
(* The symbol table for every set of keys, every hash function, every      *)
(* initial capacity above three and any number of symbols.                 *)
(***************************************************************************)
EXTENDS SymbolTable, FiniteSetTheorems, TLAPS

(***************************************************************************)
(* What linear probing guarantees for every set of keys, every hash        *)
(* function and every capacity.                                            *)
(***************************************************************************)

IsTable(t) == t.capacity \in Nat /\ t \in Tables(t.capacity)

IsHash(h) == h \in [Key -> Nat]

\* A nonempty set of natural numbers has a least element: the search loop,
\* when it stops at all, stops at a first step.
LEMMA LeastNatural ==
  ASSUME NEW T, T \subseteq Nat, T # {}
  PROVE  \E m \in T : \A n \in T : m <= n
<1> DEFINE Below(n) == {k \in T : k < n}
           F == {Below(n) : n \in T}
           U == UNION F
<1>1. PICK t \in T : TRUE
  OBVIOUS
<1>0. \A n \in T : n \in Nat
  OBVIOUS
<1>2. \A n \in T : IsFiniteSet(Below(n))
  <2> TAKE n \in T
  <2>1. n \in Nat
    OBVIOUS
  <2>2. \A k \in Below(n) : k \in 0..n
    BY <1>0, <2>1
  <2>3. IsFiniteSet(0..n)
    BY <2>1, FS_Interval
  <2> HIDE DEF Below
  <2> QED BY <2>2, <2>3, FS_Subset
<1>3. F \subseteq FiniteSubsetsOf(U)
  BY <1>2 DEF FiniteSubsetsOf
<1>4. F # {}
  BY <1>1
<1>5. IsWellFoundedOn(StrictSubsetOrdering(U), FiniteSubsetsOf(U))
  BY FS_StrictSubsetOrderingWellFounded
<1>6. PICK b \in F : \A c \in F : <<c, b>> \notin StrictSubsetOrdering(U)
  <2> HIDE DEF F, U
  <2> QED BY <1>3, <1>4, <1>5, WFMin
<1>7. PICK m \in T : b = Below(m)
  OBVIOUS
<1>8. ASSUME NEW n \in T, n < m PROVE FALSE
  <2>1. m \in Nat /\ n \in Nat
    OBVIOUS
  <2>2. /\ \A k \in Below(n) : k \in Below(m)
        /\ n \in Below(m)
        /\ n \notin Below(n)
    BY <1>0, <1>8, <2>1
  <2>3. Below(n) \in F
    OBVIOUS
  <2>4. <<Below(n), b>> \in StrictSubsetOrdering(U)
    BY <1>7, <2>2, <2>3 DEF StrictSubsetOrdering
  <2> QED BY <1>6, <2>3, <2>4
<1>9. \A n \in T : m <= n
  BY <1>8
<1> QED BY <1>9

\* A probe stays inside the array.
LEMMA ProbeInRange ==
  ASSUME NEW t, IsTable(t), t.capacity > 0,
         NEW h, IsHash(h), NEW k \in Key, NEW d \in Nat
  PROVE  Probe(t, h, k, d) \in Indices(t)
<1>1. h[k] % t.capacity \in Nat
  BY DEF IsTable, IsHash
<1>2. \A a \in Nat : a % t.capacity \in 0..(t.capacity - 1)
  BY DEF IsTable
<1> QED BY <1>1, <1>2 DEF Probe, Indices

\* The probes of one key visit every slot within capacity steps.
LEMMA ProbeReaches ==
  ASSUME NEW t, IsTable(t), NEW h, IsHash(h), NEW k \in Key,
         NEW i \in Indices(t)
  PROVE  \E d \in Indices(t) : Probe(t, h, k, d) = i
<1> DEFINE n == t.capacity
           home == h[k] % n
           d == IF i >= home THEN i - home ELSE (i - home) + n
<1>1. n \in Nat /\ n > 0 /\ i \in 0..(n - 1)
  BY DEF IsTable, Indices
<1>2. home \in 0..(n - 1)
  BY <1>1 DEF IsHash
<1>3. d \in 0..(n - 1) /\ (home + d = i \/ home + d = i + n)
  <2> HIDE DEF home, n
  <2> QED BY <1>1, <1>2
<1>4. (home + d) % n = i
  <2> HIDE DEF home, n, d
  <2>1. CASE home + d = i
    BY <1>1, <2>1
  <2>2. CASE home + d = i + n
    BY <1>1, <2>2
  <2> QED BY <1>3, <2>1, <2>2
<1> QED BY <1>3, <1>4 DEF Probe, Indices

\* A search that ends has a first step at which it stops.
LEMMA SearchStops ==
  ASSUME NEW t, IsTable(t), NEW h, NEW k \in Key, SearchEnds(t, h, k)
  PROVE  \E d \in Indices(t) : StopsAt(t, h, k, d)
<1> DEFINE T == {d \in Indices(t) : ~ ContinueSearch(t, Probe(t, h, k, d), k)}
<1>1. T \subseteq Nat /\ T # {}
  BY DEF SearchEnds, Indices, IsTable
<1>2. PICK m \in T : \A n \in T : m <= n
  BY <1>1, LeastNatural
<1>3. \A c \in 0..(m - 1) : c \in Indices(t) /\ ~ (m <= c)
  BY <1>1, <1>2 DEF Indices, IsTable
<1>4. \A c \in 0..(m - 1) : c \notin T
  BY <1>2, <1>3
<1>5. StopsAt(t, h, k, m)
  BY <1>3, <1>4 DEF StopsAt
<1> QED BY <1>5

LEMMA StopUnique ==
  ASSUME NEW t, IsTable(t), NEW h, NEW k \in Key,
         NEW d \in Indices(t), NEW e \in Indices(t),
         StopsAt(t, h, k, d), StopsAt(t, h, k, e)
  PROVE  d = e
<1>1. d \in Nat /\ e \in Nat
  BY DEF Indices, IsTable
<1>2. ~ (d < e) /\ ~ (e < d)
  BY <1>1 DEF StopsAt
<1> QED BY <1>1, <1>2

\* The index a search returns is where it first stops.
LEMMA FindIndexStops ==
  ASSUME NEW t, IsTable(t), NEW h, NEW k \in Key, SearchEnds(t, h, k)
  PROVE  \E d \in Indices(t) : /\ StopsAt(t, h, k, d)
                               /\ FindIndex(t, h, k) = Probe(t, h, k, d)
<1>1. \E d \in Indices(t) : StopsAt(t, h, k, d)
  BY SearchStops
<1> DEFINE c == CHOOSE d \in Indices(t) : StopsAt(t, h, k, d)
<1>2. c \in Indices(t) /\ StopsAt(t, h, k, c)
  BY <1>1
<1> QED BY <1>2 DEF FindIndex

\* In a well placed table a search finds every entry that is stored.
LEMMA FindsEntry ==
  ASSUME NEW t, IsTable(t), NEW h, IsHash(h), WellPlaced(t, h),
         NEW i \in Occupied(t), t.slots[i].key \in Key
  PROVE  FindIndex(t, h, t.slots[i].key) = i
<1> DEFINE k == t.slots[i].key
<1>1. PICK d \in Indices(t) : Probe(t, h, k, d) = i /\ StopsAt(t, h, k, d)
  BY DEF WellPlaced
<1>2. SearchEnds(t, h, k)
  BY <1>1 DEF SearchEnds, StopsAt
<1>3. PICK e \in Indices(t) : /\ StopsAt(t, h, k, e)
                              /\ FindIndex(t, h, k) = Probe(t, h, k, e)
  BY <1>2, FindIndexStops
<1>4. d = e
  BY <1>1, <1>3, StopUnique
<1> QED BY <1>1, <1>3, <1>4

\* A free slot ends every search.
LEMMA FreeSlotEndsSearch ==
  ASSUME NEW t, IsTable(t), NEW h, IsHash(h),
         Cardinality(Occupied(t)) < t.capacity
  PROVE  \A k \in Key : SearchEnds(t, h, k)
<1>1. IsFiniteSet(Indices(t)) /\ Cardinality(Indices(t)) = t.capacity
  <2>1. t.capacity \in Nat /\ t.capacity - 1 \in Int
    BY DEF IsTable
  <2>2. \A b \in Int : /\ IsFiniteSet(0..b)
                       /\ Cardinality(0..b) = IF 0 > b THEN 0 ELSE b - 0 + 1
    BY FS_Interval
  <2> DEFINE b == t.capacity - 1
  <2>3. /\ IsFiniteSet(0..b)
        /\ Cardinality(0..b) = IF 0 > b THEN 0 ELSE b - 0 + 1
    <3> HIDE DEF b
    <3> QED BY <2>1, <2>2 DEF b
  <2> QED BY <2>1, <2>3 DEF Indices
<1>2. Occupied(t) # Indices(t)
  BY <1>1 DEF IsTable
<1>3. PICK i \in Indices(t) : ~ IsIndexValid(t, i)
  BY <1>2 DEF Occupied
<1> TAKE k \in Key
<1>4. PICK d \in Indices(t) : Probe(t, h, k, d) = i
  BY ProbeReaches
<1> QED BY <1>3, <1>4 DEF SearchEnds, ContinueSearch

\* Storing an entry where the search for its key ends keeps every stored
\* entry where its own search ends, and takes a free slot or that of the key.
LEMMA PutKeepsPlacement ==
  ASSUME NEW t, IsTable(t), t.capacity > 0, NEW h, IsHash(h), WellPlaced(t, h),
         NEW e \in Entry, SearchEnds(t, h, e.key)
  PROVE  LET i == FindIndex(t, h, e.key)
             u == Put(t, h, e)
         IN  /\ i \in Indices(t)
             /\ IsIndexValid(t, i) => t.slots[i].key = e.key
             /\ IsTable(u) /\ u.capacity = t.capacity
             /\ u.slots = [t.slots EXCEPT ![i] = e]
             /\ Occupied(u) = Occupied(t) \cup {i}
             /\ WellPlaced(u, h)
<1> DEFINE i == FindIndex(t, h, e.key)
           u == Put(t, h, e)
<1>1. e.key \in Key /\ e # NULL
  BY NullAssumption DEF Entry
<1>2. PICK d \in Indices(t) : StopsAt(t, h, e.key, d) /\ i = Probe(t, h, e.key, d)
  BY <1>1, FindIndexStops
<1>3. i \in Indices(t)
  <2>1. d \in Nat
    BY DEF Indices, IsTable
  <2> QED BY <1>1, <1>2, <2>1, ProbeInRange
<1>4. IsIndexValid(t, i) => t.slots[i].key = e.key
  BY <1>2 DEF StopsAt, ContinueSearch
<1>5. u = [capacity |-> t.capacity, slots |-> [t.slots EXCEPT ![i] = e]]
  <2>1. ASSUME NEW j
        PROVE  [t EXCEPT !.slots[j] = e]
                 = [capacity |-> t.capacity, slots |-> [t.slots EXCEPT ![j] = e]]
    <3>1. t \in [capacity : {t.capacity}, slots : [0..(t.capacity - 1) -> Entry \cup {NULL}]]
      BY DEF IsTable, Tables
    <3> QED BY ONLY <3>1, SMT
  <2>2. u = [t EXCEPT !.slots[i] = e]
    BY DEF Put
  <2> QED BY <2>1, <2>2
<1>6. IsTable(u) /\ u.capacity = t.capacity /\ u.slots = [t.slots EXCEPT ![i] = e]
  BY <1>3, <1>5 DEF IsTable, Tables, Indices
<1>7. Indices(u) = Indices(t) /\ \A k, c : Probe(u, h, k, c) = Probe(t, h, k, c)
  BY <1>6 DEF Indices, Probe
<1>8. DOMAIN t.slots = Indices(t)
  BY DEF IsTable, Tables, Indices
<1>9. u.slots[i] = e /\ \A j \in Indices(t) : j # i => u.slots[j] = t.slots[j]
  BY <1>3, <1>6, <1>8
<1>10. Occupied(u) = Occupied(t) \cup {i}
  BY <1>1, <1>3, <1>7, <1>9 DEF Occupied, IsIndexValid
<1>11. \A k \in Key : \A j \in Indices(t) :
         ContinueSearch(t, j, k) => ContinueSearch(u, j, k) \/ (j = i /\ k # t.slots[i].key /\ k = e.key)
  BY <1>1, <1>4, <1>9 DEF ContinueSearch, IsIndexValid
<1>12. ASSUME NEW j \in Occupied(u)
       PROVE  \E c \in Indices(u) : /\ Probe(u, h, u.slots[j].key, c) = j
                                    /\ StopsAt(u, h, u.slots[j].key, c)
  <2>1. CASE j = i
    <3>1. \A c \in 0..(d - 1) : Probe(t, h, e.key, c) \in Indices(t)
      BY <1>1, ProbeInRange DEF Indices
    <3>2. \A c \in 0..(d - 1) : ContinueSearch(u, Probe(t, h, e.key, c), e.key)
      BY <1>1, <1>2, <1>4, <1>11, <3>1 DEF StopsAt, ContinueSearch
    <3>3. StopsAt(u, h, e.key, d)
      BY <1>2, <1>7, <1>9, <3>2 DEF StopsAt, ContinueSearch
    <3> QED BY <1>2, <1>7, <1>9, <2>1, <3>3
  <2>2. CASE j # i
    <3> DEFINE k == t.slots[j].key
    <3>1. j \in Occupied(t) /\ u.slots[j] = t.slots[j] /\ j \in Indices(t)
      BY <1>7, <1>9, <2>2 DEF Occupied, IsIndexValid
    <3>2. t.slots[j] \in Entry /\ k \in Key
      BY <3>1 DEF IsTable, Tables, Indices, Occupied, IsIndexValid, Entry
    <3>3. PICK c \in Indices(t) : Probe(t, h, k, c) = j /\ StopsAt(t, h, k, c)
      BY <3>1 DEF WellPlaced
    <3>4. \A b \in 0..(c - 1) : Probe(t, h, k, b) \in Indices(t)
      BY <3>2, ProbeInRange DEF Indices
    <3>5. \A b \in 0..(c - 1) : ContinueSearch(u, Probe(t, h, k, b), k)
      BY <1>4, <1>11, <3>2, <3>3, <3>4 DEF StopsAt, ContinueSearch
    <3>6. StopsAt(u, h, k, c)
      BY <1>7, <3>1, <3>3, <3>5 DEF StopsAt, ContinueSearch, IsIndexValid
    <3> QED BY <1>7, <3>1, <3>3, <3>6
  <2> QED BY <2>1, <2>2
<1>13. WellPlaced(u, h)
  BY <1>12 DEF WellPlaced
<1> QED BY <1>3, <1>4, <1>6, <1>10, <1>13

-----------------------------------------------------------------------------
(***************************************************************************)
(* The table as a scope uses it.                                           *)
(***************************************************************************)

\* The inductive invariant: an entry can only be stored without losing
\* another when its search ends, which needs a free slot, which the growth
\* rule grants as long as count is exact.
IInv ==
  /\ TypeOK
  /\ EntriesReachable
  /\ CountExact
  /\ RebuildKeepsEntries
  /\ GrowthKeepsRoom

LEMMA EmptyTableProps ==
  ASSUME NEW n \in Nat, NEW h
  PROVE  /\ IsTable(EmptyTable(n))
         /\ EmptyTable(n).capacity = n
         /\ Occupied(EmptyTable(n)) = {}
         /\ Contents(EmptyTable(n)) = {}
         /\ WellPlaced(EmptyTable(n), h)
         /\ Cardinality(Occupied(EmptyTable(n))) = 0
<1>1. IsTable(EmptyTable(n)) /\ EmptyTable(n).capacity = n
  BY DEF IsTable, Tables, EmptyTable
<1>2. Occupied(EmptyTable(n)) = {}
  BY DEF Occupied, EmptyTable, Indices, IsIndexValid
<1> QED BY <1>1, <1>2, FS_EmptySet DEF Contents, WellPlaced

\* Sets of slots are finite.
LEMMA OccupiedFinite ==
  ASSUME NEW t, IsTable(t)
  PROVE  /\ IsFiniteSet(Occupied(t))
         /\ Cardinality(Occupied(t)) \in Nat
         /\ \A S \in SUBSET Occupied(t) :
              IsFiniteSet(S) /\ Cardinality(S) \in Nat
                /\ Cardinality(S) <= Cardinality(Occupied(t))
<1>1. t.capacity \in Nat /\ t.capacity - 1 \in Int
  BY DEF IsTable
<1>2. IsFiniteSet(Indices(t))
  <2>1. \A b \in Int : IsFiniteSet(0..b)
    BY FS_Interval
  <2> QED BY <1>1, <2>1 DEF Indices
<1>3. IsFiniteSet(Occupied(t))
  <2>1. Occupied(t) \in SUBSET Indices(t)
    BY DEF Occupied
  <2> QED BY <1>2, <2>1, FS_Subset
<1> QED BY <1>3, FS_Subset, FS_CardinalityType

\* When the invariant holds there is a free slot wherever a search is made.
LEMMA RoomToSearch ==
  ASSUME IInv
  PROVE  /\ hashed.capacity > 0 => Cardinality(Occupied(hashed)) < hashed.capacity
         /\ pc = "rebuild" => Cardinality(Occupied(new)) < new.capacity
<1>1. hashed.capacity \in Nat /\ count \in Nat /\ count = Cardinality(Occupied(hashed))
  BY DEF IInv, TypeOK, CountExact
<1>2. hashed.capacity > 0 => Cardinality(Occupied(hashed)) < hashed.capacity
  BY <1>1 DEF IInv, GrowthKeepsRoom
<1>3. ASSUME pc = "rebuild" PROVE Cardinality(Occupied(new)) < new.capacity
  <2>1. IsTable(hashed)
    BY DEF IInv, TypeOK, IsTable
  <2>2. Passed \in SUBSET Occupied(hashed)
    BY DEF Passed
  <2>3. Cardinality(Passed) \in Nat /\ Cardinality(Passed) <= count
    BY <1>1, <2>1, <2>2, OccupiedFinite
  <2>4. Cardinality(Occupied(new)) = Cardinality(Passed)
    BY <1>3 DEF IInv, RebuildKeepsEntries
  <2>5. new.capacity = GrownCapacity(hashed)
    BY <1>3 DEF IInv, GrowthKeepsRoom
  <2>6. CASE hashed.capacity = 0
    BY <1>1, <2>3, <2>4, <2>5, <2>6, CapacityAssumption
       DEF IInv, GrowthKeepsRoom, GrownCapacity
  <2>7. CASE hashed.capacity # 0
    <3>1. hashed.capacity > 3 /\ 3 * (count - 1) <= 2 * hashed.capacity
      BY <2>7 DEF IInv, GrowthKeepsRoom
    <3>2. new.capacity = (3 * hashed.capacity) \div 2
      BY <2>5, <2>7 DEF GrownCapacity
    <3>3. 2 * new.capacity >= 3 * hashed.capacity - 1 /\ new.capacity \in Nat
      BY <1>1, <3>2
    <3> QED BY <1>1, <2>3, <2>4, <3>1, <3>3
  <2> QED BY <2>6, <2>7
<1> QED BY <1>2, <1>3

LEMMA HashIsHash == TypeOK => IsHash(hash)
BY HashAssumption DEF TypeOK, IsHash

LEMMA InitIInv == Init => IInv
<1> SUFFICES ASSUME Init PROVE IInv
  OBVIOUS
<1>1. IsTable(hashed) /\ IsTable(new) /\ hashed.capacity = 0 /\ new.capacity = 0
  BY EmptyTableProps DEF Init
<1>2. TypeOK
  BY <1>1, NullAssumption DEF Init, TypeOK, IsTable
<1>3. EntriesReachable /\ CountExact
  BY EmptyTableProps DEF Init, EntriesReachable, CountExact
<1>4. RebuildKeepsEntries /\ GrowthKeepsRoom
  BY <1>1 DEF Init, RebuildKeepsEntries, GrowthKeepsRoom
<1> QED BY <1>2, <1>3, <1>4 DEF IInv

LEMMA AddSymbolIInv == ASSUME IInv, NEW e \in Entry, AddSymbol(e) PROVE IInv'
<1> USE DEF IInv
<1>1. hashed.capacity \in Nat /\ IsTable(hashed)
  BY DEF TypeOK, IsTable
<1>2. CASE NeedsResize(hashed, count)
  <2> DEFINE n == GrownCapacity(hashed)
  <2>1. n \in Nat
    BY <1>1, CapacityAssumption DEF GrownCapacity
  <2>2. pc' = "rebuild" /\ new' = EmptyTable(n) /\ cursor' = 0 /\ var' = e
    BY <1>2 DEF AddSymbol
  <2>3. /\ IsTable(EmptyTable(n)) /\ EmptyTable(n).capacity = n
        /\ Contents(EmptyTable(n)) = {}
        /\ WellPlaced(EmptyTable(n), hash)
        /\ Cardinality(Occupied(EmptyTable(n))) = 0
    BY <2>1, EmptyTableProps
  <2> HIDE DEF n
  <2>4. TypeOK'
    BY <2>2, <2>3, NullAssumption DEF TypeOK, AddSymbol, IsTable
  <2>5. EntriesReachable' /\ CountExact'
    BY <2>2, <2>3 DEF EntriesReachable, CountExact, AddSymbol
  <2>6. Passed' = {}
    BY <2>2 DEF Passed, Occupied, Indices, AddSymbol
  <2>7. RebuildKeepsEntries'
    BY <2>2, <2>3, <2>6, FS_EmptySet DEF RebuildKeepsEntries
  <2>8. GrowthKeepsRoom'
    BY <1>1, <1>2, <2>2, <2>3 DEF GrowthKeepsRoom, AddSymbol, n
  <2> QED BY <2>4, <2>5, <2>7, <2>8
<1>3. CASE ~ NeedsResize(hashed, count)
  <2>1. pc' = "insert" /\ UNCHANGED <<hash, hashed, count, new, cursor, symbols>> /\ var' = e
    BY <1>3 DEF AddSymbol
  <2>2. TypeOK'
    BY <2>1, NullAssumption DEF TypeOK, AddSymbol
  <2>3. EntriesReachable' /\ CountExact' /\ RebuildKeepsEntries'
    BY <2>1 DEF EntriesReachable, CountExact, RebuildKeepsEntries
  <2>4. GrowthKeepsRoom'
    BY <1>3, <2>1 DEF GrowthKeepsRoom, AddSymbol
  <2> QED BY <2>2, <2>3, <2>4
<1> QED BY <1>2, <1>3

\* The slot a rebuild moves holds a key the new array does not have yet, so
\* moving it takes a free slot and loses nothing.
LEMMA MoveSlotIInv == ASSUME IInv, MoveSlot PROVE IInv'
<1> USE DEF IInv
<1>1. /\ IsTable(hashed) /\ IsTable(new) /\ IsHash(hash)
      /\ pc = "rebuild" /\ cursor \in Nat /\ cursor < hashed.capacity
      /\ WellPlaced(hashed, hash) /\ WellPlaced(new, hash)
  BY HashIsHash DEF TypeOK, IsTable, MoveSlot, EntriesReachable
<1>2. UNCHANGED <<hash, hashed, count, symbols, pc, var>> /\ cursor' = cursor + 1
  BY DEF MoveSlot
<1>3. cursor \in Indices(hashed)
  BY <1>1 DEF Indices, IsTable
<1>4. CountExact'
  BY <1>2 DEF CountExact
<1>5. CASE IsIndexValid(hashed, cursor)
  <2> DEFINE e == hashed.slots[cursor]
             i == FindIndex(new, hash, e.key)
  <2>1. new' = Put(new, hash, e)
    BY <1>5 DEF MoveSlot
  <2>2. e \in Entry /\ e.key \in Key /\ cursor \in Occupied(hashed)
    BY <1>1, <1>3, <1>5 DEF IsTable, Tables, Indices, IsIndexValid, Entry, Occupied
  <2>3. Cardinality(Occupied(new)) < new.capacity
    BY <1>1, RoomToSearch
  <2>4. SearchEnds(new, hash, e.key)
    BY <1>1, <2>2, <2>3, FreeSlotEndsSearch
  <2>5. new.capacity > 0
    BY <1>1, <2>3, OccupiedFinite DEF IsTable
  <2>6. /\ i \in Indices(new)
        /\ IsIndexValid(new, i) => new.slots[i].key = e.key
        /\ IsTable(new') /\ new'.capacity = new.capacity
        /\ new'.slots = [new.slots EXCEPT ![i] = e]
        /\ Occupied(new') = Occupied(new) \cup {i}
        /\ WellPlaced(new', hash)
    BY <1>1, <2>1, <2>2, <2>4, <2>5, PutKeepsPlacement
  <2> HIDE DEF i
  <2>7. ~ IsIndexValid(new, i)
    <3> SUFFICES ASSUME IsIndexValid(new, i) PROVE FALSE
      OBVIOUS
    <3>1. new.slots[i] \in Contents(new) /\ new.slots[i].key = e.key
      BY <2>6 DEF Contents, Occupied
    <3>2. PICK j \in Passed : hashed.slots[j] = new.slots[i]
      BY <1>1, <3>1 DEF RebuildKeepsEntries
    <3>3. j \in Occupied(hashed) /\ hashed.slots[j].key = e.key /\ j < cursor
      BY <3>1, <3>2 DEF Passed
    <3>4. FindIndex(hashed, hash, e.key) = j /\ FindIndex(hashed, hash, e.key) = cursor
      BY <1>1, <2>2, <3>3, FindsEntry
    <3> QED BY <1>1, <3>3, <3>4
  <2>8. Passed' = Passed \cup {cursor} /\ cursor \notin Passed
    BY <1>1, <1>2, <2>2 DEF Passed, Occupied, Indices
  <2>9. i \notin Occupied(new)
    BY <2>7 DEF Occupied
  <2>10. Cardinality(Occupied(new')) = Cardinality(Occupied(new)) + 1
    BY <1>1, <2>6, <2>9, OccupiedFinite, FS_AddElement
  <2>11. Cardinality(Passed') = Cardinality(Passed) + 1
    <3>1. Passed \in SUBSET Occupied(hashed)
      BY DEF Passed
    <3> QED BY <1>1, <2>8, <3>1, OccupiedFinite, FS_AddElement
  <2>12. DOMAIN new.slots = Indices(new)
    BY <1>1 DEF IsTable, Tables, Indices
  <2>13. /\ new'.slots[i] = e
         /\ \A j \in Occupied(new) : new'.slots[j] = new.slots[j]
    BY <2>6, <2>9, <2>12 DEF Occupied
  <2>14. Contents(new') = Contents(new) \cup {e}
    BY <2>6, <2>13 DEF Contents
  <2>15. {hashed.slots[j] : j \in Passed'} = {hashed.slots[j] : j \in Passed} \cup {e}
    BY <2>8
  <2>16. RebuildKeepsEntries'
    BY <1>1, <1>2, <2>10, <2>11, <2>14, <2>15 DEF RebuildKeepsEntries
  <2>17. TypeOK'
    BY <1>1, <1>2, <2>6 DEF TypeOK, IsTable
  <2>18. EntriesReachable'
    BY <1>1, <1>2, <2>6 DEF EntriesReachable
  <2>19. GrowthKeepsRoom'
    BY <1>1, <1>2, <2>6 DEF GrowthKeepsRoom, IsTable
  <2> QED BY <1>4, <2>16, <2>17, <2>18, <2>19
<1>6. CASE ~ IsIndexValid(hashed, cursor)
  <2>1. new' = new
    BY <1>6 DEF MoveSlot
  <2>2. Passed' = Passed
    BY <1>1, <1>2, <1>6 DEF Passed, Occupied, Indices, IsTable
  <2>3. TypeOK' /\ EntriesReachable' /\ RebuildKeepsEntries'
    BY <1>1, <1>2, <2>1, <2>2 DEF TypeOK, EntriesReachable, RebuildKeepsEntries
  <2>4. GrowthKeepsRoom'
    BY <1>1, <1>2, <2>1 DEF GrowthKeepsRoom, IsTable
  <2> QED BY <1>4, <2>3, <2>4
<1> QED BY <1>5, <1>6

\* When the last slot has been passed the new array holds the same entries in
\* as many slots.
LEMMA RebuiltSame ==
  ASSUME IInv, FinishRebuild
  PROVE  /\ Contents(new) = Contents(hashed)
         /\ Cardinality(Occupied(new)) = count
         /\ IsTable(new) /\ WellPlaced(new, hash)
         /\ new.capacity > 3 /\ 3 * count <= 2 * new.capacity
<1> USE DEF IInv
<1>1. /\ IsTable(hashed) /\ IsTable(new)
      /\ pc = "rebuild" /\ cursor = hashed.capacity
      /\ hashed.capacity \in Nat /\ count \in Nat /\ new.capacity \in Nat
  BY DEF TypeOK, IsTable, FinishRebuild
<1>2. Passed = Occupied(hashed)
  BY <1>1 DEF Passed, Occupied, Indices
<1>3. Contents(new) = Contents(hashed) /\ Cardinality(Occupied(new)) = count
  BY <1>1, <1>2 DEF RebuildKeepsEntries, Contents, CountExact
<1>4. new.capacity = GrownCapacity(hashed)
  BY <1>1 DEF GrowthKeepsRoom
<1>5. CASE hashed.capacity = 0
  BY <1>1, <1>3, <1>4, <1>5, CapacityAssumption
     DEF GrowthKeepsRoom, GrownCapacity, EntriesReachable
<1>6. CASE hashed.capacity # 0
  <2>1. hashed.capacity > 3 /\ 3 * (count - 1) <= 2 * hashed.capacity
    BY <1>6 DEF GrowthKeepsRoom
  <2>2. new.capacity = (3 * hashed.capacity) \div 2
    BY <1>4, <1>6 DEF GrownCapacity
  <2>3. 2 * new.capacity >= 3 * hashed.capacity - 1
    BY <1>1, <2>2
  <2> QED BY <1>1, <1>3, <2>1, <2>3 DEF EntriesReachable
<1> QED BY <1>5, <1>6

LEMMA FinishRebuildIInv == ASSUME IInv, FinishRebuild PROVE IInv'
<1> USE DEF IInv
<1>1. /\ hashed' = new /\ new' = EmptyTable(0) /\ cursor' = 0 /\ pc' = "insert"
      /\ UNCHANGED <<hash, count, symbols, var>> /\ pc = "rebuild"
  BY DEF FinishRebuild
<1>2. /\ Cardinality(Occupied(new)) = count
      /\ IsTable(new) /\ WellPlaced(new, hash)
      /\ new.capacity > 3 /\ 3 * count <= 2 * new.capacity
  BY RebuiltSame
<1>3. /\ IsTable(EmptyTable(0)) /\ WellPlaced(EmptyTable(0), hash)
  BY EmptyTableProps
<1>4. TypeOK'
  BY <1>1, <1>2, <1>3 DEF TypeOK, IsTable
<1>5. EntriesReachable' /\ CountExact' /\ RebuildKeepsEntries'
  BY <1>1, <1>2, <1>3 DEF EntriesReachable, CountExact, RebuildKeepsEntries
<1>6. GrowthKeepsRoom'
  <2>1. count \in Nat /\ new.capacity \in Nat
    BY DEF TypeOK
  <2> QED BY <1>1, <1>2, <2>1 DEF GrowthKeepsRoom, NeedsResize
<1> QED BY <1>4, <1>5, <1>6

\* What storing var does, from the invariant.
LEMMA InsertStores ==
  ASSUME IInv, Insert
  PROVE  LET i == FindIndex(hashed, hash, var.key)
         IN  /\ i \in Indices(hashed) /\ var \in Entry /\ var.key \in Key
             /\ IsIndexValid(hashed, i) => hashed.slots[i].key = var.key
             /\ IsTable(hashed') /\ hashed'.capacity = hashed.capacity
             /\ hashed'.slots = [hashed.slots EXCEPT ![i] = var]
             /\ Occupied(hashed') = Occupied(hashed) \cup {i}
             /\ WellPlaced(hashed', hash)
             /\ hashed.capacity > 3
<1> USE DEF IInv
<1>1. /\ IsTable(hashed) /\ IsHash(hash) /\ WellPlaced(hashed, hash)
      /\ var \in Entry /\ pc = "insert" /\ hashed' = Put(hashed, hash, var)
  BY HashIsHash DEF TypeOK, IsTable, Insert, EntriesReachable
<1>2. var.key \in Key
  BY <1>1 DEF Entry
<1>3. hashed.capacity > 3
  BY <1>1 DEF GrowthKeepsRoom, NeedsResize
<1>4. Cardinality(Occupied(hashed)) < hashed.capacity
  BY <1>3, RoomToSearch DEF TypeOK
<1>5. SearchEnds(hashed, hash, var.key)
  BY <1>1, <1>2, <1>4, FreeSlotEndsSearch
<1>6. hashed.capacity > 0
  BY <1>3 DEF TypeOK
<1> QED BY <1>1, <1>2, <1>3, <1>5, <1>6, PutKeepsPlacement

LEMMA InsertIInv == ASSUME IInv, Insert PROVE IInv'
<1> USE DEF IInv
<1> DEFINE i == FindIndex(hashed, hash, var.key)
<1>1. /\ i \in Indices(hashed) /\ var \in Entry
      /\ IsTable(hashed') /\ hashed'.capacity = hashed.capacity
      /\ Occupied(hashed') = Occupied(hashed) \cup {i}
      /\ WellPlaced(hashed', hash)
      /\ hashed.capacity > 3
  BY InsertStores
<1>2. /\ count' = IF IsIndexValid(hashed, i) THEN count ELSE count + 1
      /\ symbols' = <<var>> \o symbols
      /\ UNCHANGED <<hash, new, cursor>> /\ pc = "insert" /\ pc' = "idle" /\ var' = NULL
  BY DEF Insert
<1> HIDE DEF i
<1>3. count' \in Nat /\ (count' = count \/ count' = count + 1)
  BY <1>2 DEF TypeOK
<1>4. TypeOK'
  BY <1>1, <1>2, <1>3 DEF TypeOK, IsTable
<1>5. EntriesReachable' /\ RebuildKeepsEntries'
  BY <1>1, <1>2 DEF EntriesReachable, RebuildKeepsEntries
<1>6. CountExact'
  <2>1. i \in Occupied(hashed) <=> IsIndexValid(hashed, i)
    BY <1>1 DEF Occupied
  <2>2. IsFiniteSet(Occupied(hashed))
    BY OccupiedFinite DEF TypeOK, IsTable
  <2>3. Cardinality(Occupied(hashed) \cup {i}) =
          IF i \in Occupied(hashed) THEN Cardinality(Occupied(hashed))
                                    ELSE Cardinality(Occupied(hashed)) + 1
    BY <2>2, FS_AddElement
  <2> QED BY <1>1, <1>2, <2>1, <2>3 DEF CountExact
<1>7. GrowthKeepsRoom'
  <2>1. ~ NeedsResize(hashed, count) /\ count \in Nat /\ hashed.capacity \in Nat
    BY <1>2 DEF GrowthKeepsRoom, TypeOK
  <2>2. 3 * (count' - 1) <= 2 * hashed'.capacity
    BY <1>1, <1>3, <2>1 DEF NeedsResize
  <2> QED BY <1>1, <1>2, <2>1, <2>2 DEF GrowthKeepsRoom
<1> QED BY <1>4, <1>5, <1>6, <1>7

LEMMA StutterIInv == ASSUME IInv, UNCHANGED vars PROVE IInv'
BY DEF IInv, vars, TypeOK, EntriesReachable, CountExact, RebuildKeepsEntries,
       Passed, GrowthKeepsRoom

\* The invariant of the table, for any number of insertions and growths.
THEOREM IInvHolds == Spec => []IInv
<1>1. Init => IInv
  BY InitIInv
<1>2. IInv /\ [Next]_vars => IInv'
  <2> SUFFICES ASSUME IInv, [Next]_vars PROVE IInv'
    OBVIOUS
  <2>1. CASE \E e \in Entry : AddSymbol(e)
    BY <2>1, AddSymbolIInv
  <2>2. CASE MoveSlot
    BY <2>2, MoveSlotIInv
  <2>3. CASE FinishRebuild
    BY <2>3, FinishRebuildIInv
  <2>4. CASE Insert
    BY <2>4, InsertIInv
  <2>5. CASE UNCHANGED vars
    BY <2>5, StutterIInv
  <2> QED BY <2>1, <2>2, <2>3, <2>4, <2>5 DEF Next
<1> QED BY <1>1, <1>2, PTL DEF Spec

\* Variables keep their types (addSymbolToTable never stores anything but a
\* symbol and never leaves the arrays).
THEOREM TypeCorrect == Spec => []TypeOK
<1>1. IInv => TypeOK
  BY DEF IInv
<1> QED BY <1>1, IInvHolds, PTL

\* findImmediateEntryInTable finds every symbol, during a rebuild too.
THEOREM Reachable == Spec => []EntriesReachable
<1>1. IInv => EntriesReachable
  BY DEF IInv
<1> QED BY <1>1, IInvHolds, PTL

LEMMA IInvSearchesEnd == IInv => SearchesEnd
<1> SUFFICES ASSUME IInv PROVE SearchesEnd
  OBVIOUS
<1>1. IsTable(hashed) /\ IsTable(new) /\ IsHash(hash)
  BY HashIsHash DEF IInv, TypeOK, IsTable
<1>2. hashed.capacity > 0 => \A k \in Key : SearchEnds(hashed, hash, k)
  BY <1>1, RoomToSearch, FreeSlotEndsSearch
<1>3. pc = "rebuild" => \A k \in Key : SearchEnds(new, hash, k)
  BY <1>1, RoomToSearch, FreeSlotEndsSearch
<1> QED BY <1>2, <1>3 DEF SearchesEnd

\* The while loop of findIndexHashTable terminates in every reachable state,
\* whatever addresses the symbols have.
THEOREM SearchesTerminate == Spec => []SearchesEnd
<1> QED BY IInvSearchesEnd, IInvHolds, PTL

-----------------------------------------------------------------------------
(***************************************************************************)
(* Refinement: the answers of lookups form the map of ScopeMap.            *)
(***************************************************************************)

\* A lookup depends on the entries the table holds, not on their places.
AnswersFromContents ==
  \A k \in Key :
    \/ \E e \in Contents(hashed) : e.key = k /\ FindImmediate(k) = e.value
    \/ FindImmediate(k) = NULL /\ ~ \E e \in Contents(hashed) : e.key = k

OneEntryPerKey ==
  \A e, f \in Contents(hashed) : e.key = f.key => e = f

LEMMA IInvAnswers == IInv => AnswersFromContents /\ OneEntryPerKey
<1> SUFFICES ASSUME IInv PROVE AnswersFromContents /\ OneEntryPerKey
  OBVIOUS
<1>1. /\ IsTable(hashed) /\ IsHash(hash) /\ WellPlaced(hashed, hash)
      /\ count = Cardinality(Occupied(hashed)) /\ count \in Nat
      /\ hashed.capacity \in Nat
  BY HashIsHash DEF IInv, TypeOK, IsTable, EntriesReachable, CountExact
<1>2. \A i \in Occupied(hashed) : hashed.slots[i] \in Entry /\ hashed.slots[i].key \in Key
  BY <1>1 DEF IsTable, Tables, Occupied, Indices, IsIndexValid, Entry
<1>3. \A i \in Occupied(hashed) : FindIndex(hashed, hash, hashed.slots[i].key) = i
  BY <1>1, <1>2, FindsEntry
<1>4. OneEntryPerKey
  BY <1>3 DEF OneEntryPerKey, Contents
<1>5. ASSUME NEW k \in Key
      PROVE  \/ \E e \in Contents(hashed) : e.key = k /\ FindImmediate(k) = e.value
             \/ FindImmediate(k) = NULL /\ ~ \E e \in Contents(hashed) : e.key = k
  <2> DEFINE i == FindIndex(hashed, hash, k)
  <2>1. CASE count = 0
    <3>1. Occupied(hashed) = {}
      BY <1>1, <2>1, OccupiedFinite, FS_EmptySet
    <3> QED BY <2>1, <3>1 DEF FindImmediate, Contents
  <2>2. CASE count # 0
    <3>1. hashed.capacity > 0
      BY <1>1, <2>2 DEF IInv, GrowthKeepsRoom
    <3>2. SearchEnds(hashed, hash, k)
      BY <1>1, <3>1, RoomToSearch, FreeSlotEndsSearch
    <3>3. PICK d \in Indices(hashed) : /\ StopsAt(hashed, hash, k, d)
                                       /\ i = Probe(hashed, hash, k, d)
      BY <1>1, <3>2, FindIndexStops
    <3>4. i \in Indices(hashed)
      <4>1. d \in Nat
        BY DEF Indices
      <4> QED BY <1>1, <3>1, <3>3, <4>1, ProbeInRange
    <3>5. CASE IsIndexValid(hashed, i)
      <4>1. hashed.slots[i].key = k
        BY <3>3, <3>5 DEF StopsAt, ContinueSearch
      <4>2. hashed.slots[i] \in Contents(hashed)
        BY <3>4, <3>5 DEF Contents, Occupied
      <4> QED BY <2>2, <3>5, <4>1, <4>2 DEF FindImmediate
    <3>6. CASE ~ IsIndexValid(hashed, i)
      <4>1. FindImmediate(k) = NULL
        BY <2>2, <3>6 DEF FindImmediate
      <4>2. \A e \in Contents(hashed) : e.key # k
        BY <1>3, <3>6 DEF Contents, Occupied
      <4> QED BY <4>1, <4>2
    <3> QED BY <3>5, <3>6
  <2> QED BY <2>1, <2>2
<1>6. AnswersFromContents
  BY <1>5 DEF AnswersFromContents
<1> QED BY <1>4, <1>6

LEMMA InsertAnswers ==
  ASSUME IInv, IInv', AnswersFromContents, AnswersFromContents',
         OneEntryPerKey, OneEntryPerKey', Insert
  PROVE  \A k \in Key : FindImmediate(k)' =
                          IF k = var.key THEN var.value ELSE FindImmediate(k)
<1> DEFINE i == FindIndex(hashed, hash, var.key)
<1>1. /\ i \in Indices(hashed) /\ var \in Entry /\ var.key \in Key
      /\ IsIndexValid(hashed, i) => hashed.slots[i].key = var.key
      /\ IsTable(hashed') /\ hashed'.capacity = hashed.capacity
      /\ hashed'.slots = [hashed.slots EXCEPT ![i] = var]
      /\ Occupied(hashed') = Occupied(hashed) \cup {i}
  BY InsertStores
<1> HIDE DEF i
<1>2. DOMAIN hashed.slots = Indices(hashed)
  BY DEF IInv, TypeOK, Tables, Indices
<1>3. hashed'.slots[i] = var /\ \A j \in Indices(hashed) : j # i => hashed'.slots[j] = hashed.slots[j]
  BY <1>1, <1>2
<1>4. var \in Contents(hashed')
  BY <1>1, <1>3 DEF Contents
<1>5. \A e : e.key # var.key => (e \in Contents(hashed') <=> e \in Contents(hashed))
  <2> SUFFICES ASSUME NEW e, e.key # var.key
               PROVE  e \in Contents(hashed') <=> e \in Contents(hashed)
    OBVIOUS
  <2>1. ASSUME e \in Contents(hashed') PROVE e \in Contents(hashed)
    <3>1. PICK j \in Occupied(hashed') : e = hashed'.slots[j]
      BY <2>1 DEF Contents
    <3>2. j # i
      BY <1>3, <3>1
    <3>3. j \in Occupied(hashed) /\ j \in Indices(hashed)
      BY <1>1, <3>2 DEF Occupied
    <3> QED BY <1>3, <3>1, <3>2, <3>3 DEF Contents
  <2>2. ASSUME e \in Contents(hashed) PROVE e \in Contents(hashed')
    <3>1. PICK j \in Occupied(hashed) : e = hashed.slots[j]
      BY <2>2 DEF Contents
    <3>2. j # i /\ j \in Indices(hashed)
      BY <1>1, <3>1 DEF Occupied
    <3> QED BY <1>1, <1>3, <3>1, <3>2 DEF Contents
  <2> QED BY <2>1, <2>2
<1>6. ASSUME NEW k \in Key
      PROVE  FindImmediate(k)' = IF k = var.key THEN var.value ELSE FindImmediate(k)
  <2>1. CASE k = var.key
    BY <1>4, <2>1 DEF AnswersFromContents, OneEntryPerKey
  <2>2. CASE k # var.key
    BY <1>5, <2>2 DEF AnswersFromContents, OneEntryPerKey
  <2> QED BY <2>1, <2>2
<1> QED BY <1>6

\* Every step other than the insertion changes no answer.
LEMMA OtherStepsKeepAnswers ==
  ASSUME IInv, IInv', AnswersFromContents, AnswersFromContents',
         OneEntryPerKey, OneEntryPerKey', [Next]_vars, ~ Insert
  PROVE  \A k \in Key : FindImmediate(k)' = FindImmediate(k)
<1>1. CASE UNCHANGED <<hash, hashed, count>>
  BY <1>1 DEF FindImmediate
<1>2. CASE \E e \in Entry : AddSymbol(e)
  BY <1>1, <1>2 DEF AddSymbol
<1>3. CASE MoveSlot
  BY <1>1, <1>3 DEF MoveSlot
<1>4. CASE FinishRebuild
  <2>1. Contents(hashed') = Contents(hashed)
    BY <1>4, RebuiltSame DEF FinishRebuild
  <2>2. ASSUME NEW k \in Key PROVE FindImmediate(k)' = FindImmediate(k)
    BY <2>1 DEF AnswersFromContents, OneEntryPerKey
  <2> QED BY <2>2
<1>5. CASE UNCHANGED vars
  BY <1>1, <1>5 DEF vars
<1> QED BY <1>2, <1>3, <1>4, <1>5 DEF Next

\* The hash table with shadowing and growth is, to those who look symbols up,
\* a map in which each addition binds exactly its own name and kind.
THEOREM Implements == Spec => ImplementsScopeMap
<1> DEFINE bar == [k \in Key |-> FindImmediate(k)]
<1>1. Init => Abstract!Init
  BY DEF Init, Abstract!Init, FindImmediate
<1>2. ASSUME IInv, IInv', AnswersFromContents, AnswersFromContents',
             OneEntryPerKey, OneEntryPerKey', [Next]_vars
      PROVE  [Abstract!Next]_(<<bar, symbols>>)
  <2>1. CASE Insert
    <3>1. var \in Entry /\ var.key \in Key /\ var.value \in Value
      BY <1>2, <2>1, InsertStores DEF Entry
    <3>2. var = [key |-> var.key, value |-> var.value]
      BY <3>1 DEF Entry
    <3>3. bar' = [bar EXCEPT ![var.key] = var.value]
      BY <1>2, <2>1, <3>1, InsertAnswers
    <3>4. symbols' = <<[key |-> var.key, value |-> var.value]>> \o symbols
      BY <2>1, <3>2 DEF Insert
    <3> QED BY <3>1, <3>3, <3>4 DEF Abstract!Next, Abstract!Bind
  <2>2. CASE ~ Insert
    <3>1. \A k \in Key : FindImmediate(k)' = FindImmediate(k)
      BY <1>2, <2>2, OtherStepsKeepAnswers
    <3>2. UNCHANGED symbols
      BY <1>2, <2>2 DEF Next, AddSymbol, MoveSlot, FinishRebuild, vars
    <3> QED BY <3>1, <3>2
  <2> QED BY <2>1, <2>2
<1>3. IInv => AnswersFromContents /\ OneEntryPerKey
  BY IInvAnswers
<1> QED BY <1>1, <1>2, <1>3, IInvHolds, PTL
        DEF Spec, ImplementsScopeMap, Abstract!Spec

\* An insertion keeps the answers in step with the list: the new symbol is the
\* newest of its key, those of the other keys move on by one place.
LEMMA InsertNewestWins ==
  ASSUME IInv, IInv', AnswersFromContents, AnswersFromContents',
         OneEntryPerKey, OneEntryPerKey', NewestWins, Insert
  PROVE  NewestWins'
<1>1. /\ symbols \in Seq(Entry) /\ symbols' \in Seq(Entry)
      /\ var \in Entry /\ var.key \in Key
      /\ symbols' = <<var>> \o symbols
  BY InsertStores DEF IInv, TypeOK, Insert
<1>2. /\ Len(symbols') = Len(symbols) + 1
      /\ symbols'[1] = var
      /\ \A n \in DOMAIN symbols : n + 1 \in DOMAIN symbols' /\ symbols'[n + 1] = symbols[n]
  BY <1>1
<1>3. \A n \in DOMAIN symbols' : n = 1 \/ (n - 1 \in DOMAIN symbols /\ symbols'[n] = symbols[n - 1])
  BY <1>1
<1>4. ASSUME NEW k \in Key
      PROVE  LET added == {n \in DOMAIN symbols' : symbols'[n].key = k}
             IN  IF added = {}
                   THEN FindImmediate(k)' = NULL
                   ELSE \E n \in added : /\ \A m \in added : n <= m
                                         /\ FindImmediate(k)' = symbols'[n].value
  <2> DEFINE old == {n \in DOMAIN symbols : symbols[n].key = k}
             added == {n \in DOMAIN symbols' : symbols'[n].key = k}
  <2>1. FindImmediate(k)' = IF k = var.key THEN var.value ELSE FindImmediate(k)
    BY InsertAnswers
  <2>2. CASE k = var.key
    <3>1. 1 \in added
      BY <1>1, <1>2, <2>2
    <3>2. \A m \in added : 1 <= m
      BY <1>1
    <3> QED BY <1>2, <2>1, <2>2, <3>1, <3>2
  <2>3. CASE k # var.key
    <3>1. \A n \in added : n - 1 \in old /\ symbols'[n] = symbols[n - 1]
      BY <1>2, <1>3, <2>3
    <3>2. \A n \in old : n + 1 \in added /\ symbols'[n + 1] = symbols[n]
      BY <1>2
    <3>3. IF old = {} THEN FindImmediate(k) = NULL
          ELSE \E n \in old : (\A m \in old : n <= m) /\ FindImmediate(k) = symbols[n].value
      BY DEF NewestWins
    <3>4. CASE old = {}
      BY <2>1, <2>3, <3>1, <3>3, <3>4
    <3>5. CASE old # {}
      <4>1. PICK n \in old : (\A m \in old : n <= m) /\ FindImmediate(k) = symbols[n].value
        BY <3>3, <3>5
      <4>2. old \subseteq Nat /\ added \subseteq Nat
        BY <1>1
      <4>3. \A m \in added : n + 1 <= m
        <5> SUFFICES ASSUME NEW m \in added PROVE n + 1 <= m
          OBVIOUS
        <5>1. m - 1 \in old /\ m \in Nat /\ n \in Nat
          BY <3>1, <4>1, <4>2
        <5>2. n <= m - 1
          BY <4>1, <5>1
        <5> QED BY ONLY <5>1, <5>2, SMT
      <4>4. n + 1 \in added /\ FindImmediate(k)' = symbols'[n + 1].value
        BY <2>1, <2>3, <3>2, <4>1
      <4> QED BY <4>3, <4>4
    <3> QED BY <3>4, <3>5
  <2> QED BY <2>2, <2>3
<1> QED BY <1>4 DEF NewestWins

\* A lookup always yields the symbol of its key that was added last.
THEOREM NewestSymbolWins == Spec => []NewestWins
<1>1. Init => NewestWins
  BY DEF Init, NewestWins, FindImmediate
<1>2. ASSUME IInv, IInv', AnswersFromContents, AnswersFromContents',
             OneEntryPerKey, OneEntryPerKey', NewestWins, [Next]_vars
      PROVE  NewestWins'
  <2>1. CASE Insert
    BY <1>2, <2>1, InsertNewestWins
  <2>2. CASE ~ Insert
    <3>1. \A k \in Key : FindImmediate(k)' = FindImmediate(k)
      BY <1>2, <2>2, OtherStepsKeepAnswers
    <3>2. symbols' = symbols
      BY <1>2, <2>2 DEF Next, AddSymbol, MoveSlot, FinishRebuild, vars
    <3> QED BY <1>2, <3>1, <3>2 DEF NewestWins
  <2> QED BY <2>1, <2>2
<1>3. IInv => AnswersFromContents /\ OneEntryPerKey
  BY IInvAnswers
<1> QED BY <1>1, <1>2, <1>3, IInvHolds, PTL DEF Spec
=============================================================================
