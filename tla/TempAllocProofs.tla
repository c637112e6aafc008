-------------------------- MODULE TempAllocProofs ---------------------------
(***************************************************************************)
(* Proofs for the allocator of TempAlloc, for every number of buckets, of *)
(* buffers and of allocations of any size.  Memory that is in use is       *)
(* handed out once, whatever the search finds: it may miss a buffer, and   *)
(* freeing one may be forgotten, but no buffer is emptied while it is in   *)
(* use.  The links are a list through every insertion, and the buffers     *)
(* that freeing can find count exactly what lives in them.                 *)
(***************************************************************************)
EXTENDS TempAlloc, FiniteSetTheorems, WellFoundedInduction, TLAPS

Allocations == [buffer : Buffers, first : Nat, size : Sizes]

\* Types, of what the property is about
Typed ==
  /\ \E n \in Nat : Buffers = 1..n
  /\ count \in [Buffers -> Nat] /\ used \in [Buffers -> Nat] /\ capacity \in [Buffers -> Nat]
  /\ live \subseteq Allocations /\ IsFiniteSet(live)

Disjoint ==
  \A a, c \in live : a # c /\ a.buffer = c.buffer =>
    a.first + a.size <= c.first \/ c.first + c.size <= a.first

BelowUsed == \A a \in live : a.first + a.size <= used[a.buffer]

WithinCapacity == \A b \in Buffers : used[b] <= capacity[b]

AllCounted == \A b \in Buffers : Cardinality(Within(b)) <= count[b]

IInv == Typed /\ Disjoint /\ BelowUsed /\ WithinCapacity /\ AllCounted

-----------------------------------------------------------------------------
(***************************************************************************)
(* The size of a new buffer.                                               *)
(***************************************************************************)
\* A set of naturals with an element has a least one.
LEMMA LeastIsElement ==
  ASSUME NEW S \in SUBSET Nat, S # {}
  PROVE  Least(S) \in S
<1> DEFINE R == {p \in Nat \X Nat : p[1] < p[2]}
<1>1. IsWellFoundedOn(R, Nat)
  BY NatLessThanWellFounded DEF OpToRel
<1>2. PICK x \in S : \A y \in S : <<y, x>> \notin R
  <2> HIDE DEF R
  <2> QED
    BY <1>1, WFMin
<1>3. ASSUME NEW y \in S PROVE x <= y
  <2>1. x \in Nat /\ y \in Nat
    OBVIOUS
  <2>2. y < x => <<y, x>> \in R
    BY <2>1
  <2>3. <<y, x>> \notin R
    BY <1>2
  <2> HIDE DEF R
  <2> QED
    BY <2>1, <2>2, <2>3
<1> QED
  BY <1>3 DEF Least

\* The powers of 2 are the sizes of the sets of all subsets.
LEMMA PowerOfTwo ==
  ASSUME NEW n \in Nat
  PROVE  2 ^ n \in Nat
<1>1. IsFiniteSet(1..n) /\ Cardinality(1..n) = n
  BY FS_Interval
<1>2. IsFiniteSet(SUBSET (1..n)) /\ Cardinality(SUBSET (1..n)) = 2 ^ n
  BY <1>1, FS_SUBSET
<1> QED
  BY <1>2, FS_CardinalityType

\* A new buffer has room for the allocation it is made for.
LEMMA NewBufferHasRoom ==
  ASSUME NEW size \in Sizes
  PROVE  LET room == Larger(size, Minimum * 2 ^ Bucket(size))
         IN  room \in Nat /\ size <= room
<1>1. Buckets \in Nat \ {0} /\ Minimum \in Nat /\ size \in Nat
  BY ParametersAssumption
<1>2. Bucket(size) \in Nat
  <2> DEFINE S == {i \in 0..Buckets - 1 : size <= Minimum * 2 ^ i} \cup {Buckets - 1}
  <2>1. S \in SUBSET Nat /\ S # {}
    BY <1>1
  <2>2. Least(S) \in S
    BY <2>1, LeastIsElement
  <2> QED
    BY <2>1, <2>2 DEF Bucket
<1>3. 2 ^ Bucket(size) \in Nat
  BY <1>2, PowerOfTwo
<1> DEFINE p == 2 ^ Bucket(size)
<1> HIDE DEF p
<1>4. Minimum * p \in Nat
  BY <1>1, <1>3 DEF p
<1>5. Larger(size, Minimum * p) \in Nat /\ size <= Larger(size, Minimum * p)
  BY <1>1, <1>4 DEF Larger
<1> QED
  BY <1>5 DEF p

-----------------------------------------------------------------------------
(***************************************************************************)
(* The operations.                                                         *)
(***************************************************************************)
LEMMA WithinFinite ==
  ASSUME Typed, NEW b
  PROVE  IsFiniteSet(Within(b)) /\ Cardinality(Within(b)) \in Nat
<1>1. Within(b) \in SUBSET live
  BY DEF Within
<1> QED
  BY <1>1, FS_Subset, FS_CardinalityType DEF Typed

\* Taking bytes at the end of the used part of a buffer keeps the allocations
\* apart, in an old buffer with room and in a new one.
LEMMA TakeKeepsApart ==
  ASSUME Disjoint, BelowUsed, live \subseteq Allocations, used \in [Buffers -> Nat],
         NEW b, NEW size \in Nat \ {0}, NEW first \in Nat,
         \A a \in live : a.buffer = b => a.first + a.size <= first,
         live' = live \cup {[buffer |-> b, first |-> first, size |-> size]},
         \A a \in live : a.buffer # b => used'[a.buffer] = used[a.buffer],
         used'[b] = first + size
  PROVE  Disjoint' /\ BelowUsed'
<1> DEFINE new == [buffer |-> b, first |-> first, size |-> size]
<1>1. new.buffer = b /\ new.first = first /\ new.size = size
  OBVIOUS
<1>2. \A a \in live : a.first \in Nat /\ a.size \in Nat /\ a.buffer \in Buffers
  BY ParametersAssumption DEF Allocations
<1>3. live' = live \cup {new}
  OBVIOUS
<1> HIDE DEF new
<1>4. Disjoint'
  <2>1. \A a \in live : a.buffer = new.buffer => a.first + a.size <= new.first
    BY <1>1
  <2> QED
    BY <1>3, <2>1 DEF Disjoint
<1>5. BelowUsed'
  <2> SUFFICES ASSUME NEW a \in live' PROVE a.first + a.size <= used'[a.buffer]
    BY DEF BelowUsed
  <2>1. CASE a = new
    BY <1>1, <2>1
  <2>2. CASE a \in live /\ a.buffer = b
    BY <1>2, <2>2
  <2>3. CASE a \in live /\ a.buffer # b
    BY <2>3 DEF BelowUsed
  <2> QED
    BY <1>3, <2>1, <2>2, <2>3
<1> QED
  BY <1>4, <1>5

LEMMA InitRight == Init => IInv
<1> SUFFICES ASSUME Init PROVE IInv
  OBVIOUS
<1>1. /\ count = <<>> /\ capacity = <<>> /\ used = <<>> /\ live = {}
      /\ Buffers = {} /\ 1..0 = {}
  BY DEF Init, Buffers
<1>2. Typed
  <2>1. \E n \in Nat : Buffers = 1..n
    BY <1>1
  <2>2. count \in [Buffers -> Nat] /\ used \in [Buffers -> Nat] /\ capacity \in [Buffers -> Nat]
    BY <1>1
  <2> QED
    BY <1>1, <2>1, <2>2, FS_EmptySet DEF Typed
<1> QED
  BY <1>1, <1>2 DEF IInv, Disjoint, BelowUsed, WithinCapacity, AllCounted

\* Whether enough are counted after an allocation was added in b.
LEMMA OneMoreCounted ==
  ASSUME Typed, AllCounted, NEW a, NEW b \in Buffers', a.buffer = b,
         live' = live \cup {a},
         b \in Buffers => count'[b] = count[b] + 1,
         b \notin Buffers => count'[b] = 1 /\ Within(b) = {},
         \A c \in Buffers' : c # b => c \in Buffers /\ count'[c] = count[c]
  PROVE  AllCounted'
<1> SUFFICES ASSUME NEW c \in Buffers' PROVE Cardinality(Within(c)') <= count'[c]
  BY DEF AllCounted
<1>1. CASE c # b
  <2>1. Within(c)' = Within(c)
    BY <1>1 DEF Within
  <2> QED
    BY <1>1, <2>1 DEF AllCounted
<1>2. CASE c = b
  <2>1. Within(b)' = Within(b) \cup {a}
    BY DEF Within
  <2>2. IsFiniteSet(Within(b)) /\ Cardinality(Within(b)) \in Nat
    BY WithinFinite
  <2>3. Cardinality(Within(b)') <= Cardinality(Within(b)) + 1
    <3>1. Cardinality(Within(b)') =
            IF a \in Within(b) THEN Cardinality(Within(b)) ELSE Cardinality(Within(b)) + 1
      <4> DEFINE w == Within(b)
      <4>1. IsFiniteSet(w)
        BY <2>2
      <4> HIDE DEF w
      <4>2. Cardinality(w \cup {a}) = IF a \in w THEN Cardinality(w) ELSE Cardinality(w) + 1
        BY <4>1, FS_AddElement
      <4> QED
        BY <2>1, <4>2 DEF w
    <3> DEFINE k == Cardinality(Within(b))
    <3>2. k \in Nat
      BY <2>2
    <3> HIDE DEF k
    <3> QED
      BY <3>1, <3>2 DEF k
  <2>4. Cardinality(Within(b)') \in Nat
    BY <2>1, <2>2, FS_AddElement, FS_CardinalityType
  <2>5. CASE b \in Buffers
    <3>1. Cardinality(Within(b)) <= count[b] /\ count[b] \in Nat
      BY <2>5 DEF AllCounted, Typed
    <3> QED
      BY <1>2, <2>2, <2>3, <2>4, <2>5, <3>1
  <2>6. CASE b \notin Buffers
    BY <1>2, <2>2, <2>3, <2>4, <2>6, FS_EmptySet
  <2> QED
    BY <2>5, <2>6
<1> QED
  BY <1>1, <1>2

LEMMA AllocInBufferKeeps ==
  ASSUME IInv, NEW size \in Sizes, AllocInBuffer(size)
  PROVE  IInv'
<1>1. PICK b \in Buffers : Fits(b, size) /\ TakeFrom(b, size)
  BY DEF AllocInBuffer, Found
<1>2. size \in Nat \ {0}
  BY ParametersAssumption
<1>3. /\ count \in [Buffers -> Nat] /\ used \in [Buffers -> Nat] /\ capacity \in [Buffers -> Nat]
      /\ live \subseteq Allocations /\ IsFiniteSet(live)
  BY DEF IInv, Typed
<1>4. used[b] \in Nat /\ count[b] \in Nat /\ capacity[b] \in Nat
  BY <1>3
<1> DEFINE new == [buffer |-> b, first |-> used[b], size |-> size]
<1>5. /\ used' = [used EXCEPT ![b] = used[b] + size]
      /\ count' = [count EXCEPT ![b] = count[b] + 1]
      /\ live' = live \cup {new}
      /\ capacity' = capacity
  BY <1>1 DEF TakeFrom, AllocInBuffer
<1>6. Buffers' = Buffers
  BY <1>3, <1>5 DEF Buffers
<1>7. /\ used' \in [Buffers -> Nat] /\ count' \in [Buffers -> Nat]
      /\ used'[b] = used[b] + size /\ count'[b] = count[b] + 1
      /\ \A c \in Buffers : c # b => used'[c] = used[c] /\ count'[c] = count[c]
  BY <1>2, <1>3, <1>4, <1>5
<1>8. new \in Allocations /\ new.buffer = b
  BY <1>2, <1>4 DEF Allocations
<1>9. Typed'
  <2>1. IsFiniteSet(live') /\ live' \subseteq Allocations
    BY <1>3, <1>5, <1>8, FS_AddElement
  <2> QED
    BY <1>3, <1>5, <1>6, <1>7, <2>1 DEF IInv, Typed, Allocations
<1>10. Disjoint' /\ BelowUsed'
  <2>1. \A a \in live : a.buffer = b => a.first + a.size <= used[b]
    BY DEF IInv, BelowUsed
  <2>2. \A a \in live : a.buffer # b => used'[a.buffer] = used[a.buffer]
    BY <1>3, <1>7 DEF Allocations
  <2> QED
    BY <1>2, <1>3, <1>4, <1>5, <1>7, <2>1, <2>2, TakeKeepsApart DEF IInv
<1>11. WithinCapacity'
  <2>1. used'[b] <= capacity[b]
    BY <1>1, <1>2, <1>4, <1>7 DEF Fits
  <2> QED
    BY <1>5, <1>6, <1>7, <2>1 DEF IInv, WithinCapacity
<1>12. AllCounted'
  <2> HIDE DEF new
  <2> QED
    BY <1>5, <1>6, <1>7, <1>8, OneMoreCounted DEF IInv
<1> QED
  BY <1>9, <1>10, <1>11, <1>12 DEF IInv

LEMMA AllocNewBufferKeeps ==
  ASSUME IInv, NEW size \in Sizes, AllocNewBuffer(size)
  PROVE  IInv'
<1> DEFINE b == Cardinality(Buffers) + 1
           new == [buffer |-> b, first |-> 0, size |-> size]
           room == Larger(size, Minimum * 2 ^ Bucket(size))
<1>1. size \in Nat \ {0} /\ room \in Nat /\ size <= room
  BY ParametersAssumption, NewBufferHasRoom
<1>2. /\ used' = Extend(used, b, size) /\ count' = Extend(count, b, 1)
      /\ capacity' = Extend(capacity, b, room) /\ live' = live \cup {new}
  BY DEF AllocNewBuffer
<1>3. /\ count \in [Buffers -> Nat] /\ used \in [Buffers -> Nat] /\ capacity \in [Buffers -> Nat]
      /\ live \subseteq Allocations /\ IsFiniteSet(live)
  BY DEF IInv, Typed
<1>4. PICK n \in Nat : Buffers = 1..n
  BY DEF IInv, Typed
<1>5. b = n + 1
  <2>1. Cardinality(1..n) = n
    <3>1. n \in Nat
      OBVIOUS
    <3> QED
      BY <3>1, FS_Interval
  <2> QED
    BY <1>4, <2>1
<1>6. b \notin Buffers /\ Buffers \cup {b} = 1..(n + 1) /\ n + 1 \in Nat
  BY <1>4, <1>5
<1> HIDE DEF b, room
<1>7. Buffers' = Buffers \cup {b}
  BY <1>2 DEF Buffers, Extend
<1>8. /\ used' \in [Buffers' -> Nat] /\ count' \in [Buffers' -> Nat] /\ capacity' \in [Buffers' -> Nat]
      /\ used'[b] = size /\ count'[b] = 1 /\ capacity'[b] = room
      /\ \A c \in Buffers : /\ used'[c] = used[c] /\ count'[c] = count[c]
                            /\ capacity'[c] = capacity[c]
  BY <1>1, <1>2, <1>3, <1>6, <1>7 DEF Extend
<1>9. new.buffer = b /\ new.first = 0 /\ new.size = size
  OBVIOUS
<1>10. Typed'
  <2>1. new \in Allocations'
    BY <1>1, <1>7 DEF Allocations
  <2>2. live \subseteq Allocations'
    BY <1>3, <1>7 DEF Allocations
  <2>3. IsFiniteSet(live')
    BY <1>2, <1>3, FS_AddElement
  <2> HIDE DEF new
  <2> QED
    BY <1>2, <1>6, <1>7, <1>8, <2>1, <2>2, <2>3 DEF Typed
<1>11. \A a \in live : a.buffer # b
  BY <1>3, <1>6 DEF Allocations
<1>12. Disjoint' /\ BelowUsed'
  <2>1. \A a \in live : a.buffer # b => used'[a.buffer] = used[a.buffer]
    BY <1>3, <1>8 DEF Allocations
  <2>2. used'[b] = 0 + size
    BY <1>1, <1>8
  <2> QED
    BY <1>1, <1>2, <1>3, <1>11, <2>1, <2>2, TakeKeepsApart DEF IInv
<1>13. WithinCapacity'
  BY <1>1, <1>7, <1>8 DEF IInv, WithinCapacity
<1>14. AllCounted'
  <2>1. Within(b) = {}
    BY <1>11 DEF Within
  <2> HIDE DEF new
  <2> QED
    BY <1>2, <1>6, <1>7, <1>8, <1>9, <2>1, OneMoreCounted DEF IInv
<1> QED
  BY <1>10, <1>12, <1>13, <1>14 DEF IInv

\* The last allocation counted in a buffer is the last that lives there, so a
\* buffer that is emptied is not in use.
LEMMA FreeKeeps ==
  ASSUME IInv, NEW a \in live, Free(a)
  PROVE  IInv'
<1> DEFINE b == a.buffer
<1>1. /\ count \in [Buffers -> Nat] /\ used \in [Buffers -> Nat] /\ capacity \in [Buffers -> Nat]
      /\ live \subseteq Allocations /\ IsFiniteSet(live)
  BY DEF IInv, Typed
<1>2. b \in Buffers
  BY <1>1 DEF Allocations
<1>3. live' = live \ {a} /\ capacity' = capacity
  BY DEF Free
<1>4. /\ IsFiniteSet(Within(b)) /\ a \in Within(b)
      /\ Cardinality(Within(b)) \in Nat /\ Cardinality(Within(b)) <= count[b]
  BY <1>2, WithinFinite DEF IInv, AllCounted, Within
<1>5. /\ Within(b)' = Within(b) \ {a}
      /\ \A c : c # b => Within(c)' = Within(c)
  BY <1>3 DEF Within
<1>6. /\ IsFiniteSet(Within(b) \ {a})
      /\ Cardinality(Within(b) \ {a}) = Cardinality(Within(b)) - 1
      /\ Cardinality(Within(b) \ {a}) \in Nat
  <2> DEFINE w == Within(b)
  <2>1. IsFiniteSet(w) /\ a \in w
    BY <1>4
  <2> HIDE DEF w
  <2>2. IsFiniteSet(w \ {a}) /\ Cardinality(w \ {a}) = Cardinality(w) - 1
    BY <2>1, FS_RemoveElement
  <2>3. Cardinality(w \ {a}) \in Nat
    BY <2>2, FS_CardinalityType
  <2> QED
    BY <2>2, <2>3 DEF w
<1> HIDE DEF b
<1>7. CASE UNCHANGED <<count, used>>
  <2>1. Typed'
    BY <1>1, <1>3, <1>7, FS_RemoveElement DEF IInv, Typed, Buffers, Allocations
  <2>2. Disjoint' /\ BelowUsed' /\ WithinCapacity'
    BY <1>3, <1>7 DEF IInv, Disjoint, BelowUsed, WithinCapacity, Buffers
  <2>3. ASSUME NEW c \in Buffers PROVE Cardinality(Within(c)') <= count[c]
    <3>1. CASE c = b
      <4> DEFINE k == Cardinality(Within(b))
      <4>1. k \in Nat /\ k <= count[b] /\ count[b] \in Nat /\ Cardinality(Within(b)') = k - 1
        BY <1>1, <1>2, <1>4, <1>5, <1>6
      <4> HIDE DEF k
      <4> QED
        BY <3>1, <4>1
    <3>2. CASE c # b
      BY <1>5, <3>2 DEF IInv, AllCounted
    <3> QED
      BY <3>1, <3>2
  <2>4. AllCounted'
    BY <1>7, <2>3 DEF AllCounted, Buffers
  <2> QED
    BY <2>1, <2>2, <2>4 DEF IInv
<1>8. CASE /\ count' = [count EXCEPT ![b] = @ - 1]
           /\ used' = IF count'[b] = 0 THEN [used EXCEPT ![b] = 0] ELSE used
  <2> DEFINE k == Cardinality(Within(b))
  <2>1. k \in Nat /\ k <= count[b] /\ k - 1 \in Nat /\ count[b] \in Nat
    BY <1>1, <1>2, <1>4, <1>6
  <2>2. Cardinality(Within(b)') = k - 1
    BY <1>5, <1>6
  <2> HIDE DEF k
  <2>3. count[b] - 1 \in Nat /\ k - 1 <= count[b] - 1
    BY <2>1
  <2>4. /\ count' \in [Buffers -> Nat] /\ count'[b] = count[b] - 1
        /\ \A c \in Buffers : c # b => count'[c] = count[c]
    BY <1>1, <1>2, <1>8, <2>3
  <2>5. /\ used' \in [Buffers -> Nat] /\ used'[b] \in {0, used[b]}
        /\ \A c \in Buffers : c # b => used'[c] = used[c]
        /\ count'[b] # 0 => used'[b] = used[b]
    BY <1>1, <1>2, <1>8
  <2>6. Buffers' = Buffers
    BY <1>1, <2>4 DEF Buffers
  <2>7. Typed'
    BY <1>1, <1>3, <2>4, <2>5, <2>6, FS_RemoveElement DEF IInv, Typed, Allocations
  <2>8. AllCounted'
    <3> SUFFICES ASSUME NEW c \in Buffers PROVE Cardinality(Within(c)') <= count'[c]
      BY <2>6 DEF AllCounted
    <3>1. CASE c = b
      BY <2>2, <2>3, <2>4, <3>1
    <3>2. CASE c # b
      BY <1>5, <2>4, <3>2 DEF IInv, AllCounted
    <3> QED
      BY <3>1, <3>2
  <2>9. count'[b] = 0 => \A c \in live' : c.buffer # b
    <3> SUFFICES ASSUME count'[b] = 0 PROVE \A c \in live' : c.buffer # b
      OBVIOUS
    <3>1. k - 1 = 0
      BY <2>1, <2>3, <2>4
    <3>2. Within(b) \ {a} = {}
      BY <1>5, <1>6, <2>2, <3>1, FS_EmptySet
    <3> QED
      BY <1>3, <3>2 DEF Within
  <2>10. \A c \in live' : c \in live /\ c.buffer \in Buffers /\ used'[c.buffer] = used[c.buffer]
    BY <1>1, <1>3, <2>5, <2>9 DEF Allocations
  <2>11. Disjoint'
    BY <1>3 DEF IInv, Disjoint
  <2>12. BelowUsed'
    BY <2>10 DEF IInv, BelowUsed
  <2>13. WithinCapacity'
    <3> SUFFICES ASSUME NEW c \in Buffers PROVE used'[c] <= capacity[c]
      BY <1>3, <2>6 DEF WithinCapacity
    <3>1. used[c] <= capacity[c] /\ used[c] \in Nat /\ capacity[c] \in Nat
      BY <1>1 DEF IInv, WithinCapacity
    <3>2. used'[c] = used[c] \/ used'[c] = 0
      BY <2>5
    <3> QED
      BY <3>1, <3>2
  <2> QED
    BY <2>7, <2>8, <2>11, <2>12, <2>13 DEF IInv
<1> QED
  BY <1>7, <1>8 DEF Free, b

-----------------------------------------------------------------------------
LEMMA MemoryInvariant == Spec => []IInv
<1>1. IInv /\ [Next]_vars => IInv'
  <2> SUFFICES ASSUME IInv, [Next]_vars PROVE IInv'
    OBVIOUS
  <2>1. CASE UNCHANGED vars
    BY <2>1 DEF vars, IInv, Typed, Disjoint, BelowUsed, WithinCapacity, AllCounted, Allocations,
                Buffers, Within
  <2> QED
    BY <2>1, AllocInBufferKeeps, AllocNewBufferKeeps, FreeKeeps DEF Next
<1> QED
  BY InitRight, <1>1, PTL DEF Spec

\* No two allocations that are in use ever share a byte, and all of them lie
\* within the capacity of their buffers, for every sequence of calls.
THEOREM MemoryIsHandedOutOnce == Spec => []NoOverlap
<1>1. IInv => NoOverlap
  <2> SUFFICES ASSUME IInv PROVE NoOverlap
    OBVIOUS
  <2>1. \A a \in live : a.first \in Nat /\ a.size \in Nat /\ a.buffer \in Buffers
    BY ParametersAssumption DEF IInv, Typed, Allocations
  <2>2. ASSUME NEW a \in live, NEW c \in live, a # c, a.buffer = c.buffer
        PROVE  Bytes(a) \cap Bytes(c) = {}
    BY <2>1, <2>2 DEF IInv, Disjoint, Bytes
  <2>3. ASSUME NEW a \in live PROVE Bytes(a) \subseteq 0..used[a.buffer] - 1
    <3>1. a.first + a.size <= used[a.buffer] /\ used[a.buffer] \in Nat
      BY <2>1 DEF IInv, Typed, BelowUsed
    <3> QED
      BY <2>1, <3>1 DEF Bytes
  <2> QED
    BY <2>2, <2>3 DEF IInv, WithinCapacity, AllCounted, NoOverlap
<1> QED
  BY MemoryInvariant, <1>1, PTL
-----------------------------------------------------------------------------
(***************************************************************************)
(* Lists: chains of links nx between the elements of B.                    *)
(***************************************************************************)
ClosedIn(S, nx) == \A b \in S : nx[b] \in S \cup {NULL}

ChainIn(from, nx, B) ==
  {b \in B : from # NULL /\ \A S \in SUBSET B : from \in S /\ ClosedIn(S, nx) => b \in S}

\* A chain is the least set with its first element that the links do not leave.
LEMMA ChainIsLeast ==
  ASSUME NEW B, NEW nx, NEW S \in SUBSET B, NEW x \in S, ClosedIn(S, nx)
  PROVE  ChainIn(x, nx, B) \subseteq S
BY DEF ChainIn

LEMMA ChainIsClosed ==
  ASSUME NEW B, NULL \notin B, NEW nx \in [B -> B \cup {NULL}], NEW x \in B
  PROVE  /\ ChainIn(x, nx, B) \subseteq B /\ x \in ChainIn(x, nx, B)
         /\ ClosedIn(ChainIn(x, nx, B), nx)
<1>1. ChainIn(x, nx, B) \subseteq B /\ x \in ChainIn(x, nx, B)
  BY DEF ChainIn
<1>2. ASSUME NEW b \in ChainIn(x, nx, B), nx[b] # NULL
      PROVE  nx[b] \in ChainIn(x, nx, B)
  <2>1. b \in B /\ nx[b] \in B
    BY <1>1, <1>2
  <2>2. ASSUME NEW S \in SUBSET B, x \in S, ClosedIn(S, nx) PROVE nx[b] \in S
    <3>1. b \in S
      BY <2>2 DEF ChainIn
    <3> QED
      BY <1>2, <2>2, <3>1 DEF ClosedIn
  <2> QED
    BY <2>1, <2>2 DEF ChainIn
<1> QED
  BY <1>1, <1>2 DEF ClosedIn

LEMMA ChainOfNothing ==
  ASSUME NEW B, NEW nx
  PROVE  ChainIn(NULL, nx, B) = {}
BY DEF ChainIn

Acyclic(nx, B) == \A b \in B : b \notin ChainIn(nx[b], nx, B)

\* The links that come from entering b in front of after: those to after may
\* lead to b instead.
Entered(nx, new, B, b, after) ==
  /\ new[b] = after
  /\ \A c \in B : new[c] = nx[c] \/ (new[c] = b /\ nx[c] = after)

\* What a chain becomes: b may come in, behind an element that led to after.
LEMMA ChainAfterEntry ==
  ASSUME NEW B, NULL \notin B, NEW nx \in [B -> B \cup {NULL}], NEW b, b \notin B, b # NULL,
         NEW after \in B \cup {NULL},
         NEW new \in [B \cup {b} -> B \cup {b, NULL}], Entered(nx, new, B, b, after),
         NEW x \in B
  PROVE  /\ ChainIn(x, new, B \cup {b}) \subseteq ChainIn(x, nx, B) \cup {b}
         /\ b \in ChainIn(x, new, B \cup {b}) =>
              \E c \in ChainIn(x, nx, B) : nx[c] = after /\ new[c] = b
<1> DEFINE old == ChainIn(x, nx, B)
<1>1. old \subseteq B /\ x \in old /\ ClosedIn(old, nx)
  BY ChainIsClosed
<1>2. CASE \E c \in old : nx[c] = after /\ new[c] = b
  <2>1. after \in old \cup {NULL}
    BY <1>1, <1>2 DEF ClosedIn
  <2>2. ClosedIn(old \cup {b}, new)
    BY <1>1, <2>1 DEF ClosedIn, Entered
  <2>3. old \cup {b} \in SUBSET (B \cup {b}) /\ x \in old \cup {b}
    BY <1>1
  <2>4. ChainIn(x, new, B \cup {b}) \subseteq old \cup {b}
    BY <2>2, <2>3, ChainIsLeast
  <2> QED
    BY <1>2, <2>4
<1>3. CASE ~ \E c \in old : nx[c] = after /\ new[c] = b
  <2>1. ClosedIn(old, new)
    BY <1>1, <1>3 DEF ClosedIn, Entered
  <2>2. old \in SUBSET (B \cup {b})
    BY <1>1
  <2>3. ChainIn(x, new, B \cup {b}) \subseteq old
    BY <1>1, <2>1, <2>2, ChainIsLeast
  <2> QED
    BY <1>1, <2>3
<1> QED
  BY <1>2, <1>3

LEMMA ChainFromEntry ==
  ASSUME NEW B, NULL \notin B, NEW nx \in [B -> B \cup {NULL}], NEW b, b \notin B, b # NULL,
         NEW after \in B \cup {NULL},
         NEW new \in [B \cup {b} -> B \cup {b, NULL}], Entered(nx, new, B, b, after)
  PROVE  ChainIn(b, new, B \cup {b}) \subseteq ChainIn(after, nx, B) \cup {b}
<1> DEFINE behind == ChainIn(after, nx, B)
<1>1. behind \subseteq B /\ ClosedIn(behind, nx) /\ after \in behind \cup {NULL}
  <2>1. CASE after = NULL
    BY <2>1, ChainOfNothing DEF ClosedIn
  <2>2. CASE after \in B
    BY <2>2, ChainIsClosed
  <2> QED
    BY <2>1, <2>2
<1>2. ClosedIn(behind \cup {b}, new)
  BY <1>1 DEF ClosedIn, Entered
<1>3. behind \cup {b} \in SUBSET (B \cup {b}) /\ b \in behind \cup {b}
  BY <1>1
<1> QED
  BY <1>2, <1>3, ChainIsLeast

\* The entry makes no cycle, and what comes behind after does not change.
LEMMA EntryKeepsAcyclic ==
  ASSUME NEW B, NULL \notin B, NEW nx \in [B -> B \cup {NULL}], NEW b, b \notin B, b # NULL,
         NEW after \in B \cup {NULL},
         NEW new \in [B \cup {b} -> B \cup {b, NULL}], Entered(nx, new, B, b, after),
         Acyclic(nx, B)
  PROVE  Acyclic(new, B \cup {b})
<1> DEFINE all == B \cup {b}
<1>1. \A c \in B : nx[c] = after => c \notin ChainIn(after, nx, B)
  BY DEF Acyclic
<1>2. ASSUME NEW c \in all PROVE c \notin ChainIn(new[c], new, all)
  <2>1. CASE new[c] = NULL
    BY <2>1, ChainOfNothing
  <2>2. CASE c = b /\ after # NULL
    <3>1. new[c] = after /\ after \in B
      BY <2>2 DEF Entered
    <3>2. b \in ChainIn(after, new, all) =>
            \E d \in ChainIn(after, nx, B) : nx[d] = after /\ new[d] = b
      BY <3>1, ChainAfterEntry
    <3>3. ChainIn(after, nx, B) \subseteq B
      BY DEF ChainIn
    <3> QED
      BY <1>1, <2>2, <3>1, <3>2, <3>3
  <2>3. CASE c \in B /\ new[c] = nx[c] /\ nx[c] # NULL
    <3>1. nx[c] \in B
      BY <2>3
    <3>2. ChainIn(nx[c], new, all) \subseteq ChainIn(nx[c], nx, B) \cup {b}
      BY <3>1, ChainAfterEntry
    <3> QED
      BY <2>3, <3>2 DEF Acyclic
  <2>4. CASE c \in B /\ new[c] = b /\ nx[c] = after
    <3>1. ChainIn(b, new, all) \subseteq ChainIn(after, nx, B) \cup {b}
      BY ChainFromEntry
    <3> QED
      BY <1>1, <2>4, <3>1
  <2> QED
    BY <2>1, <2>2, <2>3, <2>4 DEF Entered
<1> QED
  BY <1>2 DEF Acyclic

-----------------------------------------------------------------------------
(***************************************************************************)
(* The pages: what the search of each bucket passes.                       *)
(***************************************************************************)
BucketNumbers == 0..Buckets - 1

\* Where a bucket is found from a higher one, all between share its page.
PagesNest(pg, nx, B) ==
  \A k, i \in BucketNumbers :
    k <= i /\ pg[k] \in ChainIn(pg[i], nx, B) => \A m \in k..i : pg[m] = pg[k]

NullAbove(pg) ==
  \A k, i \in BucketNumbers : k <= i /\ pg[k] = NULL => pg[i] = NULL

RoomFrom(pg, nx, B, cap) ==
  \A i \in BucketNumbers : \A b \in ChainIn(pg[i], nx, B) : cap[b] >= Minimum * 2 ^ i

LinksTyped(pg, nx, B) ==
  /\ NULL \notin B
  /\ pg \in [BucketNumbers -> B \cup {NULL}] /\ nx \in [B -> B \cup {NULL}]

LinksRight(pg, nx, B, cap) ==
  /\ LinksTyped(pg, nx, B) /\ Acyclic(nx, B)
  /\ PagesNest(pg, nx, B) /\ NullAbove(pg) /\ RoomFrom(pg, nx, B, cap)

\* What the walk over the buckets does to the pages: it puts b in place of
\* after, from top down to the first bucket where there is something else, and
\* changes links of pages only.
PagesMoved(pg, moved, new, B, b, top) ==
  /\ \A i \in BucketNumbers : moved[i] = pg[i] \/ (moved[i] = b /\ i <= top /\ pg[i] = pg[top])
  /\ \A i \in 0..top : moved[i] = b => \A m \in i..top : moved[m] = b
  /\ \A k, i \in 0..top :
       k <= i /\ moved[i] = b /\ (\A m \in k..i : pg[m] = pg[top]) => moved[k] = b
  /\ \A c \in B : new[c] = b => \E k \in 0..top : pg[k] = c

LEMMA PowersGrow ==
  ASSUME NEW i \in Nat, NEW j \in Nat, i <= j
  PROVE  2 ^ i <= 2 ^ j
<1>1. /\ IsFiniteSet(1..i) /\ Cardinality(1..i) = i
      /\ IsFiniteSet(1..j) /\ Cardinality(1..j) = j
  BY FS_Interval
<1>2. /\ IsFiniteSet(SUBSET (1..i)) /\ Cardinality(SUBSET (1..i)) = 2 ^ i
      /\ IsFiniteSet(SUBSET (1..j)) /\ Cardinality(SUBSET (1..j)) = 2 ^ j
  BY <1>1, FS_SUBSET
<1>3. SUBSET (1..i) \subseteq SUBSET (1..j)
  OBVIOUS
<1> QED
  BY <1>2, <1>3, FS_Subset

\* From the buckets above, the new buffer is not found.
LEMMA NotFromAbove ==
  ASSUME NEW B, NEW pg, NEW nx, NEW cap, LinksRight(pg, nx, B, cap),
         NEW b, b \notin B, b # NULL, NEW top \in BucketNumbers, NEW after, after = pg[top],
         NEW new \in [B \cup {b} -> B \cup {b, NULL}], Entered(nx, new, B, b, after),
         NEW moved, PagesMoved(pg, moved, new, B, b, top),
         NEW i \in BucketNumbers, i > top
  PROVE  b \notin ChainIn(pg[i], new, B \cup {b})
<1>1. Buckets \in Nat /\ top \in Nat /\ i \in Nat
  BY ParametersAssumption DEF BucketNumbers
<1>2. NULL \notin B /\ nx \in [B -> B \cup {NULL}] /\ \A j \in BucketNumbers : pg[j] \in B \cup {NULL}
  BY DEF LinksRight, LinksTyped
<1>3. CASE pg[i] = NULL
  BY <1>3, ChainOfNothing
<1>4. CASE pg[i] # NULL
  <2> SUFFICES ASSUME b \in ChainIn(pg[i], new, B \cup {b}) PROVE FALSE
    OBVIOUS
  <2>1. pg[i] \in B /\ after \in B \cup {NULL}
    BY <1>2, <1>4
  <2>2. PICK c \in ChainIn(pg[i], nx, B) : nx[c] = after /\ new[c] = b
    BY <1>2, <2>1, ChainAfterEntry, Z3
  <2>3. c \in B
    BY DEF ChainIn
  <2>4. PICK k \in 0..top : pg[k] = c
    BY <2>2, <2>3 DEF PagesMoved
  <2>5. k \in BucketNumbers /\ k <= i /\ top \in k..i /\ i \in k..i
    BY <1>1, <2>4 DEF BucketNumbers
  <2>6. pg[top] = c
    BY <2>4, <2>5 DEF LinksRight, PagesNest
  <2>7. c \in ChainIn(c, nx, B)
    BY <1>2, <2>3, ChainIsClosed
  <2> QED
    BY <2>2, <2>3, <2>6, <2>7 DEF LinksRight, Acyclic
<1> QED
  BY <1>3, <1>4

LEMMA EntryKeepsLinks ==
  ASSUME NEW B, NEW pg, NEW nx, NEW cap, LinksRight(pg, nx, B, cap),
         NEW b, b \notin B, b # NULL, NEW top \in BucketNumbers,
         NEW new \in [B \cup {b} -> B \cup {b, NULL}], Entered(nx, new, B, b, pg[top]),
         NEW moved \in [BucketNumbers -> B \cup {b, NULL}],
         PagesMoved(pg, moved, new, B, b, top),
         NEW room, \A c \in B : room[c] = cap[c],
         room[b] \in Nat, room[b] >= Minimum * 2 ^ top
  PROVE  LinksRight(moved, new, B \cup {b}, room)
<1> DEFINE all == B \cup {b}
           after == pg[top]
<1>1. Buckets \in Nat /\ top \in Nat /\ BucketNumbers \subseteq Nat /\ top <= Buckets - 1
  BY ParametersAssumption DEF BucketNumbers
<1>2. /\ NULL \notin B /\ nx \in [B -> B \cup {NULL}] /\ after \in B \cup {NULL}
      /\ \A j \in BucketNumbers : pg[j] \in B \cup {NULL}
  BY DEF LinksRight, LinksTyped
<1>3. /\ \A i \in BucketNumbers : moved[i] = pg[i] \/ (moved[i] = b /\ i <= top /\ pg[i] = after)
      /\ \A i \in 0..top : moved[i] = b => \A m \in i..top : moved[m] = b
      /\ \A k, i \in 0..top :
           k <= i /\ moved[i] = b /\ (\A m \in k..i : pg[m] = after) => moved[k] = b
  BY DEF PagesMoved
<1>4. LinksTyped(moved, new, all)
  BY <1>2 DEF LinksTyped
<1>5. Acyclic(new, all)
  BY <1>2, EntryKeepsAcyclic DEF LinksRight
<1>6. \A i \in BucketNumbers : moved[i] = b => pg[i] = after /\ i <= top
  BY <1>2, <1>3
<1>7. ASSUME NEW k \in BucketNumbers, NEW i \in BucketNumbers, k <= i,
             \A m \in k..i : pg[m] = pg[k], moved[k] # b
      PROVE  \A m \in k..i : moved[m] = moved[k]
  <2> SUFFICES ASSUME NEW m \in k..i, moved[m] # moved[k] PROVE FALSE
    OBVIOUS
  <2>1. m \in BucketNumbers /\ k <= m /\ k \in Nat /\ m \in Nat /\ i \in Nat /\ m <= i
    BY <1>1 DEF BucketNumbers
  <2>2. moved[m] = b /\ m <= top /\ pg[m] = after
    BY <1>3, <1>7, <2>1
  <2>3. \A l \in k..m : pg[l] = after
    BY <1>1, <1>7, <2>1, <2>2
  <2>4. k \in 0..top /\ m \in 0..top
    BY <1>1, <2>1, <2>2
  <2> QED
    BY <1>3, <1>7, <2>1, <2>2, <2>3, <2>4
<1>8. NullAbove(moved)
  <2> SUFFICES ASSUME NEW k \in BucketNumbers, NEW i \in BucketNumbers, k <= i, moved[k] = NULL
               PROVE  moved[i] = NULL
    BY DEF NullAbove
  <2>1. pg[k] = NULL
    BY <1>3
  <2>2. ASSUME NEW m \in k..i PROVE pg[m] = NULL
    <3>1. m \in BucketNumbers /\ k <= m
      BY <1>1 DEF BucketNumbers
    <3> QED
      BY <2>1, <3>1 DEF LinksRight, NullAbove
  <2>3. i \in k..i
    BY <1>1 DEF BucketNumbers
  <2> QED
    BY <1>7, <2>1, <2>2, <2>3
<1>9. PagesNest(moved, new, all)
  <2> SUFFICES ASSUME NEW k \in BucketNumbers, NEW i \in BucketNumbers, k <= i,
                      moved[k] \in ChainIn(moved[i], new, all)
               PROVE  \A m \in k..i : moved[m] = moved[k]
    BY DEF PagesNest
  <2>1. k \in Nat /\ i \in Nat
    BY <1>1
  <2>2. CASE moved[k] = b
    <3>1. i <= top
      <4> SUFFICES ASSUME i > top PROVE FALSE
        BY <1>1, <2>1
      <4>1. moved[i] = pg[i]
        BY <1>1, <1>3, <2>1
      <4>2. b \notin ChainIn(pg[i], new, all)
        BY NotFromAbove
      <4> QED
        BY <2>2, <4>1, <4>2
    <3>2. k \in 0..top /\ \A m \in k..i : m \in k..top
      BY <1>1, <2>1, <3>1
    <3> QED
      BY <1>3, <2>2, <3>2
  <2>3. CASE moved[k] # b
    <3>1. moved[k] = pg[k]
      BY <1>3, <2>3
    <3>2. pg[k] \in ChainIn(pg[i], nx, B)
      <4>1. CASE moved[i] = b
        <5>1. pg[i] = after
          BY <1>6, <4>1
        <5>2. ChainIn(b, new, all) \subseteq ChainIn(after, nx, B) \cup {b}
          BY <1>2, ChainFromEntry
        <5> QED
          BY <2>3, <3>1, <4>1, <5>1, <5>2
      <4>2. CASE moved[i] # b
        <5>1. moved[i] = pg[i] /\ moved[i] # NULL
          BY <1>3, <4>2, ChainOfNothing
        <5>2. pg[i] \in B
          BY <1>2, <5>1
        <5>3. ChainIn(pg[i], new, all) \subseteq ChainIn(pg[i], nx, B) \cup {b}
          BY <1>2, <5>2, ChainAfterEntry
        <5> QED
          BY <2>3, <3>1, <5>1, <5>3
      <4> QED
        BY <4>1, <4>2
    <3>3. \A m \in k..i : pg[m] = pg[k]
      BY <3>2 DEF LinksRight, PagesNest
    <3> QED
      BY <1>7, <2>3, <3>3
  <2> QED
    BY <2>2, <2>3
<1>10. RoomFrom(moved, new, all, room)
  <2> SUFFICES ASSUME NEW i \in BucketNumbers, NEW c \in ChainIn(moved[i], new, all)
               PROVE  room[c] >= Minimum * 2 ^ i
    BY DEF RoomFrom
  <2>1. CASE c = b
    <3>1. i <= top
      <4> SUFFICES ASSUME i > top PROVE FALSE
        BY <1>1
      <4>1. moved[i] = pg[i]
        BY <1>1, <1>3
      <4> QED
        BY <1>2, <2>1, <4>1, NotFromAbove
    <3> DEFINE p == 2 ^ i  q == 2 ^ top
    <3>2. p \in Nat /\ q \in Nat /\ p <= q
      BY <1>1, <3>1, PowerOfTwo, PowersGrow
    <3>3. room[b] \in Nat /\ room[b] >= Minimum * q
      OBVIOUS
    <3> HIDE DEF p, q
    <3>4. Minimum \in Nat /\ Minimum * p <= Minimum * q /\ Minimum * p \in Nat /\ Minimum * q \in Nat
      BY <3>2, ParametersAssumption
    <3>5. room[b] >= Minimum * p
      BY <3>3, <3>4
    <3> QED
      BY <2>1, <3>5 DEF p
  <2>2. CASE c # b
    <3>1. c \in ChainIn(pg[i], nx, B)
      <4>1. CASE moved[i] = b
        <5>1. pg[i] = after
          BY <1>6, <4>1
        <5>2. ChainIn(b, new, all) \subseteq ChainIn(after, nx, B) \cup {b}
          BY <1>2, ChainFromEntry
        <5> QED
          BY <2>2, <4>1, <5>1, <5>2
      <4>2. CASE moved[i] # b
        <5>1. moved[i] = pg[i] /\ moved[i] # NULL
          BY <1>3, <4>2, ChainOfNothing
        <5>2. pg[i] \in B
          BY <1>2, <5>1
        <5>3. ChainIn(pg[i], new, all) \subseteq ChainIn(pg[i], nx, B) \cup {b}
          BY <1>2, <5>2, ChainAfterEntry
        <5> QED
          BY <2>2, <5>1, <5>3
      <4> QED
        BY <4>1, <4>2
    <3>2. c \in B
      BY <3>1 DEF ChainIn
    <3> QED
      BY <3>1, <3>2 DEF LinksRight, RoomFrom
  <2> QED
    BY <2>1, <2>2
<1> QED
  BY <1>4, <1>5, <1>8, <1>9, <1>10 DEF LinksRight

\* The walk that enters a buffer does just that.
LEMMA WalkEnters ==
  ASSUME LinksRight(pages, next, Buffers, capacity), NEW top \in BucketNumbers,
         NEW b, b \notin Buffers, b # NULL
  PROVE  LET links == LinkedFrom(top, b, pages[top])
         IN  /\ links.pages \in [BucketNumbers -> Buffers \cup {b, NULL}]
             /\ links.next \in [Buffers \cup {b} -> Buffers \cup {b, NULL}]
             /\ Entered(next, links.next, Buffers, b, pages[top])
             /\ PagesMoved(pages, links.pages, links.next, Buffers, b, top)
<1> DEFINE after == pages[top]
           link(i) == pages[i] # after /\ next[pages[i]] = after
           needed(i) == pages[i] = after \/ (link(i) /\ \A j \in i + 1..top : pages[j] # pages[i])
           visited == {i \in 0..top : \A j \in i + 1..top : needed(j)}
           before == {pages[i] : i \in {j \in visited : link(j)}}
           moved == [i \in 0..Buckets - 1 |->
                       IF i \in visited /\ pages[i] = after THEN b ELSE pages[i]]
           new == [c \in Buffers \cup {b} |->
                     IF c = b THEN after ELSE IF c \in before THEN b ELSE next[c]]
<1>1. LinkedFrom(top, b, pages[top]) = [pages |-> moved, next |-> new]
  BY DEF LinkedFrom
<1>2. /\ NULL \notin Buffers /\ after \in Buffers \cup {NULL}
      /\ pages \in [BucketNumbers -> Buffers \cup {NULL}]
      /\ next \in [Buffers -> Buffers \cup {NULL}]
  BY DEF LinksRight, LinksTyped
<1>3. /\ Buckets \in Nat /\ top \in Nat /\ 0..top \subseteq BucketNumbers
      /\ BucketNumbers = 0..Buckets - 1 /\ top <= Buckets - 1
  BY ParametersAssumption DEF BucketNumbers
<1>4. visited \subseteq 0..top
  OBVIOUS
<1>5. /\ \A c \in before : next[c] = after /\ \E k \in 0..top : pages[k] = c
      /\ \A c \in before : c # b
  BY <1>2, <1>3
<1>6. /\ \A i \in visited : \A j \in i + 1..top : needed(j)
      /\ \A i \in 0..top : (\A j \in i + 1..top : needed(j)) => i \in visited
      /\ \A j : pages[j] = after => needed(j)
  OBVIOUS
<1> HIDE DEF before, needed, link, visited
<1>7. /\ moved \in [BucketNumbers -> Buffers \cup {b, NULL}]
      /\ new \in [Buffers \cup {b} -> Buffers \cup {b, NULL}]
  BY <1>2, <1>3
<1>8. Entered(next, new, Buffers, b, after)
  BY <1>5 DEF Entered
<1>9. \A i \in BucketNumbers :
        /\ moved[i] = pages[i] \/ (i \in visited /\ pages[i] = after /\ moved[i] = b)
        /\ i \in visited /\ pages[i] = after => moved[i] = b
        /\ pages[i] # b
  BY <1>2, <1>3
<1>10. \A c \in Buffers : new[c] = b => c \in before
  BY <1>2
<1> HIDE DEF moved, new
<1>11. \A i \in BucketNumbers :
         moved[i] = pages[i] \/ (moved[i] = b /\ i <= top /\ pages[i] = after)
  BY <1>3, <1>4, <1>9
<1>12. ASSUME NEW i \in 0..top, moved[i] = b, NEW m \in i..top PROVE moved[m] = b
  <2>1. i \in visited /\ pages[i] = after /\ i \in BucketNumbers
    BY <1>3, <1>9, <1>12
  <2>2. pages[m] = after
    <3>1. top \in i..top /\ i <= top /\ m \in BucketNumbers /\ i <= m
      BY <1>3
    <3>2. CASE after = NULL
      BY <2>1, <3>1, <3>2 DEF LinksRight, NullAbove
    <3>3. CASE after # NULL
      <4>1. after \in ChainIn(after, next, Buffers)
        BY <1>2, <3>3, ChainIsClosed
      <4> QED
        BY <2>1, <3>1, <4>1 DEF LinksRight, PagesNest
    <3> QED
      BY <3>2, <3>3
  <2>3. m \in visited
    <3>1. m \in 0..top /\ \A j \in m + 1..top : j \in i + 1..top
      BY <1>3
    <3> QED
      BY <1>6, <2>1, <3>1
  <2>4. m \in BucketNumbers
    BY <1>3
  <2> QED
    BY <1>9, <2>2, <2>3, <2>4
<1>13. ASSUME NEW k \in 0..top, NEW i \in 0..top, k <= i, moved[i] = b,
              \A m \in k..i : pages[m] = after
       PROVE  moved[k] = b
  <2>1. i \in visited
    BY <1>3, <1>9, <1>13
  <2>2. ASSUME NEW j \in k + 1..top PROVE needed(j)
    <3>1. CASE j <= i
      <4>1. j \in k..i
        BY <1>3, <3>1
      <4> QED
        BY <1>6, <1>13, <4>1
    <3>2. CASE j > i
      <4>1. j \in i + 1..top
        BY <1>3, <3>2
      <4> QED
        BY <1>6, <2>1, <4>1
    <3> QED
      BY <1>3, <3>1, <3>2
  <2>3. k \in visited
    BY <1>6, <2>2
  <2>4. pages[k] = after /\ k \in BucketNumbers
    <3>1. k \in k..i
      BY <1>3, <1>13
    <3> QED
      BY <1>3, <1>13, <3>1
  <2> QED
    BY <1>9, <2>3, <2>4
<1>14. \A c \in Buffers : new[c] = b => \E k \in 0..top : pages[k] = c
  BY <1>5, <1>10
<1>15. PagesMoved(pages, moved, new, Buffers, b, top)
  BY <1>11, <1>12, <1>13, <1>14 DEF PagesMoved
<1> QED
  BY <1>1, <1>7, <1>8, <1>15

-----------------------------------------------------------------------------
LEMMA BucketIsNumber ==
  ASSUME NEW size \in Sizes
  PROVE  Bucket(size) \in BucketNumbers
<1>1. Buckets \in Nat \ {0}
  BY ParametersAssumption
<1> DEFINE S == {i \in 0..Buckets - 1 : size <= Minimum * 2 ^ i} \cup {Buckets - 1}
<1>2. S \in SUBSET Nat /\ S # {} /\ S \subseteq BucketNumbers
  BY <1>1 DEF BucketNumbers
<1>3. Least(S) \in S
  BY <1>2, LeastIsElement
<1> QED
  BY <1>2, <1>3 DEF Bucket

LEMMA ChainsAreChains ==
  /\ \A x : Chain(x) = ChainIn(x, next, Buffers)
  /\ Chain(pages[0])' = ChainIn(pages'[0], next', Buffers')
BY DEF Chain, ChainIn, Closed, ClosedIn

Links == LinksRight(pages, next, Buffers, capacity)

\* A new buffer becomes part of the lists as the walk enters it.
LEMMA NewBufferEntered ==
  ASSUME IInv, Links, NEW size \in Sizes, AllocNewBuffer(size)
  PROVE  LET b == Cardinality(Buffers) + 1
             top == Bucket(size)
         IN  /\ b \notin Buffers /\ b # NULL /\ Buffers' = Buffers \cup {b}
             /\ top \in BucketNumbers
             /\ pages' \in [BucketNumbers -> Buffers \cup {b, NULL}]
             /\ next' \in [Buffers \cup {b} -> Buffers \cup {b, NULL}]
             /\ Entered(next, next', Buffers, b, pages[top])
             /\ PagesMoved(pages, pages', next', Buffers, b, top)
             /\ \A c \in Buffers : capacity'[c] = capacity[c]
             /\ capacity'[b] \in Nat /\ capacity'[b] >= Minimum * 2 ^ top
<1> DEFINE b == Cardinality(Buffers) + 1
           top == Bucket(size)
           room == Larger(size, Minimum * 2 ^ top)
<1>1. PICK n \in Nat : Buffers = 1..n
  BY DEF IInv, Typed
<1>2. b = n + 1
  <2>1. Cardinality(1..n) = n
    <3>1. n \in Nat
      OBVIOUS
    <3> QED
      BY <3>1, FS_Interval
  <2> QED
    BY <1>1, <2>1
<1>3. b \notin Buffers /\ b # NULL
  BY <1>1, <1>2 DEF NULL
<1>4. top \in BucketNumbers
  BY BucketIsNumber
<1>5. /\ pages' = LinkedFrom(top, b, pages[top]).pages
      /\ next' = LinkedFrom(top, b, pages[top]).next
      /\ capacity' = Extend(capacity, b, room) /\ count' = Extend(count, b, 1)
  BY DEF AllocNewBuffer, Linked
<1>6. room \in Nat /\ room >= Minimum * 2 ^ top
  <2>1. Buckets \in Nat /\ Minimum \in Nat /\ size \in Nat /\ top \in Nat
    BY <1>4, ParametersAssumption DEF BucketNumbers
  <2> DEFINE q == 2 ^ top
  <2>2. q \in Nat
    BY <2>1, PowerOfTwo
  <2> HIDE DEF q
  <2>3. Minimum * q \in Nat
    BY <2>1, <2>2
  <2>4. Larger(size, Minimum * q) \in Nat /\ Larger(size, Minimum * q) >= Minimum * q
    BY <2>1, <2>3 DEF Larger
  <2> QED
    BY <2>4 DEF q
<1> HIDE DEF b, top, room
<1>7. Buffers' = Buffers \cup {b}
  BY <1>5 DEF Buffers, Extend
<1>8. \A c \in Buffers : capacity'[c] = capacity[c]
  BY <1>3, <1>5 DEF Extend
<1>9. capacity'[b] = room
  BY <1>5 DEF Extend
<1>10. /\ pages' \in [BucketNumbers -> Buffers \cup {b, NULL}]
       /\ next' \in [Buffers \cup {b} -> Buffers \cup {b, NULL}]
       /\ Entered(next, next', Buffers, b, pages[top])
       /\ PagesMoved(pages, pages', next', Buffers, b, top)
  BY <1>3, <1>4, <1>5, WalkEnters DEF Links
<1> QED
  BY <1>3, <1>4, <1>6, <1>7, <1>8, <1>9, <1>10 DEF b, top, room

LEMMA LinksInvariant ==
  ASSUME IInv, Links, [Next]_vars
  PROVE  Links'
<1>1. CASE UNCHANGED <<pages, next, capacity>> /\ Buffers' = Buffers
  BY <1>1 DEF Links
<1>2. ASSUME NEW size \in Sizes, AllocNewBuffer(size) PROVE Links'
  <2> DEFINE b == Cardinality(Buffers) + 1
             top == Bucket(size)
  <2>1. /\ b \notin Buffers /\ b # NULL /\ Buffers' = Buffers \cup {b}
        /\ top \in BucketNumbers
        /\ pages' \in [BucketNumbers -> Buffers \cup {b, NULL}]
        /\ next' \in [Buffers \cup {b} -> Buffers \cup {b, NULL}]
        /\ Entered(next, next', Buffers, b, pages[top])
        /\ PagesMoved(pages, pages', next', Buffers, b, top)
        /\ \A c \in Buffers : capacity'[c] = capacity[c]
        /\ capacity'[b] \in Nat /\ capacity'[b] >= Minimum * 2 ^ top
    BY <1>2, NewBufferEntered
  <2> HIDE DEF b, top
  <2>2. LinksRight(pages', next', Buffers \cup {b}, capacity')
    BY <2>1, EntryKeepsLinks DEF Links
  <2> QED
    BY <2>1, <2>2 DEF Links
<1>3. ASSUME NEW size \in Sizes, AllocInBuffer(size) PROVE Links'
  <2>1. Buffers' = Buffers
    BY <1>3 DEF AllocInBuffer, TakeFrom, Buffers, IInv, Typed
  <2> QED
    BY <1>1, <1>3, <2>1 DEF AllocInBuffer
<1>4. ASSUME NEW a \in live, Free(a) PROVE Links'
  <2>1. Buffers' = Buffers
    BY <1>4 DEF Free, Buffers, IInv, Typed
  <2> QED
    BY <1>1, <1>4, <2>1 DEF Free
<1>5. CASE UNCHANGED vars
  BY <1>1, <1>5 DEF vars, Buffers
<1> QED
  BY <1>2, <1>3, <1>4, <1>5 DEF Next

LEMMA InitLinks == Init => Links
<1> SUFFICES ASSUME Init PROVE Links
  OBVIOUS
<1>1. Buffers = {} /\ next = <<>> /\ pages = [i \in BucketNumbers |-> NULL]
  BY DEF Init, Buffers, BucketNumbers
<1>2. LinksTyped(pages, next, Buffers)
  BY <1>1 DEF LinksTyped
<1>3. Acyclic(next, Buffers) /\ NullAbove(pages)
  BY <1>1 DEF Acyclic, NullAbove
<1>4. \A x : ChainIn(x, next, Buffers) = {}
  BY <1>1 DEF ChainIn
<1> QED
  BY <1>2, <1>3, <1>4 DEF Links, LinksRight, PagesNest, RoomFrom

\* What is found from the first page: the new buffer may come in, no other.
LEMMA FoundFromFirstPage ==
  ASSUME IInv, Links, NEW size \in Sizes, AllocNewBuffer(size)
  PROVE  Chain(pages[0])' \subseteq Chain(pages[0]) \cup {Cardinality(Buffers) + 1}
<1> DEFINE b == Cardinality(Buffers) + 1
           top == Bucket(size)
<1>1. /\ b \notin Buffers /\ b # NULL /\ Buffers' = Buffers \cup {b}
      /\ top \in BucketNumbers
      /\ next' \in [Buffers \cup {b} -> Buffers \cup {b, NULL}]
      /\ Entered(next, next', Buffers, b, pages[top])
      /\ PagesMoved(pages, pages', next', Buffers, b, top)
  BY NewBufferEntered
<1> HIDE DEF b, top
<1>2. 0 \in BucketNumbers
  BY ParametersAssumption DEF BucketNumbers
<1>3. /\ NULL \notin Buffers /\ next \in [Buffers -> Buffers \cup {NULL}]
      /\ \A i \in BucketNumbers : pages[i] \in Buffers \cup {NULL}
  BY DEF Links, LinksRight, LinksTyped
<1>4. pages'[0] = pages[0] \/ (pages'[0] = b /\ pages[0] = pages[top])
  BY <1>1, <1>2 DEF PagesMoved
<1>5. ChainIn(pages'[0], next', Buffers \cup {b}) \subseteq ChainIn(pages[0], next, Buffers) \cup {b}
  <2>1. CASE pages'[0] = NULL
    BY <2>1, ChainOfNothing
  <2>2. CASE pages'[0] = pages[0] /\ pages'[0] # NULL
    <3>1. pages[0] \in Buffers
      BY <1>2, <1>3, <2>2
    <3>2. ChainIn(pages[0], next', Buffers \cup {b})
            \subseteq ChainIn(pages[0], next, Buffers) \cup {b}
      BY <1>1, <1>3, <3>1, ChainAfterEntry
    <3> QED
      BY <2>2, <3>2
  <2>3. CASE pages'[0] = b /\ pages[0] = pages[top]
    <3>1. ChainIn(b, next', Buffers \cup {b}) \subseteq ChainIn(pages[top], next, Buffers) \cup {b}
      BY <1>1, <1>3, ChainFromEntry
    <3> QED
      BY <2>3, <3>1
  <2> QED
    BY <1>4, <2>1, <2>2, <2>3
<1>6. Chain(pages[0])' = ChainIn(pages'[0], next', Buffers \cup {b})
  BY <1>1, ChainsAreChains
<1>7. Chain(pages[0]) = ChainIn(pages[0], next, Buffers)
  BY ChainsAreChains
<1> QED
  BY <1>5, <1>6, <1>7 DEF b

\* The search for any bucket ends, and passes no buffer too small for it; the
\* walk that enters a new buffer never follows the link of a page that is not.
THEOREM SearchesAreSorted == Spec => []ChainsAreSorted
<1>1. Links => ChainsAreSorted
  <2> SUFFICES ASSUME Links PROVE ChainsAreSorted
    OBVIOUS
  <2>1. \A b \in Buffers : b \notin Chain(next[b])
    BY ChainsAreChains DEF Links, LinksRight, Acyclic
  <2>2. \A i \in 0..Buckets - 1 : \A b \in Chain(pages[i]) : capacity[b] >= Minimum * 2 ^ i
    BY ChainsAreChains DEF Links, LinksRight, RoomFrom, BucketNumbers
  <2> QED
    BY <2>1, <2>2 DEF ChainsAreSorted
<1> QED
  BY MemoryInvariant, InitRight, InitLinks, LinksInvariant, <1>1, PTL DEF Spec

-----------------------------------------------------------------------------
(***************************************************************************)
(* Reuse.                                                                  *)
(***************************************************************************)
LEMMA AllocInBufferReusable ==
  ASSUME IInv, LinkedIsReusable, NEW size \in Sizes, AllocInBuffer(size)
  PROVE  LinkedIsReusable'
<1>1. PICK b \in Buffers : TakeFrom(b, size)
  BY DEF AllocInBuffer
<1> DEFINE new == [buffer |-> b, first |-> used[b], size |-> size]
<1>2. /\ count \in [Buffers -> Nat] /\ used \in [Buffers -> Nat] /\ live \subseteq Allocations
      /\ size \in Nat \ {0}
  BY ParametersAssumption DEF IInv, Typed
<1>3. /\ UNCHANGED <<pages, next>> /\ live' = live \cup {new} /\ Buffers' = Buffers
      /\ count'[b] = count[b] + 1
      /\ \A c \in Buffers : c # b => count'[c] = count[c] /\ used'[c] = used[c]
  BY <1>1, <1>2 DEF AllocInBuffer, TakeFrom, Buffers
<1>4. Chain(pages[0])' = Chain(pages[0])
  BY <1>3, ChainsAreChains
<1>5. \A c : c # b => Within(c)' = Within(c)
  BY <1>3 DEF Within
<1>6. Within(b)' = Within(b) \cup {new} /\ new \notin Within(b)
  <2>1. Within(b)' = Within(b) \cup {new}
    BY <1>3 DEF Within
  <2>2. ASSUME NEW a \in live, a.buffer = b PROVE a.first # used[b]
    <3>1. a.first \in Nat /\ a.size \in Nat \ {0} /\ a.first + a.size <= used[b] /\ used[b] \in Nat
      BY <1>2, <2>2, ParametersAssumption DEF Allocations, IInv, BelowUsed
    <3> QED
      BY <3>1
  <2> QED
    BY <2>1, <2>2 DEF Within
<1>7. IsFiniteSet(Within(b))
  BY WithinFinite DEF IInv
<1>8. Cardinality(Within(b)') = Cardinality(Within(b)) + 1 /\ Within(b)' # {}
  <2> DEFINE w == Within(b)
  <2>1. IsFiniteSet(w) /\ new \notin w
    BY <1>6, <1>7
  <2> HIDE DEF w, new
  <2>2. Cardinality(w \cup {new}) = Cardinality(w) + 1
    BY <2>1, FS_AddElement
  <2> QED
    BY <1>6, <2>2 DEF w
<1> HIDE DEF new
<1> SUFFICES ASSUME NEW c \in Chain(pages[0])
             PROVE  count'[c] = Cardinality(Within(c)') /\ (Within(c)' = {} => used'[c] = 0)
  BY <1>4 DEF LinkedIsReusable
<1>9. c \in Buffers /\ count[c] = Cardinality(Within(c)) /\ (Within(c) = {} => used[c] = 0)
  BY DEF LinkedIsReusable, Chain
<1>10. CASE c = b
  BY <1>3, <1>8, <1>9, <1>10
<1>11. CASE c # b
  BY <1>3, <1>5, <1>9, <1>11
<1> QED
  BY <1>10, <1>11

LEMMA AllocNewBufferReusable ==
  ASSUME IInv, Links, LinkedIsReusable, NEW size \in Sizes, AllocNewBuffer(size)
  PROVE  LinkedIsReusable'
<1>1. PICK b : b = Cardinality(Buffers) + 1
  OBVIOUS
<1> DEFINE new == [buffer |-> b, first |-> 0, size |-> size]
<1>2. b \notin Buffers /\ Buffers' = Buffers \cup {b}
  BY <1>1, NewBufferEntered
<1>3. /\ count' = Extend(count, b, 1) /\ used' = Extend(used, b, size)
      /\ live' = live \cup {new}
  BY <1>1 DEF AllocNewBuffer
<1>4. Chain(pages[0])' \subseteq Chain(pages[0]) \cup {b}
  BY <1>1, FoundFromFirstPage
<1>5. new.buffer = b
  OBVIOUS
<1> HIDE DEF new
<1>6. count'[b] = 1 /\ \A c \in Buffers : count'[c] = count[c] /\ used'[c] = used[c]
  BY <1>2, <1>3 DEF Extend
<1>7. \A a \in live : a.buffer # b
  BY <1>2 DEF IInv, Typed, Allocations
<1>8. Within(b)' = {new}
  BY <1>3, <1>5, <1>7 DEF Within
<1>9. \A c : c # b => Within(c)' = Within(c)
  BY <1>3, <1>5 DEF Within
<1>10. Cardinality({new}) = 1
  BY FS_Singleton
<1> SUFFICES ASSUME NEW c \in Chain(pages[0])'
             PROVE  count'[c] = Cardinality(Within(c)') /\ (Within(c)' = {} => used'[c] = 0)
  BY DEF LinkedIsReusable
<1>11. CASE c = b
  <2>1. Within(c)' = {new}
    BY <1>8, <1>11
  <2> QED
    BY <1>6, <1>10, <1>11, <2>1
<1>12. CASE c # b
  <2>1. c \in Chain(pages[0])
    BY <1>4, <1>12
  <2>2. c \in Buffers /\ count[c] = Cardinality(Within(c)) /\ (Within(c) = {} => used[c] = 0)
    BY <2>1 DEF LinkedIsReusable, Chain
  <2> QED
    BY <1>6, <1>9, <1>12, <2>2
<1> QED
  BY <1>11, <1>12

\* A buffer that is not found is not counted down, but no such buffer comes
\* back into the chain.
LEMMA FreeReusable ==
  ASSUME IInv, LinkedIsReusable, NEW a \in live, Free(a)
  PROVE  LinkedIsReusable'
<1> DEFINE b == a.buffer
<1>1. /\ count \in [Buffers -> Nat] /\ used \in [Buffers -> Nat] /\ live \subseteq Allocations
      /\ b \in Buffers
  BY DEF IInv, Typed, Allocations
<1>2. UNCHANGED <<pages, next>> /\ live' = live \ {a}
  BY DEF Free
<1>3. Within(b)' = Within(b) \ {a} /\ \A c : c # b => Within(c)' = Within(c)
  BY <1>2 DEF Within
<1>4. IsFiniteSet(Within(b)) /\ a \in Within(b) /\ Cardinality(Within(b)) \in Nat
  BY WithinFinite DEF IInv, Within
<1>5. /\ Cardinality(Within(b)') = Cardinality(Within(b)) - 1
      /\ Within(b)' = {} => Cardinality(Within(b)') = 0
  <2> DEFINE w == Within(b)
  <2>1. IsFiniteSet(w) /\ a \in w
    BY <1>4
  <2> HIDE DEF w
  <2>2. Cardinality(w \ {a}) = Cardinality(w) - 1
    BY <2>1, FS_RemoveElement
  <2>3. w \ {a} = {} => Cardinality(w \ {a}) = 0
    BY FS_EmptySet
  <2> QED
    BY <1>3, <2>2, <2>3 DEF w
<1> HIDE DEF b
<1>6. Buffers' = Buffers
  BY DEF Free, IInv, Typed, Buffers
<1>7. Chain(pages[0])' = Chain(pages[0])
  BY <1>2, <1>6, ChainsAreChains
<1> SUFFICES ASSUME NEW c \in Chain(pages[0])
             PROVE  count'[c] = Cardinality(Within(c)') /\ (Within(c)' = {} => used'[c] = 0)
  BY <1>7 DEF LinkedIsReusable
<1>8. c \in Buffers /\ count[c] = Cardinality(Within(c)) /\ (Within(c) = {} => used[c] = 0)
  BY DEF LinkedIsReusable, Chain
<1>9. CASE c = b
  <2>1. /\ count' = [count EXCEPT ![b] = @ - 1]
        /\ used' = IF count'[b] = 0 THEN [used EXCEPT ![b] = 0] ELSE used
    BY <1>9 DEF Free, b
  <2>2. count'[b] = count[b] - 1 /\ (count'[b] = 0 => used'[b] = 0)
    BY <1>1, <2>1
  <2> QED
    BY <1>5, <1>8, <1>9, <2>2
<1>10. CASE c # b
  <2>1. count'[c] = count[c] /\ used'[c] = used[c]
    BY <1>1, <1>8, <1>10 DEF Free, b
  <2> QED
    BY <1>3, <1>8, <1>10, <2>1
<1> QED
  BY <1>9, <1>10

\* A buffer that freeing can find counts exactly what lives in it, and is
\* emptied with the last of that, in every list that insertions can make.
THEOREM FoundIsReusable == Spec => []LinkedIsReusable
<1>1. Init => LinkedIsReusable
  BY DEF Init, Buffers, Chain, LinkedIsReusable
<1>2. IInv /\ Links /\ LinkedIsReusable /\ [Next]_vars => LinkedIsReusable'
  <2> SUFFICES ASSUME IInv, Links, LinkedIsReusable, [Next]_vars PROVE LinkedIsReusable'
    OBVIOUS
  <2>1. CASE UNCHANGED vars
    BY <2>1 DEF vars, LinkedIsReusable, Chain, Closed, Buffers, Within
  <2> QED
    BY <2>1, AllocInBufferReusable, AllocNewBufferReusable, FreeReusable DEF Next
<1> QED
  BY MemoryInvariant, InitLinks, LinksInvariant, <1>1, <1>2, PTL DEF Spec
=============================================================================
