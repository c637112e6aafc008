------------------------------ MODULE TempAlloc -----------------------------
(***************************************************************************)
(* The allocator of short-lived strings (util/tmpalloc.c).  Buffers are    *)
(* chained from small to large; pages[i] is where the search for the sizes *)
(* of bucket i begins.  A buffer is filled from the front and emptied at   *)
(* once when the last allocation in it is freed.  MaxBuffers and MaxLive   *)
(* bound the buffers and the allocations that exist at a time.             *)
(***************************************************************************)
EXTENDS Naturals, FiniteSets

CONSTANTS Buckets, Minimum, Sizes, MaxBuffers, MaxLive

ASSUME ParametersAssumption ==
  /\ Buckets \in Nat \ {0} /\ Minimum \in Nat \ {0}
  /\ Sizes \subseteq Nat \ {0} /\ MaxBuffers \in Nat

NULL == 0

VARIABLES
  pages,                           \* the fields of TempAlloc
  next, count, capacity, used,     \* and of each TempBuffer
  live                             \* the allocations: buffer, first byte and size

vars == <<pages, next, count, capacity, used, live>>

Buffers == DOMAIN count

Init ==
  /\ pages = [i \in 0..Buckets - 1 |-> NULL]
  /\ next = <<>> /\ count = <<>> /\ capacity = <<>> /\ used = <<>>
  /\ live = {}

Least(S) == CHOOSE i \in S : \A j \in S : i <= j

\* findBufferCapacityBucket
Bucket(size) ==
  Least({i \in 0..Buckets - 1 : size <= Minimum * 2 ^ i} \cup {Buckets - 1})

\* The buffers that the search from a buffer passes, that one included
Closed(S) == \A b \in S : next[b] \in S \cup {NULL}
Chain(from) ==
  {b \in Buffers : from # NULL /\ \A S \in SUBSET Buffers : from \in S /\ Closed(S) => b \in S}

Fits(b, size) == capacity[b] - used[b] >= size

\* The buffer whose search is over first: nothing before it in the chain fits.
Found(size, b) ==
  LET chain == Chain(pages[Bucket(size)])
  IN  /\ b \in chain /\ Fits(b, size)
      /\ \A c \in chain : Fits(c, size) => c \in Chain(b)

Extend(f, b, v) == [c \in Buffers \cup {b} |-> IF c = b THEN v ELSE f[c]]

\* The links of pages and next once the new buffer b is entered in front of
\* after: the buckets from the given one downwards are visited until one needs
\* no change.  A bucket needs one in its page, or in the link of that page to
\* after, unless a bucket visited before has changed that link already.
LinkedFrom(top, b, after) ==
  LET link(i) == pages[i] # after /\ next[pages[i]] = after
      needed(i) == pages[i] = after \/ (link(i) /\ \A j \in i + 1..top : pages[j] # pages[i])
      visited == {i \in 0..top : \A j \in i + 1..top : needed(j)}
      before == {pages[i] : i \in {j \in visited : link(j)}}
  IN  [pages |-> [i \in 0..Buckets - 1 |-> IF i \in visited /\ pages[i] = after THEN b ELSE pages[i]],
       next |-> [c \in Buffers \cup {b} |-> IF c = b THEN after ELSE IF c \in before THEN b ELSE next[c]]]

\* Mutant: the walk begins one bucket too high.
LinkedFromAbove(b, bucket) ==
  LinkedFrom(IF bucket + 1 < Buckets THEN bucket + 1 ELSE bucket, b, pages[bucket])

Linked(b, bucket) == LinkedFrom(bucket, b, pages[bucket])

Larger(a, b) == IF a > b THEN a ELSE b

\* Mutant: the allocation is not counted.
TakeFromUncounted(b, size) ==
  /\ used' = [used EXCEPT ![b] = @ + size]
  /\ count' = IF count[b] = 0 THEN [count EXCEPT ![b] = 1] ELSE count
  /\ live' = live \cup {[buffer |-> b, first |-> used[b], size |-> size]}

TakeFrom(b, size) ==
  /\ used' = [used EXCEPT ![b] = @ + size]
  /\ count' = [count EXCEPT ![b] = @ + 1]
  /\ live' = live \cup {[buffer |-> b, first |-> used[b], size |-> size]}

AllocInBuffer(size) ==
  /\ Cardinality(live) < MaxLive
  /\ \E b \in Buffers : Found(size, b) /\ TakeFrom(b, size)
  /\ UNCHANGED <<pages, next, capacity>>

AllocNewBuffer(size) ==
  /\ Cardinality(live) < MaxLive /\ Cardinality(Buffers) < MaxBuffers
  /\ ~ \E b \in Buffers : Found(size, b)
  /\ LET b == Cardinality(Buffers) + 1
         links == Linked(b, Bucket(size))
     IN  /\ pages' = links.pages /\ next' = links.next
         /\ capacity' = Extend(capacity, b, Larger(size, Minimum * 2 ^ Bucket(size)))
         /\ used' = Extend(used, b, size)
         /\ count' = Extend(count, b, 1)
         /\ live' = live \cup {[buffer |-> b, first |-> 0, size |-> size]}

\* Mutant: the buffer is emptied by every call.
FreeAlways(a) ==
  /\ live' = live \ {a}
  /\ IF a.buffer \in Chain(pages[0])
     THEN /\ count' = [count EXCEPT ![a.buffer] = @ - 1]
          /\ used' = [used EXCEPT ![a.buffer] = 0]
     ELSE UNCHANGED <<count, used>>
  /\ UNCHANGED <<pages, next, capacity>>

\* Freed memory is looked for in the chain that begins at the first page.
Free(a) ==
  /\ live' = live \ {a}
  /\ IF a.buffer \in Chain(pages[0])
     THEN /\ count' = [count EXCEPT ![a.buffer] = @ - 1]
          /\ used' = IF count'[a.buffer] = 0 THEN [used EXCEPT ![a.buffer] = 0] ELSE used
     ELSE UNCHANGED <<count, used>>
  /\ UNCHANGED <<pages, next, capacity>>

Next ==
  \/ \E size \in Sizes : AllocInBuffer(size) \/ AllocNewBuffer(size)
  \/ \E a \in live : Free(a)

Spec == Init /\ [][Next]_vars
----------------------------------------------------------------------------
Within(b) == {a \in live : a.buffer = b}

Bytes(a) == a.first..a.first + a.size - 1

\* Memory that is in use is handed out once, and there is memory: the
\* allocations that live in a buffer take different bytes of the part of it
\* that is counted as used, which ends within its capacity, and there are no
\* more of them than are counted, whatever was freed between (used goes back
\* to 0 only with the last of them).
NoOverlap ==
  /\ \A a, c \in live : a # c /\ a.buffer = c.buffer => Bytes(a) \cap Bytes(c) = {}
  /\ \A a \in live : Bytes(a) \subseteq 0..used[a.buffer] - 1
  /\ \A b \in Buffers : used[b] <= capacity[b]
  /\ \A b \in Buffers : Cardinality(Within(b)) <= count[b]

\* A buffer that freeTempBuffer can find counts exactly the allocations that
\* live in it, and is empty, ready for reuse, as soon as there are none.
LinkedIsReusable ==
  \A b \in Chain(pages[0]) :
    /\ count[b] = Cardinality(Within(b))
    /\ Within(b) = {} => used[b] = 0

\* The links stay a list through every insertion: no buffer is its own
\* successor, however far, so every search ends; and the search that starts
\* for bucket i passes no buffer too small for that bucket.
ChainsAreSorted ==
  /\ \A b \in Buffers : b \notin Chain(next[b])
  /\ \A i \in 0..Buckets - 1 : \A b \in Chain(pages[i]) : capacity[b] >= Minimum * 2 ^ i

=============================================================================
