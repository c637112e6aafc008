---------------------------- MODULE CodeGenProofs ---------------------------
(***************************************************************************)
(* The blocks of every function body, of whatever size and nesting.        *)
(***************************************************************************)
EXTENDS Lowering, SequenceTheorems, TLAPS

-----------------------------------------------------------------------------
(***************************************************************************)
(* Blocks.                                                                 *)
(***************************************************************************)

IsBlocks(bs) == \E I : bs \in Seq(Seq(I))

\* A block that is being filled, and one that is done.
Open(s) == \A i \in DOMAIN s : s[i].op \notin Terminators
Closed(s) == s # <<>> /\ \A i \in DOMAIN s : s[i].op \in Terminators <=> i = Len(s)

PredecessorsIn(bs, b) == {a \in DOMAIN bs : \E i \in DOMAIN bs[a] : Branches(bs[a][i], b)}

NoPhi(s) == \A i \in DOMAIN s : s[i].op # "phi"

Sources(phi) == DOMAIN phi.in

PhisRight(bs) ==
  \A b \in DOMAIN bs : \A i \in DOMAIN bs[b] :
    bs[b][i].op = "phi" => Sources(bs[b][i]) = PredecessorsIn(bs, b)

IsBranch(instr) == instr.op \in {"br", "condbr"}

EdgesWithin(bs, targets) ==
  \A a \in DOMAIN bs : \A i \in DOMAIN bs[a] :
    IsBranch(bs[a][i]) => bs[a][i].to \subseteq targets

LEMMA BlocksAreSequences ==
  ASSUME NEW bs, IsBlocks(bs)
  PROVE  /\ Len(bs) \in Nat /\ DOMAIN bs = 1..Len(bs)
         /\ \A b \in DOMAIN bs : Len(bs[b]) \in Nat /\ DOMAIN bs[b] = 1..Len(bs[b])
<1>1. PICK I : bs \in Seq(Seq(I))
  BY DEF IsBlocks
<1>2. \A b \in DOMAIN bs : bs[b] \in Seq(I)
  BY <1>1
<1> QED BY <1>1, <1>2

\* An instruction is put at the end of its block, and nothing else changes.
LEMMA EmitProps ==
  ASSUME NEW bs, IsBlocks(bs), NEW b \in DOMAIN bs, NEW instr
  PROVE  LET new == Emit(bs, b, instr)
         IN  /\ IsBlocks(new) /\ Len(new) = Len(bs) /\ DOMAIN new = DOMAIN bs
             /\ \A c \in DOMAIN bs : c # b => new[c] = bs[c]
             /\ new[b] # <<>> /\ Len(new[b]) = Len(bs[b]) + 1
             /\ DOMAIN new[b] = 1..(Len(bs[b]) + 1)
             /\ \A i \in DOMAIN bs[b] : new[b][i] = bs[b][i]
             /\ new[b][Len(bs[b]) + 1] = instr
<1>1. PICK J : bs \in Seq(Seq(J))
  BY DEF IsBlocks
<1> DEFINE I == J \cup {instr}
           new == Emit(bs, b, instr)
<1>2. Seq(J) \subseteq Seq(I)
  BY SeqMonotonic
<1>3. bs \in Seq(Seq(I))
  BY <1>1, <1>2, SeqMonotonic
<1>4. bs[b] \in Seq(I) /\ instr \in I
  BY <1>3
<1> HIDE DEF I
<1>5. Append(bs[b], instr) \in Seq(I)
  BY <1>4
<1>6. new = [bs EXCEPT ![b] = Append(bs[b], instr)]
  BY DEF Emit
<1>7. new \in Seq(Seq(I)) /\ Len(new) = Len(bs)
  BY <1>3, <1>5, <1>6
<1>8. new[b] = Append(bs[b], instr) /\ \A c \in DOMAIN bs : c # b => new[c] = bs[c]
  BY <1>3, <1>6
<1>9. /\ new[b] # <<>> /\ Len(new[b]) = Len(bs[b]) + 1
      /\ DOMAIN new[b] = 1..(Len(bs[b]) + 1)
      /\ \A i \in DOMAIN bs[b] : new[b][i] = bs[b][i]
      /\ new[b][Len(bs[b]) + 1] = instr
  BY <1>4, <1>8
<1> QED BY <1>3, <1>7, <1>8, <1>9 DEF IsBlocks

LEMMA EmitIsBlocks ==
  ASSUME NEW bs, IsBlocks(bs), NEW b \in DOMAIN bs, NEW instr
  PROVE  /\ IsBlocks(Emit(bs, b, instr)) /\ Len(Emit(bs, b, instr)) = Len(bs)
         /\ DOMAIN Emit(bs, b, instr) = DOMAIN bs
BY EmitProps

LEMMA CreatedProps ==
  ASSUME NEW bs, IsBlocks(bs), NEW n \in Nat
  PROVE  LET new == Created(bs, n)
         IN  /\ IsBlocks(new) /\ Len(new) = Len(bs) + n
             /\ DOMAIN new = 1..(Len(bs) + n)
             /\ \A c \in DOMAIN bs : c \in DOMAIN new /\ new[c] = bs[c]
             /\ \A c \in (Len(bs) + 1)..(Len(bs) + n) : new[c] = <<>>
<1>1. PICK I : bs \in Seq(Seq(I))
  BY DEF IsBlocks
<1> DEFINE more == [i \in 1..n |-> <<>>]
<1>2. more \in Seq(Seq(I)) /\ Len(more) = n /\ \A i \in 1..n : more[i] = <<>>
  <2>1. <<>> \in Seq(I)
    OBVIOUS
  <2> QED BY <2>1
<1> HIDE DEF more
<1>3. Created(bs, n) = bs \o more
  BY DEF Created, more
<1>4. Len(bs) \in Nat /\ DOMAIN bs = 1..Len(bs)
  BY <1>1
<1>5. /\ bs \o more \in Seq(Seq(I)) /\ Len(bs \o more) = Len(bs) + n
      /\ \A i \in 1..(Len(bs) + n) :
           (bs \o more)[i] = IF i <= Len(bs) THEN bs[i] ELSE more[i - Len(bs)]
  BY <1>1, <1>2, ConcatProperties
<1>6. DOMAIN (bs \o more) = 1..(Len(bs) + n)
  BY <1>5
<1>7. \A c \in (Len(bs) + 1)..(Len(bs) + n) : c - Len(bs) \in 1..n
  BY <1>4
<1> QED BY <1>2, <1>3, <1>4, <1>5, <1>6, <1>7 DEF IsBlocks

\* An instruction that is no branch leaves all predecessors alone.
LEMMA PredecessorsStay ==
  ASSUME NEW bs, IsBlocks(bs), NEW b \in DOMAIN bs, NEW instr, ~ IsBranch(instr), NEW c
  PROVE  PredecessorsIn(Emit(bs, b, instr), c) = PredecessorsIn(bs, c)
<1> DEFINE new == Emit(bs, b, instr)
<1>1. /\ DOMAIN new = DOMAIN bs /\ \A a \in DOMAIN bs : a # b => new[a] = bs[a]
      /\ DOMAIN new[b] = 1..(Len(bs[b]) + 1) /\ new[b][Len(bs[b]) + 1] = instr
      /\ \A i \in DOMAIN bs[b] : new[b][i] = bs[b][i]
  BY EmitProps
<1>2. Len(bs[b]) \in Nat /\ DOMAIN bs[b] = 1..Len(bs[b])
  BY BlocksAreSequences
<1> HIDE DEF new
<1>3. ASSUME NEW a \in DOMAIN bs
      PROVE  (\E i \in DOMAIN new[a] : Branches(new[a][i], c))
               <=> (\E i \in DOMAIN bs[a] : Branches(bs[a][i], c))
  <2>1. CASE a # b
    BY <1>1, <2>1
  <2>2. CASE a = b
    <3>1. ~ Branches(instr, c)
      BY DEF IsBranch, Branches
    <3> QED BY <1>1, <1>2, <2>2, <3>1
  <2> QED BY <2>1, <2>2
<1>4. PredecessorsIn(new, c) = PredecessorsIn(bs, c)
  BY <1>1, <1>3 DEF PredecessorsIn
<1> QED BY <1>4 DEF new

\* A branch makes its block a predecessor of its targets.
LEMMA PredecessorsGrow ==
  ASSUME NEW bs, IsBlocks(bs), NEW b \in DOMAIN bs, NEW instr, IsBranch(instr), NEW c
  PROVE  PredecessorsIn(Emit(bs, b, instr), c)
           = PredecessorsIn(bs, c) \cup (IF c \in instr.to THEN {b} ELSE {})
<1> DEFINE new == Emit(bs, b, instr)
<1>1. /\ DOMAIN new = DOMAIN bs /\ \A a \in DOMAIN bs : a # b => new[a] = bs[a]
      /\ DOMAIN new[b] = 1..(Len(bs[b]) + 1) /\ new[b][Len(bs[b]) + 1] = instr
      /\ \A i \in DOMAIN bs[b] : new[b][i] = bs[b][i]
  BY EmitProps
<1>2. Len(bs[b]) \in Nat /\ DOMAIN bs[b] = 1..Len(bs[b])
  BY BlocksAreSequences
<1> HIDE DEF new
<1>3. ASSUME NEW a \in DOMAIN bs, a # b
      PROVE  (\E i \in DOMAIN new[a] : Branches(new[a][i], c))
               <=> (\E i \in DOMAIN bs[a] : Branches(bs[a][i], c))
  BY <1>1, <1>3
<1>4. (\E i \in DOMAIN new[b] : Branches(new[b][i], c))
        <=> (c \in instr.to \/ \E i \in DOMAIN bs[b] : Branches(bs[b][i], c))
  <2>1. Branches(instr, c) <=> c \in instr.to
    BY DEF IsBranch, Branches
  <2>2. Len(bs[b]) + 1 \in DOMAIN new[b]
    BY <1>1, <1>2
  <2>3. \A i \in DOMAIN new[b] : i = Len(bs[b]) + 1 \/ i \in DOMAIN bs[b]
    BY <1>1, <1>2
  <2>4. \A i \in DOMAIN bs[b] : i \in DOMAIN new[b]
    BY <1>1, <1>2
  <2> QED BY <1>1, <2>1, <2>2, <2>3, <2>4
<1>5. PredecessorsIn(new, c) = PredecessorsIn(bs, c) \cup (IF c \in instr.to THEN {b} ELSE {})
  <2>1. \A a : a \in PredecessorsIn(new, c)
          <=> a \in DOMAIN bs /\ \E i \in DOMAIN new[a] : Branches(new[a][i], c)
    BY <1>1 DEF PredecessorsIn
  <2>2. \A a : a \in PredecessorsIn(bs, c)
          <=> a \in DOMAIN bs /\ \E i \in DOMAIN bs[a] : Branches(bs[a][i], c)
    BY DEF PredecessorsIn
  <2>3. \A a : a \in PredecessorsIn(new, c)
          <=> a \in PredecessorsIn(bs, c) \/ (a = b /\ c \in instr.to)
    BY <1>3, <1>4, <2>1, <2>2
  <2> QED BY <2>3
<1> QED BY <1>5 DEF new

LEMMA TargetIsReached ==
  ASSUME NEW bs, IsBlocks(bs), NEW b \in DOMAIN bs, NEW instr, IsBranch(instr), NEW c \in instr.to
  PROVE  PredecessorsIn(Emit(bs, b, instr), c) = PredecessorsIn(bs, c) \cup {b}
<1>1. PredecessorsIn(Emit(bs, b, instr), c)
        = PredecessorsIn(bs, c) \cup (IF c \in instr.to THEN {b} ELSE {})
  BY PredecessorsGrow
<1> QED BY <1>1

LEMMA PredecessorsOfCreated ==
  ASSUME NEW bs, IsBlocks(bs), NEW n \in Nat, NEW c
  PROVE  PredecessorsIn(Created(bs, n), c) = PredecessorsIn(bs, c)
<1> DEFINE new == Created(bs, n)
<1>1. /\ DOMAIN new = 1..(Len(bs) + n)
      /\ \A a \in DOMAIN bs : a \in DOMAIN new /\ new[a] = bs[a]
      /\ \A a \in (Len(bs) + 1)..(Len(bs) + n) : new[a] = <<>>
  BY CreatedProps
<1>2. Len(bs) \in Nat /\ DOMAIN bs = 1..Len(bs)
  BY BlocksAreSequences
<1>3. \A a \in DOMAIN new : a \in DOMAIN bs \/ a \in (Len(bs) + 1)..(Len(bs) + n)
  BY <1>1, <1>2
<1>4. DOMAIN <<>> = {}
  OBVIOUS
<1> HIDE DEF new
<1>5. PredecessorsIn(new, c) = PredecessorsIn(bs, c)
  BY <1>1, <1>3, <1>4 DEF PredecessorsIn
<1> QED BY <1>5 DEF new

\* A block that branches lead to exists.
LEMMA NoEdgesToMissing ==
  ASSUME NEW bs, NEW T, EdgesWithin(bs, T), NEW c, c \notin T
  PROVE  PredecessorsIn(bs, c) = {}
BY DEF EdgesWithin, PredecessorsIn, Branches, IsBranch

-----------------------------------------------------------------------------
(***************************************************************************)
(* The invariant.  A call owns the blocks it has created until it leaves   *)
(* them: those it begins later, and the condition of a loop, which can be  *)
(* branched to again.                                                      *)
(***************************************************************************)

Kind(f) == f.node.kind
Width(f) == Len(f.node.kids)
IsLazy(f) == Kind(f) \in {"AND", "OR"}
IsIf(f) == Kind(f) \in {"IF_ELSE", "IF_ELSE_EXPR"}
IsWhile(f) == Kind(f) = "WHILE"

Later(f) ==
  {b \in f.new..(f.new + 2) :
    \/ IsLazy(f) /\ f.next = 3 /\ b = f.new + 1
    \/ IsIf(f) /\ f.next = 2 /\ b = f.new
    \/ IsIf(f) /\ f.next \in {2, 3, 4} /\ b = f.new + 1
    \/ IsIf(f) /\ f.next \in {2, 3} /\ Width(f) = 3 /\ b = f.new + 2
    \/ IsWhile(f) /\ f.next = 2 /\ b = f.new + 1
    \/ IsWhile(f) /\ f.next \in {2, 3} /\ b = f.new + 2}

Again(f) == {b \in {f.new} : IsWhile(f) /\ f.next \in {2, 3}}

Owned(f) == Later(f) \cup Again(f)

Frames ==
  [node : Nodes, path : Seq(Nat), loop : [brk : Nat, cont : Nat], next : Nat,
   new : Nat, val : Seq(Nat), from : Nat]

IsStack(s) ==
  /\ s \in Seq(Frames)
  /\ \A k \in DOMAIN s : s[k].next \in 1..(Width(s[k]) + 1)

OwnedApart(s, len) ==
  /\ \A k \in DOMAIN s : Owned(s[k]) \subseteq 4..len
  /\ \A j, k \in DOMAIN s : j # k => Owned(s[j]) \cap Owned(s[k]) = {}

Pending(s) == UNION {Later(s[k]) : k \in DOMAIN s}

\* While a is being filled, the blocks of P and EXIT are empty and every other
\* block is done.
ShapeOf(bs, a, P) ==
  \A b \in DOMAIN bs :
    IF b = a THEN Open(bs[b])
    ELSE IF b \in P \cup {EXIT} THEN bs[b] = <<>> ELSE Closed(bs[b])

BlockInv ==
  /\ IsBlocks(blocks) /\ EXIT <= Len(blocks) /\ at \in DOMAIN blocks /\ value \in Seq(Nat)
  /\ IsStack(stack) /\ OwnedApart(stack, Len(blocks))
  /\ at \notin Pending(stack)
  /\ at = EXIT => stack = <<>> /\ \A b \in DOMAIN blocks : Closed(blocks[b])
  /\ at # EXIT => ShapeOf(blocks, at, Pending(stack))

\* Break and continue know the blocks of a loop around them.
LoopsAround(s) ==
  \A k \in DOMAIN s :
    \/ s[k].loop = NoLoop
    \/ \E j \in 1..(k - 1) :
         /\ IsWhile(s[j]) /\ s[j].next = 3
         /\ s[k].loop = LoopTargets(s[j].new, s[j].new + 1, s[j].new + 2)

\* The block new + 1 of such a call will begin with a phi, and the blocks that
\* branch to it already.
Joins(f) ==
  \/ IsLazy(f) /\ f.next = 3
  \/ Kind(f) = "IF_ELSE_EXPR" /\ f.next \in {2, 3, 4}

Expected(f) ==
  IF IsLazy(f) THEN {f.from} ELSE IF f.next = 4 THEN {f.new} ELSE {}

ExpectedRight(s, bs) ==
  \A k \in DOMAIN s :
    Joins(s[k]) => PredecessorsIn(bs, s[k].new + 1) = Expected(s[k])

\* An if expression is still in the block that its branch began in.
StraightOn(s, a) ==
  \A k \in DOMAIN s :
    Kind(s[k]) = "IF_ELSE_EXPR" /\ s[k].next \in {3, 4} =>
      /\ a = IF s[k].next = 3 THEN s[k].new ELSE s[k].new + 2
      /\ \A j \in (k + 1)..Len(s) : s[j].node \in Simple

AgainNoPhi(s, bs) == \A k \in DOMAIN s : \A b \in Again(s[k]) : NoPhi(bs[b])

PhiInv ==
  /\ EdgesWithin(blocks, 1..Len(blocks)) /\ PhisRight(blocks)
  /\ AgainNoPhi(stack, blocks) /\ ExpectedRight(stack, blocks)
  /\ LoopsAround(stack) /\ StraightOn(stack, at)

-----------------------------------------------------------------------------
(***************************************************************************)
(* What the steps do to blocks.                                            *)
(***************************************************************************)

LEMMA ShapePlain ==
  ASSUME NEW bs, IsBlocks(bs), NEW a \in DOMAIN bs, NEW P, ShapeOf(bs, a, P),
         NEW instr, instr.op \notin Terminators
  PROVE  ShapeOf(Emit(bs, a, instr), a, P)
<1> DEFINE new == Emit(bs, a, instr)
<1>1. /\ DOMAIN new = DOMAIN bs /\ \A b \in DOMAIN bs : b # a => new[b] = bs[b]
      /\ DOMAIN new[a] = 1..(Len(bs[a]) + 1) /\ new[a][Len(bs[a]) + 1] = instr
      /\ \A i \in DOMAIN bs[a] : new[a][i] = bs[a][i]
  BY EmitProps
<1>2. Len(bs[a]) \in Nat /\ DOMAIN bs[a] = 1..Len(bs[a])
  BY BlocksAreSequences
<1> HIDE DEF new
<1>3. Open(bs[a])
  BY DEF ShapeOf
<1>4. Open(new[a])
  BY <1>1, <1>2, <1>3 DEF Open
<1>5. ShapeOf(new, a, P)
  BY <1>1, <1>4 DEF ShapeOf
<1> QED BY <1>5 DEF new

LEMMA OpenIsClosed ==
  ASSUME NEW bs, IsBlocks(bs), NEW a \in DOMAIN bs, Open(bs[a]),
         NEW instr, instr.op \in Terminators
  PROVE  Closed(Emit(bs, a, instr)[a])
<1> DEFINE new == Emit(bs, a, instr)
<1>1. /\ new[a] # <<>> /\ Len(new[a]) = Len(bs[a]) + 1
      /\ DOMAIN new[a] = 1..(Len(bs[a]) + 1) /\ new[a][Len(bs[a]) + 1] = instr
      /\ \A i \in DOMAIN bs[a] : new[a][i] = bs[a][i]
  BY EmitProps
<1>2. Len(bs[a]) \in Nat /\ DOMAIN bs[a] = 1..Len(bs[a])
  BY BlocksAreSequences
<1> HIDE DEF new
<1>3. Closed(new[a])
  BY <1>1, <1>2 DEF Open, Closed
<1> QED BY <1>3 DEF new

\* 0 is no block: none is being filled.
LEMMA ShapeEnd ==
  ASSUME NEW bs, IsBlocks(bs), NEW a \in DOMAIN bs, NEW P, ShapeOf(bs, a, P),
         a \notin P \cup {EXIT}, NEW instr, instr.op \in Terminators
  PROVE  ShapeOf(Emit(bs, a, instr), 0, P)
<1> DEFINE new == Emit(bs, a, instr)
<1>1. DOMAIN new = DOMAIN bs /\ \A b \in DOMAIN bs : b # a => new[b] = bs[b]
  BY EmitProps
<1>2. Open(bs[a])
  BY DEF ShapeOf
<1>3. Closed(new[a])
  BY <1>2, OpenIsClosed
<1>4. 0 \notin DOMAIN bs
  BY BlocksAreSequences
<1> HIDE DEF new
<1>5. ShapeOf(new, 0, P)
  BY <1>1, <1>3, <1>4 DEF ShapeOf
<1> QED BY <1>5 DEF new

LEMMA ShapeCreated ==
  ASSUME NEW bs, IsBlocks(bs), NEW a \in DOMAIN bs \cup {0}, NEW P, ShapeOf(bs, a, P),
         P \subseteq DOMAIN bs, NEW n \in Nat
  PROVE  ShapeOf(Created(bs, n), a, P \cup ((Len(bs) + 1)..(Len(bs) + n)))
<1> DEFINE new == Created(bs, n)
           more == (Len(bs) + 1)..(Len(bs) + n)
<1>1. /\ DOMAIN new = 1..(Len(bs) + n)
      /\ \A c \in DOMAIN bs : c \in DOMAIN new /\ new[c] = bs[c]
      /\ \A c \in more : new[c] = <<>>
  BY CreatedProps
<1>2. Len(bs) \in Nat /\ DOMAIN bs = 1..Len(bs)
  BY BlocksAreSequences
<1>3. \A c \in DOMAIN new : c \in DOMAIN bs \/ c \in more
  BY <1>1, <1>2
<1>4. \A c \in more : c \notin DOMAIN bs /\ c # a
  BY <1>2
<1> HIDE DEF new, more
<1>5. ShapeOf(new, a, P \cup more)
  BY <1>1, <1>3, <1>4 DEF ShapeOf
<1> QED BY <1>5 DEF new, more

LEMMA ShapeBegin ==
  ASSUME NEW bs, IsBlocks(bs), NEW P, ShapeOf(bs, 0, P), NEW c \in P \cup {EXIT}, NEW Q, Q = P \ {c}, c # 0
  PROVE  ShapeOf(bs, c, Q)
<1>1. Open(<<>>)
  BY DEF Open
<1>2. ASSUME NEW b \in DOMAIN bs
      PROVE  IF b = c THEN Open(bs[b])
             ELSE IF b \in Q \cup {EXIT} THEN bs[b] = <<>> ELSE Closed(bs[b])
  <2>1. b # 0
    BY BlocksAreSequences
  <2>2. IF b \in P \cup {EXIT} THEN bs[b] = <<>> ELSE Closed(bs[b])
    BY <2>1 DEF ShapeOf
  <2> QED BY <1>1, <2>2
<1> QED BY <1>2 DEF ShapeOf

LEMMA PhisPlain ==
  ASSUME NEW bs, IsBlocks(bs), NEW a \in DOMAIN bs, PhisRight(bs), NEW T, EdgesWithin(bs, T),
         NEW instr, ~ IsBranch(instr),
         instr.op = "phi" => Sources(instr) = PredecessorsIn(bs, a)
  PROVE  PhisRight(Emit(bs, a, instr)) /\ EdgesWithin(Emit(bs, a, instr), T)
<1> DEFINE new == Emit(bs, a, instr)
<1>1. /\ DOMAIN new = DOMAIN bs /\ \A b \in DOMAIN bs : b # a => new[b] = bs[b]
      /\ DOMAIN new[a] = 1..(Len(bs[a]) + 1) /\ new[a][Len(bs[a]) + 1] = instr
      /\ \A i \in DOMAIN bs[a] : new[a][i] = bs[a][i]
  BY EmitProps
<1>2. Len(bs[a]) \in Nat /\ DOMAIN bs[a] = 1..Len(bs[a])
  BY BlocksAreSequences
<1>3. \A c : PredecessorsIn(new, c) = PredecessorsIn(bs, c)
  BY PredecessorsStay
<1> HIDE DEF new
<1>4. \A i \in DOMAIN new[a] : new[a][i] = instr \/ (i \in DOMAIN bs[a] /\ new[a][i] = bs[a][i])
  BY <1>1, <1>2
<1>5. PhisRight(new)
  BY <1>1, <1>3, <1>4 DEF PhisRight
<1>6. EdgesWithin(new, T)
  BY <1>1, <1>4 DEF EdgesWithin
<1> QED BY <1>5, <1>6 DEF new

\* A new branch harms no phi if no block it leads to has one.
LEMMA PhisBranch ==
  ASSUME NEW bs, IsBlocks(bs), NEW a \in DOMAIN bs, PhisRight(bs), NEW T, EdgesWithin(bs, T),
         NEW instr, IsBranch(instr), instr.to \subseteq T,
         \A c \in instr.to : c \in DOMAIN bs => NoPhi(bs[c])
  PROVE  PhisRight(Emit(bs, a, instr)) /\ EdgesWithin(Emit(bs, a, instr), T)
<1> DEFINE new == Emit(bs, a, instr)
<1>1. /\ DOMAIN new = DOMAIN bs /\ \A b \in DOMAIN bs : b # a => new[b] = bs[b]
      /\ DOMAIN new[a] = 1..(Len(bs[a]) + 1) /\ new[a][Len(bs[a]) + 1] = instr
      /\ \A i \in DOMAIN bs[a] : new[a][i] = bs[a][i]
  BY EmitProps
<1>2. Len(bs[a]) \in Nat /\ DOMAIN bs[a] = 1..Len(bs[a])
  BY BlocksAreSequences
<1>3. \A c : c \notin instr.to => PredecessorsIn(new, c) = PredecessorsIn(bs, c)
  <2>1. ASSUME NEW c, c \notin instr.to
        PROVE  PredecessorsIn(new, c) = PredecessorsIn(bs, c)
    <3>1. PredecessorsIn(new, c)
            = PredecessorsIn(bs, c) \cup (IF c \in instr.to THEN {a} ELSE {})
      BY PredecessorsGrow
    <3> HIDE DEF new
    <3> QED BY <2>1, <3>1
  <2> QED BY <2>1
<1> HIDE DEF new
<1>4. \A i \in DOMAIN new[a] : new[a][i] = instr \/ (i \in DOMAIN bs[a] /\ new[a][i] = bs[a][i])
  BY <1>1, <1>2
<1>5. PhisRight(new)
  <2> SUFFICES ASSUME NEW b \in DOMAIN new, NEW i \in DOMAIN new[b], new[b][i].op = "phi"
               PROVE  Sources(new[b][i]) = PredecessorsIn(new, b)
    BY DEF PhisRight
  <2>1. instr.op # "phi"
    BY DEF IsBranch
  <2>2. b \in DOMAIN bs /\ i \in DOMAIN bs[b] /\ new[b][i] = bs[b][i]
    BY <1>1, <1>4, <2>1
  <2>3. b \notin instr.to
    BY <2>2 DEF NoPhi
  <2>4. Sources(bs[b][i]) = PredecessorsIn(bs, b)
    BY <2>2 DEF PhisRight
  <2> QED BY <1>3, <2>2, <2>3, <2>4
<1>6. EdgesWithin(new, T)
  BY <1>1, <1>4 DEF EdgesWithin
<1> QED BY <1>5, <1>6 DEF new

LEMMA PhisCreated ==
  ASSUME NEW bs, IsBlocks(bs), PhisRight(bs), NEW T, EdgesWithin(bs, T), NEW n \in Nat
  PROVE  PhisRight(Created(bs, n)) /\ EdgesWithin(Created(bs, n), T)
<1> DEFINE new == Created(bs, n)
<1>1. /\ DOMAIN new = 1..(Len(bs) + n)
      /\ \A c \in DOMAIN bs : c \in DOMAIN new /\ new[c] = bs[c]
      /\ \A c \in (Len(bs) + 1)..(Len(bs) + n) : new[c] = <<>>
  BY CreatedProps
<1>2. Len(bs) \in Nat /\ DOMAIN bs = 1..Len(bs)
  BY BlocksAreSequences
<1>3. \A c \in DOMAIN new : c \in DOMAIN bs \/ new[c] = <<>>
  BY <1>1, <1>2
<1>4. \A c : PredecessorsIn(new, c) = PredecessorsIn(bs, c)
  BY PredecessorsOfCreated
<1>5. DOMAIN <<>> = {}
  OBVIOUS
<1> HIDE DEF new
<1>6. PhisRight(new)
  BY <1>1, <1>3, <1>4, <1>5 DEF PhisRight
<1>7. EdgesWithin(new, T)
  BY <1>1, <1>3, <1>5 DEF EdgesWithin
<1> QED BY <1>6, <1>7 DEF new

LEMMA EdgesWiden ==
  ASSUME NEW bs, NEW S, NEW T, S \subseteq T, EdgesWithin(bs, S)
  PROVE  EdgesWithin(bs, T)
BY DEF EdgesWithin

-----------------------------------------------------------------------------
(***************************************************************************)
(* What the steps do to the stack.                                         *)
(***************************************************************************)

Loops == [brk : Nat, cont : Nat]

LEMMA StackProps ==
  ASSUME IsStack(stack), stack # <<>>
  PROVE  /\ Len(stack) \in Nat \ {0} /\ DOMAIN stack = 1..Len(stack)
         /\ Len(stack) \in DOMAIN stack
         /\ Top \in Frames /\ Top.next \in 1..(Width(Top) + 1)
         /\ \A k \in DOMAIN stack : stack[k] \in Frames
         /\ Top.node \in Nodes /\ Top.path \in Seq(Nat) /\ Top.loop \in Loops
         /\ Top.new \in Nat /\ Top.val \in Seq(Nat) /\ Top.from \in Nat
         /\ Width(Top) \in Nat
<1>1. stack \in Seq(Frames) /\ \A k \in DOMAIN stack : stack[k].next \in 1..(Width(stack[k]) + 1)
  BY DEF IsStack
<1>2. /\ Len(stack) \in Nat \ {0} /\ DOMAIN stack = 1..Len(stack)
      /\ Len(stack) \in DOMAIN stack
      /\ \A k \in DOMAIN stack : stack[k] \in Frames
  BY <1>1
<1>3. Top \in Frames /\ Top.next \in 1..(Width(Top) + 1)
  BY <1>1, <1>2 DEF Top
<1>4. /\ Top.node \in Nodes /\ Top.path \in Seq(Nat) /\ Top.loop \in Loops
      /\ Top.new \in Nat /\ Top.val \in Seq(Nat) /\ Top.from \in Nat
  BY <1>3 DEF Frames, Loops
<1>5. Width(Top) \in Nat
  BY <1>4, TreesAssumption DEF Width
<1> QED BY <1>2, <1>3, <1>4, <1>5

LEMMA FrameWithNew ==
  ASSUME NEW f \in Frames, NEW new \in Nat
  PROVE  LET g == [f EXCEPT !.new = new]
         IN  /\ g \in Frames /\ g.node = f.node /\ g.next = f.next /\ g.loop = f.loop
             /\ g.new = new
BY DEF Frames

LEMMA FrameWithVal ==
  ASSUME NEW f \in Frames, NEW val \in Seq(Nat)
  PROVE  LET g == [f EXCEPT !.val = val]
         IN  /\ g \in Frames /\ g.node = f.node /\ g.next = f.next /\ g.loop = f.loop
             /\ g.new = f.new
BY DEF Frames

LEMMA FrameWithNext ==
  ASSUME NEW f \in Frames, NEW next \in Nat
  PROVE  LET g == [f EXCEPT !.next = next]
         IN  /\ g \in Frames /\ g.node = f.node /\ g.next = next /\ g.loop = f.loop
             /\ g.new = f.new /\ g.from = f.from
BY DEF Frames

LEMMA KidsAre ==
  ASSUME NEW f, f.node \in Nodes
  PROVE  /\ Width(f) \in Nat
         /\ Kind(f) = "RETURN" => Width(f) = 1
         /\ Kind(f) \in {"AND", "OR", "WHILE"} => Width(f) = 2
         /\ Kind(f) = "IF_ELSE" => Width(f) \in {2, 3}
         /\ Kind(f) = "IF_ELSE_EXPR" => Width(f) = 3
         /\ HasKid(f.node, 3) <=> 3 <= Width(f)
         /\ \A i : HasKid(f.node, i) <=> i \in 1..Width(f)
<1> DEFINE n == f.node
<1> HIDE DEF n
<1>1. n \in Nodes /\ Width(f) = Len(n.kids) /\ Kind(f) = n.kind
  BY DEF n, Width, Kind
<1>2. n.kids \in Seq(Nodes) /\ Len(n.kids) \in Arity(n.kind)
  BY <1>1, TreesAssumption
<1>3. Width(f) \in Arity(Kind(f))
  BY <1>1, <1>2
<1>4. Width(f) \in Nat /\ DOMAIN n.kids = 1..Width(f)
  BY <1>1, <1>2
<1>5. /\ HasKid(n, 3) <=> 3 <= Width(f)
      /\ \A i : HasKid(n, i) <=> i \in 1..Width(f)
  BY <1>4 DEF HasKid
<1>6. /\ Kind(f) = "RETURN" => Width(f) = 1
      /\ Kind(f) \in {"AND", "OR", "WHILE"} => Width(f) = 2
      /\ Kind(f) = "IF_ELSE" => Width(f) \in {2, 3}
      /\ Kind(f) = "IF_ELSE_EXPR" => Width(f) = 3
  BY <1>3 DEF Arity
<1> QED BY <1>4, <1>5, <1>6 DEF n

LEMMA KidIsNode ==
  ASSUME NEW f, f.node \in Nodes, NEW i \in 1..Width(f)
  PROVE  Kid(f.node, i) \in Nodes
<1> DEFINE n == f.node
<1> HIDE DEF n
<1>1. n.kids \in Seq(Nodes) /\ i \in 1..Len(n.kids)
  BY TreesAssumption DEF n, Width
<1>2. Kid(n, i) \in Nodes
  BY <1>1 DEF Kid
<1> QED BY <1>2 DEF n

LEMMA SameNode ==
  ASSUME NEW f, NEW g, g.node = f.node
  PROVE  Kind(g) = Kind(f) /\ Width(g) = Width(f)
BY DEF Kind, Width

\* The calls below the last are the same.
SameBelow(s, t) == \A k \in 1..(Len(s) - 1) : t[k] = s[k]

LEMMA DescendProps ==
  ASSUME IsStack(stack), stack # <<>>, NEW f \in Frames, NEW loop \in Loops,
         f.next \in 1..Width(f), Descend(f, loop)
  PROVE  LET n == Len(stack)
         IN  /\ IsStack(stack') /\ stack' # <<>>
             /\ Len(stack') = n + 1 /\ DOMAIN stack' = 1..(n + 1)
             /\ SameBelow(stack, stack')
             /\ stack'[n].node = f.node /\ stack'[n].next = f.next + 1
             /\ Kind(stack'[n]) = Kind(f) /\ Width(stack'[n]) = Width(f)
             /\ stack'[n].new = f.new /\ stack'[n].from = f.from /\ stack'[n].loop = f.loop
             /\ stack'[n + 1].node = Kid(f.node, f.next)
             /\ stack'[n + 1].next = 1 /\ stack'[n + 1].loop = loop
<1> DEFINE n == Len(stack)
           g == [f EXCEPT !.next = f.next + 1]
           h == Frame(Kid(f.node, f.next), Append(f.path, f.next), loop)
<1>1. stack \in Seq(Frames) /\ \A k \in DOMAIN stack : stack[k].next \in 1..(Width(stack[k]) + 1)
  BY DEF IsStack
<1>2. n \in Nat \ {0} /\ DOMAIN stack = 1..n
  BY StackProps
<1>3. /\ f.node \in Nodes /\ f.path \in Seq(Nat) /\ f.loop \in Loops
      /\ f.new \in Nat /\ f.val \in Seq(Nat) /\ f.from \in Nat /\ f.next \in Nat
  BY DEF Frames, Loops
<1>4. Kid(f.node, f.next) \in Nodes
  BY <1>3, KidIsNode
<1>5. /\ g \in Frames /\ g.node = f.node /\ g.next = f.next + 1
      /\ g.new = f.new /\ g.from = f.from /\ g.loop = f.loop
  <2>1. f.next + 1 \in Nat
    BY <1>3
  <2> QED BY <2>1, FrameWithNext, Zenon
<1>6. Append(f.path, f.next) \in Seq(Nat)
  BY <1>3
<1>7. VOID \in Seq(Nat)
  BY DEF VOID
<1>8. h \in Frames /\ h.node = Kid(f.node, f.next) /\ h.next = 1 /\ h.loop = loop
  BY <1>4, <1>6, <1>7 DEF Frames, Frame, Loops
<1>9. stack' = Append([stack EXCEPT ![n] = g], h)
  BY DEF Descend
<1>10. Width(h) \in Nat /\ Width(g) = Width(f) /\ Width(f) \in Nat
  BY <1>3, <1>4, <1>5, <1>8, KidsAre, SameNode
<1> HIDE DEF g, h, n
<1>11. [stack EXCEPT ![n] = g] \in Seq(Frames) /\ Len([stack EXCEPT ![n] = g]) = n
  BY <1>1, <1>2, <1>5 DEF n
<1>12. /\ stack' \in Seq(Frames) /\ Len(stack') = n + 1 /\ DOMAIN stack' = 1..(n + 1)
       /\ \A k \in 1..(n - 1) : stack'[k] = stack[k]
       /\ stack'[n] = g /\ stack'[n + 1] = h
  BY <1>1, <1>2, <1>8, <1>9, <1>11
<1>13. \A k \in 1..(n + 1) : k \in 1..(n - 1) \/ k = n \/ k = n + 1
  BY <1>2
<1>14. IsStack(stack')
  <2>1. ASSUME NEW k \in DOMAIN stack'
        PROVE  stack'[k].next \in 1..(Width(stack'[k]) + 1)
    <3>1. CASE k \in 1..(n - 1)
      <4>1. k \in DOMAIN stack
        BY <1>2, <3>1
      <4> QED BY <1>1, <1>12, <3>1, <4>1
    <3>2. CASE k = n
      BY <1>3, <1>5, <1>10, <1>12, <3>2
    <3>3. CASE k = n + 1
      BY <1>8, <1>10, <1>12, <3>3
    <3> QED BY <1>12, <1>13, <2>1, <3>1, <3>2, <3>3
  <2> QED BY <1>12, <2>1 DEF IsStack
<1>15. stack' # <<>>
  BY <1>2, <1>12
<1>16. Kind(stack'[n]) = Kind(f) /\ Width(stack'[n]) = Width(f)
  BY <1>5, <1>12, SameNode
<1> QED BY <1>5, <1>8, <1>12, <1>14, <1>15, <1>16 DEF SameBelow, n

LEMMA LeaveProps ==
  ASSUME IsStack(stack), stack # <<>>, NEW v, Leave(v)
  PROVE  /\ IsStack(stack') /\ Len(stack') = Len(stack) - 1
         /\ DOMAIN stack' = 1..(Len(stack) - 1) /\ SameBelow(stack, stack')
<1> DEFINE n == Len(stack)
<1>1. stack \in Seq(Frames) /\ \A k \in DOMAIN stack : stack[k].next \in 1..(Width(stack[k]) + 1)
  BY DEF IsStack
<1>2. n \in Nat \ {0} /\ DOMAIN stack = 1..n
  BY StackProps
<1>3. stack' = SubSeq(stack, 1, n - 1)
  BY DEF Leave
<1> HIDE DEF n
<1>4. /\ stack' \in Seq(Frames) /\ Len(stack') = n - 1 /\ DOMAIN stack' = 1..(n - 1)
      /\ \A k \in 1..(n - 1) : stack'[k] = stack[k]
  BY <1>1, <1>2, <1>3
<1>5. IsStack(stack')
  BY <1>1, <1>2, <1>4 DEF IsStack
<1> QED BY <1>4, <1>5 DEF SameBelow, n

-----------------------------------------------------------------------------
(***************************************************************************)
(* Which blocks a call owns.                                               *)
(***************************************************************************)

LEMMA OwnedByLazy ==
  ASSUME NEW f, IsLazy(f), f.new \in Nat
  PROVE  Later(f) = (IF f.next = 3 THEN {f.new + 1} ELSE {}) /\ Again(f) = {}
BY DEF Later, Again, IsLazy, IsIf, IsWhile

LEMMA OwnedByIf ==
  ASSUME NEW f, IsIf(f), f.new \in Nat
  PROVE  /\ Later(f) = (IF f.next = 2 THEN {f.new} ELSE {})
                       \cup (IF f.next \in {2, 3, 4} THEN {f.new + 1} ELSE {})
                       \cup (IF f.next \in {2, 3} /\ Width(f) = 3 THEN {f.new + 2} ELSE {})
         /\ Again(f) = {}
BY DEF Later, Again, IsLazy, IsIf, IsWhile

LEMMA OwnedByWhile ==
  ASSUME NEW f, IsWhile(f), f.new \in Nat
  PROVE  /\ Later(f) = (IF f.next = 2 THEN {f.new + 1} ELSE {})
                       \cup (IF f.next \in {2, 3} THEN {f.new + 2} ELSE {})
         /\ Again(f) = IF f.next \in {2, 3} THEN {f.new} ELSE {}
BY DEF Later, Again, IsLazy, IsIf, IsWhile

LEMMA OwnedByOthers ==
  ASSUME NEW f, ~ IsLazy(f), ~ IsIf(f), ~ IsWhile(f)
  PROVE  Later(f) = {} /\ Again(f) = {}
BY DEF Later, Again

LEMMA OwnedAtFirst ==
  ASSUME NEW f, f.next = 1
  PROVE  Later(f) = {} /\ Again(f) = {}
BY DEF Later, Again

\* The last call keeps or gives up blocks that it owns, or takes new ones.
LEMMA OwnedAfterDescend ==
  ASSUME NEW s, NEW n \in Nat \ {0}, DOMAIN s = 1..n, Len(s) = n,
         NEW t, DOMAIN t = 1..(n + 1), SameBelow(s, t), t[n + 1].next = 1,
         NEW len \in Nat, NEW more \in Nat, 3 <= len, len <= more,
         OwnedApart(s, len), Owned(t[n]) \subseteq Owned(s[n]) \cup ((len + 1)..more)
  PROVE  /\ OwnedApart(t, more)
         /\ Pending(t) = (Pending(s) \ Later(s[n])) \cup Later(t[n])
<1>1. \A k \in 1..(n + 1) : (k \in 1..(n - 1) /\ t[k] = s[k]) \/ k = n \/ k = n + 1
  BY DEF SameBelow
<1>2. Owned(t[n + 1]) = {} /\ Later(t[n + 1]) = {}
  BY OwnedAtFirst DEF Owned
<1>3. \A k \in DOMAIN s : Owned(s[k]) \subseteq 4..len
  BY DEF OwnedApart
<1>4. \A j, k \in DOMAIN s : j # k => Owned(s[j]) \cap Owned(s[k]) = {}
  BY DEF OwnedApart
<1>5. 1..(n - 1) \subseteq DOMAIN s /\ n \in DOMAIN s /\ n \notin 1..(n - 1)
  OBVIOUS
<1>6. \A k \in DOMAIN t : Owned(t[k]) \subseteq 4..more
  <2>1. 4..len \subseteq 4..more /\ (len + 1)..more \subseteq 4..more
    OBVIOUS
  <2> QED BY <1>1, <1>2, <1>3, <1>5, <2>1
<1>7. ((len + 1)..more) \cap (4..len) = {}
  OBVIOUS
<1>8. ASSUME NEW j \in DOMAIN t, NEW k \in DOMAIN t, j # k
      PROVE  Owned(t[j]) \cap Owned(t[k]) = {}
  <2>1. \A i \in 1..(n - 1) : Owned(s[i]) \cap Owned(t[n]) = {}
    BY <1>3, <1>4, <1>5, <1>7
  <2>2. CASE j = n + 1 \/ k = n + 1
    BY <1>2, <2>2
  <2>3. CASE j = n /\ k \in 1..(n - 1)
    BY <1>1, <1>8, <2>1, <2>3 DEF SameBelow
  <2>4. CASE k = n /\ j \in 1..(n - 1)
    BY <1>1, <1>8, <2>1, <2>4 DEF SameBelow
  <2>5. CASE j \in 1..(n - 1) /\ k \in 1..(n - 1)
    BY <1>4, <1>5, <1>8, <2>5 DEF SameBelow
  <2> QED BY <1>1, <1>8, <2>2, <2>3, <2>4, <2>5
<1>9. Pending(t) = (Pending(s) \ Later(s[n])) \cup Later(t[n])
  <2>1. \A k \in 1..(n - 1) : t[k] = s[k] /\ Later(s[k]) \cap Later(s[n]) = {}
    BY <1>4, <1>5 DEF SameBelow, Owned
  <2>2. \A k \in DOMAIN s : k \in 1..(n - 1) \/ k = n
    OBVIOUS
  <2>3. \A k \in DOMAIN t : k \in 1..(n - 1) \/ k = n \/ k = n + 1
    OBVIOUS
  <2>4. 1..(n - 1) \subseteq DOMAIN t /\ n \in DOMAIN t
    OBVIOUS
  <2>5. ASSUME NEW b, b \in Pending(t)
        PROVE  b \in (Pending(s) \ Later(s[n])) \cup Later(t[n])
    <3>1. PICK k \in DOMAIN t : b \in Later(t[k])
      BY <2>5 DEF Pending
    <3>2. CASE k \in 1..(n - 1)
      <4>1. b \in Later(s[k]) /\ b \notin Later(s[n]) /\ k \in DOMAIN s
        BY <1>5, <2>1, <3>1, <3>2
      <4> QED BY <4>1 DEF Pending
    <3>3. CASE k = n
      BY <3>1, <3>3
    <3>4. CASE k = n + 1
      BY <1>2, <3>1, <3>4
    <3> QED BY <2>3, <3>2, <3>3, <3>4
  <2>6. ASSUME NEW b, b \in (Pending(s) \ Later(s[n])) \cup Later(t[n])
        PROVE  b \in Pending(t)
    <3>1. CASE b \in Later(t[n])
      BY <2>4, <3>1 DEF Pending
    <3>2. CASE b \in Pending(s) /\ b \notin Later(s[n])
      <4>1. PICK k \in DOMAIN s : b \in Later(s[k])
        BY <3>2 DEF Pending
      <4>2. k \in 1..(n - 1)
        BY <2>2, <3>2, <4>1
      <4>3. k \in DOMAIN t /\ b \in Later(t[k])
        BY <2>1, <2>4, <4>1, <4>2
      <4> QED BY <4>3 DEF Pending
    <3> QED BY <2>6, <3>1, <3>2
  <2> QED BY <2>5, <2>6
<1> QED BY <1>6, <1>8, <1>9 DEF OwnedApart

LEMMA OwnedAfterLeave ==
  ASSUME NEW s, NEW n \in Nat \ {0}, DOMAIN s = 1..n, Len(s) = n,
         NEW t, DOMAIN t = 1..(n - 1), SameBelow(s, t),
         NEW len \in Nat, NEW more \in Nat, len <= more, OwnedApart(s, len)
  PROVE  OwnedApart(t, more) /\ Pending(t) = Pending(s) \ Later(s[n])
<1>1. \A k \in DOMAIN t : k \in DOMAIN s /\ k # n /\ t[k] = s[k]
  BY DEF SameBelow
<1>2. \A k \in DOMAIN s : k \in DOMAIN t \/ k = n
  OBVIOUS
<1>3. OwnedApart(t, more)
  <2>1. 4..len \subseteq 4..more
    OBVIOUS
  <2> QED BY <1>1, <2>1 DEF OwnedApart
<1>4. \A k \in DOMAIN t : Later(s[k]) \cap Later(s[n]) = {}
  <2>1. n \in DOMAIN s
    OBVIOUS
  <2> QED BY <1>1, <2>1 DEF OwnedApart, Owned
<1>5. ASSUME NEW b
      PROVE  b \in Pending(t) <=> b \in Pending(s) \ Later(s[n])
  <2>1. b \in Pending(t) <=> \E k \in DOMAIN t : b \in Later(s[k])
    BY <1>1 DEF Pending
  <2>2. b \in Pending(s) <=> \E k \in DOMAIN s : b \in Later(s[k])
    BY DEF Pending
  <2> QED BY <1>1, <1>2, <1>4, <2>1, <2>2
<1> QED BY <1>3, <1>5

-----------------------------------------------------------------------------
(***************************************************************************)
(* Every step preserves BlockInv.                                          *)
(***************************************************************************)

Rest == Pending(stack) \ Later(Top)

LEMMA BlockFacts ==
  ASSUME BlockInv, stack # <<>>
  PROVE  /\ IsBlocks(blocks) /\ Len(blocks) \in Nat /\ 3 <= Len(blocks)
         /\ DOMAIN blocks = 1..Len(blocks)
         /\ at \in DOMAIN blocks /\ at # EXIT /\ at \notin Pending(stack)
         /\ at \notin Pending(stack) \cup {EXIT}
         /\ value \in Seq(Nat) /\ IsStack(stack) /\ OwnedApart(stack, Len(blocks))
         /\ ShapeOf(blocks, at, Pending(stack))
         /\ Pending(stack) \subseteq 4..Len(blocks)
         /\ Owned(Top) \subseteq 4..Len(blocks)
         /\ Later(Top) \subseteq Pending(stack) /\ Later(Top) \subseteq Owned(Top)
         /\ Pending(stack) = Rest \cup Later(Top)
<1>1. /\ IsBlocks(blocks) /\ EXIT <= Len(blocks) /\ at \in DOMAIN blocks /\ at # EXIT
      /\ at \notin Pending(stack) /\ value \in Seq(Nat)
      /\ IsStack(stack) /\ OwnedApart(stack, Len(blocks))
      /\ ShapeOf(blocks, at, Pending(stack))
  BY DEF BlockInv
<1>2. Len(blocks) \in Nat /\ 3 <= Len(blocks) /\ DOMAIN blocks = 1..Len(blocks)
  BY <1>1, BlocksAreSequences DEF EXIT
<1>3. \A k \in DOMAIN stack : Owned(stack[k]) \subseteq 4..Len(blocks)
  BY <1>1 DEF OwnedApart
<1>4. Pending(stack) \subseteq 4..Len(blocks)
  BY <1>3 DEF Pending, Owned
<1>5. Len(stack) \in DOMAIN stack /\ Top = stack[Len(stack)]
  BY <1>1, StackProps DEF Top
<1>6. Later(Top) \subseteq Pending(stack)
  BY <1>5 DEF Pending
<1>7. Owned(Top) \subseteq 4..Len(blocks)
  BY <1>3, <1>5
<1>8. Later(Top) \subseteq Owned(Top)
  BY DEF Owned
<1> QED BY <1>1, <1>2, <1>4, <1>6, <1>7, <1>8 DEF Rest

LEMMA BlockDescend ==
  ASSUME BlockInv, stack # <<>>, NEW f \in Frames, NEW loop \in Loops,
         f.next \in 1..Width(f), Descend(f, loop),
         IsBlocks(blocks'), Len(blocks) <= Len(blocks'), at' \in DOMAIN blocks', at' # EXIT,
         NEW L, L = Later(stack'[Len(stack)]),
         L \cup Again(stack'[Len(stack)])
           \subseteq Owned(Top) \cup ((Len(blocks) + 1)..Len(blocks')),
         at' \notin Rest \cup L, ShapeOf(blocks', at', Rest \cup L)
  PROVE  BlockInv'
<1>1. /\ Len(blocks) \in Nat /\ 3 <= Len(blocks) /\ IsStack(stack)
      /\ OwnedApart(stack, Len(blocks)) /\ value \in Seq(Nat)
  BY BlockFacts
<1>2. Len(blocks') \in Nat
  BY BlocksAreSequences
<1>3. Len(stack) \in Nat \ {0} /\ DOMAIN stack = 1..Len(stack)
  BY <1>1, StackProps
<1>4. /\ IsStack(stack') /\ stack' # <<>>
      /\ DOMAIN stack' = 1..(Len(stack) + 1)
      /\ SameBelow(stack, stack') /\ stack'[Len(stack) + 1].next = 1
  BY <1>1, DescendProps
<1>5. Owned(stack'[Len(stack)]) \subseteq Owned(stack[Len(stack)]) \cup ((Len(blocks) + 1)..Len(blocks'))
  BY DEF Owned, Top
<1>6. OwnedApart(stack', Len(blocks')) /\ Pending(stack') = Rest \cup L
  <2>1. /\ OwnedApart(stack', Len(blocks'))
        /\ Pending(stack') = (Pending(stack) \ Later(stack[Len(stack)])) \cup Later(stack'[Len(stack)])
    BY <1>1, <1>2, <1>3, <1>4, <1>5, OwnedAfterDescend
  <2> QED BY <2>1 DEF Rest, Top
<1>7. value' = value
  BY DEF Descend
<1>8. EXIT <= Len(blocks')
  BY <1>1, <1>2 DEF EXIT
<1> QED BY <1>1, <1>4, <1>6, <1>7, <1>8 DEF BlockInv

LEMMA BlockLeave ==
  ASSUME BlockInv, stack # <<>>, NEW v \in Seq(Nat), Leave(v),
         IsBlocks(blocks'), Len(blocks) <= Len(blocks'), at' \in DOMAIN blocks', at' # EXIT,
         at' \notin Rest, ShapeOf(blocks', at', Rest)
  PROVE  BlockInv'
<1>1. /\ Len(blocks) \in Nat /\ 3 <= Len(blocks) /\ IsStack(stack)
      /\ OwnedApart(stack, Len(blocks))
  BY BlockFacts
<1>2. Len(blocks') \in Nat
  BY BlocksAreSequences
<1>3. Len(stack) \in Nat \ {0} /\ DOMAIN stack = 1..Len(stack)
  BY <1>1, StackProps
<1>4. /\ IsStack(stack') /\ DOMAIN stack' = 1..(Len(stack) - 1) /\ SameBelow(stack, stack')
  BY <1>1, LeaveProps
<1>5. OwnedApart(stack', Len(blocks')) /\ Pending(stack') = Rest
  BY <1>1, <1>2, <1>3, <1>4, OwnedAfterLeave DEF Rest, Top
<1>6. value' \in Seq(Nat)
  BY DEF Leave
<1>7. EXIT <= Len(blocks')
  BY <1>1, <1>2 DEF EXIT
<1> QED BY <1>1, <1>4, <1>5, <1>6, <1>7 DEF BlockInv

\* The block at hand is ended, and n blocks are created.
LEMMA EndAndCreate ==
  ASSUME NEW bs, IsBlocks(bs), NEW a \in DOMAIN bs, NEW P, ShapeOf(bs, a, P),
         a \notin P \cup {EXIT}, P \subseteq DOMAIN bs,
         NEW instr, instr.op \in Terminators, NEW n \in Nat
  PROVE  LET new == Created(Emit(bs, a, instr), n)
         IN  /\ IsBlocks(new) /\ Len(new) = Len(bs) + n /\ DOMAIN new = 1..(Len(bs) + n)
             /\ ShapeOf(new, 0, P \cup ((Len(bs) + 1)..(Len(bs) + n)))
<1> DEFINE mid == Emit(bs, a, instr)
<1>1. IsBlocks(mid) /\ Len(mid) = Len(bs) /\ DOMAIN mid = DOMAIN bs
  BY EmitProps
<1>2. ShapeOf(mid, 0, P)
  BY ShapeEnd
<1> HIDE DEF mid
<1>3. /\ IsBlocks(Created(mid, n)) /\ Len(Created(mid, n)) = Len(bs) + n
      /\ DOMAIN Created(mid, n) = 1..(Len(bs) + n)
  BY <1>1, CreatedProps
<1>4. ShapeOf(Created(mid, n), 0, P \cup ((Len(mid) + 1)..(Len(mid) + n)))
  BY <1>1, <1>2, ShapeCreated
<1> QED BY <1>1, <1>3, <1>4 DEF mid

\* The block at hand is ended, and one that waits is begun.
LEMMA EndAndBegin ==
  ASSUME NEW bs, IsBlocks(bs), NEW a \in DOMAIN bs, NEW P, ShapeOf(bs, a, P),
         a \notin P \cup {EXIT}, P \subseteq DOMAIN bs,
         NEW instr, instr.op \in Terminators, NEW c \in P, NEW Q, Q = P \ {c}
  PROVE  LET new == Emit(bs, a, instr)
         IN  /\ IsBlocks(new) /\ Len(new) = Len(bs) /\ DOMAIN new = DOMAIN bs
             /\ ShapeOf(new, c, Q)
<1> DEFINE new == Emit(bs, a, instr)
<1>1. IsBlocks(new) /\ Len(new) = Len(bs) /\ DOMAIN new = DOMAIN bs
  BY EmitProps
<1>2. ShapeOf(new, 0, P)
  BY ShapeEnd
<1>3. c # 0
  <2>1. DOMAIN bs = 1..Len(bs) /\ Len(bs) \in Nat
    BY BlocksAreSequences
  <2> QED BY <2>1
<1> HIDE DEF new
<1>4. ShapeOf(new, c, Q)
  BY <1>1, <1>2, <1>3, ShapeBegin
<1> QED BY <1>1, <1>4 DEF new

LEMMA BrIs ==
  ASSUME NEW b
  PROVE  Br(b).op \in Terminators /\ IsBranch(Br(b)) /\ Br(b).to = {b}
BY DEF Br, Terminators, IsBranch

LEMMA CondBrIs ==
  ASSUME NEW v, NEW yes, NEW no
  PROVE  /\ CondBr(v, yes, no).op \in Terminators /\ IsBranch(CondBr(v, yes, no))
         /\ CondBr(v, yes, no).to = {yes, no}
BY DEF CondBr, Terminators, IsBranch

LEMMA PhiIs ==
  ASSUME NEW dst, NEW in
  PROVE  /\ Phi(dst, in).op = "phi" /\ Phi(dst, in).op \notin Terminators
         /\ ~ IsBranch(Phi(dst, in)) /\ Sources(Phi(dst, in)) = DOMAIN in
BY DEF Phi, Terminators, IsBranch, Sources

LEMMA GenCallKeeps == BlockInv /\ GenCall => BlockInv'
<1> SUFFICES ASSUME BlockInv, GenCall PROVE BlockInv'
  OBVIOUS
<1> DEFINE call == [op |-> "call", dst |-> Top.path]
<1>1. stack # <<>> /\ blocks' = Emit(blocks, at, call) /\ Leave(Top.path) /\ at' = at
      /\ Kind(Top) = "CALL"
  BY DEF GenCall, Is, Kind
<1>2. /\ IsBlocks(blocks) /\ at \in DOMAIN blocks /\ at # EXIT /\ at \notin Pending(stack)
      /\ ShapeOf(blocks, at, Pending(stack)) /\ IsStack(stack) /\ Len(blocks) \in Nat
  BY <1>1, BlockFacts
<1>3. call.op \notin Terminators
  BY DEF Terminators
<1> HIDE DEF call
<1>4. IsBlocks(blocks') /\ Len(blocks') = Len(blocks) /\ DOMAIN blocks' = DOMAIN blocks
  BY <1>1, <1>2, EmitProps
<1>5. ShapeOf(blocks', at', Pending(stack))
  BY <1>1, <1>2, <1>3, ShapePlain
<1>6. Later(Top) = {}
  BY <1>1, OwnedByOthers DEF IsLazy, IsIf, IsWhile
<1>7. Rest = Pending(stack)
  BY <1>6 DEF Rest
<1>8. Top.path \in Seq(Nat)
  BY <1>1, <1>2, StackProps
<1> QED BY <1>1, <1>2, <1>4, <1>5, <1>7, <1>8, BlockLeave

\* After a jump nothing waits for the block it ends.
LEMMA DeadKeeps ==
  ASSUME BlockInv, stack # <<>>, Kind(Top) \in {"BREAK", "CONTINUE", "RETURN"},
         NEW bs, IsBlocks(bs), Len(bs) = Len(blocks), DOMAIN bs = DOMAIN blocks,
         ShapeOf(bs, 0, Pending(stack)), Dead(bs), Leave(VOID)
  PROVE  BlockInv'
<1>1. /\ IsStack(stack) /\ Len(blocks) \in Nat /\ DOMAIN blocks = 1..Len(blocks)
      /\ Pending(stack) \subseteq 4..Len(blocks) /\ 3 <= Len(blocks)
  BY BlockFacts
<1>2. blocks' = Created(bs, 1) /\ at' = Len(blocks) + 1
  BY DEF Dead
<1>3. IsBlocks(blocks') /\ Len(blocks') = Len(blocks) + 1 /\ DOMAIN blocks' = 1..(Len(blocks) + 1)
  <2>1. /\ IsBlocks(Created(bs, 1)) /\ Len(Created(bs, 1)) = Len(bs) + 1
        /\ DOMAIN Created(bs, 1) = 1..(Len(bs) + 1)
    BY CreatedProps
  <2> QED BY <1>2, <2>1
<1>4. Pending(stack) \subseteq DOMAIN bs
  BY <1>1
<1>5. ShapeOf(blocks', 0, Pending(stack) \cup ((Len(bs) + 1)..(Len(bs) + 1)))
  BY <1>2, <1>4, ShapeCreated
<1>6. (Len(bs) + 1)..(Len(bs) + 1) = {at'}
  BY <1>1, <1>2
<1>7. at' # 0 /\ at' # EXIT /\ at' \notin Pending(stack) /\ at' \in DOMAIN blocks'
  BY <1>1, <1>2, <1>3 DEF EXIT
<1>8. ShapeOf(blocks', at', Pending(stack))
  BY <1>3, <1>5, <1>6, <1>7, ShapeBegin
<1>9. Rest = Pending(stack)
  BY OwnedByOthers DEF Rest, IsLazy, IsIf, IsWhile
<1>10. VOID \in Seq(Nat)
  BY DEF VOID
<1> QED BY <1>1, <1>3, <1>7, <1>8, <1>9, <1>10, BlockLeave

LEMMA GenJumpKeeps == BlockInv /\ GenJump => BlockInv'
<1> SUFFICES ASSUME BlockInv, GenJump PROVE BlockInv'
  OBVIOUS
<1> DEFINE jump == Br(IF Top.node.kind = "BREAK" THEN Top.loop.brk ELSE Top.loop.cont)
<1>1. /\ stack # <<>> /\ Kind(Top) \in {"BREAK", "CONTINUE", "RETURN"}
      /\ Dead(Emit(blocks, at, jump)) /\ Leave(VOID)
  BY DEF GenJump, Is, Kind
<1>2. /\ IsBlocks(blocks) /\ at \in DOMAIN blocks /\ at \notin Pending(stack) \cup {EXIT}
      /\ ShapeOf(blocks, at, Pending(stack))
  BY <1>1, BlockFacts
<1>3. jump.op \in Terminators
  BY BrIs
<1> HIDE DEF jump
<1>4. /\ IsBlocks(Emit(blocks, at, jump)) /\ Len(Emit(blocks, at, jump)) = Len(blocks)
      /\ DOMAIN Emit(blocks, at, jump) = DOMAIN blocks
  BY <1>2, EmitProps
<1>5. ShapeOf(Emit(blocks, at, jump), 0, Pending(stack))
  BY <1>2, <1>3, ShapeEnd
<1> QED BY <1>1, <1>4, <1>5, DeadKeeps

LEMMA ReturnValueKeeps == BlockInv /\ ReturnValue => BlockInv'
<1> SUFFICES ASSUME BlockInv, ReturnValue PROVE BlockInv'
  OBVIOUS
<1> DEFINE store == [op |-> "store", val |-> value]
           mid == Emit(blocks, at, store)
<1>1. /\ stack # <<>> /\ Kind(Top) \in {"BREAK", "CONTINUE", "RETURN"}
      /\ Dead(Emit(mid, at, Br(EXIT))) /\ Leave(VOID)
  BY DEF ReturnValue, Is, Kind
<1>2. /\ IsBlocks(blocks) /\ at \in DOMAIN blocks /\ at \notin Pending(stack) \cup {EXIT}
      /\ ShapeOf(blocks, at, Pending(stack))
  BY <1>1, BlockFacts
<1>3. store.op \notin Terminators /\ Br(EXIT).op \in Terminators
  BY BrIs DEF Terminators
<1> HIDE DEF store
<1>4. IsBlocks(mid) /\ Len(mid) = Len(blocks) /\ DOMAIN mid = DOMAIN blocks
  BY <1>2, EmitProps
<1>5. ShapeOf(mid, at, Pending(stack))
  BY <1>2, <1>3, ShapePlain
<1> HIDE DEF mid
<1>6. /\ IsBlocks(Emit(mid, at, Br(EXIT))) /\ Len(Emit(mid, at, Br(EXIT))) = Len(blocks)
      /\ DOMAIN Emit(mid, at, Br(EXIT)) = DOMAIN blocks
  BY <1>2, <1>4, EmitIsBlocks
<1>7. ShapeOf(Emit(mid, at, Br(EXIT)), 0, Pending(stack))
  BY <1>2, <1>3, <1>4, <1>5, ShapeEnd
<1> QED BY <1>1, <1>6, <1>7, DeadKeeps

LEMMA NextChildKeeps == BlockInv /\ NextChild => BlockInv'
<1> SUFFICES ASSUME BlockInv, NextChild PROVE BlockInv'
  OBVIOUS
<1>1. /\ stack # <<>> /\ Kind(Top) \in {"BLOCK", "BLOCK_EXPR", "RETURN", "AND", "OR"}
      /\ Descend(Top, Top.loop) /\ blocks' = blocks /\ at' = at
      /\ \/ Kind(Top) \in {"RETURN", "AND", "OR"} /\ Top.next = 1
         \/ Kind(Top) \in {"BLOCK", "BLOCK_EXPR"} /\ HasKid(Top.node, Top.next)
  BY DEF NextChild, Is, Kind
<1>2. /\ IsBlocks(blocks) /\ at \in DOMAIN blocks /\ at # EXIT /\ at \notin Pending(stack)
      /\ ShapeOf(blocks, at, Pending(stack)) /\ IsStack(stack) /\ Len(blocks) \in Nat
  BY <1>1, BlockFacts
<1>3. Top \in Frames /\ Top.node \in Nodes /\ Top.loop \in Loops /\ Top.new \in Nat
  BY <1>1, <1>2, StackProps
<1>4. Top.next \in 1..Width(Top)
  BY <1>1, <1>3, KidsAre
<1>5. Later(Top) = {}
  <2>1. CASE Kind(Top) \in {"AND", "OR"}
    BY <1>1, <1>3, <2>1, OwnedAtFirst
  <2>2. CASE Kind(Top) \notin {"AND", "OR"}
    BY <1>1, <2>2, OwnedByOthers DEF IsLazy, IsIf, IsWhile
  <2> QED BY <2>1, <2>2
<1> DEFINE g == stack'[Len(stack)]
<1>6. Kind(g) = Kind(Top) /\ g.next = Top.next + 1 /\ g.new = Top.new
  BY <1>1, <1>2, <1>3, <1>4, DescendProps
<1> HIDE DEF g
<1>7. Later(g) = {} /\ Again(g) = {}
  <2>1. CASE Kind(Top) \in {"AND", "OR"}
    BY <1>1, <1>3, <1>6, <2>1, OwnedByLazy DEF IsLazy
  <2>2. CASE Kind(Top) \notin {"AND", "OR"}
    BY <1>1, <1>6, <2>2, OwnedByOthers DEF IsLazy, IsIf, IsWhile
  <2> QED BY <2>1, <2>2
<1>8. Rest \cup {} = Pending(stack)
  BY <1>5 DEF Rest
<1>9. {} = Later(stack'[Len(stack)]) /\ {} = Again(stack'[Len(stack)])
  BY <1>7 DEF g
<1> QED BY <1>1, <1>2, <1>3, <1>4, <1>8, <1>9, BlockDescend

LEMMA LeaveBlockKeeps == BlockInv /\ LeaveBlock => BlockInv'
<1> SUFFICES ASSUME BlockInv, LeaveBlock PROVE BlockInv'
  OBVIOUS
<1> DEFINE v == IF Top.node.kind = "BLOCK" THEN VOID ELSE value
<1>1. /\ stack # <<>> /\ Kind(Top) \in {"BLOCK", "BLOCK_EXPR"}
      /\ Leave(v) /\ blocks' = blocks /\ at' = at
  BY DEF LeaveBlock, Is, Kind
<1>2. /\ IsBlocks(blocks) /\ at \in DOMAIN blocks /\ at # EXIT /\ at \notin Pending(stack)
      /\ ShapeOf(blocks, at, Pending(stack)) /\ Len(blocks) \in Nat /\ value \in Seq(Nat)
  BY <1>1, BlockFacts
<1>3. VOID \in Seq(Nat)
  BY DEF VOID
<1>4. v \in Seq(Nat)
  BY <1>2, <1>3
<1> HIDE DEF v
<1>5. Rest = Pending(stack)
  BY <1>1, OwnedByOthers DEF Rest, IsLazy, IsIf, IsWhile
<1> QED BY <1>1, <1>2, <1>4, <1>5, BlockLeave

LEMMA LazyRightKeeps == BlockInv /\ LazyRight => BlockInv'
<1> SUFFICES ASSUME BlockInv, LazyRight PROVE BlockInv'
  OBVIOUS
<1> DEFINE right == Len(blocks) + 1
           rest == right + 1
           branch == IF Top.node.kind = "AND" THEN CondBr(value, right, rest)
                     ELSE CondBr(value, rest, right)
           f == [Top EXCEPT !.new = right, !.val = value, !.from = at]
           g == stack'[Len(stack)]
<1>1. /\ stack # <<>> /\ Kind(Top) \in {"AND", "OR"} /\ Top.next = 2
      /\ blocks' = Created(Emit(blocks, at, branch), 2) /\ at' = right
      /\ Descend(f, Top.loop)
  BY DEF LazyRight, Is, Kind
<1>2. /\ IsBlocks(blocks) /\ at \in DOMAIN blocks /\ at \notin Pending(stack) \cup {EXIT}
      /\ ShapeOf(blocks, at, Pending(stack)) /\ IsStack(stack) /\ Len(blocks) \in Nat
      /\ 3 <= Len(blocks) /\ DOMAIN blocks = 1..Len(blocks)
      /\ Pending(stack) \subseteq 4..Len(blocks) /\ value \in Seq(Nat)
  BY <1>1, BlockFacts
<1>3. /\ Top \in Frames /\ Top.node \in Nodes /\ Top.loop \in Loops /\ Top.new \in Nat
  BY <1>1, <1>2, StackProps
<1>4. Top.next \in 1..Width(Top)
  BY <1>1, <1>3, KidsAre
<1>5. f \in Frames /\ Kind(f) = Kind(Top) /\ Width(f) = Width(Top) /\ f.next = 2 /\ f.new = right
  <2>1. right \in Nat /\ at \in Nat /\ value \in Seq(Nat)
    BY <1>2
  <2> HIDE DEF right
  <2>2. f \in Frames /\ f.node = Top.node /\ f.next = Top.next /\ f.new = right
    <3>1. Top \in Frames /\ right \in Nat /\ at \in Nat /\ value \in Seq(Nat)
      BY <1>3, <2>1
    <3> DEFINE t == Top
    <3> HIDE DEF t
    <3>2. t \in Frames /\ f = [t EXCEPT !.new = right, !.val = value, !.from = at]
      BY <3>1 DEF t
    <3> HIDE DEF f
    <3>3. f \in Frames /\ f.node = t.node /\ f.next = t.next /\ f.new = right
      BY <3>1, <3>2 DEF Frames
    <3> QED BY <3>3 DEF t
  <2> HIDE DEF f
  <2> QED BY <1>1, <2>2, SameNode
<1>6. branch.op \in Terminators
  BY CondBrIs
<1>7. right \in Nat /\ rest \in Nat /\ (Len(blocks) + 1)..(Len(blocks) + 2) = {right, rest}
      /\ right # rest /\ right \notin Pending(stack) /\ right # EXIT /\ right # 0
  BY <1>2 DEF EXIT
<1>8. Pending(stack) \subseteq DOMAIN blocks
  BY <1>2
<1> HIDE DEF branch, f, g
<1>9. /\ IsBlocks(blocks') /\ Len(blocks') = Len(blocks) + 2
      /\ DOMAIN blocks' = 1..(Len(blocks) + 2)
      /\ ShapeOf(blocks', 0, Pending(stack) \cup ((Len(blocks) + 1)..(Len(blocks) + 2)))
  <2> DEFINE bs == Created(Emit(blocks, at, branch), 2)
  <2>1. /\ IsBlocks(bs) /\ Len(bs) = Len(blocks) + 2 /\ DOMAIN bs = 1..(Len(blocks) + 2)
        /\ ShapeOf(bs, 0, Pending(stack) \cup ((Len(blocks) + 1)..(Len(blocks) + 2)))
    BY <1>2, <1>6, <1>8, EndAndCreate
  <2> QED BY <1>1, <2>1
<1>10. ShapeOf(blocks', 0, Pending(stack) \cup {right, rest})
  BY <1>7, <1>9
<1>11. ShapeOf(blocks', right, Pending(stack) \cup {rest})
  <2>1. Pending(stack) \cup {rest} = (Pending(stack) \cup {right, rest}) \ {right}
    BY <1>7
  <2> HIDE DEF right, rest
  <2> QED BY <1>7, <1>9, <1>10, <2>1, ShapeBegin
<1>12. Later(Top) = {}
  BY <1>1, <1>3, OwnedByLazy DEF IsLazy
<1>13. Kind(g) = Kind(Top) /\ g.next = 3 /\ g.new = right
  BY <1>1, <1>2, <1>3, <1>4, <1>5, DescendProps DEF g
<1>14. Later(g) = {rest} /\ Again(g) = {}
  BY <1>1, <1>7, <1>13, OwnedByLazy DEF IsLazy
<1>15. Rest = Pending(stack)
  BY <1>12 DEF Rest
<1>16. {rest} = Later(stack'[Len(stack)]) /\ {} = Again(stack'[Len(stack)])
  BY <1>14 DEF g
<1>17. right \in DOMAIN blocks' /\ Len(blocks) <= Len(blocks')
       /\ {rest} \subseteq (Len(blocks) + 1)..Len(blocks')
  BY <1>2, <1>7, <1>9
<1>18. f.next \in 1..Width(f)
  BY <1>1, <1>4, <1>5
<1> HIDE DEF right, rest
<1>19. at' \notin Rest \cup {rest}
  BY <1>1, <1>7, <1>15
<1> QED BY <1>1, <1>3, <1>5, <1>7, <1>9, <1>11, <1>15, <1>16, <1>17, <1>18, <1>19, BlockDescend

LEMMA IfConditionKeeps == BlockInv /\ IfCondition => BlockInv'
<1> SUFFICES ASSUME BlockInv, IfCondition PROVE BlockInv'
  OBVIOUS
<1> DEFINE n == IF HasElse THEN 3 ELSE 2
           new == Len(blocks) + 1
           f == [Top EXCEPT !.new = new]
           g == stack'[Len(stack)]
           L == new..(new + n - 1)
<1>1. /\ stack # <<>> /\ IsIf(Top) /\ Top.next = 1 /\ at' = at
      /\ blocks' = Created(blocks, n) /\ Descend(f, Top.loop)
  BY DEF IfCondition, Is, IsIf, Kind
<1>2. /\ IsBlocks(blocks) /\ at \in DOMAIN blocks /\ at # EXIT /\ at \notin Pending(stack)
      /\ ShapeOf(blocks, at, Pending(stack)) /\ IsStack(stack) /\ Len(blocks) \in Nat
      /\ 3 <= Len(blocks) /\ DOMAIN blocks = 1..Len(blocks)
      /\ Pending(stack) \subseteq 4..Len(blocks)
  BY <1>1, BlockFacts
<1>3. /\ Top \in Frames /\ Top.node \in Nodes /\ Top.loop \in Loops
  BY <1>1, <1>2, StackProps
<1>4. Width(Top) \in {2, 3} /\ (HasElse <=> Width(Top) = 3)
  BY <1>1, <1>3, KidsAre DEF IsIf, HasElse
<1>5. f \in Frames /\ Kind(f) = Kind(Top) /\ Width(f) = Width(Top) /\ f.next = 1 /\ f.new = new
  <2>1. new \in Nat
    BY <1>2
  <2> HIDE DEF new
  <2>2. f \in Frames /\ f.node = Top.node /\ f.next = Top.next /\ f.new = new
    BY <1>3, <2>1, FrameWithNew, Zenon
  <2> HIDE DEF f
  <2> QED BY <1>1, <2>2, SameNode
<1>6. n \in 2..3 /\ n \in Nat /\ n = Width(Top)
  BY <1>4
<1> HIDE DEF n, f, g
<1>7. /\ IsBlocks(blocks') /\ Len(blocks') = Len(blocks) + n
      /\ DOMAIN blocks' = 1..(Len(blocks) + n)
  BY <1>1, <1>2, <1>6, CreatedProps
<1>8. ShapeOf(blocks', at, Pending(stack) \cup ((Len(blocks) + 1)..(Len(blocks) + n)))
  <2>1. Pending(stack) \subseteq DOMAIN blocks
    BY <1>2
  <2> QED BY <1>1, <1>2, <1>6, <2>1, ShapeCreated
<1>9. L = (Len(blocks) + 1)..(Len(blocks) + n)
  BY <1>2, <1>6
<1>10. f.next \in 1..Width(f)
  BY <1>4, <1>5
<1>11. Kind(g) = Kind(Top) /\ Width(g) = Width(Top) /\ g.next = 2 /\ g.new = new
  BY <1>1, <1>2, <1>3, <1>5, <1>10, DescendProps DEF g
<1>12. Later(g) = L /\ Again(g) = {}
  <2>1. new \in Nat /\ IsIf(g)
    BY <1>1, <1>2, <1>11 DEF IsIf
  <2>2. /\ Later(g) = {new} \cup {new + 1} \cup (IF Width(g) = 3 THEN {new + 2} ELSE {})
        /\ Again(g) = {}
    BY <1>11, <2>1, OwnedByIf
  <2>3. CASE n = 2
    <3>1. L = {new} \cup {new + 1}
      BY <2>1, <2>3
    <3> QED BY <1>6, <1>11, <2>2, <2>3, <3>1
  <2>4. CASE n = 3
    <3>1. L = {new} \cup {new + 1} \cup {new + 2}
      BY <2>1, <2>4
    <3> QED BY <1>6, <1>11, <2>2, <2>4, <3>1
  <2> QED BY <1>6, <2>3, <2>4
<1>13. Later(Top) = {}
  BY <1>1, OwnedAtFirst
<1>14. Rest = Pending(stack)
  BY <1>13 DEF Rest
<1>15. L = Later(stack'[Len(stack)]) /\ {} = Again(stack'[Len(stack)])
  BY <1>12 DEF g
<1>16. at' \in DOMAIN blocks' /\ Len(blocks) <= Len(blocks') /\ L \subseteq (Len(blocks) + 1)..Len(blocks')
       /\ at' \notin L
  BY <1>1, <1>2, <1>6, <1>7
<1> HIDE DEF L
<1>17. at' # EXIT /\ at' \notin Rest \cup L /\ ShapeOf(blocks', at', Rest \cup L)
  BY <1>1, <1>2, <1>8, <1>9, <1>14, <1>16
<1> QED BY <1>1, <1>3, <1>5, <1>7, <1>10, <1>15, <1>16, <1>17, BlockDescend

\* The block at hand is ended by a branch, and a block that the last call owns
\* is begun; L are those that it begins later.
LEMMA BeginOwned ==
  ASSUME BlockInv, stack # <<>>, NEW instr, instr.op \in Terminators,
         NEW c \in Later(Top), NEW L, L = Later(Top) \ {c}
  PROVE  LET new == Emit(blocks, at, instr)
         IN  /\ IsBlocks(new) /\ Len(new) = Len(blocks) /\ DOMAIN new = DOMAIN blocks
             /\ ShapeOf(new, c, Rest \cup L) /\ c \notin Rest \cup L
             /\ c \in DOMAIN blocks /\ c # EXIT /\ c \in Pending(stack)
<1>1. /\ IsBlocks(blocks) /\ at \in DOMAIN blocks /\ at \notin Pending(stack) \cup {EXIT}
      /\ ShapeOf(blocks, at, Pending(stack)) /\ Len(blocks) \in Nat
      /\ DOMAIN blocks = 1..Len(blocks) /\ Later(Top) \subseteq Pending(stack)
      /\ Pending(stack) \subseteq 4..Len(blocks)
  BY BlockFacts
<1>2. /\ Pending(stack) \subseteq DOMAIN blocks /\ c \in Pending(stack) /\ c # EXIT
      /\ Rest \cup L = Pending(stack) \ {c} /\ c \in DOMAIN blocks
  BY <1>1 DEF EXIT, Rest
<1> QED BY <1>1, <1>2, EndAndBegin

LEMMA IfBranchKeeps == BlockInv /\ IfBranch => BlockInv'
<1> SUFFICES ASSUME BlockInv, IfBranch PROVE BlockInv'
  OBVIOUS
<1> DEFINE new == Top.new
           branch == CondBr(value, new, ElseBlock)
           g == stack'[Len(stack)]
           L == {new + 1} \cup (IF Width(Top) = 3 THEN {new + 2} ELSE {})
<1>1. /\ stack # <<>> /\ IsIf(Top) /\ Top.next = 2 /\ at' = new
      /\ blocks' = Emit(blocks, at, branch) /\ Descend(Top, Top.loop)
  BY DEF IfBranch, Is, IsIf, Kind
<1>2. Len(blocks) \in Nat /\ IsStack(stack) /\ Later(Top) \subseteq Owned(Top)
  BY <1>1, BlockFacts
<1>3. Top \in Frames /\ Top.node \in Nodes /\ Top.loop \in Loops /\ new \in Nat
  BY <1>1, <1>2, StackProps
<1>4. Width(Top) \in {2, 3}
  BY <1>1, <1>3, KidsAre DEF IsIf
<1>5. Later(Top) = {new} \cup L
  BY <1>1, <1>3, OwnedByIf
<1>6. L = Later(Top) \ {new} /\ new \in Later(Top)
  BY <1>3, <1>5
<1>7. Top.next \in 1..Width(Top)
  BY <1>1, <1>4
<1>8. branch.op \in Terminators
  BY CondBrIs
<1> HIDE DEF branch, g
<1>9. Kind(g) = Kind(Top) /\ Width(g) = Width(Top) /\ g.next = 3 /\ g.new = new
  BY <1>1, <1>2, <1>3, <1>7, DescendProps DEF g
<1>10. L = Later(g) /\ Again(g) = {}
  BY <1>3, <1>1, <1>9, OwnedByIf DEF IsIf
<1> HIDE DEF L, new
<1>11. /\ IsBlocks(blocks') /\ Len(blocks') = Len(blocks) /\ DOMAIN blocks' = DOMAIN blocks
       /\ ShapeOf(blocks', new, Rest \cup L) /\ new \notin Rest \cup L
       /\ new \in DOMAIN blocks /\ new # EXIT
  BY <1>1, <1>6, <1>8, BeginOwned
<1>12. L = Later(stack'[Len(stack)]) /\ {} = Again(stack'[Len(stack)]) /\ L \subseteq Owned(Top)
  BY <1>2, <1>6, <1>10 DEF g
<1> QED BY <1>1, <1>2, <1>3, <1>7, <1>11, <1>12, BlockDescend

LEMMA ElseBranchKeeps == BlockInv /\ ElseBranch => BlockInv'
<1> SUFFICES ASSUME BlockInv, ElseBranch PROVE BlockInv'
  OBVIOUS
<1> DEFINE new == Top.new
           branch == Br(new + 1)
           f == [Top EXCEPT !.val = value]
           g == stack'[Len(stack)]
<1>1. /\ stack # <<>> /\ IsIf(Top) /\ Top.next = 3 /\ HasElse /\ at' = ElseBlock
      /\ blocks' = Emit(blocks, at, branch) /\ Descend(f, Top.loop)
  BY DEF ElseBranch, Is, IsIf, Kind
<1>2. /\ Len(blocks) \in Nat /\ IsStack(stack) /\ Later(Top) \subseteq Owned(Top)
      /\ value \in Seq(Nat)
  BY <1>1, BlockFacts
<1>3. Top \in Frames /\ Top.node \in Nodes /\ Top.loop \in Loops /\ new \in Nat
  BY <1>1, <1>2, StackProps
<1>4. Width(Top) = 3 /\ at' = new + 2
  BY <1>1, <1>3, KidsAre DEF IsIf, HasElse, ElseBlock
<1>5. Later(Top) = {new + 1, new + 2}
  BY <1>1, <1>3, <1>4, OwnedByIf
<1>6. {new + 1} = Later(Top) \ {new + 2} /\ new + 2 \in Later(Top)
  BY <1>3, <1>5
<1>7. f \in Frames /\ f.node = Top.node /\ f.next = Top.next /\ f.new = new
  BY <1>2, <1>3, FrameWithVal, Zenon
<1>8. branch.op \in Terminators
  BY BrIs
<1> HIDE DEF branch, f, g
<1>9. Kind(f) = Kind(Top) /\ Width(f) = Width(Top)
  BY <1>7, SameNode
<1>10. f.next \in 1..Width(f)
  BY <1>1, <1>4, <1>7, <1>9
<1>11. Kind(g) = Kind(Top) /\ g.next = 4 /\ g.new = new
  BY <1>1, <1>2, <1>3, <1>7, <1>9, <1>10, DescendProps DEF g
<1>12. {new + 1} = Later(g) /\ Again(g) = {}
  BY <1>1, <1>3, <1>11, OwnedByIf DEF IsIf
<1> DEFINE L == {new + 1}
           c == new + 2
<1>13. L = Later(Top) \ {c} /\ c \in Later(Top) /\ at' = c
  BY <1>4, <1>6
<1>14. L = Later(stack'[Len(stack)]) /\ {} = Again(stack'[Len(stack)]) /\ L \subseteq Owned(Top)
  BY <1>2, <1>6, <1>12 DEF g
<1> HIDE DEF L, c, new
<1>15. /\ IsBlocks(blocks') /\ Len(blocks') = Len(blocks) /\ DOMAIN blocks' = DOMAIN blocks
       /\ ShapeOf(blocks', c, Rest \cup L) /\ c \notin Rest \cup L
       /\ c \in DOMAIN blocks /\ c # EXIT
  BY <1>1, <1>8, <1>13, BeginOwned
<1> QED BY <1>1, <1>2, <1>3, <1>7, <1>10, <1>13, <1>14, <1>15, BlockDescend

\* A call that ends begins the last block it owns.
LEMMA LeaveOwned ==
  ASSUME BlockInv, stack # <<>>, NEW instr, instr.op \in Terminators,
         NEW c, Later(Top) = {c}, at' = c,
         \/ blocks' = Emit(blocks, at, instr)
         \/ \E more : more.op \notin Terminators /\ blocks' = Emit(Emit(blocks, at, instr), c, more),
         NEW v \in Seq(Nat), Leave(v)
  PROVE  BlockInv'
<1> DEFINE mid == Emit(blocks, at, instr)
<1>1. /\ IsBlocks(mid) /\ Len(mid) = Len(blocks) /\ DOMAIN mid = DOMAIN blocks
      /\ ShapeOf(mid, c, Rest \cup {}) /\ c \notin Rest \cup {}
      /\ c \in DOMAIN blocks /\ c # EXIT
  <2>1. c \in Later(Top) /\ {} = Later(Top) \ {c}
    OBVIOUS
  <2> QED BY <2>1, BeginOwned
<1>2. ShapeOf(mid, c, Rest) /\ c \notin Rest
  <2>1. Rest \cup {} = Rest
    OBVIOUS
  <2> QED BY <1>1, <2>1
<1>3. Len(blocks) \in Nat
  BY BlockFacts
<1> HIDE DEF mid
<1>4. CASE blocks' = mid
  BY <1>1, <1>2, <1>3, <1>4, BlockLeave
<1>5. ASSUME NEW more, more.op \notin Terminators, blocks' = Emit(mid, c, more)
      PROVE  BlockInv'
  <2>1. IsBlocks(blocks') /\ Len(blocks') = Len(blocks) /\ DOMAIN blocks' = DOMAIN blocks
    BY <1>1, <1>5, EmitIsBlocks
  <2>2. ShapeOf(blocks', c, Rest)
    BY <1>1, <1>2, <1>5, ShapePlain
  <2> QED BY <1>1, <1>2, <1>3, <2>1, <2>2, BlockLeave
<1> QED BY <1>4, <1>5 DEF mid

LEMMA VoidIs == VOID \in Seq(Nat)
BY DEF VOID

LEMMA IfEndKeeps == BlockInv /\ IfEnd => BlockInv'
<1> SUFFICES ASSUME BlockInv, IfEnd PROVE BlockInv'
  OBVIOUS
<1>1. /\ stack # <<>> /\ Kind(Top) = "IF_ELSE" /\ Top.next = Width(Top) + 1
      /\ at' = Top.new + 1 /\ blocks' = Emit(blocks, at, Br(Top.new + 1)) /\ Leave(VOID)
  BY DEF IfEnd, Is, Kind, Width
<1>2. IsStack(stack)
  BY <1>1, BlockFacts
<1>3. Top.node \in Nodes /\ Top.new \in Nat
  BY <1>1, <1>2, StackProps
<1>4. Width(Top) \in {2, 3}
  BY <1>1, <1>3, KidsAre
<1>5. IsIf(Top)
  BY <1>1 DEF IsIf
<1>6. Later(Top) = {Top.new + 1}
  BY <1>1, <1>3, <1>4, <1>5, OwnedByIf
<1> QED BY <1>1, <1>6, BrIs, VoidIs, LeaveOwned

LEMMA IfExprEndKeeps == BlockInv /\ IfExprEnd => BlockInv'
<1> SUFFICES ASSUME BlockInv, IfExprEnd PROVE BlockInv'
  OBVIOUS
<1> DEFINE rest == Top.new + 1
           phi == Phi(Top.path, IfIncoming(Top.new, Top.val, ElseBlock, value))
<1>1. /\ stack # <<>> /\ Kind(Top) = "IF_ELSE_EXPR" /\ Top.next = 4
      /\ at' = rest /\ blocks' = Emit(Emit(blocks, at, Br(rest)), rest, phi) /\ Leave(Top.path)
  BY DEF IfExprEnd, Is, Kind
<1>2. IsStack(stack)
  BY <1>1, BlockFacts
<1>3. Top.path \in Seq(Nat) /\ Top.new \in Nat
  BY <1>1, <1>2, StackProps
<1>4. Later(Top) = {rest}
  BY <1>1, <1>3, OwnedByIf DEF IsIf
<1>5. phi.op \notin Terminators
  BY PhiIs
<1> HIDE DEF phi, rest
<1> QED BY <1>1, <1>3, <1>4, <1>5, BrIs, LeaveOwned

LEMMA WhileEndKeeps == BlockInv /\ WhileEnd => BlockInv'
<1> SUFFICES ASSUME BlockInv, WhileEnd PROVE BlockInv'
  OBVIOUS
<1>1. /\ stack # <<>> /\ IsWhile(Top) /\ Top.next = 3
      /\ at' = Top.new + 2 /\ blocks' = Emit(blocks, at, Br(Top.new)) /\ Leave(VOID)
  BY DEF WhileEnd, Is, IsWhile, Kind
<1>2. IsStack(stack)
  BY <1>1, BlockFacts
<1>3. Top.new \in Nat
  BY <1>1, <1>2, StackProps
<1>4. Later(Top) = {Top.new + 2}
  BY <1>1, <1>3, OwnedByWhile
<1> QED BY <1>1, <1>4, BrIs, VoidIs, LeaveOwned

LEMMA LazyEndKeeps == BlockInv /\ LazyEnd => BlockInv'
<1> SUFFICES ASSUME BlockInv, LazyEnd PROVE BlockInv'
  OBVIOUS
<1> DEFINE rest == Top.new + 1
           phi == Phi(Top.path, LazyIncoming(Top.from, Top.val, at, value, Top.new))
<1>1. /\ stack # <<>> /\ IsLazy(Top) /\ Top.next = 3
      /\ at' = rest /\ blocks' = Emit(Emit(blocks, at, Br(rest)), rest, phi) /\ Leave(Top.path)
  BY DEF LazyEnd, Is, IsLazy, Kind
<1>2. IsStack(stack)
  BY <1>1, BlockFacts
<1>3. Top.path \in Seq(Nat) /\ Top.new \in Nat
  BY <1>1, <1>2, StackProps
<1>4. Later(Top) = {rest}
  BY <1>1, <1>3, OwnedByLazy
<1>5. phi.op \notin Terminators
  BY PhiIs
<1> HIDE DEF phi, rest
<1> QED BY <1>1, <1>3, <1>4, <1>5, BrIs, LeaveOwned

LEMMA WhileConditionKeeps == BlockInv /\ WhileCondition => BlockInv'
<1> SUFFICES ASSUME BlockInv, WhileCondition PROVE BlockInv'
  OBVIOUS
<1> DEFINE cond == Len(blocks) + 1
           branch == Br(cond)
           f == [Top EXCEPT !.new = cond]
           g == stack'[Len(stack)]
           L == {cond + 1, cond + 2}
<1>1. /\ stack # <<>> /\ IsWhile(Top) /\ Top.next = 1 /\ at' = cond
      /\ blocks' = Created(Emit(blocks, at, branch), 3) /\ Descend(f, Top.loop)
  BY DEF WhileCondition, Is, IsWhile, Kind
<1>2. /\ IsBlocks(blocks) /\ at \in DOMAIN blocks /\ at \notin Pending(stack) \cup {EXIT}
      /\ ShapeOf(blocks, at, Pending(stack)) /\ IsStack(stack) /\ Len(blocks) \in Nat
      /\ 3 <= Len(blocks) /\ DOMAIN blocks = 1..Len(blocks)
      /\ Pending(stack) \subseteq 4..Len(blocks)
  BY <1>1, BlockFacts
<1>3. Top \in Frames /\ Top.node \in Nodes /\ Top.loop \in Loops
  BY <1>1, <1>2, StackProps
<1>4. Width(Top) = 2
  BY <1>1, <1>3, KidsAre DEF IsWhile
<1>5. f \in Frames /\ f.node = Top.node /\ f.next = Top.next /\ f.new = cond
  <2>1. cond \in Nat
    BY <1>2
  <2> HIDE DEF cond
  <2> QED BY <1>3, <2>1, FrameWithNew, Zenon
<1>6. branch.op \in Terminators
  BY BrIs
<1> HIDE DEF branch, f, g
<1>7. Kind(f) = Kind(Top) /\ Width(f) = Width(Top)
  BY <1>5, SameNode
<1>8. f.next \in 1..Width(f)
  BY <1>1, <1>4, <1>5, <1>7
<1>9. Kind(g) = Kind(Top) /\ g.next = 2 /\ g.new = cond
  BY <1>1, <1>2, <1>3, <1>5, <1>7, <1>8, DescendProps DEF g
<1>10. cond \in Nat /\ cond \notin Pending(stack) /\ cond # EXIT /\ cond # 0 /\ cond \notin L
       /\ (Len(blocks) + 1)..(Len(blocks) + 3) = {cond} \cup L
  BY <1>2 DEF EXIT
<1>11. L = Later(g) /\ Again(g) = {cond}
  <2>1. IsWhile(g)
    BY <1>1, <1>9 DEF IsWhile
  <2> QED BY <1>9, <1>10, <2>1, OwnedByWhile
<1>12. Later(Top) = {}
  BY <1>1, OwnedAtFirst
<1>13. Rest = Pending(stack)
  BY <1>12 DEF Rest
<1>14. /\ IsBlocks(blocks') /\ Len(blocks') = Len(blocks) + 3
       /\ DOMAIN blocks' = 1..(Len(blocks) + 3)
       /\ ShapeOf(blocks', 0, Pending(stack) \cup ((Len(blocks) + 1)..(Len(blocks) + 3)))
  <2> DEFINE bs == Created(Emit(blocks, at, branch), 3)
  <2>1. Pending(stack) \subseteq DOMAIN blocks
    BY <1>2
  <2>2. /\ IsBlocks(bs) /\ Len(bs) = Len(blocks) + 3 /\ DOMAIN bs = 1..(Len(blocks) + 3)
        /\ ShapeOf(bs, 0, Pending(stack) \cup ((Len(blocks) + 1)..(Len(blocks) + 3)))
    BY <1>2, <1>6, <2>1, EndAndCreate
  <2> QED BY <1>1, <2>2
<1>15. cond \in DOMAIN blocks' /\ Len(blocks) <= Len(blocks')
       /\ L \cup {cond} \subseteq (Len(blocks) + 1)..Len(blocks')
  BY <1>2, <1>14
<1>16. L = Later(stack'[Len(stack)]) /\ {cond} = Again(stack'[Len(stack)])
  BY <1>11 DEF g
<1> HIDE DEF cond, L
<1>17. ShapeOf(blocks', 0, Pending(stack) \cup ({cond} \cup L))
  BY <1>10, <1>14
<1>18. ShapeOf(blocks', cond, Rest \cup L)
  <2>1. Rest \cup L = (Pending(stack) \cup ({cond} \cup L)) \ {cond}
    BY <1>10, <1>13
  <2>2. cond \in (Pending(stack) \cup ({cond} \cup L)) \cup {EXIT}
    OBVIOUS
  <2> QED BY <1>10, <1>14, <1>17, <2>1, <2>2, ShapeBegin
<1>19. at' \notin Rest \cup L
  BY <1>1, <1>10, <1>13
<1> QED BY <1>1, <1>3, <1>5, <1>8, <1>10, <1>14, <1>15, <1>16, <1>18, <1>19, BlockDescend

LEMMA WhileBodyKeeps == BlockInv /\ WhileBody => BlockInv'
<1> SUFFICES ASSUME BlockInv, WhileBody PROVE BlockInv'
  OBVIOUS
<1> DEFINE c == Top.new + 1
           L == {Top.new + 2}
           branch == CondBr(value, c, Top.new + 2)
           loop == LoopTargets(Top.new, c, Top.new + 2)
           g == stack'[Len(stack)]
<1>1. /\ stack # <<>> /\ IsWhile(Top) /\ Top.next = 2 /\ at' = c
      /\ blocks' = Emit(blocks, at, branch) /\ Descend(Top, loop)
  BY DEF WhileBody, Is, IsWhile, Kind
<1>2. Len(blocks) \in Nat /\ IsStack(stack) /\ Later(Top) \subseteq Owned(Top)
  BY <1>1, BlockFacts
<1>3. Top \in Frames /\ Top.node \in Nodes /\ Top.new \in Nat
  BY <1>1, <1>2, StackProps
<1>4. Width(Top) = 2
  BY <1>1, <1>3, KidsAre DEF IsWhile
<1>5. loop \in Loops
  BY <1>3 DEF Loops, LoopTargets
<1>6. Top.next \in 1..Width(Top)
  BY <1>1, <1>4
<1>7. branch.op \in Terminators
  BY CondBrIs
<1> HIDE DEF branch, g, loop
<1>8. Kind(g) = Kind(Top) /\ g.next = 3 /\ g.new = Top.new
  BY <1>1, <1>2, <1>3, <1>5, <1>6, DescendProps DEF g
<1>9. Later(Top) = {c} \cup L /\ Again(Top) = {Top.new}
  BY <1>1, <1>3, OwnedByWhile
<1>10. L = Later(g) /\ Again(g) = {Top.new}
  <2>1. IsWhile(g)
    BY <1>1, <1>8 DEF IsWhile
  <2> QED BY <1>3, <1>8, <2>1, OwnedByWhile
<1>11. L = Later(Top) \ {c} /\ c \in Later(Top)
  BY <1>3, <1>9
<1>12. /\ L = Later(stack'[Len(stack)]) /\ {Top.new} = Again(stack'[Len(stack)])
       /\ L \cup {Top.new} \subseteq Owned(Top)
  BY <1>9, <1>10 DEF g, Owned
<1> HIDE DEF L, c
<1>13. /\ IsBlocks(blocks') /\ Len(blocks') = Len(blocks) /\ DOMAIN blocks' = DOMAIN blocks
       /\ ShapeOf(blocks', c, Rest \cup L) /\ c \notin Rest \cup L
       /\ c \in DOMAIN blocks /\ c # EXIT
  BY <1>1, <1>7, <1>11, BeginOwned
<1> QED BY <1>1, <1>2, <1>3, <1>5, <1>6, <1>12, <1>13, BlockDescend

LEMMA FunctionEndKeeps == BlockInv /\ FunctionEnd => BlockInv'
<1> SUFFICES ASSUME BlockInv, FunctionEnd PROVE BlockInv'
  OBVIOUS
<1> DEFINE mid == Emit(blocks, at, Br(EXIT))
           ret == [op |-> "ret"]
<1>1. /\ stack = <<>> /\ at # EXIT /\ blocks' = Emit(mid, EXIT, ret) /\ at' = EXIT
      /\ stack' = stack /\ value' = value
  BY DEF FunctionEnd
<1>2. /\ IsBlocks(blocks) /\ EXIT <= Len(blocks) /\ at \in DOMAIN blocks /\ value \in Seq(Nat)
      /\ IsStack(stack) /\ OwnedApart(stack, Len(blocks))
      /\ at \notin Pending(stack) /\ ShapeOf(blocks, at, Pending(stack))
  BY <1>1 DEF BlockInv
<1>3. Pending(stack) = {} /\ EXIT \in DOMAIN blocks
  <2>1. DOMAIN <<>> = {}
    OBVIOUS
  <2>2. Len(blocks) \in Nat /\ DOMAIN blocks = 1..Len(blocks)
    BY <1>2, BlocksAreSequences
  <2> QED BY <1>1, <1>2, <2>1, <2>2 DEF Pending, EXIT
<1>4. Br(EXIT).op \in Terminators /\ ret.op \in Terminators
  BY BrIs DEF Terminators
<1> HIDE DEF ret
<1>5. IsBlocks(mid) /\ Len(mid) = Len(blocks) /\ DOMAIN mid = DOMAIN blocks
  BY <1>2, EmitIsBlocks
<1>6. ShapeOf(mid, 0, {})
  <2>1. at \notin {} \cup {EXIT} /\ ShapeOf(blocks, at, {})
    BY <1>1, <1>2, <1>3
  <2> QED BY <1>2, <1>4, <2>1, ShapeEnd
<1> HIDE DEF mid
<1>7. ShapeOf(mid, EXIT, {})
  <2>1. {} = {} \ {EXIT} /\ EXIT # 0 /\ EXIT \in {} \cup {EXIT}
    BY DEF EXIT
  <2> QED BY <1>5, <1>6, <2>1, ShapeBegin
<1>8. EXIT \in DOMAIN mid /\ Open(mid[EXIT])
  BY <1>3, <1>5, <1>7 DEF ShapeOf
<1>9. IsBlocks(blocks') /\ Len(blocks') = Len(blocks) /\ DOMAIN blocks' = DOMAIN mid
  BY <1>1, <1>5, <1>8, EmitIsBlocks
<1>10. \A b \in DOMAIN mid : b # EXIT => blocks'[b] = mid[b]
  BY <1>1, <1>5, <1>8, EmitProps
<1>11. Closed(blocks'[EXIT])
  BY <1>1, <1>4, <1>5, <1>8, OpenIsClosed
<1>12. \A b \in DOMAIN mid : b # EXIT => Closed(mid[b])
  BY <1>7 DEF ShapeOf
<1>13. \A b \in DOMAIN blocks' : Closed(blocks'[b])
  BY <1>9, <1>10, <1>11, <1>12
<1> QED BY <1>1, <1>2, <1>3, <1>5, <1>8, <1>9, <1>13 DEF BlockInv

-----------------------------------------------------------------------------
LEMMA BlockInit == GenInit => BlockInv
<1> SUFFICES ASSUME GenInit PROVE BlockInv
  OBVIOUS
<1> DEFINE f == Frame(prog, <<>>, NoLoop)
           br == Br(BODY)
<1>1. /\ prog \in Programs /\ blocks = << <<br>>, <<>>, <<>> >> /\ at = 2
      /\ value = VOID /\ stack = <<f>>
  BY DEF GenInit, BODY
<1>2. prog \in Nodes
  BY <1>1, ProgramsAssumption
<1>3. f \in Frames /\ f.next = 1 /\ f.node = prog
  <2>1. <<>> \in Seq(Nat) /\ VOID \in Seq(Nat)
    BY VoidIs
  <2> QED BY <1>2, <2>1 DEF Frame, Frames, NoLoop, EXIT
<1>4. br.op \in Terminators
  BY BrIs
<1> HIDE DEF f, br
<1>5. Width(f) \in Nat
  BY <1>2, <1>3, KidsAre
<1>6. stack \in Seq(Frames) /\ DOMAIN stack = {1} /\ stack[1] = f
  BY <1>1, <1>3
<1>7. IsStack(stack)
  BY <1>3, <1>5, <1>6 DEF IsStack
<1>8. Later(f) = {} /\ Again(f) = {}
  BY <1>3, OwnedAtFirst
<1>9. OwnedApart(stack, Len(blocks)) /\ Pending(stack) = {}
  BY <1>6, <1>8 DEF OwnedApart, Pending, Owned
<1>10. IsBlocks(blocks) /\ Len(blocks) = 3
  <2>1. <<br>> \in Seq({br}) /\ <<>> \in Seq({br})
    OBVIOUS
  <2> DEFINE B == Seq({br})
  <2> HIDE DEF B
  <2>2. <<br>> \in B /\ <<>> \in B
    BY <2>1 DEF B
  <2>3. blocks \in Seq(B) /\ Len(blocks) = 3
    BY <1>1, <2>2
  <2> QED BY <2>3 DEF IsBlocks, B
<1>11. ShapeOf(blocks, 2, {})
  <2>1. DOMAIN blocks = {1, 2, 3} /\ blocks[1] = <<br>> /\ blocks[2] = <<>> /\ blocks[3] = <<>>
    BY <1>1
  <2>2. Closed(<<br>>)
    BY <1>4 DEF Closed
  <2>3. Open(<<>>)
    BY DEF Open
  <2> QED BY <2>1, <2>2, <2>3 DEF ShapeOf, EXIT
<1>12. /\ EXIT <= Len(blocks) /\ at \in DOMAIN blocks /\ at # EXIT
       /\ ShapeOf(blocks, at, Pending(stack)) /\ at \notin Pending(stack)
  <2>1. EXIT <= Len(blocks) /\ at # EXIT
    BY <1>1, <1>10 DEF EXIT
  <2>2. at \in DOMAIN blocks
    BY <1>1
  <2>3. at \notin Pending(stack)
    BY <1>9
  <2>4. ShapeOf(blocks, at, Pending(stack))
    <3>1. at = 2 /\ Pending(stack) = {}
      BY <1>1, <1>9
    <3> QED BY <1>11, <3>1, Zenon
  <2> QED BY <2>1, <2>2, <2>3, <2>4
<1>13. value \in Seq(Nat)
  BY <1>1, VoidIs
<1> QED BY <1>7, <1>9, <1>10, <1>12, <1>13 DEF BlockInv

LEMMA BlockStep == BlockInv /\ [GenNext]_genVars => BlockInv'
<1> SUFFICES ASSUME BlockInv, [GenNext]_genVars PROVE BlockInv'
  OBVIOUS
<1>1. CASE GenNext
  BY <1>1, GenCallKeeps, GenJumpKeeps, NextChildKeeps, LeaveBlockKeeps, ReturnValueKeeps,
     LazyRightKeeps, LazyEndKeeps, IfConditionKeeps, IfBranchKeeps, ElseBranchKeeps, IfEndKeeps,
     IfExprEndKeeps, WhileConditionKeeps, WhileBodyKeeps, WhileEndKeeps, FunctionEndKeeps
  DEF GenNext
<1>2. CASE UNCHANGED genVars
  <2>1. blocks' = blocks /\ at' = at /\ value' = value /\ stack' = stack
    BY <1>2 DEF genVars
  <2> QED BY <2>1 DEF BlockInv
<1> QED BY <1>1, <1>2

\* At any time one block is being filled, the blocks that calls under way have
\* created for later are empty, and all others are done.
THEOREM BlocksAreFilled == GenSpec => []BlockInv
BY BlockInit, BlockStep, PTL DEF GenSpec

\* Code that follows a jump goes to a block of its own, so that every block of
\* a finished function ends in the one terminator it has, whatever the body.
THEOREM OneTerminatorEach == GenSpec => []OneTerminator
<1>1. BlockInv => OneTerminator
  BY DEF BlockInv, OneTerminator, Generated, Closed
<1> QED BY <1>1, BlocksAreFilled, PTL

-----------------------------------------------------------------------------
(***************************************************************************)
(* Every step preserves PhiInv.                                            *)
(***************************************************************************)

\* From bs to new, only the blocks of T get predecessors and only those of R
\* get phis.
Grown(bs, new, T, R) ==
  /\ \A c : c \notin T => PredecessorsIn(new, c) = PredecessorsIn(bs, c)
  /\ \A b \in DOMAIN bs : b \in DOMAIN new /\ (b \notin R /\ NoPhi(bs[b]) => NoPhi(new[b]))

LEMMA GrownTwice ==
  ASSUME NEW b1, NEW b2, NEW b3, NEW T1, NEW T2, NEW R1, NEW R2,
         Grown(b1, b2, T1, R1), Grown(b2, b3, T2, R2)
  PROVE  Grown(b1, b3, T1 \cup T2, R1 \cup R2)
<1>1. \A c : c \notin T1 \cup T2 => PredecessorsIn(b3, c) = PredecessorsIn(b1, c)
  BY DEF Grown
<1>2. \A b \in DOMAIN b1 : b \in DOMAIN b3 /\ (b \notin R1 \cup R2 /\ NoPhi(b1[b]) => NoPhi(b3[b]))
  BY DEF Grown
<1> QED BY <1>1, <1>2 DEF Grown

LEMMA NoPhiEmit ==
  ASSUME NEW bs, IsBlocks(bs), NEW a \in DOMAIN bs, NEW instr, NEW b \in DOMAIN bs,
         NoPhi(bs[b]), b = a => instr.op # "phi"
  PROVE  NoPhi(Emit(bs, a, instr)[b])
<1> DEFINE new == Emit(bs, a, instr)
<1>1. /\ \A c \in DOMAIN bs : c # a => new[c] = bs[c]
      /\ DOMAIN new[a] = 1..(Len(bs[a]) + 1) /\ new[a][Len(bs[a]) + 1] = instr
      /\ \A i \in DOMAIN bs[a] : new[a][i] = bs[a][i]
  BY EmitProps
<1>2. Len(bs[a]) \in Nat /\ DOMAIN bs[a] = 1..Len(bs[a])
  BY BlocksAreSequences
<1> HIDE DEF new
<1>3. NoPhi(new[b])
  <2>1. CASE b # a
    BY <1>1, <2>1
  <2>2. CASE b = a
    BY <1>1, <1>2, <2>2 DEF NoPhi
  <2> QED BY <2>1, <2>2
<1> QED BY <1>3 DEF new

LEMMA GrownPlain ==
  ASSUME NEW bs, IsBlocks(bs), NEW a \in DOMAIN bs, NEW instr, ~ IsBranch(instr),
         instr.op # "phi"
  PROVE  Grown(bs, Emit(bs, a, instr), {}, {})
BY EmitIsBlocks, PredecessorsStay, NoPhiEmit DEF Grown

LEMMA GrownPhi ==
  ASSUME NEW bs, IsBlocks(bs), NEW a \in DOMAIN bs, NEW instr, ~ IsBranch(instr)
  PROVE  Grown(bs, Emit(bs, a, instr), {}, {a})
BY EmitIsBlocks, PredecessorsStay, NoPhiEmit DEF Grown

LEMMA GrownBranch ==
  ASSUME NEW bs, IsBlocks(bs), NEW a \in DOMAIN bs, NEW instr, IsBranch(instr)
  PROVE  Grown(bs, Emit(bs, a, instr), instr.to, {})
<1>1. instr.op # "phi"
  BY DEF IsBranch
<1>2. ASSUME NEW c, c \notin instr.to
      PROVE  PredecessorsIn(Emit(bs, a, instr), c) = PredecessorsIn(bs, c)
  <2>1. PredecessorsIn(Emit(bs, a, instr), c)
          = PredecessorsIn(bs, c) \cup (IF c \in instr.to THEN {a} ELSE {})
    BY PredecessorsGrow
  <2> QED BY <1>2, <2>1
<1>3. \A b \in DOMAIN bs : b \in DOMAIN Emit(bs, a, instr)
                           /\ (NoPhi(bs[b]) => NoPhi(Emit(bs, a, instr)[b]))
  BY <1>1, EmitIsBlocks, NoPhiEmit
<1> QED BY <1>2, <1>3 DEF Grown

LEMMA GrownCreated ==
  ASSUME NEW bs, IsBlocks(bs), NEW n \in Nat
  PROVE  Grown(bs, Created(bs, n), {}, {})
<1>1. \A c : PredecessorsIn(Created(bs, n), c) = PredecessorsIn(bs, c)
  BY PredecessorsOfCreated
<1>2. \A b \in DOMAIN bs : b \in DOMAIN Created(bs, n) /\ Created(bs, n)[b] = bs[b]
  BY CreatedProps
<1> QED BY <1>1, <1>2 DEF Grown

\* What a block that may be branched to is known to be.
LEMMA TargetsHaveNoPhi ==
  ASSUME BlockInv, AgainNoPhi(stack, blocks), stack # <<>>
  PROVE  /\ NoPhi(blocks[EXIT])
         /\ \A k \in DOMAIN stack : \A c \in Owned(stack[k]) : NoPhi(blocks[c])
<1>1. /\ Len(blocks) \in Nat /\ 3 <= Len(blocks) /\ DOMAIN blocks = 1..Len(blocks)
      /\ at # EXIT /\ at \notin Pending(stack) /\ ShapeOf(blocks, at, Pending(stack))
      /\ Pending(stack) \subseteq 4..Len(blocks)
  BY BlockFacts
<1>2. \A c \in Pending(stack) \cup {EXIT} : c \in DOMAIN blocks /\ c # at
  BY <1>1 DEF EXIT
<1>3. \A c \in Pending(stack) \cup {EXIT} : blocks[c] = <<>>
  BY <1>1, <1>2 DEF ShapeOf
<1>4. NoPhi(<<>>)
  BY DEF NoPhi
<1>5. \A k \in DOMAIN stack : Later(stack[k]) \subseteq Pending(stack)
  BY DEF Pending
<1>6. \A k \in DOMAIN stack : \A c \in Later(stack[k]) : NoPhi(blocks[c])
  BY <1>3, <1>4, <1>5
<1>7. NoPhi(blocks[EXIT])
  BY <1>3, <1>4
<1> QED BY <1>6, <1>7 DEF AgainNoPhi, Owned

LEMMA LoopsAfterDescend ==
  ASSUME NEW s, NEW n \in Nat \ {0}, DOMAIN s = 1..n, Len(s) = n, LoopsAround(s),
         NEW t, DOMAIN t = 1..(n + 1), SameBelow(s, t), t[n].loop = s[n].loop,
         \/ t[n + 1].loop = s[n].loop
         \/ /\ IsWhile(t[n]) /\ t[n].next = 3
            /\ t[n + 1].loop = LoopTargets(t[n].new, t[n].new + 1, t[n].new + 2)
  PROVE  LoopsAround(t)
<1> DEFINE Inside(r, loop, j) ==
             /\ IsWhile(r[j]) /\ r[j].next = 3
             /\ loop = LoopTargets(r[j].new, r[j].new + 1, r[j].new + 2)
<1> HIDE DEF Inside
<1>1. \A k \in 1..n : s[k].loop = NoLoop \/ \E j \in 1..(k - 1) : Inside(s, s[k].loop, j)
  BY DEF LoopsAround, Inside
<1>2. \A loop : \A j \in 1..(n - 1) : Inside(s, loop, j) => Inside(t, loop, j)
  BY DEF Inside, SameBelow
<1>3. \A k \in 1..n : t[k].loop = s[k].loop
  <2>1. \A k \in 1..n : k \in 1..(n - 1) \/ k = n
    OBVIOUS
  <2> QED BY <2>1 DEF SameBelow
<1>4. \A k \in 1..n : \A j \in 1..(k - 1) : j \in 1..(n - 1)
  OBVIOUS
<1>5. \A k \in 1..n : t[k].loop = NoLoop \/ \E j \in 1..(k - 1) : Inside(t, t[k].loop, j)
  BY <1>1, <1>2, <1>3, <1>4
<1>6. t[n + 1].loop = NoLoop \/ \E j \in 1..n : Inside(t, t[n + 1].loop, j)
  <2>1. CASE t[n + 1].loop = s[n].loop
    <3>1. n \in 1..n /\ \A j \in 1..(n - 1) : j \in 1..n
      OBVIOUS
    <3> QED BY <1>3, <1>5, <2>1, <3>1
  <2>2. CASE Inside(t, t[n + 1].loop, n)
    BY <2>2
  <2> QED BY <2>1, <2>2 DEF Inside
<1>7. \A k \in 1..(n + 1) : k \in 1..n \/ (k = n + 1 /\ k - 1 = n)
  OBVIOUS
<1>8. \A k \in 1..(n + 1) : t[k].loop = NoLoop \/ \E j \in 1..(k - 1) : Inside(t, t[k].loop, j)
  BY <1>5, <1>6, <1>7
<1> QED BY <1>8 DEF LoopsAround, Inside

LEMMA LoopsAfterLeave ==
  ASSUME NEW s, NEW n \in Nat \ {0}, DOMAIN s = 1..n, Len(s) = n, LoopsAround(s),
         NEW t, DOMAIN t = 1..(n - 1), SameBelow(s, t)
  PROVE  LoopsAround(t)
<1> SUFFICES ASSUME NEW k \in 1..(n - 1)
             PROVE  \/ t[k].loop = NoLoop
                    \/ \E j \in 1..(k - 1) :
                         /\ IsWhile(t[j]) /\ t[j].next = 3
                         /\ t[k].loop = LoopTargets(t[j].new, t[j].new + 1, t[j].new + 2)
  BY DEF LoopsAround
<1>1. \/ s[k].loop = NoLoop
      \/ \E j \in 1..(k - 1) :
           /\ IsWhile(s[j]) /\ s[j].next = 3
           /\ s[k].loop = LoopTargets(s[j].new, s[j].new + 1, s[j].new + 2)
  BY DEF LoopsAround
<1>2. t[k] = s[k] /\ \A j \in 1..(k - 1) : t[j] = s[j]
  BY DEF SameBelow
<1> QED BY <1>1, <1>2

InOneBlock == {"CALL", "BLOCK", "BLOCK_EXPR"}

\* Nothing but what is simple happens in a branch of an if expression.
LEMMA StraightAfterDescend ==
  ASSUME NEW s, NEW n \in Nat \ {0}, DOMAIN s = 1..n, Len(s) = n,
         NEW a, StraightOn(s, a), NEW b,
         NEW t, DOMAIN t = 1..(n + 1), Len(t) = n + 1, SameBelow(s, t), t[n + 1].next = 1,
         t[n].node = s[n].node,
         Kind(s[n]) \in InOneBlock => b = a /\ (s[n].node \in Simple => t[n + 1].node \in Simple),
         Kind(t[n]) = "IF_ELSE_EXPR" /\ t[n].next \in {3, 4} =>
           b = (IF t[n].next = 3 THEN t[n].new ELSE t[n].new + 2) /\ t[n + 1].node \in Simple
  PROVE  StraightOn(t, b)
<1> SUFFICES ASSUME NEW k \in 1..(n + 1), Kind(t[k]) = "IF_ELSE_EXPR", t[k].next \in {3, 4}
             PROVE  /\ b = IF t[k].next = 3 THEN t[k].new ELSE t[k].new + 2
                    /\ \A j \in (k + 1)..(n + 1) : t[j].node \in Simple
  BY DEF StraightOn
<1>1. CASE k \in 1..(n - 1)
  <2>1. t[k] = s[k] /\ k \in DOMAIN s /\ \A j \in 1..(n - 1) : t[j] = s[j]
    BY <1>1 DEF SameBelow
  <2>2. /\ a = IF s[k].next = 3 THEN s[k].new ELSE s[k].new + 2
        /\ \A j \in (k + 1)..n : s[j].node \in Simple
    BY <2>1 DEF StraightOn
  <2>3. s[n].node \in Simple
    BY <1>1, <2>2
  <2>4. Kind(s[n]) \in InOneBlock
    BY <2>3, SimpleAssumption DEF Kind, InOneBlock
  <2>5. \A j \in (k + 1)..(n + 1) : j \in (k + 1)..(n - 1) \/ j = n \/ j = n + 1
    OBVIOUS
  <2>6. \A j \in (k + 1)..(n - 1) : t[j] = s[j] /\ j \in (k + 1)..n
    BY <2>1
  <2> QED BY <2>1, <2>2, <2>3, <2>4, <2>5, <2>6
<1>2. CASE k = n
  <2>1. \A j \in (n + 1)..(n + 1) : j = n + 1
    OBVIOUS
  <2> QED BY <1>2, <2>1
<1>3. CASE k = n + 1
  BY <1>3
<1>4. k \in 1..(n - 1) \/ k = n \/ k = n + 1
  OBVIOUS
<1> QED BY <1>1, <1>2, <1>3, <1>4

LEMMA StraightAfterLeave ==
  ASSUME NEW s, NEW n \in Nat \ {0}, DOMAIN s = 1..n, Len(s) = n,
         NEW a, StraightOn(s, a), NEW b, Kind(s[n]) \in InOneBlock => b = a,
         NEW t, DOMAIN t = 1..(n - 1), Len(t) = n - 1, SameBelow(s, t)
  PROVE  StraightOn(t, b)
<1> SUFFICES ASSUME NEW k \in 1..(n - 1), Kind(t[k]) = "IF_ELSE_EXPR", t[k].next \in {3, 4}
             PROVE  /\ b = IF t[k].next = 3 THEN t[k].new ELSE t[k].new + 2
                    /\ \A j \in (k + 1)..(n - 1) : t[j].node \in Simple
  BY DEF StraightOn
<1>1. t[k] = s[k] /\ k \in DOMAIN s /\ \A j \in 1..(n - 1) : t[j] = s[j]
  BY DEF SameBelow
<1>2. /\ a = IF s[k].next = 3 THEN s[k].new ELSE s[k].new + 2
      /\ \A j \in (k + 1)..n : s[j].node \in Simple
  BY <1>1 DEF StraightOn
<1>3. s[n].node \in Simple
  BY <1>2
<1>4. Kind(s[n]) \in InOneBlock
  BY <1>3, SimpleAssumption DEF Kind, InOneBlock
<1>5. \A j \in (k + 1)..(n - 1) : t[j] = s[j] /\ j \in (k + 1)..n
  BY <1>1
<1> QED BY <1>1, <1>2, <1>4, <1>5

LEMMA JoinIsLater ==
  ASSUME NEW f, f.new \in Nat, Joins(f)
  PROVE  f.new + 1 \in Later(f) /\ f.new + 1 \in Owned(f)
<1>1. f.new + 1 \in Later(f)
  BY DEF Joins, Later, IsIf
<1> QED BY <1>1 DEF Owned

\* The joins of the calls further out.
JoinsBelow == {stack[k].new + 1 : k \in {j \in 1..(Len(stack) - 1) : Joins(stack[j])}}

\* What a call does with its own blocks and new ones leaves them alone.
LEMMA OwnTargets ==
  ASSUME BlockInv, stack # <<>>, NEW T,
         \A c \in T : c \in Owned(Top) \/ c = EXIT \/ c \in {Len(blocks) + 1, Len(blocks) + 2}
  PROVE  T \cap JoinsBelow = {}
<1> DEFINE n == Len(stack)
<1>1. /\ IsStack(stack) /\ OwnedApart(stack, Len(blocks)) /\ Len(blocks) \in Nat
  BY BlockFacts
<1>2. /\ n \in Nat \ {0} /\ DOMAIN stack = 1..n
      /\ \A k \in DOMAIN stack : stack[k] \in Frames
  BY <1>1, StackProps
<1> HIDE DEF n
<1>3. ASSUME NEW k \in 1..(n - 1), Joins(stack[k])
      PROVE  stack[k].new + 1 \notin T
  <2>1. k \in DOMAIN stack /\ k # n /\ n \in DOMAIN stack
    BY <1>2
  <2>2. stack[k].new \in Nat
    BY <1>2, <2>1 DEF Frames
  <2>3. stack[k].new + 1 \in Owned(stack[k])
    BY <1>3, <2>2, JoinIsLater
  <2>4. stack[k].new + 1 \notin Owned(Top)
    BY <1>1, <2>1, <2>3 DEF OwnedApart, Top, n
  <2>5. stack[k].new + 1 \in 4..Len(blocks)
    BY <1>1, <2>1, <2>3 DEF OwnedApart
  <2>6. \A c \in 4..Len(blocks) : c # EXIT /\ c \notin {Len(blocks) + 1, Len(blocks) + 2}
    BY <1>1 DEF EXIT
  <2> QED BY <2>4, <2>5, <2>6
<1> QED BY <1>3 DEF JoinsBelow, n

LEMMA PhiDescend ==
  ASSUME BlockInv, PhiInv, stack # <<>>, NEW f \in Frames, NEW loop \in Loops,
         f.next \in 1..Width(f), Descend(f, loop), f.node = Top.node, f.loop = Top.loop,
         EdgesWithin(blocks', 1..Len(blocks')), PhisRight(blocks'),
         NEW T, Grown(blocks, blocks', T, {}), T \cap JoinsBelow = {},
         NEW g, g = stack'[Len(stack)],
         Joins(g) => PredecessorsIn(blocks', g.new + 1) = Expected(g),
         \A b \in Again(g) : NoPhi(blocks'[b]),
         \/ loop = Top.loop
         \/ IsWhile(g) /\ g.next = 3 /\ loop = LoopTargets(g.new, g.new + 1, g.new + 2),
         Kind(Top) \in InOneBlock => at' = at,
         Kind(g) = "IF_ELSE_EXPR" /\ g.next \in {3, 4} =>
           at' = (IF g.next = 3 THEN g.new ELSE g.new + 2) /\ Kid(f.node, f.next) \in Simple
  PROVE  PhiInv'
<1> DEFINE n == Len(stack)
<1>1. /\ IsStack(stack) /\ OwnedApart(stack, Len(blocks)) /\ DOMAIN blocks = 1..Len(blocks)
  BY BlockFacts
<1>2. /\ n \in Nat \ {0} /\ DOMAIN stack = 1..n
      /\ Top.node \in Nodes
  BY <1>1, StackProps
<1>3. /\ Len(stack') = n + 1 /\ DOMAIN stack' = 1..(n + 1) /\ SameBelow(stack, stack')
      /\ g.node = Top.node /\ g.loop = Top.loop
      /\ stack'[n + 1].node = Kid(f.node, f.next)
      /\ stack'[n + 1].next = 1 /\ stack'[n + 1].loop = loop
  BY <1>1, DescendProps
<1>4. Top = stack[n] /\ g = stack'[n]
  BY DEF Top
<1> HIDE DEF n
<1>5. \A k \in 1..(n + 1) : (k \in 1..(n - 1) /\ stack'[k] = stack[k]) \/ k = n \/ k = n + 1
  <2>1. \A k \in 1..(n + 1) : k \in 1..(n - 1) \/ k = n \/ k = n + 1
    BY <1>2
  <2>2. \A k \in 1..(n - 1) : stack'[k] = stack[k]
    BY <1>3 DEF SameBelow, n
  <2> QED BY <2>1, <2>2
<1>6. 1..(n - 1) \subseteq DOMAIN stack
  BY <1>2
<1>7. AgainNoPhi(stack', blocks')
  <2>1. \A k \in 1..(n - 1) : \A b \in Again(stack[k]) : NoPhi(blocks'[b])
    <3>1. \A k \in DOMAIN stack : Again(stack[k]) \subseteq DOMAIN blocks
      BY <1>1 DEF OwnedApart, Owned
    <3>2. AgainNoPhi(stack, blocks)
      BY DEF PhiInv
    <3> QED BY <1>6, <3>1, <3>2 DEF AgainNoPhi, Grown
  <2>2. Again(stack'[n + 1]) = {}
    BY <1>3, OwnedAtFirst
  <2> QED BY <1>3, <1>4, <1>5, <2>1, <2>2 DEF AgainNoPhi
<1>8. ExpectedRight(stack', blocks')
  <2>1. ASSUME NEW k \in 1..(n - 1), Joins(stack[k])
        PROVE  PredecessorsIn(blocks', stack[k].new + 1) = Expected(stack[k])
    <3>1. stack[k].new + 1 \notin T
      BY <2>1 DEF JoinsBelow, n
    <3>2. PredecessorsIn(blocks', stack[k].new + 1) = PredecessorsIn(blocks, stack[k].new + 1)
      BY <3>1 DEF Grown
    <3>3. ExpectedRight(stack, blocks)
      BY DEF PhiInv
    <3> QED BY <1>6, <2>1, <3>2, <3>3 DEF ExpectedRight
  <2>2. ~ Joins(stack'[n + 1])
    BY <1>3 DEF Joins
  <2> QED BY <1>3, <1>4, <1>5, <2>1, <2>2 DEF ExpectedRight
<1>9. LoopsAround(stack')
  <2>1. LoopsAround(stack)
    BY DEF PhiInv
  <2>2. stack'[n].loop = stack[n].loop
    BY <1>3, <1>4
  <2>3. \/ stack'[n + 1].loop = stack[n].loop
        \/ /\ IsWhile(stack'[n]) /\ stack'[n].next = 3
           /\ stack'[n + 1].loop = LoopTargets(stack'[n].new, stack'[n].new + 1, stack'[n].new + 2)
    BY <1>3, <1>4
  <2> QED BY <1>2, <1>3, <2>1, <2>2, <2>3, LoopsAfterDescend DEF n
<1>10. StraightOn(stack', at')
  <2>1. StraightOn(stack, at)
    BY DEF PhiInv
  <2>2. Kind(stack[n]) \in InOneBlock => at' = at
    BY <1>4
  <2>3. stack[n].node \in Simple => stack'[n + 1].node \in Simple
    <3>1. ASSUME NEW m \in Simple, NEW i, i \in 1..Len(m.kids)
          PROVE  Kid(m, i) \in Simple
      <4>1. m.kids \in Seq(Nodes)
        BY SimpleAssumption, TreesAssumption
      <4>2. i \in DOMAIN m.kids
        BY <3>1, <4>1
      <4> QED BY <4>2, SimpleAssumption
    <3>2. f.next \in 1..Len(f.node.kids)
      BY DEF Width
    <3> QED BY <1>3, <1>4, <3>1, <3>2
  <2>4. Kind(stack'[n]) = "IF_ELSE_EXPR" /\ stack'[n].next \in {3, 4} =>
          /\ at' = (IF stack'[n].next = 3 THEN stack'[n].new ELSE stack'[n].new + 2)
          /\ stack'[n + 1].node \in Simple
    BY <1>3, <1>4
  <2>5. stack'[n].node = stack[n].node
    BY <1>3, <1>4
  <2> QED BY <1>2, <1>3, <2>1, <2>2, <2>3, <2>4, <2>5, StraightAfterDescend DEF n
<1> QED BY <1>7, <1>8, <1>9, <1>10 DEF PhiInv

LEMMA PhiLeave ==
  ASSUME BlockInv, PhiInv, stack # <<>>, NEW v, Leave(v),
         EdgesWithin(blocks', 1..Len(blocks')), PhisRight(blocks'),
         NEW T, NEW R, Grown(blocks, blocks', T, R), T \cap JoinsBelow = {}, R \subseteq Later(Top),
         Kind(Top) \in InOneBlock => at' = at
  PROVE  PhiInv'
<1> DEFINE n == Len(stack)
<1>1. /\ IsStack(stack) /\ OwnedApart(stack, Len(blocks)) /\ DOMAIN blocks = 1..Len(blocks)
  BY BlockFacts
<1>2. n \in Nat \ {0} /\ DOMAIN stack = 1..n
  BY <1>1, StackProps
<1>3. Len(stack') = n - 1 /\ DOMAIN stack' = 1..(n - 1) /\ SameBelow(stack, stack')
  BY <1>1, LeaveProps
<1>4. Top = stack[n]
  BY DEF Top
<1> HIDE DEF n
<1>5. \A k \in 1..(n - 1) : stack'[k] = stack[k] /\ k \in DOMAIN stack /\ k # n
  <2>1. \A k \in 1..(n - 1) : k \in 1..n /\ k # n
    BY <1>2
  <2>2. \A k \in 1..(n - 1) : stack'[k] = stack[k]
    BY <1>3 DEF SameBelow, n
  <2> QED BY <1>2, <2>1, <2>2
<1>6. n \in DOMAIN stack
  BY <1>2
<1>7. AgainNoPhi(stack', blocks')
  <2>1. \A k \in DOMAIN stack : Again(stack[k]) \subseteq DOMAIN blocks
    BY <1>1 DEF OwnedApart, Owned
  <2>2. AgainNoPhi(stack, blocks)
    BY DEF PhiInv
  <2>3. \A k \in 1..(n - 1) : Again(stack[k]) \cap R = {}
    BY <1>1, <1>4, <1>5, <1>6 DEF OwnedApart, Owned
  <2> QED BY <1>3, <1>5, <2>1, <2>2, <2>3 DEF AgainNoPhi, Grown
<1>8. ExpectedRight(stack', blocks')
  <2>1. ASSUME NEW k \in 1..(n - 1), Joins(stack[k])
        PROVE  PredecessorsIn(blocks', stack[k].new + 1) = Expected(stack[k])
    <3>1. stack[k].new + 1 \notin T
      BY <2>1 DEF JoinsBelow, n
    <3>2. PredecessorsIn(blocks', stack[k].new + 1) = PredecessorsIn(blocks, stack[k].new + 1)
      BY <3>1 DEF Grown
    <3>3. ExpectedRight(stack, blocks)
      BY DEF PhiInv
    <3> QED BY <1>5, <2>1, <3>2, <3>3 DEF ExpectedRight
  <2> QED BY <1>3, <1>5, <2>1 DEF ExpectedRight
<1>9. LoopsAround(stack')
  <2>1. LoopsAround(stack)
    BY DEF PhiInv
  <2> QED BY <1>2, <1>3, <2>1, LoopsAfterLeave DEF n
<1>10. StraightOn(stack', at')
  <2>1. StraightOn(stack, at)
    BY DEF PhiInv
  <2>2. Kind(stack[n]) \in InOneBlock => at' = at
    BY <1>4
  <2> QED BY <1>2, <1>3, <2>1, <2>2, StraightAfterLeave DEF n
<1> QED BY <1>7, <1>8, <1>9, <1>10 DEF PhiInv

\* A branch from the block at hand to where branches may lead.
LEMMA BranchFine ==
  ASSUME BlockInv, PhiInv, stack # <<>>, NEW instr, IsBranch(instr), NEW more \in Nat,
         \A c \in instr.to :
           \/ c = EXIT \/ c \in (Len(blocks) + 1)..(Len(blocks) + more)
           \/ \E k \in DOMAIN stack : c \in Owned(stack[k])
  PROVE  LET new == Emit(blocks, at, instr)
         IN  /\ IsBlocks(new) /\ Len(new) = Len(blocks)
             /\ PhisRight(new) /\ EdgesWithin(new, 1..(Len(blocks) + more))
             /\ Grown(blocks, new, instr.to, {})
<1> DEFINE all == 1..(Len(blocks) + more)
<1>1. /\ IsBlocks(blocks) /\ at \in DOMAIN blocks /\ Len(blocks) \in Nat /\ 3 <= Len(blocks)
      /\ DOMAIN blocks = 1..Len(blocks) /\ OwnedApart(stack, Len(blocks))
  BY BlockFacts
<1>2. PhisRight(blocks) /\ EdgesWithin(blocks, 1..Len(blocks)) /\ AgainNoPhi(stack, blocks)
  BY DEF PhiInv
<1>3. 1..Len(blocks) \subseteq all
  BY <1>1
<1>4. EdgesWithin(blocks, all)
  BY <1>2, <1>3, EdgesWiden
<1>5. ASSUME NEW c \in instr.to
      PROVE  c \in all /\ (c \in DOMAIN blocks => NoPhi(blocks[c]))
  <2>1. CASE c = EXIT
    <3>1. NoPhi(blocks[EXIT])
      BY <1>2, TargetsHaveNoPhi
    <3>2. EXIT \in all
      BY <1>1 DEF EXIT
    <3> QED BY <2>1, <3>1, <3>2
  <2>2. CASE c \in (Len(blocks) + 1)..(Len(blocks) + more)
    BY <1>1, <2>2
  <2>3. ASSUME NEW k \in DOMAIN stack, c \in Owned(stack[k])
        PROVE  c \in all /\ NoPhi(blocks[c])
    <3>1. NoPhi(blocks[c])
      BY <1>2, <2>3, TargetsHaveNoPhi
    <3>2. c \in 4..Len(blocks)
      BY <1>1, <2>3 DEF OwnedApart
    <3>3. 4..Len(blocks) \subseteq all
      BY <1>1
    <3> QED BY <3>1, <3>2, <3>3
  <2> QED BY <2>1, <2>2, <2>3
<1>6. instr.to \subseteq all
  BY <1>5
<1> HIDE DEF all
<1>7. PhisRight(Emit(blocks, at, instr)) /\ EdgesWithin(Emit(blocks, at, instr), all)
  BY <1>1, <1>2, <1>4, <1>5, <1>6, PhisBranch
<1>8. Grown(blocks, Emit(blocks, at, instr), instr.to, {})
  BY <1>1, GrownBranch
<1>9. IsBlocks(Emit(blocks, at, instr)) /\ Len(Emit(blocks, at, instr)) = Len(blocks)
  BY <1>1, EmitIsBlocks
<1> QED BY <1>7, <1>8, <1>9 DEF all

LEMMA CreatedFine ==
  ASSUME NEW bs, IsBlocks(bs), NEW n \in Nat, PhisRight(bs), NEW T, EdgesWithin(bs, T),
         NEW old, NEW S, NEW R, Grown(old, bs, S, R)
  PROVE  LET new == Created(bs, n)
         IN  /\ PhisRight(new) /\ EdgesWithin(new, T) /\ Len(new) = Len(bs) + n
             /\ Grown(old, new, S, R)
<1>1. PhisRight(Created(bs, n)) /\ EdgesWithin(Created(bs, n), T)
  BY PhisCreated
<1>2. Grown(bs, Created(bs, n), {}, {})
  BY GrownCreated
<1>3. Grown(old, Created(bs, n), S \cup {}, R \cup {})
  BY <1>2, GrownTwice
<1>4. S \cup {} = S /\ R \cup {} = R
  OBVIOUS
<1>5. Len(Created(bs, n)) = Len(bs) + n
  BY CreatedProps
<1>6. Grown(old, Created(bs, n), S, R)
  BY <1>3, <1>4
<1> QED BY <1>1, <1>5, <1>6

LEMMA SameIsGrown ==
  ASSUME NEW bs
  PROVE  Grown(bs, bs, {}, {})
BY DEF Grown

LEMMA LoopTarget ==
  ASSUME BlockInv, PhiInv, stack # <<>>, NEW c \in {Top.loop.brk, Top.loop.cont}
  PROVE  /\ c = EXIT \/ \E j \in DOMAIN stack : c \in Owned(stack[j])
         /\ {c} \cap JoinsBelow = {}
<1> DEFINE n == Len(stack)
<1>1. IsStack(stack) /\ OwnedApart(stack, Len(blocks)) /\ LoopsAround(stack)
  BY BlockFacts DEF PhiInv
<1>2. /\ n \in Nat \ {0} /\ DOMAIN stack = 1..n /\ Top = stack[n]
      /\ \A k \in DOMAIN stack : stack[k] \in Frames
  BY <1>1, StackProps DEF Top
<1> HIDE DEF n
<1>3. \A k \in DOMAIN stack : stack[k].new \in Nat
  BY <1>2 DEF Frames
<1>4. CASE Top.loop = NoLoop
  <2>1. c = EXIT
    BY <1>4 DEF NoLoop
  <2> QED BY <2>1, OwnTargets
<1>5. ASSUME NEW j \in 1..(n - 1), IsWhile(stack[j]), stack[j].next = 3,
             Top.loop = LoopTargets(stack[j].new, stack[j].new + 1, stack[j].new + 2)
      PROVE  j \in DOMAIN stack /\ c \in Owned(stack[j]) /\ {c} \cap JoinsBelow = {}
  <2>1. j \in DOMAIN stack
    BY <1>2, <1>5
  <2> DEFINE f == stack[j]
  <2>2. f.new \in Nat /\ IsWhile(f) /\ f.next = 3 /\ c \in {f.new + 2, f.new}
    BY <1>3, <1>5, <2>1 DEF LoopTargets
  <2> HIDE DEF f
  <2>3. c \in Owned(f)
    BY <2>2, OwnedByWhile DEF Owned
  <2>4. ASSUME NEW k \in 1..(n - 1), Joins(stack[k])
        PROVE  stack[k].new + 1 # c
    <3>1. k \in DOMAIN stack
      BY <1>2, <2>4
    <3>2. k # j
      BY <1>5, <2>4 DEF Joins, IsLazy, IsWhile
    <3>3. stack[k].new + 1 \in Owned(stack[k])
      BY <1>3, <2>4, <3>1, JoinIsLater
    <3> QED BY <1>1, <2>1, <2>3, <3>1, <3>2, <3>3 DEF OwnedApart, f
  <2> QED BY <2>1, <2>3, <2>4 DEF JoinsBelow, n, f
<1>6. \/ Top.loop = NoLoop
      \/ \E j \in 1..(n - 1) :
           /\ IsWhile(stack[j]) /\ stack[j].next = 3
           /\ Top.loop = LoopTargets(stack[j].new, stack[j].new + 1, stack[j].new + 2)
  <2>1. n \in DOMAIN stack
    BY <1>2
  <2> QED BY <1>1, <1>2, <2>1 DEF LoopsAround
<1>7. CASE \E j \in 1..(n - 1) :
             /\ IsWhile(stack[j]) /\ stack[j].next = 3
             /\ Top.loop = LoopTargets(stack[j].new, stack[j].new + 1, stack[j].new + 2)
  BY <1>5, <1>7
<1> QED BY <1>4, <1>6, <1>7

LEMMA GenCallPhi == BlockInv /\ PhiInv /\ GenCall => PhiInv'
<1> SUFFICES ASSUME BlockInv, PhiInv, GenCall PROVE PhiInv'
  OBVIOUS
<1> DEFINE call == [op |-> "call", dst |-> Top.path]
<1>1. stack # <<>> /\ blocks' = Emit(blocks, at, call) /\ Leave(Top.path) /\ at' = at
  BY DEF GenCall, Is
<1>2. IsBlocks(blocks) /\ at \in DOMAIN blocks
  BY <1>1, BlockFacts
<1>3. ~ IsBranch(call) /\ call.op # "phi"
  BY DEF IsBranch
<1>4. PhisRight(blocks) /\ EdgesWithin(blocks, 1..Len(blocks))
  BY DEF PhiInv
<1> HIDE DEF call
<1>5. PhisRight(blocks') /\ EdgesWithin(blocks', 1..Len(blocks)) /\ Grown(blocks, blocks', {}, {})
  BY <1>1, <1>2, <1>3, <1>4, PhisPlain, GrownPlain
<1>6. Len(blocks') = Len(blocks)
  BY <1>1, <1>2, EmitIsBlocks
<1>7. {} \cap JoinsBelow = {} /\ {} \subseteq Later(Top) /\ EdgesWithin(blocks', 1..Len(blocks'))
  BY <1>5, <1>6
<1> QED BY <1>1, <1>5, <1>7, PhiLeave

LEMMA GenJumpPhi == BlockInv /\ PhiInv /\ GenJump => PhiInv'
<1> SUFFICES ASSUME BlockInv, PhiInv, GenJump PROVE PhiInv'
  OBVIOUS
<1> DEFINE c == IF Top.node.kind = "BREAK" THEN Top.loop.brk ELSE Top.loop.cont
           mid == Emit(blocks, at, Br(c))
<1>1. /\ stack # <<>> /\ Kind(Top) \in {"BREAK", "CONTINUE"}
      /\ blocks' = Created(mid, 1) /\ Leave(VOID)
  BY DEF GenJump, Is, Kind, Dead
<1>2. c \in {Top.loop.brk, Top.loop.cont}
  OBVIOUS
<1> HIDE DEF c
<1>3. /\ c = EXIT \/ \E j \in DOMAIN stack : c \in Owned(stack[j])
      /\ {c} \cap JoinsBelow = {}
  BY <1>1, <1>2, LoopTarget
<1>4. IsBranch(Br(c)) /\ Br(c).to = {c}
  BY BrIs
<1>5. /\ IsBlocks(mid) /\ Len(mid) = Len(blocks) /\ PhisRight(mid)
      /\ EdgesWithin(mid, 1..(Len(blocks) + 1)) /\ Grown(blocks, mid, {c}, {})
  BY <1>1, <1>3, <1>4, BranchFine
<1> HIDE DEF mid
<1>6. /\ PhisRight(Created(mid, 1)) /\ EdgesWithin(Created(mid, 1), 1..(Len(blocks) + 1))
      /\ Len(Created(mid, 1)) = Len(mid) + 1 /\ Grown(blocks, Created(mid, 1), {c}, {})
  BY <1>5, CreatedFine
<1>7. /\ PhisRight(blocks') /\ EdgesWithin(blocks', 1..Len(blocks'))
      /\ Grown(blocks, blocks', {c}, {}) /\ {} \subseteq Later(Top)
  BY <1>1, <1>5, <1>6
<1>8. Kind(Top) \notin InOneBlock
  BY <1>1 DEF InOneBlock
<1> QED BY <1>1, <1>3, <1>7, <1>8, PhiLeave

LEMMA ReturnValuePhi == BlockInv /\ PhiInv /\ ReturnValue => PhiInv'
<1> SUFFICES ASSUME BlockInv, PhiInv, ReturnValue PROVE PhiInv'
  OBVIOUS
<1> DEFINE store == [op |-> "store", val |-> value]
           mid == Emit(blocks, at, store)
           br == Br(EXIT)
           final == Emit(mid, at, br)
<1>1. /\ stack # <<>> /\ Kind(Top) = "RETURN" /\ blocks' = Created(final, 1) /\ Leave(VOID)
  BY DEF ReturnValue, Is, Kind, Dead
<1>2. /\ IsBlocks(blocks) /\ at \in DOMAIN blocks /\ Len(blocks) \in Nat /\ 3 <= Len(blocks)
      /\ DOMAIN blocks = 1..Len(blocks)
  BY <1>1, BlockFacts
<1>3. ~ IsBranch(store) /\ store.op # "phi"
  BY DEF IsBranch
<1>4. PhisRight(blocks) /\ EdgesWithin(blocks, 1..Len(blocks)) /\ AgainNoPhi(stack, blocks)
  BY DEF PhiInv
<1> HIDE DEF store
<1>5. /\ PhisRight(mid) /\ EdgesWithin(mid, 1..Len(blocks)) /\ Grown(blocks, mid, {}, {})
      /\ IsBlocks(mid) /\ Len(mid) = Len(blocks) /\ DOMAIN mid = DOMAIN blocks
  BY <1>2, <1>3, <1>4, PhisPlain, GrownPlain, EmitIsBlocks
<1>6. EXIT \in 1..Len(blocks) /\ NoPhi(mid[EXIT])
  <2>1. EXIT \in 1..Len(blocks)
    BY <1>2 DEF EXIT
  <2>2. NoPhi(blocks[EXIT])
    BY <1>1, <1>4, TargetsHaveNoPhi
  <2> QED BY <1>2, <1>5, <2>1, <2>2 DEF Grown
<1> HIDE DEF mid
<1>7. IsBranch(br) /\ br.to = {EXIT}
  BY BrIs
<1> HIDE DEF br
<1>8. /\ PhisRight(final) /\ EdgesWithin(final, 1..Len(blocks))
      /\ Grown(mid, final, {EXIT}, {}) /\ IsBlocks(final) /\ Len(final) = Len(blocks)
  <2>1. at \in DOMAIN mid /\ br.to \subseteq 1..Len(blocks)
    BY <1>2, <1>5, <1>6, <1>7
  <2>2. \A c \in br.to : c \in DOMAIN mid => NoPhi(mid[c])
    BY <1>6, <1>7
  <2>3. PhisRight(final) /\ EdgesWithin(final, 1..Len(blocks))
    BY <1>5, <1>7, <2>1, <2>2, PhisBranch
  <2>4. Grown(mid, final, {EXIT}, {})
    BY <1>5, <1>7, <2>1, GrownBranch
  <2>5. IsBlocks(final) /\ Len(final) = Len(mid)
    BY <1>5, <2>1, EmitIsBlocks
  <2> QED BY <1>5, <2>3, <2>4, <2>5
<1> HIDE DEF final
<1>9. Grown(blocks, final, {EXIT}, {})
  <2>1. Grown(blocks, final, {} \cup {EXIT}, {} \cup {})
    BY <1>5, <1>8, GrownTwice
  <2>2. {} \cup {EXIT} = {EXIT} /\ {} \cup {} = {}
    OBVIOUS
  <2> QED BY <2>1, <2>2
<1>10. EdgesWithin(final, 1..(Len(blocks) + 1))
  <2>1. 1..Len(blocks) \subseteq 1..(Len(blocks) + 1)
    BY <1>2
  <2> QED BY <1>8, <2>1, EdgesWiden
<1>11. /\ PhisRight(Created(final, 1)) /\ EdgesWithin(Created(final, 1), 1..(Len(blocks) + 1))
       /\ Len(Created(final, 1)) = Len(final) + 1 /\ Grown(blocks, Created(final, 1), {EXIT}, {})
  BY <1>8, <1>9, <1>10, CreatedFine
<1>12. /\ PhisRight(blocks') /\ EdgesWithin(blocks', 1..Len(blocks'))
       /\ Grown(blocks, blocks', {EXIT}, {}) /\ {} \subseteq Later(Top)
  BY <1>1, <1>8, <1>11
<1>13. {EXIT} \cap JoinsBelow = {}
  BY <1>1, OwnTargets
<1>14. Kind(Top) \notin InOneBlock
  BY <1>1 DEF InOneBlock
<1> QED BY <1>1, <1>12, <1>13, <1>14, PhiLeave

LEMMA NextChildPhi == BlockInv /\ PhiInv /\ NextChild => PhiInv'
<1> SUFFICES ASSUME BlockInv, PhiInv, NextChild PROVE PhiInv'
  OBVIOUS
<1> DEFINE g == stack'[Len(stack)]
<1>1. /\ stack # <<>> /\ Kind(Top) \in {"BLOCK", "BLOCK_EXPR", "RETURN", "AND", "OR"}
      /\ Descend(Top, Top.loop) /\ blocks' = blocks /\ at' = at
      /\ \/ Kind(Top) \in {"RETURN", "AND", "OR"} /\ Top.next = 1
         \/ Kind(Top) \in {"BLOCK", "BLOCK_EXPR"} /\ HasKid(Top.node, Top.next)
  BY DEF NextChild, Is, Kind
<1>2. IsStack(stack)
  BY <1>1, BlockFacts
<1>3. Top \in Frames /\ Top.node \in Nodes /\ Top.loop \in Loops
  BY <1>1, <1>2, StackProps
<1>4. Top.next \in 1..Width(Top)
  BY <1>1, <1>3, KidsAre
<1>5. Kind(g) = Kind(Top) /\ g.next = Top.next + 1
  BY <1>1, <1>2, <1>3, <1>4, DescendProps
<1> HIDE DEF g
<1>6. ~ Joins(g) /\ Again(g) = {}
  BY <1>1, <1>5 DEF Joins, IsLazy, Again, IsWhile
<1>7. Kind(g) # "IF_ELSE_EXPR"
  BY <1>1, <1>5
<1>8. /\ PhisRight(blocks') /\ EdgesWithin(blocks', 1..Len(blocks'))
      /\ Grown(blocks, blocks', {}, {}) /\ {} \cap JoinsBelow = {}
  BY <1>1, SameIsGrown DEF PhiInv
<1>9. g = stack'[Len(stack)]
  BY DEF g
<1> QED BY <1>1, <1>3, <1>4, <1>6, <1>7, <1>8, <1>9, PhiDescend

LEMMA LeaveBlockPhi == BlockInv /\ PhiInv /\ LeaveBlock => PhiInv'
<1> SUFFICES ASSUME BlockInv, PhiInv, LeaveBlock PROVE PhiInv'
  OBVIOUS
<1> DEFINE v == IF Top.node.kind = "BLOCK" THEN VOID ELSE value
<1>1. stack # <<>> /\ Leave(v) /\ blocks' = blocks /\ at' = at
  BY DEF LeaveBlock, Is
<1> HIDE DEF v
<1>2. /\ PhisRight(blocks') /\ EdgesWithin(blocks', 1..Len(blocks'))
      /\ Grown(blocks, blocks', {}, {}) /\ {} \cap JoinsBelow = {} /\ {} \subseteq Later(Top)
  BY <1>1, SameIsGrown DEF PhiInv
<1> QED BY <1>1, <1>2, PhiLeave

\* The phi of a join: the block at hand is the last to branch there.
LEMMA JoinEnd ==
  ASSUME BlockInv, PhiInv, stack # <<>>, Joins(Top), NEW rest, rest = Top.new + 1,
         NEW phi, ~ IsBranch(phi), Sources(phi) = Expected(Top) \cup {at},
         blocks' = Emit(Emit(blocks, at, Br(rest)), rest, phi), NEW v, Leave(v)
  PROVE  PhiInv'
<1> DEFINE br == Br(rest)
           mid == Emit(blocks, at, br)
<1>1. /\ IsBlocks(blocks) /\ at \in DOMAIN blocks /\ Len(blocks) \in Nat
      /\ DOMAIN blocks = 1..Len(blocks) /\ IsStack(stack) /\ Owned(Top) \subseteq 4..Len(blocks)
  BY BlockFacts
<1>2. /\ Len(stack) \in DOMAIN stack /\ Top = stack[Len(stack)] /\ Top.new \in Nat
  BY <1>1, StackProps DEF Top
<1>3. rest \in Later(Top) /\ rest \in Owned(Top)
  BY <1>2, JoinIsLater
<1>4. rest \in DOMAIN blocks
  BY <1>1, <1>3
<1>5. IsBranch(br) /\ br.to = {rest}
  BY BrIs
<1> HIDE DEF br
<1>6. /\ IsBlocks(mid) /\ Len(mid) = Len(blocks) /\ PhisRight(mid)
      /\ EdgesWithin(mid, 1..(Len(blocks) + 0)) /\ Grown(blocks, mid, {rest}, {})
  BY <1>2, <1>3, <1>5, BranchFine
<1>7. PredecessorsIn(mid, rest) = Sources(phi)
  <2>1. PredecessorsIn(mid, rest) = PredecessorsIn(blocks, rest) \cup {at}
    <3>1. IsBlocks(blocks) /\ at \in DOMAIN blocks /\ IsBranch(br) /\ rest \in br.to
      BY <1>1, <1>5
    <3> QED BY <3>1, TargetIsReached
  <2>2. PredecessorsIn(blocks, rest) = Expected(Top)
    BY <1>2 DEF PhiInv, ExpectedRight
  <2> QED BY <2>1, <2>2
<1>8. DOMAIN mid = DOMAIN blocks /\ 1..(Len(blocks) + 0) = 1..Len(blocks)
  <2>1. 1..(Len(blocks) + 0) = 1..Len(blocks)
    BY <1>1
  <2>2. IsBlocks(blocks) /\ at \in DOMAIN blocks
    BY <1>1
  <2> QED BY <2>1, <2>2, EmitIsBlocks
<1>9. blocks' = Emit(mid, rest, phi)
  BY DEF br
<1> HIDE DEF mid
<1>10. rest \in DOMAIN mid /\ EdgesWithin(mid, 1..Len(blocks))
  BY <1>4, <1>6, <1>8
<1>11. /\ PhisRight(Emit(mid, rest, phi)) /\ EdgesWithin(Emit(mid, rest, phi), 1..Len(blocks))
  BY <1>6, <1>7, <1>10, PhisPlain
<1>12. Grown(mid, Emit(mid, rest, phi), {}, {rest}) /\ Len(Emit(mid, rest, phi)) = Len(mid)
  BY <1>6, <1>10, GrownPhi, EmitIsBlocks
<1>13. Grown(blocks, blocks', {rest}, {rest})
  <2>1. Grown(blocks, Emit(mid, rest, phi), {rest} \cup {}, {} \cup {rest})
    BY <1>6, <1>12, GrownTwice
  <2>2. {rest} \cup {} = {rest} /\ {} \cup {rest} = {rest}
    OBVIOUS
  <2> QED BY <1>9, <2>1, <2>2
<1>14. PhisRight(blocks') /\ EdgesWithin(blocks', 1..Len(blocks')) /\ {rest} \subseteq Later(Top)
  BY <1>3, <1>6, <1>9, <1>11, <1>12
<1>15. {rest} \cap JoinsBelow = {}
  BY <1>3, OwnTargets
<1>16. Kind(Top) \notin InOneBlock
  BY DEF Joins, IsLazy, InOneBlock
<1> QED BY <1>13, <1>14, <1>15, <1>16, PhiLeave

LEMMA LazyEndPhi == BlockInv /\ PhiInv /\ LazyEnd => PhiInv'
<1> SUFFICES ASSUME BlockInv, PhiInv, LazyEnd PROVE PhiInv'
  OBVIOUS
<1> DEFINE rest == Top.new + 1
           in == LazyIncoming(Top.from, Top.val, at, value, Top.new)
           phi == Phi(Top.path, in)
<1>1. /\ stack # <<>> /\ IsLazy(Top) /\ Top.next = 3
      /\ blocks' = Emit(Emit(blocks, at, Br(rest)), rest, phi) /\ Leave(Top.path)
  BY DEF LazyEnd, Is, IsLazy, Kind
<1>2. ~ IsBranch(phi) /\ Sources(phi) = DOMAIN in
  BY PhiIs
<1>3. DOMAIN in = {Top.from, at}
  BY DEF LazyIncoming
<1>4. Expected(Top) = {Top.from}
  BY <1>1 DEF Expected
<1>5. Joins(Top)
  BY <1>1 DEF Joins
<1> HIDE DEF phi, in
<1>6. Sources(phi) = Expected(Top) \cup {at}
  BY <1>2, <1>3, <1>4
<1> QED BY <1>1, <1>2, <1>5, <1>6, JoinEnd

LEMMA IfExprEndPhi == BlockInv /\ PhiInv /\ IfExprEnd => PhiInv'
<1> SUFFICES ASSUME BlockInv, PhiInv, IfExprEnd PROVE PhiInv'
  OBVIOUS
<1> DEFINE rest == Top.new + 1
           in == IfIncoming(Top.new, Top.val, ElseBlock, value)
           phi == Phi(Top.path, in)
<1>1. /\ stack # <<>> /\ Kind(Top) = "IF_ELSE_EXPR" /\ Top.next = 4
      /\ blocks' = Emit(Emit(blocks, at, Br(rest)), rest, phi) /\ Leave(Top.path)
  BY DEF IfExprEnd, Is, Kind
<1>2. IsStack(stack)
  BY <1>1, BlockFacts
<1>3. Top.node \in Nodes /\ Len(stack) \in DOMAIN stack /\ Top = stack[Len(stack)]
  BY <1>1, <1>2, StackProps DEF Top
<1>4. ElseBlock = Top.new + 2
  BY <1>1, <1>3, KidsAre DEF ElseBlock, HasElse
<1>5. at = Top.new + 2
  BY <1>1, <1>3 DEF PhiInv, StraightOn
<1>6. ~ IsBranch(phi) /\ Sources(phi) = DOMAIN in
  BY PhiIs
<1>7. DOMAIN in = {Top.new, ElseBlock}
  BY DEF IfIncoming
<1>8. Expected(Top) = {Top.new} /\ Joins(Top)
  BY <1>1 DEF Expected, Joins, IsLazy
<1> HIDE DEF phi, in
<1>9. Sources(phi) = Expected(Top) \cup {at}
  BY <1>4, <1>5, <1>6, <1>7, <1>8
<1> QED BY <1>1, <1>6, <1>8, <1>9, JoinEnd

LEMMA LazyRightPhi == BlockInv /\ PhiInv /\ LazyRight => PhiInv'
<1> SUFFICES ASSUME BlockInv, PhiInv, LazyRight PROVE PhiInv'
  OBVIOUS
<1> DEFINE right == Len(blocks) + 1
           rest == right + 1
           branch == IF Top.node.kind = "AND" THEN CondBr(value, right, rest)
                     ELSE CondBr(value, rest, right)
           mid == Emit(blocks, at, branch)
           f == [Top EXCEPT !.new = right, !.val = value, !.from = at]
           g == stack'[Len(stack)]
<1>1. /\ stack # <<>> /\ IsLazy(Top) /\ Top.next = 2
      /\ blocks' = Created(mid, 2) /\ Descend(f, Top.loop)
  BY DEF LazyRight, Is, IsLazy, Kind
<1>2. /\ IsBlocks(blocks) /\ at \in DOMAIN blocks /\ IsStack(stack) /\ Len(blocks) \in Nat
      /\ DOMAIN blocks = 1..Len(blocks) /\ value \in Seq(Nat)
  BY <1>1, BlockFacts
<1>3. Top \in Frames /\ Top.node \in Nodes /\ Top.loop \in Loops
  BY <1>1, <1>2, StackProps
<1>4. Width(Top) = 2
  BY <1>1, <1>3, KidsAre DEF IsLazy
<1>5. /\ f \in Frames /\ f.node = Top.node /\ f.next = 2 /\ f.new = right /\ f.from = at
      /\ f.loop = Top.loop
  <2>1. right \in Nat /\ at \in Nat
    BY <1>2
  <2> HIDE DEF right
  <2> DEFINE t == Top
  <2> HIDE DEF t
  <2>2. t \in Frames /\ t.next = 2 /\ f = [t EXCEPT !.new = right, !.val = value, !.from = at]
    BY <1>1, <1>3 DEF t
  <2> HIDE DEF f
  <2>3. /\ f \in Frames /\ f.node = t.node /\ f.next = 2 /\ f.new = right /\ f.from = at
        /\ f.loop = t.loop
    BY <1>2, <2>1, <2>2 DEF Frames
  <2> QED BY <2>3 DEF t
<1>6. IsBranch(branch) /\ branch.to = {right, rest}
  BY CondBrIs
<1>7. /\ right \in (Len(blocks) + 1)..(Len(blocks) + 2) /\ rest \in (Len(blocks) + 1)..(Len(blocks) + 2)
      /\ {right, rest} = {Len(blocks) + 1, Len(blocks) + 2} /\ rest \notin 1..Len(blocks)
  BY <1>2
<1> HIDE DEF branch, f, g, right, rest
<1>8. /\ IsBlocks(mid) /\ Len(mid) = Len(blocks) /\ PhisRight(mid)
      /\ EdgesWithin(mid, 1..(Len(blocks) + 2)) /\ Grown(blocks, mid, {right, rest}, {})
  BY <1>1, <1>6, <1>7, BranchFine
<1>9. PredecessorsIn(mid, rest) = {at}
  <2>1. PredecessorsIn(mid, rest)
          = PredecessorsIn(blocks, rest) \cup (IF rest \in branch.to THEN {at} ELSE {})
    BY <1>2, <1>6, PredecessorsGrow
  <2>2. PredecessorsIn(blocks, rest) = {}
    BY <1>7, NoEdgesToMissing DEF PhiInv
  <2> HIDE DEF mid
  <2> QED BY <1>6, <2>1, <2>2
<1> HIDE DEF mid
<1>10. /\ PhisRight(Created(mid, 2)) /\ EdgesWithin(Created(mid, 2), 1..(Len(blocks) + 2))
       /\ Len(Created(mid, 2)) = Len(mid) + 2 /\ Grown(blocks, Created(mid, 2), {right, rest}, {})
       /\ PredecessorsIn(Created(mid, 2), rest) = {at}
  BY <1>8, <1>9, CreatedFine, PredecessorsOfCreated
<1>11. /\ PhisRight(blocks') /\ EdgesWithin(blocks', 1..Len(blocks'))
       /\ Grown(blocks, blocks', {right, rest}, {}) /\ PredecessorsIn(blocks', rest) = {at}
  BY <1>1, <1>8, <1>10
<1>12. Kind(f) = Kind(Top) /\ Width(f) = Width(Top)
  BY <1>5, SameNode
<1>13. f.next \in 1..Width(f)
  BY <1>4, <1>5, <1>12
<1>14. Kind(g) = Kind(Top) /\ g.next = 3 /\ g.new = right /\ g.from = at
  BY <1>1, <1>2, <1>3, <1>5, <1>12, <1>13, DescendProps DEF g
<1>15. Again(g) = {} /\ Expected(g) = {at} /\ Kind(g) # "IF_ELSE_EXPR"
  BY <1>1, <1>14 DEF Again, Expected, IsLazy, IsWhile
<1>16. PredecessorsIn(blocks', g.new + 1) = Expected(g)
  BY <1>11, <1>14, <1>15 DEF rest
<1>17. {right, rest} \cap JoinsBelow = {}
  BY <1>1, <1>7, OwnTargets
<1>18. Kind(Top) \notin InOneBlock /\ g = stack'[Len(stack)]
  BY <1>1 DEF IsLazy, InOneBlock, g
<1> QED BY <1>1, <1>3, <1>5, <1>11, <1>13, <1>15, <1>16, <1>17, <1>18, PhiDescend

LEMMA IfConditionPhi == BlockInv /\ PhiInv /\ IfCondition => PhiInv'
<1> SUFFICES ASSUME BlockInv, PhiInv, IfCondition PROVE PhiInv'
  OBVIOUS
<1> DEFINE n == IF HasElse THEN 3 ELSE 2
           new == Len(blocks) + 1
           f == [Top EXCEPT !.new = new]
           g == stack'[Len(stack)]
<1>1. /\ stack # <<>> /\ IsIf(Top) /\ Top.next = 1
      /\ blocks' = Created(blocks, n) /\ Descend(f, Top.loop)
  BY DEF IfCondition, Is, IsIf, Kind
<1>2. IsBlocks(blocks) /\ IsStack(stack) /\ Len(blocks) \in Nat
  BY <1>1, BlockFacts
<1>3. Top \in Frames /\ Top.node \in Nodes /\ Top.loop \in Loops
  BY <1>1, <1>2, StackProps
<1>4. Width(Top) \in {2, 3}
  BY <1>1, <1>3, KidsAre DEF IsIf
<1>5. f \in Frames /\ f.node = Top.node /\ f.next = Top.next /\ f.new = new /\ f.loop = Top.loop
  <2>1. new \in Nat
    BY <1>2
  <2> HIDE DEF new
  <2> QED BY <1>3, <2>1, FrameWithNew, Zenon
<1>6. n \in Nat
  OBVIOUS
<1>7. new + 1 \notin 1..Len(blocks) /\ 1..Len(blocks) \subseteq 1..(Len(blocks) + n)
  BY <1>2, <1>6
<1> HIDE DEF n, f, g, new
<1>8. Kind(f) = Kind(Top) /\ Width(f) = Width(Top)
  BY <1>5, SameNode
<1>9. f.next \in 1..Width(f)
  BY <1>1, <1>4, <1>5, <1>8
<1>10. Kind(g) = Kind(Top) /\ g.next = 2 /\ g.new = new
  BY <1>1, <1>2, <1>3, <1>5, <1>8, <1>9, DescendProps DEF g
<1>11. PhisRight(blocks) /\ EdgesWithin(blocks, 1..Len(blocks)) /\ Grown(blocks, blocks, {}, {})
  BY SameIsGrown DEF PhiInv
<1>12. EdgesWithin(blocks, 1..(Len(blocks) + n))
  BY <1>7, <1>11, EdgesWiden
<1>13. /\ PhisRight(Created(blocks, n)) /\ EdgesWithin(Created(blocks, n), 1..(Len(blocks) + n))
       /\ Len(Created(blocks, n)) = Len(blocks) + n /\ Grown(blocks, Created(blocks, n), {}, {})
  BY <1>2, <1>6, <1>11, <1>12, CreatedFine
<1>14. /\ PhisRight(blocks') /\ EdgesWithin(blocks', 1..Len(blocks'))
       /\ Grown(blocks, blocks', {}, {}) /\ {} \cap JoinsBelow = {}
  BY <1>1, <1>13
<1>15. PredecessorsIn(blocks', new + 1) = {}
  <2>1. PredecessorsIn(blocks, new + 1) = {}
    BY <1>7, <1>11, NoEdgesToMissing
  <2> QED BY <1>14, <2>1 DEF Grown
<1>16. Expected(g) = {} /\ Again(g) = {}
  BY <1>1, <1>10 DEF Expected, IsLazy, IsIf, Again, IsWhile
<1>17. Kind(Top) \notin InOneBlock /\ g = stack'[Len(stack)]
  BY <1>1 DEF IsIf, InOneBlock, g
<1>18. /\ PredecessorsIn(blocks', g.new + 1) = Expected(g) /\ \A b \in Again(g) : NoPhi(blocks'[b])
       /\ g.next \notin {3, 4}
  BY <1>10, <1>15, <1>16
<1> QED BY <1>1, <1>3, <1>5, <1>9, <1>14, <1>17, <1>18, PhiDescend

LEMMA IfBranchPhi ==
  ASSUME StraightAssumption
  PROVE  BlockInv /\ PhiInv /\ IfBranch => PhiInv'
<1> SUFFICES ASSUME BlockInv, PhiInv, IfBranch PROVE PhiInv'
  OBVIOUS
<1> DEFINE new == Top.new
           branch == CondBr(value, new, ElseBlock)
           g == stack'[Len(stack)]
<1>1. /\ stack # <<>> /\ IsIf(Top) /\ Top.next = 2 /\ at' = new
      /\ blocks' = Emit(blocks, at, branch) /\ Descend(Top, Top.loop)
  BY DEF IfBranch, Is, IsIf, Kind
<1>2. Len(blocks) \in Nat /\ IsStack(stack) /\ Later(Top) \subseteq Owned(Top)
  BY <1>1, BlockFacts
<1>3. /\ Top \in Frames /\ Top.node \in Nodes /\ Top.loop \in Loops /\ new \in Nat
      /\ Len(stack) \in DOMAIN stack /\ Top = stack[Len(stack)]
  BY <1>1, <1>2, StackProps DEF Top
<1>4. Width(Top) \in {2, 3} /\ (HasElse <=> Width(Top) = 3)
  BY <1>1, <1>3, KidsAre DEF IsIf, HasElse
<1>5. ElseBlock = IF Width(Top) = 3 THEN new + 2 ELSE new + 1
  BY <1>4 DEF ElseBlock
<1>6. Later(Top) = {new} \cup {new + 1} \cup (IF Width(Top) = 3 THEN {new + 2} ELSE {})
  BY <1>1, <1>3, OwnedByIf
<1>7. new \in Owned(Top) /\ ElseBlock \in Owned(Top)
  BY <1>2, <1>5, <1>6
<1>8. Top.next \in 1..Width(Top)
  BY <1>1, <1>4
<1>9. IsBranch(branch) /\ branch.to = {new, ElseBlock}
  BY CondBrIs
<1> HIDE DEF branch, g
<1>10. /\ PhisRight(blocks') /\ EdgesWithin(blocks', 1..(Len(blocks) + 0)) /\ Len(blocks') = Len(blocks)
       /\ Grown(blocks, blocks', {new, ElseBlock}, {})
  BY <1>1, <1>3, <1>7, <1>9, BranchFine
<1>11. EdgesWithin(blocks', 1..Len(blocks')) /\ {new, ElseBlock} \cap JoinsBelow = {}
  <2>1. 1..(Len(blocks) + 0) = 1..Len(blocks')
    BY <1>2, <1>10
  <2> QED BY <1>1, <1>7, <1>10, <2>1, OwnTargets
<1>12. Kind(g) = Kind(Top) /\ g.next = 3 /\ g.new = new
  BY <1>1, <1>2, <1>3, <1>8, DescendProps DEF g
<1>13. Joins(g) => PredecessorsIn(blocks', g.new + 1) = Expected(g)
  <2> SUFFICES ASSUME Joins(g) PROVE PredecessorsIn(blocks', g.new + 1) = Expected(g)
    OBVIOUS
  <2>1. Kind(Top) = "IF_ELSE_EXPR"
    BY <1>1, <1>12 DEF Joins, IsIf, IsLazy
  <2>2. Joins(Top) /\ Expected(Top) = {} /\ Expected(g) = {}
    BY <1>1, <1>12, <2>1 DEF Joins, Expected, IsLazy
  <2>3. PredecessorsIn(blocks, new + 1) = {}
    BY <1>3, <2>2 DEF PhiInv, ExpectedRight
  <2>4. Width(Top) = 3
    BY <1>3, <2>1, KidsAre
  <2>5. new + 1 \notin {new, ElseBlock}
    BY <1>3, <1>5, <2>4
  <2> QED BY <1>10, <1>12, <2>2, <2>3, <2>5 DEF Grown
<1>14. Again(g) = {}
  BY <1>1, <1>12 DEF Again, IsWhile, IsIf
<1>15. Kind(g) = "IF_ELSE_EXPR" => Kid(Top.node, 2) \in Simple
  BY <1>3, <1>12 DEF StraightAssumption, Kind
<1>16. Kind(Top) \notin InOneBlock /\ g = stack'[Len(stack)]
  BY <1>1 DEF IsIf, InOneBlock, g
<1> HIDE DEF new
<1> QED BY <1>1, <1>3, <1>8, <1>10, <1>11, <1>12, <1>13, <1>14, <1>15, <1>16, PhiDescend

LEMMA ElseBranchPhi ==
  ASSUME StraightAssumption
  PROVE  BlockInv /\ PhiInv /\ ElseBranch => PhiInv'
<1> SUFFICES ASSUME BlockInv, PhiInv, ElseBranch PROVE PhiInv'
  OBVIOUS
<1> DEFINE new == Top.new
           branch == Br(new + 1)
           f == [Top EXCEPT !.val = value]
           g == stack'[Len(stack)]
<1>1. /\ stack # <<>> /\ IsIf(Top) /\ Top.next = 3 /\ HasElse /\ at' = ElseBlock
      /\ blocks' = Emit(blocks, at, branch) /\ Descend(f, Top.loop)
  BY DEF ElseBranch, Is, IsIf, Kind
<1>2. /\ IsBlocks(blocks) /\ at \in DOMAIN blocks /\ Len(blocks) \in Nat /\ IsStack(stack)
      /\ Later(Top) \subseteq Owned(Top) /\ value \in Seq(Nat)
  BY <1>1, BlockFacts
<1>3. /\ Top \in Frames /\ Top.node \in Nodes /\ Top.loop \in Loops /\ new \in Nat
      /\ Len(stack) \in DOMAIN stack /\ Top = stack[Len(stack)]
  BY <1>1, <1>2, StackProps DEF Top
<1>4. Width(Top) = 3 /\ at' = new + 2
  BY <1>1, <1>3, KidsAre DEF IsIf, HasElse, ElseBlock
<1>5. new + 1 \in Owned(Top)
  BY <1>1, <1>2, <1>3, <1>4, OwnedByIf
<1>6. f \in Frames /\ f.node = Top.node /\ f.next = Top.next /\ f.new = new /\ f.loop = Top.loop
  BY <1>2, <1>3, FrameWithVal, Zenon
<1>7. IsBranch(branch) /\ branch.to = {new + 1}
  BY BrIs
<1> HIDE DEF branch, f, g
<1>8. Kind(f) = Kind(Top) /\ Width(f) = Width(Top)
  BY <1>6, SameNode
<1>9. f.next \in 1..Width(f)
  BY <1>1, <1>4, <1>6, <1>8
<1>10. Kind(g) = Kind(Top) /\ g.next = 4 /\ g.new = new
  BY <1>1, <1>2, <1>3, <1>6, <1>8, <1>9, DescendProps DEF g
<1>11. /\ PhisRight(blocks') /\ EdgesWithin(blocks', 1..(Len(blocks) + 0)) /\ Len(blocks') = Len(blocks)
       /\ Grown(blocks, blocks', {new + 1}, {})
  BY <1>1, <1>3, <1>5, <1>7, BranchFine
<1>12. EdgesWithin(blocks', 1..Len(blocks')) /\ {new + 1} \cap JoinsBelow = {}
  <2>1. 1..(Len(blocks) + 0) = 1..Len(blocks')
    BY <1>2, <1>11
  <2> QED BY <1>1, <1>5, <1>11, <2>1, OwnTargets
<1>13. Joins(g) => PredecessorsIn(blocks', g.new + 1) = Expected(g)
  <2> SUFFICES ASSUME Joins(g) PROVE PredecessorsIn(blocks', g.new + 1) = Expected(g)
    OBVIOUS
  <2>1. Kind(Top) = "IF_ELSE_EXPR"
    BY <1>1, <1>10 DEF Joins, IsIf, IsLazy
  <2>2. Joins(Top) /\ Expected(Top) = {} /\ Expected(g) = {new}
    BY <1>1, <1>10, <2>1 DEF Joins, Expected, IsLazy
  <2>3. PredecessorsIn(blocks, new + 1) = {}
    BY <1>3, <2>2 DEF PhiInv, ExpectedRight
  <2>4. at = new
    BY <1>1, <1>3, <2>1 DEF PhiInv, StraightOn
  <2>5. PredecessorsIn(Emit(blocks, at, branch), new + 1) = PredecessorsIn(blocks, new + 1) \cup {at}
    <3>1. new + 1 \in branch.to
      BY <1>7
    <3> QED BY <1>2, <1>7, <3>1, TargetIsReached
  <2>6. PredecessorsIn(blocks', new + 1) = {new}
    BY <1>1, <2>3, <2>4, <2>5
  <2> QED BY <1>10, <2>2, <2>6
<1>14. Again(g) = {}
  BY <1>1, <1>10 DEF Again, IsWhile, IsIf
<1>15. Kind(g) = "IF_ELSE_EXPR" => Kid(f.node, 3) \in Simple
  BY <1>3, <1>6, <1>10 DEF StraightAssumption, Kind
<1>16. Kind(Top) \notin InOneBlock /\ g = stack'[Len(stack)] /\ f.next = 3
  BY <1>1, <1>6 DEF IsIf, InOneBlock, g
<1>17. Kind(g) = "IF_ELSE_EXPR" /\ g.next \in {3, 4} =>
         at' = (IF g.next = 3 THEN g.new ELSE g.new + 2) /\ Kid(f.node, f.next) \in Simple
  BY <1>4, <1>10, <1>15, <1>16
<1> HIDE DEF new
<1> QED BY <1>1, <1>3, <1>6, <1>9, <1>11, <1>12, <1>13, <1>14, <1>16, <1>17, PhiDescend

LEMMA IfEndPhi == BlockInv /\ PhiInv /\ IfEnd => PhiInv'
<1> SUFFICES ASSUME BlockInv, PhiInv, IfEnd PROVE PhiInv'
  OBVIOUS
<1> DEFINE rest == Top.new + 1
           branch == Br(rest)
<1>1. /\ stack # <<>> /\ Kind(Top) = "IF_ELSE" /\ Top.next = Width(Top) + 1
      /\ blocks' = Emit(blocks, at, branch) /\ Leave(VOID)
  BY DEF IfEnd, Is, Kind, Width
<1>2. IsStack(stack) /\ Later(Top) \subseteq Owned(Top) /\ Len(blocks) \in Nat
  BY <1>1, BlockFacts
<1>3. /\ Top.node \in Nodes /\ Top.new \in Nat
      /\ Len(stack) \in DOMAIN stack /\ Top = stack[Len(stack)]
  BY <1>1, <1>2, StackProps DEF Top
<1>4. Width(Top) \in {2, 3}
  BY <1>1, <1>3, KidsAre
<1>5. IsIf(Top)
  BY <1>1 DEF IsIf
<1>6. rest \in Owned(Top)
  BY <1>1, <1>2, <1>3, <1>4, <1>5, OwnedByIf
<1>7. IsBranch(branch) /\ branch.to = {rest}
  BY BrIs
<1> HIDE DEF branch, rest
<1>8. /\ PhisRight(blocks') /\ EdgesWithin(blocks', 1..(Len(blocks) + 0)) /\ Len(blocks') = Len(blocks)
      /\ Grown(blocks, blocks', {rest}, {})
  BY <1>1, <1>3, <1>6, <1>7, BranchFine
<1>9. EdgesWithin(blocks', 1..Len(blocks')) /\ {rest} \cap JoinsBelow = {} /\ {} \subseteq Later(Top)
  <2>1. 1..(Len(blocks) + 0) = 1..Len(blocks')
    BY <1>2, <1>8
  <2> QED BY <1>1, <1>6, <1>8, <2>1, OwnTargets
<1>10. Kind(Top) \notin InOneBlock
  BY <1>1 DEF InOneBlock
<1> QED BY <1>1, <1>8, <1>9, <1>10, PhiLeave

LEMMA WhileConditionPhi == BlockInv /\ PhiInv /\ WhileCondition => PhiInv'
<1> SUFFICES ASSUME BlockInv, PhiInv, WhileCondition PROVE PhiInv'
  OBVIOUS
<1> DEFINE cond == Len(blocks) + 1
           branch == Br(cond)
           mid == Emit(blocks, at, branch)
           f == [Top EXCEPT !.new = cond]
           g == stack'[Len(stack)]
<1>1. /\ stack # <<>> /\ IsWhile(Top) /\ Top.next = 1
      /\ blocks' = Created(mid, 3) /\ Descend(f, Top.loop)
  BY DEF WhileCondition, Is, IsWhile, Kind
<1>2. /\ IsBlocks(blocks) /\ at \in DOMAIN blocks /\ IsStack(stack) /\ Len(blocks) \in Nat
      /\ DOMAIN blocks = 1..Len(blocks)
  BY <1>1, BlockFacts
<1>3. Top \in Frames /\ Top.node \in Nodes /\ Top.loop \in Loops
  BY <1>1, <1>2, StackProps
<1>4. Width(Top) = 2
  BY <1>1, <1>3, KidsAre DEF IsWhile
<1>5. f \in Frames /\ f.node = Top.node /\ f.next = Top.next /\ f.new = cond /\ f.loop = Top.loop
  <2>1. cond \in Nat
    BY <1>2
  <2> HIDE DEF cond
  <2> QED BY <1>3, <2>1, FrameWithNew, Zenon
<1>6. IsBranch(branch) /\ branch.to = {cond}
  BY BrIs
<1>7. /\ cond \in (Len(blocks) + 1)..(Len(blocks) + 3)
      /\ cond \in {Len(blocks) + 1, Len(blocks) + 2} /\ cond \in 1..(Len(blocks) + 3)
      /\ cond \notin DOMAIN blocks
  BY <1>2
<1> HIDE DEF branch, f, g
<1>8. /\ IsBlocks(mid) /\ Len(mid) = Len(blocks) /\ PhisRight(mid)
      /\ EdgesWithin(mid, 1..(Len(blocks) + 3)) /\ Grown(blocks, mid, {cond}, {})
  <2> HIDE DEF cond
  <2> QED BY <1>1, <1>6, <1>7, BranchFine
<1>9. DOMAIN mid = DOMAIN blocks
  BY <1>2, EmitIsBlocks
<1> HIDE DEF mid
<1>10. /\ PhisRight(Created(mid, 3)) /\ EdgesWithin(Created(mid, 3), 1..(Len(blocks) + 3))
       /\ Len(Created(mid, 3)) = Len(mid) + 3 /\ Grown(blocks, Created(mid, 3), {cond}, {})
  BY <1>8, CreatedFine
<1>11. NoPhi(blocks'[cond])
  <2>1. \A c \in (Len(mid) + 1)..(Len(mid) + 3) : Created(mid, 3)[c] = <<>>
    BY <1>8, CreatedProps
  <2>2. cond \in (Len(mid) + 1)..(Len(mid) + 3)
    BY <1>7, <1>8
  <2>3. NoPhi(<<>>)
    BY DEF NoPhi
  <2> QED BY <1>1, <2>1, <2>2, <2>3
<1>12. /\ PhisRight(blocks') /\ EdgesWithin(blocks', 1..Len(blocks'))
       /\ Grown(blocks, blocks', {cond}, {})
  BY <1>1, <1>8, <1>10
<1>13. Kind(f) = Kind(Top) /\ Width(f) = Width(Top)
  BY <1>5, SameNode
<1>14. f.next \in 1..Width(f)
  BY <1>1, <1>4, <1>5, <1>13
<1>15. Kind(g) = Kind(Top) /\ g.next = 2 /\ g.new = cond
  BY <1>1, <1>2, <1>3, <1>5, <1>13, <1>14, DescendProps DEF g
<1>16. ~ Joins(g) /\ Kind(g) # "IF_ELSE_EXPR" /\ Again(g) \subseteq {cond}
  BY <1>1, <1>15 DEF Joins, IsLazy, IsWhile, Again
<1>17. {cond} \cap JoinsBelow = {}
  BY <1>1, <1>7, OwnTargets
<1>18. Kind(Top) \notin InOneBlock /\ g = stack'[Len(stack)]
  BY <1>1 DEF IsWhile, InOneBlock, g
<1>19. \A b \in Again(g) : NoPhi(blocks'[b])
  BY <1>11, <1>16
<1> HIDE DEF cond
<1> QED BY <1>1, <1>3, <1>5, <1>12, <1>14, <1>16, <1>17, <1>18, <1>19, PhiDescend

LEMMA WhileBodyPhi == BlockInv /\ PhiInv /\ WhileBody => PhiInv'
<1> SUFFICES ASSUME BlockInv, PhiInv, WhileBody PROVE PhiInv'
  OBVIOUS
<1> DEFINE c == Top.new + 1
           rest == Top.new + 2
           branch == CondBr(value, c, rest)
           loop == LoopTargets(Top.new, c, rest)
           g == stack'[Len(stack)]
<1>1. /\ stack # <<>> /\ IsWhile(Top) /\ Top.next = 2
      /\ blocks' = Emit(blocks, at, branch) /\ Descend(Top, loop)
  BY DEF WhileBody, Is, IsWhile, Kind
<1>2. /\ Len(blocks) \in Nat /\ IsStack(stack) /\ Owned(Top) \subseteq 4..Len(blocks)
      /\ DOMAIN blocks = 1..Len(blocks)
  BY <1>1, BlockFacts
<1>3. /\ Top \in Frames /\ Top.node \in Nodes /\ Top.new \in Nat
      /\ Len(stack) \in DOMAIN stack /\ Top = stack[Len(stack)]
  BY <1>1, <1>2, StackProps DEF Top
<1>4. Width(Top) = 2
  BY <1>1, <1>3, KidsAre DEF IsWhile
<1>5. loop \in Loops
  BY <1>3 DEF Loops, LoopTargets
<1>6. Top.next \in 1..Width(Top)
  BY <1>1, <1>4
<1>7. IsBranch(branch) /\ branch.to = {c, rest}
  BY CondBrIs
<1>8. Later(Top) = {c} \cup {rest} /\ Again(Top) = {Top.new}
  BY <1>1, <1>3, OwnedByWhile
<1>9. c \in Owned(Top) /\ rest \in Owned(Top) /\ Top.new \in Owned(Top)
  BY <1>8 DEF Owned
<1> HIDE DEF branch, g
<1>10. /\ PhisRight(blocks') /\ EdgesWithin(blocks', 1..(Len(blocks) + 0)) /\ Len(blocks') = Len(blocks)
       /\ Grown(blocks, blocks', {c, rest}, {})
  <2> HIDE DEF c, rest, loop
  <2> QED BY <1>1, <1>3, <1>7, <1>9, BranchFine
<1>11. EdgesWithin(blocks', 1..Len(blocks')) /\ {c, rest} \cap JoinsBelow = {}
  <2>1. 1..(Len(blocks) + 0) = 1..Len(blocks')
    BY <1>2, <1>10
  <2> HIDE DEF c, rest, loop
  <2> QED BY <1>1, <1>9, <1>10, <2>1, OwnTargets
<1>12. Kind(g) = Kind(Top) /\ g.next = 3 /\ g.new = Top.new
  BY <1>1, <1>2, <1>3, <1>5, <1>6, DescendProps DEF g
<1>13. ~ Joins(g) /\ Kind(g) # "IF_ELSE_EXPR" /\ IsWhile(g) /\ Again(g) \subseteq {Top.new}
  BY <1>1, <1>12 DEF Joins, IsLazy, IsWhile, Again
<1>14. NoPhi(blocks'[Top.new])
  <2>1. NoPhi(blocks[Top.new])
    BY <1>3, <1>8 DEF PhiInv, AgainNoPhi
  <2>2. Top.new \in DOMAIN blocks
    <3>1. 4..Len(blocks) \subseteq DOMAIN blocks
      BY <1>2
    <3> QED BY <1>2, <1>9, <3>1
  <2> QED BY <1>10, <2>1, <2>2 DEF Grown
<1>15. \A b \in Again(g) : NoPhi(blocks'[b])
  BY <1>13, <1>14
<1>16. Kind(Top) \notin InOneBlock /\ g = stack'[Len(stack)]
  BY <1>1 DEF IsWhile, InOneBlock, g
<1>17. loop = LoopTargets(g.new, g.new + 1, g.new + 2)
  BY <1>12
<1> HIDE DEF c, rest, loop
<1> QED BY <1>1, <1>3, <1>5, <1>6, <1>10, <1>11, <1>12, <1>13, <1>15, <1>16, <1>17, PhiDescend

LEMMA WhileEndPhi == BlockInv /\ PhiInv /\ WhileEnd => PhiInv'
<1> SUFFICES ASSUME BlockInv, PhiInv, WhileEnd PROVE PhiInv'
  OBVIOUS
<1> DEFINE c == Top.new
           branch == Br(c)
<1>1. /\ stack # <<>> /\ IsWhile(Top) /\ Top.next = 3
      /\ blocks' = Emit(blocks, at, branch) /\ Leave(VOID)
  BY DEF WhileEnd, Is, IsWhile, Kind
<1>2. IsStack(stack) /\ Len(blocks) \in Nat
  BY <1>1, BlockFacts
<1>3. Top.new \in Nat /\ Len(stack) \in DOMAIN stack /\ Top = stack[Len(stack)]
  BY <1>1, <1>2, StackProps DEF Top
<1>4. c \in Owned(Top)
  BY <1>1, <1>3, OwnedByWhile DEF Owned
<1>5. IsBranch(branch) /\ branch.to = {c}
  BY BrIs
<1> HIDE DEF branch, c
<1>6. /\ PhisRight(blocks') /\ EdgesWithin(blocks', 1..(Len(blocks) + 0)) /\ Len(blocks') = Len(blocks)
      /\ Grown(blocks, blocks', {c}, {})
  BY <1>1, <1>3, <1>4, <1>5, BranchFine
<1>7. EdgesWithin(blocks', 1..Len(blocks')) /\ {c} \cap JoinsBelow = {} /\ {} \subseteq Later(Top)
  <2>1. 1..(Len(blocks) + 0) = 1..Len(blocks')
    BY <1>2, <1>6
  <2> QED BY <1>1, <1>4, <1>6, <2>1, OwnTargets
<1>8. Kind(Top) \notin InOneBlock
  BY <1>1 DEF IsWhile, InOneBlock
<1> QED BY <1>1, <1>6, <1>7, <1>8, PhiLeave

LEMMA FunctionEndPhi == BlockInv /\ PhiInv /\ FunctionEnd => PhiInv'
<1> SUFFICES ASSUME BlockInv, PhiInv, FunctionEnd PROVE PhiInv'
  OBVIOUS
<1> DEFINE br == Br(EXIT)
           mid == Emit(blocks, at, br)
           ret == [op |-> "ret"]
           all == 1..Len(blocks)
<1>1. /\ stack = <<>> /\ at # EXIT /\ blocks' = Emit(mid, EXIT, ret) /\ stack' = stack
  BY DEF FunctionEnd
<1>2. /\ IsBlocks(blocks) /\ EXIT <= Len(blocks) /\ at \in DOMAIN blocks
      /\ ShapeOf(blocks, at, Pending(stack))
  BY <1>1 DEF BlockInv
<1>3. DOMAIN blocks = all /\ Len(blocks) \in Nat
  BY <1>2, BlocksAreSequences
<1>4. EXIT \in DOMAIN blocks /\ EXIT \in all
  BY <1>2, <1>3 DEF EXIT
<1>5. NoPhi(blocks[EXIT])
  <2>1. blocks[EXIT] = <<>>
    BY <1>1, <1>2, <1>4 DEF ShapeOf
  <2> QED BY <2>1 DEF NoPhi
<1>6. IsBranch(br) /\ br.to = {EXIT} /\ ~ IsBranch(ret) /\ ret.op # "phi"
  BY BrIs DEF IsBranch
<1>7. PhisRight(blocks) /\ EdgesWithin(blocks, all)
  BY DEF PhiInv
<1> HIDE DEF br, ret, all
<1>8. PhisRight(mid) /\ EdgesWithin(mid, all)
  BY <1>2, <1>4, <1>5, <1>6, <1>7, PhisBranch
<1>9. IsBlocks(mid) /\ Len(mid) = Len(blocks) /\ DOMAIN mid = DOMAIN blocks
  BY <1>2, EmitIsBlocks
<1> HIDE DEF mid
<1>10. PhisRight(blocks') /\ EdgesWithin(blocks', all) /\ Len(blocks') = Len(blocks)
  BY <1>1, <1>4, <1>6, <1>8, <1>9, PhisPlain, EmitIsBlocks
<1>11. DOMAIN stack' = {}
  BY <1>1
<1>12. /\ AgainNoPhi(stack', blocks') /\ ExpectedRight(stack', blocks')
       /\ LoopsAround(stack') /\ StraightOn(stack', at')
  BY <1>11 DEF AgainNoPhi, ExpectedRight, LoopsAround, StraightOn
<1>13. EdgesWithin(blocks', 1..Len(blocks'))
  BY <1>10 DEF all
<1> QED BY <1>10, <1>12, <1>13 DEF PhiInv

-----------------------------------------------------------------------------
LEMMA PhiInit == GenInit => PhiInv
<1> SUFFICES ASSUME GenInit PROVE PhiInv
  OBVIOUS
<1> DEFINE f == Frame(prog, <<>>, NoLoop)
           br == Br(BODY)
<1>1. blocks = << <<br>>, <<>>, <<>> >> /\ stack = <<f>>
  BY DEF GenInit
<1>2. f.next = 1 /\ f.loop = NoLoop
  BY DEF Frame
<1>3. IsBranch(br) /\ br.to = {2}
  BY BrIs DEF BODY
<1> HIDE DEF f, br
<1>4. br.op # "phi"
  BY <1>3 DEF IsBranch
<1>5. /\ Len(blocks) = 3 /\ DOMAIN blocks = {1, 2, 3}
      /\ blocks[1] = <<br>> /\ blocks[2] = <<>> /\ blocks[3] = <<>>
  BY <1>1
<1>6. ASSUME NEW b \in DOMAIN blocks, NEW i \in DOMAIN blocks[b]
      PROVE  blocks[b][i] = br
  BY <1>5
<1>7. PhisRight(blocks)
  BY <1>4, <1>6 DEF PhisRight
<1>8. EdgesWithin(blocks, 1..Len(blocks))
  BY <1>3, <1>5, <1>6 DEF EdgesWithin
<1>9. DOMAIN stack = {1} /\ stack[1] = f
  BY <1>1
<1>10. Again(f) = {}
  BY <1>2, OwnedAtFirst
<1>11. AgainNoPhi(stack, blocks) /\ ExpectedRight(stack, blocks)
  BY <1>2, <1>9, <1>10 DEF AgainNoPhi, ExpectedRight, Joins
<1>12. LoopsAround(stack) /\ StraightOn(stack, at)
  BY <1>2, <1>9 DEF LoopsAround, StraightOn
<1> QED BY <1>7, <1>8, <1>11, <1>12 DEF PhiInv

LEMMA PhiStep ==
  ASSUME StraightAssumption
  PROVE  BlockInv /\ PhiInv /\ [GenNext]_genVars => PhiInv'
<1> SUFFICES ASSUME BlockInv, PhiInv, [GenNext]_genVars PROVE PhiInv'
  OBVIOUS
<1>1. CASE GenNext
  BY <1>1, GenCallPhi, GenJumpPhi, NextChildPhi, LeaveBlockPhi, ReturnValuePhi,
     LazyRightPhi, LazyEndPhi, IfConditionPhi, IfBranchPhi, ElseBranchPhi, IfEndPhi,
     IfExprEndPhi, WhileConditionPhi, WhileBodyPhi, WhileEndPhi, FunctionEndPhi
  DEF GenNext
<1>2. CASE UNCHANGED genVars
  <2>1. blocks' = blocks /\ at' = at /\ stack' = stack
    BY <1>2 DEF genVars
  <2> QED BY <2>1 DEF PhiInv
<1> QED BY <1>1, <1>2

\* If no branch of an if expression begins a block, every phi of a finished
\* function names the blocks that control can come from, whatever the body;
\* nothing is assumed of the operands of "and" and "or", which may end in
\* another block than they began in.
THEOREM PhisNamePredecessors ==
  ASSUME StraightAssumption
  PROVE  GenSpec => []PhiMatchesPredecessors
<1>1. PhiInv => PhiMatchesPredecessors
  BY DEF PhiInv, PhisRight, Sources, PredecessorsIn, PhiMatchesPredecessors, Predecessors
<1>2. GenInit => BlockInv /\ PhiInv
  BY BlockInit, PhiInit
<1>3. BlockInv /\ PhiInv /\ [GenNext]_genVars => (BlockInv /\ PhiInv)'
  BY BlockStep, PhiStep
<1> QED BY <1>1, <1>2, <1>3, PTL DEF GenSpec

-----------------------------------------------------------------------------
(***************************************************************************)
(* What the check finds.                                                   *)
(***************************************************************************)

\* The check is what one step of it makes of itself: the nodes that every set
\* of nodes closed under the step contains are a solution.
LEMMA EndsIsSolved == \E ends : ends = [n \in Nodes |-> EndsIn(ends, n)]
<1> DEFINE As(S) == [n \in Nodes |-> n \in S]
           Full(S) == \A n \in Nodes : EndsIn(As(S), n) => n \in S
           T == {n \in Nodes : \A S \in SUBSET Nodes : Full(S) => n \in S}
<1>1. ASSUME NEW S, NEW R, S \subseteq R, NEW n \in Nodes, EndsIn(As(S), n)
      PROVE  EndsIn(As(R), n)
  <2>1. \A m \in Nodes : As(S)[m] => As(R)[m]
    BY <1>1
  <2>2. \A i \in DOMAIN n.kids : Kid(n, i) \in Nodes
    BY TreesAssumption DEF Kid
  <2>3. n.kind \in {"IF_ELSE", "IF_ELSE_EXPR", "WHILE"} => 1 \in DOMAIN n.kids /\ 2 \in DOMAIN n.kids
    BY TreesAssumption DEF Arity
  <2> HIDE DEF As
  <2> QED BY <1>1, <2>1, <2>2, <2>3 DEF EndsIn, HasKid
<1> HIDE DEF As
<1>2. Full(T)
  <2> SUFFICES ASSUME NEW n \in Nodes, EndsIn(As(T), n), NEW S \in SUBSET Nodes, Full(S)
               PROVE  n \in S
    OBVIOUS
  <2>1. T \subseteq S
    OBVIOUS
  <2>2. EndsIn(As(S), n)
    BY <1>1, <2>1
  <2> QED BY <2>2
<1> DEFINE U == {n \in Nodes : EndsIn(As(T), n)}
<1>3. U \subseteq T
  BY <1>2
<1>4. Full(U)
  <2> SUFFICES ASSUME NEW n \in Nodes, EndsIn(As(U), n)
               PROVE  n \in U
    OBVIOUS
  <2>1. EndsIn(As(T), n)
    BY <1>1, <1>3
  <2> QED BY <2>1
<1>5. T \subseteq U
  <2>1. U \in SUBSET Nodes
    OBVIOUS
  <2> QED BY <1>4, <2>1
<1>6. T = U
  BY <1>3, <1>5
<1> HIDE DEF T
<1>7. \A n \in Nodes : (n \in T) = EndsIn(As(T), n)
  <2>1. \A n \in Nodes : n \in T <=> EndsIn(As(T), n)
    BY <1>6
  <2>2. \A n \in Nodes : EndsIn(As(T), n) \in BOOLEAN
    BY DEF EndsIn
  <2> QED BY <2>1, <2>2
<1>8. As(T) = [n \in Nodes |-> EndsIn(As(T), n)]
  BY <1>7 DEF As
<1> QED BY <1>8

LEMMA EndsWithReturnIs ==
  ASSUME NEW n \in Nodes
  PROVE  EndsWithReturn[n] = EndsIn(EndsWithReturn, n)
<1>1. EndsWithReturn = [m \in Nodes |-> EndsIn(EndsWithReturn, m)]
  BY EndsIsSolved DEF EndsWithReturn
<1> QED BY <1>1

JumpsIn(jumps, n) ==
  \/ n.kind \in {"BREAK", "CONTINUE"}
  \/ n.kind = "WHILE" /\ jumps[Kid(n, 1)]
  \/ n.kind # "WHILE" /\ \E i \in DOMAIN n.kids : jumps[Kid(n, i)]

LEMMA JumpsIsSolved == \E jumps : jumps = [n \in Nodes |-> JumpsIn(jumps, n)]
<1> DEFINE As(S) == [n \in Nodes |-> n \in S]
           Full(S) == \A n \in Nodes : JumpsIn(As(S), n) => n \in S
           T == {n \in Nodes : \A S \in SUBSET Nodes : Full(S) => n \in S}
<1>1. ASSUME NEW S, NEW R, S \subseteq R, NEW n \in Nodes, JumpsIn(As(S), n)
      PROVE  JumpsIn(As(R), n)
  <2>1. \A m \in Nodes : As(S)[m] => As(R)[m]
    BY <1>1
  <2>2. \A i \in DOMAIN n.kids : Kid(n, i) \in Nodes
    BY TreesAssumption DEF Kid
  <2>3. n.kind = "WHILE" => 1 \in DOMAIN n.kids
    BY TreesAssumption DEF Arity
  <2> HIDE DEF As
  <2> QED BY <1>1, <2>1, <2>2, <2>3 DEF JumpsIn
<1> HIDE DEF As
<1>2. Full(T)
  <2> SUFFICES ASSUME NEW n \in Nodes, JumpsIn(As(T), n), NEW S \in SUBSET Nodes, Full(S)
               PROVE  n \in S
    OBVIOUS
  <2>1. T \subseteq S
    OBVIOUS
  <2>2. JumpsIn(As(S), n)
    BY <1>1, <2>1
  <2> QED BY <2>2
<1> DEFINE U == {n \in Nodes : JumpsIn(As(T), n)}
<1>3. U \subseteq T
  BY <1>2
<1>4. Full(U)
  <2> SUFFICES ASSUME NEW n \in Nodes, JumpsIn(As(U), n)
               PROVE  n \in U
    OBVIOUS
  <2>1. JumpsIn(As(T), n)
    BY <1>1, <1>3
  <2> QED BY <2>1
<1>5. T \subseteq U
  <2>1. U \in SUBSET Nodes
    OBVIOUS
  <2> QED BY <1>4, <2>1
<1>6. T = U
  BY <1>3, <1>5
<1> HIDE DEF T
<1>7. \A n \in Nodes : (n \in T) = JumpsIn(As(T), n)
  <2>1. \A n \in Nodes : n \in T <=> JumpsIn(As(T), n)
    BY <1>6
  <2>2. \A n \in Nodes : JumpsIn(As(T), n) \in BOOLEAN
    BY DEF JumpsIn
  <2> QED BY <2>1, <2>2
<1>8. As(T) = [n \in Nodes |-> JumpsIn(As(T), n)]
  BY <1>7 DEF As
<1> QED BY <1>8

LEMMA JumpsOutIs ==
  ASSUME NEW n \in Nodes
  PROVE  JumpsOut[n] = JumpsIn(JumpsOut, n)
<1>1. JumpsOut = [m \in Nodes |-> JumpsIn(JumpsOut, m)]
  BY JumpsIsSolved DEF JumpsOut, JumpsIn
<1> QED BY <1>1

Ends(f, i) == EndsWithReturn[Kid(f.node, i)]

LEMMA EndsOf ==
  ASSUME NEW f, f.node \in Nodes, EndsWithReturn[f.node]
  PROVE  /\ Kind(f) \notin {"CALL", "BREAK", "CONTINUE"}
         /\ Kind(f) \in {"BLOCK", "BLOCK_EXPR"} => \E i \in 1..Width(f) : Ends(f, i)
         /\ IsWhile(f) => Ends(f, 1)
         /\ IsIf(f) => Ends(f, 1) \/ (Width(f) = 3 /\ Ends(f, 2) /\ Ends(f, 3))
         /\ LazyAssumption /\ IsLazy(f) => Ends(f, 1)
<1> DEFINE n == f.node
<1>1. EndsIn(EndsWithReturn, n)
  BY EndsWithReturnIs
<1>2. DOMAIN n.kids = 1..Width(f) /\ Len(n.kids) \in Arity(n.kind) /\ Width(f) = Len(n.kids)
  BY TreesAssumption DEF Width
<1>3. Kind(f) = n.kind
  BY DEF Kind
<1>4. n.kind \in {"CALL", "BREAK", "CONTINUE"} => Width(f) = 0
  BY <1>2 DEF Arity
<1>5. IsIf(f) => Width(f) \in {2, 3}
  BY KidsAre DEF IsIf
<1>6. IsLazy(f) /\ LazyAssumption => Ends(f, 1)
  BY <1>3 DEF IsLazy, LazyAssumption, Ends
<1> HIDE DEF n
<1>7. Kind(f) \notin {"CALL", "BREAK", "CONTINUE"}
  BY <1>1, <1>2, <1>3, <1>4 DEF EndsIn
<1>8. Kind(f) \in {"BLOCK", "BLOCK_EXPR"} => \E i \in 1..Width(f) : EndsWithReturn[Kid(n, i)]
  BY <1>1, <1>2, <1>3 DEF EndsIn
<1>9. IsWhile(f) => EndsWithReturn[Kid(n, 1)]
  BY <1>1, <1>3 DEF EndsIn, IsWhile
<1>10. IsIf(f) => EndsWithReturn[Kid(n, 1)]
                  \/ (Width(f) = 3 /\ EndsWithReturn[Kid(n, 2)] /\ EndsWithReturn[Kid(n, 3)])
  BY <1>1, <1>2, <1>3, <1>5 DEF EndsIn, IsIf, HasKid
<1> QED BY <1>6, <1>7, <1>8, <1>9, <1>10 DEF Ends, n

LEMMA JumpsOf ==
  ASSUME NEW f, f.node \in Nodes, ~ JumpsOut[f.node]
  PROVE  /\ Kind(f) \notin {"BREAK", "CONTINUE"}
         /\ \A i \in 1..Width(f) : (IsWhile(f) /\ i # 1) \/ ~ JumpsOut[Kid(f.node, i)]
<1>1. ~ JumpsIn(JumpsOut, f.node)
  BY JumpsOutIs
<1>2. DOMAIN f.node.kids = 1..Width(f)
  BY TreesAssumption DEF Width
<1> QED BY <1>1, <1>2 DEF JumpsIn, Kind, IsWhile

-----------------------------------------------------------------------------
(***************************************************************************)
(* Where control can come without a store.  live is a set of blocks with   *)
(* the entry that branches without a store before them do not leave.       *)
(***************************************************************************)

Unstored(s, i) == \A j \in 1..(i - 1) : s[j].op # "store"

\* What an instruction of a block in live may be that has no store before it.
Keeps(instr, live, p) ==
  /\ IsBranch(instr) => instr.to \subseteq live
  /\ instr.op = "condbr" => instr.yes \in live /\ instr.no \in live
  /\ instr.op = "ret" => ~ EndsWithReturn[p]

Flows(bs, live, p) ==
  \A b \in live \cap DOMAIN bs : \A i \in DOMAIN bs[b] :
    Unstored(bs[b], i) => Keeps(bs[b][i], live, p)

\* A branch, and what a run makes of it.
BranchesTo(instr, targets) ==
  /\ IsBranch(instr) /\ instr.op # "ret" /\ instr.to = targets
  /\ instr.op = "condbr" => instr.yes \in targets /\ instr.no \in targets

LEMMA BrTo ==
  ASSUME NEW b
  PROVE  BranchesTo(Br(b), {b})
BY DEF Br, BranchesTo, IsBranch

LEMMA CondBrTo ==
  ASSUME NEW v, NEW yes, NEW no
  PROVE  BranchesTo(CondBr(v, yes, no), {yes, no})
BY DEF CondBr, BranchesTo, IsBranch

LEMMA FlowsEmit ==
  ASSUME NEW bs, IsBlocks(bs), NEW a \in DOMAIN bs, NEW instr, NEW live, NEW p, Flows(bs, live, p),
         a \in live => Keeps(instr, live, p) \/ \E i \in DOMAIN bs[a] : bs[a][i].op = "store"
  PROVE  Flows(Emit(bs, a, instr), live, p)
<1> DEFINE new == Emit(bs, a, instr)
<1>1. /\ DOMAIN new = DOMAIN bs /\ \A b \in DOMAIN bs : b # a => new[b] = bs[b]
      /\ DOMAIN new[a] = 1..(Len(bs[a]) + 1) /\ new[a][Len(bs[a]) + 1] = instr
      /\ \A i \in DOMAIN bs[a] : new[a][i] = bs[a][i]
  BY EmitProps
<1>2. Len(bs[a]) \in Nat /\ DOMAIN bs[a] = 1..Len(bs[a])
  BY BlocksAreSequences
<1> HIDE DEF new
<1>3. ASSUME a \in live, NEW i \in DOMAIN new[a], Unstored(new[a], i)
      PROVE  Keeps(new[a][i], live, p)
  <2>1. CASE i = Len(bs[a]) + 1
    <3>1. \A j \in DOMAIN bs[a] : bs[a][j].op # "store"
      BY <1>1, <1>2, <1>3, <2>1 DEF Unstored
    <3> QED BY <1>1, <1>3, <2>1, <3>1
  <2>2. CASE i # Len(bs[a]) + 1
    <3>1. i \in DOMAIN bs[a] /\ \A j \in 1..(i - 1) : j \in DOMAIN bs[a]
      BY <1>1, <1>2, <2>2
    <3>2. Unstored(bs[a], i)
      BY <1>1, <1>3, <3>1 DEF Unstored
    <3> QED BY <1>1, <1>3, <3>1, <3>2 DEF Flows
  <2> QED BY <2>1, <2>2
<1>4. Flows(new, live, p)
  <2> SUFFICES ASSUME NEW b \in live \cap DOMAIN new, NEW i \in DOMAIN new[b], Unstored(new[b], i)
               PROVE  Keeps(new[b][i], live, p)
    BY DEF Flows
  <2>1. CASE b = a
    BY <1>3, <2>1
  <2>2. CASE b # a
    BY <1>1, <2>2 DEF Flows
  <2> QED BY <2>1, <2>2
<1> QED BY <1>4 DEF new

LEMMA FlowsCreated ==
  ASSUME NEW bs, IsBlocks(bs), NEW n \in Nat, NEW live, NEW p, Flows(bs, live, p)
  PROVE  Flows(Created(bs, n), live, p)
<1> DEFINE new == Created(bs, n)
<1>1. /\ DOMAIN new = 1..(Len(bs) + n)
      /\ \A c \in DOMAIN bs : c \in DOMAIN new /\ new[c] = bs[c]
      /\ \A c \in (Len(bs) + 1)..(Len(bs) + n) : new[c] = <<>>
  BY CreatedProps
<1>2. Len(bs) \in Nat /\ DOMAIN bs = 1..Len(bs)
  BY BlocksAreSequences
<1>3. \A c \in DOMAIN new : c \in DOMAIN bs \/ new[c] = <<>>
  BY <1>1, <1>2
<1>4. DOMAIN <<>> = {}
  OBVIOUS
<1> HIDE DEF new
<1>5. Flows(new, live, p)
  BY <1>1, <1>3, <1>4 DEF Flows
<1> QED BY <1>5 DEF new

\* Blocks without instructions, those that are to be created among them, may
\* be added.
LEMMA FlowsMore ==
  ASSUME NEW bs, IsBlocks(bs), NEW live, NEW p, Flows(bs, live, p), NEW more,
         \A b \in more \cap DOMAIN bs : bs[b] = <<>>
  PROVE  Flows(bs, live \cup more, p)
<1>1. DOMAIN <<>> = {}
  OBVIOUS
<1>2. \A instr : Keeps(instr, live, p) => Keeps(instr, live \cup more, p)
  BY DEF Keeps
<1> QED BY <1>1, <1>2 DEF Flows

-----------------------------------------------------------------------------
(***************************************************************************)
(* The calls under way and where control can come.                         *)
(***************************************************************************)

\* The number of children of a call that are generated already.
Done(s, k) == IF k = Len(s) THEN s[k].next - 1 ELSE s[k].next - 2

\* What the first d children do always returns.
HasReturned(f, d) ==
  \/ Kind(f) \in {"BLOCK", "BLOCK_EXPR"} /\ \E i \in 1..d : Ends(f, i)
  \/ (IsLazy(f) \/ IsIf(f) \/ IsWhile(f)) /\ 1 <= d /\ Ends(f, 1)

\* Control comes to the blocks that the body of a loop may jump to.
LoopLive(f, live) == Again(f) \subseteq live /\ (IsWhile(f) /\ f.next = 3 => f.new + 2 \in live)

Goes(s, k, live) == ~ HasReturned(s[k], Done(s, k)) /\ LoopLive(s[k], live)

GoesUpTo(s, n, live) == \A k \in 1..n : Goes(s, k, live)

\* Control does not come out of any branch that is generated already.
BothReturn(s, k) ==
  /\ IsIf(s[k]) /\ Width(s[k]) = 3 /\ s[k].next \in {3, 4}
  /\ 2 <= Done(s, k) => Ends(s[k], 2)

LaterLive(s, live) ==
  \A k \in DOMAIN s : Later(s[k]) \cap live # {} => 3 <= s[k].next /\ GoesUpTo(s, k, live)

JoinsDead(s, live) == \A k \in DOMAIN s : BothReturn(s, k) => s[k].new + 1 \notin live

LiveStack(s, a, live, p) ==
  /\ a \in live => GoesUpTo(s, Len(s), live)
  /\ LaterLive(s, live) /\ JoinsDead(s, live)
  /\ s # <<>> =>
       LET f == s[Len(s)]
       IN  2 <= f.next /\ Ends(f, f.next - 1) => a \notin live
  /\ s = <<>> /\ EndsWithReturn[p] => a \notin live

\* Each call is for the child that the call around it has begun last.
Nested(s, p) ==
  /\ s # <<>> => s[1].node = p
  /\ \A k \in 2..Len(s) : 2 <= s[k - 1].next /\ s[k].node = Kid(s[k - 1].node, s[k - 1].next - 1)
  /\ \A k \in DOMAIN s : s[k].loop = NoLoop => ~ JumpsOut[s[k].node]

LEMMA GoesSame ==
  ASSUME NEW s, NEW t, NEW k, t[k] = s[k], k # Len(s), k # Len(t), NEW live
  PROVE  Goes(s, k, live) <=> Goes(t, k, live)
BY DEF Goes, Done

\* A call that gets back to a call around it.
LEMMA LiveLeave ==
  ASSUME NEW s, IsStack(s), s # <<>>, NEW t, IsStack(t), Len(t) = Len(s) - 1, SameBelow(s, t),
         NEW p, Nested(s, p), NEW live, NEW a,
         a \in live => GoesUpTo(s, Len(s) - 1, live),
         \A k \in 1..(Len(s) - 1) :
           Later(s[k]) \cap live # {} => 3 <= s[k].next /\ GoesUpTo(s, k, live),
         \A k \in 1..(Len(s) - 1) : BothReturn(s, k) => s[k].new + 1 \notin live,
         EndsWithReturn[s[Len(s)].node] => a \notin live
  PROVE  LiveStack(t, a, live, p) /\ Nested(t, p)
<1> DEFINE n == Len(s)
           m == n - 1
<1>1. n \in Nat \ {0} /\ DOMAIN s = 1..n /\ DOMAIN t = 1..m /\ Len(t) = m /\ m \in Nat
  BY DEF IsStack
<1>2. \A k \in 1..m : t[k] = s[k] /\ k \in DOMAIN s /\ s[k].next \in Nat
  <2>1. \A k \in 1..m : k \in DOMAIN s
    BY <1>1
  <2>2. \A k \in DOMAIN s : s[k] \in Frames
    BY DEF IsStack
  <2>3. \A k \in DOMAIN s : s[k].next \in Nat
    BY <2>2 DEF Frames
  <2> QED BY <2>1, <2>3 DEF SameBelow, m
<1>6. n = m + 1
  BY <1>1
<1> HIDE DEF m, n
<1>3. \A k \in 1..m : k # n /\ (k # m => Done(t, k) = Done(s, k))
  BY <1>1, <1>2, <1>6 DEF Done, n
<1>4. CASE m = 0
  <2>1. t = <<>> /\ \A k \in 1..m : FALSE
    BY <1>1, <1>4 DEF IsStack
  <2>2. s[n].node = p
    <3>1. n = 1
      BY <1>4, <1>6
    <3> QED BY <3>1 DEF Nested
  <2>3. DOMAIN t = {} /\ Len(t) = 0
    BY <1>1, <1>4
  <2>4. LaterLive(t, live) /\ JoinsDead(t, live) /\ GoesUpTo(t, Len(t), live)
    <3>1. \A k \in 1..0 : FALSE
      OBVIOUS
    <3> QED BY <2>3, <3>1 DEF LaterLive, JoinsDead, GoesUpTo
  <2>5. Nested(t, p)
    <3>1. \A k \in 2..0 : FALSE
      OBVIOUS
    <3> QED BY <2>1, <2>3, <3>1 DEF Nested
  <2> QED BY <2>1, <2>2, <2>4, <2>5 DEF LiveStack, n
<1>5. CASE m # 0
  <2> DEFINE f == s[m]
             d == f.next - 2
  <2>1. m \in 1..m /\ t[m] = f /\ t # <<>> /\ f.next \in Nat /\ n = m + 1
    BY <1>1, <1>2, <1>5, <1>6
  <2>2. 2 <= f.next /\ s[n].node = Kid(f.node, f.next - 1)
    <3>1. n \in 2..n /\ n - 1 = m
      BY <1>1, <1>5, <1>6
    <3> QED BY <3>1 DEF Nested, n
  <2>3. Done(s, m) = d /\ Done(t, m) = d + 1 /\ d \in Nat
    BY <1>1, <2>1, <2>2 DEF Done, d, n
  <2>4. Ends(f, d + 1) => a \notin live
    <3>1. f.next - 1 = d + 1
      BY <2>1
    <3> QED BY <2>2, <3>1 DEF Ends, n
  <2> HIDE DEF d
  <2>5. ASSUME ~ HasReturned(f, d), HasReturned(f, d + 1)
        PROVE  Ends(f, d + 1) /\ (Later(f) = {} \/ d = 0)
    <3>1. CASE Kind(f) \in {"BLOCK", "BLOCK_EXPR"}
      <4>1. Later(f) = {}
        BY <3>1, OwnedByOthers DEF IsLazy, IsIf, IsWhile
      <4>2. PICK i \in 1..(d + 1) : Ends(f, i)
        BY <2>5, <3>1 DEF HasReturned, IsLazy, IsIf, IsWhile
      <4>3. i = d + 1
        BY <2>3, <2>5, <3>1, <4>2 DEF HasReturned
      <4> QED BY <4>1, <4>2, <4>3
    <3>2. CASE Kind(f) \notin {"BLOCK", "BLOCK_EXPR"}
      <4>1. Ends(f, 1) /\ ~ (1 <= d)
        BY <2>5, <3>2 DEF HasReturned
      <4>2. d = 0
        BY <2>3, <4>1
      <4> QED BY <4>1, <4>2
    <3> QED BY <3>1, <3>2
  <2>6. ASSUME NEW k \in 1..m, GoesUpTo(s, k, live),
               k = m => ~ Ends(f, d + 1) \/ (d # 0 /\ Later(f) # {})
        PROVE  GoesUpTo(t, k, live)
    <3> SUFFICES ASSUME NEW j \in 1..k
                 PROVE  Goes(t, j, live)
      BY DEF GoesUpTo
    <3>1. Goes(s, j, live)
      BY <2>6 DEF GoesUpTo
    <3>2. j \in 1..m
      BY <1>1
    <3>3. CASE j # m
      BY <1>1, <1>2, <1>3, <3>1, <3>2, <3>3 DEF Goes
    <3>4. CASE j = m
      <4>1. k = m
        BY <1>1, <3>4
      <4>2. ~ HasReturned(f, d) /\ LoopLive(f, live)
        BY <2>3, <3>1, <3>4 DEF Goes
      <4>3. ~ HasReturned(f, d + 1)
        BY <2>5, <2>6, <4>1, <4>2
      <4> QED BY <2>1, <2>3, <3>4, <4>2, <4>3 DEF Goes
    <3> QED BY <3>3, <3>4
  <2>7. a \in live => GoesUpTo(t, Len(t), live)
    BY <1>1, <2>1, <2>4, <2>6 DEF m, n
  <2>8. LaterLive(t, live)
    <3> SUFFICES ASSUME NEW k \in 1..m, Later(s[k]) \cap live # {}
                 PROVE  3 <= s[k].next /\ GoesUpTo(t, k, live)
      BY <1>1, <1>2 DEF LaterLive
    <3>1. 3 <= s[k].next /\ GoesUpTo(s, k, live)
      BY DEF m, n
    <3>2. k = m => d # 0 /\ Later(f) # {}
      BY <2>1, <3>1 DEF d
    <3> QED BY <2>6, <3>1, <3>2
  <2>9. JoinsDead(t, live)
    <3> SUFFICES ASSUME NEW k \in 1..m, BothReturn(t, k)
                 PROVE  s[k].new + 1 \notin live
      BY <1>1, <1>2 DEF JoinsDead
    <3>1. BothReturn(s, k)
      <4>1. CASE k # m
        BY <1>2, <1>3, <4>1 DEF BothReturn
      <4>2. CASE k = m
        BY <2>1, <2>3, <4>2 DEF BothReturn
      <4> QED BY <4>1, <4>2
    <3> QED BY <3>1 DEF m, n
  <2>10. LET g == t[Len(t)]
         IN  2 <= g.next /\ Ends(g, g.next - 1) => a \notin live
    <3>1. f.next - 1 = d + 1
      BY <2>1 DEF d
    <3> QED BY <1>1, <2>1, <2>4, <3>1
  <2>11. Nested(t, p)
    <3>1. t[1].node = p
      <4>1. 1 \in 1..m /\ s # <<>>
        BY <1>1, <1>5
      <4> QED BY <1>2, <4>1 DEF Nested
    <3>2. ASSUME NEW k \in 2..Len(t)
          PROVE  2 <= t[k - 1].next /\ t[k].node = Kid(t[k - 1].node, t[k - 1].next - 1)
      <4>1. k \in 2..n /\ k \in 1..m /\ k - 1 \in 1..m
        BY <1>1, <2>1
      <4> QED BY <1>2, <4>1 DEF Nested, n
    <3>3. \A k \in DOMAIN t : t[k].loop = NoLoop => ~ JumpsOut[t[k].node]
      BY <1>1, <1>2 DEF Nested
    <3> QED BY <3>1, <3>2, <3>3 DEF Nested
  <2> QED BY <2>1, <2>7, <2>8, <2>9, <2>10, <2>11 DEF LiveStack
<1> QED BY <1>4, <1>5

LEMMA HasReturnedSame ==
  ASSUME NEW f, NEW g, g.node = f.node, NEW d
  PROVE  HasReturned(g, d) <=> HasReturned(f, d)
BY DEF HasReturned, Ends, Kind, IsLazy, IsIf, IsWhile

\* A call that begins its next child.
LEMMA LiveDescend ==
  ASSUME NEW s, IsStack(s), s # <<>>, NEW t, IsStack(t), Len(t) = Len(s) + 1, SameBelow(s, t),
         t[Len(s)].node = s[Len(s)].node, t[Len(s)].loop = s[Len(s)].loop,
         t[Len(s)].next = s[Len(s)].next + 1, t[Len(s) + 1].next = 1,
         t[Len(s) + 1].node = Kid(s[Len(s)].node, s[Len(s)].next),
         t[Len(s) + 1].loop = NoLoop => ~ JumpsOut[t[Len(s) + 1].node],
         NEW p, Nested(s, p), NEW live, NEW a,
         NEW may,   \* control comes to the call
         may => GoesUpTo(s, Len(s), live),
         a \in live => may /\ LoopLive(t[Len(s)], live),
         Later(t[Len(s)]) \cap live # {} => 3 <= t[Len(s)].next /\ may /\ LoopLive(t[Len(s)], live),
         BothReturn(t, Len(s)) => t[Len(s)].new + 1 \notin live,
         \A k \in 1..(Len(s) - 1) :
           Later(s[k]) \cap live # {} => 3 <= s[k].next /\ GoesUpTo(s, k, live),
         \A k \in 1..(Len(s) - 1) : BothReturn(s, k) => s[k].new + 1 \notin live
  PROVE  LiveStack(t, a, live, p) /\ Nested(t, p)
<1> DEFINE n == Len(s)
           g == t[n]
<1>1. /\ n \in Nat \ {0} /\ DOMAIN s = 1..n /\ DOMAIN t = 1..(n + 1) /\ Len(t) = n + 1
      /\ n = Len(s)
  BY DEF IsStack
<1> HIDE DEF n
<1>14. n \in Nat \ {0}
  BY <1>1
<1>15. \A k \in 1..(n + 1) : k \in 1..(n - 1) \/ k = n \/ k = n + 1
  BY <1>14
<1>16. \A k \in 1..n : k \in 1..(n - 1) \/ k = n
  BY <1>14
<1>2. \A k \in 1..(n - 1) : t[k] = s[k] /\ k \in 1..n /\ k # n /\ k # n + 1
  <2>1. \A k \in 1..(n - 1) : k \in 1..n /\ k # n /\ k # n + 1
    BY <1>14
  <2> QED BY <1>1, <2>1 DEF SameBelow
<1>3. s[n].next \in Nat \ {0}
  <2>1. n \in DOMAIN s
    BY <1>1
  <2>2. s[n] \in Frames /\ s[n].next \in 1..(Width(s[n]) + 1)
    BY <2>1 DEF IsStack
  <2>3. s[n].next \in Nat
    BY <2>2 DEF Frames
  <2>4. s[n].node \in Nodes
    BY <2>2 DEF Frames
  <2>5. Width(s[n]) \in Nat
    BY <2>4, KidsAre
  <2> QED BY <2>2, <2>3, <2>5
<1>4. Done(t, n) = Done(s, n) /\ n # n + 1
  <2>1. n # n + 1 /\ (s[n].next + 1) - 2 = s[n].next - 1
    BY <1>14, <1>3
  <2> QED BY <1>1, <2>1 DEF Done
<1>5. ASSUME may, LoopLive(g, live)
      PROVE  GoesUpTo(t, n, live)
  <2> SUFFICES ASSUME NEW k \in 1..n
               PROVE  Goes(t, k, live)
    BY DEF GoesUpTo
  <2>1. Goes(s, k, live)
    BY <1>1, <1>5 DEF GoesUpTo
  <2>2. CASE k # n
    <3>1. k \in 1..(n - 1)
      BY <1>1, <2>2
    <3> QED BY <1>1, <1>2, <2>1, <3>1, GoesSame
  <2>3. CASE k = n
    <3>1. ~ HasReturned(s[n], Done(s, n))
      BY <2>1, <2>3 DEF Goes
    <3>2. ~ HasReturned(g, Done(t, n))
      BY <1>1, <1>4, <3>1, HasReturnedSame
    <3> QED BY <1>5, <2>3, <3>2 DEF Goes
  <2> QED BY <2>2, <2>3
<1>6. ~ HasReturned(t[n + 1], 0)
  <2>1. ~ \E i \in 1..0 : Ends(t[n + 1], i)
    OBVIOUS
  <2> QED BY <2>1 DEF HasReturned
<1>7. Later(t[n + 1]) = {} /\ Again(t[n + 1]) = {}
  BY <1>1, OwnedAtFirst
<1>8. Goes(t, n + 1, live)
  <2>1. Done(t, n + 1) = 0
    <3>1. 1 - 1 = 0
      OBVIOUS
    <3> QED BY <1>1, <3>1 DEF Done
  <2>2. LoopLive(t[n + 1], live)
    BY <1>1, <1>7 DEF LoopLive
  <2> QED BY <1>6, <2>1, <2>2 DEF Goes
<1>9. a \in live => GoesUpTo(t, Len(t), live)
  <2>1. \A k \in 1..(n + 1) : k \in 1..n \/ k = n + 1
    BY <1>1
  <2> QED BY <1>1, <1>5, <1>8, <2>1 DEF GoesUpTo
<1>10. LaterLive(t, live)
  <2> SUFFICES ASSUME NEW k \in 1..(n + 1), Later(t[k]) \cap live # {}
               PROVE  3 <= t[k].next /\ GoesUpTo(t, k, live)
    BY <1>1 DEF LaterLive
  <2>1. CASE k \in 1..(n - 1)
    <3>1. 3 <= t[k].next /\ GoesUpTo(s, k, live)
      BY <1>1, <1>2, <2>1
    <3>2. \A j \in 1..k : j \in 1..(n - 1)
      BY <1>1, <2>1
    <3>3. \A j \in 1..k : Goes(t, j, live)
      BY <1>1, <1>2, <3>1, <3>2, GoesSame DEF GoesUpTo
    <3> QED BY <3>1, <3>3 DEF GoesUpTo
  <2>2. CASE k = n
    BY <1>1, <1>5, <2>2
  <2>3. CASE k = n + 1
    BY <1>7, <2>3
  <2> QED BY <1>15, <2>1, <2>2, <2>3
<1>11. JoinsDead(t, live)
  <2> SUFFICES ASSUME NEW k \in 1..(n + 1), BothReturn(t, k)
               PROVE  t[k].new + 1 \notin live
    BY <1>1 DEF JoinsDead
  <2>1. CASE k \in 1..(n - 1)
    <3>1. t[k] = s[k] /\ Done(t, k) = Done(s, k)
      BY <1>1, <1>2, <2>1 DEF Done
    <3>2. BothReturn(s, k)
      BY <3>1 DEF BothReturn
    <3> QED BY <1>1, <2>1, <3>1, <3>2
  <2>2. CASE k = n
    BY <1>1, <2>2
  <2>3. CASE k = n + 1
    <3>1. ~ (t[k].next \in {3, 4})
      BY <1>1, <2>3
    <3> QED BY <3>1 DEF BothReturn
  <2> QED BY <1>15, <2>1, <2>2, <2>3
<1>12. LiveStack(t, a, live, p)
  <2>1. t # <<>> /\ ~ (2 <= t[n + 1].next)
    BY <1>1
  <2> QED BY <1>1, <1>9, <1>10, <1>11, <2>1 DEF LiveStack
<1>13. Nested(t, p)
  <2>1. t[1].node = p
    <3>1. t[1].node = s[1].node
      <4>1. n = 1 \/ 1 \in 1..(n - 1)
        BY <1>1
      <4> QED BY <1>1, <1>2, <4>1
    <3> QED BY <1>1, <3>1 DEF Nested
  <2>2. ASSUME NEW k \in 2..(n + 1)
        PROVE  2 <= t[k - 1].next /\ t[k].node = Kid(t[k - 1].node, t[k - 1].next - 1)
    <3>1. CASE k \in 2..n
      <4>1. 2 <= s[k - 1].next /\ s[k].node = Kid(s[k - 1].node, s[k - 1].next - 1)
        BY <1>1, <3>1 DEF Nested
      <4>2. k - 1 \in 1..(n - 1) /\ (k = n \/ k \in 1..(n - 1))
        BY <1>14, <3>1
      <4> QED BY <1>1, <1>2, <4>1, <4>2
    <3>2. CASE k = n + 1
      <4>1. k - 1 = n /\ t[n].next - 1 = s[n].next /\ 2 <= t[n].next
        BY <1>1, <1>3, <3>2
      <4> QED BY <1>1, <3>2, <4>1
    <3> QED BY <1>1, <3>1, <3>2
  <2>3. ASSUME NEW k \in 1..(n + 1), t[k].loop = NoLoop
        PROVE  ~ JumpsOut[t[k].node]
    <3>1. CASE k \in 1..n
      <4>1. k \in DOMAIN s /\ (k = n \/ k \in 1..(n - 1))
        BY <1>1, <1>16, <3>1
      <4>2. t[k].loop = s[k].loop /\ t[k].node = s[k].node
        BY <1>1, <1>2, <4>1
      <4> QED BY <2>3, <4>1, <4>2 DEF Nested
    <3>2. CASE k = n + 1
      BY <1>1, <2>3, <3>2
    <3> QED BY <1>1, <3>1, <3>2
  <2>4. t # <<>>
    BY <1>1
  <2> QED BY <1>1, <2>1, <2>2, <2>3 DEF Nested
<1> QED BY <1>12, <1>13

-----------------------------------------------------------------------------
(***************************************************************************)
(* Every step of the generator keeps a set of blocks that control comes to *)
(* without a store.                                                        *)
(***************************************************************************)

LiveWith(live) ==
  /\ ENTRY \in live /\ live \subseteq DOMAIN blocks
  /\ Flows(blocks, live, prog)
  /\ LiveStack(stack, at, live, prog) /\ Nested(stack, prog) /\ LoopsAround(stack)
  /\ at # EXIT => EXIT \notin live

\* Control comes to the code after what the last call has generated so far.
Comes(live) == at \in live \/ Later(Top) \cap live # {}

LEMMA GoesMore ==
  ASSUME NEW s, NEW n, NEW live, NEW more, GoesUpTo(s, n, live)
  PROVE  GoesUpTo(s, n, live \cup more)
BY DEF GoesUpTo, Goes, LoopLive

\* The blocks that a step adds are no blocks of a call around the last.
LEMMA LiveBelow ==
  ASSUME BlockInv, stack # <<>>, NEW live, LiveWith(live), NEW more, NEW top \in Nat,
         more \subseteq Owned(Top) \cup ((Len(blocks) + 1)..top)
  PROVE  LET n == Len(stack)
             new == live \cup more
         IN  /\ Comes(live) => GoesUpTo(stack, n, new) /\ GoesUpTo(stack, n - 1, new)
             /\ \A k \in 1..(n - 1) :
                  Later(stack[k]) \cap new # {} => 3 <= stack[k].next /\ GoesUpTo(stack, k, new)
             /\ \A k \in 1..(n - 1) : BothReturn(stack, k) => stack[k].new + 1 \notin new
<1> DEFINE n == Len(stack)
           new == live \cup more
<1>1. IsStack(stack) /\ OwnedApart(stack, Len(blocks)) /\ Len(blocks) \in Nat
  BY BlockFacts
<1>2. n \in Nat \ {0} /\ DOMAIN stack = 1..n /\ Top = stack[n] /\ n = Len(stack)
  BY <1>1, StackProps DEF Top
<1> HIDE DEF n
<1>3. n \in DOMAIN stack /\ \A k \in 1..(n - 1) : k \in DOMAIN stack /\ k # n
  <2>1. n \in Nat \ {0}
    BY <1>2
  <2>2. n \in 1..n /\ \A k \in 1..(n - 1) : k \in 1..n /\ k # n
    BY <2>1
  <2> QED BY <1>2, <2>2
<1>4. ASSUME NEW k \in 1..(n - 1)
      PROVE  Owned(stack[k]) \cap more = {}
  <2>1. Owned(stack[k]) \subseteq 4..Len(blocks) /\ Owned(stack[k]) \cap Owned(Top) = {}
    BY <1>1, <1>2, <1>3 DEF OwnedApart
  <2>2. (4..Len(blocks)) \cap ((Len(blocks) + 1)..top) = {}
    BY <1>1
  <2> QED BY <2>1, <2>2
<1>5. Comes(live) => GoesUpTo(stack, n, live)
  BY <1>2, <1>3 DEF Comes, LiveWith, LiveStack, LaterLive
<1>6. Comes(live) => GoesUpTo(stack, n, new) /\ GoesUpTo(stack, n - 1, new)
  <2>1. GoesUpTo(stack, n, new) => GoesUpTo(stack, n - 1, new)
    <3>1. \A k \in 1..(n - 1) : k \in 1..n
      BY <1>2
    <3> QED BY <3>1 DEF GoesUpTo
  <2> QED BY <1>5, <2>1, GoesMore
<1>7. ASSUME NEW k \in 1..(n - 1), Later(stack[k]) \cap new # {}
      PROVE  3 <= stack[k].next /\ GoesUpTo(stack, k, new)
  <2>1. Later(stack[k]) \cap live # {}
    BY <1>4, <1>7 DEF Owned
  <2>2. 3 <= stack[k].next /\ GoesUpTo(stack, k, live)
    BY <1>3, <2>1 DEF LiveWith, LiveStack, LaterLive
  <2> QED BY <2>2, GoesMore
<1>8. ASSUME NEW k \in 1..(n - 1), BothReturn(stack, k)
      PROVE  stack[k].new + 1 \notin new
  <2>1. stack[k].new + 1 \notin live
    BY <1>3, <1>8 DEF LiveWith, LiveStack, JoinsDead
  <2>2. stack[k] \in Frames
    BY <1>1, <1>3 DEF IsStack
  <2>3. stack[k].new \in Nat
    BY <2>2 DEF Frames
  <2>4. stack[k].new + 1 \in Later(stack[k])
    BY <1>8, <2>3, OwnedByIf DEF BothReturn
  <2> QED BY <1>4, <2>1, <2>4 DEF Owned
<1> QED BY <1>6, <1>7, <1>8 DEF n

LEMMA StepLeave ==
  ASSUME BlockInv, stack # <<>>, NEW v, Leave(v), NEW live, LiveWith(live), NEW more, NEW top \in Nat,
         more \subseteq Owned(Top) \cup ((Len(blocks) + 1)..top),
         live \cup more \subseteq DOMAIN blocks', Flows(blocks', live \cup more, prog),
         at' \in live \cup more => Comes(live),
         EndsWithReturn[Top.node] => at' \notin live \cup more
  PROVE  LiveWith(live \cup more)'
<1> DEFINE n == Len(stack)
           new == live \cup more
<1>1. IsStack(stack) /\ Len(blocks) \in Nat /\ 3 <= Len(blocks) /\ at # EXIT /\ Owned(Top) \subseteq 4..Len(blocks)
  BY BlockFacts
<1>2. n \in Nat \ {0} /\ DOMAIN stack = 1..n /\ Top = stack[n]
  BY <1>1, StackProps DEF Top
<1>3. /\ IsStack(stack') /\ Len(stack') = n - 1 /\ DOMAIN stack' = 1..(n - 1)
      /\ SameBelow(stack, stack')
  BY <1>1, LeaveProps
<1>4. LoopsAround(stack')
  BY <1>2, <1>3, LoopsAfterLeave DEF LiveWith
<1>5. Nested(stack, prog) /\ prog' = prog
  BY DEF LiveWith, Leave
<1>6. LiveStack(stack', at', new, prog) /\ Nested(stack', prog)
  <2>1. /\ at' \in new => GoesUpTo(stack, n - 1, new)
        /\ \A k \in 1..(n - 1) :
             Later(stack[k]) \cap new # {} => 3 <= stack[k].next /\ GoesUpTo(stack, k, new)
        /\ \A k \in 1..(n - 1) : BothReturn(stack, k) => stack[k].new + 1 \notin new
    BY LiveBelow
  <2>2. EndsWithReturn[stack[n].node] => at' \notin new
    BY <1>2
  <2> HIDE DEF new
  <2> QED BY <1>1, <1>3, <1>5, <2>1, <2>2, LiveLeave
<1>7. EXIT \notin new
  <2>1. EXIT \notin live
    BY <1>1 DEF LiveWith
  <2>2. EXIT \notin Owned(Top) \cup ((Len(blocks) + 1)..top)
    BY <1>1 DEF EXIT
  <2> QED BY <2>1, <2>2
<1>8. ENTRY \in new
  BY DEF LiveWith
<1> QED BY <1>4, <1>5, <1>6, <1>7, <1>8 DEF LiveWith

LEMMA StepDescend ==
  ASSUME BlockInv, stack # <<>>, NEW f \in Frames, NEW loop \in Loops, Descend(f, loop),
         f.node = Top.node, f.next = Top.next, f.loop = Top.loop, f.next \in 1..Width(f),
         \/ loop = Top.loop /\ (IsWhile(Top) => Top.next = 1)
         \/ /\ IsWhile(Top) /\ Top.next = 2
            /\ loop = LoopTargets(f.new, f.new + 1, f.new + 2),
         NEW live, LiveWith(live), NEW more, NEW top \in Nat,
         more \subseteq Owned(Top) \cup ((Len(blocks) + 1)..top),
         live \cup more \subseteq DOMAIN blocks', Flows(blocks', live \cup more, prog),
         NEW g, g = stack'[Len(stack)],
         at' \in live \cup more => Comes(live) /\ LoopLive(g, live \cup more),
         Later(g) \cap (live \cup more) # {} =>
           3 <= g.next /\ Comes(live) /\ LoopLive(g, live \cup more),
         BothReturn(stack', Len(stack)) => g.new + 1 \notin live \cup more
  PROVE  LiveWith(live \cup more)'
<1> DEFINE n == Len(stack)
           new == live \cup more
<1>1. IsStack(stack) /\ Len(blocks) \in Nat /\ 3 <= Len(blocks) /\ at # EXIT /\ Owned(Top) \subseteq 4..Len(blocks)
  BY BlockFacts
<1>2. n \in Nat \ {0} /\ DOMAIN stack = 1..n /\ Top = stack[n] /\ Top.node \in Nodes /\ Top.next \in Nat
  BY <1>1, StackProps DEF Top, Frames
<1>3. /\ IsStack(stack') /\ stack' # <<>> /\ Len(stack') = n + 1 /\ DOMAIN stack' = 1..(n + 1)
      /\ SameBelow(stack, stack')
      /\ g.node = f.node /\ g.next = f.next + 1 /\ Kind(g) = Kind(f) /\ g.new = f.new
      /\ g.loop = f.loop
      /\ stack'[n + 1].node = Kid(f.node, f.next)
      /\ stack'[n + 1].next = 1 /\ stack'[n + 1].loop = loop
  BY <1>1, DescendProps
<1>4. LoopsAround(stack')
  <2>1. \/ stack'[n + 1].loop = stack[n].loop
        \/ /\ IsWhile(g) /\ g.next = 3
           /\ stack'[n + 1].loop = LoopTargets(g.new, g.new + 1, g.new + 2)
    <3>1. Kind(g) = Kind(Top)
      BY <1>3, SameNode
    <3> QED BY <1>2, <1>3, <3>1 DEF IsWhile
  <2>2. LoopsAround(stack) /\ stack'[n].loop = stack[n].loop
    BY <1>2, <1>3 DEF LiveWith
  <2> HIDE DEF n
  <2> QED BY <1>2, <1>3, <2>1, <2>2, LoopsAfterDescend DEF n
<1>5. Nested(stack, prog) /\ prog' = prog
  BY DEF LiveWith, Descend
<1>6. loop = NoLoop => ~ JumpsOut[Kid(f.node, f.next)]
  <2>1. CASE loop = Top.loop /\ (IsWhile(Top) => Top.next = 1)
    <3>1. ASSUME loop = NoLoop
          PROVE  ~ JumpsOut[Kid(f.node, f.next)]
      <4>1. ~ JumpsOut[Top.node]
        <5>1. n \in DOMAIN stack
          BY <1>1, StackProps
        <5> QED BY <1>2, <1>5, <2>1, <3>1, <5>1 DEF Nested
      <4>2. f.next \in 1..Width(Top)
        BY SameNode
      <4> QED BY <1>2, <2>1, <4>1, <4>2, JumpsOf
    <3> QED BY <3>1
  <2>2. CASE loop = LoopTargets(f.new, f.new + 1, f.new + 2)
    <3>1. f.new \in Nat
      BY DEF Frames
    <3>2. loop # NoLoop
      BY <2>2, <3>1 DEF LoopTargets, NoLoop, EXIT
    <3> QED BY <3>2
  <2> QED BY <2>1, <2>2
<1>7. LiveStack(stack', at', new, prog) /\ Nested(stack', prog)
  <2>1. /\ Comes(live) => GoesUpTo(stack, n, new)
        /\ \A k \in 1..(n - 1) :
             Later(stack[k]) \cap new # {} => 3 <= stack[k].next /\ GoesUpTo(stack, k, new)
        /\ \A k \in 1..(n - 1) : BothReturn(stack, k) => stack[k].new + 1 \notin new
    BY LiveBelow
  <2>2. /\ at' \in new => Comes(live) /\ LoopLive(stack'[n], new)
        /\ Later(stack'[n]) \cap new # {} =>
             3 <= stack'[n].next /\ Comes(live) /\ LoopLive(stack'[n], new)
        /\ BothReturn(stack', n) => stack'[n].new + 1 \notin new
    OBVIOUS
  <2>3. /\ stack'[n].node = stack[n].node /\ stack'[n].loop = stack[n].loop
        /\ stack'[n].next = stack[n].next + 1
        /\ stack'[n + 1].next = 1 /\ stack'[n + 1].node = Kid(stack[n].node, stack[n].next)
        /\ stack'[n + 1].loop = NoLoop => ~ JumpsOut[stack'[n + 1].node]
    BY <1>2, <1>3, <1>6
  <2> HIDE DEF new
  <2> QED BY <1>1, <1>3, <1>5, <2>1, <2>2, <2>3, LiveDescend
<1>8. EXIT \notin new
  <2>1. EXIT \notin live
    BY <1>1 DEF LiveWith
  <2>2. EXIT \notin Owned(Top) \cup ((Len(blocks) + 1)..top)
    BY <1>1 DEF EXIT
  <2> QED BY <2>1, <2>2
<1>9. ENTRY \in new
  BY DEF LiveWith
<1> QED BY <1>4, <1>5, <1>7, <1>8, <1>9 DEF LiveWith

LEMMA FlowsEnd ==
  ASSUME BlockInv, stack # <<>>, NEW live, LiveWith(live), NEW instr, NEW targets, BranchesTo(instr, targets),
         NEW more, at \notin more, \A b \in more \cap DOMAIN blocks : blocks[b] = <<>>,
         at \in live => targets \subseteq live \cup more
  PROVE  Flows(Emit(blocks, at, instr), live \cup more, prog)
<1>1. IsBlocks(blocks) /\ at \in DOMAIN blocks
  BY BlockFacts
<1>2. Flows(blocks, live \cup more, prog)
  BY <1>1, FlowsMore DEF LiveWith
<1>3. at \in live \cup more => Keeps(instr, live \cup more, prog)
  BY DEF Keeps, BranchesTo
<1> QED BY <1>1, <1>2, <1>3, FlowsEmit

\* Blocks that the last call begins later, and blocks that do not exist yet.
LEMMA Waiting ==
  ASSUME BlockInv, stack # <<>>, NEW top \in Nat, NEW more,
         more \subseteq Later(Top) \cup ((Len(blocks) + 1)..top)
  PROVE  /\ at \notin more /\ \A b \in more \cap DOMAIN blocks : blocks[b] = <<>>
         /\ more \subseteq Owned(Top) \cup ((Len(blocks) + 1)..top)
<1>1. /\ DOMAIN blocks = 1..Len(blocks) /\ Len(blocks) \in Nat /\ at \in DOMAIN blocks
      /\ at \notin Pending(stack) /\ Later(Top) \subseteq Pending(stack)
      /\ Later(Top) \subseteq Owned(Top) /\ ShapeOf(blocks, at, Pending(stack))
  BY BlockFacts
<1>2. ((Len(blocks) + 1)..top) \cap DOMAIN blocks = {}
  BY <1>1
<1>3. \A b \in Later(Top) \cap DOMAIN blocks : blocks[b] = <<>>
  BY <1>1 DEF ShapeOf
<1> QED BY <1>1, <1>2, <1>3

LEMMA NoMore ==
  ASSUME NEW live, BlockInv
  PROVE  /\ live \cup {} = live /\ Len(blocks) \in Nat
         /\ {} \subseteq Owned(Top) \cup ((Len(blocks) + 1)..Len(blocks))
BY BlocksAreSequences DEF BlockInv

LEMMA GenCallLive ==
  ASSUME BlockInv, GenCall, NEW live, LiveWith(live)
  PROVE  LiveWith(live)'
<1> DEFINE call == [op |-> "call", dst |-> Top.path]
<1>1. stack # <<>> /\ blocks' = Emit(blocks, at, call) /\ Leave(Top.path) /\ at' = at
      /\ Kind(Top) = "CALL"
  BY DEF GenCall, Is, Kind
<1>2. IsBlocks(blocks) /\ at \in DOMAIN blocks /\ IsStack(stack)
  BY <1>1, BlockFacts
<1>3. Keeps(call, live, prog)
  BY DEF Keeps, IsBranch
<1> HIDE DEF call
<1>4. Flows(blocks', live, prog) /\ live \subseteq DOMAIN blocks'
  BY <1>1, <1>2, <1>3, FlowsEmit, EmitIsBlocks DEF LiveWith
<1>5. ~ EndsWithReturn[Top.node]
  BY <1>1, <1>2, StackProps, EndsOf
<1>6. LiveWith(live \cup {})'
  BY <1>1, <1>4, <1>5, NoMore, StepLeave DEF Comes
<1> QED BY <1>6, NoMore

\* The builder goes on in a block that nothing reaches.
LEMMA DeadLive ==
  ASSUME BlockInv, stack # <<>>, NEW live, LiveWith(live), NEW bs, IsBlocks(bs),
         Len(bs) = Len(blocks), DOMAIN bs = DOMAIN blocks, Flows(bs, live, prog),
         Dead(bs), Leave(VOID)
  PROVE  LiveWith(live)'
<1>1. DOMAIN blocks = 1..Len(blocks) /\ Len(blocks) \in Nat /\ live \subseteq DOMAIN blocks
  BY BlockFacts DEF LiveWith
<1>2. blocks' = Created(bs, 1) /\ at' = Len(blocks) + 1
  BY DEF Dead
<1>3. Flows(blocks', live, prog)
  BY <1>2, FlowsCreated
<1>4. live \subseteq DOMAIN blocks'
  <2>1. DOMAIN Created(bs, 1) = 1..(Len(bs) + 1)
    BY CreatedProps
  <2>2. 1..Len(blocks) \subseteq 1..(Len(blocks) + 1)
    BY <1>1
  <2> QED BY <1>1, <1>2, <2>1, <2>2
<1>5. at' \notin live
  BY <1>1, <1>2
<1>6. LiveWith(live \cup {})'
  BY <1>3, <1>4, <1>5, NoMore, StepLeave
<1> QED BY <1>6, NoMore

LEMMA GenJumpLive ==
  ASSUME BlockInv, GenJump, NEW live, LiveWith(live)
  PROVE  LiveWith(live)'
<1> DEFINE target == IF Top.node.kind = "BREAK" THEN Top.loop.brk ELSE Top.loop.cont
           jump == Br(target)
           n == Len(stack)
<1>1. /\ stack # <<>> /\ Kind(Top) \in {"BREAK", "CONTINUE"}
      /\ Dead(Emit(blocks, at, jump)) /\ Leave(VOID)
  BY DEF GenJump, Is, Kind
<1>2. IsBlocks(blocks) /\ at \in DOMAIN blocks /\ IsStack(stack)
  BY <1>1, BlockFacts
<1>3. n \in DOMAIN stack /\ DOMAIN stack = 1..n /\ n \in Nat \ {0} /\ Top.node \in Nodes /\ Top = stack[n]
  BY <1>1, <1>2, StackProps DEF Top
<1>4. at \in live => target \in live
  <2> SUFFICES ASSUME at \in live PROVE target \in live
    OBVIOUS
  <2>1. GoesUpTo(stack, n, live)
    BY DEF LiveWith, LiveStack
  <2>2. Top.loop # NoLoop
    BY <1>1, <1>3, JumpsOf DEF LiveWith, Nested
  <2> HIDE DEF n, target
  <2>3. PICK j \in 1..(n - 1) :
           /\ IsWhile(stack[j]) /\ stack[j].next = 3
           /\ Top.loop = LoopTargets(stack[j].new, stack[j].new + 1, stack[j].new + 2)
    BY <1>3, <2>2 DEF LiveWith, LoopsAround
  <2>4. j \in 1..n
    BY <1>3
  <2>5. LoopLive(stack[j], live)
    BY <2>1, <2>4 DEF GoesUpTo, Goes
  <2>6. stack[j].new \in live /\ stack[j].new + 2 \in live
    BY <2>3, <2>5 DEF LoopLive, Again
  <2>7. target \in {stack[j].new, stack[j].new + 2}
    BY <2>3 DEF target, LoopTargets
  <2> QED BY <2>6, <2>7
<1> HIDE DEF target
<1>5. Flows(Emit(blocks, at, jump), live, prog)
  <2>1. BranchesTo(jump, {target})
    BY BrTo
  <2> HIDE DEF jump
  <2>3. at \in live => {target} \subseteq live \cup {}
    BY <1>4
  <2>4. stack # <<>> /\ at \notin {} /\ \A b \in {} \cap DOMAIN blocks : blocks[b] = <<>>
    BY <1>1
  <2>2. Flows(Emit(blocks, at, jump), live \cup {}, prog)
    BY <2>1, <2>3, <2>4, FlowsEnd
  <2> QED BY <2>2, NoMore
<1> HIDE DEF jump
<1>6. /\ IsBlocks(Emit(blocks, at, jump)) /\ Len(Emit(blocks, at, jump)) = Len(blocks)
      /\ DOMAIN Emit(blocks, at, jump) = DOMAIN blocks
  BY <1>2, EmitProps
<1> QED BY <1>1, <1>5, <1>6, DeadLive

LEMMA ReturnValueLive ==
  ASSUME BlockInv, ReturnValue, NEW live, LiveWith(live)
  PROVE  LiveWith(live)'
<1> DEFINE store == [op |-> "store", val |-> value]
           mid == Emit(blocks, at, store)
<1>1. stack # <<>> /\ Dead(Emit(mid, at, Br(EXIT))) /\ Leave(VOID)
  BY DEF ReturnValue, Is
<1>2. IsBlocks(blocks) /\ at \in DOMAIN blocks
  BY <1>1, BlockFacts
<1>3. store.op = "store" /\ Keeps(store, live, prog)
  BY DEF Keeps, IsBranch
<1> HIDE DEF store
<1>4. /\ IsBlocks(mid) /\ Len(mid) = Len(blocks) /\ DOMAIN mid = DOMAIN blocks
      /\ Flows(mid, live, prog)
  BY <1>2, <1>3, EmitIsBlocks, FlowsEmit DEF LiveWith
<1>5. \E i \in DOMAIN mid[at] : mid[at][i].op = "store"
  <2>1. /\ DOMAIN mid[at] = 1..(Len(blocks[at]) + 1) /\ mid[at][Len(blocks[at]) + 1] = store
    BY <1>2, EmitProps
  <2>2. Len(blocks[at]) \in Nat
    BY <1>2, BlocksAreSequences
  <2> HIDE DEF mid
  <2> QED BY <1>3, <2>1, <2>2
<1> HIDE DEF mid
<1>6. /\ IsBlocks(Emit(mid, at, Br(EXIT))) /\ Len(Emit(mid, at, Br(EXIT))) = Len(blocks)
      /\ DOMAIN Emit(mid, at, Br(EXIT)) = DOMAIN blocks
      /\ Flows(Emit(mid, at, Br(EXIT)), live, prog)
  BY <1>2, <1>4, <1>5, EmitIsBlocks, FlowsEmit
<1> QED BY <1>1, <1>6, DeadLive

LEMMA LeaveBlockLive ==
  ASSUME BlockInv, LeaveBlock, NEW live, LiveWith(live)
  PROVE  LiveWith(live)'
<1> DEFINE v == IF Top.node.kind = "BLOCK" THEN VOID ELSE value
           n == Len(stack)
<1>1. /\ stack # <<>> /\ Kind(Top) \in {"BLOCK", "BLOCK_EXPR"} /\ Top.next = Width(Top) + 1
      /\ Leave(v) /\ blocks' = blocks /\ at' = at
  BY DEF LeaveBlock, Is, Kind, Width
<1> HIDE DEF v
<1>2. IsStack(stack)
  BY <1>1, BlockFacts
<1>3. n \in 1..n /\ Top = stack[n] /\ Top.node \in Nodes /\ Width(Top) \in Nat
  BY <1>1, <1>2, StackProps DEF Top
<1>4. EndsWithReturn[Top.node] => at \notin live
  <2> SUFFICES ASSUME EndsWithReturn[Top.node], at \in live PROVE FALSE
    OBVIOUS
  <2>1. PICK i \in 1..Width(Top) : Ends(Top, i)
    BY <1>1, <1>3, EndsOf
  <2>2. Goes(stack, n, live)
    BY <1>3 DEF LiveWith, LiveStack, GoesUpTo
  <2>3. Done(stack, n) = Width(Top)
    BY <1>1, <1>3 DEF Done
  <2>4. HasReturned(Top, Width(Top))
    BY <1>1, <2>1 DEF HasReturned
  <2> QED BY <1>3, <2>2, <2>3, <2>4 DEF Goes
<1>5. Flows(blocks', live, prog) /\ live \subseteq DOMAIN blocks'
  BY <1>1 DEF LiveWith
<1>6. LiveWith(live \cup {})'
  BY <1>1, <1>4, <1>5, NoMore, StepLeave DEF Comes
<1> QED BY <1>6, NoMore

LEMMA NextChildLive ==
  ASSUME BlockInv, NextChild, NEW live, LiveWith(live)
  PROVE  LiveWith(live)'
<1> DEFINE g == stack'[Len(stack)]
<1>1. /\ stack # <<>> /\ Kind(Top) \in {"BLOCK", "BLOCK_EXPR", "RETURN", "AND", "OR"}
      /\ Descend(Top, Top.loop) /\ blocks' = blocks /\ at' = at
      /\ \/ Kind(Top) \in {"RETURN", "AND", "OR"} /\ Top.next = 1
         \/ Kind(Top) \in {"BLOCK", "BLOCK_EXPR"} /\ HasKid(Top.node, Top.next)
  BY DEF NextChild, Is, Kind
<1>2. IsStack(stack)
  BY <1>1, BlockFacts
<1>3. Top \in Frames /\ Top.node \in Nodes /\ Top.loop \in Loops /\ Top.new \in Nat
  BY <1>1, <1>2, StackProps
<1>4. Top.next \in 1..Width(Top)
  BY <1>1, <1>3, KidsAre
<1>5. Kind(g) = Kind(Top) /\ g.next = Top.next + 1 /\ g.new = Top.new
  BY <1>1, <1>2, <1>3, <1>4, DescendProps
<1> HIDE DEF g
<1>6. Later(g) = {} /\ Again(g) = {}
  <2>1. CASE Kind(Top) \in {"AND", "OR"}
    BY <1>1, <1>3, <1>5, <2>1, OwnedByLazy DEF IsLazy
  <2>2. CASE Kind(Top) \notin {"AND", "OR"}
    BY <1>1, <1>5, <2>2, OwnedByOthers DEF IsLazy, IsIf, IsWhile
  <2> QED BY <2>1, <2>2
<1>7. ~ IsWhile(g) /\ ~ IsIf(g) /\ ~ IsWhile(Top)
  BY <1>1, <1>5 DEF IsWhile, IsIf
<1>8. LoopLive(g, live) /\ ~ BothReturn(stack', Len(stack))
  BY <1>6, <1>7 DEF LoopLive, BothReturn, g
<1>9. Flows(blocks', live, prog) /\ live \subseteq DOMAIN blocks'
  BY <1>1 DEF LiveWith
<1>10. LiveWith(live \cup {})'
  <2>1. g = stack'[Len(stack)]
    BY DEF g
  <2>2. at' \in live \cup {} => Comes(live)
    BY <1>1 DEF Comes
  <2>3. /\ LoopLive(g, live \cup {}) /\ Flows(blocks', live \cup {}, prog)
        /\ live \cup {} \subseteq DOMAIN blocks' /\ Later(g) \cap (live \cup {}) = {}
    BY <1>6, <1>8, <1>9, NoMore
  <2>4. Len(blocks) \in Nat /\ {} \subseteq Owned(Top) \cup ((Len(blocks) + 1)..Len(blocks))
    BY NoMore
  <2>5. /\ Top.loop = Top.loop /\ (IsWhile(Top) => Top.next = 1)
        /\ BothReturn(stack', Len(stack)) => g.new + 1 \notin live \cup {}
    BY <1>7, <1>8
  <2> QED BY <1>1, <1>3, <1>4, <2>1, <2>2, <2>3, <2>4, <2>5, StepDescend
<1> QED BY <1>10, NoMore

LEMMA ComesTop ==
  ASSUME BlockInv, stack # <<>>, NEW live, LiveWith(live)
  PROVE  /\ Comes(live) => ~ HasReturned(Top, Top.next - 1) /\ LoopLive(Top, live)
         /\ Later(Top) \cap live # {} => 3 <= Top.next
         /\ 2 <= Top.next /\ Ends(Top, Top.next - 1) => at \notin live
         /\ IsIf(Top) /\ Width(Top) = 3 /\ Top.next \in {3, 4} /\ (3 <= Top.next => Ends(Top, 2)) =>
              Top.new + 1 \notin live
<1> DEFINE n == Len(stack)
<1>1. IsStack(stack)
  BY BlockFacts
<1>2. n \in 1..n /\ n \in DOMAIN stack /\ Top = stack[n] /\ Top.next \in Nat
  BY <1>1, StackProps DEF Top, Frames
<1>3. Done(stack, n) = Top.next - 1
  BY <1>2 DEF Done
<1>4. Comes(live) => Goes(stack, n, live)
  BY <1>2 DEF Comes, LiveWith, LiveStack, LaterLive, GoesUpTo
<1>5. Later(Top) \cap live # {} => 3 <= Top.next
  BY <1>2 DEF LiveWith, LiveStack, LaterLive
<1>6. 2 <= Top.next /\ Ends(Top, Top.next - 1) => at \notin live
  BY <1>2 DEF LiveWith, LiveStack
<1>7. IsIf(Top) /\ Width(Top) = 3 /\ Top.next \in {3, 4} /\ (3 <= Top.next => Ends(Top, 2)) =>
        Top.new + 1 \notin live
  <2>1. 2 <= Top.next - 1 <=> 3 <= Top.next
    BY <1>2
  <2>2. BothReturn(stack, n) => stack[n].new + 1 \notin live
    BY <1>2 DEF LiveWith, LiveStack, JoinsDead
  <2> QED BY <1>2, <1>3, <2>1, <2>2 DEF BothReturn
<1> QED BY <1>2, <1>3, <1>4, <1>5, <1>6, <1>7 DEF Goes

\* A call that ends begins the last block it owns.
LEMMA OwnedLive ==
  ASSUME BlockInv, stack # <<>>, NEW live, LiveWith(live),
         NEW c, Later(Top) = {c}, at' = c, NEW target,
         \/ blocks' = Emit(blocks, at, Br(target))
         \/ \E phi : /\ ~ IsBranch(phi) /\ phi.op = "phi"
                     /\ blocks' = Emit(Emit(blocks, at, Br(target)), c, phi),
         NEW v, Leave(v), NEW more \in SUBSET {c}, at \in live => target \in live \cup more,
         more # {} => at \in live,
         EndsWithReturn[Top.node] => c \notin live \cup more
  PROVE  LiveWith(live \cup more)'
<1> DEFINE mid == Emit(blocks, at, Br(target))
           new == live \cup more
<1>1. /\ IsBlocks(blocks) /\ at \in DOMAIN blocks /\ Len(blocks) \in Nat
      /\ DOMAIN blocks = 1..Len(blocks) /\ Pending(stack) \subseteq 4..Len(blocks)
      /\ Later(Top) \subseteq Pending(stack)
  BY BlockFacts
<1>2. c \in DOMAIN blocks /\ new \subseteq DOMAIN blocks
  BY <1>1 DEF LiveWith
<1>3. /\ at \notin more /\ \A b \in more \cap DOMAIN blocks : blocks[b] = <<>>
      /\ more \subseteq Owned(Top) \cup ((Len(blocks) + 1)..Len(blocks))
  <2>1. more \subseteq Later(Top) \cup ((Len(blocks) + 1)..Len(blocks))
    OBVIOUS
  <2> QED BY <1>1, <2>1, Waiting
<1>4. /\ IsBlocks(mid) /\ Len(mid) = Len(blocks) /\ DOMAIN mid = DOMAIN blocks
      /\ Flows(mid, new, prog)
  <2>1. BranchesTo(Br(target), {target})
    BY BrTo
  <2>2. at \in live => {target} \subseteq new
    OBVIOUS
  <2> HIDE DEF new
  <2>3. Flows(mid, new, prog)
    BY <1>3, <2>1, <2>2, FlowsEnd DEF new
  <2> QED BY <1>1, <2>3, EmitIsBlocks
<1> HIDE DEF mid
<1>5. Flows(blocks', new, prog) /\ DOMAIN blocks' = DOMAIN blocks
  <2>1. CASE blocks' = mid
    BY <1>4, <2>1
  <2>2. ASSUME NEW phi, ~ IsBranch(phi), phi.op = "phi", blocks' = Emit(mid, c, phi)
        PROVE  Flows(blocks', new, prog) /\ DOMAIN blocks' = DOMAIN blocks
    <3>1. Keeps(phi, new, prog)
      BY <2>2 DEF Keeps
    <3> HIDE DEF new
    <3> QED BY <1>2, <1>4, <2>2, <3>1, FlowsEmit, EmitIsBlocks
  <2> QED BY <2>1, <2>2 DEF mid
<1>6. at' \in new => Comes(live)
  BY DEF Comes
<1> QED BY <1>1, <1>2, <1>3, <1>5, <1>6, StepLeave

LEMMA LazyEndLive ==
  ASSUME LazyAssumption, BlockInv, LazyEnd, NEW live, LiveWith(live)
  PROVE  \E new : live \subseteq new /\ LiveWith(new)'
<1> DEFINE rest == Top.new + 1
           phi == Phi(Top.path, LazyIncoming(Top.from, Top.val, at, value, Top.new))
<1>1. /\ stack # <<>> /\ IsLazy(Top) /\ Top.next = 3
      /\ at' = rest /\ blocks' = Emit(Emit(blocks, at, Br(rest)), rest, phi) /\ Leave(Top.path)
  BY DEF LazyEnd, Is, IsLazy, Kind
<1>2. IsStack(stack)
  BY <1>1, BlockFacts
<1>3. Top.node \in Nodes /\ Top.new \in Nat
  BY <1>1, <1>2, StackProps
<1>4. Later(Top) = {rest}
  BY <1>1, <1>3, OwnedByLazy
<1>5. EndsWithReturn[Top.node] => ~ Comes(live)
  <2>1. Comes(live) => ~ HasReturned(Top, 2)
    BY <1>1, ComesTop
  <2>2. EndsWithReturn[Top.node] => Ends(Top, 1)
    BY <1>1, <1>3, EndsOf
  <2> QED BY <1>1, <2>1, <2>2 DEF HasReturned
<1>6. phi.op = "phi" /\ ~ IsBranch(phi)
  BY PhiIs
<1> HIDE DEF phi, rest
<1>9. PICK more : more = IF at \in live THEN {rest} ELSE {}
  OBVIOUS
<1>7. EndsWithReturn[Top.node] => rest \notin live \cup more
  BY <1>4, <1>5, <1>9 DEF Comes
<1>8. LiveWith(live \cup more)'
  <2>1. more \in SUBSET {rest} /\ (at \in live => rest \in live \cup more) /\ (more # {} => at \in live)
    BY <1>9
  <2> QED BY <1>1, <1>4, <1>6, <1>7, <2>1, OwnedLive
<1> QED BY <1>8

\* The end of an if, of both kinds.
LEMMA IfEnds ==
  ASSUME BlockInv, stack # <<>>, IsIf(Top), Top.next = Width(Top) + 1, NEW live, LiveWith(live)
  PROVE  /\ Later(Top) = {Top.new + 1}
         /\ EndsWithReturn[Top.node] => Top.new + 1 \notin live /\ at \notin live
<1>1. IsStack(stack)
  BY BlockFacts
<1>2. Top.node \in Nodes /\ Top.new \in Nat
  BY <1>1, StackProps
<1>3. Width(Top) \in {2, 3}
  BY <1>2, KidsAre DEF IsIf
<1>4. Later(Top) = {Top.new + 1}
  BY <1>2, <1>3, OwnedByIf
<1>5. CASE Ends(Top, 1)
  <2>1. HasReturned(Top, Top.next - 1)
    BY <1>3, <1>5 DEF HasReturned
  <2>2. ~ Comes(live)
    BY <2>1, ComesTop
  <2> QED BY <1>4, <2>2 DEF Comes
<1>6. CASE Width(Top) = 3 /\ Ends(Top, 2) /\ Ends(Top, 3)
  <2>1. Top.next = 4 /\ Top.next - 1 = 3
    BY <1>6
  <2>2. 2 <= Top.next /\ Ends(Top, Top.next - 1)
    BY <1>6, <2>1
  <2> QED BY <1>4, <1>6, <2>1, <2>2, ComesTop
<1>7. EndsWithReturn[Top.node] => Ends(Top, 1) \/ (Width(Top) = 3 /\ Ends(Top, 2) /\ Ends(Top, 3))
  BY <1>2, EndsOf
<1> QED BY <1>4, <1>5, <1>6, <1>7

LEMMA IfEndLive ==
  ASSUME BlockInv, IfEnd, NEW live, LiveWith(live)
  PROVE  \E new : live \subseteq new /\ LiveWith(new)'
<1> DEFINE rest == Top.new + 1
<1>1. /\ stack # <<>> /\ IsIf(Top) /\ Top.next = Width(Top) + 1
      /\ at' = rest /\ blocks' = Emit(blocks, at, Br(rest)) /\ Leave(VOID)
  BY DEF IfEnd, Is, IsIf, Kind, Width
<1>2. Later(Top) = {rest} /\ (EndsWithReturn[Top.node] => rest \notin live /\ at \notin live)
  BY <1>1, IfEnds
<1> HIDE DEF rest
<1>4. PICK more : more = IF at \in live THEN {rest} ELSE {}
  OBVIOUS
<1>3. LiveWith(live \cup more)'
  <2>1. /\ more \in SUBSET {rest} /\ (at \in live => rest \in live \cup more) /\ (more # {} => at \in live)
        /\ EndsWithReturn[Top.node] => rest \notin live \cup more
    BY <1>2, <1>4
  <2> QED BY <1>1, <1>2, <2>1, OwnedLive
<1> QED BY <1>3

LEMMA IfExprEndLive ==
  ASSUME BlockInv, IfExprEnd, NEW live, LiveWith(live)
  PROVE  \E new : live \subseteq new /\ LiveWith(new)'
<1> DEFINE rest == Top.new + 1
           phi == Phi(Top.path, IfIncoming(Top.new, Top.val, ElseBlock, value))
<1>1. /\ stack # <<>> /\ Kind(Top) = "IF_ELSE_EXPR" /\ Top.next = 4
      /\ at' = rest /\ blocks' = Emit(Emit(blocks, at, Br(rest)), rest, phi) /\ Leave(Top.path)
  BY DEF IfExprEnd, Is, Kind
<1>2. IsIf(Top) /\ Top.next = Width(Top) + 1
  <2>1. IsStack(stack)
    BY <1>1, BlockFacts
  <2>2. Top.node \in Nodes
    BY <1>1, <2>1, StackProps
  <2> QED BY <1>1, <2>2, KidsAre DEF IsIf
<1>3. Later(Top) = {rest} /\ (EndsWithReturn[Top.node] => rest \notin live /\ at \notin live)
  BY <1>1, <1>2, IfEnds
<1>4. phi.op = "phi" /\ ~ IsBranch(phi)
  BY PhiIs
<1> HIDE DEF rest, phi
<1>6. PICK more : more = IF at \in live THEN {rest} ELSE {}
  OBVIOUS
<1>5. LiveWith(live \cup more)'
  <2>1. /\ more \in SUBSET {rest} /\ (at \in live => rest \in live \cup more) /\ (more # {} => at \in live)
        /\ EndsWithReturn[Top.node] => rest \notin live \cup more
    BY <1>3, <1>6
  <2> QED BY <1>1, <1>3, <1>4, <2>1, OwnedLive
<1> QED BY <1>5

LEMMA WhileEndLive ==
  ASSUME BlockInv, WhileEnd, NEW live, LiveWith(live)
  PROVE  LiveWith(live)'
<1> DEFINE rest == Top.new + 2
           cond == Top.new
<1>1. /\ stack # <<>> /\ IsWhile(Top) /\ Top.next = 3
      /\ at' = rest /\ blocks' = Emit(blocks, at, Br(cond)) /\ Leave(VOID)
  BY DEF WhileEnd, Is, IsWhile, Kind
<1>2. IsStack(stack)
  BY <1>1, BlockFacts
<1>3. Top.node \in Nodes /\ Top.new \in Nat
  BY <1>1, <1>2, StackProps
<1>4. Later(Top) = {rest} /\ Again(Top) = {cond}
  BY <1>1, <1>3, OwnedByWhile
<1>5. at \in live => cond \in live
  BY <1>1, <1>4, ComesTop DEF LoopLive, Comes
<1>6. EndsWithReturn[Top.node] => rest \notin live
  <2>1. Comes(live) => ~ HasReturned(Top, 2)
    BY <1>1, ComesTop
  <2>2. EndsWithReturn[Top.node] => Ends(Top, 1)
    BY <1>1, <1>3, EndsOf
  <2> QED BY <1>1, <1>4, <2>1, <2>2 DEF HasReturned, Comes
<1> HIDE DEF rest, cond
<1>7. LiveWith(live \cup {})'
  <2>1. /\ {} \in SUBSET {rest} /\ (at \in live => cond \in live \cup {}) /\ ({} # {} => at \in live)
        /\ EndsWithReturn[Top.node] => rest \notin live \cup {}
    BY <1>5, <1>6
  <2> QED BY <1>1, <1>4, <2>1, OwnedLive
<1> QED BY <1>7, NoMore

FlowsWithin(bs, live) == Flows(bs, live, prog) /\ live \subseteq DOMAIN bs

\* A branch to blocks that are created for it, or that wait.
LEMMA FlowsEndCreate ==
  ASSUME BlockInv, stack # <<>>, NEW live, LiveWith(live), NEW instr, NEW targets,
         BranchesTo(instr, targets), NEW n \in Nat,
         blocks' = Created(Emit(blocks, at, instr), n),
         NEW top, top = Len(blocks) + n, NEW more, more \subseteq (Len(blocks) + 1)..top,
         at \in live => targets \subseteq live \cup more
  PROVE  FlowsWithin(blocks', live \cup more)
<1> DEFINE mid == Emit(blocks, at, instr)
           new == live \cup more
<1>1. /\ IsBlocks(blocks) /\ at \in DOMAIN blocks /\ Len(blocks) \in Nat
      /\ DOMAIN blocks = 1..Len(blocks) /\ live \subseteq DOMAIN blocks
  BY BlockFacts DEF LiveWith
<1>2. top \in Nat /\ 1..Len(blocks) \subseteq 1..top
  BY <1>1
<1>3. at \notin more /\ \A b \in more \cap DOMAIN blocks : blocks[b] = <<>>
  BY <1>1
<1>4. Flows(mid, new, prog)
  BY <1>3, FlowsEnd
<1>5. IsBlocks(mid) /\ Len(mid) = Len(blocks)
  BY <1>1, EmitIsBlocks
<1> HIDE DEF mid, new
<1>6. Flows(Created(mid, n), new, prog)
  BY <1>4, <1>5, FlowsCreated
<1>8. DOMAIN Created(mid, n) = 1..top
  <2>1. DOMAIN Created(mid, n) = 1..(Len(mid) + n)
    BY <1>5, CreatedProps
  <2> QED BY <1>5, <2>1
<1>7. new \subseteq 1..top
  <2>1. more \subseteq 1..top
    BY <1>1, <1>2
  <2> QED BY <1>1, <1>2, <2>1 DEF new
<1> QED BY <1>2, <1>6, <1>7, <1>8 DEF mid, new, FlowsWithin

LEMMA FlowsEndBegin ==
  ASSUME BlockInv, stack # <<>>, NEW live, LiveWith(live), NEW instr, NEW targets, BranchesTo(instr, targets),
         blocks' = Emit(blocks, at, instr), NEW more, more \subseteq Later(Top),
         at \in live => targets \subseteq live \cup more
  PROVE  FlowsWithin(blocks', live \cup more)
<1>1. /\ IsBlocks(blocks) /\ at \in DOMAIN blocks /\ Len(blocks) \in Nat
      /\ DOMAIN blocks = 1..Len(blocks) /\ live \subseteq DOMAIN blocks
      /\ Pending(stack) \subseteq 4..Len(blocks) /\ Later(Top) \subseteq Pending(stack)
  BY BlockFacts DEF LiveWith
<1>2. more \subseteq Later(Top) \cup ((Len(blocks) + 1)..Len(blocks))
  OBVIOUS
<1>3. /\ at \notin more /\ \A b \in more \cap DOMAIN blocks : blocks[b] = <<>>
      /\ more \subseteq Owned(Top) \cup ((Len(blocks) + 1)..Len(blocks))
  BY <1>1, <1>2, Waiting
<1>4. Flows(blocks', live \cup more, prog)
  BY <1>3, FlowsEnd
<1>5. DOMAIN blocks' = DOMAIN blocks
  BY <1>1, EmitIsBlocks
<1>6. more \subseteq DOMAIN blocks
  BY <1>1
<1> QED BY <1>1, <1>3, <1>4, <1>5, <1>6 DEF FlowsWithin

LEMMA LazyRightLive ==
  ASSUME BlockInv, LazyRight, NEW live, LiveWith(live)
  PROVE  \E new : live \subseteq new /\ LiveWith(new)'
<1> DEFINE right == Len(blocks) + 1
           rest == right + 1
           branch == IF Top.node.kind = "AND" THEN CondBr(value, right, rest)
                     ELSE CondBr(value, rest, right)
           f == [Top EXCEPT !.new = right, !.val = value, !.from = at]
<1>1. /\ stack # <<>> /\ IsLazy(Top) /\ Top.next = 2
      /\ blocks' = Created(Emit(blocks, at, branch), 2) /\ at' = right
      /\ Descend(f, Top.loop)
  BY DEF LazyRight, Is, Kind, IsLazy
<1>2. /\ at \in DOMAIN blocks /\ DOMAIN blocks = 1..Len(blocks) /\ IsStack(stack)
      /\ Len(blocks) \in Nat /\ value \in Seq(Nat) /\ live \subseteq DOMAIN blocks
  BY <1>1, BlockFacts DEF LiveWith
<1>3. /\ Top \in Frames /\ Top.node \in Nodes /\ Top.loop \in Loops
  BY <1>1, <1>2, StackProps
<1>4. Width(Top) = 2
  BY <1>1, <1>3, KidsAre DEF IsLazy
<1>5. BranchesTo(branch, {right, rest})
  BY CondBrTo
<1>6. right \in Nat /\ rest \in Nat /\ (Len(blocks) + 1)..(Len(blocks) + 2) = {right, rest}
      /\ right \notin live /\ rest \notin live /\ at \in Nat
  BY <1>2
<1> HIDE DEF branch, right, rest
<1>7. f \in Frames /\ f.node = Top.node /\ f.next = Top.next /\ f.new = right /\ f.loop = Top.loop
  <2> DEFINE t == Top
  <2> HIDE DEF t
  <2>1. t \in Frames /\ f = [t EXCEPT !.new = right, !.val = value, !.from = at]
    BY <1>3 DEF t
  <2> HIDE DEF f
  <2>2. f \in Frames /\ f.node = t.node /\ f.next = t.next /\ f.new = right /\ f.loop = t.loop
    BY <1>2, <1>6, <2>1 DEF Frames
  <2> QED BY <2>2 DEF t
<1> HIDE DEF f
<1>8. Kind(f) = Kind(Top) /\ Width(f) = 2 /\ f.next \in 1..Width(f)
  BY <1>1, <1>4, <1>7, SameNode
<1>9. PICK g : g = stack'[Len(stack)]
  OBVIOUS
<1>10. Kind(g) = Kind(f) /\ g.next = 3 /\ g.new = right
  BY <1>1, <1>2, <1>3, <1>7, <1>8, <1>9, DescendProps
<1>11. IsLazy(g) /\ ~ IsIf(g) /\ ~ IsWhile(g) /\ ~ IsWhile(Top)
  BY <1>1, <1>8, <1>10 DEF IsLazy, IsIf, IsWhile
<1>12. Later(g) = {rest} /\ Again(g) = {}
  BY <1>6, <1>10, <1>11, OwnedByLazy DEF rest
<1>13. PICK more : more = IF at \in live THEN {right, rest} ELSE {}
  OBVIOUS
<1>18. PICK top : top = Len(blocks) + 2
  OBVIOUS
<1>14. /\ Flows(blocks', live \cup more, prog) /\ live \cup more \subseteq DOMAIN blocks'
       /\ top \in Nat /\ more \subseteq Owned(Top) \cup ((Len(blocks) + 1)..top)
  <2>1. more \subseteq (Len(blocks) + 1)..top
    BY <1>6, <1>13, <1>18
  <2>2. at \in live => {right, rest} \subseteq live \cup more
    BY <1>5, <1>13
  <2>3. 2 \in Nat
    OBVIOUS
  <2>5. PICK targets : targets = {right, rest}
    OBVIOUS
  <2>6. BranchesTo(branch, targets) /\ (at \in live => targets \subseteq live \cup more)
    BY <1>5, <2>2, <2>5
  <2>4. FlowsWithin(blocks', live \cup more)
    BY <1>1, <1>18, <2>1, <2>3, <2>6, FlowsEndCreate
  <2> QED BY <1>2, <1>18, <2>1, <2>4 DEF FlowsWithin
<1>15. /\ at' \in live \cup more => Comes(live) /\ LoopLive(g, live \cup more)
       /\ Later(g) \cap (live \cup more) # {} =>
            3 <= g.next /\ Comes(live) /\ LoopLive(g, live \cup more)
       /\ BothReturn(stack', Len(stack)) => g.new + 1 \notin live \cup more
  <2>1. LoopLive(g, live \cup more)
    BY <1>11, <1>12 DEF LoopLive
  <2>2. ~ BothReturn(stack', Len(stack))
    BY <1>9, <1>11 DEF BothReturn
  <2>3. at' \in live \cup more => Comes(live)
    BY <1>1, <1>6, <1>13 DEF Comes
  <2>4. Later(g) \cap (live \cup more) # {} => Comes(live)
    BY <1>6, <1>12, <1>13 DEF Comes
  <2> QED BY <1>10, <2>1, <2>2, <2>3, <2>4
<1>16. Top.loop = Top.loop /\ (IsWhile(Top) => Top.next = 1)
  BY <1>11
<1>17. LiveWith(live \cup more)'
  BY <1>1, <1>3, <1>7, <1>8, <1>9, <1>14, <1>15, <1>16, StepDescend
<1> QED BY <1>17

LEMMA IfConditionLive ==
  ASSUME BlockInv, IfCondition, NEW live, LiveWith(live)
  PROVE  LiveWith(live)'
<1> DEFINE n == IF HasElse THEN 3 ELSE 2
           new == Len(blocks) + 1
           f == [Top EXCEPT !.new = new]
<1>1. /\ stack # <<>> /\ IsIf(Top) /\ Top.next = 1 /\ at' = at
      /\ blocks' = Created(blocks, n) /\ Descend(f, Top.loop)
  BY DEF IfCondition, Is, IsIf, Kind
<1>2. /\ IsBlocks(blocks) /\ IsStack(stack) /\ Len(blocks) \in Nat
      /\ DOMAIN blocks = 1..Len(blocks) /\ live \subseteq DOMAIN blocks
      /\ Flows(blocks, live, prog)
  BY <1>1, BlockFacts DEF LiveWith
<1>3. /\ Top \in Frames /\ Top.node \in Nodes /\ Top.loop \in Loops
  BY <1>1, <1>2, StackProps
<1>4. Width(Top) \in {2, 3}
  BY <1>1, <1>3, KidsAre DEF IsIf
<1>5. n \in Nat /\ new \in Nat
  BY <1>2
<1> HIDE DEF n, new
<1>6. f \in Frames /\ f.node = Top.node /\ f.next = Top.next /\ f.new = new /\ f.loop = Top.loop
  BY <1>3, <1>5, FrameWithNew, Zenon
<1> HIDE DEF f
<1>7. Kind(f) = Kind(Top) /\ Width(f) = Width(Top) /\ f.next \in 1..Width(f)
  BY <1>1, <1>4, <1>6, SameNode
<1>8. PICK g : g = stack'[Len(stack)]
  OBVIOUS
<1>9. Kind(g) = Kind(f) /\ Width(g) = Width(f) /\ g.next = 2 /\ g.new = new
  BY <1>1, <1>2, <1>3, <1>6, <1>7, <1>8, DescendProps
<1>10. IsIf(g) /\ ~ IsWhile(g) /\ ~ IsWhile(Top)
  BY <1>1, <1>7, <1>9 DEF IsIf, IsWhile
<1>11. Again(g) = {} /\ Later(g) \subseteq (Len(blocks) + 1)..(Len(blocks) + 3)
  <2>1. /\ Later(g) \subseteq {new} \cup {new + 1} \cup {new + 2} /\ Again(g) = {}
    BY <1>5, <1>9, <1>10, OwnedByIf
  <2>2. {new} \cup {new + 1} \cup {new + 2} \subseteq (Len(blocks) + 1)..(Len(blocks) + 3)
    BY <1>2 DEF new
  <2> QED BY <2>1, <2>2
<1>12. Later(g) \cap live = {}
  BY <1>2, <1>11
<1>13. Flows(blocks', live, prog) /\ live \subseteq DOMAIN blocks'
  <2>1. DOMAIN Created(blocks, n) = 1..(Len(blocks) + n)
    BY <1>2, <1>5, CreatedProps
  <2>2. 1..Len(blocks) \subseteq 1..(Len(blocks) + n)
    BY <1>2, <1>5
  <2> QED BY <1>1, <1>2, <1>5, <2>1, <2>2, FlowsCreated
<1>14. LiveWith(live \cup {})'
  <2>1. at' \in live \cup {} => Comes(live) /\ LoopLive(g, live \cup {})
    BY <1>1, <1>10, <1>11 DEF Comes, LoopLive
  <2>2. /\ Flows(blocks', live \cup {}, prog) /\ live \cup {} \subseteq DOMAIN blocks'
        /\ Later(g) \cap (live \cup {}) = {}
    BY <1>12, <1>13, NoMore
  <2>3. Len(blocks) \in Nat /\ {} \subseteq Owned(Top) \cup ((Len(blocks) + 1)..Len(blocks))
    BY NoMore
  <2>4. /\ Top.loop = Top.loop /\ (IsWhile(Top) => Top.next = 1)
        /\ BothReturn(stack', Len(stack)) => g.new + 1 \notin live \cup {}
    BY <1>8, <1>9, <1>10 DEF BothReturn
  <2> QED BY <1>1, <1>3, <1>6, <1>7, <1>8, <2>1, <2>2, <2>3, <2>4, StepDescend
<1> QED BY <1>14, NoMore

LEMMA IfBranchLive ==
  ASSUME BlockInv, IfBranch, NEW live, LiveWith(live)
  PROVE  \E new : live \subseteq new /\ LiveWith(new)'
<1> DEFINE branch == CondBr(value, Top.new, ElseBlock)
<1>1. /\ stack # <<>> /\ IsIf(Top) /\ Top.next = 2 /\ at' = Top.new
      /\ blocks' = Emit(blocks, at, branch) /\ Descend(Top, Top.loop)
  BY DEF IfBranch, Is, IsIf, Kind
<1>2. IsStack(stack) /\ Later(Top) \subseteq Owned(Top) /\ Len(blocks) \in Nat
  BY <1>1, BlockFacts
<1>3. Top \in Frames /\ Top.node \in Nodes /\ Top.loop \in Loops /\ Top.new \in Nat
  BY <1>1, <1>2, StackProps
<1>4. Width(Top) \in {2, 3} /\ (HasElse <=> Width(Top) = 3)
  BY <1>1, <1>3, KidsAre DEF IsIf, HasElse
<1>5. PICK new, other : new = Top.new /\ other = ElseBlock
  OBVIOUS
<1>6. /\ Later(Top) = {new, new + 1} \cup (IF Width(Top) = 3 THEN {new + 2} ELSE {})
      /\ other = IF Width(Top) = 3 THEN new + 2 ELSE new + 1
  BY <1>1, <1>3, <1>4, <1>5, OwnedByIf DEF ElseBlock
<1>7. BranchesTo(branch, {new, other})
  BY <1>5, CondBrTo
<1>8. Top.next \in 1..Width(Top)
  BY <1>1, <1>4
<1> HIDE DEF branch
<1>9. Later(Top) \cap live = {}
  BY <1>1, ComesTop
<1>10. PICK g : g = stack'[Len(stack)]
  OBVIOUS
<1>11. Kind(g) = Kind(Top) /\ Width(g) = Width(Top) /\ g.next = 3 /\ g.new = new
  BY <1>1, <1>2, <1>3, <1>5, <1>8, <1>10, DescendProps
<1>12. IsIf(g) /\ ~ IsWhile(g) /\ ~ IsWhile(Top)
  BY <1>1, <1>11 DEF IsIf, IsWhile
<1>13. Later(g) \subseteq Later(Top) /\ Again(g) = {}
  <2>1. /\ Later(g) = {new + 1} \cup (IF Width(g) = 3 THEN {new + 2} ELSE {})
        /\ Again(g) = {}
    BY <1>3, <1>5, <1>11, <1>12, OwnedByIf
  <2> QED BY <1>6, <1>11, <2>1
<1>14. PICK more : more = IF at \in live THEN {new, other} ELSE {}
  OBVIOUS
<1>15. more \subseteq Later(Top)
  BY <1>4, <1>6, <1>14
<1>16. FlowsWithin(blocks', live \cup more)
  <2>1. at \in live => {new, other} \subseteq live \cup more
    BY <1>7, <1>14
  <2> QED BY <1>1, <1>7, <1>15, <2>1, FlowsEndBegin
<1>17. /\ at' \in live \cup more => Comes(live) /\ LoopLive(g, live \cup more)
       /\ Later(g) \cap (live \cup more) # {} =>
            3 <= g.next /\ Comes(live) /\ LoopLive(g, live \cup more)
  <2>1. LoopLive(g, live \cup more)
    BY <1>12, <1>13 DEF LoopLive
  <2>2. at' \in live \cup more => Comes(live)
    BY <1>1, <1>5, <1>6, <1>9, <1>14 DEF Comes
  <2>3. Later(g) \cap (live \cup more) # {} => Comes(live)
    BY <1>9, <1>13, <1>14 DEF Comes
  <2> QED BY <1>11, <2>1, <2>2, <2>3
<1>18. BothReturn(stack', Len(stack)) => g.new + 1 \notin live \cup more
  <2>1. BothReturn(stack', Len(stack)) => Width(g) = 3
    BY <1>10 DEF BothReturn
  <2>2. new \in Nat /\ new + 1 # new /\ new + 1 # new + 2
    BY <1>3, <1>5
  <2>3. Width(g) = 3 => new + 1 \notin live \cup more
    BY <1>6, <1>9, <1>11, <1>14, <2>2
  <2> QED BY <1>11, <2>1, <2>3
<1>19. Top.loop = Top.loop /\ (IsWhile(Top) => Top.next = 1)
  BY <1>12
<1>20. /\ Flows(blocks', live \cup more, prog) /\ live \cup more \subseteq DOMAIN blocks'
       /\ more \subseteq Owned(Top) \cup ((Len(blocks) + 1)..Len(blocks))
  BY <1>2, <1>15, <1>16 DEF FlowsWithin
<1>21. LiveWith(live \cup more)'
  BY <1>1, <1>2, <1>3, <1>8, <1>10, <1>17, <1>18, <1>19, <1>20, StepDescend
<1> QED BY <1>21

LEMMA ElseBranchLive ==
  ASSUME BlockInv, ElseBranch, NEW live, LiveWith(live)
  PROVE  \E new : live \subseteq new /\ LiveWith(new)'
<1> DEFINE branch == Br(Top.new + 1)
           f == [Top EXCEPT !.val = value]
<1>1. /\ stack # <<>> /\ IsIf(Top) /\ Top.next = 3 /\ HasElse /\ at' = ElseBlock
      /\ blocks' = Emit(blocks, at, branch) /\ Descend(f, Top.loop)
  BY DEF ElseBranch, Is, IsIf, Kind
<1>2. /\ IsStack(stack) /\ Later(Top) \subseteq Owned(Top) /\ Len(blocks) \in Nat
      /\ value \in Seq(Nat)
  BY <1>1, BlockFacts
<1>3. Top \in Frames /\ Top.node \in Nodes /\ Top.loop \in Loops /\ Top.new \in Nat
  BY <1>1, <1>2, StackProps
<1>4. Width(Top) = 3 /\ at' = Top.new + 2
  BY <1>1, <1>3, KidsAre DEF IsIf, HasElse, ElseBlock
<1>5. PICK new : new = Top.new
  OBVIOUS
<1>6. Later(Top) = {new + 1, new + 2} /\ new \in Nat
  BY <1>1, <1>3, <1>4, <1>5, OwnedByIf
<1>7. BranchesTo(branch, {new + 1})
  BY <1>5, BrTo
<1>8. f \in Frames /\ f.node = Top.node /\ f.next = Top.next /\ f.new = new /\ f.loop = Top.loop
  BY <1>2, <1>3, <1>5, FrameWithVal, Zenon
<1> HIDE DEF branch, f
<1>9. Kind(f) = Kind(Top) /\ Width(f) = 3 /\ f.next \in 1..Width(f)
  BY <1>1, <1>4, <1>8, SameNode
<1>10. PICK g : g = stack'[Len(stack)]
  OBVIOUS
<1>11. Kind(g) = Kind(f) /\ g.node = Top.node /\ g.next = 4 /\ g.new = new
  BY <1>1, <1>2, <1>3, <1>8, <1>9, <1>10, DescendProps
<1>12. IsIf(g) /\ ~ IsWhile(g) /\ ~ IsWhile(Top)
  BY <1>1, <1>9, <1>11 DEF IsIf, IsWhile
<1>13. Later(g) = {new + 1} /\ Again(g) = {}
  BY <1>6, <1>11, <1>12, OwnedByIf
<1>14. PICK more : more = IF at \in live THEN {new + 1} ELSE {}
  OBVIOUS
<1>15. more \subseteq Later(Top)
  BY <1>6, <1>14
<1>16. FlowsWithin(blocks', live \cup more)
  <2>1. at \in live => {new + 1} \subseteq live \cup more
    BY <1>7, <1>14
  <2> QED BY <1>1, <1>7, <1>15, <2>1, FlowsEndBegin
<1>17. /\ at' \in live \cup more => Comes(live) /\ LoopLive(g, live \cup more)
       /\ Later(g) \cap (live \cup more) # {} =>
            3 <= g.next /\ Comes(live) /\ LoopLive(g, live \cup more)
  <2>1. LoopLive(g, live \cup more)
    BY <1>12, <1>13 DEF LoopLive
  <2>2. at' \in live \cup more => Comes(live)
    BY <1>4, <1>5, <1>6, <1>14 DEF Comes
  <2>3. Later(g) \cap (live \cup more) # {} => Comes(live)
    BY <1>6, <1>13, <1>14 DEF Comes
  <2> QED BY <1>11, <2>1, <2>2, <2>3
<1>18. BothReturn(stack', Len(stack)) => g.new + 1 \notin live \cup more
  <2> SUFFICES ASSUME BothReturn(stack', Len(stack)) PROVE new + 1 \notin live \cup more
    BY <1>11
  <2>1. Ends(g, 2)
    <3>1. Len(stack') = Len(stack) + 1 /\ Len(stack) \in Nat
      BY <1>1, <1>2, <1>3, <1>8, <1>9, DescendProps, StackProps
    <3>2. Len(stack) # Len(stack')
      BY <3>1
    <3>3. Done(stack', Len(stack)) = g.next - 2
      BY <1>10, <3>2 DEF Done
    <3>4. g.next - 2 = 2
      BY <1>11
    <3> QED BY <1>10, <3>3, <3>4 DEF BothReturn
  <2>2. Ends(Top, 2)
    BY <1>11, <2>1 DEF Ends
  <2>3. Top.next - 1 = 2 /\ 2 <= Top.next
    BY <1>1
  <2>4. at \notin live /\ Top.new + 1 \notin live
    BY <1>1, <1>4, <2>2, <2>3, ComesTop
  <2> QED BY <1>5, <1>14, <2>4
<1>19. Top.loop = Top.loop /\ (IsWhile(Top) => Top.next = 1)
  BY <1>12
<1>20. /\ Flows(blocks', live \cup more, prog) /\ live \cup more \subseteq DOMAIN blocks'
       /\ more \subseteq Owned(Top) \cup ((Len(blocks) + 1)..Len(blocks))
  BY <1>2, <1>15, <1>16 DEF FlowsWithin
<1>21. LiveWith(live \cup more)'
  BY <1>1, <1>2, <1>3, <1>8, <1>9, <1>10, <1>17, <1>18, <1>19, <1>20, StepDescend
<1> QED BY <1>21

LEMMA WhileConditionLive ==
  ASSUME BlockInv, WhileCondition, NEW live, LiveWith(live)
  PROVE  \E new : live \subseteq new /\ LiveWith(new)'
<1> DEFINE branch == Br(Len(blocks) + 1)
           f == [Top EXCEPT !.new = Len(blocks) + 1]
<1>1. /\ stack # <<>> /\ IsWhile(Top) /\ Top.next = 1 /\ at' = Len(blocks) + 1
      /\ blocks' = Created(Emit(blocks, at, branch), 3) /\ Descend(f, Top.loop)
  BY DEF WhileCondition, Is, IsWhile, Kind
<1>2. /\ DOMAIN blocks = 1..Len(blocks) /\ IsStack(stack) /\ Len(blocks) \in Nat
      /\ live \subseteq DOMAIN blocks
  BY <1>1, BlockFacts DEF LiveWith
<1>3. Top \in Frames /\ Top.node \in Nodes /\ Top.loop \in Loops
  BY <1>1, <1>2, StackProps
<1>4. Width(Top) = 2
  BY <1>1, <1>3, KidsAre DEF IsWhile
<1>5. PICK cond, top : cond = Len(blocks) + 1 /\ top = Len(blocks) + 3
  OBVIOUS
<1>6. /\ cond \in Nat /\ top \in Nat /\ (Len(blocks) + 1)..top = {cond, cond + 1, cond + 2}
      /\ cond \notin live /\ cond + 1 \notin live /\ cond + 2 \notin live
      /\ cond # cond + 1 /\ cond # cond + 2
  BY <1>2, <1>5
<1>7. BranchesTo(branch, {cond})
  BY <1>5, BrTo
<1>8. f \in Frames /\ f.node = Top.node /\ f.next = Top.next /\ f.new = cond /\ f.loop = Top.loop
  <2>1. f = [Top EXCEPT !.new = cond]
    BY <1>5
  <2> HIDE DEF f
  <2> QED BY <1>3, <1>6, <2>1, FrameWithNew, Zenon
<1> HIDE DEF branch, f
<1>9. Kind(f) = Kind(Top) /\ Width(f) = 2 /\ f.next \in 1..Width(f)
  BY <1>1, <1>4, <1>8, SameNode
<1>10. PICK g : g = stack'[Len(stack)]
  OBVIOUS
<1>11. Kind(g) = Kind(f) /\ g.next = 2 /\ g.new = cond
  BY <1>1, <1>2, <1>3, <1>8, <1>9, <1>10, DescendProps
<1>12. IsWhile(g) /\ ~ IsIf(g)
  BY <1>1, <1>9, <1>11 DEF IsIf, IsWhile
<1>13. Later(g) = {cond + 1, cond + 2} /\ Again(g) = {cond}
  BY <1>6, <1>11, <1>12, OwnedByWhile
<1>14. PICK more : more = IF at \in live THEN {cond} ELSE {}
  OBVIOUS
<1>15. more \subseteq (Len(blocks) + 1)..top
  BY <1>6, <1>14
<1>16. FlowsWithin(blocks', live \cup more)
  <2>1. at \in live => {cond} \subseteq live \cup more
    BY <1>7, <1>14
  <2>2. top = Len(blocks) + 3 /\ 3 \in Nat
    BY <1>5
  <2>3. PICK targets : targets = {cond}
    OBVIOUS
  <2>4. BranchesTo(branch, targets) /\ (at \in live => targets \subseteq live \cup more)
    BY <1>7, <2>1, <2>3
  <2> QED BY <1>1, <1>15, <2>2, <2>4, FlowsEndCreate
<1>17. /\ at' \in live \cup more => Comes(live) /\ LoopLive(g, live \cup more)
       /\ Later(g) \cap (live \cup more) = {}
  <2>1. at' \in live \cup more => at \in live /\ more = {cond}
    BY <1>1, <1>5, <1>6, <1>14
  <2>2. more = {cond} => LoopLive(g, live \cup more)
    BY <1>11, <1>13 DEF LoopLive
  <2>3. Later(g) \cap (live \cup more) = {}
    BY <1>6, <1>13, <1>14
  <2> QED BY <2>1, <2>2, <2>3 DEF Comes
<1>18. /\ ~ BothReturn(stack', Len(stack))
       /\ Top.loop = Top.loop /\ (IsWhile(Top) => Top.next = 1)
  BY <1>1, <1>10, <1>12 DEF BothReturn
<1>20. /\ Flows(blocks', live \cup more, prog) /\ live \cup more \subseteq DOMAIN blocks'
       /\ more \subseteq Owned(Top) \cup ((Len(blocks) + 1)..top)
  BY <1>15, <1>16 DEF FlowsWithin
<1>21. LiveWith(live \cup more)'
  BY <1>1, <1>3, <1>6, <1>8, <1>9, <1>10, <1>17, <1>18, <1>20, StepDescend
<1> QED BY <1>21

LEMMA WhileBodyLive ==
  ASSUME BlockInv, WhileBody, NEW live, LiveWith(live)
  PROVE  \E new : live \subseteq new /\ LiveWith(new)'
<1> DEFINE branch == CondBr(value, Top.new + 1, Top.new + 2)
           loop == LoopTargets(Top.new, Top.new + 1, Top.new + 2)
<1>1. /\ stack # <<>> /\ IsWhile(Top) /\ Top.next = 2 /\ at' = Top.new + 1
      /\ blocks' = Emit(blocks, at, branch) /\ Descend(Top, loop)
  BY DEF WhileBody, Is, IsWhile, Kind
<1>2. IsStack(stack) /\ Later(Top) \subseteq Owned(Top) /\ Len(blocks) \in Nat
  BY <1>1, BlockFacts
<1>3. Top \in Frames /\ Top.node \in Nodes /\ Top.new \in Nat
  BY <1>1, <1>2, StackProps
<1>4. Width(Top) = 2
  BY <1>1, <1>3, KidsAre DEF IsWhile
<1>5. PICK new : new = Top.new
  OBVIOUS
<1>6. Later(Top) = {new + 1, new + 2} /\ Again(Top) = {new} /\ new \in Nat
  BY <1>1, <1>3, <1>5, OwnedByWhile
<1>7. BranchesTo(branch, {new + 1, new + 2})
  BY <1>5, CondBrTo
<1>8. Top.next \in 1..Width(Top) /\ loop \in Loops
  BY <1>1, <1>3, <1>4 DEF Loops, LoopTargets
<1>22. IsWhile(Top) /\ Top.next = 2 /\ loop = LoopTargets(Top.new, Top.new + 1, Top.new + 2)
  BY <1>1
<1> HIDE DEF branch, loop
<1>9. Later(Top) \cap live = {}
  BY <1>1, ComesTop
<1>10. PICK g : g = stack'[Len(stack)]
  OBVIOUS
<1>11. Kind(g) = Kind(Top) /\ g.next = 3 /\ g.new = new
  BY <1>1, <1>2, <1>3, <1>5, <1>8, <1>10, DescendProps
<1>12. IsWhile(g) /\ ~ IsIf(g)
  BY <1>1, <1>11 DEF IsIf, IsWhile
<1>13. Later(g) = {new + 2} /\ Again(g) = {new}
  BY <1>6, <1>11, <1>12, OwnedByWhile
<1>14. PICK more : more = IF at \in live THEN {new + 1, new + 2} ELSE {}
  OBVIOUS
<1>15. more \subseteq Later(Top)
  BY <1>6, <1>14
<1>16. FlowsWithin(blocks', live \cup more)
  <2>1. at \in live => {new + 1, new + 2} \subseteq live \cup more
    BY <1>7, <1>14
  <2> QED BY <1>1, <1>7, <1>15, <2>1, FlowsEndBegin
<1>17. /\ at' \in live \cup more => Comes(live) /\ LoopLive(g, live \cup more)
       /\ Later(g) \cap (live \cup more) # {} =>
            3 <= g.next /\ Comes(live) /\ LoopLive(g, live \cup more)
  <2>1. at \in live => LoopLive(g, live \cup more)
    <3>1. at \in live => Again(Top) \subseteq live
      BY <1>1, ComesTop DEF Comes, LoopLive
    <3> QED BY <1>6, <1>11, <1>13, <1>14, <3>1 DEF LoopLive
  <2>2. at' \in live \cup more => at \in live
    BY <1>1, <1>5, <1>6, <1>9, <1>14
  <2>3. Later(g) \cap (live \cup more) # {} => at \in live
    BY <1>6, <1>9, <1>13, <1>14
  <2> QED BY <1>11, <2>1, <2>2, <2>3 DEF Comes
<1>18. ~ BothReturn(stack', Len(stack))
  BY <1>10, <1>12 DEF BothReturn
<1>20. /\ Flows(blocks', live \cup more, prog) /\ live \cup more \subseteq DOMAIN blocks'
       /\ more \subseteq Owned(Top) \cup ((Len(blocks) + 1)..Len(blocks))
  BY <1>2, <1>15, <1>16 DEF FlowsWithin
<1>21. LiveWith(live \cup more)'
  BY <1>1, <1>2, <1>3, <1>8, <1>10, <1>17, <1>18, <1>20, <1>22, StepDescend
<1> QED BY <1>21

LEMMA FunctionEndLive ==
  ASSUME BlockInv, FunctionEnd, NEW live, LiveWith(live)
  PROVE  \E new : live \subseteq new /\ LiveWith(new)'
<1> DEFINE mid == Emit(blocks, at, Br(EXIT))
           ret == [op |-> "ret"]
<1>1. /\ stack = <<>> /\ at # EXIT /\ blocks' = Emit(mid, EXIT, ret) /\ at' = EXIT
      /\ stack' = <<>> /\ prog' = prog
  BY DEF FunctionEnd
<1>2. /\ IsBlocks(blocks) /\ EXIT <= Len(blocks) /\ at \in DOMAIN blocks
      /\ ShapeOf(blocks, at, Pending(stack))
  BY <1>1 DEF BlockInv
<1>3. EXIT \in DOMAIN blocks /\ blocks[EXIT] = <<>>
  <2>1. EXIT \in DOMAIN blocks
    BY <1>2, BlocksAreSequences DEF EXIT
  <2> QED BY <1>1, <1>2, <2>1 DEF ShapeOf
<1>4. PICK more : more = IF at \in live THEN {EXIT} ELSE {}
  OBVIOUS
<1>5. EXIT \notin live /\ (EXIT \in live \cup more => at \in live)
  BY <1>1, <1>4 DEF LiveWith
<1>6. at \in live => ~ EndsWithReturn[prog]
  BY <1>1 DEF LiveWith, LiveStack
<1>7. BranchesTo(Br(EXIT), {EXIT})
  BY BrTo
<1>8. Keeps(ret, live \cup more, prog) \/ EXIT \notin live \cup more
  BY <1>5, <1>6 DEF Keeps, IsBranch
<1>9. /\ Flows(mid, live \cup more, prog) /\ IsBlocks(mid) /\ DOMAIN mid = DOMAIN blocks
  <2>1. Flows(blocks, live \cup more, prog)
    <3>1. \A b \in more \cap DOMAIN blocks : blocks[b] = <<>>
      BY <1>3, <1>4
    <3> QED BY <1>2, <3>1, FlowsMore DEF LiveWith
  <2>2. at \in live \cup more => Keeps(Br(EXIT), live \cup more, prog)
    BY <1>1, <1>4, <1>7 DEF Keeps, BranchesTo
  <2> QED BY <1>2, <2>1, <2>2, FlowsEmit, EmitIsBlocks
<1> HIDE DEF mid, ret
<1>10. Flows(blocks', live \cup more, prog) /\ DOMAIN blocks' = DOMAIN blocks
  BY <1>1, <1>3, <1>8, <1>9, FlowsEmit, EmitIsBlocks
<1>11. live \cup more \subseteq DOMAIN blocks' /\ ENTRY \in live \cup more
  BY <1>3, <1>4, <1>10 DEF LiveWith
<1>12. LiveStack(stack', at', live \cup more, prog)
  <2>1. Len(<<>>) = 0 /\ DOMAIN <<>> = {} /\ 1..0 = {}
    OBVIOUS
  <2> QED BY <1>1, <1>5, <1>6, <2>1 DEF LiveStack, GoesUpTo, LaterLive, JoinsDead
<1>13. Nested(stack', prog) /\ LoopsAround(stack')
  BY <1>1 DEF LiveWith
<1>14. LiveWith(live \cup more)'
  BY <1>1, <1>10, <1>11, <1>12, <1>13 DEF LiveWith
<1> QED BY <1>14

LEMMA LiveInit == GenInit => LiveWith({ENTRY, BODY})
<1> SUFFICES ASSUME GenInit PROVE LiveWith({ENTRY, BODY})
  OBVIOUS
<1> DEFINE f == Frame(prog, <<>>, NoLoop)
           br == Br(BODY)
           live == {ENTRY, BODY}
<1>1. /\ prog \in Programs /\ blocks = << <<br>>, <<>>, <<>> >> /\ at = BODY /\ stack = <<f>>
  BY DEF GenInit
<1>2. f.node = prog /\ f.next = 1 /\ f.loop = NoLoop
  BY DEF Frame
<1>3. BranchesTo(br, {BODY})
  BY BrTo
<1> HIDE DEF f, br
<1>4. DOMAIN blocks = {1, 2, 3} /\ blocks[1] = <<br>> /\ blocks[2] = <<>> /\ blocks[3] = <<>>
  BY <1>1
<1>5. Len(stack) = 1 /\ DOMAIN stack = {1} /\ stack[1] = f /\ stack # <<>>
  BY <1>1
<1>6. Flows(blocks, live, prog)
  <2>1. DOMAIN <<br>> = {1} /\ <<br>>[1] = br /\ DOMAIN <<>> = {}
    OBVIOUS
  <2>2. Keeps(br, live, prog)
    BY <1>3 DEF Keeps, BranchesTo
  <2> QED BY <1>4, <2>1, <2>2 DEF Flows, ENTRY, BODY
<1>7. Later(f) = {} /\ Again(f) = {}
  BY <1>2, OwnedAtFirst
<1>8. GoesUpTo(stack, 1, live)
  <2>1. Done(stack, 1) = 0
    BY <1>2, <1>5 DEF Done
  <2>2. ~ HasReturned(f, 0)
    <3>1. 1..0 = {} /\ ~ (1 <= 0)
      OBVIOUS
    <3> QED BY <3>1 DEF HasReturned
  <2>3. LoopLive(f, live)
    BY <1>2, <1>7 DEF LoopLive
  <2>4. 1..1 = {1}
    OBVIOUS
  <2> QED BY <1>5, <2>1, <2>2, <2>3, <2>4 DEF GoesUpTo, Goes
<1>9. LiveStack(stack, at, live, prog)
  <2>1. LaterLive(stack, live) /\ JoinsDead(stack, live)
    BY <1>2, <1>5, <1>7 DEF LaterLive, JoinsDead, BothReturn
  <2> QED BY <1>2, <1>5, <1>8, <2>1 DEF LiveStack
<1>10. Nested(stack, prog)
  <2>1. 2..1 = {}
    OBVIOUS
  <2> QED BY <1>1, <1>2, <1>5, <2>1, ProgramsAssumption DEF Nested
<1>11. LoopsAround(stack)
  BY <1>2, <1>5 DEF LoopsAround
<1>12. live \subseteq DOMAIN blocks /\ EXIT \notin live
  BY <1>4 DEF ENTRY, BODY, EXIT
<1> QED BY <1>6, <1>9, <1>10, <1>11, <1>12 DEF LiveWith

LEMMA LiveStep ==
  ASSUME LazyAssumption, BlockInv, GenNext, NEW live, LiveWith(live)
  PROVE  \E new : live \subseteq new /\ LiveWith(new)'
<1>1. LiveWith(live)' => \E new : live \subseteq new /\ LiveWith(new)'
  OBVIOUS
<1> QED BY <1>1, GenCallLive, GenJumpLive, NextChildLive, LeaveBlockLive, ReturnValueLive,
           LazyRightLive, LazyEndLive, IfConditionLive, IfBranchLive, ElseBranchLive, IfEndLive,
           IfExprEndLive, WhileConditionLive, WhileBodyLive, WhileEndLive, FunctionEndLive
        DEF GenNext

-----------------------------------------------------------------------------
(***************************************************************************)
(* Runs of the generated code.                                             *)
(***************************************************************************)

\* As long as nothing is stored the run is in a block of live, and it has
\* come by no store in that block.
RunWith(live) ==
  /\ ~ Generated => pc = <<ENTRY, 1>>
  /\ slot = BOOLEAN =>
       /\ pc[1] \in live /\ Unstored(blocks[pc[1]], pc[2])
       /\ Generated => pc[2] \in DOMAIN blocks[pc[1]]
  /\ result = BOOLEAN => ~ EndsWithReturn[prog]

PathInv == BlockInv /\ \E live : LiveWith(live) /\ RunWith(live)

LEMMA NothingBefore ==
  ASSUME NEW s
  PROVE  Unstored(s, 1)
<1>1. 1..(1 - 1) = {}
  OBVIOUS
<1> QED BY <1>1 DEF Unstored

LEMMA PathInit == Init => PathInv
<1> SUFFICES ASSUME Init PROVE PathInv
  OBVIOUS
<1>1. GenInit /\ pc = <<ENTRY, 1>> /\ slot = BOOLEAN /\ result = {} /\ at = BODY
  BY DEF Init, GenInit
<1>2. BlockInv /\ LiveWith({ENTRY, BODY})
  BY <1>1, BlockInit, LiveInit
<1>3. RunWith({ENTRY, BODY})
  <2>1. result # BOOLEAN
    <3>1. TRUE \in BOOLEAN
      OBVIOUS
    <3> QED BY <1>1, <3>1
  <2>2. ~ Generated
    BY <1>1 DEF Generated, BODY, EXIT
  <2> QED BY <1>1, <2>1, <2>2, NothingBefore DEF RunWith
<1> QED BY <1>2, <1>3 DEF PathInv

LEMMA GenPath ==
  ASSUME LazyAssumption, PathInv, GenNext, UNCHANGED runVars
  PROVE  PathInv'
<1>1. BlockInv /\ BlockInv'
  BY BlockStep DEF PathInv
<1>2. PICK live : LiveWith(live) /\ RunWith(live)
  BY DEF PathInv
<1>3. PICK new : live \subseteq new /\ LiveWith(new)'
  BY <1>1, <1>2, LiveStep
<1>4. ~ Generated
  BY <1>1 DEF BlockInv, Generated, GenNext, GenCall, GenJump, NextChild, LeaveBlock, ReturnValue,
    LazyRight, LazyEnd, IfCondition, IfBranch, ElseBranch, IfEnd, IfExprEnd, WhileCondition,
    WhileBody, WhileEnd, FunctionEnd, Is
<1>5. pc' = <<ENTRY, 1>> /\ slot' = slot /\ result' = result /\ prog' = prog
  <2>1. prog' = prog
    BY DEF GenNext, GenCall, GenJump, NextChild, LeaveBlock, ReturnValue,
      LazyRight, LazyEnd, IfCondition, IfBranch, ElseBranch, IfEnd, IfExprEnd, WhileCondition,
      WhileBody, WhileEnd, FunctionEnd, Descend, Leave
  <2> QED BY <1>2, <1>4, <2>1 DEF RunWith, runVars
<1>6. ENTRY \in new /\ new \subseteq DOMAIN blocks'
  BY <1>3 DEF LiveWith
<1>7. Generated' => 1 \in DOMAIN blocks'[ENTRY]
  <2> SUFFICES ASSUME Generated' PROVE 1 \in DOMAIN blocks'[ENTRY]
    OBVIOUS
  <2>1. IsBlocks(blocks') /\ ENTRY \in DOMAIN blocks' /\ blocks'[ENTRY] # <<>>
    BY <1>1, <1>6 DEF BlockInv, Generated, Closed
  <2>2. DOMAIN blocks'[ENTRY] = 1..Len(blocks'[ENTRY]) /\ Len(blocks'[ENTRY]) \in Nat
    BY <2>1, BlocksAreSequences
  <2>3. Len(blocks'[ENTRY]) # 0
    <3>1. PICK I : blocks' \in Seq(Seq(I))
      BY <2>1 DEF IsBlocks
    <3>2. blocks'[ENTRY] \in Seq(I)
      BY <2>1, <3>1
    <3> QED BY <2>1, <3>2
  <2> QED BY <2>2, <2>3
<1>8. RunWith(new)'
  BY <1>2, <1>5, <1>6, <1>7, NothingBefore DEF RunWith
<1> QED BY <1>1, <1>3, <1>8 DEF PathInv

LEMMA RunStep ==
  ASSUME PathInv, Generated, Run, UNCHANGED genVars
  PROVE  PathInv'
<1>1. PICK live : LiveWith(live) /\ RunWith(live)
  BY DEF PathInv
<1>2. BlockInv' /\ LiveWith(live)'
  BY <1>1 DEF PathInv, BlockInv, LiveWith, genVars
<1>3. /\ blocks' = blocks /\ prog' = prog /\ at' = at /\ at = EXIT
  BY DEF genVars, Generated
<1> DEFINE code == blocks[pc[1]]
<1>4. ASSUME NEW b \in live
      PROVE  Closed(blocks[b]) /\ 1 \in DOMAIN blocks[b] /\ Unstored(blocks[b], 1)
  <2>1. IsBlocks(blocks) /\ b \in DOMAIN blocks /\ Closed(blocks[b])
    BY <1>1, <1>3 DEF LiveWith, PathInv, BlockInv
  <2>2. DOMAIN blocks[b] = 1..Len(blocks[b]) /\ Len(blocks[b]) \in Nat
    BY <2>1, BlocksAreSequences
  <2>3. PICK I : blocks \in Seq(Seq(I))
    BY <2>1 DEF IsBlocks
  <2>4. blocks[b] \in Seq(I) /\ blocks[b] # <<>>
    BY <2>1, <2>3 DEF Closed
  <2>5. Len(blocks[b]) # 0
    BY <2>4
  <2> QED BY <2>1, <2>2, <2>5, NothingBefore
<1>5. ASSUME slot = BOOLEAN
      PROVE  /\ pc[1] \in live /\ pc[2] \in DOMAIN code /\ Unstored(code, pc[2])
             /\ Instr = code[pc[2]] /\ Keeps(Instr, live, prog)
             /\ DOMAIN code = 1..Len(code) /\ Len(code) \in Nat
             /\ Instr.op \in Terminators <=> pc[2] = Len(code)
  <2>1. pc[1] \in live /\ pc[2] \in DOMAIN code /\ Unstored(code, pc[2])
    BY <1>1, <1>5 DEF RunWith
  <2>2. pc[1] \in DOMAIN blocks /\ Flows(blocks, live, prog)
    BY <1>1, <2>1 DEF LiveWith
  <2>3. DOMAIN code = 1..Len(code) /\ Len(code) \in Nat
    BY <2>2, BlocksAreSequences DEF PathInv, BlockInv
  <2>4. Keeps(code[pc[2]], live, prog)
    BY <2>1, <2>2 DEF Flows
  <2>5. code[pc[2]].op \in Terminators <=> pc[2] = Len(code)
    BY <1>4, <2>1 DEF Closed
  <2> QED BY <2>1, <2>3, <2>4, <2>5 DEF Instr
<1>6. ASSUME slot = BOOLEAN, Instr.op \notin Terminators \cup {"store"}
      PROVE  pc[2] + 1 \in DOMAIN code /\ Unstored(code, pc[2] + 1)
  <2> DEFINE i == pc[2]
  <2>1. i \in 1..Len(code) /\ i # Len(code) /\ Len(code) \in Nat
    BY <1>5, <1>6
  <2>2. i + 1 \in 1..Len(code) /\ \A j \in 1..((i + 1) - 1) : j \in 1..(i - 1) \/ j = i
    BY <2>1
  <2>3. code[i].op # "store"
    BY <1>5, <1>6
  <2> QED BY <1>5, <1>6, <2>2, <2>3 DEF Unstored
<1> HIDE DEF code
<1>7. ASSUME slot' = slot, result' = result,
             slot = BOOLEAN => pc'[1] \in live /\ pc'[2] \in DOMAIN blocks[pc'[1]]
                               /\ Unstored(blocks[pc'[1]], pc'[2])
      PROVE  PathInv'
  <2>1. RunWith(live)'
    BY <1>1, <1>3, <1>7 DEF RunWith, Generated
  <2> QED BY <1>2, <2>1 DEF PathInv
<1>8. ASSUME Advance, slot' = slot, result' = result, Instr.op \notin Terminators \cup {"store"}
      PROVE  PathInv'
  <2>1. pc'[1] = pc[1] /\ pc'[2] = pc[2] + 1
    BY <1>8 DEF Advance
  <2> QED BY <1>5, <1>6, <1>7, <1>8, <2>1 DEF code
<1>9. ASSUME NEW b, Jump(b), slot' = slot, result' = result, slot = BOOLEAN => b \in live
      PROVE  PathInv'
  <2>1. pc'[1] = b /\ pc'[2] = 1
    BY <1>9 DEF Jump
  <2> QED BY <1>4, <1>7, <1>9, <2>1
<1>10. CASE Call
  BY <1>8, <1>10 DEF Call, Terminators
<1>11. CASE Branch
  <2>1. PICK b \in Instr.to : Jump(b)
    BY <1>11 DEF Branch
  <2>2. slot = BOOLEAN => Instr.to \subseteq live
    BY <1>5, <1>11 DEF Branch, Keeps, IsBranch
  <2> QED BY <1>9, <1>11, <2>1, <2>2 DEF Branch
<1>12. CASE ConditionalBranch
  <2> DEFINE b == IF env[Instr.val] THEN Instr.yes ELSE Instr.no
  <2>1. Jump(b) /\ slot' = slot /\ result' = result /\ Instr.op = "condbr"
    BY <1>12 DEF ConditionalBranch
  <2>2. slot = BOOLEAN => Instr.yes \in live /\ Instr.no \in live
    BY <1>5, <2>1 DEF Keeps
  <2> QED BY <1>9, <2>1, <2>2
<1>13. CASE Select
  BY <1>8, <1>13 DEF Select, Terminators
<1>14. CASE Store
  <2>1. slot' # BOOLEAN /\ result' = result
    BY <1>14 DEF Store
  <2>2. RunWith(live)'
    BY <1>1, <1>3, <2>1 DEF RunWith, Generated
  <2> QED BY <1>2, <2>2 DEF PathInv
<1>15. CASE Return
  <2>1. pc' = pc /\ slot' = slot /\ result' = slot /\ Instr.op = "ret"
    BY <1>15 DEF Return
  <2>2. slot = BOOLEAN => ~ EndsWithReturn[prog]
    BY <1>5, <2>1 DEF Keeps
  <2>3. RunWith(live)'
    BY <1>1, <1>3, <2>1, <2>2 DEF RunWith, Generated
  <2> QED BY <1>2, <2>3 DEF PathInv
<1> QED BY <1>10, <1>11, <1>12, <1>13, <1>14, <1>15 DEF Run

LEMMA PathStep ==
  ASSUME LazyAssumption
  PROVE  PathInv /\ [Next]_vars => PathInv'
<1> SUFFICES ASSUME PathInv, [Next]_vars PROVE PathInv'
  OBVIOUS
<1>1. CASE Next
  BY <1>1, GenPath, RunStep DEF Next
<1>2. CASE UNCHANGED vars
  BY <1>2 DEF PathInv, BlockInv, LiveWith, RunWith, Generated, vars, genVars, runVars
<1> QED BY <1>1, <1>2

\* A body that the check accepts never returns what no one has stored in
\* ret_value: on every path through its code, whatever the calls answer, a
\* return has stored a value.
THEOREM PathsReturn ==
  ASSUME LazyAssumption
  PROVE  Spec => []EveryPathReturns
<1>1. PathInv => EveryPathReturns
  BY DEF PathInv, RunWith, EveryPathReturns, Accepted
<1> QED BY <1>1, PathInit, PathStep, PTL DEF Spec
=============================================================================
