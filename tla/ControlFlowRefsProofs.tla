------------------------ MODULE ControlFlowRefsProofs -----------------------
(***************************************************************************)
(* Proofs for the walk of ControlFlowRefs, for trees of every size.  The   *)
(* context of the walk is read off the nodes it is inside of, and every    *)
(* saved context off the nodes that were open when it was saved; so that   *)
(* what is restored is right no matter what was walked in between.         *)
(***************************************************************************)
EXTENDS ControlFlowRefs, SequenceTheorems, TLAPS

(***************************************************************************)
(* Among the first n frames of s the innermost part is the i-th, and v is  *)
(* the node of the innermost part, NULL if there is none.                  *)
(***************************************************************************)
IsInnermost(s, n, i, part, hidden) ==
  /\ s[i].part = part
  /\ \A j \in (i + 1)..n : s[j].part \notin hidden \cup {part}

Target(s, n, v, part, hidden) ==
  \/ \E i \in 1..n : IsInnermost(s, n, i, part, hidden) /\ s[i].node = v
  \/ v = NULL /\ \A i \in 1..n : ~ IsInnermost(s, n, i, part, hidden)

TargetOfReturn(s, n, v) == Target(s, n, v, "function", {"constant"})
TargetOfBreak(s, n, v) == Target(s, n, v, "loop body", {"constant"})

\* The saved targets are those of the frames below.
SavedRight ==
  \A k \in DOMAIN open :
    /\ TargetOfReturn(open, k - 1, open[k].prev_func)
    /\ TargetOfBreak(open, k - 1, open[k].prev_break)

CurrentRight ==
  /\ TargetOfReturn(open, Len(open), function)
  /\ TargetOfBreak(open, Len(open), break_target)

\* The nodes of the frames, and the targets saved in them, are of their kind.
MetOrNull(kind) == Met(kind) \cup {NULL}

NodeOfKind(part, node) ==
  /\ part = "function" => node \in Met("FN")
  /\ part \in {"condition", "loop body"} => node \in Met("WHILE")

FramesRight ==
  \A k \in DOMAIN open :
    /\ NodeOfKind(open[k].part, open[k].node)
    /\ open[k].prev_func \in MetOrNull("FN") /\ open[k].prev_break \in MetOrNull("WHILE")

IInv == TypeOK /\ FramesRight /\ SavedRight /\ CurrentRight

-----------------------------------------------------------------------------
(***************************************************************************)
(* Facts about targets.                                                    *)
(***************************************************************************)
\* Only the frames that count matter.
LEMMA TargetOfPrefix ==
  ASSUME NEW s, NEW t, NEW n \in Nat, NEW v, NEW part, NEW hidden,
         \A i \in 1..n : t[i] = s[i],
         Target(s, n, v, part, hidden)
  PROVE  Target(t, n, v, part, hidden)
<1>1. \A i \in 1..n : IsInnermost(t, n, i, part, hidden) <=> IsInnermost(s, n, i, part, hidden)
  <2> TAKE i \in 1..n
  <2>1. \A j \in (i + 1)..n : j \in 1..n
    OBVIOUS
  <2> QED
    BY <2>1 DEF IsInnermost
<1> QED
  BY <1>1 DEF Target

\* A frame of another part that hides nothing changes no target.
LEMMA NeutralFrame ==
  ASSUME NEW s, NEW n \in Nat \ {0}, NEW v, NEW part, NEW hidden,
         s[n].part \notin hidden \cup {part}
  PROVE  Target(s, n, v, part, hidden) <=> Target(s, n - 1, v, part, hidden)
<1>1. \A i \in 1..(n - 1) :
        IsInnermost(s, n, i, part, hidden) <=> IsInnermost(s, n - 1, i, part, hidden)
  <2> TAKE i \in 1..(n - 1)
  <2>1. (i + 1)..n = ((i + 1)..(n - 1)) \cup {n}
    OBVIOUS
  <2> QED
    BY <2>1 DEF IsInnermost
<1>2. ~ IsInnermost(s, n, n, part, hidden)
  BY DEF IsInnermost
<1>3. 1..n = (1..(n - 1)) \cup {n}
  OBVIOUS
<1> QED
  BY <1>1, <1>2, <1>3 DEF Target

\* A frame of the part is the target.
LEMMA OwnFrame ==
  ASSUME NEW s, NEW n \in Nat \ {0}, NEW part, NEW hidden, s[n].part = part
  PROVE  Target(s, n, s[n].node, part, hidden)
<1>1. (n + 1)..n = {} /\ n \in 1..n
  OBVIOUS
<1> QED
  BY <1>1 DEF Target, IsInnermost

\* A frame that hides the part leaves no target.
LEMMA HidingFrame ==
  ASSUME NEW s, NEW n \in Nat \ {0}, NEW part, NEW hidden,
         s[n].part \in hidden, s[n].part # part
  PROVE  Target(s, n, NULL, part, hidden)
<1>1. \A i \in 1..n : i = n \/ n \in (i + 1)..n
  OBVIOUS
<1>2. \A i \in 1..n : ~ IsInnermost(s, n, i, part, hidden)
  BY <1>1 DEF IsInnermost
<1> QED
  BY <1>2 DEF Target

\* The target among all frames is what the property calls the innermost node.
LEMMA TargetIsInnermost ==
  ASSUME NEW v, NEW part, NEW hidden, open \in Seq(Frames),
         Target(open, Len(open), v, part, hidden)
  PROVE  Innermost(part, hidden) = v
<1> DEFINE n == Len(open)
           seen(i) == IsInnermost(open, n, i, part, hidden)
<1>1. n \in Nat /\ DOMAIN open = 1..n
  OBVIOUS
<1>2. \A i, j \in 1..n : seen(i) /\ seen(j) => i = j
  <2>1. \A i, j \in 1..n : i < j => j \in (i + 1)..n
    BY <1>1
  <2>2. \A i, j \in 1..n : seen(i) /\ seen(j) => ~ (i < j)
    BY <2>1 DEF IsInnermost
  <2> QED
    BY <2>2, <1>1
<1>3. Innermost(part, hidden) =
        IF \E i \in 1..n : seen(i) THEN open[CHOOSE i \in 1..n : seen(i)].node ELSE NULL
  BY <1>1 DEF Innermost, IsInnermost
<1>4. CASE \E i \in 1..n : seen(i)
  <2>1. PICK i \in 1..n : seen(i) /\ open[i].node = v
    BY <1>4 DEF Target
  <2>2. (CHOOSE j \in 1..n : seen(j)) = i
    BY <2>1, <1>2
  <2> QED
    BY <1>3, <1>4, <2>1, <2>2
<1>5. CASE ~ \E i \in 1..n : seen(i)
  BY <1>3, <1>5 DEF Target
<1> QED
  BY <1>4, <1>5

-----------------------------------------------------------------------------
(***************************************************************************)
(* The two ways in which the frames change.                                *)
(***************************************************************************)
LEMMA LastReplaced ==
  ASSUME NEW s \in Seq(Frames), s # <<>>, NEW f \in Frames, NEW t,
         t = [s EXCEPT ![Len(s)] = f]
  PROVE  /\ t \in Seq(Frames) /\ Len(t) = Len(s) /\ DOMAIN t = 1..Len(s)
         /\ t[Len(s)] = f
         /\ \A i \in 1..(Len(s) - 1) : t[i] = s[i]
<1> DEFINE n == Len(s)
<1>1. n \in Nat \ {0} /\ n \in 1..n
  OBVIOUS
<1>2. /\ t \in Seq(Frames) /\ Len(t) = n
      /\ \A i \in 1..n : t[i] = IF i = n THEN f ELSE s[i]
  BY <1>1, ExceptSeq
<1>3. DOMAIN t = 1..n
  BY <1>2
<1> HIDE DEF n
<1>4. \A i \in 1..(n - 1) : i \in 1..n /\ i # n
  BY <1>1
<1>5. t[n] = f /\ \A i \in 1..(n - 1) : t[i] = s[i]
  BY <1>1, <1>2, <1>4
<1> QED
  BY <1>2, <1>3, <1>5 DEF n

LEMMA MetAreNodes == TypeOK => \A kind : Met(kind) \subseteq Nodes
<1> SUFFICES ASSUME TypeOK, NEW kind, NEW n \in DOMAIN kinds PROVE n \in Nodes
  BY DEF Met
<1>1. DOMAIN kinds = 1..Len(kinds) /\ Len(kinds) \in Nat /\ Len(kinds) <= MaxNodes
  BY DEF TypeOK
<1> QED
  BY <1>1, BoundsAssumption DEF Nodes

\* Entering a node saves the current targets, which are right.
LEMMA PushKeepsSaved ==
  ASSUME IInv, NEW part \in Parts, NEW node \in Nodes \cup {NULL},
         open' = Append(open, Frame(part, node))
  PROVE  /\ open' \in Seq(Frames) /\ Len(open') = Len(open) + 1
         /\ open'[Len(open) + 1] = Frame(part, node)
         /\ \A i \in 1..Len(open) : open'[i] = open[i]
         /\ SavedRight'
<1>1. function \in Nodes \cup {NULL} /\ break_target \in Nodes \cup {NULL} /\ open \in Seq(Frames)
  BY MetAreNodes DEF IInv, TypeOK
<1>2. Frame(part, node) \in Frames
  BY <1>1 DEF Frame, Frames
<1>3. /\ open' \in Seq(Frames) /\ Len(open') = Len(open) + 1
      /\ open'[Len(open) + 1] = Frame(part, node)
      /\ \A i \in 1..Len(open) : open'[i] = open[i]
  BY <1>1, <1>2
<1>4. Len(open) \in Nat /\ DOMAIN open = 1..Len(open) /\ DOMAIN open' = 1..(Len(open) + 1)
  BY <1>1, <1>3
<1>5. ASSUME NEW k \in 1..Len(open)
      PROVE  /\ TargetOfReturn(open', k - 1, open'[k].prev_func)
             /\ TargetOfBreak(open', k - 1, open'[k].prev_break)
  <2>1. k - 1 \in Nat /\ open'[k] = open[k] /\ \A i \in 1..(k - 1) : open'[i] = open[i]
    BY <1>3, <1>4
  <2>2. /\ TargetOfReturn(open, k - 1, open[k].prev_func)
        /\ TargetOfBreak(open, k - 1, open[k].prev_break)
    BY <1>4 DEF IInv, SavedRight
  <2> QED
    BY <2>1, <2>2, TargetOfPrefix DEF TargetOfReturn, TargetOfBreak
<1>6. /\ TargetOfReturn(open', Len(open), function)
      /\ TargetOfBreak(open', Len(open), break_target)
  BY <1>3, <1>4, TargetOfPrefix DEF IInv, CurrentRight, TargetOfReturn, TargetOfBreak
<1>7. SavedRight'
  <2> SUFFICES ASSUME NEW k \in 1..(Len(open) + 1)
               PROVE  /\ TargetOfReturn(open', k - 1, open'[k].prev_func)
                      /\ TargetOfBreak(open', k - 1, open'[k].prev_break)
    BY <1>4 DEF SavedRight
  <2>1. CASE k \in 1..Len(open)
    BY <2>1, <1>5
  <2>2. CASE k = Len(open) + 1
    <3>1. k - 1 = Len(open) /\ open'[k].prev_func = function /\ open'[k].prev_break = break_target
      BY <2>2, <1>3, <1>4 DEF Frame
    <3> QED
      BY <3>1, <1>6
  <2> QED
    BY <2>1, <2>2, <1>4
<1> QED
  BY <1>3, <1>7

\* Leaving a node leaves the other frames as they are.
LEMMA PopKeepsSaved ==
  ASSUME IInv, open # <<>>, Pop
  PROVE  /\ open' \in Seq(Frames) /\ Len(open) \in Nat \ {0} /\ Len(open') = Len(open) - 1
         /\ DOMAIN open' \subseteq DOMAIN open /\ Len(open) \in DOMAIN open
         /\ \A i \in 1..(Len(open) - 1) : open'[i] = open[i]
         /\ SavedRight'
<1>1. open \in Seq(Frames) /\ open' = SubSeq(open, 1, Len(open) - 1)
  BY DEF IInv, TypeOK, Pop
<1>2. Len(open) \in Nat \ {0} /\ DOMAIN open = 1..Len(open)
  BY <1>1
<1>3. /\ open' \in Seq(Frames) /\ Len(open') = Len(open) - 1
      /\ \A i \in 1..(Len(open) - 1) : open'[i] = open[i]
  BY <1>1, <1>2
<1>4. DOMAIN open' = 1..(Len(open) - 1)
  BY <1>2, <1>3
<1>5. ASSUME NEW k \in DOMAIN open'
      PROVE  /\ TargetOfReturn(open', k - 1, open'[k].prev_func)
             /\ TargetOfBreak(open', k - 1, open'[k].prev_break)
  <2>1. /\ k \in DOMAIN open /\ k - 1 \in Nat /\ open'[k] = open[k]
        /\ \A i \in 1..(k - 1) : open'[i] = open[i]
    BY <1>2, <1>3, <1>4
  <2>2. /\ TargetOfReturn(open, k - 1, open[k].prev_func)
        /\ TargetOfBreak(open, k - 1, open[k].prev_break)
    BY <2>1 DEF IInv, SavedRight
  <2> QED
    BY <2>1, <2>2, TargetOfPrefix DEF TargetOfReturn, TargetOfBreak
<1> QED
  BY <1>2, <1>3, <1>4, <1>5 DEF SavedRight

\* The targets once the innermost node is left: those that were saved in it, or
\* those that were current if the node neither has nor hides the part.
LEMMA TargetsBelow ==
  ASSUME IInv, open # <<>>, Pop
  PROVE  /\ TargetOfReturn(open', Len(open'), Top.prev_func)
         /\ TargetOfBreak(open', Len(open'), Top.prev_break)
         /\ Top.part \notin {"function", "constant"} => TargetOfReturn(open', Len(open'), function)
         /\ Top.part \notin {"loop body", "constant"} => TargetOfBreak(open', Len(open'), break_target)
<1>1. /\ Len(open) \in Nat \ {0} /\ Len(open') = Len(open) - 1 /\ Len(open) \in DOMAIN open
      /\ \A i \in 1..(Len(open) - 1) : open'[i] = open[i]
  BY PopKeepsSaved
<1>2. Len(open) - 1 \in Nat
  BY <1>1
<1>3. /\ TargetOfReturn(open, Len(open) - 1, Top.prev_func)
      /\ TargetOfBreak(open, Len(open) - 1, Top.prev_break)
  BY <1>1 DEF IInv, SavedRight, Top
<1>4. Top.part \notin {"function", "constant"} => TargetOfReturn(open, Len(open) - 1, function)
  BY <1>1, NeutralFrame DEF IInv, CurrentRight, Top, TargetOfReturn
<1>5. Top.part \notin {"loop body", "constant"} => TargetOfBreak(open, Len(open) - 1, break_target)
  BY <1>1, NeutralFrame DEF IInv, CurrentRight, Top, TargetOfBreak
<1>6. ASSUME NEW v, NEW part, NEW hidden, Target(open, Len(open) - 1, v, part, hidden)
      PROVE  Target(open', Len(open'), v, part, hidden)
  BY <1>1, <1>2, <1>6, TargetOfPrefix
<1> QED
  BY <1>3, <1>4, <1>5, <1>6 DEF TargetOfReturn, TargetOfBreak

-----------------------------------------------------------------------------
(***************************************************************************)
(* The targets after each step.                                            *)
(***************************************************************************)
LEMMA InitRight == Init => IInv
<1> SUFFICES ASSUME Init PROVE IInv
  OBVIOUS
<1>1. open = <<>> /\ kinds = <<>> /\ function = NULL /\ break_target = NULL
      /\ DOMAIN open = {} /\ Len(open) = 0 /\ 1..Len(open) = {}
  BY DEF Init
<1>2. TypeOK
  BY <1>1, BoundsAssumption DEF Init, TypeOK, NoJump
<1>3. FramesRight /\ SavedRight
  BY <1>1 DEF FramesRight, SavedRight
<1>4. CurrentRight
  BY <1>1 DEF CurrentRight, TargetOfReturn, TargetOfBreak, Target
<1> QED
  BY <1>2, <1>3, <1>4 DEF IInv

\* What the frame that is walked does to the targets.
LEMMA TargetsAtTop ==
  ASSUME NEW s, NEW n \in Nat \ {0}
  PROVE  /\ s[n].part = "function" => TargetOfReturn(s, n, s[n].node)
         /\ s[n].part = "loop body" => TargetOfBreak(s, n, s[n].node)
         /\ s[n].part = "constant" => TargetOfReturn(s, n, NULL) /\ TargetOfBreak(s, n, NULL)
         /\ s[n].part \notin {"function", "constant"} =>
              \A v : TargetOfReturn(s, n, v) <=> TargetOfReturn(s, n - 1, v)
         /\ s[n].part \notin {"loop body", "constant"} =>
              \A v : TargetOfBreak(s, n, v) <=> TargetOfBreak(s, n - 1, v)
BY OwnFrame, HidingFrame, NeutralFrame DEF TargetOfReturn, TargetOfBreak

\* The targets inside of a node that is entered.
LEMMA TargetsInside ==
  ASSUME IInv, NEW part \in Parts, NEW node \in Nodes \cup {NULL},
         open' = Append(open, Frame(part, node))
  PROVE  /\ part = "function" => TargetOfReturn(open', Len(open'), node)
         /\ part = "constant" => /\ TargetOfReturn(open', Len(open'), NULL)
                                 /\ TargetOfBreak(open', Len(open'), NULL)
         /\ part \notin {"function", "constant"} => TargetOfReturn(open', Len(open'), function)
         /\ part \notin {"loop body", "constant"} => TargetOfBreak(open', Len(open'), break_target)
<1>1. /\ Len(open) \in Nat /\ Len(open') = Len(open) + 1
      /\ open'[Len(open')] = Frame(part, node)
      /\ \A i \in 1..Len(open) : open'[i] = open[i]
  BY PushKeepsSaved DEF IInv, TypeOK
<1>2. /\ Len(open') \in Nat \ {0} /\ Len(open') - 1 = Len(open)
      /\ open'[Len(open')].part = part /\ open'[Len(open')].node = node
  BY <1>1 DEF Frame
<1>3. TargetOfReturn(open', Len(open), function) /\ TargetOfBreak(open', Len(open), break_target)
  BY <1>1, TargetOfPrefix DEF IInv, CurrentRight, TargetOfReturn, TargetOfBreak
<1> DEFINE n == Len(open')
<1>4. n \in Nat \ {0} /\ n - 1 = Len(open) /\ open'[n].part = part /\ open'[n].node = node
  BY <1>2
<1> HIDE DEF n
<1>5. TargetOfReturn(open', n - 1, function) /\ TargetOfBreak(open', n - 1, break_target)
  BY <1>3, <1>4
<1>6. /\ part = "function" => TargetOfReturn(open', n, node)
      /\ part = "constant" => TargetOfReturn(open', n, NULL) /\ TargetOfBreak(open', n, NULL)
      /\ part \notin {"function", "constant"} => TargetOfReturn(open', n, function)
      /\ part \notin {"loop body", "constant"} => TargetOfBreak(open', n, break_target)
  BY <1>4, <1>5, TargetsAtTop
<1> QED
  BY <1>6 DEF n

LEMMA TargetsStayRight == IInv /\ [Next]_vars => SavedRight' /\ CurrentRight'
<1> SUFFICES ASSUME IInv, [Next]_vars PROVE SavedRight' /\ CurrentRight'
  OBVIOUS
<1>1. open \in Seq(Frames) /\ kinds \in Seq({"WHILE", "FN"})
  BY DEF IInv, TypeOK
<1>2. ASSUME NEW kind, NewNode(kind) PROVE Len(kinds') \in Nodes \cup {NULL}
  <2>1. Len(kinds) \in Nat /\ Len(kinds') = Len(kinds) + 1 /\ Len(kinds) < MaxNodes
    BY <1>1, <1>2 DEF NewNode
  <2> QED
    BY <2>1, BoundsAssumption DEF Nodes
<1>3. CASE EnterWhile
  <2>1. open' = Append(open, Frame("condition", Len(kinds'))) /\ Len(kinds') \in Nodes \cup {NULL}
    BY <1>2, <1>3 DEF EnterWhile, Enter
  <2>2. "condition" \in Parts
    BY DEF Parts
  <2>3. SavedRight'
    BY <2>1, <2>2, PushKeepsSaved
  <2>4. TargetOfReturn(open', Len(open'), function) /\ TargetOfBreak(open', Len(open'), break_target)
    BY <2>1, <2>2, TargetsInside
  <2> QED
    BY <1>3, <2>3, <2>4 DEF EnterWhile, CurrentRight
<1>4. CASE EnterLoopBody
  <2> DEFINE n == Len(open)
  <2>0. open # <<>>
    BY <1>4 DEF EnterLoopBody
  <2>1. n \in Nat \ {0} /\ DOMAIN open = 1..n /\ n - 1 \in Nat /\ n \in 1..n
    BY <1>1, <2>0
  <2>11. /\ open' = [open EXCEPT ![n] = Frame("loop body", Top.node)]
         /\ open[n].part = "condition"
    BY <1>4 DEF EnterLoopBody, Top
  <2>10. Frame("loop body", Top.node) \in Frames
    <3>1. open[n] \in Frames
      BY <1>1, <2>1
    <3>2. function \in Nodes \cup {NULL} /\ break_target \in Nodes \cup {NULL}
      BY MetAreNodes DEF IInv, TypeOK
    <3> QED
      BY <3>1, <3>2 DEF Frame, Frames, Top, Parts
  <2>2. /\ Len(open') = n /\ DOMAIN open' = 1..n
        /\ \A i \in 1..(n - 1) : open'[i] = open[i]
        /\ open'[n] = Frame("loop body", Top.node)
    <3> DEFINE f == Frame("loop body", Top.node)
    <3>1. f \in Frames /\ open' = [open EXCEPT ![Len(open)] = f]
      BY <2>10, <2>11
    <3> HIDE DEF f
    <3>2. /\ Len(open') = Len(open) /\ DOMAIN open' = 1..Len(open) /\ open'[Len(open)] = f
          /\ \A i \in 1..(Len(open) - 1) : open'[i] = open[i]
      BY <1>1, <2>0, <3>1, LastReplaced
    <3> QED
      BY <3>2 DEF f
  <2> HIDE DEF n
  <2>3. /\ open'[n].part = "loop body" /\ open'[n].node = Top.node
        /\ open'[n].prev_func = function /\ open'[n].prev_break = break_target
    <3> DEFINE f == Frame("loop body", Top.node)
    <3>1. /\ f.part = "loop body" /\ f.node = Top.node
          /\ f.prev_func = function /\ f.prev_break = break_target
      BY DEF Frame
    <3>2. open'[n] = f
      BY <2>2
    <3> HIDE DEF f
    <3> QED
      BY <3>1, <3>2
  <2>4. /\ \A k \in 1..n : /\ TargetOfReturn(open, k - 1, open[k].prev_func)
                           /\ TargetOfBreak(open, k - 1, open[k].prev_break)
        /\ TargetOfReturn(open, n, function) /\ TargetOfBreak(open, n, break_target)
    BY <2>1 DEF IInv, SavedRight, CurrentRight, n
  <2>5. TargetOfReturn(open, n - 1, function) /\ TargetOfBreak(open, n - 1, break_target)
    BY <2>1, <2>4, <2>11, TargetsAtTop
  <2>6. ASSUME NEW k \in 1..n, NEW v, NEW part, NEW hidden, Target(open, k - 1, v, part, hidden)
        PROVE  Target(open', k - 1, v, part, hidden)
    <3>1. k - 1 \in Nat /\ \A i \in 1..(k - 1) : i \in 1..(n - 1)
      BY <2>1
    <3> QED
      BY <2>2, <2>6, <3>1, TargetOfPrefix
  <2>7. SavedRight'
    <3> SUFFICES ASSUME NEW k \in 1..n
                 PROVE  /\ TargetOfReturn(open', k - 1, open'[k].prev_func)
                        /\ TargetOfBreak(open', k - 1, open'[k].prev_break)
      BY <2>2 DEF SavedRight
    <3>1. CASE k = n
      BY <3>1, <2>3, <2>5, <2>6 DEF TargetOfReturn, TargetOfBreak
    <3>2. CASE k # n
      <4>1. open'[k] = open[k]
        <5>1. k \in 1..(n - 1)
          BY <3>2, <2>1
        <5> QED
          BY <5>1, <2>2
      <4>2. /\ TargetOfReturn(open, k - 1, open[k].prev_func)
            /\ TargetOfBreak(open, k - 1, open[k].prev_break)
        BY <2>4
      <4> QED
        BY <4>1, <4>2, <2>6 DEF TargetOfReturn, TargetOfBreak
    <3> QED
      BY <3>1, <3>2
  <2>8. TargetOfReturn(open', n - 1, function)
    BY <2>1, <2>5, <2>6 DEF TargetOfReturn
  <2>9. TargetOfReturn(open', n, function) /\ TargetOfBreak(open', n, Top.node)
    BY <2>1, <2>3, <2>8, TargetsAtTop
  <2> QED
    BY <1>4, <2>2, <2>7, <2>9 DEF EnterLoopBody, CurrentRight
<1>5. CASE LeaveWhile
  <2>1. open # <<>> /\ Pop /\ Top.part = "loop body"
    BY <1>5 DEF LeaveWhile
  <2>2. SavedRight'
    BY <2>1, PopKeepsSaved
  <2> QED
    BY <1>5, <2>1, <2>2, TargetsBelow DEF LeaveWhile, CurrentRight
<1>6. CASE EnterFn
  <2>1. open' = Append(open, Frame("function", Len(kinds'))) /\ Len(kinds') \in Nodes \cup {NULL}
    BY <1>2, <1>6 DEF EnterFn, Enter
  <2>2. "function" \in Parts
    BY DEF Parts
  <2>3. SavedRight'
    BY <2>1, <2>2, PushKeepsSaved
  <2>4. TargetOfReturn(open', Len(open'), Len(kinds')) /\ TargetOfBreak(open', Len(open'), break_target)
    BY <2>1, <2>2, TargetsInside
  <2> QED
    BY <1>6, <2>3, <2>4 DEF EnterFn, CurrentRight
<1>7. CASE LeaveFn
  <2>1. open # <<>> /\ Pop /\ Top.part = "function"
    BY <1>7 DEF LeaveFn
  <2>2. SavedRight'
    BY <2>1, PopKeepsSaved
  <2> QED
    BY <1>7, <2>1, <2>2, TargetsBelow DEF LeaveFn, CurrentRight
<1>8. CASE EnterConstant
  <2>1. open' = Append(open, Frame("constant", NULL)) /\ "constant" \in Parts
    BY <1>8 DEF EnterConstant, Enter, Parts
  <2>2. SavedRight'
    BY <2>1, PushKeepsSaved
  <2>3. TargetOfReturn(open', Len(open'), NULL) /\ TargetOfBreak(open', Len(open'), NULL)
    BY <2>1, TargetsInside
  <2> QED
    BY <1>8, <2>2, <2>3 DEF EnterConstant, CurrentRight
<1>9. CASE LeaveConstant
  <2>1. open # <<>> /\ Pop
    BY <1>9 DEF LeaveConstant
  <2>2. SavedRight'
    BY <2>1, PopKeepsSaved
  <2> QED
    BY <1>9, <2>1, <2>2, TargetsBelow DEF LeaveConstant, CurrentRight
<1>10. CASE UNCHANGED <<open, function, break_target>>
  BY <1>10 DEF IInv, SavedRight, CurrentRight
<1>11. CASE Return /\ open' # open
  <2>1. open' = Append(open, Frame("return", NULL)) /\ "return" \in Parts
    BY <1>11 DEF Return, Enter, Parts
  <2>2. SavedRight'
    BY <2>1, PushKeepsSaved
  <2>3. TargetOfReturn(open', Len(open'), function) /\ TargetOfBreak(open', Len(open'), break_target)
    BY <2>1, TargetsInside
  <2> QED
    BY <1>11, <2>2, <2>3 DEF Return, CurrentRight
<1>12. CASE LeaveReturn
  <2>1. open # <<>> /\ Pop /\ Top.part = "return"
    BY <1>12 DEF LeaveReturn
  <2>2. SavedRight'
    BY <2>1, PopKeepsSaved
  <2> QED
    BY <1>12, <2>1, <2>2, TargetsBelow DEF LeaveReturn, CurrentRight
<1>13. BreakOrContinue \/ (Return /\ open' = open) \/ UNCHANGED vars
         => UNCHANGED <<open, function, break_target>>
  BY DEF BreakOrContinue, Return, vars
<1> QED
  BY <1>3, <1>4, <1>5, <1>6, <1>7, <1>8, <1>9, <1>10, <1>11, <1>12, <1>13 DEF Next

-----------------------------------------------------------------------------
(***************************************************************************)
(* The kinds of the targets after each step.                               *)
(***************************************************************************)
\* Nodes that are met keep their kind.
MetStays == \A k : Met(k) \subseteq Met(k)'

LEMMA KindsGrow ==
  ASSUME TypeOK, NEW kind \in {"WHILE", "FN"}, NewNode(kind)
  PROVE  /\ kinds' \in Seq({"WHILE", "FN"}) /\ Len(kinds') <= MaxNodes
         /\ Len(kinds') \in Met(kind)' /\ Len(kinds') \in Nodes
         /\ MetStays
<1> DEFINE n == Len(kinds)
<1>1. /\ kinds \in Seq({"WHILE", "FN"}) /\ n \in Nat /\ n < MaxNodes
      /\ kinds' = Append(kinds, kind) /\ DOMAIN kinds = 1..n
  BY DEF TypeOK, NewNode
<1>2. /\ kinds' \in Seq({"WHILE", "FN"}) /\ Len(kinds') = n + 1 /\ DOMAIN kinds' = 1..(n + 1)
      /\ kinds'[n + 1] = kind /\ \A i \in 1..n : kinds'[i] = kinds[i]
  BY <1>1
<1> HIDE DEF n
<1>3. n + 1 \in 1..(n + 1) /\ n + 1 <= MaxNodes /\ n + 1 \in Nodes /\ 1..n \subseteq 1..(n + 1)
  BY <1>1, BoundsAssumption DEF Nodes
<1> QED
  BY <1>1, <1>2, <1>3 DEF Met, MetStays

LEMMA FramesGrow ==
  ASSUME IInv, NEW part \in Parts, NEW node \in Nodes \cup {NULL},
         open' = Append(open, Frame(part, node)),
         MetStays,
         NodeOfKind(part, node)'
  PROVE  FramesRight'
<1> DEFINE n == Len(open)
<1>1. /\ n \in Nat /\ DOMAIN open = 1..n /\ DOMAIN open' = 1..(n + 1)
      /\ open'[n + 1] = Frame(part, node) /\ \A i \in 1..n : open'[i] = open[i]
  <2>1. /\ open' \in Seq(Frames) /\ Len(open') = n + 1
        /\ open'[n + 1] = Frame(part, node) /\ \A i \in 1..n : open'[i] = open[i]
    BY PushKeepsSaved
  <2>2. n \in Nat /\ DOMAIN open = 1..n
    BY DEF IInv, TypeOK
  <2>3. DOMAIN open' = 1..(n + 1)
    BY <2>1
  <2> QED
    BY <2>1, <2>2, <2>3
<1>2. function \in MetOrNull("FN")' /\ break_target \in MetOrNull("WHILE")'
  BY DEF IInv, TypeOK, MetOrNull, MetStays
<1> HIDE DEF n
<1> SUFFICES ASSUME NEW k \in 1..(n + 1)
             PROVE  /\ NodeOfKind(open[k].part, open[k].node)'
                    /\ open'[k].prev_func \in MetOrNull("FN")'
                    /\ open'[k].prev_break \in MetOrNull("WHILE")'
  BY <1>1 DEF FramesRight
<1>3. CASE k = n + 1
  <2>1. /\ open'[k].part = part /\ open'[k].node = node
        /\ open'[k].prev_func = function /\ open'[k].prev_break = break_target
    <3> DEFINE f == Frame(part, node)
    <3>1. f.part = part /\ f.node = node /\ f.prev_func = function /\ f.prev_break = break_target
      BY DEF Frame
    <3>2. open'[k] = f
      BY <1>1, <1>3
    <3> QED
      BY <3>1, <3>2
  <2> QED
    BY <1>2, <2>1
<1>4. CASE k # n + 1
  <2>1. k \in 1..n
    <3>1. n \in Nat
      BY <1>1
    <3> QED
      BY <3>1, <1>4
  <2>2. open'[k] = open[k]
    BY <1>1, <2>1
  <2> QED
    BY <1>1, <2>1, <2>2 DEF IInv, FramesRight, NodeOfKind, MetOrNull, MetStays
<1> QED
  BY <1>3, <1>4

LEMMA FramesShrink ==
  ASSUME IInv, open # <<>>, Pop, kinds' = kinds
  PROVE  FramesRight'
<1>1. /\ DOMAIN open' \subseteq DOMAIN open /\ DOMAIN open' = 1..(Len(open) - 1)
      /\ \A i \in 1..(Len(open) - 1) : open'[i] = open[i]
  BY PopKeepsSaved
<1>2. ASSUME NEW k \in DOMAIN open' PROVE k \in DOMAIN open /\ open'[k] = open[k]
  BY <1>1
<1> QED
  BY <1>2 DEF IInv, FramesRight, NodeOfKind, MetOrNull, Met

\* The frame of the node that is left, and what is saved in it.
LEMMA TopRight ==
  ASSUME IInv, open # <<>>
  PROVE  /\ Top \in Frames /\ NodeOfKind(Top.part, Top.node)
         /\ Top.prev_func \in MetOrNull("FN") /\ Top.prev_break \in MetOrNull("WHILE")
<1>1. open \in Seq(Frames)
  BY DEF IInv, TypeOK
<1>2. Len(open) \in DOMAIN open
  BY <1>1
<1>3. Top \in Frames
  BY <1>1, <1>2 DEF Top
<1> QED
  BY <1>2, <1>3 DEF IInv, FramesRight, Top

LEMMA KindsStayRight == IInv /\ [Next]_vars => TypeOK' /\ FramesRight'
<1> SUFFICES ASSUME IInv, [Next]_vars PROVE TypeOK' /\ FramesRight'
  OBVIOUS
<1>1. /\ function \in MetOrNull("FN") /\ break_target \in MetOrNull("WHILE")
      /\ open \in Seq(Frames) /\ Len(open) \in Nat /\ Len(open) <= MaxDepth
      /\ kinds \in Seq({"WHILE", "FN"}) /\ Len(kinds) <= MaxNodes
      /\ jump \in [kind : {"none", "break", "return"}, target : Nodes \cup {NULL}]
  BY DEF IInv, TypeOK, MetOrNull
<1>2. function \in Nodes \cup {NULL} /\ break_target \in Nodes \cup {NULL}
  BY MetAreNodes DEF IInv, TypeOK
<1>3. ASSUME NEW part \in Parts, NEW node \in Nodes \cup {NULL},
             Enter(Frame(part, node)), Len(open) < MaxDepth
      PROVE  open' \in Seq(Frames) /\ Len(open') <= MaxDepth
  <2>1. open' \in Seq(Frames) /\ Len(open') = Len(open) + 1
    BY <1>3, PushKeepsSaved DEF Enter
  <2> QED
    BY <1>1, <1>3, <2>1, BoundsAssumption
<1>4. ASSUME open # <<>>, Pop PROVE open' \in Seq(Frames) /\ Len(open') <= MaxDepth
  <2>1. open' \in Seq(Frames) /\ Len(open') = Len(open) - 1
    BY <1>4, PopKeepsSaved
  <2> QED
    BY <1>1, <2>1, BoundsAssumption
<1>5. /\ "WHILE" \in {"WHILE", "FN"} /\ "FN" \in {"WHILE", "FN"} /\ NULL \in Nodes \cup {NULL}
      /\ {"condition", "function", "constant", "return"} \subseteq Parts
  BY DEF Parts
<1>6. \A node : NodeOfKind("constant", node)' /\ NodeOfKind("return", node)'
  BY DEF NodeOfKind
<1>7. UNCHANGED kinds => MetStays
  BY DEF MetStays, Met
<1>8. CASE EnterWhile
  <2>1. /\ kinds' \in Seq({"WHILE", "FN"}) /\ Len(kinds') <= MaxNodes
        /\ Len(kinds') \in Met("WHILE")' /\ Len(kinds') \in Nodes /\ MetStays
    BY <1>5, <1>8, KindsGrow DEF EnterWhile, IInv
  <2>2. Enter(Frame("condition", Len(kinds'))) /\ Len(open) < MaxDepth
    BY <1>8 DEF EnterWhile
  <2>3. NodeOfKind("condition", Len(kinds))'
    BY <2>1 DEF NodeOfKind
  <2>4. FramesRight'
    BY <1>5, <2>1, <2>2, <2>3, FramesGrow DEF Enter
  <2>5. open' \in Seq(Frames) /\ Len(open') <= MaxDepth
    BY <1>3, <1>5, <2>1, <2>2
  <2> QED
    BY <1>1, <1>8, <2>1, <2>4, <2>5 DEF EnterWhile, TypeOK, MetOrNull, MetStays
<1>9. CASE EnterFn
  <2>1. /\ kinds' \in Seq({"WHILE", "FN"}) /\ Len(kinds') <= MaxNodes
        /\ Len(kinds') \in Met("FN")' /\ Len(kinds') \in Nodes /\ MetStays
    BY <1>5, <1>9, KindsGrow DEF EnterFn, IInv
  <2>2. Enter(Frame("function", Len(kinds'))) /\ Len(open) < MaxDepth
    BY <1>9 DEF EnterFn
  <2>3. NodeOfKind("function", Len(kinds))'
    BY <2>1 DEF NodeOfKind
  <2>4. FramesRight'
    BY <1>5, <2>1, <2>2, <2>3, FramesGrow DEF Enter
  <2>5. open' \in Seq(Frames) /\ Len(open') <= MaxDepth
    BY <1>3, <1>5, <2>1, <2>2
  <2> QED
    BY <1>1, <1>9, <2>1, <2>4, <2>5 DEF EnterFn, TypeOK, MetOrNull, MetStays
<1>10. CASE EnterLoopBody
  <2>1. open # <<>> /\ Top.part = "condition"
    BY <1>10 DEF EnterLoopBody
  <2>2. /\ Top \in Frames /\ Top.node \in Met("WHILE") /\ Top.node \in Nodes \cup {NULL}
    BY <2>1, TopRight DEF NodeOfKind, Frames
  <2> DEFINE f == Frame("loop body", Top.node)
  <2>3. /\ f \in Frames /\ NodeOfKind(f.part, f.node)
        /\ f.prev_func \in MetOrNull("FN") /\ f.prev_break \in MetOrNull("WHILE")
    BY <1>1, <1>2, <2>2 DEF Frame, Frames, Parts, NodeOfKind
  <2>4. open' = [open EXCEPT ![Len(open)] = f]
    BY <1>10 DEF EnterLoopBody
  <2> HIDE DEF f
  <2>5. /\ open' \in Seq(Frames) /\ Len(open') = Len(open) /\ DOMAIN open' = 1..Len(open)
        /\ open'[Len(open)] = f
        /\ \A i \in 1..(Len(open) - 1) : open'[i] = open[i]
    BY <1>1, <2>1, <2>3, <2>4, LastReplaced
  <2>6. DOMAIN open = 1..Len(open)
    BY <1>1
  <2>7. ASSUME NEW k \in 1..Len(open)
        PROVE  /\ NodeOfKind(open'[k].part, open'[k].node)
               /\ open'[k].prev_func \in MetOrNull("FN") /\ open'[k].prev_break \in MetOrNull("WHILE")
    <3>1. CASE k = Len(open)
      BY <2>3, <2>5, <3>1
    <3>2. CASE k # Len(open)
      <4>1. k \in 1..(Len(open) - 1)
        BY <1>1, <3>2
      <4>2. open'[k] = open[k]
        BY <2>5, <4>1
      <4> QED
        BY <2>6, <4>2 DEF IInv, FramesRight
    <3> QED
      BY <3>1, <3>2
  <2>8. kinds' = kinds
    BY <1>10 DEF EnterLoopBody
  <2>9. FramesRight'
    BY <2>5, <2>7, <2>8 DEF FramesRight, NodeOfKind, MetOrNull, Met
  <2> QED
    BY <1>1, <1>10, <2>2, <2>5, <2>8, <2>9 DEF EnterLoopBody, TypeOK, MetOrNull, Met
<1>11. CASE LeaveWhile \/ LeaveFn \/ LeaveConstant \/ LeaveReturn
  <2>1. open # <<>> /\ Pop /\ UNCHANGED <<kinds, jump>>
    BY <1>11 DEF LeaveWhile, LeaveFn, LeaveConstant, LeaveReturn
  <2>2. FramesRight' /\ open' \in Seq(Frames) /\ Len(open') <= MaxDepth
    BY <1>4, <2>1, FramesShrink
  <2>3. function' \in {function, Top.prev_func} /\ break_target' \in {break_target, Top.prev_break}
    BY <1>11 DEF LeaveWhile, LeaveFn, LeaveConstant, LeaveReturn
  <2>4. function' \in MetOrNull("FN") /\ break_target' \in MetOrNull("WHILE")
    BY <1>1, <2>1, <2>3, TopRight
  <2> QED
    BY <1>1, <2>1, <2>2, <2>4 DEF TypeOK, MetOrNull, Met
<1>12. CASE EnterConstant
  <2>1. Enter(Frame("constant", NULL)) /\ Len(open) < MaxDepth /\ kinds' = kinds
    BY <1>12 DEF EnterConstant
  <2>2. FramesRight'
    BY <1>5, <1>6, <1>7, <2>1, FramesGrow DEF Enter
  <2>3. open' \in Seq(Frames) /\ Len(open') <= MaxDepth
    BY <1>3, <1>5, <2>1
  <2> QED
    BY <1>1, <1>12, <2>2, <2>3 DEF EnterConstant, TypeOK, MetOrNull
<1>13. CASE BreakOrContinue
  <2>1. jump' \in [kind : {"none", "break", "return"}, target : Nodes \cup {NULL}]
    BY <1>2, <1>13 DEF BreakOrContinue
  <2> QED
    BY <1>1, <1>13, <2>1 DEF BreakOrContinue, IInv, TypeOK, FramesRight, NodeOfKind, MetOrNull, Met
<1>14. CASE Return
  <2>1. jump' \in [kind : {"none", "break", "return"}, target : Nodes \cup {NULL}]
    BY <1>2, <1>14 DEF Return
  <2>2. UNCHANGED <<function, break_target, kinds>>
    BY <1>14 DEF Return
  <2>3. CASE Enter(Frame("return", NULL)) /\ Len(open) < MaxDepth
    <3>1. FramesRight'
      BY <1>5, <1>6, <1>7, <2>2, <2>3, FramesGrow DEF Enter
    <3>2. open' \in Seq(Frames) /\ Len(open') <= MaxDepth
      BY <1>3, <1>5, <2>3
    <3> QED
      BY <1>1, <2>1, <2>2, <3>1, <3>2 DEF TypeOK, MetOrNull, Met
  <2>4. CASE UNCHANGED open
    BY <1>1, <2>1, <2>2, <2>4 DEF IInv, TypeOK, FramesRight, NodeOfKind, MetOrNull, Met
  <2> QED
    BY <1>14, <2>3, <2>4 DEF Return
<1>15. CASE UNCHANGED vars
  BY <1>15 DEF vars, IInv, TypeOK, FramesRight, NodeOfKind, MetOrNull, Met
<1> QED
  BY <1>8, <1>9, <1>10, <1>11, <1>12, <1>13, <1>14, <1>15 DEF Next

-----------------------------------------------------------------------------
\* What the walk has saved and what is current is right at all times.
THEOREM InductiveInvariant == Spec => []IInv
<1>1. IInv /\ [Next]_vars => IInv'
  BY KindsStayRight, TargetsStayRight DEF IInv
<1> QED
  BY InitRight, <1>1, PTL DEF Spec

\* The target of a return is a function and that of a break or continue a loop,
\* so the casts of the code are right for programs of every size.
THEOREM TypeCorrect == Spec => []TypeOK
<1>1. IInv => TypeOK
  BY DEF IInv
<1> QED
  BY InductiveInvariant, <1>1, PTL

\* A return leaves the function it is written in, whatever was walked before.
THEOREM ReturnTargets == Spec => []ReturnsFromEnclosingFunction
<1>1. IInv => ReturnsFromEnclosingFunction
  <2> SUFFICES ASSUME IInv PROVE function = Innermost("function", {"constant"})
    BY DEF ReturnsFromEnclosingFunction, EnclosingFunction
  <2> QED
    BY TargetIsInnermost DEF IInv, TypeOK, CurrentRight, TargetOfReturn
<1> QED
  BY InductiveInvariant, <1>1, PTL

\* A break or continue acts on the loop around it, or on one around its function.
THEOREM BreakTargets == Spec => []BreaksEnclosingLoop
<1>1. IInv => BreaksEnclosingLoop
  <2> SUFFICES ASSUME IInv PROVE BreaksEnclosingLoop
    OBVIOUS
  <2> DEFINE n == Len(open)
             seen(i) == IsInnermost(open, n, i, "loop body", {"constant", "function"})
  <2>1. open \in Seq(Frames) /\ DOMAIN open = 1..n
    BY DEF IInv, TypeOK
  <2>2. break_target = Innermost("loop body", {"constant"})
    BY <2>1, TargetIsInnermost DEF IInv, CurrentRight, TargetOfBreak
  <2>3. CASE \E i \in 1..n : seen(i)
    <3>1. PICK i \in 1..n : seen(i)
      BY <2>3
    <3>2. /\ Target(open, n, open[i].node, "loop body", {"constant", "function"})
          /\ Target(open, n, open[i].node, "loop body", {"constant"})
      BY <3>1 DEF Target, IsInnermost
    <3>3. EnclosingLoop = open[i].node /\ break_target = open[i].node
      BY <2>1, <2>2, <3>2, TargetIsInnermost DEF EnclosingLoop
    <3> QED
      BY <3>3 DEF BreaksEnclosingLoop
  <2>4. CASE ~ \E i \in 1..n : seen(i)
    <3>1. Target(open, n, NULL, "loop body", {"constant", "function"})
      BY <2>4 DEF Target
    <3>2. EnclosingLoop = NULL
      BY <2>1, <3>1, TargetIsInnermost DEF EnclosingLoop
    <3> QED
      BY <2>2, <3>2 DEF BreaksEnclosingLoop, LoopOutsideFunction
  <2> QED
    BY <2>3, <2>4
<1> QED
  BY InductiveInvariant, <1>1, PTL
=============================================================================
