--------------------------- MODULE ControlFlowRefs --------------------------
(***************************************************************************)
(* The walk that gives every break, continue and return its target         *)
(* (buildControlFlowReferences of compiler/varbuild.c).  The walk and the  *)
(* syntax tree it walks are unfolded together: each step enters a node     *)
(* chosen from those the parser can put there, or leaves one.  The trees   *)
(* of all files are walked one after the other with the same context.      *)
(***************************************************************************)
EXTENDS Integers, Sequences

CONSTANTS
  MaxNodes,        \* a bound on the loops and functions of the program
  MaxDepth         \* a bound on the nesting

ASSUME BoundsAssumption == MaxNodes \in Nat /\ MaxDepth \in Nat

NULL == 0
Nodes == 1..MaxNodes

VARIABLES
  function, break_target,   \* the context, ControlFlowRefBuildContext
  open,                     \* the nodes the walk is inside of, outermost first
  kinds,                    \* the kinds of the loops and functions met so far
  jump                      \* the jump met last and the target it was given

vars == <<function, break_target, open, kinds, jump>>

(***************************************************************************)
(* A node the walk is inside of: the part of it that is walked, and the    *)
(* context that the code keeps in local variables to restore it.           *)
(***************************************************************************)
Parts == {"condition", "loop body", "function", "constant", "return"}

Frame(part, node) ==
  [part |-> part, node |-> node, prev_func |-> function, prev_break |-> break_target]

Frames == [part : Parts, node : Nodes \cup {NULL},
           prev_func : Nodes \cup {NULL}, prev_break : Nodes \cup {NULL}]

NoJump == [kind |-> "none", target |-> NULL]

Init ==
  /\ function = NULL /\ break_target = NULL
  /\ open = <<>> /\ kinds = <<>> /\ jump = NoJump

NewNode(kind) == Len(kinds) < MaxNodes /\ kinds' = Append(kinds, kind)

Enter(frame) == open' = Append(open, frame)

Top == open[Len(open)]

Pop == open' = SubSeq(open, 1, Len(open) - 1)

\* A file consists of definitions; other statements occur inside of them.
InDefinition == open # <<>>

EnterWhile ==
  /\ InDefinition
  /\ Len(open) < MaxDepth /\ NewNode("WHILE")
  /\ Enter(Frame("condition", Len(kinds')))
  /\ UNCHANGED <<function, break_target, jump>>

\* The condition is done, the loop becomes the target of its body.
EnterLoopBody ==
  /\ open # <<>> /\ Top.part = "condition"
  /\ open' = [open EXCEPT ![Len(open)] = Frame("loop body", Top.node)]
  /\ break_target' = Top.node
  /\ UNCHANGED <<function, kinds, jump>>

LeaveWhile ==
  /\ open # <<>> /\ Top.part = "loop body"
  /\ break_target' = Top.prev_break
  /\ Pop
  /\ UNCHANGED <<function, kinds, jump>>

EnterFn ==
  /\ Len(open) < MaxDepth /\ NewNode("FN")
  /\ Enter(Frame("function", Len(kinds')))
  /\ function' = Len(kinds')
  /\ UNCHANGED <<break_target, jump>>

\* Mutant: the function stays the target after its end.
LeaveFnKeepsFunction ==
  /\ open # <<>> /\ Top.part = "function"
  /\ Pop
  /\ UNCHANGED <<function, break_target, kinds, jump>>

LeaveFn ==
  /\ open # <<>> /\ Top.part = "function"
  /\ function' = Top.prev_func
  /\ Pop
  /\ UNCHANGED <<break_target, kinds, jump>>

\* Mutant: only the function is hidden.
EnterConstantKeepsLoop ==
  /\ Len(open) < MaxDepth
  /\ Enter(Frame("constant", NULL))
  /\ function' = NULL
  /\ UNCHANGED <<break_target, kinds, jump>>

\* The value of a static or const, or the size of an array: it is evaluated
\* at compile time and has no targets.
EnterConstant ==
  /\ Len(open) < MaxDepth
  /\ Enter(Frame("constant", NULL))
  /\ function' = NULL /\ break_target' = NULL
  /\ UNCHANGED <<kinds, jump>>

LeaveConstant ==
  /\ open # <<>> /\ Top.part = "constant"
  /\ function' = Top.prev_func /\ break_target' = Top.prev_break
  /\ Pop
  /\ UNCHANGED <<kinds, jump>>

\* A target NULL stands for the error of raiseControlFlowTargetMissingError.
BreakOrContinue ==
  /\ InDefinition
  /\ jump' = [kind |-> "break", target |-> break_target]
  /\ UNCHANGED <<function, break_target, open, kinds>>

\* A return without a target is an error and its value is not walked.
Return ==
  /\ InDefinition
  /\ jump' = [kind |-> "return", target |-> function]
  /\ \/ function # NULL /\ Len(open) < MaxDepth /\ Enter(Frame("return", NULL))
     \/ UNCHANGED open
  /\ UNCHANGED <<function, break_target, kinds>>

LeaveReturn ==
  /\ open # <<>> /\ Top.part = "return"
  /\ Pop
  /\ UNCHANGED <<function, break_target, kinds, jump>>

Next ==
  \/ EnterWhile \/ EnterLoopBody \/ LeaveWhile
  \/ EnterFn \/ LeaveFn
  \/ EnterConstant \/ LeaveConstant
  \/ BreakOrContinue \/ Return \/ LeaveReturn

Spec == Init /\ [][Next]_vars

-----------------------------------------------------------------------------
(***************************************************************************)
(* The targets that the nesting of the program calls for: the innermost    *)
(* node of the kind, unless something in between hides it.                 *)
(***************************************************************************)
Innermost(part, hidden) ==
  LET seen(i) == /\ open[i].part = part
                 /\ \A j \in (i + 1)..Len(open) : open[j].part \notin hidden \cup {part}
  IN  IF \E i \in DOMAIN open : seen(i)
      THEN open[CHOOSE i \in DOMAIN open : seen(i)].node
      ELSE NULL

EnclosingFunction == Innermost("function", {"constant"})

EnclosingLoop == Innermost("loop body", {"constant", "function"})

Met(kind) == {n \in DOMAIN kinds : kinds[n] = kind}

\* Types of the variables: the target of return is a function and that of
\* break and continue a loop (the code casts both without a check).
TypeOK ==
  /\ function \in Met("FN") \cup {NULL}
  /\ break_target \in Met("WHILE") \cup {NULL}
  /\ open \in Seq(Frames) /\ Len(open) <= MaxDepth
  /\ kinds \in Seq({"WHILE", "FN"}) /\ Len(kinds) <= MaxNodes
  /\ jump \in [kind : {"none", "break", "return"}, target : Nodes \cup {NULL}]

\* A return leaves the function it is written in, also after a nested
\* function or a constant; in a constant there is nothing to return from.
ReturnsFromEnclosingFunction == function = EnclosingFunction

\* The known gap: the loop around a function stays the target in its body.
LoopOutsideFunction ==
  EnclosingLoop = NULL /\ Innermost("loop body", {"constant"}) # NULL

\* A break or continue acts on the innermost loop around it in the same
\* function, and one in the condition of a loop on the loop outside.  Only in a
\* function inside a loop it may act on that loop instead of being an error.
BreaksEnclosingLoop == break_target = EnclosingLoop \/ LoopOutsideFunction

=============================================================================
