------------------------------- MODULE CodeGen ------------------------------
(***************************************************************************)
(* How the LLVM backend turns a function body into basic blocks            *)
(* (buildLlvmFunctionBody and buildFunctionBodies of                       *)
(* codegen/llvm/genmodule.c).  A block is the sequence of its              *)
(* instructions; the value of an instruction is named by the path of the   *)
(* node it is generated for.  The frames of the stack are the calls of     *)
(* buildLlvmFunctionBody that are under way: each step is what a call does *)
(* up to its next call for a child, or up to its return.                   *)
(***************************************************************************)
EXTENDS ControlFlow

CONSTANTS
  Programs,   \* the bodies that code is generated for
  Simple      \* nodes whose code begins no block

ASSUME ProgramsAssumption == \A p \in Programs : p \in Nodes /\ ~ JumpsOut[p]

\* What happens in a simple node stays in the block it begins in.
ASSUME SimpleAssumption ==
  \A n \in Simple :
    /\ n \in Nodes /\ n.kind \in {"CALL", "BLOCK", "BLOCK_EXPR"}
    /\ \A i \in DOMAIN n.kids : Kid(n, i) \in Simple

\* No branch of an if expression begins a block of its own (README.md,
\* Deviations).
StraightAssumption ==
  \A n \in Nodes : n.kind = "IF_ELSE_EXPR" => Kid(n, 2) \in Simple /\ Kid(n, 3) \in Simple

\* No && or || counts as returning because of its right operand alone
\* (README.md, Deviations).
LazyAssumption ==
  \A n \in Nodes :
    n.kind \in {"AND", "OR"} /\ EndsWithReturn[n] => EndsWithReturn[Kid(n, 1)]

ENTRY == 1
BODY == 2
EXIT == 3

\* A value that nothing may read: that of a statement or of an undef.
VOID == <<0>>

VARIABLES
  prog,      \* the body
  blocks,    \* the blocks created so far
  at,        \* the block the builder inserts into
  value,     \* the value of the node generated last
  stack      \* the calls under way, innermost last

genVars == <<prog, blocks, at, value, stack>>

\* The targets of break and continue outside every loop.
NoLoop == [brk |-> EXIT, cont |-> EXIT]

\* A call for the node at a path.  loop is what CODEGEN of the innermost loop
\* around it remembers; the child to generate next is number next.  Then the
\* locals: the first block that the call created, the value of the first
\* branch or operand, and the block that the builder was in after it.
Frame(node, path, loop) ==
  [node |-> node, path |-> path, loop |-> loop, next |-> 1,
   new |-> 0, val |-> VOID, from |-> 0]

Br(b) == [op |-> "br", to |-> {b}]
CondBr(v, yes, no) == [op |-> "condbr", val |-> v, to |-> {yes, no}, yes |-> yes, no |-> no]
Phi(dst, incoming) == [op |-> "phi", dst |-> dst, in |-> incoming]

Emit(bs, b, instr) == [bs EXCEPT ![b] = Append(@, instr)]

\* Blocks that are created together have consecutive numbers.
Created(bs, n) == bs \o [i \in 1..n |-> <<>>]

GenInit ==
  /\ prog \in Programs
  /\ blocks = << <<Br(BODY)>>, <<>>, <<>> >> /\ at = BODY /\ value = VOID
  /\ stack = <<Frame(prog, <<>>, NoLoop)>>

Top == stack[Len(stack)]
Is(kinds) == stack # <<>> /\ Top.node.kind \in kinds

\* The call with the frame f goes on with its next child.
Descend(f, loop) ==
  /\ stack' = Append([stack EXCEPT ![Len(stack)] = [f EXCEPT !.next = @ + 1]],
                     Frame(Kid(f.node, f.next), Append(f.path, f.next), loop))
  /\ UNCHANGED <<prog, value>>

Leave(v) ==
  /\ stack' = SubSeq(stack, 1, Len(stack) - 1)
  /\ value' = v
  /\ UNCHANGED prog

\* Mutant: the builder stays in the block that the jump has ended.
DeadStays(bs) == blocks' = bs /\ at' = at

\* After a jump the builder goes on in a new block that nothing reaches.
Dead(bs) == blocks' = Created(bs, 1) /\ at' = Len(bs) + 1

\* Mutant: the end of the right operand is taken to be its first block.
LazyIncomingRightBlock(start, left, other, right, right_block) ==
  [b \in {start, right_block} |-> IF b = start THEN left ELSE right]

LazyIncoming(start, left, other, right, right_block) ==
  [b \in {start, other} |-> IF b = start THEN left ELSE right]

IfIncoming(if_block, if_value, else_block, else_value) ==
  [b \in {if_block, else_block} |-> IF b = if_block THEN if_value ELSE else_value]

\* Mutant: continue skips the condition.
LoopTargetsNoCondition(cond_block, while_block, rest) == [brk |-> rest, cont |-> while_block]

LoopTargets(cond_block, while_block, rest) == [brk |-> rest, cont |-> cond_block]

-----------------------------------------------------------------------------
GenCall ==
  /\ Is({"CALL"})
  /\ blocks' = Emit(blocks, at, [op |-> "call", dst |-> Top.path])
  /\ Leave(Top.path) /\ UNCHANGED at

GenJump ==
  /\ Is({"BREAK", "CONTINUE"})
  /\ Dead(Emit(blocks, at, Br(IF Top.node.kind = "BREAK" THEN Top.loop.brk ELSE Top.loop.cont)))
  /\ Leave(VOID)

\* Children that need nothing before them.
NextChild ==
  /\ \/ Is({"BLOCK", "BLOCK_EXPR"}) /\ HasKid(Top.node, Top.next)
     \/ Is({"RETURN", "AND", "OR"}) /\ Top.next = 1
  /\ Descend(Top, Top.loop) /\ UNCHANGED <<blocks, at>>

LeaveBlock ==
  /\ Is({"BLOCK", "BLOCK_EXPR"}) /\ Top.next = Len(Top.node.kids) + 1
  /\ Leave(IF Top.node.kind = "BLOCK" THEN VOID ELSE value) /\ UNCHANGED <<blocks, at>>

ReturnValue ==
  /\ Is({"RETURN"}) /\ Top.next = 2
  /\ Dead(Emit(Emit(blocks, at, [op |-> "store", val |-> value]), at, Br(EXIT)))
  /\ Leave(VOID)

LazyRight ==
  /\ Is({"AND", "OR"}) /\ Top.next = 2
  /\ LET right == Len(blocks) + 1
         rest == right + 1
         branch == IF Top.node.kind = "AND" THEN CondBr(value, right, rest)
                   ELSE CondBr(value, rest, right)
     IN  /\ blocks' = Created(Emit(blocks, at, branch), 2) /\ at' = right
         /\ Descend([Top EXCEPT !.new = right, !.val = value, !.from = at], Top.loop)

LazyEnd ==
  /\ Is({"AND", "OR"}) /\ Top.next = 3
  /\ LET rest == Top.new + 1
         incoming == LazyIncoming(Top.from, Top.val, at, value, Top.new)
     IN  /\ blocks' = Emit(Emit(blocks, at, Br(rest)), rest, Phi(Top.path, incoming))
         /\ at' = rest
  /\ Leave(Top.path)

HasElse == HasKid(Top.node, 3)
ElseBlock == IF HasElse THEN Top.new + 2 ELSE Top.new + 1

IfCondition ==
  /\ Is({"IF_ELSE", "IF_ELSE_EXPR"}) /\ Top.next = 1
  /\ blocks' = Created(blocks, IF HasElse THEN 3 ELSE 2)
  /\ Descend([Top EXCEPT !.new = Len(blocks) + 1], Top.loop) /\ UNCHANGED at

IfBranch ==
  /\ Is({"IF_ELSE", "IF_ELSE_EXPR"}) /\ Top.next = 2
  /\ blocks' = Emit(blocks, at, CondBr(value, Top.new, ElseBlock)) /\ at' = Top.new
  /\ Descend(Top, Top.loop)

ElseBranch ==
  /\ Is({"IF_ELSE", "IF_ELSE_EXPR"}) /\ Top.next = 3 /\ HasElse
  /\ blocks' = Emit(blocks, at, Br(Top.new + 1)) /\ at' = ElseBlock
  /\ Descend([Top EXCEPT !.val = value], Top.loop)

IfEnd ==
  /\ Is({"IF_ELSE"}) /\ Top.next = Len(Top.node.kids) + 1
  /\ blocks' = Emit(blocks, at, Br(Top.new + 1)) /\ at' = Top.new + 1
  /\ Leave(VOID)

IfExprEnd ==
  /\ Is({"IF_ELSE_EXPR"}) /\ Top.next = 4
  /\ LET rest == Top.new + 1
         incoming == IfIncoming(Top.new, Top.val, ElseBlock, value)
     IN  /\ blocks' = Emit(Emit(blocks, at, Br(rest)), rest, Phi(Top.path, incoming))
         /\ at' = rest
  /\ Leave(Top.path)

WhileCondition ==
  /\ Is({"WHILE"}) /\ Top.next = 1
  /\ LET cond == Len(blocks) + 1
     IN  /\ blocks' = Created(Emit(blocks, at, Br(cond)), 3) /\ at' = cond
         /\ Descend([Top EXCEPT !.new = cond], Top.loop)

WhileBody ==
  /\ Is({"WHILE"}) /\ Top.next = 2
  /\ LET while == Top.new + 1
         rest == Top.new + 2
     IN  /\ blocks' = Emit(blocks, at, CondBr(value, while, rest)) /\ at' = while
         /\ Descend(Top, LoopTargets(Top.new, while, rest))

WhileEnd ==
  /\ Is({"WHILE"}) /\ Top.next = 3
  /\ blocks' = Emit(blocks, at, Br(Top.new)) /\ at' = Top.new + 2
  /\ Leave(VOID)

\* buildFunctionBodies, after the body.
FunctionEnd ==
  /\ stack = <<>> /\ at # EXIT
  /\ blocks' = Emit(Emit(blocks, at, Br(EXIT)), EXIT, [op |-> "ret"]) /\ at' = EXIT
  /\ UNCHANGED <<prog, value, stack>>

Generated == at = EXIT

GenNext ==
  \/ GenCall \/ GenJump \/ NextChild \/ LeaveBlock \/ ReturnValue \/ LazyRight \/ LazyEnd
  \/ IfCondition \/ IfBranch \/ ElseBranch \/ IfEnd \/ IfExprEnd
  \/ WhileCondition \/ WhileBody \/ WhileEnd \/ FunctionEnd

GenSpec == GenInit /\ [][GenNext]_genVars

-----------------------------------------------------------------------------
Terminators == {"br", "condbr", "ret"}

Branches(instr, b) == instr.op \in {"br", "condbr"} /\ b \in instr.to

Predecessors(b) == {a \in DOMAIN blocks : \E i \in DOMAIN blocks[a] : Branches(blocks[a][i], b)}

\* When a function is done, every basic block ends in the only terminator it
\* has, whatever code follows a return, a break or a continue (the "dead"
\* blocks).
OneTerminator ==
  Generated =>
    \A b \in DOMAIN blocks :
      /\ blocks[b] # <<>>
      /\ \A i \in DOMAIN blocks[b] : blocks[b][i].op \in Terminators <=> i = Len(blocks[b])

\* When a function is done, a phi has one value for each block that control
\* can come from, in code that is reached and in code that is not; LLVM
\* rejects every other module.
PhiMatchesPredecessors ==
  Generated =>
    \A b \in DOMAIN blocks : \A i \in DOMAIN blocks[b] :
      blocks[b][i].op = "phi" => DOMAIN blocks[b][i].in = Predecessors(b)
=============================================================================
