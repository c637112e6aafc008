------------------------------ MODULE Lowering ------------------------------
(***************************************************************************)
(* The generated code of a function body at work: once the generator is    *)
(* done, its basic blocks are run instruction by instruction.  The         *)
(* environment chooses what a call answers; MaxCalls bounds the number of  *)
(* calls of a run.                                                         *)
(***************************************************************************)
EXTENDS CodeGen

CONSTANT MaxCalls

VARIABLES
  pc,        \* the current block and the next instruction in it
  from,      \* the block that control came from
  env,       \* the values computed so far
  slot,      \* the values ret_value may hold: all of them before a store
  answers, last, result   \* as in TreeRun

runVars == <<pc, from, env, slot, answers, last, result>>
vars == <<genVars, runVars>>

Init ==
  /\ GenInit
  /\ pc = <<ENTRY, 1>>
  /\ from = ENTRY
  /\ env = <<>>
  /\ slot = BOOLEAN
  /\ answers = <<>> /\ last = <<>> /\ result = {}

Instr == blocks[pc[1]][pc[2]]

Advance == pc' = <<pc[1], pc[2] + 1>> /\ UNCHANGED from

Jump(b) == pc' = <<b, 1>> /\ from' = pc[1]

Define(dst, v) == env' = [r \in DOMAIN env \cup {dst} |-> IF r = dst THEN v ELSE env[r]]

Call ==
  /\ Instr.op = "call"
  /\ Len(answers) < MaxCalls
  /\ \E answer \in BOOLEAN :
       /\ answers' = Append(answers, answer)
       /\ Define(Instr.dst, answer)
  /\ last' = Instr.dst
  /\ Advance
  /\ UNCHANGED <<slot, result>>

Branch ==
  /\ Instr.op = "br"
  /\ \E b \in Instr.to : Jump(b)
  /\ UNCHANGED <<env, slot, answers, last, result>>

ConditionalBranch ==
  /\ Instr.op = "condbr"
  /\ Jump(IF env[Instr.val] THEN Instr.yes ELSE Instr.no)
  /\ UNCHANGED <<env, slot, answers, last, result>>

Select ==
  /\ Instr.op = "phi"
  /\ from \in DOMAIN Instr.in
  /\ Define(Instr.dst, env[Instr.in[from]])
  /\ Advance
  /\ UNCHANGED <<slot, answers, last, result>>

Store ==
  /\ Instr.op = "store"
  /\ slot' = {env[Instr.val]}
  /\ Advance
  /\ UNCHANGED <<env, answers, last, result>>

Return ==
  /\ Instr.op = "ret"
  /\ result = {}
  /\ result' = slot
  /\ UNCHANGED <<pc, from, env, slot, answers, last>>

Run == Call \/ Branch \/ ConditionalBranch \/ Select \/ Store \/ Return

Next ==
  \/ GenNext /\ UNCHANGED runVars
  \/ Generated /\ Run /\ UNCHANGED genVars

Spec == Init /\ [][Next]_vars /\ WF_vars(Next)

-----------------------------------------------------------------------------
\* A function that passes the control-flow check never returns the
\* uninitialised ret_value: each of its paths returns a value.
EveryPathReturns == result = BOOLEAN => ~ Accepted(prog)
=============================================================================
