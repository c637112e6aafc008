----------------------------- MODULE MCLowering -----------------------------
(***************************************************************************)
(* Every function body of a bounded size.  The two ways in which the code  *)
(* generator and the check fall short (README.md, Deviations) are kept out *)
(* of the bodies of the run.                                               *)
(***************************************************************************)
EXTENDS LoweringTree, SyntaxBodies

NoLazyReturn(n) ==
  \A m \in Subtrees(n) : m.kind \in {"AND", "OR"} => ~ Mentions(Kid(m, 2), {"RETURN"})

AllBodies == Bodies(7)

SoundBodies == {b \in AllBodies : StraightBranches(b) /\ NoLazyReturn(b)}

SoundNodes == UNION {Subtrees(b) : b \in SoundBodies}
SimpleNodes == {n \in SoundNodes : OneBlock(n)}

ASSUME SoundBodies # {} /\ StraightAssumption /\ LazyAssumption
=============================================================================
