-------------------------- MODULE MCControlFlowRefs -------------------------
EXTENDS ControlFlowRefs
=============================================================================
