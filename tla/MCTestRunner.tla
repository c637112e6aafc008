---------------------------- MODULE MCTestRunner ----------------------------
EXTENDS TestRunner

\* A test that succeeds, one that fails, one that crashes, and one that exits
\* before its end with and without a trace of it.
MCEndings ==
  {[sent |-> "success", exit |-> 0, noisy |-> FALSE], [sent |-> "failed", exit |-> 0, noisy |-> FALSE],
   [sent |-> "none", exit |-> 11, noisy |-> TRUE],
   [sent |-> "undone", exit |-> 1, noisy |-> FALSE], [sent |-> "undone", exit |-> 0, noisy |-> FALSE]}
=============================================================================
