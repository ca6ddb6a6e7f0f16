--------------------------- MODULE MCExecutionPage ---------------------------
(* Model values for the model checking of ExecutionPage. *)
EXTENDS ExecutionPage, TLC

Symmetry == Permutations(Executions) \cup Permutations(Marks)
=============================================================================
