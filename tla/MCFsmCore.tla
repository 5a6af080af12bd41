----------------------------- MODULE MCFsmCore -----------------------------
(* Model checking the core of the automaton editor.  Nothing in FsmCore     *)
(* tells two names or two input characters apart: both sets are symmetric.  *)
EXTENDS FsmCore

Symmetry == Permutations(Names) \cup Permutations(Inputs)

============================================================================
