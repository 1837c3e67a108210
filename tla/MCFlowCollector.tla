--------------------------- MODULE MCFlowCollector ---------------------------
(* Small instances of FlowCollector for TLC. *)
EXTENDS FlowCollector, TLC

Symmetry == Permutations(Flows)
=============================================================================
