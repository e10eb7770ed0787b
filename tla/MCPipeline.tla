----------------------------- MODULE MCPipeline -----------------------------
(* Pipeline for TLC: the batches of bulk actions, and symmetry.            *)
EXTENDS Pipeline, TLC

MCBatches  == {<<a, b>> : a, b \in Applications}
MCSymmetry == Permutations(Applications) \cup Permutations(Stages) \cup Permutations(Requests)
=============================================================================
