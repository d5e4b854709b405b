----------------------------- MODULE MCWorkflow -----------------------------
(* Workflow for TLC: two boards with a posting each, of one source or two. *)
EXTENDS Workflow, TLC

CONSTANTS r1, r2, j1, j2, b1, b2, greenhouse, lever

OneJobEach == (j1 :> b1) @@ (j2 :> b2)
TwoSources == (b1 :> greenhouse) @@ (b2 :> lever)
OneSource == (b1 :> greenhouse) @@ (b2 :> greenhouse)
=============================================================================
