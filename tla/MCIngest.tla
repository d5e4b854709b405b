------------------------------ MODULE MCIngest ------------------------------
(* Ingest for TLC: two boards of one source, one of another, two threads.  *)
EXTENDS Ingest, TLC

CONSTANTS w1, w2, b1, b2, b3, greenhouse, lever

MCSourceOf == (b1 :> greenhouse) @@ (b2 :> greenhouse) @@ (b3 :> lever)
=============================================================================
