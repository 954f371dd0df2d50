------------------------ MODULE MCOperationProgress ------------------------
(* Two workers share the handle of one task. *)
EXTENDS OperationProgress, TLC

CONSTANTS w1, w2, t1
MCTaskOf == (w1 :> t1) @@ (w2 :> t1)
=============================================================================
