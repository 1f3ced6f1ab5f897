--------------------------- MODULE MCCompletionQueue ---------------------------
(* The ring with every size up to MaxCqe and three distinguishable entries. *)
EXTENDS CompletionQueue
================================================================================
