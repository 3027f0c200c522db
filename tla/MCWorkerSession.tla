--------------------------- MODULE MCWorkerSession ---------------------------
(***************************************************************************)
(* Three lines and a channel of one slot: a line may be refused for lack   *)
(* of room with lines before and after it, and Eof may be.                 *)
(***************************************************************************)
EXTENDS WorkerSession

=============================================================================
