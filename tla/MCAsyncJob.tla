------------------------------ MODULE MCAsyncJob ------------------------------
(***************************************************************************)
(* Two jobs asked one after the other of one Worker: the first may be      *)
(* given up and finish while the second is awaited.                        *)
(***************************************************************************)
EXTENDS AsyncJob

=============================================================================
