--------------------------- MODULE MCWorkerRuntime ---------------------------
(***************************************************************************)
(* WorkerRuntime on a small instance.                                      *)
(***************************************************************************)
EXTENDS WorkerRuntime
=============================================================================
