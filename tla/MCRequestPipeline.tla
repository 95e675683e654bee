--------------------------- MODULE MCRequestPipeline ---------------------------
(***************************************************************************)
(* An instance of RequestPipeline for TLC.  Liveness is checked in it, so  *)
(* that instances and requests, though alike, are not declared symmetric.  *)
(***************************************************************************)
EXTENDS RequestPipeline, TLC
===============================================================================
