--------------------------- MODULE MCLoginAttempts ---------------------------
(***************************************************************************)
(* An instance of LoginAttempts for TLC.  Liveness is checked in it, so    *)
(* that the request slots, though alike, are not declared symmetric.       *)
(***************************************************************************)
EXTENDS LoginAttempts, TLC
===============================================================================
