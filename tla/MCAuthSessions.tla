---------------------------- MODULE MCAuthSessions ----------------------------
(***************************************************************************)
(* Instances of AuthSessions for TLC.  Session ids, reset tokens, request  *)
(* slots and users only ever stand for themselves, so any of them may be   *)
(* permuted; the liveness run uses no symmetry.                            *)
(***************************************************************************)
EXTENDS AuthSessions, TLC

Symmetry ==
  Permutations(Sessions) \cup Permutations(Requests) \cup Permutations(Tokens)
===============================================================================
