---------------------------- MODULE MCAuthSession ----------------------------
(***************************************************************************)
(* Instances of AuthSession for TLC.                                       *)
(***************************************************************************)
EXTENDS AuthSession, TLC

\* Requests and browsers are interchangeable; every property is a safety one.
Symmetry == Permutations(Requests) \cup Permutations(Browsers)
=============================================================================
