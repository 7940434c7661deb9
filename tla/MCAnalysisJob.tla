---------------------------- MODULE MCAnalysisJob ----------------------------
(***************************************************************************)
(* Instances of AnalysisJob for TLC.                                       *)
(***************************************************************************)
EXTENDS AnalysisJobProperties, TLC

\* Pool processes are interchangeable, and so are request handlers. Sound for
\* safety only; the liveness runs do not use it.
Symmetry == Permutations(Workers) \cup Permutations(Requests)
=============================================================================
