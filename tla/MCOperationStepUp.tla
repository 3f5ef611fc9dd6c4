-------------------------- MODULE MCOperationStepUp --------------------------
(***************************************************************************)
(* OperationStepUp for TLC.  Nothing tells the requests, the challenges,   *)
(* the purposes or the bodies apart, and only safety is checked.           *)
(***************************************************************************)
EXTENDS OperationStepUp, TLC

Symmetry ==
    Permutations(Requests) \cup Permutations(Challenges) \cup Permutations(Purposes)
        \cup Permutations(Bodies)
=============================================================================
