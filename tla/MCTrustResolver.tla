--------------------------- MODULE MCTrustResolver ---------------------------
(***************************************************************************)
(* TrustResolver's model values for TLC.                                   *)
(***************************************************************************)
EXTENDS TrustResolver, TLC

\* Requests are interchangeable: nothing orders them.
Symmetry == Permutations(Requests)

\* The workers' settings: all strict, or some of them already and some not yet.
AllStrict == {TRUE}
Mixed == BOOLEAN

\* Auth names the token from the start; or it is still rolling current_jti out.
Named == {0}
RollingOut == {0, Null, Absent}
=============================================================================
