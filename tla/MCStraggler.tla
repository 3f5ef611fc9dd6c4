------------------------------ MODULE MCStraggler ------------------------------
(***************************************************************************)
(* TrustResolver with a history variable: when a worker destroyed the copy *)
(* of a session auth had ended.  For the caveat of TrustContextCache.forget*)
(* on a copy written just after that, by a request that had been answered  *)
(* just before.                                                            *)
(***************************************************************************)
EXTENDS MCTrustResolver

CONSTANT Never

VARIABLE destroyed   \* when the copy was first destroyed, or Never

MCVars == <<vars, destroyed>>

MCInit == Init /\ destroyed = Never

MCNext ==
    /\ Next
    /\ destroyed' = IF /\ destroyed = Never
                       /\ \E r \in Requests : pc[r] = "forgetting" /\ pc'[r] = "idle"
                       /\ cache' = NoCopy
                    THEN now ELSE destroyed

MCSpec == MCInit /\ [][MCNext]_MCVars

\* "That copy is then served to routine operations for up to `routine_ttl`"
\* (trustcontext.py:594): once the copy was destroyed for a denial, no request
\* is allowed later than routine_ttl after it.
StragglerServedForRoutineTTL ==
    [][\A r \in Requests : Concludes(r, "allowed") /\ destroyed # Never =>
         now - destroyed <= RoutineTTL]_MCVars
=============================================================================
