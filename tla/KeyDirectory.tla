---------------------------- MODULE KeyDirectory ----------------------------
(***************************************************************************)
(* What a verifier is promised of the issuer's keys (identity/jwks.py,     *)
(* JWKSStore.get_key): its lookups read, one after another, one directory  *)
(* that goes by one of the issuer's documents and never back to an older   *)
(* one.  Fetches, the lock, pollers and cancellations are not visible.     *)
(***************************************************************************)
EXTENDS Integers, Sequences

CONSTANTS
    None, Kids, PinnedKids,
    FetchTimeout,  \* how far behind the issuer a renewal may be
    Lag            \* and a key that is served without one

VARIABLES
    now,
    published,  \* the issuer's documents; the last one is current
    view,       \* the document the directory goes by, Nothing, or Pinned
    static,     \* whether it was pinned
    answer      \* to the lookup of the last step, or NoAnswer

Nothing == 0
Pinned == -1
NoAnswer == [kid |-> None]

Current == Len(published)

\* Document v was the issuer's current one at some instant of the last d.
Within(v, d) == v = Current \/ now - published[v + 1].since <= d

KidsOf(v) ==
    IF v = Pinned THEN PinnedKids
    ELSE IF v = Nothing THEN {}
    ELSE published[v].kids

Init ==
    /\ now = 0
    /\ Len(published) = 1
    /\ view = Nothing /\ static = FALSE
    /\ answer = NoAnswer

IssuerRotates ==
    /\ Len(published') = Current + 1
    /\ \A v \in 1..Current : published'[v] = published[v]
    /\ published'[Current + 1].since = now
    /\ answer' = NoAnswer
    /\ UNCHANGED <<now, view, static>>

Tick ==
    /\ now' = now + 1 /\ answer' = NoAnswer
    /\ UNCHANGED <<published, view, static>>

Pin ==
    /\ view' = Pinned /\ static' = TRUE /\ answer' = NoAnswer
    /\ UNCHANGED <<now, published>>

\* The directory goes by a document of at least this version from now on.
Renew(least) ==
    \E v \in least..Current : /\ view \in Nat => view <= v
                              /\ Within(v, FetchTimeout)
                              /\ view' = v

\* What the directory says of the kid of a question put at version began.
Says(kid, began, refreshed) ==
    answer' = [kid |-> kid, began |-> began, refreshed |-> refreshed,
               found |-> kid \in KidsOf(view')]

\* A lookup asks the issuer, and its answer is no older than the question; or it
\* is told that the issuer failed; or a key of before is good enough.  Nobody is
\* told that there is no such key without the issuer having been asked.
Lookup(kid, began) ==
    \/ Says(kid, began, "yes") /\ Renew(began)
    \/ Says(kid, began, "failed") /\ UNCHANGED view
    \/ /\ Says(kid, began, "no") /\ UNCHANGED view
       /\ static \/ (kid \in KidsOf(view) /\ Within(view, Lag))

Serve ==
    /\ \/ \E kid \in Kids, began \in 1..Current : Lookup(kid, began)
       \/ answer' = NoAnswer /\ (UNCHANGED view \/ Renew(1))
    /\ UNCHANGED <<now, published, static>>

Next == IssuerRotates \/ Tick \/ Pin \/ Serve

Spec == Init /\ [][Next]_<<now, published, view, static, answer>>
=============================================================================
