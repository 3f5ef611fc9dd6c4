---------------------------- MODULE MCCredentials ----------------------------
(***************************************************************************)
(* An instance of Credentials: each behaviour follows one plane, and the   *)
(* instance is the sum of the three.                                       *)
(***************************************************************************)
EXTENDS Credentials

CONSTANTS k1, w1, w2, cn1, cn2, x1, x2, c1, typo, pa, pb, e1, ob, cg

\* The parts share no state, so one at a time loses nothing.
MCFollowing == {{"tokens"}, {"callbacks"}, {"eastwest"}}
MCEastWestOnly == {{"eastwest"}}
-----------------------------------------------------------------------------
\* Tokens.  Two ticks to a second: an exp and an iat between two seconds, a
\* lifetime at its longest and one past it, each check failed alone and the
\* ones after exp failed by a token that has expired as well.
Tk(ours, i, n, e) ==
    [kid |-> k1, signer |-> k1, complete |-> TRUE, named |-> TRUE, ours |-> ours,
     text |-> FALSE, iat |-> i, nbf |-> n, exp |-> e, claims |-> {"sub", "jti", "grants"}]

Good == Tk(TRUE, 3, None, 4)
MCGarbled == [Good EXCEPT !.kid = None]

MCPresentable ==
    {MCGarbled, Good, Tk(FALSE, 0, None, 2), Tk(TRUE, 1, 3, 5), Tk(TRUE, 2, None, 7),
     Tk(TRUE, 0, None, 7), [Good EXCEPT !.signer = None], [Good EXCEPT !.complete = FALSE],
     [Good EXCEPT !.named = FALSE], [Good EXCEPT !.text = TRUE],
     [Good EXCEPT !.claims = {"sub", "jti", "type"}]}

Reads(h, s) == [header |-> h, scheme |-> s]

Auth(k, s, l, b) ==
    [kind |-> k, selector |-> s, loads |-> l, forwards |-> {"sid", "type"}, bound |-> b]

MCAuthenticators ==
    {Auth("jwt", Reads("Authorization", "Bearer"), "claims", FALSE),
     Auth("jwt", Reads("Authorization", "Bearer"), "class", TRUE),
     Auth("jwt", Reads("Statement", None), "host", FALSE),
     Auth("boolean", Reads("Authorization", "Bearer"), "class", FALSE),
     Auth("reference", Reads("Authorization", "Bearer"), "claims", TRUE)}

Holding(h, s, t) ==
    [x \in {"Authorization", "Statement"} |->
        IF x = h THEN [scheme |-> s, token |-> t] ELSE None]

MCHeaders ==
    {Holding("Authorization", s, Good) : s \in {"Basic", None}}
    \cup {Holding("Statement", "Bearer", Good)}
    \cup {Holding("Authorization", "Bearer", t) : t \in MCPresentable}
    \cup {Holding("Statement", None, t) : t \in {MCGarbled, Good}}

MCReferenced == {Good}
-----------------------------------------------------------------------------
\* Callbacks.  One body is another's beginning; 4 is stamped in the future.
MCBodies == {<< >>, <<2>>, <<2, 9>>, <<4>>}

Wiring(w, l, t) == [wrapped |-> w, limit |-> l, windowed |-> t]

MCSetups == {Wiring(TRUE, None, TRUE), Wiring(TRUE, 1, FALSE), Wiring(FALSE, None, TRUE)}
-----------------------------------------------------------------------------
\* The service plane.  Peer pa may open c1, pb nothing; typo is no capability.
MCName == {pa, pb, e1, ob, cg}

Policy1 ==
    [opens |-> [c \in {c1} |-> {e1}], expansion |-> [g \in {cg} |-> {e1}],
     peers |-> [p \in {pa, pb} |-> IF p = pa THEN {e1} ELSE {}],
     grants |-> [g \in {ob, cg} |->
                    [actor |-> "CUSTOMER", kind |-> "self", bound |-> "optional"]],
     checked |-> TRUE]

ARow(cn, kind, peer, caps, scopes) ==
    [cn |-> cn, kind |-> kind, source |-> peer, capabilities |-> caps, scopes |-> scopes]

MCRows ==
    {<<r, s>> : r \in {ARow(cn1, k, p, cs[1], cs[2]) :
                          k \in {"SERVICE", "CALLBACK", "servce"}, p \in {pa, pb, cg},
                          cs \in {<<None, None>>, <<{c1}, None>>, <<None, {typo}>>, <<{c1}, {}>>}},
                s \in {ARow(cn1, "SERVICE", pb, {}, None), ARow(cn2, "SERVICE", pa, None, {c1})}}

MCDeployments ==
    {[rows |-> rs, policy |-> Policy1, peers |-> p, enforced |-> e, callback |-> cb,
      demand |-> d] :
        rs \in MCRows, p \in BOOLEAN, e \in BOOLEAN, cb \in BOOLEAN, d \in {c1, typo}}
=============================================================================
