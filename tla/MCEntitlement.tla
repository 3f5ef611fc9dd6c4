---------------------------- MODULE MCEntitlement ----------------------------
(***************************************************************************)
(* Instance of Entitlement.  The policies vary what the checks tell apart: *)
(* keys that are also entitlements, expanded names that are keys, peers    *)
(* named like either, an unregistered key, a capability opened by a grant. *)
(***************************************************************************)
EXTENDS Entitlement

CONSTANTS ob, cg, sg, un, os, e1, e2, p1, c1, c2, s1, s2

MCName == {ob, cg, sg, un, os, e1, e2, p1}
MCCapability == {c1, c2}

Row(a, k, b) == [actor |-> a, kind |-> k, bound |-> b]

Register(sgBound) ==
    [g \in {ob, cg, sg, un, os} |->
        CASE g \in {ob, cg} -> Row("CUSTOMER", "self", "required")
          [] g = sg -> Row("CUSTOMER", "subject", sgBound)
          [] g = un -> Row("OPERATOR", "unbound", "required")
          [] g = os -> Row("OPERATOR", "subject", "required")]

Pol(o1, o2, x, p, chk) ==
    [opens |-> [c \in MCCapability |-> IF c = c1 THEN o1 ELSE o2],
     expansion |-> x, peers |-> p, grants |-> Register("required"), checked |-> chk]

One(k, v) == [n \in {k} |-> v]
Two(k, v, l, w) == [n \in {k, l} |-> IF n = k THEN v ELSE w]
Empty == [n \in {} |-> {}]

\* The grants' rows: flat ones, chains by a key, a link or an entitlement.
Expansions ==
    {Empty}
    \cup {One(k, v) : k \in {cg, sg, e1, p1}, v \in {{}, {e1}, {cg}, {e1, e2}}}
    \cup {Two(cg, {e1}, k, v) : k \in {un, e1, e2, p1}, v \in {{e1}, {e2}, {cg}}}

Swept ==
    {Pol(o1, {e2}, x, p, chk) :
        o1 \in {{e1}, {cg}}, x \in Expansions,
        p \in {Empty, One(p1, {e2}), One(p1, {cg}), One(e1, {e2}), One(cg, {e1})},
        chk \in BOOLEAN}

Full == [n \in {ob, cg, sg, un, os} |->
            CASE n = ob -> {} [] n \in {cg, os} -> {e1} [] n \in {sg, un} -> {e2}]

\* As a service would be: and one with an unbounded subject grant, which
\* customers open by its own name, the register unchecked.
Sound == Pol({e1, e2}, {e2}, Full, One(p1, {e2}), TRUE)
Loose == [Pol({e1}, {sg}, One(un, {e1}), Empty, FALSE)
             EXCEPT !.grants = Register("optional")]

MCDeployed == {Sound, Loose}
MCPolicies == Swept \cup MCDeployed

Del(r, g, s, u) == [ref |-> r, grant |-> g, subject |-> s, until |-> u]

Holder(a, k, gs, ds) == [actor |-> a, session |-> k, grants |-> gs, delegations |-> ds]

\* Customers, with the feed's possible defects (a grant of the other actor's,
\* an unregistered one); operators; shadow sessions (one delegation, no grant).
MCPrincipals ==
    {Holder("CUSTOMER", "NORMAL", gs, ds) :
        gs \in {<<ob>>, <<sg, cg>>},
        ds \in {<< >>, <<Del("d1", sg, s1, 1), Del("d2", sg, s1, 2)>>,
                <<Del("d1", sg, s1, None)>>}}
    \cup {Holder("CUSTOMER", "NORMAL", <<un>>, << >>),
          Holder("CUSTOMER", "NORMAL", << >>, <<Del("d1", os, s1, 2)>>)}
    \cup {Holder("OPERATOR", "NORMAL", gs, << >>) : gs \in {<<un>>, <<p1>>}}
    \cup {Holder("OPERATOR", "SHADOW", << >>, <<Del("d1", os, s, 1)>>) : s \in {s1, s2}}

\* Only customers' routes ask for an elevated session.
MCRequests ==
    {r \in [admitted : {{"CUSTOMER"}, {"OPERATOR"}, {"CUSTOMER", "OPERATOR"}},
            subject : {None, s1}, capability : {c1, c2}, elevated : BOOLEAN] :
        r.elevated => r.admitted = {"CUSTOMER"}}

\* An end before, at and past the present; elevations without a readable end;
\* an end that outlived its elevation.
MCTiers ==
    {Plain, [elevated |-> FALSE, until |-> 2]}
    \cup [elevated : {TRUE}, until : {1, 2, None, Unreadable}]
=============================================================================
