------------------------------- MODULE Policy -------------------------------
(***************************************************************************)
(* The policy a service builds at import (entitlement/enforcer.py) and the *)
(* checks that may refuse it (entitlement/flatness.py).                    *)
(*                                                                         *)
(* Grants, entitlements and service-plane peers are all plain names to the *)
(* policy engine, which links a name to itself and chains the g rows as    *)
(* far as they go.  What the checks are for is that a policy they accept   *)
(* is two hops deep all the same: grant or peer, entitlement, capability.  *)
(***************************************************************************)
EXTENDS Naturals, FiniteSets

CONSTANTS
    Name,        \* grants, entitlements and peers: strings to casbin
    Capability,  \* the capabilities the registry has a row for
    OnboardingGrant, CustomerGrant  \* the two grants the code names

\* One row of the platform's grant register (GrantRow).
GrantRow ==
    [actor : {"CUSTOMER", "OPERATOR"}, kind : {"self", "subject", "unbound"},
     bound : {"optional", "required"}]

(***************************************************************************)
(* A policy, as build_enforcer and verify_policy are given it: the         *)
(* capability registry, normalised (no row is empty); the expansion of     *)
(* grants; the peers' rows; the grant register; and whether the host       *)
(* passes the register's names to verify_policy.                           *)
(***************************************************************************)
Table(f, T) == DOMAIN f \subseteq Name /\ f \in [DOMAIN f -> T]

IsPolicy(pol) ==
    /\ pol.opens \in [Capability -> SUBSET Name]
    /\ Table(pol.expansion, SUBSET Name)
    /\ Table(pol.peers, SUBSET Name)
    /\ Table(pol.grants, GrantRow)
    /\ pol.checked \in BOOLEAN

\* normalise_registry and build_enforcer: refused at import.
Buildable(pol) ==
    /\ \A c \in Capability : pol.opens[c] # {}
    /\ OnboardingGrant \in DOMAIN pol.grants

(***************************************************************************)
(* The engine: build_enforcer writes a p row per entitlement and           *)
(* capability and a g row per entry of the expansion and of the peers; the *)
(* default role manager links what those g rows reach, and every name to   *)
(* itself.                                                                 *)
(***************************************************************************)
GRow(pol, a, b) ==
    \/ a \in DOMAIN pol.expansion /\ b \in pol.expansion[a]
    \/ a \in DOMAIN pol.peers /\ b \in pol.peers[a]

Linked(pol, a, b) ==
    \A S \in SUBSET Name :
        a \in S /\ (\A x \in S, y \in Name : GRow(pol, x, y) => y \in S) => b \in S

Enforce(pol, subject, c) == \E e \in pol.opens[c] : Linked(pol, subject, e)

AllowsPeer(pol, peer, c) == peer \in DOMAIN pol.peers /\ Enforce(pol, peer, c)

(***************************************************************************)
(* verify_policy.                                                          *)
(***************************************************************************)
Rows(f) == UNION {f[x] : x \in DOMAIN f}

Opening(pol) == UNION {pol.opens[c] : c \in Capability}

\* A mutant of the next check: without the third shape.
ChainsOnly(pol) ==
    DOMAIN pol.expansion \cap Rows(pol.expansion) = {}

\* Self-links are among the names on both sides.
CheckFlatness(pol) ==
    /\ DOMAIN pol.expansion \cap Rows(pol.expansion) = {}
    /\ DOMAIN pol.expansion \cap Opening(pol) = {}

CheckGrantsRegistered(pol) == DOMAIN pol.expansion \subseteq DOMAIN pol.grants

CheckRegisterDisjoint(pol) == DOMAIN pol.grants \cap Opening(pol) = {}

\* The register is only known to the check where it was passed.
Grants(pol) ==
    DOMAIN pol.expansion \cup IF pol.checked THEN DOMAIN pol.grants ELSE {}

CheckPeers(pol) ==
    LET names == DOMAIN pol.peers IN
    /\ names \cap Grants(pol) = {}
    /\ names \cap (Opening(pol) \cup Rows(pol.expansion)) = {}
    /\ Rows(pol.peers) \cap (names \cup Grants(pol)) = {}
    /\ Rows(pol.peers) \subseteq Opening(pol)

VerifyPolicy(pol) ==
    /\ CheckFlatness(pol)
    /\ pol.checked => CheckGrantsRegistered(pol) /\ CheckRegisterDisjoint(pol)
    /\ DOMAIN pol.peers # {} => CheckPeers(pol)

-----------------------------------------------------------------------------
(***************************************************************************)
(* What an accepted policy means.  A holder's own row decides, and nothing *)
(* that row's entitlements might themselves lead to.                       *)
(***************************************************************************)
RowOpens(f, x, c, pol) ==
    x \in DOMAIN f /\ f[x] \cap pol.opens[c] # {}

\* Exactly two hops: an expanded grant, a peer and an entitlement open what
\* their own rows say; and with the register at hand, so does every grant of
\* it, expanded or not.
TwoHopPolicy(pol) ==
    \A c \in Capability :
        /\ \A g \in DOMAIN pol.expansion :
               Enforce(pol, g, c) <=> RowOpens(pol.expansion, g, c, pol)
        /\ \A p \in DOMAIN pol.peers :
               AllowsPeer(pol, p, c) <=> RowOpens(pol.peers, p, c, pol)
        /\ \A e \in Opening(pol) : Enforce(pol, e, c) <=> e \in pol.opens[c]
        /\ pol.checked => \A g \in DOMAIN pol.grants :
               Enforce(pol, g, c) <=> RowOpens(pol.expansion, g, c, pol)
=============================================================================
