---------------------------- MODULE PolicyProofs ----------------------------
(***************************************************************************)
(* Proof that every policy verify_policy accepts is two hops deep, for any *)
(* names, rows and capabilities, although the engine chains without end.   *)
(***************************************************************************)
EXTENDS Policy, TLAPS

\* A name none of whose successors has a successor reaches itself and those.
LEMMA OneHop ==
    ASSUME NEW pol, NEW a \in Name, NEW b \in Name,
           \A x \in Name, y \in Name : GRow(pol, a, x) => ~GRow(pol, x, y)
    PROVE  Linked(pol, a, b) <=> a = b \/ GRow(pol, a, b)
<1> DEFINE S == {x \in Name : x = a \/ GRow(pol, a, x)}
<1>1. S \in SUBSET Name /\ a \in S
  OBVIOUS
<1>2. ASSUME NEW x \in S, NEW y \in Name, GRow(pol, x, y) PROVE y \in S
  BY <1>2
<1>3. Linked(pol, a, b) => b \in S
  BY <1>1, <1>2 DEF Linked
<1>4. a = b \/ GRow(pol, a, b) => Linked(pol, a, b)
  BY DEF Linked
<1> QED
  BY <1>3, <1>4

LEMMA PolicyFacts ==
    ASSUME NEW pol, IsPolicy(pol)
    PROVE  /\ \A c \in Capability : pol.opens[c] \subseteq Opening(pol)
           /\ Opening(pol) \subseteq Name
           /\ DOMAIN pol.expansion \subseteq Name /\ DOMAIN pol.peers \subseteq Name
           /\ DOMAIN pol.grants \subseteq Name
           /\ \A g \in DOMAIN pol.expansion :
                  pol.expansion[g] \subseteq Rows(pol.expansion)
                  /\ pol.expansion[g] \subseteq Name
           /\ \A p \in DOMAIN pol.peers :
                  pol.peers[p] \subseteq Rows(pol.peers) /\ pol.peers[p] \subseteq Name
<1>1. /\ pol.opens \in [Capability -> SUBSET Name]
      /\ Table(pol.expansion, SUBSET Name) /\ Table(pol.peers, SUBSET Name)
      /\ DOMAIN pol.grants \subseteq Name
  BY DEF IsPolicy, Table
<1> QED
  BY <1>1 DEF Opening, Rows, Table

\* The names that may stand in the middle have no row of their own.
LEMMA MiddlesEnd ==
    ASSUME NEW pol, IsPolicy(pol), VerifyPolicy(pol), NEW x, NEW y,
           \/ x \in Rows(pol.expansion) \/ x \in Rows(pol.peers) \/ x \in Opening(pol)
    PROVE  ~GRow(pol, x, y)
<1>1. x \notin DOMAIN pol.expansion
  <2>1. DOMAIN pol.expansion \cap Rows(pol.expansion) = {}
        /\ DOMAIN pol.expansion \cap Opening(pol) = {}
    BY DEF VerifyPolicy, CheckFlatness
  <2>2. x \in Rows(pol.peers) => x \notin DOMAIN pol.expansion
    <3>1. CASE DOMAIN pol.peers = {}
      BY <3>1 DEF Rows
    <3>2. CASE DOMAIN pol.peers # {}
      BY <3>2 DEF VerifyPolicy, CheckPeers, Grants
    <3> QED
      BY <3>1, <3>2
  <2> QED
    BY <2>1, <2>2
<1>2. x \notin DOMAIN pol.peers
  <2>1. CASE DOMAIN pol.peers = {}
    BY <2>1
  <2>2. CASE DOMAIN pol.peers # {}
    BY <2>2 DEF VerifyPolicy, CheckPeers
  <2> QED
    BY <2>1, <2>2
<1> QED
  BY <1>1, <1>2 DEF GRow

\* So every name reaches itself and what its own rows list.
LEMMA Reach ==
    ASSUME NEW pol, IsPolicy(pol), VerifyPolicy(pol), NEW a \in Name, NEW c \in Capability
    PROVE  Enforce(pol, a, c) <=>
               \E e \in pol.opens[c] : a = e \/ GRow(pol, a, e)
<1>1. ASSUME NEW x \in Name, NEW y \in Name, GRow(pol, a, x) PROVE ~GRow(pol, x, y)
  <2>1. x \in Rows(pol.expansion) \/ x \in Rows(pol.peers)
    BY <1>1 DEF GRow, Rows
  <2> QED
    BY <2>1, MiddlesEnd
<1>2. \A e \in pol.opens[c] : e \in Name
  BY PolicyFacts
<1> QED
  BY <1>1, <1>2, OneHop DEF Enforce

\* A policy that verify_policy accepts is exactly two hops deep.
THEOREM AcceptedIsTwoHops ==
    \A pol : IsPolicy(pol) /\ VerifyPolicy(pol) => TwoHopPolicy(pol)
<1> SUFFICES ASSUME NEW pol, IsPolicy(pol), VerifyPolicy(pol), NEW c \in Capability
             PROVE  /\ \A g \in DOMAIN pol.expansion :
                           Enforce(pol, g, c) <=> RowOpens(pol.expansion, g, c, pol)
                    /\ \A p \in DOMAIN pol.peers :
                           AllowsPeer(pol, p, c) <=> RowOpens(pol.peers, p, c, pol)
                    /\ \A e \in Opening(pol) : Enforce(pol, e, c) <=> e \in pol.opens[c]
                    /\ pol.checked => \A g \in DOMAIN pol.grants :
                           Enforce(pol, g, c) <=> RowOpens(pol.expansion, g, c, pol)
  BY DEF TwoHopPolicy
<1>1. CheckFlatness(pol) /\ (DOMAIN pol.peers # {} => CheckPeers(pol))
  BY DEF VerifyPolicy
<1>2. ASSUME NEW g \in Name, g \notin Opening(pol), g \notin DOMAIN pol.peers
      PROVE  Enforce(pol, g, c) <=> RowOpens(pol.expansion, g, c, pol)
  <2>1. \A e \in pol.opens[c] : g # e
    BY <1>2, PolicyFacts
  <2> QED
    BY <1>2, <2>1, Reach DEF GRow, RowOpens
<1>3. ASSUME NEW g \in DOMAIN pol.expansion
      PROVE  Enforce(pol, g, c) <=> RowOpens(pol.expansion, g, c, pol)
  <2>1. g \in Name /\ g \notin Opening(pol)
    BY <1>1, PolicyFacts DEF CheckFlatness
  <2>2. g \notin DOMAIN pol.peers
    BY <1>1 DEF CheckPeers, Grants
  <2> QED
    BY <1>2, <2>1, <2>2
<1>4. ASSUME NEW p \in DOMAIN pol.peers
      PROVE  AllowsPeer(pol, p, c) <=> RowOpens(pol.peers, p, c, pol)
  <2>1. p \in Name /\ p \notin DOMAIN pol.expansion /\ p \notin Opening(pol)
    BY <1>1, PolicyFacts DEF CheckPeers, Grants
  <2>2. \A e \in pol.opens[c] : p # e
    BY <2>1, PolicyFacts
  <2> QED
    BY <2>1, <2>2, Reach DEF GRow, RowOpens, AllowsPeer
<1>5. ASSUME NEW e \in Opening(pol)
      PROVE  Enforce(pol, e, c) <=> e \in pol.opens[c]
  <2>1. e \in Name /\ \A y : ~GRow(pol, e, y)
    BY MiddlesEnd, PolicyFacts
  <2> QED
    BY <2>1, Reach
<1>6. ASSUME pol.checked, NEW g \in DOMAIN pol.grants
      PROVE  Enforce(pol, g, c) <=> RowOpens(pol.expansion, g, c, pol)
  <2>1. g \in Name /\ g \notin Opening(pol)
    BY <1>6, PolicyFacts DEF VerifyPolicy, CheckRegisterDisjoint
  <2>2. g \notin DOMAIN pol.peers
    BY <1>1, <1>6 DEF CheckPeers, Grants
  <2> QED
    BY <1>2, <2>1, <2>2
<1> QED
  BY <1>3, <1>4, <1>5, <1>6
=============================================================================
