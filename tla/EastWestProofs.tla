--------------------------- MODULE EastWestProofs ---------------------------
(***************************************************************************)
(* Proofs about EastWest, for any certificates, rows and policies: in      *)
(* whatever configuration starts, a route of the service plane opens to    *)
(* exactly the peers whose own row opens it.                               *)
(***************************************************************************)
EXTENDS EastWest, PolicyProofs

\* Of the rows of a service that starts, no two are of one name.
LEMMA OneRowPerName ==
    ASSUME NEW d, IsDeployment(d), Starts(d),
           NEW i \in DOMAIN d.rows, NEW j \in DOMAIN d.rows, d.rows[i].cn = d.rows[j].cn
    PROVE  i = j
<1>1. DOMAIN d.rows = 1 .. Len(d.rows) /\ Len(d.rows) \in Nat
  BY DEF IsDeployment
<1>2. ~Misread(d, i) /\ ~Misread(d, j)
  BY DEF Starts
<1>3. ~(j \in 1 .. i - 1) /\ ~(i \in 1 .. j - 1)
  BY <1>2 DEF Misread
<1> QED
  BY <1>1, <1>3

\* So its allow list holds each row under the row's own name, whatever the
\* order they are in.
LEMMA ListHoldsEachRow ==
    ASSUME NEW d, IsDeployment(d), Starts(d)
    PROVE  /\ \A i \in DOMAIN d.rows :
                  /\ d.rows[i].cn \in DOMAIN AllowList(d)
                  /\ AllowList(d)[d.rows[i].cn] = PrincipalOf(d, d.rows[i])
           /\ \A cn \in DOMAIN AllowList(d) : \E i \in DOMAIN d.rows : d.rows[i].cn = cn
<1> DEFINE Last(cn) == CHOOSE k \in DOMAIN d.rows :
                           /\ d.rows[k].cn = cn
                           /\ \A j \in DOMAIN d.rows : d.rows[j].cn = cn => j <= k
<1>1. DOMAIN d.rows = 1 .. Len(d.rows) /\ Len(d.rows) \in Nat
  BY DEF IsDeployment
<1>2. ASSUME NEW i \in DOMAIN d.rows PROVE Last(d.rows[i].cn) = i
  <2>1. \A j \in DOMAIN d.rows : d.rows[j].cn = d.rows[i].cn => j = i
    BY OneRowPerName
  <2>2. i <= i
    BY <1>1
  <2> QED
    BY <2>1, <2>2
<1>3. AllowList(d) = [cn \in {d.rows[i].cn : i \in DOMAIN d.rows} |->
                         PrincipalOf(d, d.rows[Last(cn)])]
  BY DEF AllowList
<1> HIDE DEF Last
<1> QED
  BY <1>2, <1>3

\* The hook admits a row's peer exactly where the row may open the route, where
\* the row's kind is heeded.
LEMMA HookGoesByTheRow ==
    ASSUME IsDeployment(deployed), Starts(deployed), NEW i \in DOMAIN deployed.rows,
           KindCounts(deployed, deployed.rows[i])
    PROVE  Admits(PrincipalOf(deployed, deployed.rows[i]))
               <=> RowMayOpen(deployed, deployed.rows[i])
<1> DEFINE d == deployed
           row == deployed.rows[i]
<1>1. CASE d.callback
  BY <1>1 DEF Admits, RowMayOpen
<1>2. CASE ~d.callback /\ ~d.enforced
  BY <1>2 DEF Admits, RowMayOpen, PrincipalOf, KindCounts
<1>3. CASE ~d.callback /\ d.enforced
  <2>1. d.demand \in Capability /\ IsPolicy(d.policy) /\ VerifyPolicy(d.policy)
    BY <1>3 DEF Starts, IsDeployment
  <2>2. TwoHopPolicy(d.policy)
    BY <2>1, AcceptedIsTwoHops
  <2>3. AllowsPeer(d.policy, row.source, d.demand)
            <=> RowOpens(d.policy.peers, row.source, d.demand, d.policy)
    <3>1. CASE row.source \in DOMAIN d.policy.peers
      BY <2>1, <2>2, <3>1 DEF TwoHopPolicy
    <3>2. CASE row.source \notin DOMAIN d.policy.peers
      BY <3>2 DEF AllowsPeer, RowOpens
    <3> QED
      BY <3>1, <3>2
  <2>4. PrincipalOf(d, row).kind = row.kind /\ PrincipalOf(d, row).source = row.source
    BY DEF PrincipalOf
  <2> QED
    BY <1>3, <2>3, <2>4 DEF Admits, RowMayOpen
<1> QED
  BY <1>1, <1>2, <1>3

-----------------------------------------------------------------------------
LEMMA EastWestStart == EastWestInit => EastWestInv
BY EastWestAssumption
   DEF EastWestInit, EastWestInv, EastWestTypeOK, HookStands, Answered

LEMMA StartStep ==
    ASSUME EastWestInv, Start
    PROVE  EastWestInv'
<1> USE EastWestAssumption DEF EastWestInv, hook
<1>1. /\ deployed = None /\ ~serving /\ gate = "idle"
      /\ deployed' \in Deployments /\ deployed' # None
      /\ serving' = Starts(deployed') /\ serving' \in BOOLEAN
      /\ serving' => allow' = AllowList(deployed')
      /\ UNCHANGED <<chain, captured, stamped, from, gate, caller>>
  BY DEF Start, HookStands, Starts
<1>2. EastWestTypeOK'
  BY <1>1 DEF EastWestTypeOK
<1>3. HookStands'
  BY <1>1 DEF HookStands, Answered
<1> QED
  BY <1>2, <1>3

LEMMA ConnectStep ==
    ASSUME EastWestInv, NEW c \in Connections, Connect(c)
    PROVE  EastWestInv'
<1> USE EastWestAssumption DEF EastWestInv, hook
<1>1. PICK cert \in CommonNames \cup {None} :
          chain' = [chain EXCEPT ![c] = cert] /\ captured' = Capture(c, cert)
  BY DEF Connect
<1>2. UNCHANGED <<deployed, serving, allow, stamped, from, gate, caller>>
  BY DEF Connect
<1>3. chain' \in [Connections -> CommonNames \cup {None}] /\ captured' = chain'
  BY <1>1 DEF EastWestTypeOK, HookStands, Capture
<1>4. EastWestTypeOK'
  BY <1>2, <1>3 DEF EastWestTypeOK
<1>5. HookStands'
  BY <1>2, <1>3 DEF HookStands, Admits
<1> QED
  BY <1>4, <1>5

LEMMA BeginStep ==
    ASSUME EastWestInv, NEW c \in Connections, Begin(c)
    PROVE  EastWestInv'
<1> USE EastWestAssumption DEF EastWestInv, hook
<1>1. /\ UNCHANGED <<deployed, serving, allow, chain, captured>>
      /\ serving /\ gate' = "begun" /\ caller' = None
      /\ stamped' = captured[c] /\ from' = chain[c]
  BY DEF Begin
<1>2. stamped' = from' /\ stamped' \in CommonNames \cup {None}
  BY <1>1 DEF EastWestTypeOK, HookStands
<1>3. EastWestTypeOK'
  BY <1>1, <1>2 DEF EastWestTypeOK
<1>4. HookStands'
  BY <1>1, <1>2 DEF HookStands, Answered
<1> QED
  BY <1>3, <1>4

LEMMA HookStep ==
    ASSUME EastWestInv, Hook
    PROVE  EastWestInv'
<1> USE EastWestAssumption DEF EastWestInv, hook
<1>1. /\ UNCHANGED <<deployed, serving, allow, chain, captured, stamped, from>>
      /\ serving /\ deployed \in Deployments /\ deployed # None
      /\ Starts(deployed) /\ allow = AllowList(deployed)
      /\ stamped \in CommonNames \cup {None}
  BY DEF Hook, HookStands, EastWestTypeOK
<1>2. IsDeployment(deployed)
  BY <1>1
<1>3. \A cn \in DOMAIN allow : cn \in CommonNames /\ allow[cn].cn = cn
  <2> SUFFICES ASSUME NEW cn \in DOMAIN allow PROVE cn \in CommonNames /\ allow[cn].cn = cn
    OBVIOUS
  <2>1. PICK i \in DOMAIN deployed.rows : deployed.rows[i].cn = cn
    BY <1>1, <1>2, ListHoldsEachRow
  <2>2. deployed.rows[i] \in AllowRow
    BY <1>2, <2>1 DEF IsDeployment
  <2>3. allow[cn] = PrincipalOf(deployed, deployed.rows[i])
    BY <1>1, <1>2, <2>1, ListHoldsEachRow
  <2> QED
    BY <2>1, <2>2, <2>3 DEF AllowRow, PrincipalOf
<1>4. \/ /\ gate' = "handler" /\ caller' = allow[stamped]
         /\ stamped \in DOMAIN allow /\ Admits(allow[stamped])
      \/ /\ gate' \in {"missing_cert", "unknown_cn", "missing_capability"}
         /\ caller' = caller
         /\ ~(stamped \in DOMAIN allow /\ Admits(allow[stamped]))
  BY <1>1, <1>3 DEF Hook
<1>5. EastWestTypeOK'
  BY <1>1, <1>3, <1>4 DEF EastWestTypeOK, Answered
<1>6. HookStands'
  <2>1. Admits(allow[stamped])' <=> Admits(allow[stamped])
    BY <1>1 DEF Admits
  <2> QED
    BY <1>1, <1>4, <2>1 DEF HookStands, Answered
<1> QED
  BY <1>5, <1>6

LEMMA EastWestStep == EastWestInv /\ [EastWestNext]_eastWestVars => EastWestInv'
<1> SUFFICES ASSUME EastWestInv, [EastWestNext]_eastWestVars PROVE EastWestInv'
  OBVIOUS
<1>1. CASE UNCHANGED eastWestVars
  BY <1>1 DEF eastWestVars, hook, EastWestInv, EastWestTypeOK, HookStands, Admits
<1>2. CASE EastWestNext
  BY <1>2, StartStep, ConnectStep, BeginStep, HookStep DEF EastWestNext
<1> QED
  BY <1>1, <1>2

\* The inductive invariant: each scope carries its own connection's certificate,
\* and a started service runs on an allow list its policy agrees with.
THEOREM HooksStand == EastWestSpec => []EastWestInv
BY EastWestStart, EastWestStep, PTL DEF EastWestSpec

\* A route opens to a known peer exactly where its own row opens it, each known
\* by the certificate of the connection its request came on; CALLBACK rows only
\* where the hook asks the policy, or is a callback's.
THEOREM PeersOpenTheirOwn == EastWestSpec => []PeerOpensItsOwn
<1>1. EastWestInv => PeerOpensItsOwn
  <2> SUFFICES ASSUME EastWestInv, gate \in Answered
               PROVE  /\ \A i \in DOMAIN deployed.rows :
                             /\ deployed.rows[i].cn = from
                             /\ KindCounts(deployed, deployed.rows[i])
                             => (gate = "handler" <=> RowMayOpen(deployed, deployed.rows[i]))
                      /\ gate = "handler" =>
                             /\ caller.cn = from
                             /\ \E i \in DOMAIN deployed.rows : deployed.rows[i].cn = from
    BY DEF PeerOpensItsOwn
  <2> USE EastWestAssumption
  <2>1. /\ IsDeployment(deployed) /\ Starts(deployed) /\ allow = AllowList(deployed)
        /\ stamped = from
        /\ (gate = "handler") <=> (stamped \in DOMAIN allow /\ Admits(allow[stamped]))
        /\ gate = "handler" => caller = allow[stamped]
    BY DEF EastWestInv, EastWestTypeOK, HookStands, Answered
  <2>2. /\ \A i \in DOMAIN deployed.rows :
               /\ deployed.rows[i].cn \in DOMAIN allow
               /\ allow[deployed.rows[i].cn] = PrincipalOf(deployed, deployed.rows[i])
        /\ \A cn \in DOMAIN allow : \E i \in DOMAIN deployed.rows : deployed.rows[i].cn = cn
    BY <2>1, ListHoldsEachRow
  <2>3. ASSUME NEW i \in DOMAIN deployed.rows, deployed.rows[i].cn = from,
               KindCounts(deployed, deployed.rows[i])
        PROVE  gate = "handler" <=> RowMayOpen(deployed, deployed.rows[i])
    <3>1. Admits(PrincipalOf(deployed, deployed.rows[i]))
              <=> RowMayOpen(deployed, deployed.rows[i])
      BY <2>1, <2>3, HookGoesByTheRow
    <3> QED
      BY <2>1, <2>2, <2>3, <3>1
  <2>4. \A i \in DOMAIN deployed.rows :
            PrincipalOf(deployed, deployed.rows[i]).cn = deployed.rows[i].cn
    BY DEF PrincipalOf
  <2>5. gate = "handler" =>
            caller.cn = from /\ \E i \in DOMAIN deployed.rows : deployed.rows[i].cn = from
    BY <2>1, <2>2, <2>4
  <2> QED
    BY <2>3, <2>5
<1> QED
  BY <1>1, HooksStand, PTL
=============================================================================
