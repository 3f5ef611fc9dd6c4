------------------------------ MODULE EastWest ------------------------------
(***************************************************************************)
(* The service plane: the allow list a service builds when it starts       *)
(* (eastwest/verifier.py), the certificate that each connection's requests *)
(* are stamped with (eastwest/mtls.py), and the hooks of a route that      *)
(* peers call, require_service_capability and require_callback             *)
(* (adapters/hooks.py), over the policy of module Policy.                  *)
(*                                                                         *)
(* Whether build_allow_list is given the peers and whether the hook is     *)
(* given the enforcer are two arguments in two places: any of the four     *)
(* combinations may be deployed.  A certificate is its Common Name; None   *)
(* stands for no certificate and for one that names nobody.                *)
(***************************************************************************)
EXTENDS Policy, Selectors, Sequences

CONSTANTS
    CommonNames,
    Connections,
    Demands,     \* the capabilities routes demand and rows list, known or not
    Deployments  \* the configurations a service may be started with

EastWestKinds == {"SERVICE", "CALLBACK"}

\* A row as it is written: its kind may be anything, capabilities and the old
\* name scopes may be missing.  source is a string, as a peer's name is.
AllowRow ==
    [cn : CommonNames, kind : STRING, source : Name,
     capabilities : (SUBSET Demands) \cup {None},
     scopes : (SUBSET Demands) \cup {None}]

\* rows, in their order; peers: build_allow_list(peers=enforcer.peers);
\* enforced: the hook's enforcer=; callback: the route wears require_callback.
IsDeployment(d) ==
    /\ d.rows \in Seq(AllowRow) /\ IsPolicy(d.policy)
    /\ d.peers \in BOOLEAN /\ d.enforced \in BOOLEAN /\ d.callback \in BOOLEAN
    /\ d.demand \in Demands

ASSUME EastWestAssumption ==
    /\ None \notin CommonNames
    /\ Capability \subseteq Demands
    /\ \A d \in Deployments : d # None /\ IsDeployment(d)

VARIABLES
    deployed,  \* the configuration, None before the service starts
    serving,   \* whether it did start
    allow,     \* the allow list: a principal for each CN
    chain,     \* history: the certificate each connection's handshake verified
    captured,  \* _peer_cert_der of each connection's protocol object
    stamped,   \* the certificate in the scope of the request in progress
    from,      \* history: the certificate of the connection it came on
    gate,      \* where it stands before its hook, or the hook's answer
    caller     \* the principal on its context, or None

hook == <<stamped, from, gate, caller>>
eastWestVars == <<deployed, serving, allow, chain, captured, hook>>

Answered == {"missing_cert", "unknown_cn", "missing_capability", "handler"}

EastWestInit ==
    /\ deployed = None /\ serving = FALSE /\ allow = << >>
    /\ chain = [c \in Connections |-> None] /\ captured = [c \in Connections |-> None]
    /\ stamped = None /\ from = None /\ gate = "idle" /\ caller = None

(***************************************************************************)
(* Start-up.                                                               *)
(***************************************************************************)
Written(row) ==
    IF row.capabilities # None THEN row.capabilities
    ELSE IF row.scopes # None THEN row.scopes ELSE {}

\* A mutant of the next: a second row for a CN takes the place of the first.
MisreadLastWins(d, i) ==
    LET row == d.rows[i] IN
    \/ row.kind \notin EastWestKinds
    \/ row.capabilities # None /\ row.scopes # None
    \/ d.peers /\ row.kind = "SERVICE" /\ row.source \notin DOMAIN d.policy.peers

\* What build_allow_list refuses a row for.
Misread(d, i) ==
    LET row == d.rows[i] IN
    \/ row.kind \notin EastWestKinds
    \/ row.capabilities # None /\ row.scopes # None
    \/ \E j \in 1 .. i - 1 : d.rows[j].cn = row.cn
    \/ d.peers /\ row.kind = "SERVICE" /\ row.source \notin DOMAIN d.policy.peers

\* Capabilities left in a row are dropped where the policy decides.
PrincipalOf(d, row) ==
    [cn |-> row.cn, kind |-> row.kind, source |-> row.source,
     capabilities |-> IF d.peers THEN {} ELSE Written(row)]

\* A dict: under one key the last row stays.
AllowList(d) ==
    [cn \in {d.rows[i].cn : i \in DOMAIN d.rows} |->
        LET last == CHOOSE i \in DOMAIN d.rows :
                        /\ d.rows[i].cn = cn
                        /\ \A j \in DOMAIN d.rows : d.rows[j].cn = cn => j <= i
        IN  PrincipalOf(d, d.rows[last])]

\* The policy is built and verified at import, and there the hook asks the
\* enforcer whether it knows the route's capability.
Starts(d) ==
    /\ Buildable(d.policy) /\ VerifyPolicy(d.policy)
    /\ d.enforced /\ ~d.callback => d.demand \in Capability
    /\ \A i \in DOMAIN d.rows : ~Misread(d, i)

Start ==
    /\ deployed = None
    /\ deployed' \in Deployments
    /\ serving' = Starts(deployed')
    /\ allow' = IF serving' THEN AllowList(deployed') ELSE allow
    /\ UNCHANGED <<chain, captured, hook>>

-----------------------------------------------------------------------------
(***************************************************************************)
(* Connections and requests.  A connection is a protocol object of its     *)
(* own; each request of it, pipelined ones too, has a scope of its own,    *)
(* and its task may outlive the connection.                                *)
(***************************************************************************)
\* A mutant of the next: the certificate is kept on the class.
CaptureShared(c, cert) == [x \in Connections |-> cert]

Capture(c, cert) == [captured EXCEPT ![c] = cert]

Connect(c) ==
    /\ serving
    /\ \E cert \in CommonNames \cup {None} :
          chain' = [chain EXCEPT ![c] = cert] /\ captured' = Capture(c, cert)
    /\ UNCHANGED <<deployed, serving, allow, hook>>

Begin(c) ==
    /\ serving /\ gate # "begun"
    /\ stamped' = captured[c] /\ from' = chain[c]
    /\ gate' = "begun" /\ caller' = None
    /\ UNCHANGED <<deployed, serving, allow, chain, captured>>

\* require_capability, or the enforcer's word; require_callback asks nothing.
Admits(p) ==
    \/ deployed.callback
    \/ /\ ~deployed.callback /\ ~deployed.enforced
       /\ deployed.demand \in p.capabilities
    \/ /\ ~deployed.callback /\ deployed.enforced
       /\ p.kind = "SERVICE" /\ AllowsPeer(deployed.policy, p.source, deployed.demand)

Hook ==
    /\ gate = "begun"
    /\ IF stamped = None THEN gate' = "missing_cert" /\ UNCHANGED caller
       ELSE IF stamped \notin DOMAIN allow THEN gate' = "unknown_cn" /\ UNCHANGED caller
       ELSE IF ~Admits(allow[stamped]) THEN gate' = "missing_capability" /\ UNCHANGED caller
       ELSE gate' = "handler" /\ caller' = allow[stamped]
    /\ UNCHANGED <<deployed, serving, allow, chain, captured, stamped, from>>

EastWestNext == Start \/ (\E c \in Connections : Connect(c) \/ Begin(c)) \/ Hook

EastWestSpec == EastWestInit /\ [][EastWestNext]_eastWestVars
-----------------------------------------------------------------------------
(***************************************************************************)
(* Properties.                                                             *)
(***************************************************************************)
\* What the configuration says that a row's peer may do.  A route of vendors'
\* calls is open to whoever is known; any other to SERVICE rows alone: in policy
\* mode by the peer's own row of the policy; in allow-list mode by what the row
\* lists, under either name; and not at all where the two arguments disagree,
\* the capabilities being dropped and the policy not asked.
RowMayOpen(d, row) ==
    \/ d.callback
    \/ /\ ~d.callback /\ row.kind = "SERVICE" /\ d.enforced
       /\ RowOpens(d.policy.peers, row.source, d.demand, d.policy)
    \/ /\ ~d.callback /\ row.kind = "SERVICE" /\ ~d.enforced /\ ~d.peers
       /\ d.demand \in Written(row)

\* Where a row's kind is heeded: a hook that goes by capabilities alone does not
\* tell a SERVICE row from a CALLBACK one.
KindCounts(d, row) == row.kind = "SERVICE" \/ d.enforced \/ d.callback

\* In every configuration that starts, a route opens to a known peer exactly
\* where its own row opens it, whatever order the rows are in and however the
\* policy chains; and the peer is the one whose certificate the request's own
\* connection was opened with (C-018, C-056).  CALLBACK rows under a hook that
\* asks no policy are left to the next property.
PeerOpensItsOwn ==
    gate \in Answered =>
        /\ \A i \in DOMAIN deployed.rows :
               LET row == deployed.rows[i] IN
               row.cn = from /\ KindCounts(deployed, row) =>
                   (gate = "handler" <=> RowMayOpen(deployed, row))
        /\ gate = "handler" =>
               caller.cn = from /\ \E i \in DOMAIN deployed.rows : deployed.rows[i].cn = from

\* What the documents say besides: a CALLBACK principal on a SERVICE route is
\* refused in both modes (require_service_capability's docstring, EASTWEST.md).
CallbackNeverOpensService ==
    gate = "handler" /\ ~deployed.callback => caller.kind # "CALLBACK"

EastWestTypeOK ==
    /\ deployed \in Deployments \cup {None} /\ serving \in BOOLEAN
    /\ chain \in [Connections -> CommonNames \cup {None}]
    /\ captured \in [Connections -> CommonNames \cup {None}]
    /\ stamped \in CommonNames \cup {None} /\ from \in CommonNames \cup {None}
    /\ gate \in Answered \cup {"idle", "begun"}
    /\ serving => allow = AllowList(deployed)
    /\ caller # None => caller.cn \in CommonNames

(***************************************************************************)
(* The invariant the proofs rest on.                                       *)
(***************************************************************************)
\* A service answers once it has started, on the certificate of the
\* connection a request came on; and what the hook made of it stands.
HookStands ==
    /\ captured = chain /\ stamped = from
    /\ gate # "idle" => serving
    /\ serving => deployed # None /\ Starts(deployed)
    /\ gate \in Answered =>
           (gate = "handler") <=> (stamped \in DOMAIN allow /\ Admits(allow[stamped]))
    /\ gate = "handler" => caller = allow[stamped]

EastWestInv == EastWestTypeOK /\ HookStands
=============================================================================
