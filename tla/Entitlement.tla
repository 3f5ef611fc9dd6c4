----------------------------- MODULE Entitlement -----------------------------
(***************************************************************************)
(* The user-plane gates, in the order a route wears them: require          *)
(* (adapters/hooks.py), which selects the grants that count                *)
(* (entitlement/grants.py) and asks the policy built and verified at       *)
(* import (module Policy); then require_elevated (assurance/stepup.py),    *)
(* which asks auth itself.                                                 *)
(*                                                                         *)
(* Auth changes a session at any moment, time passes at any moment, and    *)
(* the grants a request is judged by may be a copy the resolver kept: how  *)
(* long it may keep it is module TrustResolver's.                          *)
(***************************************************************************)
EXTENDS Policy, Sequences

CONSTANTS
    None,
    Unreadable,  \* a window that is no date
    Policies,    \* the policies a service may be built with
    Deployed,    \* bound: the ones under which requests are followed
    Principals,  \* what auth may say of a session: who it is and what it holds
    Requests,    \* the routes' demands, and the Subject-Ref they come with
    Tiers,       \* what auth may say of a session's trust
    MaxNow       \* bound: how far the clock runs

\* The refusals, and the handler.
Answers ==
    {"not_admitted", "unavailable", "no_subject", "denied", "onboarding",
     "session_miss", "step_up", "handler"}

\* What auth's answer is refused without: a shadow is an operator that holds
\* one delegation and nothing else.
SchemaRules(p) ==
    p.session = "SHADOW" =>
        p.actor = "OPERATOR" /\ p.grants = << >> /\ Len(p.delegations) = 1

\* A session's trust as auth states it: its level, and until when.  The schema
\* ties neither field to the other, so an elevation may come without an end.
Tier == [elevated : BOOLEAN, until : {None, Unreadable} \cup Nat]

Plain == [elevated |-> FALSE, until |-> None]

ASSUME TiersAssumption == Plain \in Tiers /\ Tiers \subseteq Tier
ASSUME PrincipalsAssumption ==
    \A p \in Principals :
        SchemaRules(p) /\ DOMAIN p = {"actor", "session", "grants", "delegations"}
\* A route of the user plane admits these (module Planes: Admissible).
ASSUME RequestsAssumption ==
    \A r \in Requests : r.admitted \subseteq {"CUSTOMER", "OPERATOR"}
ASSUME NoneAssumption == None \notin Answers /\ None \notin Principals
ASSUME MaxNowAssumption == MaxNow \in Nat
ASSUME PoliciesAssumption ==
    (\A pol \in Policies : IsPolicy(pol)) /\ Deployed \subseteq Policies

VARIABLES
    policy,    \* the tables the service was written with
    phase,     \* "import", then "serving" or "refused"
    engine,    \* the casbin enforcer: the pairs it says yes to
    who,       \* auth: the session's principal, None before it signs in
    enabled,   \* auth: whether the session is enabled
    tier,      \* auth: its trust level, and until when
    now,
    copy,      \* the resolver's last-good principal, or None
    pc,        \* where the one request followed stands
    req, principal, opened,  \* the request, its principal, what opened it
    decided,   \* history: when the grants were judged
    sample,    \* require_elevated's own answer from auth
    wasLive,   \* history: enabled and elevated at some moment since it asked
    answer

service == <<policy, phase, engine>>
auth == <<who, enabled, tier>>
hooks == <<pc, req, principal, opened, decided, sample, wasLive, answer>>
vars == <<service, auth, now, copy, hooks>>

Init ==
    /\ policy \in Policies
    /\ phase = "import" /\ engine = {}
    /\ who = None /\ enabled = FALSE /\ tier = Plain
    /\ now = 0 /\ copy = None
    /\ pc = "idle" /\ req = None /\ principal = None /\ opened = None
    /\ decided = 0 /\ sample = None /\ wasLive = FALSE /\ answer = None

(***************************************************************************)
(* Import: the enforcer is built, then verify_policy lets the service      *)
(* start or stops it.                                                      *)
(***************************************************************************)
Engine(pol) == {x \in Name \X Capability : Enforce(pol, x[1], x[2])}

Import ==
    /\ phase = "import"
    /\ engine' = Engine(policy)
    /\ phase' = IF Buildable(policy) /\ VerifyPolicy(policy)
                THEN "serving" ELSE "refused"
    /\ UNCHANGED <<policy, auth, now, copy, hooks>>

Followed == phase = "serving" /\ policy \in Deployed

-----------------------------------------------------------------------------
(***************************************************************************)
(* Auth and the clock.  A session keeps its actor type and its kind.       *)
(***************************************************************************)
\* The window names an instant, and it has not passed.
Open(until, t) == until \notin {None, Unreadable} /\ t < until

\* Elevated, for as long as the window says where there is one.
Elevated(tr, t) == tr.elevated /\ (tr.until # None => Open(tr.until, t))

\* Every change of the outside shows in the history of a pending step-up.
Watched == wasLive' = (wasLive \/ (pc = "elevating" /\ enabled' /\ Elevated(tier', now')))

SignIn ==
    /\ Followed /\ who = None
    /\ who' \in Principals /\ enabled' = TRUE
    /\ UNCHANGED <<service, tier, now, copy, hooks>>

\* The session's grants or delegations change (C-053, RUL-187).
Regrant ==
    /\ Followed /\ who # None
    /\ who' \in {p \in Principals : p.actor = who.actor /\ p.session = who.session}
    /\ UNCHANGED <<service, enabled, tier, now, copy, hooks>>

Revoke ==
    /\ Followed /\ enabled
    /\ enabled' = FALSE
    /\ UNCHANGED <<service, who, tier, now, copy, pc, req, principal, opened,
                   decided, sample, answer>>
    /\ Watched

\* A challenge answered, or an elevation taken back.
Reassure ==
    /\ Followed /\ who # None
    /\ tier' \in Tiers
    /\ UNCHANGED <<service, who, enabled, now, copy, pc, req, principal, opened,
                   decided, sample, answer>>
    /\ Watched

Tick ==
    /\ Followed /\ now < MaxNow
    /\ now' = now + 1
    /\ UNCHANGED <<service, auth, copy, pc, req, principal, opened, decided,
                   sample, answer>>
    /\ Watched

-----------------------------------------------------------------------------
(***************************************************************************)
(* select: the grants that may open a route, each with the delegation it   *)
(* came by, or a refusal.                                                  *)
(***************************************************************************)
Fits(p, g) == g \in DOMAIN policy.grants /\ policy.grants[g].actor = p.actor

\* A mutant of the next: the row's time bound is looked at, the clock is not.
CountsForever(d, t) ==
    d.until = None => policy.grants[d.grant].bound = "optional"

\* An unbounded delegation counts where the register lets the grant be so.
Counts(d, t) ==
    /\ d.until = None => policy.grants[d.grant].bound = "optional"
    /\ d.until # None => t < d.until

Refuse(a) == [refusal |-> a, grants |-> {}]

\* A grant that counts, its place in the list it comes from, and by what.
Own(p, kind) ==
    [refusal |-> None,
     grants |-> {[place |-> i, grant |-> p.grants[i], via |-> None] :
                    i \in {j \in DOMAIN p.grants : policy.grants[p.grants[j]].kind = kind}}]

ForSubject(p, s, t) ==
    LET ds == {i \in DOMAIN p.delegations : p.delegations[i].subject = s}
        usable == {i \in ds : Counts(p.delegations[i], t)}
    IN  IF \E i \in ds : ~(/\ Fits(p, p.delegations[i].grant)
                           /\ policy.grants[p.delegations[i].grant].kind = "subject")
        THEN Refuse("unavailable")
        ELSE IF usable = {} THEN Refuse("no_subject")
        ELSE [refusal |-> None,
              grants |-> {[place |-> i, grant |-> p.delegations[i].grant,
                           via |-> p.delegations[i].ref] : i \in usable}]

Select(p, r, t) ==
    IF p.actor \notin r.admitted THEN Refuse("not_admitted")
    ELSE IF \E i \in DOMAIN p.grants : ~Fits(p, p.grants[i]) THEN Refuse("unavailable")
    ELSE IF r.admitted = {"OPERATOR"}
         THEN IF r.subject # None THEN Refuse("no_subject") ELSE Own(p, "unbound")
    ELSE IF p.actor = "OPERATOR" /\ p.session # "SHADOW" THEN Refuse("not_admitted")
    ELSE IF p.session = "SHADOW" /\ r.subject # p.delegations[1].subject
         THEN Refuse("no_subject")
    ELSE IF r.subject = None THEN Own(p, "self")
    ELSE ForSubject(p, r.subject, t)

Openers(grants, c) == {g \in grants : <<g.grant, c>> \in engine}

\* opened_by: the first that opens the capability, or None.
OpenedBy(grants, c) ==
    LET opening == Openers(grants, c)
        first == {g \in opening : \A h \in opening : g.place <= h.place}
    IN  IF first = {} THEN None ELSE CHOOSE g \in first : TRUE

Held(p) == {p.grants[i] : i \in DOMAIN p.grants}

\* A mutant of the next: without asking whether onboarding would help.
OnboardingAlways(p, r) ==
    r.subject = None /\ Held(p) = {OnboardingGrant}

\* The one holding that is sent to onboarding instead of being denied.
OnboardingHelps(p, r) ==
    /\ r.subject = None
    /\ Held(p) = {OnboardingGrant}
    /\ <<CustomerGrant, r.capability>> \in engine

-----------------------------------------------------------------------------
(***************************************************************************)
(* The hooks.                                                              *)
(***************************************************************************)
Idle == pc \in {"idle", "answered"}

Arrive(r) ==
    /\ Followed /\ who # None /\ Idle
    /\ pc' = "resolving" /\ req' = r
    /\ principal' = None /\ opened' = None /\ decided' = 0 /\ sample' = None
    /\ wasLive' = FALSE /\ answer' = None
    /\ UNCHANGED <<service, auth, now, copy>>

\* A mutant of the next: the answer is given and the hooks go on.
AnswerOnly(a) == answer' = a /\ UNCHANGED pc

Answer(a) == pc' = "answered" /\ answer' = a

\* resolver.resolve, reading auth.
ResolveFresh ==
    /\ pc = "resolving"
    /\ IF enabled
       THEN /\ principal' = who /\ copy' = who
            /\ pc' = "judging" /\ UNCHANGED answer
       ELSE Answer("session_miss") /\ UNCHANGED <<principal, copy>>
    /\ UNCHANGED <<service, auth, now, req, opened, decided, sample, wasLive>>

\* resolver.resolve, serving what it kept.
ResolveKept ==
    /\ pc = "resolving" /\ copy # None
    /\ principal' = copy
    /\ pc' = "judging"
    /\ UNCHANGED <<service, auth, now, copy, req, opened, decided, sample,
                   wasLive, answer>>

ResolveFails ==
    /\ pc = "resolving"
    /\ Answer("unavailable")
    /\ UNCHANGED <<service, auth, now, copy, req, principal, opened, decided,
                   sample, wasLive>>

\* What follows in require, without an await.
Judge ==
    LET s == Select(principal, req, now)
        o == OpenedBy(s.grants, req.capability)
    IN  /\ pc = "judging"
        /\ decided' = now
        /\ opened' = o
        /\ \/ s.refusal # None /\ Answer(s.refusal)
           \/ /\ s.refusal = None /\ o = None
              /\ Answer(IF OnboardingHelps(principal, req) THEN "onboarding" ELSE "denied")
           \/ /\ s.refusal = None /\ o # None
              /\ IF req.elevated THEN pc' = "elevating" /\ UNCHANGED answer
                                 ELSE Answer("handler")
        /\ wasLive' = (enabled /\ Elevated(tier, now))
        /\ UNCHANGED <<service, auth, now, copy, req, principal, sample>>

\* project, at the moment its answer is used: a window that has passed, or
\* that cannot be read, ends the elevation; one that is missing does not.
Projected(tr) ==
    IF tr.elevated /\ tr.until # None /\ ~Open(tr.until, now) THEN Plain ELSE tr

\* check_session_elevated asks auth, which projects its answer or leaves it.
StepUpFetch ==
    /\ pc = "elevating" /\ sample = None
    /\ \E tr \in {tier, Projected(tier)} :
          sample' = [enabled |-> enabled, tier |-> tr]
    /\ UNCHANGED <<service, auth, now, copy, pc, req, principal, opened, decided,
                   wasLive, answer>>

\* It could not be asked, or does not know the session.
StepUpFetchFails ==
    /\ pc = "elevating" /\ sample = None
    /\ \E a \in {"unavailable", "session_miss"} : Answer(a)
    /\ UNCHANGED <<service, auth, now, copy, req, principal, opened, decided,
                   sample, wasLive>>

\* Mutants of the next: the two checks swapped; the tier as auth gave it.
VerdictSwapped(s) ==
    IF ~Projected(s.tier).elevated THEN "step_up"
    ELSE IF ~s.enabled THEN "session_miss" ELSE "handler"
VerdictUnprojected(s) ==
    IF ~s.enabled THEN "session_miss"
    ELSE IF ~s.tier.elevated THEN "step_up" ELSE "handler"

\* The state first, then the level.
StepUpVerdict(s) ==
    IF ~s.enabled THEN "session_miss"
    ELSE IF ~Projected(s.tier).elevated THEN "step_up" ELSE "handler"

StepUpCheck ==
    /\ pc = "elevating" /\ sample # None
    /\ Answer(StepUpVerdict(sample))
    /\ UNCHANGED <<service, auth, now, copy, req, principal, opened, decided,
                   sample, wasLive>>

-----------------------------------------------------------------------------
Environment == SignIn \/ Regrant \/ Revoke \/ Reassure \/ Tick

Hook ==
    \/ ResolveFresh \/ ResolveKept \/ ResolveFails \/ Judge
    \/ StepUpFetch \/ StepUpFetchFails \/ StepUpCheck

Next == Import \/ Environment \/ (\E r \in Requests : Arrive(r)) \/ Hook

Spec == Init /\ [][Next]_vars


-----------------------------------------------------------------------------
(***************************************************************************)
(* Properties.                                                             *)
(***************************************************************************)
\* Every variable stays in its type.
TypeOK ==
    /\ policy \in Policies
    /\ phase \in {"import", "serving", "refused"}
    /\ engine \subseteq Name \X Capability
    /\ who \in Principals \cup {None} /\ enabled \in BOOLEAN /\ tier \in Tiers
    /\ now \in 0 .. MaxNow /\ decided \in 0 .. MaxNow
    /\ copy \in Principals \cup {None} /\ principal \in Principals \cup {None}
    /\ pc \in {"idle", "resolving", "judging", "elevating", "answered"}
    /\ req \in Requests \cup {None}
    /\ sample # None => sample \in [enabled : BOOLEAN, tier : Tiers]
    /\ wasLive \in BOOLEAN
    /\ answer \in Answers \cup {None}
    /\ (answer # None) <=> (pc = "answered")

\* A service that starts holds an engine in which nothing chains: a grant or
\* a peer opens what its own row's entitlements open, and nothing those lead
\* to; and when the register was checked too, no registered grant opens
\* anything by being spelled like an entitlement (flatness.py, C-038, C-056).
TwoHops ==
    phase = "serving" =>
        \A c \in Capability :
            /\ \A g \in DOMAIN policy.expansion :
                   <<g, c>> \in engine <=> RowOpens(policy.expansion, g, c, policy)
            /\ \A p \in DOMAIN policy.peers :
                   <<p, c>> \in engine <=> RowOpens(policy.peers, p, c, policy)
            /\ policy.checked => \A g \in DOMAIN policy.grants :
                   <<g, c>> \in engine <=> RowOpens(policy.expansion, g, c, policy)

\* What opens a route is a right of the caller for what it asked: one of its
\* own grants when it named no subject, of the kind the route's plane takes;
\* otherwise a delegation of that very subject, running when it was judged,
\* or unbounded where the register allows it.  An operator reaches a
\* customer's route only as a shadow of the customer it names (C-053).
OpenedByRight ==
    opened # None =>
        LET row == policy.grants[opened.grant] IN
        /\ row.actor = principal.actor
        /\ policy.checked => RowOpens(policy.expansion, opened.grant, req.capability, policy)
        /\ req.subject = None =>
               /\ opened.via = None /\ opened.grant \in Held(principal)
               /\ row.kind = IF req.admitted = {"OPERATOR"} THEN "unbound" ELSE "self"
        /\ req.subject # None =>
               /\ row.kind = "subject" /\ "CUSTOMER" \in req.admitted
               /\ \E i \in DOMAIN principal.delegations :
                      LET d == principal.delegations[i] IN
                      /\ d.ref = opened.via /\ d.grant = opened.grant
                      /\ d.subject = req.subject
                      /\ \/ d.until = None /\ row.bound = "optional"
                         \/ d.until # None /\ decided < d.until
        /\ principal.actor = "OPERATOR" /\ "CUSTOMER" \in req.admitted =>
               principal.session = "SHADOW"

\* The register lists both grants the code names as a customer's own; nothing
\* in the code checks that it does.
NamedAreCustomers(pol) ==
    \A g \in {OnboardingGrant, CustomerGrant} :
        /\ g \in DOMAIN pol.grants
        /\ pol.grants[g].actor = "CUSTOMER" /\ pol.grants[g].kind = "self"

\* Whoever is sent to onboarding gets in once it is done: the same session
\* with the one grant swapped opens the same route (RUL-187).
OnboardingLeadsIn ==
    answer = "onboarding" /\ NamedAreCustomers(policy) =>
        LET swapped == [principal EXCEPT !.grants = <<CustomerGrant>>]
            s == Select(swapped, req, decided)
        IN  s.refusal = None /\ Openers(s.grants, req.capability) # {}

\* A handler behind require_elevated runs only when auth had the session
\* enabled and elevated since the gate was reached, and where auth named a
\* window only while it is still open; whatever copy the grants came from, and
\* whatever auth did to the session meanwhile (stepup.py).
\* An elevation stated without an end is let through (trustcontext.py:278):
\* that none such is honoured, as ASSURANCE.md has it, is auth's to keep.
StepUpIsLive ==
    [][(answer' = "handler" /\ answer # "handler" /\ req.elevated) =>
           wasLive /\ Elevated(sample.tier, now)]_vars

\* A challenge is raised only where answering it can help: the session was
\* not revoked, and the entitlement is there already (C-033).
ChallengeCanHelp ==
    answer = "step_up" => opened # None /\ sample # None /\ sample.enabled

-----------------------------------------------------------------------------
(***************************************************************************)
(* The invariant the proofs rest on.                                       *)
(***************************************************************************)
\* The engine a serving service holds is the one its accepted policy makes.
EngineInv ==
    phase = "serving" =>
        VerifyPolicy(policy) /\ engine = Engine(policy)

\* What the gate has seen of auth, it saw after it was reached.
StepUpInv ==
    /\ who = None => pc = "idle"
    /\ phase # "serving" => who = None
    /\ pc # "idle" => req \in Requests
    /\ pc = "judging" => principal \in Principals
    /\ pc \in {"resolving", "judging"} => sample = None /\ opened = None
    /\ pc = "elevating" =>
           /\ opened # None
           /\ enabled /\ Elevated(tier, now) => wasLive
           /\ sample # None /\ sample.enabled /\ Elevated(sample.tier, now) => wasLive

\* The inductive invariant: types, the engine, the gate, and challenges.
IInv == TypeOK /\ EngineInv /\ StepUpInv /\ ChallengeCanHelp
=============================================================================
