-------------------------- MODULE EntitlementProofs --------------------------
(***************************************************************************)
(* Proofs about Entitlement, for any policies, principals and requests:    *)
(* the engine of a service that starts is two hops deep, and a gate that   *)
(* asks for an elevated session goes by what auth said since it asked.     *)
(***************************************************************************)
EXTENDS Entitlement, PolicyProofs

LEMMA InitInvariant == Init => IInv
<1> SUFFICES ASSUME Init PROVE IInv
  OBVIOUS
<1>1. 0 \in 0 .. MaxNow
  BY MaxNowAssumption
<1>2. TypeOK
  BY <1>1, TiersAssumption DEF Init, TypeOK
<1>3. StepUpInv /\ ChallengeCanHelp /\ EngineInv
  BY NoneAssumption DEF Init, StepUpInv, ChallengeCanHelp, EngineInv, Answers
<1> QED
  BY <1>2, <1>3 DEF IInv

\* What auth's projection does to a tier: it takes the elevation away, or
\* nothing; and it leaves an elevation just where one holds.
LEMMA Projection ==
    ASSUME NEW tr \in Tiers
    PROVE  /\ Projected(tr) \in Tiers
           /\ Projected(tr).elevated <=> Elevated(tr, now)
           /\ Elevated(Projected(tr), now) <=> Elevated(tr, now)
BY TiersAssumption DEF Projected, Elevated, Plain, Tier

\* An elevation only ends by time passing.
LEMMA ElevationEnds ==
    ASSUME NEW tr \in Tiers, NEW t \in Nat, Elevated(tr, t + 1)
    PROVE  Elevated(tr, t)
BY TiersAssumption DEF Elevated, Open, Tier

\* Whatever select says is one of the refusals, or none.
LEMMA Refusals ==
    ASSUME NEW p, NEW r, NEW t
    PROVE  Select(p, r, t).refusal \in {"not_admitted", "unavailable", "no_subject", None}
<1>1. \A a : Refuse(a).refusal = a
  BY DEF Refuse
<1>2. \A k : Own(p, k).refusal = None
  BY DEF Own
<1>3. ForSubject(p, r.subject, t).refusal \in {"unavailable", "no_subject", None}
  BY <1>1 DEF ForSubject
<1> QED
  BY <1>1, <1>2, <1>3 DEF Select

LEMMA TypeStep == TypeOK /\ StepUpInv /\ [Next]_vars => TypeOK'
<1> SUFFICES ASSUME TypeOK, StepUpInv, [Next]_vars PROVE TypeOK'
  OBVIOUS
<1> USE MaxNowAssumption, NoneAssumption
<1>1. CASE Import
  BY <1>1 DEF Import, TypeOK, auth, hooks, Engine
<1>2. CASE SignIn
  BY <1>2 DEF SignIn, TypeOK, service, hooks
<1>3. CASE Regrant
  BY <1>3 DEF Regrant, TypeOK, service, hooks
<1>4. CASE Revoke
  BY <1>4 DEF Revoke, Watched, TypeOK, service
<1>5. CASE Reassure
  BY <1>5 DEF Reassure, Watched, TypeOK, service
<1>6. CASE Tick
  BY <1>6 DEF Tick, Watched, TypeOK, service, auth
<1>7. CASE \E r \in Requests : Arrive(r)
  <2>1. 0 \in 0 .. MaxNow
    OBVIOUS
  <2> QED
    BY <1>7, <2>1 DEF Arrive, TypeOK, service, auth
<1>8. CASE ResolveFresh
  BY <1>8 DEF ResolveFresh, Answer, TypeOK, service, auth, Answers
<1>9. CASE ResolveKept
  BY <1>9 DEF ResolveKept, TypeOK, service, auth
<1>10. CASE ResolveFails
  BY <1>10 DEF ResolveFails, Answer, TypeOK, service, auth, Answers
<1>11. CASE Judge
  <2> DEFINE s == Select(principal, req, now)
  <2>1. s.refusal \in Answers \cup {None}
    BY Refusals DEF Answers
  <2>3. UNCHANGED <<service, auth, now, copy, req, principal, sample>> /\ decided' = now
        /\ wasLive' = (enabled /\ Elevated(tier, now)) /\ pc = "judging"
    BY <1>11 DEF Judge
  <2>4. \/ Answer(s.refusal) /\ s.refusal # None
        \/ Answer("onboarding") \/ Answer("denied") \/ Answer("handler")
        \/ pc' = "elevating" /\ answer' = answer
    BY <1>11 DEF Judge
  <2>5. /\ pc' \in {"elevating", "answered"} /\ answer' \in Answers \cup {None}
        /\ (answer' # None) <=> (pc' = "answered")
    BY <2>1, <2>3, <2>4 DEF Answer, Answers, TypeOK
  <2> HIDE DEF s
  <2> QED
    BY <2>3, <2>5 DEF TypeOK, service, auth
<1>12. CASE StepUpFetch
  <2>1. PICK tr \in {tier, Projected(tier)} : sample' = [enabled |-> enabled, tier |-> tr]
    BY <1>12 DEF StepUpFetch
  <2>2. tr \in Tiers
    BY <2>1, Projection DEF TypeOK
  <2> QED
    BY <1>12, <2>1, <2>2 DEF StepUpFetch, TypeOK, service, auth
<1>13. CASE StepUpFetchFails
  BY <1>13 DEF StepUpFetchFails, Answer, TypeOK, service, auth, Answers
<1>14. CASE StepUpCheck
  BY <1>14 DEF StepUpCheck, Answer, StepUpVerdict, TypeOK, service, auth, Answers
<1>15. CASE UNCHANGED vars
  BY <1>15 DEF vars, TypeOK, service, auth, hooks
<1> QED
  BY <1>1, <1>2, <1>3, <1>4, <1>5, <1>6, <1>7, <1>8, <1>9, <1>10, <1>11, <1>12,
     <1>13, <1>14, <1>15 DEF Next, Environment, Hook

\* Only import touches the service.
LEMMA EngineStep == EngineInv /\ [Next]_vars => EngineInv'
<1>1. ASSUME Import PROVE EngineInv'
  BY <1>1 DEF Import, EngineInv, Engine
<1>2. ASSUME UNCHANGED service, EngineInv PROVE EngineInv'
  BY <1>2 DEF service, EngineInv
<1>3. ASSUME [Next]_vars PROVE Import \/ UNCHANGED service
  BY <1>3 DEF Next, vars, Environment, Hook, SignIn, Regrant, Revoke, Reassure, Tick,
     Arrive, ResolveFresh, ResolveKept, ResolveFails, Judge, StepUpFetch,
     StepUpFetchFails, StepUpCheck
<1> QED
  BY <1>1, <1>2, <1>3

LEMMA StepUpStep ==
    TypeOK /\ StepUpInv /\ ChallengeCanHelp /\ [Next]_vars
        => StepUpInv' /\ ChallengeCanHelp'
<1> SUFFICES ASSUME TypeOK, StepUpInv, ChallengeCanHelp, [Next]_vars
             PROVE  StepUpInv' /\ ChallengeCanHelp'
  OBVIOUS
<1> USE NoneAssumption DEF StepUpInv, ChallengeCanHelp
<1>1. CASE Import \/ UNCHANGED vars
  BY <1>1 DEF Import, vars, service, auth, hooks, Elevated
<1>2. CASE SignIn
  BY <1>2 DEF SignIn, Followed, service, hooks
<1>3. CASE Regrant
  BY <1>3 DEF Regrant, service, hooks, Elevated
<1>4. CASE Revoke
  BY <1>4 DEF Revoke, Watched, service
<1>5. CASE Reassure
  BY <1>5 DEF Reassure, Watched, service
<1>6. CASE Tick
  <2>1. /\ now' = now + 1 /\ now \in Nat /\ Watched
        /\ UNCHANGED <<service, auth, pc, req, principal, opened, sample, answer>>
    BY <1>6, MaxNowAssumption DEF Tick, TypeOK
  <2>2. sample # None /\ Elevated(sample.tier, now') => Elevated(sample.tier, now)
    BY <2>1, ElevationEnds DEF TypeOK
  <2> QED
    BY <2>1, <2>2 DEF Watched, service, auth
<1>7. CASE \E r \in Requests : Arrive(r)
  BY <1>7 DEF Arrive, Answers, service, auth
<1>8. CASE ResolveFresh
  BY <1>8 DEF ResolveFresh, Answer, TypeOK, service, auth
<1>9. CASE ResolveKept
  BY <1>9 DEF ResolveKept, TypeOK, service, auth
<1>10. CASE ResolveFails
  BY <1>10 DEF ResolveFails, Answer, TypeOK, service, auth
<1>11. CASE Judge
  <2> DEFINE s == Select(principal, req, now)
  <2>1. s.refusal # "step_up" /\ answer # "step_up"
    BY <1>11, Refusals DEF Answers, TypeOK, Judge
  <2>2. /\ (pc' = "elevating" /\ opened' # None) \/ pc' = "answered"
        /\ answer' \in {answer, s.refusal, "onboarding", "denied", "handler"}
    BY <1>11 DEF Judge, Answer
  <2>3. /\ wasLive' = (enabled /\ Elevated(tier, now)) /\ sample' = sample
        /\ UNCHANGED <<phase, who, enabled, tier, now, req>> /\ sample = None
        /\ who # None /\ req \in Requests
    BY <1>11 DEF Judge, service, auth
  <2> HIDE DEF s
  <2> QED
    BY <2>1, <2>2, <2>3 DEF Elevated
<1>12. CASE StepUpFetch
  <2>1. PICK tr \in {tier, Projected(tier)} : sample' = [enabled |-> enabled, tier |-> tr]
    BY <1>12 DEF StepUpFetch
  <2>2. Elevated(tr, now) <=> Elevated(tier, now)
    BY <2>1, Projection DEF TypeOK
  <2>3. /\ pc = "elevating" /\ sample = None /\ sample'.enabled = enabled /\ sample'.tier = tr
        /\ UNCHANGED <<service, auth, now, pc, req, principal, opened, wasLive, answer>>
    BY <1>12, <2>1 DEF StepUpFetch
  <2>4. Elevated(sample'.tier, now') <=> Elevated(tr, now)
    BY <2>3
  <2> QED
    BY <2>2, <2>3, <2>4 DEF service, auth, TypeOK
<1>13. CASE StepUpFetchFails
  BY <1>13 DEF StepUpFetchFails, Answer, service, auth
<1>14. CASE StepUpCheck
  BY <1>14 DEF StepUpCheck, Answer, StepUpVerdict, service, auth
<1> QED
  BY <1>1, <1>2, <1>3, <1>4, <1>5, <1>6, <1>7, <1>8, <1>9, <1>10, <1>11, <1>12, <1>13, <1>14
     DEF Next, Environment, Hook

\* The strengthened invariant holds of every behaviour.
THEOREM Invariance == Spec => []IInv
<1>1. IInv /\ [Next]_vars => IInv'
  BY TypeStep, EngineStep, StepUpStep DEF IInv
<1> QED
  BY <1>1, InitInvariant, PTL DEF Spec

\* Whatever the tables a service is written with, if it starts, its engine is
\* two hops deep.
THEOREM EngineIsTwoHops == Spec => []TwoHops
<1>1. IInv => TwoHops
  <2> SUFFICES ASSUME IInv, phase = "serving", NEW c \in Capability
               PROVE  /\ \A g \in DOMAIN policy.expansion :
                           <<g, c>> \in engine <=> RowOpens(policy.expansion, g, c, policy)
                      /\ \A p \in DOMAIN policy.peers :
                           <<p, c>> \in engine <=> RowOpens(policy.peers, p, c, policy)
                      /\ policy.checked => \A g \in DOMAIN policy.grants :
                           <<g, c>> \in engine <=> RowOpens(policy.expansion, g, c, policy)
    BY DEF TwoHops
  <2>1. IsPolicy(policy) /\ VerifyPolicy(policy)
    BY PoliciesAssumption DEF IInv, TypeOK, EngineInv
  <2>2. TwoHopPolicy(policy)
    BY <2>1, AcceptedIsTwoHops
  <2>3. \A n \in Name : <<n, c>> \in engine <=> Enforce(policy, n, c)
    BY DEF IInv, EngineInv, Engine
  <2>4. /\ DOMAIN policy.expansion \subseteq Name /\ DOMAIN policy.peers \subseteq Name
        /\ DOMAIN policy.grants \subseteq Name
    BY <2>1, PolicyFacts
  <2> QED
    BY <2>2, <2>3, <2>4 DEF TwoHopPolicy, AllowsPeer
<1> QED
  BY <1>1, Invariance, PTL

\* Whoever the step-up gate lets through, auth had elevated since it asked,
\* and not past the end it named, where it named one.
THEOREM ElevationIsLive == Spec => StepUpIsLive
<1> DEFINE A == (answer' = "handler" /\ answer # "handler" /\ req.elevated)
                    => wasLive /\ Elevated(sample.tier, now)
<1>1. IInv /\ [Next]_vars => [A]_vars
  <2> SUFFICES ASSUME IInv, Next, answer' = "handler", answer # "handler", req.elevated
               PROVE  wasLive /\ Elevated(sample.tier, now)
    BY DEF vars
  <2>1. Judge \/ StepUpCheck
    BY NoneAssumption DEF Next, Environment, Hook, Import, SignIn, Regrant, Revoke, Reassure, Tick,
       Arrive, ResolveFresh, ResolveKept, ResolveFails, Judge, StepUpFetch,
       StepUpFetchFails, StepUpCheck, Answer, hooks, IInv, TypeOK, Answers
  <2>2. ~Judge
    <3> DEFINE s == Select(principal, req, now)
    <3>1. s.refusal # "handler"
      BY Refusals, NoneAssumption DEF Answers
    <3> HIDE DEF s
    <3>2. ASSUME Judge PROVE Answer(s.refusal) \/ Answer("onboarding") \/ Answer("denied")
                              \/ answer' = answer
      BY <3>2 DEF Judge, s
    <3> QED
      BY <3>1, <3>2 DEF Answer
  <2>3. CASE StepUpCheck
    <3>1. /\ pc = "elevating" /\ sample \in [enabled : BOOLEAN, tier : Tiers]
          /\ sample # None /\ StepUpVerdict(sample) = "handler"
      BY <2>3 DEF StepUpCheck, Answer, IInv, TypeOK
    <3>2. sample.enabled /\ Projected(sample.tier).elevated
      BY <3>1 DEF StepUpVerdict
    <3>3. Elevated(sample.tier, now)
      BY <3>1, <3>2, Projection
    <3> QED
      BY <3>1, <3>2, <3>3 DEF IInv, StepUpInv
  <2> QED
    BY <2>1, <2>2, <2>3
<1> QED
  BY <1>1, Invariance, PTL DEF Spec, StepUpIsLive

\* Every variable stays in its type: no hook goes on once it has answered.
THEOREM TypesStand == Spec => []TypeOK
<1>1. IInv => TypeOK
  BY DEF IInv
<1> QED
  BY <1>1, Invariance, PTL

\* Whoever is asked to step up would get in by it.
THEOREM ChallengesHelp == Spec => []ChallengeCanHelp
<1>1. IInv => ChallengeCanHelp
  BY DEF IInv
<1> QED
  BY <1>1, Invariance, PTL

-----------------------------------------------------------------------------
\* What select lets through.

LEMMA OwnRight ==
    ASSUME NEW p, NEW kind, NEW g \in Own(p, kind).grants,
           \A i \in DOMAIN p.grants : Fits(p, p.grants[i])
    PROVE  /\ g.grant \in DOMAIN policy.grants /\ policy.grants[g.grant].actor = p.actor
           /\ g.via = None /\ g.grant \in Held(p) /\ policy.grants[g.grant].kind = kind
BY DEF Own, Fits, Held

LEMMA SubjectRight ==
    ASSUME NEW p, NEW s, NEW t, ForSubject(p, s, t).refusal = None,
           NEW g \in ForSubject(p, s, t).grants
    PROVE  /\ g.grant \in DOMAIN policy.grants /\ policy.grants[g.grant].actor = p.actor
           /\ policy.grants[g.grant].kind = "subject"
           /\ \E i \in DOMAIN p.delegations :
                  /\ p.delegations[i].ref = g.via /\ p.delegations[i].grant = g.grant
                  /\ p.delegations[i].subject = s
                  /\ Counts(p.delegations[i], t)
<1> DEFINE ds == {i \in DOMAIN p.delegations : p.delegations[i].subject = s}
<1> DEFINE usable == {i \in ds : Counts(p.delegations[i], t)}
<1>1. \A a : Refuse(a).refusal = a /\ Refuse(a).grants = {}
  BY DEF Refuse
<1>2. /\ \A i \in ds : Fits(p, p.delegations[i].grant)
                       /\ policy.grants[p.delegations[i].grant].kind = "subject"
      /\ g \in {[place |-> i, grant |-> p.delegations[i].grant,
                   via |-> p.delegations[i].ref] : i \in usable}
  BY <1>1, NoneAssumption DEF ForSubject, Answers
<1>3. PICK i \in usable : g = [place |-> i, grant |-> p.delegations[i].grant,
                               via |-> p.delegations[i].ref]
  BY <1>2
<1> QED
  BY <1>2, <1>3 DEF Fits

\* What a grant that select lets through is to the caller and its request.
Rightful(p, r, t, g) ==
    LET row == policy.grants[g.grant] IN
    /\ g.grant \in DOMAIN policy.grants /\ row.actor = p.actor
    /\ r.subject = None =>
           /\ g.via = None /\ g.grant \in Held(p)
           /\ row.kind = IF r.admitted = {"OPERATOR"} THEN "unbound" ELSE "self"
    /\ r.subject # None =>
           /\ row.kind = "subject" /\ "CUSTOMER" \in r.admitted
           /\ \E i \in DOMAIN p.delegations :
                  /\ p.delegations[i].ref = g.via /\ p.delegations[i].grant = g.grant
                  /\ p.delegations[i].subject = r.subject
                  /\ Counts(p.delegations[i], t)
    /\ p.actor = "OPERATOR" /\ "CUSTOMER" \in r.admitted => p.session = "SHADOW"

LEMMA SelectRight ==
    ASSUME NEW p, NEW r \in Requests, NEW t, Select(p, r, t).refusal = None,
           NEW g \in Select(p, r, t).grants
    PROVE  Rightful(p, r, t, g)
<1> USE DEF Rightful
<1>1. \A a : Refuse(a).refusal = a
  BY DEF Refuse
<1>2. \A a \in Answers : Refuse(a).refusal # None
  BY <1>1, NoneAssumption
<1>3. /\ p.actor \in r.admitted
      /\ \A i \in DOMAIN p.grants : Fits(p, p.grants[i])
  BY <1>2 DEF Select, Answers
<1>4. CASE r.admitted = {"OPERATOR"}
  <2>1. r.subject = None /\ g \in Own(p, "unbound").grants
    BY <1>2, <1>3, <1>4 DEF Select, Answers
  <2> QED
    BY <1>3, <1>4, <2>1, OwnRight
<1>5. CASE r.admitted # {"OPERATOR"}
  <2>1. /\ ~(p.actor = "OPERATOR" /\ p.session # "SHADOW")
        /\ r.subject = None => g \in Own(p, "self").grants
        /\ r.subject # None =>
              /\ g \in ForSubject(p, r.subject, t).grants
              /\ ForSubject(p, r.subject, t).refusal = None
    BY <1>2, <1>3, <1>5 DEF Select, Answers
  <2>2. "CUSTOMER" \in r.admitted
    BY <1>3, <1>5, RequestsAssumption
  <2>3. CASE r.subject = None
    BY <1>3, <1>5, <2>1, <2>3, OwnRight
  <2>4. CASE r.subject # None
    BY <2>1, <2>2, <2>4, SubjectRight
  <2> QED
    BY <2>3, <2>4
<1> QED
  BY <1>4, <1>5

LEMMA OpenerOpens ==
    ASSUME NEW grants, NEW c, OpenedBy(grants, c) # None
    PROVE  OpenedBy(grants, c) \in grants /\ <<OpenedBy(grants, c).grant, c>> \in engine
BY DEF OpenedBy, Openers

\* What only the hooks' own steps change.
LEMMA OutsideSteps ==
    ASSUME Next, ~Judge, ~(\E r \in Requests : Arrive(r)), ~ResolveFresh, ~ResolveKept
    PROVE  UNCHANGED <<policy, req, principal, opened, decided>>
BY DEF Next, Environment, Hook, Import, SignIn, Regrant, Revoke, Reassure, Tick,
       ResolveFails, StepUpFetch, StepUpFetchFails, StepUpCheck, service, hooks

LEMMA JudgedRight ==
    ASSUME IInv, Judge
    PROVE  OpenedByRight'
<1> DEFINE s == Select(principal, req, now)
<1> DEFINE o == OpenedBy(s.grants, req.capability)
<1>1. /\ opened' = o /\ decided' = now /\ UNCHANGED <<policy, req, principal>>
      /\ pc = "judging"
  BY DEF Judge, service
<1>2. SUFFICES ASSUME o # None PROVE OpenedByRight'
  BY <1>1 DEF OpenedByRight
<1>3. o \in s.grants /\ <<o.grant, req.capability>> \in engine
  BY <1>2, OpenerOpens
<1>4. s.refusal = None
  <2>1. \A a : Refuse(a).grants = {}
    BY DEF Refuse
  <2> QED
    BY <1>3, <2>1 DEF Select, Own, ForSubject
<1>5. req \in Requests /\ phase = "serving"
  <2>1. who # None
    BY <1>1 DEF IInv, StepUpInv
  <2> QED
    BY <1>1, <2>1 DEF IInv, StepUpInv
<1>6. /\ IsPolicy(policy) /\ VerifyPolicy(policy) /\ engine = Engine(policy)
  BY <1>5, PoliciesAssumption DEF IInv, TypeOK, EngineInv
<1>7. req.capability \in Capability /\ Enforce(policy, o.grant, req.capability)
  BY <1>3, <1>6 DEF Engine
<1>8. policy.checked /\ o.grant \in DOMAIN policy.grants =>
          RowOpens(policy.expansion, o.grant, req.capability, policy)
  <2>1. TwoHopPolicy(policy)
    BY <1>6, AcceptedIsTwoHops
  <2> QED
    BY <1>7, <2>1 DEF TwoHopPolicy
<1> HIDE DEF o
<1>9. Rightful(principal, req, now, o)
  BY <1>3, <1>4, <1>5, SelectRight
<1> HIDE DEF s
<1>10. Held(principal)' = Held(principal)
  BY <1>1 DEF Held
<1> QED
  BY <1>1, <1>2, <1>8, <1>9, <1>10 DEF OpenedByRight, Counts, Rightful

\* Whatever opens a route, for anyone, is a right of that caller for what it
\* asked, running when it was judged.
THEOREM OnlyRightsOpen == Spec => []OpenedByRight
<1>1. Init => OpenedByRight
  BY DEF Init, OpenedByRight
<1>2. IInv /\ OpenedByRight /\ [Next]_vars => OpenedByRight'
  <2> SUFFICES ASSUME IInv, OpenedByRight, [Next]_vars PROVE OpenedByRight'
    OBVIOUS
  <2>1. CASE Judge
    BY <2>1, JudgedRight
  <2>2. CASE \E r \in Requests : Arrive(r)
    BY <2>2 DEF Arrive, OpenedByRight
  <2>3. CASE ResolveFresh \/ ResolveKept
    BY <2>3 DEF ResolveFresh, ResolveKept, IInv, StepUpInv, OpenedByRight
  <2>4. CASE UNCHANGED <<policy, req, principal, opened, decided>>
    BY <2>4 DEF OpenedByRight, Held
  <2> QED
    BY <2>1, <2>2, <2>3, <2>4, OutsideSteps DEF vars, service, hooks
<1> QED
  BY <1>1, <1>2, Invariance, PTL DEF Spec

-----------------------------------------------------------------------------
\* Onboarding.

\* What is left of the judgement while the answer stands.
OnboardingInv ==
    answer = "onboarding" =>
        /\ principal \in Principals /\ OnboardingHelps(principal, req)
        /\ principal.actor \in req.admitted
        /\ \A i \in DOMAIN principal.grants : Fits(principal, principal.grants[i])

LEMMA JudgedOnboarding ==
    ASSUME IInv, Judge, answer' = "onboarding"
    PROVE  OnboardingInv'
<1> DEFINE s == Select(principal, req, now)
<1>1. /\ UNCHANGED <<policy, engine, req, principal>>
      /\ principal \in Principals /\ answer = None
  BY DEF Judge, service, IInv, StepUpInv, TypeOK
<1>2. s.refusal = None /\ OnboardingHelps(principal, req)
  <2>1. s.refusal # "onboarding" /\ answer # "onboarding"
    BY <1>1, Refusals, NoneAssumption DEF Answers
  <2> HIDE DEF s
  <2> QED
    BY <2>1 DEF Judge, Answer, s
<1>3. principal.actor \in req.admitted
      /\ \A i \in DOMAIN principal.grants : Fits(principal, principal.grants[i])
  <2>1. \A a \in Answers : Refuse(a).refusal # None
    BY NoneAssumption DEF Refuse
  <2> QED
    BY <1>2, <2>1 DEF Select, Answers
<1> QED
  BY <1>1, <1>2, <1>3 DEF OnboardingInv, OnboardingHelps, Held, Fits

LEMMA OnboardedGetsIn == OnboardingInv => OnboardingLeadsIn
<1> SUFFICES ASSUME OnboardingInv, answer = "onboarding", NamedAreCustomers(policy)
             PROVE  LET t == Select([principal EXCEPT !.grants = <<CustomerGrant>>], req, decided)
                    IN  t.refusal = None /\ Openers(t.grants, req.capability) # {}
  BY DEF OnboardingLeadsIn
<1> DEFINE swapped == [principal EXCEPT !.grants = <<CustomerGrant>>]
<1>1. /\ principal \in Principals
      /\ req.subject = None /\ Held(principal) = {OnboardingGrant}
      /\ <<CustomerGrant, req.capability>> \in engine
      /\ principal.actor \in req.admitted
      /\ \A i \in DOMAIN principal.grants : Fits(principal, principal.grants[i])
  BY DEF OnboardingInv, OnboardingHelps
<1>2. principal.actor = "CUSTOMER"
  <2>1. PICK i \in DOMAIN principal.grants : principal.grants[i] = OnboardingGrant
    BY <1>1 DEF Held
  <2> QED
    BY <1>1, <2>1 DEF Fits, NamedAreCustomers
<1>3. principal.session # "SHADOW"
  BY <1>1, <1>2, PrincipalsAssumption DEF SchemaRules
<1>4. /\ swapped.actor = "CUSTOMER" /\ swapped.session # "SHADOW"
      /\ swapped.grants = <<CustomerGrant>>
  BY <1>1, <1>2, <1>3, PrincipalsAssumption
<1> HIDE DEF swapped
<1>5. /\ swapped.actor \in req.admitted /\ req.admitted # {"OPERATOR"}
      /\ \A i \in DOMAIN swapped.grants : Fits(swapped, swapped.grants[i])
  <2>1. \A i \in DOMAIN swapped.grants : swapped.grants[i] = CustomerGrant
    BY <1>4
  <2> QED
    BY <1>1, <1>2, <1>4, <2>1 DEF Fits, NamedAreCustomers
<1>6. Select(swapped, req, decided) = Own(swapped, "self")
  BY <1>1, <1>4, <1>5 DEF Select
<1>7. [place |-> 1, grant |-> CustomerGrant, via |-> None] \in Own(swapped, "self").grants
  <2>1. 1 \in DOMAIN swapped.grants /\ swapped.grants[1] = CustomerGrant
    BY <1>4
  <2> QED
    BY <2>1 DEF Own, NamedAreCustomers
<1>8. Openers(Own(swapped, "self").grants, req.capability) # {}
  BY <1>1, <1>7 DEF Openers
<1>9. Own(swapped, "self").refusal = None
  BY DEF Own
<1> QED
  BY <1>6, <1>8, <1>9 DEF swapped

\* Who is sent to onboarding gets in once it is done, where the register lists
\* both named grants as a customer's own.
THEOREM OnboardingLeads == Spec => []OnboardingLeadsIn
<1>1. Init => OnboardingInv
  BY NoneAssumption DEF Init, OnboardingInv, Answers
<1>2. IInv /\ OnboardingInv /\ [Next]_vars => OnboardingInv'
  <2> SUFFICES ASSUME IInv, OnboardingInv, [Next]_vars, answer' = "onboarding"
               PROVE  OnboardingInv'
    BY DEF OnboardingInv
  <2>1. CASE Judge
    BY <2>1, JudgedOnboarding
  <2>2. CASE UNCHANGED <<policy, engine, req, principal, answer>>
    BY <2>2 DEF OnboardingInv, OnboardingHelps, Held, Fits
  <2>3. ASSUME ~Judge PROVE UNCHANGED <<policy, engine, req, principal, answer>>
    <3>1. answer # None <=> pc = "answered"
      BY DEF IInv, TypeOK
    <3>2. who = None => pc = "idle"
      BY DEF IInv, StepUpInv
    <3>3. phase = "import" => who = None
      BY DEF IInv, StepUpInv
    <3>4. CASE Import
      BY <3>1, <3>2, <3>3, <3>4, NoneAssumption DEF Import, hooks, Answers
    <3>5. CASE Environment \/ UNCHANGED vars
      BY <3>5 DEF Environment, SignIn, Regrant, Revoke, Reassure, Tick, vars, service, hooks
    <3>6. CASE \E r \in Requests : Arrive(r)
      BY <3>6, NoneAssumption DEF Arrive, Answers
    <3>7. CASE Hook
      BY <2>3, <3>1, <3>7, NoneAssumption
         DEF Hook, ResolveFresh, ResolveKept, ResolveFails, StepUpFetch, StepUpFetchFails,
             StepUpCheck, StepUpVerdict, Answer, Answers, service
    <3> QED
      BY <3>4, <3>5, <3>6, <3>7 DEF Next
  <2> QED
    BY <2>1, <2>2, <2>3
<1> QED
  BY <1>1, <1>2, Invariance, OnboardedGetsIn, PTL DEF Spec
=============================================================================
