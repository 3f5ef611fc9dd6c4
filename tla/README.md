# TLA+ for falcon-auth

falcon-auth is a library a Falcon (ASGI) service mounts to authenticate and authorize its callers
against an auth service: it verifies tokens, asks auth for a session's *trust context*, gates routes
on the capabilities that context's grants open, consumes step-up challenges, and gives every route
exactly one plane and one credential.  This directory models that code, checks the models with TLC
and proves theorems about them with TLAPS.  Paths below are relative to `src/src/falcon_auth/`.

## 1. Inventory

| component | state it keeps | operations | what is hard about it |
|---|---|---|---|
| trust resolver and cache (`entitlement/resolver.py`, `trustcontext.py`) | one entry per session in a cache shared by all workers: context, fetch stamp, storage time | `resolve`, `read`, `write`, `forget`, `fetch` | every `await` lets the session be revoked, the token rotated, the entry rewritten; auth and cache fail; workers' clocks differ |
| JWKS store (`identity/jwks.py`) | key set, fetch time, lock, poll task, pinned flag | `get_key`, `warm`, `pin_keys`, polling | refreshes race, wait on one lock, fail or hang; issuer rotates meanwhile |
| JWT verifier (`identity/jwks.py`, `adapters/authenticators.py`) | none | `verify`, `principal_claims` | which failure a token is refused with; lifetimes and leeway at their bounds |
| operation step-up (`assurance/operation.py`, `adapters/hooks.py`) | none here; the challenge at auth, the reservation at the host | `verify_operation_for` | single use against lost answers and retries; checks made after the challenge is spent |
| session step-up (`assurance/stepup.py`) | none | `check_session_elevated`, `project` | an elevation window that closes |
| planes and routing (`planes.py`, `adapters/routing.py`, `adapters/middleware.py`) | registry of (method, template) to plane, credential, actor types | `register`, `mount`, `verify_app`, `verify`, `process_resource` | what the boot checks must exclude so that no request meets a hole in the wiring |
| entitlement (`entitlement/enforcer.py`, `grants.py`, `flatness.py`, `adapters/hooks.py`) | policy fixed at boot | `build_enforcer`, `select`, `opened_by`, `require` | what a set of grants opens once kinds, delegations, subjects and expansions combine |
| east-west (`eastwest/`) | allow list fixed at boot | `build_allow_list`, `authenticate`, `require_capability`, certificate injection | a principal for the wrong peer |
| callbacks (`adapters/authenticators.py`, `adapters/rawbody.py`) | body bytes of the request | `HMACAuthenticator`, `RawBodyBuffer` | freshness at its bounds; the body read twice |
| errors (`errors.py`, `wire.py`, `adapters/errors.py`, `outbound.py`) | none | `render`, `transport_failure`, `status_failure` | which failure a caller sees |

How they interact.  A request is routed; the plane middleware runs the route's one authenticator (a
token goes to the JWT verifier, which asks the JWKS store; a certificate to the east-west verifier;
a callback to the HMAC check over the raw body).  The route's hooks run next: `require` awaits the
resolver, then selects and matches grants; `require_elevated` asks auth again; the handler may
consume a step-up challenge.  All of it is coroutines on one event loop per worker; workers share
only the cache and auth.  Nothing is persisted, so a crash is a request that stops anywhere.

What makes each correct.
* Resolver: a session auth has ended, or a token it has replaced, is refused within a stated bound;
  nobody is refused on a copy's word; an operation that fails closed sees auth as it was during the
  request; a failing cache refuses no one; every request ends.
* JWKS: a key the issuer retired stops verifying within a bound unless the issuer is unreachable;
  a key it publishes is found; a hung or failed fetch blocks no one for ever; pinned stays pinned.
* Step-up: one challenge, one execution, of the act it was raised for, whatever is lost or retried.
* Planes: a boot that passed its checks leaves no request without exactly one credential; a caller
  of another plane cannot tell the route exists.
* Entitlement: kinds never mix, a delegation opens nothing past its bound or for another subject.
* Tokens: who gets in brought a token of ours that ran, or was known to its source, during the request;
  "refresh it" is said of an expired token of ours and of no other; a lifetime is capped.
* Callbacks: a handler runs on exactly the bytes the vendor signed; a replay ends; a body is bounded.
* East-west: a peer opens what its own row opens, by the certificate of its own connection.

## 2. Plan

Done, in this order, the most important behaviour first:

1. `TrustResolver`: who is let in on what auth last said; runs, inductive invariant, proofs.
2. `JWKSStore`: the keys tokens are verified with; runs, proofs.
3. `OperationStepUp` and its abstract specification `SingleUse`; runs, refinement proved.
4. `Planes`: the registry, the boot checks and the plane middleware; runs, proofs.
5. `Policy` and, over it, `Entitlement`: what a policy accepted at import means, and the hooks
   `require` and `require_elevated`; run, proofs.

6. `Selectors`, `Tokens`, `Callbacks`: how a header's credential reaches the outcome that `Planes` takes
   as an input; `EastWest`: the same of a peer's certificate, and the hooks of the service plane.  One
   run for the three, since they share nothing; proofs of every property.
7. `SessionDecision`: what a caller of the resolver is promised; `TrustResolver` is checked and proved to
   implement it.
8. The theorems that were only model-checked: `OpenedByRight`, `OnboardingLeadsIn`, `ChallengeCanHelp`,
   `MismatchIsForeign`, `BootLeavesNothingToFind`.
9. `KeyDirectory`, which `JWKSStore` is checked and proved to implement; `Credentials`, the service that
   mounts the modules of step 6, proved to implement each; and of the two liveness properties what is safety.

What could still be added: `Planes` composed with the modules of step 6, so that a request's outcomes
are computed and not chosen (the product is far larger than either, and they meet in one value only);
two sessions over one cache (their entries are independent keys).

## 3. What is modelled

### TrustResolver, SessionDecision
One session.  `history` is auth's versions of it (state, current_jti, since when); a *version number*
stands for a trust context, which is all the decision reads of it.  `cache` is the shared entry with
its stamp and the instant it was stored; `pc`, `call`, `held`, `since` are the coroutines of
`AuthServiceResolver.resolve`; `now` is the slowest worker's clock, a request's worker being up to
`MaxSkew` ahead.  Every await is split where another step can fall: a question leaves, its server
answers (`CacheReplies`, `AuthAnswers`), the coroutine resumes (`UseCopy`, `UseAnswer`,
`UseLastGood`).  A cache write has one step (`CacheStores`): after it the code uses nothing another
actor can have changed.  `Decide` is `check_current_jti` with the one second question; `JtiRuling` is
its table.  Failures: reads and writes of the cache, auth unreachable or late or forbidding,
eviction, and `Cancel` (client gone, worker dead) anywhere.  The absent entry, the tombstone and a
corrupt entry are one value, as `read` answers None for each.

`SessionDecision` is what the caller is promised: a question, and then a verdict that some version of
the session justifies.  An allowed one needs a version that was live: of since the question, or, unless
the question fails closed, of no longer ago than `Lag`; a strict worker also needs it to name the token,
of no longer ago than `TokenLag`.  A denial needs a version of since the question, and so does a refusal
of the token, but for a copy of age zero (`RefusalLag`).  `DecisionIsAuths` is its specification under
the mapping that hides cache, calls, stamps and clocks: a waiting request is its question.  It says more
than the properties beside it: that the version behind a *copy* was live, for no copy of an ended
session is ever stored.

Left out: grants and trust levels (module `Entitlement`) and the veto; several sessions (their entries are
independent keys); a 0.9.x worker that keeps writing (an entry it left is an initial state); the
awaits of the logger.  A coroutine whose call never times out is not modelled: `Tick` says no call
outlives `CallTimeout`, which is the host's HTTP and cache clients' timeout.

| run | instance | shows |
|---|---|---|
| resolver_strict | two requests, strict, 1 tick, 3 versions | `ClosedReadIsLinearizable`, `RefusalIsAuthsAnswer` under races |
| resolver_aging | one request at a time on strict and lenient workers, 5 ticks, skew 1, a cache that raises, current_jti absent, null or named at first | `IInv`, `RoutineStaleness`, `StrictTokenStaleness`, `OutageStaleness`, `NeverGoesRound`, `DecisionIsAuths`, `EveryRequestEnds` |
| resolver_straggler | a copy written after a denial | *violated*: `StragglerServedForRoutineTTL` |

Bounds.  Two requests are enough for a race over one entry: a request only ever reads what one other
wrote.  Three versions are live, refreshed or revoked, gone.  In resolver_aging `RoutineTTL` and
`LastGoodTTL` are 2 and `JtiStaleness` 1, so that a copy lies before, at and past each of them, and five
ticks go past `Lag`; two versions suffice, since what counts is whether the current one was replaced.
The proofs remove all of these bounds.

Fairness.  `Fairness` is weak fairness of each coroutine's next step: the event loop resumes a ready
coroutine, and the host's timeouts end a call its server never answers.  Nothing makes auth answer,
a client call, or the clock tick.

### JWKSStore, KeyDirectory
One store on one event loop.  `published` is what the issuer has published so far; a key set is the
number of the document it came from.  `keys`, `fetchedAt`, `static` are `_keys`, `_fetched_at`,
`_static`; `holder` and `waiters` are the asyncio lock, first come first served; `pc`, `want`, `got`,
`since` are the tasks of `get_key` and `warm` (`Enter`, `Acquire`) and of the poller (`Poll`), which
meet at the lock and at the fetch (`IssuerAnswers`, then `FetchReturns` or `FetchFails`).  `Stops` is
a task cancelled at any await; `StartPolling`, `StopPolling`, `PollingStopped` keep the assignment
that `stop_polling` makes after its await.  `began` and `returned` are history.

`KeyDirectory` is what a verifier is promised: its lookups read, one after another, one directory that
goes by one of the issuer's documents.  It is renewed only with a document that was current within
`FetchTimeout` and is no older than the one before; a lookup that asks is answered from a renewal no older
than the lookup; one that does not ask is only ever given a key, of within `TTL + FetchTimeout`, and never
told that there is none.  `LookupsReadOneDirectory` is its specification, with `keys` for the directory.

Left out: the awaits of the logger, which the code makes with the lock still held.

| run | instance | shows |
|---|---|---|
| jwks_store | a caller, two pollers, one kid, 3 ticks, 2 documents | `IInv`, `ServedKeyIsPublished`, `MissIsIssuersAnswer`, `NobodyOvertakes`, `LookupsReadOneDirectory`, `EveryLookupEnds` |
| jwks_pinned | two callers, a poller, one kid of two pinned | *violated*: `PinnedStaysPinned` |

Bounds.  The second poller is the one started while the first is being stopped; three tasks suffice
to hold the lock, wait for it and come anew.  Two documents are one rotation; time passes `TTL` and
`FetchTimeout` with an instant to spare.  Fairness is weak, of each task's next step: the loop runs
what is ready, and the fetcher's timeout ends a fetch.  The issuer owes nothing.

### OperationStepUp, SingleUse
`Requests` are the requests at work at once, each slot used again after it ends.  `raisedFor`,
`spendable`, `answers` are auth's challenges and its idempotency store, `sent` the network's copies
of calls (repeated as `AuthVerifies` fires again), `reservation` and `lapsed` the host's reservation.
`Arrive`, `Send`, `Receive`, `Perform`, `Store` are `verify_operation_for` from the reservation to
the stored response; `RefusedUnsent`, `ConnectFails`, `AnswerLost` the failures of the call; `Crash`,
`Lapse`, `Expire` fall anywhere.  Auth, network and host are external: they are what the docstring at
`adapters/hooks.py:276-301` requires of a host.  `MediaHash` is the deprecated hasher's result, which
is no hash of the raw body.  `SingleUse` is the promise: under a challenge at most one write, of the
purpose and the body it was raised for.  `ActsOnce` is its specification, checked as a property.
`RefusalTellsSpent` says which refusals a caller can rely on when it decides whether to ask the user again:
all but a 502, a 503, a 504 and a crash.

| run | instance | shows |
|---|---|---|
| operation_step_up | two requests, a challenge, two purposes, two bodies, three calls | `IInv`, `WrittenIsNeverMissed`, `RefusalTellsSpent`, `ActsOnce` |
| operation_unhashed | one request, a challenge, two calls | *violated*: `UnhashedSpendsNothing` |

Bounds.  A challenge only meets the requests that name it, so one challenge loses nothing; two
requests race for it and the third call is a retry after either.  Deadlock is not checked: when the
only act is stored nothing is left to do.  Requests, purposes and bodies are symmetric, and only
safety is checked.  Left out: `user_ref`, which never varies within a challenge, and how an error
body is parsed.

### Planes
The host wires its authenticators (`Init`), mounts routes (`Mount`, with the part of the registration
that a refusal half-way leaves behind), adds bare ones (`AddRoute`), runs `VerifyApp` and `Verify` in
the order the middleware's docstring shows, and serves.  `rows`, `classPlane`, `classVersion` are the
registry; `app` is the router, which holds one resource per template (external).  A request
(`Requests`) presents credentials, each of which its authenticator finds absent, valid, invalid, a
forwarding hop's, or cannot check without a lookup; `ProcessResource` is the middleware and the answer.
One answer is kept at a time, because `process_resource` keeps nothing between requests.

| run | instance | shows |
|---|---|---|
| planes | 20 declarations, 3 bare routes, 3 wirings, 4 calls, 2 credentials per request | `IInv`, `ClassPurity`, `EndpointPlaneIsFinal`, `NothingRunsUnproven`, `BootLeavesNothingToFind`, `MismatchIsForeign`, `AliasHasTwin` |
| planes_late_route | the same, 3 calls, and a bare route added while serving | *violated*: `UnregisteredIsRefused` |

Bounds.  The declarations hold the right one of each plane and, for each refusal of `register`, one
that meets it.  Four calls are what the longest history needs: a class pinned, a path mounted, a
conflict half-way, a bare route.  Two credentials are the declared one's and a foreign one's.
Deadlock is not checked, since a service that a boot check refuses has stopped.  Exempt
paths are answered unchecked, as the code does.
`AliasHasTwin` says that the unversioned URL of a vendor's callback never loses its twin: no later mount
removes it or moves it off the plane.  It says no more, because the code promises no more: the twin may
be a `/.well-known/` route, which has no version either although the message of the refusal asks for "a
versioned CALLBACK route" (`routing.py:312`), and remounting either may give it another class or
credential.
Left out: `lint_routes`, which only reports; a bare route over a mounted path with the same methods,
which `verify_app` cannot see and which is the same resource to it; the bodies of the refusals.

### Policy, Entitlement
`Policy` is the tables a service is written with (registry, expansion, peers, grant register) as one
record, casbin's verdict on them (`Enforce`: the g rows chained as far as they go, a name linked to
itself) and the four build-time checks; it has no state.  `Entitlement` builds the `engine` from them
at `Import` and then follows one request at a time through `require` (`Arrive`, a resolver's answer
that is fresh or kept, `Judge` for all that follows without an await) and `require_elevated`
(`StepUpFetch`, `StepUpCheck`).  Auth changes the session between any two steps: `Regrant`, `Revoke`,
`Reassure`; time passes (`Tick`).  `Select` is `select` with its refusals in the code's order.  How
old a kept copy may be is `TrustResolver`'s; here it may be any earlier answer.  A session's trust is
auth's two fields, a level and until when (`tier`), which the schema does not tie together: an elevation
may have an end, an unreadable one or none, and an end may outlive its elevation.  `Projected` is
`project`; auth may project its own answer or not, since `check_session_elevated` does not rely on it.
`wasLive` and
`decided` are history: what auth had been since the gate was reached, and when the grants were judged.

| run | instance | shows |
|---|---|---|
| entitlement | 582 policies through the checks, two of them followed; 12 principals, 16 requests, 3 instants | `TypeOK`, `TwoHops`, `OpenedByRight`, `OnboardingLeadsIn`, `ChallengeCanHelp`, `StepUpIsLive` |

Bounds.  The policies put a name on every two of the sides a name can be on; the two that are followed
are a sound one and one whose register was not checked, with an unbounded subject grant.  One request
at a time is enough because requests share nothing but the kept copy, which the model already lets be
any earlier answer.  Three instants put a delegation and an elevation before, at and past their end;
six tiers stand for what auth may say of a session's trust.
`StepUpIsLive` holds a handler to the window auth named, where it named one.  An elevation stated without an
end is let through, which the run includes; that none such is honoured, as the documents say (see the end
of this section), is true only if auth never states one, and that assumption is not part of the model.
Deadlock is not checked: a refused policy ends the service.  `OnboardingLeadsIn` is claimed only where the
register lists `ONBOARDING_GRANT` and `CUSTOMER_GRANT` as a customer's own (`NamedAreCustomers`): no check
of the code demands it.  The last part of `TwoHops` is claimed only
where the register was passed to `verify_policy`; without it nothing keeps a grant from being spelled
like an entitlement.
Left out: casbin's limit of ten links (no accepted policy has more than one); a `require` whose
middleware did not run, which refuses; the service plane's hooks (module `EastWest`).

### Selectors, Tokens
`Selectors` is `Selector.extract` and `overlaps`.  `Tokens` is one authenticator, chosen by `Configure`
(`JWTAuthenticator` with each kind of loader, the boolean `RemoteJWKSAuthenticator`, or
`ReferenceAuthenticator`) and one request at a time through it, with a step at each await: the store's key
(`VerifyToken`), the lookup (`SourceReads`, then `LookupReturns` or `LookupFails`), the host's loader, the
binding.  Between any two steps time passes, the issuer rotates its keys and the source revokes or
issues.  A token is what the checks tell apart: the key it names and the one that signed it, whether its
required claims, its `sid` and `jti`, its issuer and audience are right, its instants, its other claims.
`Verify` is `JWKSVerifier.verify` with PyJWT's order of checks (external: `Decoded`, `Whole`,
`Premature`, `Expired`) and the code's floor.  Assumed: a wall clock that does not go back, and a
`get_key` that serves what is held or what the issuer publishes now (`JWKSStore` says how).

### Callbacks
`Receive` is one message of the client, any part of the body it has still to send; `Disconnect` ends it;
`Check` is `HMACAuthenticator.__call__`, `Handle` the application's reading of what `_replay` gives it.
`RotateSecret` and `ClockTick` fall anywhere.  A body is a sequence of bytes whose first is the instant
the vendor says it signed at: the window means something only if `timestamp_of` reads what the signature
covers, and that is what the model assumes of the host.  A signature is the body it was made of and its
key.  Without `RawBodyBuffer` the check fails as a fault, which the model keeps as the outcome "wiring".

### EastWest
`Start` is the boot: `build_allow_list` over the rows in their order, with or without `peers=`, and the
decorators with or without `enforcer=`; a service that one of them refuses does not start.  `Connect` is a
handshake and `_capture_peer_cert`, `Begin` a request whose scope is stamped, `Hook` the two hooks.  The
policy is `Policy`'s.  Assumed: the policy was verified when it was imported, and the table is not
changed after boot.

### Credentials
`Credentials` is the service that mounts the three: their interleaving, since each authenticator keeps what
it keeps to itself.

| run | instance | shows |
|---|---|---|
| credentials | tokens: 11 tokens, 5 authenticators, 16 headers, one key, 9 instants of half a second; callbacks: 4 bodies, 3 wirings, 2 secrets and an empty one, 5 instants; east-west: 1152 deployments, of which 231 start, 2 names, 2 connections | `IInv`, `AcceptedIsProven`, `RefreshIsForOurs`, `AcceptedOnlyExpires`, `LifetimeIsBounded`, `CallbackIsVendorsWord`, `ReplayWindow`, `PeerOpensItsOwn` |
| credentials_callback | the east-west part alone | *violated*: `CallbackNeverOpensService` |

`PeerOpensItsOwn` is about SERVICE rows, and about CALLBACK rows only where the hook tells them apart
(`KindCounts`): on a vendor's route, or where the policy is asked.  What becomes of a CALLBACK row that lists
capabilities under a hook that asks no policy is `credentials_callback`'s question.

Bounds.  Each behaviour of the run follows one of the three parts, so the instance is their sum; the
proofs let any of them work at once.  The tokens are a
good one and, for each check, one that only it refuses; instants of half a second put `exp`, `iat` and the
leeway at, before and after a whole second, and a lifetime of the cap and one past it are among them.
The bodies are empty, a beginning of one another, and stamped in the future; the clock passes twice the
skew.  One key suffices because a token names one; two connections are one and another.  Deadlock is not
checked, since a service that is refused at boot has stopped.

### What the runs found
* A copy written just after a denial is served for up to the *storage* time, as last-good, and not
  only for `routine_ttl` as the caveat at `trustcontext.py:594` says.
* A copy read at the instant it was stamped has age 0 and passes for a fresh answer at
  `resolver.py:204`; `RefusalIsAuthsAnswer` states that exception.
* A JWKS fetch under way when the store is pinned replaces the pinned keys for good (`jwks.py:193`).
  A poller started while another is being stopped is forgotten by `stop_polling` (`jwks.py:237`) and
  polls on; what it brings obeys every property, so this is reported as a hazard only.
* A handler that computes no hash for a body-bound challenge is refused after the challenge was spent
  (`operation.py:236`), where the comment says that it is not.
* `outbound.py:134` tells a connection dropped after the send as unavailable, although the challenge
  may be spent; `RefusalTellsSpent` says that the refusals that are not such are reliable.
* A bare route added after the boot checks, on a path that has a row for another method, runs its
  handler unchecked (`middleware.py:308`).
* `hooks.py:131` and `EASTWEST.md:246` say that a CALLBACK principal on a SERVICE route is refused in both
  modes; without `enforcer=` (`hooks.py:154`), a CALLBACK row that lists the capability opens it.
* `check_register_disjoint` looks at the entitlements that open something, not at the targets of the
  expansion; `AcceptedIsTwoHops` shows that `check_flatness` makes up for it.

Where the words and the code part, met while modelling, with no run of their own:
* `ASSURANCE.md:174` says never to project an elevation that cannot be bounded, and a test is named
  `test_an_unbounded_elevation_is_not_honoured` (`test_assurance_stepup.py:110`; it tries an unparseable
  window only).  `project` leaves an elevation whose `trust_elevated_until` is null as it is
  (`trustcontext.py:278`), the schema admits one (`:233`), and `check_session_elevated` looks at the level
  alone: the handler runs, and no window ever closes.  `Projected` does the same, and `StepUpIsLive` says no
  more than the code does.  Whether auth ever sends one is not in this repository.
* An injected cache that raises ends a request auth had answered for (`resolver.py:291`, and `:279`); the
  code guards the other two cache calls and says that an optimisation failing must not refuse anyone
  (`resolver.py:301`).
* `jwt_authenticator` says that a store's or a fetcher's fault is `AuthzUnavailable`, "never
  `Unauthenticated`" (`authenticators.py:750`); but `JWKSStore.get_key` swallows a failed fetch,
  so a token under a key that is not held is answered as an unknown kid, 401.
* `JWKSVerifier.verify` documents `InvalidToken` "on any failure"; an `iat` that is a string of digits
  passes PyJWT's `int()` and fails at the code's `math.floor`, a fault (503).
* `jwks.py:333` says `sub` is not forwarded even when listed; `principal_claims` forwards it if listed.
* `RemoteJWKSAuthenticator` says it raises nothing; its `user_cls` is built outside the `try`.
* No check demands that `CUSTOMER_GRANT` is registered as a customer's own grant, on which the promise of
  the onboarding refusal (`hooks.py:490`) rests.

## 4. What is proved

Each proof is of the whole specification, for every value of the constants its module's `ASSUME`s
allow, which the runs evaluate on their instances.

**TrustResolverProofs** proves, for any number of requests, any lifetimes, skew and timeout:
`TypeCorrect`, `HeldAnswersAreHonest` (the inductive invariant `IInv`), from it the five safety
properties of the runs, and the refinement `DecisionsAreAuths`. The properties are about the step in
which a request concludes, and are not inductive: they need to know that what the request holds was
auth's current answer no longer ago than its stamp, its storage time and its call's start tell. That
is what `IInv` adds: `StampHonest` of the cache and of each held copy, `CurrentSince` of each
answer. It is preserved because a version only stops being current at `now`, and no step sets a
stamp later than `now + MaxSkew` or moves a `since` back. It also says that a stored copy is of a
live version, which the refinement needs. For that one, `WaitingStep` shows that a step of a waiting
request is a stutter, an insistence or a verdict, and `AnswersRightly` that each verdict is one
`SessionDecision` may give, by the same lemmas as the five properties. `RequestsNearTheirEnd` is the safety half of
`EveryRequestEnds`: each of a request's own steps lowers `StepsLeft`, and no other step moves it. It
rests on `IInv` too: that whoever holds or asks for a copy has not asked its second question yet is what
keeps a mismatch from being asked about again. Each call ends within `CallTimeout`, so a request takes at
most five of them. The only assumption is `ResolverAssumption` on the constants.

**JWKSStoreProofs**: `IInv` says that whoever fetches holds the lock, hence that one fetch runs at a
time, and that what it brings is no older than what the store holds or than the fetch's start.  From
it: a key set is never replaced by an older one, a served key was published within `TTL` and a
fetch's timeout, and a miss is the issuer's own answer at some instant of the call.  Its part
`QueueInv`, that the queue holds each waiting task once and that the lock's holder fetches, gives the
safety half of `EveryLookupEnds`: `TheLockIsNeverLost`, so that a waiting task's turn depends on one
fetch, which ends, and `FirstComeFirstServed`, so that the finite set of tasks ahead of it only shrinks.
What is left to TLC is the step from "some task ahead can always go" to "it goes", which is fairness.
`StoreIsADirectory` is the refinement: a return from what is held is an answer of the directory (its age by
`KeysInv`), a fetch that returns is a renewal (by `FetchInv`), and every other step is not seen.

**OperationStepUpProofs**: `IInv` joins four facts that need each other.  `KeysInv`: a key belongs to
one message, and a message has one answer.  `SpentOnce`: of the messages of a challenge one consumed
it.  `WritesInv`: who holds that answer has not written yet, and who wrote holds none.
`ReservationInv`: an unlapsed reservation has one request working under it.  Then every step is a
step of `SingleUse` or a stutter (`StepUpAuthorizesOneWrite`), and `WrittenIsNeverMissed` holds.
`RefusalsTell` follows from `KeysInv` (the answer a refused request has is its key's only one) and
`WritesInv` (who is verified holds an answer that consumed).

**PlanesProofs**: `RowsKeepPins` is inductive for any declarations, refused half-way or not, because
each row is written only under pins that the same call has set or agreed with; `ClassPurity` and
`EndpointPlaneIsFinal` follow.  `ServiceIsProven` (`NothingRunsUnproven`, `BootLeavesNothingToFind`)
holds where `LateRoutes` is false: what the checks accepted stays so, since nothing writes a row after
them.  `AliasesKeepTheirTwin` follows from `EndpointPlaneIsFinal`'s lemma, that a mount keeps a row's
plane; `MismatchesAreForeign` from what the middleware tries before it answers "no such route".

**PolicyProofs** proves `AcceptedIsTwoHops` for any names and tables: in a policy that
`verify_policy` accepts no name in the middle has a row of its own, so the set of a name and its
direct rows is closed, and what is linked to it lies in that set.  **EntitlementProofs** carries it to
the running service: `EngineIsTwoHops`, whose invariant says that a serving engine is the one its
accepted policy makes; `ElevationIsLive` and `ChallengesHelp`, whose invariant says that what the gate
holds, auth said after the gate was reached, and which rest on two facts of a tier, that `project` keeps an
elevation exactly while it lasts and that time only ends it; `OnlyRightsOpen`, for which selections are sets of records
with their place, not sequences; and `OnboardingLeads`.

**CredentialsProofs** proves each property of `Tokens` and `Callbacks` from `TokensInv` and `CallbacksInv`.
`TokensInv` says that the verdict is `Verify`'s on this token at the instant it was judged, that a watched
token's first verdict was "ok", and that the source has known what it answers for since the request came;
`CallbacksInv`, that the wrapper holds a beginning of the body and what it keeps is the body.  What is left
of each property is arithmetic on one or two instants, as of `LifetimesAreBounded`.
`OneHeaderOneCredential` is about `Selectors` alone.  **EastWestProofs**: `EastWestInv` says that what is
captured and stamped is the connection's own, and that the allow list is the one the accepted rows make;
`PeersOpenTheirOwn` follows for any tables, a CALLBACK row being left out where its kind is not heeded.  `EachPlaneAsAlone` is their composition: the service
implements the specification of each plane, by a step simulation in which a step of one is a stutter of the
others, so that `InvariantsStand` and every promise above hold of it, whichever planes are at work at once.

Only model-checked.  `EveryRequestEnds` and `EveryLookupEnds`: liveness under fairness is out of the
prover's reach; `RequestsNearTheirEnd`, `TheLockIsNeverLost` and `FirstComeFirstServed` are what of them
is safety.  Every other property of a passing run is stated by a theorem.  Three properties are theorems with no line
of their own in a run, since a run checks what implies them: `RotationsNeverGoBack` (by
`LookupsReadOneDirectory`), `LockIsHandedOn` and `BufferIsBounded` (by the `IInv` of their runs).

## 5. What is not modelled

`CustomAuthenticator` is the host's own code.  Of the east-west plane, the wiring of uvicorn's protocol
classes and `build_uvicorn_ssl_kwargs` have no state.  PyJWT, `hmac`, casbin and aiohttp are external and
modelled by what the code uses of them.  The rendering of errors (`errors.py`,
`wire.py`, `adapters/errors.py`): a table without state.  The test doubles (`GrantAllResolver`), the
deprecated aliases and the lazy re-exports of the packages: no decision of their own.
