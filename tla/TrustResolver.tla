---------------------------- MODULE TrustResolver ----------------------------
(***************************************************************************)
(* The authorization decision of one session: AuthServiceResolver.resolve  *)
(* (entitlement/resolver.py) over the trust-context cache shared by every  *)
(* worker (trustcontext.py) and the auth service it asks.                  *)
(*                                                                         *)
(* Each request is a coroutine of some worker.  It gives up control at     *)
(* every await, so a cache read, a question to auth and a cache write are  *)
(* separate steps and the session may be revoked, its token rotated or its *)
(* copy rewritten by another request between any two of them.  A read and  *)
(* a question have two steps, the answer leaving the server and the        *)
(* coroutine resuming with it; a write resumes in the step that applies    *)
(* it, since what follows uses only what the coroutine already holds.      *)
(*                                                                         *)
(* A trust context is the number of the version of the session that auth   *)
(* had when it answered: history[v] holds what the decision reads of it.   *)
(* Grants, trust levels and the elevation window are not distinguished.    *)
(***************************************************************************)
EXTENDS Integers, Sequences

CONSTANTS
    Requests,      \* the coroutines that may be resolving at one time
    Null,          \* current_jti is null in the feed
    Absent,        \* the feed has no current_jti field
    NoJti,         \* the token carries no jti
    Strictness,    \* strict_current_jti, among the workers' resolvers
    CacheRaises,   \* the injected cache raises on failure; RedisCache does not
    RoutineTTL,    \* routine_ttl
    LastGoodTTL,   \* last_good_ttl
    JtiStaleness,  \* jti_staleness
    CallTimeout,   \* the host's timeout on one call to the cache or to auth
    MaxSkew,       \* how far apart two workers' wall clocks may be
    InitialJti,    \* what the feed may name at the start
    MaxTime,       \* bound: the last instant
    MaxVersions    \* bound: the versions a session goes through

ASSUME ResolverAssumption ==
    /\ Null \notin Nat /\ Absent \notin Nat /\ NoJti \notin Nat
    /\ Null # Absent /\ NoJti # Null /\ NoJti # Absent
    /\ Strictness \subseteq BOOLEAN /\ CacheRaises \in BOOLEAN
    /\ RoutineTTL \in Nat /\ LastGoodTTL \in Nat /\ JtiStaleness \in Nat
    /\ CallTimeout \in Nat /\ MaxSkew \in Nat
    /\ InitialJti \subseteq {0, Null, Absent}
    /\ MaxTime \in Nat /\ MaxVersions \in Nat

VARIABLES
    now,      \* wall time at the slowest worker
    history,  \* auth's versions of the session; the last one is current
    cache,    \* the shared entry lastgood:<session_ref>
    pc,       \* where each request is
    call,     \* each request's arguments, and the version current when it began
    held,     \* the answer each request holds, or NoAnswer
    since,    \* when each request's outstanding call was made
    verdict   \* what the last request of each coroutine concluded

vars == <<now, history, cache, pc, call, held, since, verdict>>
-----------------------------------------------------------------------------
\* A token is named by the version that minted it.
Jti == Nat \cup {Null, Absent}
Token == Nat \cup {NoJti}
SessionState == {"enabled", "revoked", "gone"}
Version == [state : SessionState, jti : Jti, since : Nat]

NoAnswer == [v |-> 0, stamp |-> 0]
Unstamped == -1                  \* an entry written by 0.9.x
Answer == [v : Nat, stamp : Nat \cup {Unstamped}]

\* An absent entry, the tombstone of `forget` and an unparseable entry are
\* one value: `read` answers None for each.
NoCopy == [v |-> 0, stamp |-> 0, setAt |-> 0]
Entry == [v : Nat, stamp : Nat \cup {Unstamped}, setAt : Nat]

Waiting == {"reading", "read", "asking", "answered", "writing", "forgetting",
            "rescuing", "rescued"}
Verdict == {"none", "allowed", "denied", "superseded", "unauthenticated",
            "unavailable", "misconfigured", "error"}

Current == Len(history)
NoCall == [closed |-> FALSE, strict |-> FALSE, token |-> NoJti, began |-> 1, ahead |-> 0]
Call ==
    [closed : BOOLEAN, strict : BOOLEAN, token : Token, began : Nat, ahead : 0..MaxSkew]

TypeOK ==
    /\ now \in Nat
    /\ history \in Seq(Version) /\ Len(history) > 0
    /\ cache \in Entry
    /\ pc \in [Requests -> Waiting \cup {"idle"}]
    /\ call \in [Requests -> Call]
    /\ held \in [Requests -> Answer]
    /\ since \in [Requests -> Nat]
    /\ verdict \in [Requests -> Verdict]

Init ==
    /\ now = 0
    /\ \E jti \in InitialJti :
          history = <<[state |-> "enabled", jti |-> jti, since |-> 0]>>
    /\ cache \in {NoCopy, [v |-> 1, stamp |-> Unstamped, setAt |-> 0]}
    /\ pc = [r \in Requests |-> "idle"]
    /\ call = [r \in Requests |-> NoCall]
    /\ held = [r \in Requests |-> NoAnswer]
    /\ since = [r \in Requests |-> 0]
    /\ verdict = [r \in Requests |-> "none"]
-----------------------------------------------------------------------------
\* Auth: what happens to the session, and the passing of time.

Become(state, jti) ==
    /\ Current < MaxVersions
    /\ history' = Append(history, [state |-> state, jti |-> jti, since |-> now])
    /\ UNCHANGED <<now, cache, pc, call, held, since, verdict>>

\* The client refreshes: auth mints a token and names it, if it names any.
Refresh ==
    /\ history[Current].state = "enabled"
    /\ history[Current].jti # Absent
    /\ Become("enabled", Current)

\* Auth deploys the current_jti column: null until the session is refreshed.
DeployCurrentJti ==
    /\ history[Current].jti = Absent
    /\ Become(history[Current].state, Null)

\* Logout, or an operator's kill: answered 200, with the state set.
Revoke ==
    /\ history[Current].state = "enabled"
    /\ Become("revoked", history[Current].jti)

\* The session is over: answered 404 or 410.
End ==
    /\ history[Current].state # "gone"
    /\ Become("gone", history[Current].jti)

\* No call outlives the host's timeout.
Tick ==
    /\ now < MaxTime
    /\ \A r \in Requests : pc[r] \in Waiting => now - since[r] < CallTimeout
    /\ now' = now + 1
    /\ UNCHANGED <<history, cache, pc, call, held, since, verdict>>

\* The cache server loses the entry: eviction, restart, flush.
CacheEvicts ==
    /\ cache # NoCopy
    /\ cache' = NoCopy
    /\ UNCHANGED <<now, history, pc, call, held, since, verdict>>
-----------------------------------------------------------------------------
Least(a, b) == IF a <= b THEN a ELSE b
Greatest(a, b) == IF a >= b THEN a ELSE b

\* Fault: the two lifetimes are added.
StorageTTLSummed == LastGoodTTL + RoutineTTL

\* How long the cache server keeps an entry.
StorageTTL == Greatest(LastGoodTTL, RoutineTTL)

\* How young a copy must be to be served without asking auth.
RoutineBound == Least(RoutineTTL, JtiStaleness)

\* The clock of the worker the request runs on.
Clock(r) == now + call[r].ahead

\* math.inf: no stamp, or a stamp in this worker's future.
Unknown == -1
Age(r, stamp) ==
    IF stamp = Unstamped \/ Clock(r) < stamp THEN Unknown ELSE Clock(r) - stamp

\* Fault: a copy is served at its bound.
YoungerOrEqual(age, bound) == age # Unknown /\ age <= bound

YoungerThan(age, bound) == age # Unknown /\ age < bound
OlderThan(age, bound) == age = Unknown \/ age > bound

\* Fault: lenient does not look at the token at all.
JtiRulingSkipped(strict, token, jti, age) ==
    IF ~strict THEN "allowed" ELSE IF token = jti THEN "allowed" ELSE "superseded"

\* check_current_jti: "allowed", or the error it raises.
JtiRuling(strict, token, jti, age) ==
    IF strict /\ token = NoJti THEN "unauthenticated"
    ELSE IF OlderThan(age, JtiStaleness) \/ jti = Absent
         THEN IF strict THEN "unavailable" ELSE "allowed"
    ELSE IF jti = Null THEN IF strict THEN "superseded" ELSE "allowed"
    ELSE IF token = NoJti THEN "unauthenticated"
    ELSE IF token # jti THEN "superseded"
    ELSE "allowed"

\* The coroutine makes another call and waits for it.
Await(r, where, answer) ==
    /\ pc' = [pc EXCEPT ![r] = where]
    /\ since' = [since EXCEPT ![r] = now]
    /\ held' = [held EXCEPT ![r] = answer]
    /\ verdict' = [verdict EXCEPT ![r] = "none"]

\* resolve returns a Principal, or raises, or is cancelled.
Conclude(r, kind) ==
    /\ pc' = [pc EXCEPT ![r] = "idle"]
    /\ verdict' = [verdict EXCEPT ![r] = kind]
    /\ since' = [since EXCEPT ![r] = 0]
    /\ held' = [held EXCEPT ![r] = NoAnswer]
    /\ call' = [call EXCEPT ![r] = NoCall]

\* Faults: a copy's mismatch is final; a mismatch is always asked about again.
DecideOnCopy(r, v, age) ==
    Conclude(r, JtiRuling(call[r].strict, call[r].token, history[v].jti, age))

DecideForever(r, v, age) ==
    LET ruling == JtiRuling(call[r].strict, call[r].token, history[v].jti, age)
    IN IF ruling = "superseded"
       THEN Await(r, "asking", NoAnswer) /\ UNCHANGED call
       ELSE Conclude(r, ruling)

\* The current-token check on the context in hand; a mismatch with a copy is
\* put to auth once more, as a read that fails closed.
Decide(r, v, age) ==
    LET ruling == JtiRuling(call[r].strict, call[r].token, history[v].jti, age)
    IN \/ /\ ruling = "superseded" /\ age # 0
          /\ Await(r, "asking", NoAnswer)
          /\ call' = [call EXCEPT ![r].closed = TRUE]
       \/ /\ ~(ruling = "superseded" /\ age # 0)
          /\ Conclude(r, ruling)
-----------------------------------------------------------------------------
\* Any token auth ever minted for the session, or one that has no jti.
Presentable ==
    {0, NoJti} \cup ({history[i].jti : i \in 1..Current} \ {Null, Absent})

\* A route of some worker asks for the principal: for a routine operation, for
\* a routine one but fresh, or for a consequential one.
Start(r) ==
    \E mode \in {"routine", "fresh", "consequential"},
       strict \in Strictness, token \in Presentable, ahead \in 0..MaxSkew :
        /\ pc[r] = "idle"
        /\ call' = [call EXCEPT ![r] =
                        [closed |-> mode = "consequential", strict |-> strict, token |-> token,
                         began |-> Current, ahead |-> ahead]]
        /\ Await(r, IF mode = "routine" /\ RoutineBound > 0 THEN "reading"
                    ELSE "asking", NoAnswer)
        /\ UNCHANGED <<now, history, cache>>

\* The cache server answers a read: the entry, unless its storage time passed.
CacheReplies(r) ==
    /\ pc[r] \in {"reading", "rescuing"}
    /\ pc' = [pc EXCEPT ![r] = IF pc[r] = "reading" THEN "read" ELSE "rescued"]
    /\ held' = [held EXCEPT ![r] =
                    IF cache # NoCopy /\ now < cache.setAt + StorageTTL
                    THEN [v |-> cache.v, stamp |-> cache.stamp] ELSE NoAnswer]
    /\ UNCHANGED <<now, history, cache, call, since, verdict>>

\* The routine copy arrives: served if it is young enough, else auth is asked.
UseCopy(r) ==
    /\ pc[r] = "read"
    /\ LET age == Age(r, held[r].stamp)
           usable == held[r] # NoAnswer /\ YoungerThan(age, RoutineBound)
       IN \/ usable /\ Decide(r, held[r].v, age)
          \/ ~usable /\ Await(r, "asking", NoAnswer) /\ UNCHANGED call
    /\ UNCHANGED <<now, history, cache>>

\* A routine read that raises is a miss.
CacheReadFails(r) ==
    /\ pc[r] \in {"reading", "read"}
    /\ Await(r, "asking", NoAnswer)
    /\ UNCHANGED <<now, history, cache, call>>

\* Auth answers with the session as it is now.
AuthAnswers(r) ==
    /\ pc[r] = "asking"
    /\ pc' = [pc EXCEPT ![r] = "answered"]
    /\ held' = [held EXCEPT ![r] = [v |-> Current, stamp |-> 0]]
    /\ UNCHANGED <<now, history, cache, call, since, verdict>>

\* Fault: a session answered 200 is taken for a live one.
UseAnswerUnchecked(r) ==
    /\ pc[r] = "answered"
    /\ Await(r, "writing", [v |-> held[r].v, stamp |-> Clock(r)])
    /\ UNCHANGED <<now, history, cache, call>>

\* An ENABLED answer is stamped and written; any other destroys the copy.
UseAnswer(r) ==
    /\ pc[r] = "answered"
    /\ \/ /\ history[held[r].v].state = "enabled"
          /\ Await(r, "writing", [v |-> held[r].v, stamp |-> Clock(r)])
       \/ /\ history[held[r].v].state # "enabled"
          /\ Await(r, "forgetting", NoAnswer)
    /\ UNCHANGED <<now, history, cache, call>>

\* Auth is unreachable, answers an error or too late: AuthzUnavailable.
FetchFails(r) ==
    /\ pc[r] \in {"asking", "answered"}
    /\ \/ call[r].closed /\ Conclude(r, "unavailable")
       \/ ~call[r].closed /\ Await(r, "rescuing", NoAnswer) /\ UNCHANGED call
    /\ UNCHANGED <<now, history, cache>>

\* Auth answers 403: this service may not read trust contexts.
FetchForbidden(r) ==
    /\ pc[r] = "asking"
    /\ Conclude(r, "misconfigured")
    /\ UNCHANGED <<now, history, cache>>

\* The write is applied: storage keeps the entry from now on.
Stored(r) == [v |-> held[r].v, stamp |-> held[r].stamp, setAt |-> now]

CacheStores(r) ==
    /\ pc[r] = "writing"
    /\ cache' = Stored(r)
    /\ Decide(r, held[r].v, 0)
    /\ UNCHANGED <<now, history>>

\* The write fails, applied or not; a cache that raises ends the request.
CacheStoreFails(r) ==
    /\ pc[r] = "writing"
    /\ cache' \in {cache, Stored(r)}
    /\ \/ CacheRaises /\ Conclude(r, "error")
       \/ ~CacheRaises /\ Decide(r, held[r].v, 0)
    /\ UNCHANGED <<now, history>>

\* The copy of a session that is over is overwritten; a failure is logged.
Forget(r) ==
    /\ pc[r] = "forgetting"
    /\ cache' \in {cache, NoCopy}
    /\ Conclude(r, "denied")
    /\ UNCHANGED <<now, history>>

\* The last-good copy arrives, whatever its age.
UseLastGood(r) ==
    /\ pc[r] = "rescued"
    /\ \/ /\ held[r] = NoAnswer
          /\ Conclude(r, "unavailable")
       \/ /\ held[r] # NoAnswer
          /\ Decide(r, held[r].v, Age(r, held[r].stamp))
    /\ UNCHANGED <<now, history, cache>>

LastGoodReadFails(r) ==
    /\ pc[r] \in {"rescuing", "rescued"}
    /\ Conclude(r, IF CacheRaises THEN "error" ELSE "unavailable")
    /\ UNCHANGED <<now, history, cache>>

\* The client goes away or the worker dies: nothing more is done.
Cancel(r) ==
    /\ pc[r] \in Waiting
    /\ Conclude(r, "none")
    /\ UNCHANGED <<now, history, cache>>
-----------------------------------------------------------------------------
\* What the host's event loop, its timeouts and the servers do for a request.
Resume(r) == UseCopy(r) \/ UseAnswer(r) \/ UseLastGood(r)
CallEnds(r) ==
    \/ CacheReplies(r) \/ CacheReadFails(r) \/ LastGoodReadFails(r)
    \/ AuthAnswers(r) \/ FetchFails(r) \/ FetchForbidden(r)
    \/ CacheStores(r) \/ CacheStoreFails(r) \/ Forget(r)

Auth == Refresh \/ DeployCurrentJti \/ Revoke \/ End

Next ==
    \/ Auth \/ Tick \/ CacheEvicts
    \/ \E r \in Requests :
          Start(r) \/ Resume(r) \/ CallEnds(r) \/ Cancel(r)

Spec == Init /\ [][Next]_vars

\* The event loop resumes every coroutine, and every call ends: answered by
\* its server or by the host's timeout.
Fairness == \A r \in Requests : WF_vars(Resume(r) \/ CallEnds(r))
FairSpec == Spec /\ Fairness
-----------------------------------------------------------------------------
\* The versions auth had at some instant since the request began.
Seen(r) == call[r].began..Current

\* Auth's answer accepts the token; lenient, it may name no token.
Accepts(strict, jti, token) == jti = token \/ (~strict /\ jti \in {Null, Absent})

\* The step in which a request concludes so.
Concludes(r, kind) ==
    pc[r] \in Waiting /\ pc'[r] = "idle" /\ verdict'[r] = kind

\* A request that fails closed -- consequential, or a second question about a
\* token a copy did not name -- is allowed only if at some instant since it
\* began the session was live and its current token was the one presented
\* (resolver.py, resolve and _context: such a read is never served a copy).
ClosedReadIsLinearizable ==
    [][\A r \in Requests : Concludes(r, "allowed") /\ call[r].closed =>
         \E v \in Seen(r) : /\ history[v].state = "enabled"
                            /\ Accepts(call[r].strict, history[v].jti, call[r].token)]_vars

\* No request is sent away, to re-authenticate or to refresh, on the word of a
\* copy: at some instant since it began auth's session was over, or auth named
\* another token (resolver.py, resolve: superseded is auth's answer to give).
\* A copy stamped at the very instant it is read counts as fresh, as in the code.
RefusalIsAuthsAnswer ==
    [][\A r \in Requests :
         /\ Concludes(r, "denied") =>
              \E v \in Seen(r) : history[v].state # "enabled"
         /\ Concludes(r, "superseded") =>
              \/ \E v \in Seen(r) : history[v].jti # call[r].token
              \/ pc[r] # "writing" /\ Age(r, held[r].stamp) = 0]_vars

\* Version v was auth's current one at some instant of the last d.
CurrentWithin(v, d) == v = Current \/ now - history[v + 1].since <= d

\* A routine request served the routine copy is behind auth by less than the
\* routine bound, plus the workers' skew and the time auth's answer travelled
\* before it was stamped (C-079 section 6: the window of a revoked session).
RoutineStaleness ==
    [][\A r \in Requests : Concludes(r, "allowed") /\ pc[r] = "read" =>
         CurrentWithin(held[r].v, Least(RoutineTTL, JtiStaleness) + MaxSkew + CallTimeout - 1)]_vars

\* A request served the last-good copy is behind auth by less than the storage
\* time, plus the travel of the answer, of the write and of the read.
OutageStaleness ==
    [][\A r \in Requests : Concludes(r, "allowed") /\ pc[r] = "rescued" =>
         CurrentWithin(held[r].v,
                       Greatest(LastGoodTTL, RoutineTTL) + 3 * CallTimeout - 1)]_vars

\* Strict, whatever copy served it, an allowed token is one auth named within
\* jti_staleness, plus skew and travel (C-078 section 5).
StrictTokenStaleness ==
    [][\A r \in Requests :
         call[r].strict /\ Concludes(r, "allowed") /\ pc[r] \in {"read", "rescued"} =>
            /\ history[held[r].v].jti = call[r].token
            /\ CurrentWithin(held[r].v, JtiStaleness + MaxSkew + CallTimeout)]_vars

\* The inductive invariant behind the properties above.  What a request or the
\* cache holds was auth's answer no longer ago than its times tell.
CurrentSince(v, t) == v = Current \/ history[v + 1].since >= t

StampHonest(a) ==
    a.stamp # Unstamped =>
        /\ a.stamp <= now + MaxSkew
        /\ CurrentSince(a.v, a.stamp - MaxSkew - CallTimeout)

HistoryInv == \A v \in 1..Current : history[v].since <= now

CacheInv ==
    cache # NoCopy =>
        /\ cache.v \in 1..Current
        /\ cache.setAt <= now
        /\ history[cache.v].state = "enabled"
        /\ StampHonest(cache)
        /\ CurrentSince(cache.v, cache.setAt - 2 * CallTimeout)

WaitInv(r) ==
    pc[r] \in Waiting => /\ call[r].began \in 1..Current
                         /\ since[r] <= now /\ now <= since[r] + CallTimeout

\* A request that holds or asks for a copy may be served one.
CopyInv(r) ==
    /\ pc[r] \in {"reading", "read", "rescuing", "rescued"} => ~call[r].closed
    /\ pc[r] \in {"read", "rescued"} /\ held[r] # NoAnswer =>
         /\ held[r].v \in 1..Current /\ StampHonest(held[r])
         /\ history[held[r].v].state = "enabled"
    /\ pc[r] = "rescued" /\ held[r] # NoAnswer =>
         /\ StorageTTL > 0
         /\ CurrentSince(held[r].v, since[r] + 1 - StorageTTL - 2 * CallTimeout)

\* A request that holds auth's answer got it after it began.
AnswerInv(r) ==
    /\ pc[r] \in {"answered", "writing"} => held[r].v \in Seen(r)
    /\ pc[r] = "answered" => CurrentSince(held[r].v, since[r])
    /\ pc[r] = "writing" => /\ history[held[r].v].state = "enabled"
                            /\ StampHonest(held[r])
                            /\ CurrentSince(held[r].v, since[r] - CallTimeout)
    /\ pc[r] = "forgetting" => \E v \in Seen(r) : history[v].state # "enabled"

IInv ==
    /\ TypeOK /\ HistoryInv /\ CacheInv
    /\ \A r \in Requests : WaitInv(r) /\ CopyInv(r) /\ AnswerInv(r)

\* What a caller sees of a request: its question while it waits, then its verdict.
Decision ==
    INSTANCE SessionDecision WITH
        Lag <- Greatest(Least(RoutineTTL, JtiStaleness) + MaxSkew + CallTimeout,
                        Greatest(LastGoodTTL, RoutineTTL) + 3 * CallTimeout) - 1,
        TokenLag <- JtiStaleness + MaxSkew + CallTimeout,
        RefusalLag <- MaxSkew + CallTimeout,
        asked <- [r \in Requests |->
                    IF pc[r] \in Waiting THEN call[r] ELSE [began |-> 0]],
        verdict <- [r \in Requests |-> IF pc[r] \in Waiting THEN "none" ELSE verdict[r]]

\* The cache, its failures and its races are invisible: whatever path a request
\* took, the session it is allowed for was live, no longer ago than the bounds
\* say, and a refusal is auth's own (resolver.py, resolve; C-078, C-079).
DecisionIsAuths == Decision!Spec

\* A request ends: it puts its question to auth at most once more, and an
\* outage, a lost answer or a failing cache never leaves it waiting.
EveryRequestEnds ==
    \A r \in Requests : pc[r] \in Waiting ~> pc[r] \notin Waiting

\* How many of its own steps a request may still take, at most: it reads a copy,
\* asks auth, reads the last-good copy, insists, and stores or forgets.
StepsLeft(r) ==
    CASE pc[r] = "reading" -> 9
      [] pc[r] = "read" -> 8
      [] pc[r] = "asking" -> IF call[r].closed THEN 3 ELSE 7
      [] pc[r] = "answered" -> IF call[r].closed THEN 2 ELSE 6
      [] pc[r] = "rescuing" -> 5
      [] pc[r] = "rescued" -> 4
      [] pc[r] \in {"writing", "forgetting"} -> 1
      [] OTHER -> 0

\* No request goes round in a circle: whatever its calls answer, and whatever
\* others do to the cache and the session meanwhile, each of its own steps brings
\* it nearer its end and nobody else's step moves it.  So it makes at most five
\* calls, of which two to auth, whichever copy, outage and mismatch it meets
\* (resolver.py:211, the one re-read).
NeverGoesRound ==
    [][\A r \in Requests : pc[r] \in Waiting =>
         \/ StepsLeft(r)' < StepsLeft(r)
         \/ UNCHANGED <<pc[r], call[r], held[r], since[r]>>]_vars
=============================================================================
