-------------------------- MODULE TrustResolverProofs --------------------------
(***************************************************************************)
(* Theorems about TrustResolver, for any set of requests and any values of *)
(* the lifetimes, timeouts and skew.                                       *)
(***************************************************************************)
EXTENDS TrustResolver, TLAPS

\* check_current_jti allows the token or raises one of three errors.
LEMMA RulingKinds ==
    ASSUME NEW strict, NEW token, NEW jti, NEW age
    PROVE  JtiRuling(strict, token, jti, age) \in
             {"allowed", "superseded", "unauthenticated", "unavailable"}
BY DEF JtiRuling

\* A step of request r leaves auth, the clock and every other request alone.
RequestStep(r) == Start(r) \/ Resume(r) \/ CallEnds(r) \/ Cancel(r)

OthersKeep(r) ==
    \A q \in Requests \ {r} :
        /\ pc'[q] = pc[q] /\ call'[q] = call[q] /\ held'[q] = held[q]
        /\ since'[q] = since[q] /\ verdict'[q] = verdict[q]

LEMMA AwaitKeeps ==
    ASSUME TypeOK, NEW r \in Requests, NEW where \in Waiting, NEW answer \in Answer,
           Await(r, where, answer)
    PROVE  /\ pc' \in [Requests -> Waiting \cup {"idle"}]
           /\ held' \in [Requests -> Answer]
           /\ since' \in [Requests -> Nat]
           /\ verdict' \in [Requests -> Verdict]
           /\ pc'[r] = where /\ held'[r] = answer /\ since'[r] = now
           /\ verdict'[r] = "none"
           /\ \A q \in Requests \ {r} :
                 /\ pc'[q] = pc[q] /\ held'[q] = held[q] /\ since'[q] = since[q]
                 /\ verdict'[q] = verdict[q]
BY DEF TypeOK, Await, Verdict

LEMMA ConcludeKeeps ==
    ASSUME TypeOK, ResolverAssumption, NEW r \in Requests, NEW kind \in Verdict,
           Conclude(r, kind)
    PROVE  /\ pc' \in [Requests -> Waiting \cup {"idle"}]
           /\ call' \in [Requests -> Call]
           /\ held' \in [Requests -> Answer]
           /\ since' \in [Requests -> Nat]
           /\ verdict' \in [Requests -> Verdict]
           /\ pc'[r] = "idle" /\ verdict'[r] = kind
           /\ OthersKeep(r)
<1>1. NoCall \in Call
  BY DEF NoCall, Call, Token, ResolverAssumption
<1>2. NoAnswer \in Answer
  BY DEF NoAnswer, Answer
<1>3. QED
  BY <1>1, <1>2 DEF TypeOK, Conclude, OthersKeep

LEMMA DecideKeeps ==
    ASSUME TypeOK, ResolverAssumption, NEW r \in Requests, NEW v, NEW age,
           Decide(r, v, age)
    PROVE  /\ pc' \in [Requests -> Waiting \cup {"idle"}]
           /\ call' \in [Requests -> Call]
           /\ held' \in [Requests -> Answer]
           /\ since' \in [Requests -> Nat]
           /\ verdict' \in [Requests -> Verdict]
           /\ OthersKeep(r)
           /\ \/ /\ pc'[r] = "asking" /\ since'[r] = now
                 /\ call'[r] = [call[r] EXCEPT !.closed = TRUE]
              \/ /\ pc'[r] = "idle"
                 /\ verdict'[r] = JtiRuling(call[r].strict, call[r].token, history[v].jti, age)
                 /\ ~(verdict'[r] = "superseded" /\ age # 0)
<1> DEFINE ruling == JtiRuling(call[r].strict, call[r].token, history[v].jti, age)
<1>1. CASE ruling = "superseded" /\ age # 0
  <2>1. /\ Await(r, "asking", NoAnswer)
        /\ call' = [call EXCEPT ![r].closed = TRUE]
    BY <1>1 DEF Decide
  <2>2. NoAnswer \in Answer /\ "asking" \in Waiting
    BY DEF NoAnswer, Answer, Waiting
  <2>3. call' \in [Requests -> Call]
    BY <2>1 DEF TypeOK, Call
  <2>4. /\ call'[r] = [call[r] EXCEPT !.closed = TRUE]
        /\ \A q \in Requests \ {r} : call'[q] = call[q]
    BY <2>1 DEF TypeOK
  <2> QED
    BY <2>1, <2>2, <2>3, <2>4, AwaitKeeps DEF OthersKeep
<1>2. CASE ~(ruling = "superseded" /\ age # 0)
  <2>1. Conclude(r, ruling)
    BY <1>2 DEF Decide
  <2>2. ruling \in Verdict
    BY RulingKinds DEF Verdict
  <2> QED
    BY <2>1, <2>2, <1>2, ConcludeKeeps
<1> QED
  BY <1>1, <1>2
-----------------------------------------------------------------------------
LEMMA VersionTypes ==
    ASSUME TypeOK
    PROVE  /\ Current \in Nat \ {0}
           /\ \A v \in 1..Current : /\ history[v] \in Version
                                   /\ history[v].state \in SessionState
                                   /\ history[v].jti \in Jti
                                   /\ history[v].since \in Nat
<1>1. \A v \in 1..Len(history) : history[v] \in Version
  BY DEF TypeOK
<1> QED
  BY <1>1 DEF TypeOK, Current, Version

\* What a step of a request keeps: types, and everything that is not its own.
LEMMA RequestKeeps ==
    ASSUME TypeOK, ResolverAssumption, NEW r \in Requests, RequestStep(r)
    PROVE  TypeOK' /\ OthersKeep(r) /\ now' = now /\ history' = history
<1> NoAnswer \in Answer
  BY DEF NoAnswer, Answer
<1> {"reading", "asking", "writing", "forgetting", "rescuing"} \subseteq Waiting
  BY DEF Waiting
<1>1. CASE Start(r)
  <2>1. PICK mode \in {"routine", "fresh", "consequential"},
             strict \in Strictness, token \in Presentable, ahead \in 0..MaxSkew :
          /\ pc[r] = "idle"
          /\ call' = [call EXCEPT ![r] =
                        [closed |-> mode = "consequential", strict |-> strict, token |-> token,
                         began |-> Current, ahead |-> ahead]]
          /\ Await(r, IF mode = "routine" /\ RoutineBound > 0 THEN "reading"
                      ELSE "asking", NoAnswer)
          /\ UNCHANGED <<now, history, cache>>
    BY <1>1 DEF Start
  <2>2. token \in Token
    BY VersionTypes DEF Presentable, Jti, Token
  <2>3. [closed |-> mode = "consequential", strict |-> strict, token |-> token,
         began |-> Current, ahead |-> ahead] \in Call
    BY <2>2, ResolverAssumption DEF Call, TypeOK, Current, ResolverAssumption
  <2>4. /\ call' \in [Requests -> Call]
        /\ \A q \in Requests \ {r} : call'[q] = call[q]
    BY <2>1, <2>3 DEF TypeOK
  <2> QED
    BY <2>1, <2>4, AwaitKeeps DEF TypeOK, OthersKeep
<1>2. CASE UseCopy(r)
  <2>1. CASE Decide(r, held[r].v, Age(r, held[r].stamp))
    BY <1>2, <2>1, DecideKeeps DEF UseCopy, TypeOK
  <2>2. CASE Await(r, "asking", NoAnswer) /\ UNCHANGED call
    BY <1>2, <2>2, AwaitKeeps DEF UseCopy, TypeOK, OthersKeep
  <2> QED
    BY <1>2, <2>1, <2>2 DEF UseCopy
<1>3. CASE UseAnswer(r)
  <2>1. [v |-> held[r].v, stamp |-> Clock(r)] \in Answer
    BY DEF TypeOK, Answer, Clock, Call, ResolverAssumption
  <2>2. PICK where \in Waiting, answer \in Answer : Await(r, where, answer)
    BY <1>3, <2>1 DEF UseAnswer
  <2> QED
    BY <1>3, <2>2, AwaitKeeps DEF UseAnswer, TypeOK, OthersKeep
<1>4. CASE UseLastGood(r)
  <2>1. CASE Conclude(r, "unavailable")
    BY <1>4, <2>1, ConcludeKeeps DEF UseLastGood, TypeOK, Verdict
  <2>2. CASE Decide(r, held[r].v, Age(r, held[r].stamp))
    BY <1>4, <2>2, DecideKeeps DEF UseLastGood, TypeOK
  <2> QED
    BY <1>4, <2>1, <2>2 DEF UseLastGood
<1>5. CASE CacheReplies(r)
  <2>1. [v |-> cache.v, stamp |-> cache.stamp] \in Answer
    BY DEF TypeOK, Entry, Answer
  <2> QED
    BY <1>5, <2>1 DEF CacheReplies, TypeOK, OthersKeep, Waiting
<1>6. CASE CacheReadFails(r)
  BY <1>6, AwaitKeeps DEF CacheReadFails, TypeOK, OthersKeep
<1>7. CASE LastGoodReadFails(r)
  BY <1>7, ConcludeKeeps DEF LastGoodReadFails, TypeOK, Verdict
<1>8. CASE AuthAnswers(r)
  <2>1. [v |-> Current, stamp |-> 0] \in Answer
    BY DEF TypeOK, Answer, Current
  <2> QED
    BY <1>8, <2>1 DEF AuthAnswers, TypeOK, OthersKeep, Waiting
<1>9. CASE FetchFails(r)
  <2>1. CASE Conclude(r, "unavailable")
    BY <1>9, <2>1, ConcludeKeeps DEF FetchFails, TypeOK, Verdict
  <2>2. CASE Await(r, "rescuing", NoAnswer) /\ UNCHANGED call
    BY <1>9, <2>2, AwaitKeeps DEF FetchFails, TypeOK, OthersKeep
  <2> QED
    BY <1>9, <2>1, <2>2 DEF FetchFails
<1>10. CASE FetchForbidden(r)
  BY <1>10, ConcludeKeeps DEF FetchForbidden, TypeOK, Verdict
<1> Stored(r) \in Entry
  BY DEF Stored, Entry, TypeOK, Answer
<1>11. CASE CacheStores(r)
  BY <1>11, DecideKeeps DEF CacheStores, TypeOK
<1>12. CASE CacheStoreFails(r)
  <2>1. CASE Conclude(r, "error")
    BY <1>12, <2>1, ConcludeKeeps DEF CacheStoreFails, TypeOK, Verdict
  <2>2. CASE Decide(r, held[r].v, 0)
    BY <1>12, <2>2, DecideKeeps DEF CacheStoreFails, TypeOK
  <2> QED
    BY <1>12, <2>1, <2>2 DEF CacheStoreFails
<1>13. CASE Forget(r)
  <2>1. NoCopy \in Entry
    BY DEF NoCopy, Entry
  <2> QED
    BY <1>13, <2>1, ConcludeKeeps DEF Forget, TypeOK, Verdict
<1>14. CASE Cancel(r)
  BY <1>14, ConcludeKeeps DEF Cancel, TypeOK, Verdict
<1> QED
  BY <1>1, <1>2, <1>3, <1>4, <1>5, <1>6, <1>7, <1>8, <1>9, <1>10, <1>11, <1>12,
     <1>13, <1>14 DEF RequestStep, Resume, CallEnds

\* A change of the session adds a version and changes nothing else.
LEMMA AuthKeeps ==
    ASSUME TypeOK, Auth
    PROVE  /\ TypeOK'
           /\ Current' = Current + 1
           /\ \A v \in 1..Current : history'[v] = history[v]
           /\ history'[Current + 1].since = now
           /\ UNCHANGED <<now, cache, pc, call, held, since, verdict>>
<1> DEFINE Adds(v) == /\ v \in Version /\ v.since = now
                      /\ history' = Append(history, v)
                      /\ UNCHANGED <<now, cache, pc, call, held, since, verdict>>
<1>1. /\ Current \in Nat /\ history[Current].jti \in Jti /\ now \in Nat
      /\ history[Current].state \in SessionState
  BY VersionTypes DEF TypeOK
<1>2. ASSUME NEW state \in SessionState, NEW jti \in Jti, Become(state, jti)
      PROVE  Adds([state |-> state, jti |-> jti, since |-> now])
  BY <1>1, <1>2 DEF Become, Version
<1>3. ASSUME Refresh PROVE \E v : Adds(v)
  <2>1. Current \in Jti /\ "enabled" \in SessionState
    BY <1>1 DEF Jti, SessionState
  <2> QED
    BY <1>2, <1>3, <2>1 DEF Refresh
<1>4. ASSUME DeployCurrentJti PROVE \E v : Adds(v)
  <2>1. Null \in Jti
    BY DEF Jti
  <2> QED
    BY <1>1, <1>2, <1>4, <2>1 DEF DeployCurrentJti
<1>5. ASSUME Revoke PROVE \E v : Adds(v)
  <2>1. "revoked" \in SessionState
    BY DEF SessionState
  <2> QED
    BY <1>1, <1>2, <1>5, <2>1 DEF Revoke
<1>6. ASSUME End PROVE \E v : Adds(v)
  <2>1. "gone" \in SessionState
    BY DEF SessionState
  <2> QED
    BY <1>1, <1>2, <1>6, <2>1 DEF End
<1>7. PICK v : Adds(v)
  <2>1. \E v : Adds(v)
    <3> HIDE DEF Adds
    <3> QED
      BY <1>3, <1>4, <1>5, <1>6 DEF Auth
  <2> QED
    BY <2>1
<1> QED
  BY <1>7 DEF TypeOK, Current

LEMMA InitType == ResolverAssumption /\ Init => TypeOK
BY DEF ResolverAssumption, Init, TypeOK, Version, Jti, SessionState, Entry, NoCopy,
       Unstamped, Waiting, Call, NoCall, Token, Answer, NoAnswer, Verdict

LEMMA StepType == ResolverAssumption /\ TypeOK /\ [Next]_vars => TypeOK'
<1> SUFFICES ASSUME ResolverAssumption, TypeOK, [Next]_vars
             PROVE  TypeOK'
  OBVIOUS
<1>1. CASE Auth
  BY <1>1, AuthKeeps
<1>2. CASE Tick
  BY <1>2 DEF Tick, TypeOK
<1>3. CASE CacheEvicts
  BY <1>3 DEF CacheEvicts, TypeOK, NoCopy, Entry
<1>4. ASSUME NEW r \in Requests, RequestStep(r)
      PROVE  TypeOK'
  BY <1>4, RequestKeeps
<1>5. CASE UNCHANGED vars
  BY <1>5 DEF vars, TypeOK
<1> QED
  BY <1>1, <1>2, <1>3, <1>4, <1>5 DEF Next, RequestStep

\* Every variable keeps its type.
THEOREM TypeCorrect == Spec => []TypeOK
BY InitType, StepType, ResolverAssumption, PTL DEF Spec
-----------------------------------------------------------------------------
\* Auth moving on does not age what was current at a time already past: the
\* version that ceases to be current does so now.
LEMMA CurrentSinceStable ==
    ASSUME TypeOK, Auth, NEW v \in 1..Current, NEW t \in Int, t <= now,
           CurrentSince(v, t)
    PROVE  CurrentSince(v, t)'
<1>1. CASE v = Current
  BY <1>1, AuthKeeps, VersionTypes DEF CurrentSince
<1>2. CASE v # Current
  <2>1. v + 1 \in 1..Current
    BY <1>2, VersionTypes
  <2> QED
    BY <1>2, <2>1, AuthKeeps, VersionTypes DEF CurrentSince
<1> QED
  BY <1>1, <1>2

LEMMA StampHonestStable ==
    ASSUME TypeOK, ResolverAssumption, Auth, NEW a, a.v \in 1..Current,
           a.stamp \in Nat \cup {Unstamped}, StampHonest(a)
    PROVE  a.stamp # Unstamped => /\ a.stamp <= now' + MaxSkew
                                  /\ CurrentSince(a.v, a.stamp - MaxSkew - CallTimeout)'
<1> SUFFICES ASSUME a.stamp # Unstamped
             PROVE  /\ a.stamp <= now' + MaxSkew
                    /\ CurrentSince(a.v, a.stamp - MaxSkew - CallTimeout)'
  OBVIOUS
<1> DEFINE v == a.v  t == a.stamp - MaxSkew - CallTimeout
<1>1. v \in 1..Current /\ t \in Int /\ t <= now /\ CurrentSince(v, t)
  BY DEF StampHonest, ResolverAssumption, TypeOK
<1> HIDE DEF v, t
<1>2. CurrentSince(v, t)'
  BY <1>1, CurrentSinceStable
<1> QED
  BY <1>2, AuthKeeps DEF StampHonest, v, t

LEMMA InitIInv == ResolverAssumption /\ Init => IInv
<1> SUFFICES ASSUME ResolverAssumption, Init
             PROVE  IInv
  OBVIOUS
<1>1. TypeOK
  BY InitType
<1>2. HistoryInv
  BY DEF Init, HistoryInv, Current
<1>3. CacheInv
  BY DEF Init, CacheInv, Current, NoCopy, Unstamped, StampHonest, CurrentSince,
         ResolverAssumption
<1>4. ASSUME NEW r \in Requests
      PROVE  WaitInv(r) /\ CopyInv(r) /\ AnswerInv(r)
  BY DEF Init, WaitInv, CopyInv, AnswerInv, Waiting
<1> QED
  BY <1>1, <1>2, <1>3, <1>4 DEF IInv

LEMMA AuthIInv == ResolverAssumption /\ IInv /\ Auth => IInv'
<1> SUFFICES ASSUME ResolverAssumption, IInv, Auth
             PROVE  IInv'
  OBVIOUS
<1> USE DEF IInv
<1>1. TypeOK'
  BY AuthKeeps
<1>2. HistoryInv'
  <2> SUFFICES ASSUME NEW v \in 1..Current'
               PROVE  history'[v].since <= now'
    BY DEF HistoryInv
  <2>1. CASE v \in 1..Current
    BY <2>1, AuthKeeps, VersionTypes DEF HistoryInv
  <2>2. CASE v = Current + 1
    BY <2>2, AuthKeeps DEF TypeOK
  <2> QED
    BY <2>1, <2>2, AuthKeeps, VersionTypes
<1>3. CacheInv'
  <2> SUFFICES ASSUME cache # NoCopy
               PROVE  /\ cache.v \in 1..Current'
                      /\ cache.setAt <= now
                      /\ StampHonest(cache)'
                      /\ CurrentSince(cache.v, cache.setAt - 2 * CallTimeout)'
    BY AuthKeeps DEF CacheInv
  <2>1. /\ cache.v \in 1..Current /\ cache.setAt <= now
        /\ cache.setAt \in Nat /\ cache.stamp \in Nat \cup {Unstamped}
        /\ StampHonest(cache)
        /\ CurrentSince(cache.v, cache.setAt - 2 * CallTimeout)
    BY DEF CacheInv, TypeOK, Entry
  <2>2. StampHonest(cache)'
    BY <2>1, StampHonestStable, AuthKeeps DEF StampHonest, CurrentSince
  <2>3. CurrentSince(cache.v, cache.setAt - 2 * CallTimeout)'
    <3> DEFINE t == cache.setAt - 2 * CallTimeout
    <3>1. t \in Int /\ t <= now
      BY <2>1 DEF ResolverAssumption, TypeOK
    <3>2. CurrentSince(cache.v, t)
      BY <2>1
    <3> HIDE DEF t
    <3>3. cache.v = Current' \/ history'[cache.v + 1].since >= t
      BY <2>1, <3>1, <3>2, CurrentSinceStable DEF CurrentSince
    <3> QED
      BY <3>3, AuthKeeps DEF CurrentSince, t
  <2> QED
    BY <2>1, <2>2, <2>3, AuthKeeps, VersionTypes
<1>4. ASSUME NEW r \in Requests
      PROVE  (WaitInv(r) /\ CopyInv(r) /\ AnswerInv(r))'
  <2> DEFINE v == held[r].v
  <2>1. WaitInv(r) /\ CopyInv(r) /\ AnswerInv(r)
    OBVIOUS
  <2>2. /\ held[r].stamp \in Nat \cup {Unstamped} /\ since[r] \in Nat
        /\ now \in Nat /\ CallTimeout \in Nat /\ StorageTTL \in Nat
        /\ call[r].began \in Nat
    BY DEF TypeOK, Answer, Call, ResolverAssumption, StorageTTL, Greatest
  <2>3. WaitInv(r)'
    BY <2>1, AuthKeeps, VersionTypes DEF WaitInv
  <2>4. v \in 1..Current /\ StampHonest(held[r]) => StampHonest(held[r])'
    BY <2>2, StampHonestStable, AuthKeeps DEF StampHonest, CurrentSince
  <2>5. ASSUME NEW t \in Int, t <= now, v \in 1..Current, CurrentSince(v, t)
        PROVE  v = Current' \/ history'[v + 1].since >= t
    BY <2>5, CurrentSinceStable DEF CurrentSince
  <2>6. CopyInv(r)'
    <3>1. pc[r] = "rescued" /\ held[r] # NoAnswer =>
            CurrentSince(v, since[r] + 1 - StorageTTL - 2 * CallTimeout)'
      <4> SUFFICES ASSUME pc[r] = "rescued", held[r] # NoAnswer
                   PROVE  CurrentSince(v, since[r] + 1 - StorageTTL - 2 * CallTimeout)'
        OBVIOUS
      <4> DEFINE t == since[r] + 1 - StorageTTL - 2 * CallTimeout
      <4>1. t \in Int /\ t <= now
        BY <2>1, <2>2 DEF CopyInv, WaitInv, Waiting
      <4> QED
        BY <4>1, <2>1, <2>5, AuthKeeps DEF CopyInv, CurrentSince
    <3> QED
      BY <3>1, <2>1, <2>2, <2>4, AuthKeeps, VersionTypes DEF CopyInv
  <2>7. AnswerInv(r)'
    <3>1. pc[r] \in Waiting /\ v \in Seen(r) =>
            v \in 1..Current /\ v \in Seen(r)' /\ history'[v] = history[v]
      BY <2>1, <2>2, AuthKeeps, VersionTypes DEF Seen, WaitInv
    <3>2. pc[r] = "answered" => CurrentSince(v, since[r])'
      BY <3>1, <2>1, <2>2, <2>5, AuthKeeps DEF AnswerInv, WaitInv, Waiting, CurrentSince
    <3>3. pc[r] = "writing" => CurrentSince(v, since[r] - CallTimeout)'
      BY <3>1, <2>1, <2>2, <2>5, AuthKeeps DEF AnswerInv, WaitInv, Waiting, CurrentSince
    <3>4. pc[r] = "forgetting" =>
            \E u \in Seen(r)' : history'[u].state # "enabled"
      <4> SUFFICES ASSUME pc[r] = "forgetting"
                   PROVE  \E u \in Seen(r)' : history'[u].state # "enabled"
        OBVIOUS
      <4>1. PICK u \in Seen(r) : history[u].state # "enabled"
        BY <2>1 DEF AnswerInv
      <4>2. call[r].began \in 1..Current
        BY <2>1 DEF WaitInv, Waiting
      <4> QED
        BY <4>1, <4>2, AuthKeeps, VersionTypes DEF Seen
    <3> QED
      BY <3>1, <3>2, <3>3, <3>4, <2>1, <2>4, AuthKeeps DEF AnswerInv, Waiting
  <2> QED
    BY <2>3, <2>6, <2>7
<1> QED
  BY <1>1, <1>2, <1>3, <1>4

LEMMA TickIInv == ResolverAssumption /\ IInv /\ Tick => IInv'
<1> SUFFICES ASSUME ResolverAssumption, IInv, Tick
             PROVE  IInv'
  OBVIOUS
<1> USE DEF IInv
<1>1. /\ now \in Nat /\ now' = now + 1
      /\ UNCHANGED <<history, cache, pc, call, held, since, verdict>>
  BY DEF Tick, TypeOK
<1>2. TypeOK'
  BY <1>1 DEF TypeOK
<1>3. HistoryInv'
  BY <1>1, VersionTypes DEF HistoryInv, Current
<1>5. CacheInv'
  BY <1>1 DEF CacheInv, StampHonest, CurrentSince, Current, TypeOK, Entry,
              ResolverAssumption
<1>6. ASSUME NEW r \in Requests
      PROVE  (WaitInv(r) /\ CopyInv(r) /\ AnswerInv(r))'
  <2>1. WaitInv(r)'
    BY <1>1 DEF WaitInv, Tick, TypeOK, Current, ResolverAssumption
  <2>2. StampHonest(held[r]) => StampHonest(held[r])'
    BY <1>1 DEF StampHonest, CurrentSince, Current, TypeOK, Answer, ResolverAssumption
  <2>3. CopyInv(r)'
    BY <1>1, <2>2 DEF CopyInv, CurrentSince, Current
  <2>4. AnswerInv(r)'
    BY <1>1, <2>2 DEF AnswerInv, CurrentSince, Current, Seen
  <2> QED
    BY <2>1, <2>3, <2>4
<1> QED
  BY <1>2, <1>3, <1>5, <1>6

LEMMA EvictIInv == ResolverAssumption /\ IInv /\ CacheEvicts => IInv'
<1> SUFFICES ASSUME ResolverAssumption, IInv, CacheEvicts
             PROVE  IInv'
  OBVIOUS
<1> USE DEF IInv
<1>1. /\ cache' = NoCopy
      /\ UNCHANGED <<now, history, pc, call, held, since, verdict>>
  BY DEF CacheEvicts
<1>2. TypeOK'
  BY <1>1 DEF TypeOK, NoCopy, Entry
<1>3. HistoryInv' /\ CacheInv'
  BY <1>1 DEF HistoryInv, Current, CacheInv
<1>4. ASSUME NEW r \in Requests
      PROVE  (WaitInv(r) /\ CopyInv(r) /\ AnswerInv(r))'
  BY <1>1 DEF WaitInv, CopyInv, AnswerInv, StampHonest, CurrentSince, Current, Seen
<1> QED
  BY <1>2, <1>3, <1>4

\* The step of one request keeps what is known of the others.
LEMMA OthersIInv ==
    ASSUME ResolverAssumption, IInv, NEW r \in Requests, RequestStep(r),
           NEW q \in Requests \ {r}
    PROVE  (WaitInv(q) /\ CopyInv(q) /\ AnswerInv(q))'
<1>1. /\ WaitInv(q) /\ CopyInv(q) /\ AnswerInv(q)
      /\ now' = now /\ history' = history
      /\ pc'[q] = pc[q] /\ call'[q] = call[q] /\ held'[q] = held[q]
      /\ since'[q] = since[q]
  BY RequestKeeps DEF IInv, OthersKeep
<1> QED
  BY <1>1 DEF WaitInv, CopyInv, AnswerInv, StampHonest, CurrentSince, Current, Seen

OwnInv(r) == WaitInv(r) /\ CopyInv(r) /\ AnswerInv(r)

LEMMA ConcludeInv ==
    ASSUME ResolverAssumption, IInv, NEW r \in Requests, NEW kind \in Verdict,
           Conclude(r, kind)
    PROVE  OwnInv(r)'
<1>1. pc'[r] = "idle"
  BY ConcludeKeeps DEF IInv
<1> QED
  BY <1>1 DEF OwnInv, WaitInv, CopyInv, AnswerInv, Waiting

\* A question or a cache read just sent holds nothing yet.
LEMMA SendInv ==
    ASSUME ResolverAssumption, TypeOK, NEW r \in Requests, now' = now,
           history' = history, pc'[r] \in {"reading", "rescuing", "asking"},
           since'[r] = now, call'[r].began \in 1..Current,
           pc'[r] \in {"reading", "rescuing"} => ~call'[r].closed
    PROVE  OwnInv(r)'
BY DEF OwnInv, WaitInv, CopyInv, AnswerInv, Waiting, TypeOK, Current, ResolverAssumption

LEMMA DecideInv ==
    ASSUME ResolverAssumption, IInv, NEW r \in Requests, pc[r] \in Waiting, NEW v,
           NEW age, Decide(r, v, age), now' = now, history' = history
    PROVE  OwnInv(r)'
<1>1. CASE pc'[r] = "idle"
  BY <1>1 DEF OwnInv, WaitInv, CopyInv, AnswerInv, Waiting
<1>2. CASE /\ pc'[r] = "asking" /\ since'[r] = now
           /\ call'[r] = [call[r] EXCEPT !.closed = TRUE]
  <2>1. call[r] \in Call /\ call[r].began \in 1..Current
    BY DEF IInv, TypeOK, WaitInv
  <2>2. call'[r].began = call[r].began
    BY <1>2, <2>1 DEF Call
  <2> QED
    BY <1>2, <2>1, <2>2, SendInv DEF IInv
<1> QED
  BY <1>1, <1>2, DecideKeeps DEF IInv

\* What request r writes describes auth's answer as well as the request did.
LEMMA StoredInv ==
    ASSUME ResolverAssumption, IInv, NEW r \in Requests, pc[r] = "writing",
           cache' \in {cache, Stored(r), NoCopy}, now' = now, history' = history
    PROVE  CacheInv'
<1>1. CASE cache' = cache
  BY <1>1 DEF IInv, CacheInv, StampHonest, CurrentSince, Current
<1>2. CASE cache' = NoCopy
  BY <1>2 DEF CacheInv
<1>3. CASE cache' = Stored(r)
  <2>1. /\ WaitInv(r) /\ AnswerInv(r) /\ held[r] \in Answer /\ since[r] \in Nat
        /\ now \in Nat /\ CallTimeout \in Nat
    BY DEF IInv, TypeOK, ResolverAssumption
  <2>2. /\ held[r].v \in 1..Current
        /\ history[held[r].v].state = "enabled"
        /\ StampHonest(held[r])
        /\ CurrentSince(held[r].v, since[r] - CallTimeout)
        /\ since[r] <= now /\ now <= since[r] + CallTimeout
    BY <2>1, VersionTypes DEF IInv, WaitInv, AnswerInv, Waiting, Seen
  <2>3. /\ cache'.v = held[r].v /\ cache'.stamp = held[r].stamp
        /\ cache'.setAt = now
    BY <1>3 DEF Stored
  <2>4. held[r].v # Current => /\ held[r].v + 1 \in 1..Current
                               /\ history[held[r].v + 1].since \in Nat
    BY <2>2, VersionTypes DEF IInv
  <2>5. CurrentSince(held[r].v, now - 2 * CallTimeout)
    BY <2>1, <2>2, <2>4 DEF CurrentSince
  <2> QED
    BY <2>2, <2>3, <2>5 DEF CacheInv, StampHonest, CurrentSince, Current, IInv, TypeOK
<1> QED
  BY <1>1, <1>2, <1>3

\* A step of request r that leaves the cache's entry alone, or writes it.
LEMMA RequestCacheInv ==
    ASSUME ResolverAssumption, IInv, NEW r \in Requests, RequestStep(r)
    PROVE  CacheInv'
<1>1. CASE cache' = cache
  BY <1>1, RequestKeeps DEF IInv, CacheInv, StampHonest, CurrentSince, Current
<1>2. CASE CacheStores(r) \/ CacheStoreFails(r)
  BY <1>2, RequestKeeps, StoredInv DEF IInv, CacheStores, CacheStoreFails
<1>3. CASE Forget(r)
  BY <1>1, <1>3 DEF Forget, CacheInv
<1> QED
  BY <1>1, <1>2, <1>3 DEF RequestStep, Resume, CallEnds, Start, UseCopy, UseAnswer,
     UseLastGood, CacheReplies, CacheReadFails, LastGoodReadFails, AuthAnswers,
     FetchFails, FetchForbidden, Cancel

LEMMA RequestOwnInv ==
    ASSUME ResolverAssumption, IInv, NEW r \in Requests, RequestStep(r)
    PROVE  OwnInv(r)'
<1>1. /\ TypeOK /\ WaitInv(r) /\ CopyInv(r) /\ AnswerInv(r) /\ CacheInv
      /\ now' = now /\ history' = history
      /\ held[r] \in Answer /\ call[r] \in Call /\ since[r] \in Nat
      /\ now \in Nat /\ CallTimeout \in Nat /\ MaxSkew \in Nat
  BY RequestKeeps DEF IInv, TypeOK, ResolverAssumption
<1>2. NoAnswer \in Answer
  BY DEF NoAnswer, Answer
<1>3. {"reading", "asking", "writing", "forgetting", "rescuing"} \subseteq Waiting
  BY DEF Waiting
<1>4. ASSUME NEW where \in {"asking", "rescuing"}, Await(r, where, NoAnswer),
             UNCHANGED call, pc[r] \in Waiting, where = "rescuing" => ~call[r].closed
      PROVE  OwnInv(r)'
  BY <1>1, <1>2, <1>3, <1>4, AwaitKeeps, SendInv DEF WaitInv
<1>5. CASE Start(r)
  <2>1. PICK mode \in {"routine", "fresh", "consequential"},
             strict \in Strictness, token \in Presentable, ahead \in 0..MaxSkew :
          /\ pc[r] = "idle"
          /\ call' = [call EXCEPT ![r] =
                        [closed |-> mode = "consequential", strict |-> strict, token |-> token,
                         began |-> Current, ahead |-> ahead]]
          /\ Await(r, IF mode = "routine" /\ RoutineBound > 0 THEN "reading"
                      ELSE "asking", NoAnswer)
          /\ UNCHANGED <<now, history, cache>>
    BY <1>5 DEF Start
  <2>2. call'[r].closed = (mode = "consequential") /\ call'[r].began = Current
    BY <2>1, <1>1 DEF TypeOK
  <2>3. /\ pc'[r] \in {"reading", "asking"} /\ since'[r] = now
        /\ pc'[r] = "reading" => mode = "routine"
    BY <2>1, <1>1, <1>2, <1>3, AwaitKeeps
  <2>4. Current \in 1..Current
    BY <1>1, VersionTypes
  <2> QED
    BY <2>2, <2>3, <2>4, <1>1, SendInv
<1>6. CASE UseCopy(r)
  <2>1. pc[r] \in Waiting
    BY <1>6 DEF UseCopy, Waiting
  <2>2. CASE Decide(r, held[r].v, Age(r, held[r].stamp))
    BY <2>1, <2>2, <1>1, DecideInv
  <2>3. CASE Await(r, "asking", NoAnswer) /\ UNCHANGED call
    BY <2>1, <2>3, <1>4
  <2> QED
    BY <1>6, <2>2, <2>3 DEF UseCopy
<1>7. CASE UseAnswer(r)
  <2>1. /\ pc[r] = "answered" /\ call'[r] = call[r] /\ pc[r] \in Waiting
        /\ held[r].v \in Seen(r) /\ held[r].v \in 1..Current
        /\ CurrentSince(held[r].v, since[r])
        /\ since[r] <= now /\ now <= since[r] + CallTimeout
        /\ call[r].began \in 1..Current
    BY <1>7, <1>1, VersionTypes DEF UseAnswer, AnswerInv, WaitInv, Waiting, Seen
  <2>2. CASE /\ history[held[r].v].state = "enabled"
             /\ Await(r, "writing", [v |-> held[r].v, stamp |-> Clock(r)])
    <3>1. /\ Clock(r) \in Nat /\ Clock(r) <= now + MaxSkew
          /\ [v |-> held[r].v, stamp |-> Clock(r)] \in Answer
      BY <1>1 DEF Clock, Call, Answer
    <3>2. /\ pc'[r] = "writing" /\ since'[r] = now
          /\ held'[r] = [v |-> held[r].v, stamp |-> Clock(r)]
      BY <2>2, <3>1, <1>1, <1>3, AwaitKeeps
    <3>3. held[r].v # Current => history[held[r].v + 1].since \in Nat
      <4>1. held[r].v # Current => held[r].v + 1 \in 1..Current
        BY <2>1, <1>1, VersionTypes
      <4> QED
        BY <4>1, <1>1, VersionTypes
    <3>4. CurrentSince(held[r].v, now - CallTimeout)
      BY <2>1, <3>3, <1>1 DEF CurrentSince
    <3>5. CurrentSince(held[r].v, Clock(r) - MaxSkew - CallTimeout)
      BY <2>1, <3>1, <3>3, <1>1 DEF CurrentSince
    <3>6. WaitInv(r)' /\ CopyInv(r)'
      BY <3>2, <2>1, <1>1 DEF WaitInv, CopyInv, Current
    <3>7. StampHonest(held[r])'
      BY <3>1, <3>2, <3>5, <1>1 DEF StampHonest, CurrentSince, Current
    <3>8. AnswerInv(r)'
      BY <3>2, <3>4, <3>7, <2>1, <2>2, <1>1 DEF AnswerInv, CurrentSince, Current, Seen
    <3> QED
      BY <3>6, <3>8 DEF OwnInv
  <2>3. CASE /\ history[held[r].v].state # "enabled"
             /\ Await(r, "forgetting", NoAnswer)
    <3>1. pc'[r] = "forgetting" /\ since'[r] = now
      BY <2>3, <1>1, <1>2, <1>3, AwaitKeeps
    <3> QED
      BY <3>1, <2>1, <2>3, <1>1 DEF OwnInv, WaitInv, CopyInv, AnswerInv, Current, Seen
  <2> QED
    BY <1>7, <2>2, <2>3 DEF UseAnswer
<1>8. CASE UseLastGood(r)
  <2>1. pc[r] \in Waiting
    BY <1>8 DEF UseLastGood, Waiting
  <2>2. CASE Conclude(r, "unavailable")
    BY <2>2, ConcludeInv DEF Verdict
  <2>3. CASE Decide(r, held[r].v, Age(r, held[r].stamp))
    BY <2>1, <2>3, <1>1, DecideInv
  <2> QED
    BY <1>8, <2>2, <2>3 DEF UseLastGood
<1>9. CASE CacheReplies(r)
  <2>1. /\ pc[r] \in {"reading", "rescuing"} /\ pc[r] \in Waiting
        /\ pc'[r] = (IF pc[r] = "reading" THEN "read" ELSE "rescued")
        /\ since'[r] = since[r] /\ call'[r] = call[r]
    BY <1>9, <1>1 DEF CacheReplies, TypeOK, Waiting
  <2>2. WaitInv(r)' /\ AnswerInv(r)'
    BY <2>1, <1>1 DEF WaitInv, AnswerInv, Current
  <2>3. CASE held'[r] = NoAnswer
    BY <2>1, <2>2, <2>3, <1>1 DEF OwnInv, CopyInv
  <2>4. CASE /\ held'[r] = [v |-> cache.v, stamp |-> cache.stamp]
             /\ cache # NoCopy /\ now < cache.setAt + StorageTTL
    <3>1. /\ cache.v \in 1..Current /\ StampHonest(cache)
          /\ history[cache.v].state = "enabled"
          /\ CurrentSince(cache.v, cache.setAt - 2 * CallTimeout)
          /\ cache.setAt \in Nat /\ StorageTTL \in Nat /\ cache.setAt <= now
      BY <2>4, <1>1 DEF CacheInv, TypeOK, Entry, StorageTTL, Greatest, ResolverAssumption
    <3>2. cache.v # Current => history[cache.v + 1].since \in Nat
      <4>1. cache.v # Current => cache.v + 1 \in 1..Current
        BY <3>1, <1>1, VersionTypes
      <4> QED
        BY <4>1, <1>1, VersionTypes
    <3>3. /\ StorageTTL > 0
          /\ CurrentSince(cache.v, since[r] + 1 - StorageTTL - 2 * CallTimeout)
      BY <2>1, <2>4, <3>1, <3>2, <1>1 DEF CurrentSince, WaitInv
    <3>4. CopyInv(r)'
      BY <2>1, <2>4, <3>1, <3>3, <1>1
         DEF CopyInv, StampHonest, CurrentSince, Current, StorageTTL, Greatest
    <3> QED
      BY <2>2, <3>4 DEF OwnInv
  <2> QED
    BY <1>9, <1>1, <2>3, <2>4 DEF CacheReplies, TypeOK
<1>10. CASE CacheReadFails(r)
  BY <1>10, <1>4 DEF CacheReadFails, Waiting
<1>11. CASE LastGoodReadFails(r)
  BY <1>11, ConcludeInv DEF LastGoodReadFails, Verdict
<1>12. CASE AuthAnswers(r)
  <2>1. /\ pc[r] = "asking" /\ pc'[r] = "answered" /\ held'[r].v = Current
        /\ since'[r] = since[r] /\ call'[r] = call[r] /\ call[r].began \in 1..Current
    BY <1>12, <1>1 DEF AuthAnswers, TypeOK, WaitInv, Waiting
  <2> QED
    BY <2>1, <1>1, VersionTypes
       DEF OwnInv, WaitInv, CopyInv, AnswerInv, Waiting, Seen, Current, CurrentSince
<1>13. CASE FetchFails(r)
  <2>1. CASE Conclude(r, "unavailable")
    BY <2>1, ConcludeInv DEF Verdict
  <2>2. CASE ~call[r].closed /\ Await(r, "rescuing", NoAnswer) /\ UNCHANGED call
    BY <1>13, <2>2, <1>4 DEF FetchFails, Waiting
  <2> QED
    BY <1>13, <2>1, <2>2 DEF FetchFails
<1>14. CASE FetchForbidden(r)
  BY <1>14, ConcludeInv DEF FetchForbidden, Verdict
<1>15. CASE CacheStores(r)
  BY <1>15, <1>1, DecideInv DEF CacheStores, Waiting
<1>16. CASE CacheStoreFails(r)
  <2>1. CASE Conclude(r, "error")
    BY <2>1, ConcludeInv DEF Verdict
  <2>2. CASE Decide(r, held[r].v, 0)
    BY <1>16, <2>2, <1>1, DecideInv DEF CacheStoreFails, Waiting
  <2> QED
    BY <1>16, <2>1, <2>2 DEF CacheStoreFails
<1>17. CASE Forget(r)
  BY <1>17, ConcludeInv DEF Forget, Verdict
<1>18. CASE Cancel(r)
  BY <1>18, ConcludeInv DEF Cancel, Verdict
<1> QED
  BY <1>5, <1>6, <1>7, <1>8, <1>9, <1>10, <1>11, <1>12, <1>13, <1>14, <1>15, <1>16,
     <1>17, <1>18 DEF RequestStep, Resume, CallEnds

LEMMA StepIInv == ResolverAssumption /\ IInv /\ [Next]_vars => IInv'
<1> SUFFICES ASSUME ResolverAssumption, IInv, [Next]_vars
             PROVE  IInv'
  OBVIOUS
<1>1. ASSUME NEW r \in Requests, RequestStep(r)
      PROVE  IInv'
  <2>1. TypeOK' /\ HistoryInv'
    BY <1>1, RequestKeeps DEF IInv, HistoryInv, Current
  <2>2. ASSUME NEW q \in Requests
        PROVE  (WaitInv(q) /\ CopyInv(q) /\ AnswerInv(q))'
    BY <1>1, RequestOwnInv, OthersIInv DEF OwnInv
  <2> QED
    BY <1>1, <2>1, <2>2, RequestCacheInv DEF IInv
<1>2. CASE UNCHANGED vars
  BY <1>2 DEF vars, IInv, TypeOK, HistoryInv, CacheInv, WaitInv, CopyInv, AnswerInv,
              StampHonest, CurrentSince, Current, Seen
<1> QED
  BY <1>1, <1>2, AuthIInv, TickIInv, EvictIInv DEF Next, RequestStep

\* What a request or the cache holds was auth's own answer, no older than the
\* times beside it tell; it is what every property below follows from.
THEOREM HeldAnswersAreHonest == Spec => []IInv
BY InitIInv, StepIInv, ResolverAssumption, PTL DEF Spec
-----------------------------------------------------------------------------
\* How a request comes to be allowed, refused as superseded, or denied.
ByCopy(r, kind) ==
    LET age == Age(r, held[r].stamp)
    IN /\ pc[r] \in {"read", "rescued"} /\ held[r] # NoAnswer
       /\ pc[r] = "read" => YoungerThan(age, RoutineBound)
       /\ kind = JtiRuling(call[r].strict, call[r].token, history[held[r].v].jti, age)
       /\ ~(kind = "superseded" /\ age # 0)

ByAnswer(r, kind) ==
    /\ pc[r] = "writing"
    /\ kind = JtiRuling(call[r].strict, call[r].token, history[held[r].v].jti, 0)

LEMMA ConcludingStep ==
    ASSUME ResolverAssumption, IInv, Next, NEW r \in Requests, NEW kind,
           Concludes(r, kind), kind \in {"allowed", "superseded", "denied"}
    PROVE  \/ ByCopy(r, kind) \/ ByAnswer(r, kind)
           \/ pc[r] = "forgetting" /\ kind = "denied"
<1> TypeOK
  BY DEF IInv
<1>1. pc[r] \in Waiting /\ pc'[r] = "idle" /\ verdict'[r] = kind /\ pc'[r] # pc[r]
  BY DEF Concludes, Waiting
<1>2. RequestStep(r)
  <2>1. ASSUME NEW q \in Requests, RequestStep(q)
        PROVE  q = r
    BY <1>1, <2>1, RequestKeeps DEF OthersKeep
  <2>2. ~Auth /\ ~Tick /\ ~CacheEvicts
    BY <1>1, AuthKeeps DEF Tick, CacheEvicts
  <2> QED
    BY <2>1, <2>2 DEF Next, RequestStep
<1>3. \A k \in Verdict : Conclude(r, k) => kind = k
  BY <1>1, ConcludeKeeps
<1>4. \A where \in Waiting, answer \in Answer : ~Await(r, where, answer)
  BY <1>1, AwaitKeeps DEF Waiting
<1>5. NoAnswer \in Answer
  BY DEF NoAnswer, Answer
<1>6. {"reading", "asking", "writing", "forgetting", "rescuing"} \subseteq Waiting
  BY DEF Waiting
<1>7. {"none", "unavailable", "misconfigured", "error", "denied"} \subseteq Verdict
  BY DEF Verdict
<1>8. ASSUME NEW v, NEW age, Decide(r, v, age)
      PROVE  /\ kind = JtiRuling(call[r].strict, call[r].token, history[v].jti, age)
             /\ ~(kind = "superseded" /\ age # 0)
  BY <1>1, <1>8, DecideKeeps
<1>9. CASE Start(r)
  BY <1>1, <1>9 DEF Start, Waiting
<1>10. CASE UseCopy(r)
  BY <1>4, <1>5, <1>6, <1>8, <1>10 DEF UseCopy, ByCopy
<1>11. CASE UseAnswer(r)
  <2>1. [v |-> held[r].v, stamp |-> Clock(r)] \in Answer
    BY DEF TypeOK, Answer, Clock, Call, ResolverAssumption
  <2> QED
    BY <1>4, <1>5, <1>6, <1>11, <2>1 DEF UseAnswer
<1>12. CASE UseLastGood(r)
  BY <1>3, <1>7, <1>8, <1>12 DEF UseLastGood, ByCopy
<1>13. CASE CacheReplies(r) \/ AuthAnswers(r)
  BY <1>1, <1>13 DEF CacheReplies, AuthAnswers, TypeOK
<1>14. CASE CacheReadFails(r)
  BY <1>4, <1>5, <1>6, <1>14 DEF CacheReadFails
<1>15. CASE LastGoodReadFails(r) \/ FetchForbidden(r) \/ Cancel(r)
  BY <1>3, <1>7, <1>15 DEF LastGoodReadFails, FetchForbidden, Cancel
<1>16. CASE FetchFails(r)
  BY <1>3, <1>4, <1>5, <1>6, <1>7, <1>16 DEF FetchFails
<1>17. CASE CacheStores(r) \/ CacheStoreFails(r)
  BY <1>3, <1>7, <1>8, <1>17 DEF CacheStores, CacheStoreFails, ByAnswer
<1>18. CASE Forget(r)
  BY <1>3, <1>7, <1>18 DEF Forget
<1> QED
  BY <1>2, <1>9, <1>10, <1>11, <1>12, <1>13, <1>14, <1>15, <1>16, <1>17, <1>18
     DEF RequestStep, Resume, CallEnds

\* What a request that auth answered is allowed on.
LEMMA AnswerAllows ==
    ASSUME ResolverAssumption, IInv, NEW r \in Requests, ByAnswer(r, "allowed")
    PROVE  /\ held[r].v \in Seen(r) /\ history[held[r].v].state = "enabled"
           /\ Accepts(call[r].strict, history[held[r].v].jti, call[r].token)
<1>1. held[r].v \in Seen(r) /\ history[held[r].v].state = "enabled"
  BY DEF IInv, AnswerInv, ByAnswer
<1> DEFINE jti == history[held[r].v].jti
<1>2. "allowed" = JtiRuling(call[r].strict, call[r].token, jti, 0)
  BY DEF ByAnswer
<1>3. ~OlderThan(0, JtiStaleness)
  BY DEF OlderThan, Unknown, ResolverAssumption
<1>4. Accepts(call[r].strict, jti, call[r].token)
  <2> HIDE DEF jti
  <2> QED
    BY <1>2, <1>3 DEF JtiRuling, Accepts
<1> QED
  BY <1>1, <1>4

\* A consequential request is allowed only for a session that was live, with
\* the token that was current, at some instant since the request began.
THEOREM ClosedReadsLinearize == Spec => ClosedReadIsLinearizable
<1>1. ASSUME ResolverAssumption, IInv, Next, NEW r \in Requests,
             Concludes(r, "allowed"), call[r].closed
      PROVE  ByAnswer(r, "allowed")
  <2>1. CopyInv(r)
    BY <1>1 DEF IInv
  <2> QED
    BY <1>1, <2>1, ConcludingStep DEF ByCopy, CopyInv
<1>2. ResolverAssumption /\ IInv /\ [Next]_vars =>
        [\A r \in Requests : Concludes(r, "allowed") /\ call[r].closed =>
            \E v \in Seen(r) : /\ history[v].state = "enabled"
                               /\ Accepts(call[r].strict, history[v].jti, call[r].token)]_vars
  BY <1>1, AnswerAllows
<1> QED
  BY <1>2, HeldAnswersAreHonest, ResolverAssumption, PTL
     DEF Spec, ClosedReadIsLinearizable

\* What a session is denied on, and a token refused on.
LEMMA DeniedOnAnswer ==
    ASSUME ResolverAssumption, IInv, Next, NEW r \in Requests, Concludes(r, "denied")
    PROVE  \E v \in Seen(r) : history[v].state # "enabled"
<1>1. pc[r] = "forgetting"
  BY ConcludingStep, RulingKinds DEF ByCopy, ByAnswer
<1> QED
  BY <1>1 DEF IInv, AnswerInv

LEMMA MismatchIsNamed ==
    ASSUME ResolverAssumption, NEW token \in Token, NEW strict, NEW jti, NEW age,
           JtiRuling(strict, token, jti, age) = "superseded"
    PROVE  jti # token
BY DEF JtiRuling, Token, ResolverAssumption

LEMMA SupersededOnAnswer ==
    ASSUME ResolverAssumption, IInv, Next, NEW r \in Requests, Concludes(r, "superseded")
    PROVE  /\ history[held[r].v].jti # call[r].token
           /\ \/ held[r].v \in Seen(r)
              \/ ByCopy(r, "superseded") /\ Age(r, held[r].stamp) = 0
<1>1. call[r].token \in Token
  BY DEF IInv, TypeOK, Call
<1>2. CASE ByCopy(r, "superseded")
  BY <1>1, <1>2, MismatchIsNamed DEF ByCopy
<1>3. CASE ByAnswer(r, "superseded")
  BY <1>1, <1>3, MismatchIsNamed DEF IInv, AnswerInv, ByAnswer
<1> QED
  BY <1>2, <1>3, ConcludingStep

\* No request is sent to re-authenticate or to refresh on the word of a copy.
THEOREM RefusalsAreAuthsAnswers == Spec => RefusalIsAuthsAnswer
<1> DEFINE Rightly(r) ==
      /\ Concludes(r, "denied") => \E v \in Seen(r) : history[v].state # "enabled"
      /\ Concludes(r, "superseded") =>
           \/ \E v \in Seen(r) : history[v].jti # call[r].token
           \/ pc[r] # "writing" /\ Age(r, held[r].stamp) = 0
<1>1. ResolverAssumption /\ IInv /\ [Next]_vars => [\A r \in Requests : Rightly(r)]_vars
  BY DeniedOnAnswer, SupersededOnAnswer DEF ByCopy
<1> QED
  BY <1>1, HeldAnswersAreHonest, ResolverAssumption, PTL DEF Spec, RefusalIsAuthsAnswer

\* From "current since t" to "current within d".
LEMMA SinceToWithin ==
    ASSUME TypeOK, NEW v \in 1..Current, NEW t \in Int, NEW d \in Int,
           CurrentSince(v, t), now - t <= d
    PROVE  CurrentWithin(v, d)
<1>1. v # Current => v + 1 \in 1..Current
  BY VersionTypes
<1>2. v # Current => history[v + 1].since \in Nat
  BY <1>1, VersionTypes
<1> QED
  BY <1>2 DEF CurrentSince, CurrentWithin, TypeOK

\* What a request is allowed by a copy that is known to be no older than d.
LEMMA CopyWithin ==
    ASSUME ResolverAssumption, IInv, NEW r \in Requests,
           pc[r] \in {"read", "rescued"}, held[r] # NoAnswer, NEW d \in Int,
           Age(r, held[r].stamp) # Unknown, Age(r, held[r].stamp) <= d
    PROVE  CurrentWithin(held[r].v, d + MaxSkew + CallTimeout)
<1>1. /\ held[r].v \in 1..Current /\ StampHonest(held[r]) /\ TypeOK
      /\ held[r].stamp \in Nat \cup {Unstamped} /\ call[r].ahead \in Nat
      /\ now \in Nat /\ MaxSkew \in Nat /\ CallTimeout \in Nat
  BY DEF IInv, CopyInv, TypeOK, Answer, Call, ResolverAssumption
<1>2. held[r].stamp # Unstamped /\ now + call[r].ahead - held[r].stamp <= d
  BY <1>1 DEF Age, Clock, Unknown
<1> DEFINE t == held[r].stamp - MaxSkew - CallTimeout
<1>3. /\ t \in Int /\ now - t <= d + MaxSkew + CallTimeout
      /\ CurrentSince(held[r].v, t)
  BY <1>1, <1>2 DEF StampHonest, Unstamped
<1> HIDE DEF t
<1> QED
  BY <1>1, <1>3, SinceToWithin

\* The age of the routine copy a request is allowed by.
LEMMA RoutineCopyAllows ==
    ASSUME ResolverAssumption, IInv, Next, NEW r \in Requests,
           Concludes(r, "allowed"), pc[r] = "read"
    PROVE  CurrentWithin(held[r].v,
               Least(RoutineTTL, JtiStaleness) + MaxSkew + CallTimeout - 1)
<1>1. ByCopy(r, "allowed")
  BY ConcludingStep DEF ByAnswer
<1> DEFINE age == Age(r, held[r].stamp)  d == RoutineBound - 1
<1>2. age # Unknown /\ age < RoutineBound
  BY <1>1 DEF ByCopy, YoungerThan
<1>3. RoutineBound \in Nat /\ MaxSkew \in Nat /\ CallTimeout \in Nat
  BY DEF RoutineBound, Least, ResolverAssumption
<1>4. held[r].stamp \in Nat \cup {Unstamped} /\ now \in Nat /\ call[r].ahead \in Nat
  BY DEF IInv, TypeOK, Answer, Call
<1>5. age \in Int
  BY <1>4 DEF Age, Clock, Unknown, Unstamped
<1>6. d \in Int /\ age <= d
  BY <1>2, <1>3, <1>5
<1>7. CurrentWithin(held[r].v, d + MaxSkew + CallTimeout)
  BY <1>1, <1>2, <1>6, CopyWithin DEF ByCopy
<1>8. d + MaxSkew + CallTimeout
        = Least(RoutineTTL, JtiStaleness) + MaxSkew + CallTimeout - 1
  BY <1>3 DEF RoutineBound
<1> QED
  BY <1>7, <1>8

\* A request served the routine copy is behind auth by less than the bound.
THEOREM RoutineCopiesAreYoung == Spec => RoutineStaleness
<1>1. ResolverAssumption /\ IInv /\ [Next]_vars =>
        [\A r \in Requests : Concludes(r, "allowed") /\ pc[r] = "read" =>
            CurrentWithin(held[r].v,
              Least(RoutineTTL, JtiStaleness) + MaxSkew + CallTimeout - 1)]_vars
  BY RoutineCopyAllows
<1> QED
  BY <1>1, HeldAnswersAreHonest, ResolverAssumption, PTL DEF Spec, RoutineStaleness

\* The age of the last-good copy a request is allowed by.
LEMMA LastGoodAllows ==
    ASSUME ResolverAssumption, IInv, Next, NEW r \in Requests,
           Concludes(r, "allowed"), pc[r] = "rescued"
    PROVE  CurrentWithin(held[r].v,
               Greatest(LastGoodTTL, RoutineTTL) + 3 * CallTimeout - 1)
<1>1. held[r] # NoAnswer
  BY ConcludingStep DEF ByAnswer, ByCopy
<1> DEFINE t == since[r] + 1 - StorageTTL - 2 * CallTimeout
           d == StorageTTL + 3 * CallTimeout - 1
<1>2. /\ TypeOK /\ held[r].v \in 1..Current /\ CurrentSince(held[r].v, t)
      /\ now <= since[r] + CallTimeout
  BY <1>1 DEF IInv, CopyInv, WaitInv, Waiting
<1>3. /\ now \in Nat /\ since[r] \in Nat /\ CallTimeout \in Nat
      /\ StorageTTL \in Nat /\ StorageTTL = Greatest(LastGoodTTL, RoutineTTL)
  BY <1>2 DEF TypeOK, StorageTTL, Greatest, ResolverAssumption
<1>4. t \in Int /\ d \in Int /\ now - t <= d
  BY <1>2, <1>3
<1>5. CurrentWithin(held[r].v, d)
  <2> HIDE DEF t, d
  <2> QED
    BY <1>2, <1>4, SinceToWithin
<1> QED
  BY <1>3, <1>5

\* A request served the last-good copy is behind auth by less than its storage.
THEOREM LastGoodIsBounded == Spec => OutageStaleness
<1>1. ResolverAssumption /\ IInv /\ [Next]_vars =>
        [\A r \in Requests : Concludes(r, "allowed") /\ pc[r] = "rescued" =>
            CurrentWithin(held[r].v,
              Greatest(LastGoodTTL, RoutineTTL) + 3 * CallTimeout - 1)]_vars
  BY LastGoodAllows
<1> QED
  BY <1>1, HeldAnswersAreHonest, ResolverAssumption, PTL DEF Spec, OutageStaleness

\* The token of the copy a strict worker allows a request by.
LEMMA StrictCopyAllows ==
    ASSUME ResolverAssumption, IInv, Next, NEW r \in Requests, call[r].strict,
           Concludes(r, "allowed"), pc[r] \in {"read", "rescued"}
    PROVE  /\ history[held[r].v].jti = call[r].token
           /\ CurrentWithin(held[r].v, JtiStaleness + MaxSkew + CallTimeout)
<1> DEFINE age == Age(r, held[r].stamp)  jti == history[held[r].v].jti
<1>1. ByCopy(r, "allowed")
  BY ConcludingStep DEF ByAnswer
<1>2. "allowed" = JtiRuling(call[r].strict, call[r].token, jti, age)
  BY <1>1 DEF ByCopy
<1>3. jti = call[r].token /\ ~OlderThan(age, JtiStaleness)
  <2> HIDE DEF jti, age
  <2> QED
    BY <1>2 DEF JtiRuling
<1>4. held[r].stamp \in Nat \cup {Unstamped} /\ now \in Nat /\ call[r].ahead \in Nat
  BY DEF IInv, TypeOK, Answer, Call
<1>5. age \in Int /\ JtiStaleness \in Int
  BY <1>4 DEF Age, Clock, Unknown, Unstamped, ResolverAssumption
<1>6. age # Unknown /\ age <= JtiStaleness
  BY <1>3, <1>5 DEF OlderThan
<1>7. CurrentWithin(held[r].v, JtiStaleness + MaxSkew + CallTimeout)
  BY <1>1, <1>5, <1>6, CopyWithin DEF ByCopy
<1> QED
  BY <1>3, <1>7

\* Strict, a token allowed on the word of any copy is one auth named lately.
THEOREM StrictTokensAreYoung == Spec => StrictTokenStaleness
<1>1. ResolverAssumption /\ IInv /\ [Next]_vars =>
        [\A r \in Requests :
           call[r].strict /\ Concludes(r, "allowed") /\ pc[r] \in {"read", "rescued"} =>
            /\ history[held[r].v].jti = call[r].token
            /\ CurrentWithin(held[r].v, JtiStaleness + MaxSkew + CallTimeout)]_vars
  BY StrictCopyAllows
<1> QED
  BY <1>1, HeldAnswersAreHonest, ResolverAssumption, PTL DEF Spec, StrictTokenStaleness
-----------------------------------------------------------------------------
\* What the caller of a waiting request sees of its steps: nothing, that it
\* asks again, or its verdict.
LEMMA WaitingStep ==
    ASSUME ResolverAssumption, TypeOK, NEW r \in Requests, RequestStep(r),
           pc[r] \in Waiting
    PROVE  \/ /\ pc'[r] \in Waiting
              /\ call'[r] \in {call[r], [call[r] EXCEPT !.closed = TRUE]}
           \/ pc'[r] = "idle" /\ verdict'[r] \in Verdict
<1> TypeOK'
  BY RequestKeeps
<1>1. pc'[r] \in Waiting \/ (pc'[r] = "idle" /\ verdict'[r] \in Verdict)
  BY DEF TypeOK
<1>2. ASSUME call' = call
      PROVE  call'[r] \in {call[r], [call[r] EXCEPT !.closed = TRUE]}
  BY <1>2
<1>3. ASSUME NEW kind, Conclude(r, kind) PROVE pc'[r] \notin Waiting
  BY <1>3 DEF Conclude, TypeOK, Waiting
<1>4. ASSUME NEW v, NEW age, Decide(r, v, age), pc'[r] \in Waiting
      PROVE  call'[r] \in {call[r], [call[r] EXCEPT !.closed = TRUE]}
  BY <1>4, DecideKeeps DEF Waiting
<1>5. ~Start(r)
  BY DEF Start, Waiting
<1>6. CASE Resume(r)
  BY <1>1, <1>2, <1>3, <1>4, <1>6 DEF Resume, UseCopy, UseAnswer, UseLastGood
<1>7. CASE CallEnds(r)
  BY <1>1, <1>2, <1>3, <1>4, <1>7
     DEF CallEnds, CacheReplies, CacheReadFails, LastGoodReadFails, AuthAnswers,
         FetchFails, FetchForbidden, CacheStores, CacheStoreFails, Forget
<1>8. CASE Cancel(r)
  BY <1>1, <1>3, <1>8 DEF Cancel
<1> QED
  BY <1>5, <1>6, <1>7, <1>8 DEF RequestStep

LEMMA WithinMore ==
    ASSUME TypeOK, NEW v \in 1..Current, NEW d \in Int, NEW e \in Int,
           CurrentWithin(v, d), d <= e
    PROVE  CurrentWithin(v, e)
<1>1. v # Current => v + 1 \in 1..Current
  BY VersionTypes
<1>2. v # Current => history[v + 1].since \in Nat
  BY <1>1, VersionTypes
<1> QED
  BY <1>2 DEF CurrentWithin, TypeOK

LEMMA WaitingSeen ==
    ASSUME IInv, NEW r \in Requests, pc[r] \in Waiting
    PROVE  Decision!Since(r) = Seen(r) /\ Seen(r) \subseteq 1..Current
<1>1. call[r].began \in 1..Current
  BY DEF IInv, WaitInv
<1> QED
  BY <1>1, VersionTypes DEF Decision!Since, Decision!Current, Seen, Current, IInv

\* An allowed request is one SessionDecision may allow.
LEMMA AllowedRightly ==
    ASSUME ResolverAssumption, IInv, Next, NEW r \in Requests, Concludes(r, "allowed")
    PROVE  Decision!MayAllow(r)
<1> DEFINE v == held[r].v
           routine == Least(RoutineTTL, JtiStaleness) + MaxSkew + CallTimeout
           outage == Greatest(LastGoodTTL, RoutineTTL) + 3 * CallTimeout
           lag == Greatest(routine, outage) - 1
<1>1. TypeOK /\ pc[r] \in Waiting /\ CopyInv(r)
  BY DEF IInv, Concludes
<1>2. CASE ByAnswer(r, "allowed")
  <2>1. /\ v \in Seen(r) /\ history[v].state = "enabled"
        /\ Accepts(call[r].strict, history[v].jti, call[r].token)
    BY <1>2, AnswerAllows
  <2>2. v \in 1..Current /\ v \in Decision!Since(r)
    BY <1>1, <2>1, WaitingSeen
  <2> QED
    BY <1>1, <2>1, <2>2
       DEF Accepts, Decision!MayAllow, Decision!Names, Decision!NamesNone,
           Decision!Current, Current
<1>3. CASE ByCopy(r, "allowed")
  <2>1. /\ v \in 1..Current /\ history[v].state = "enabled"
        /\ pc[r] \in {"read", "rescued"} /\ ~call[r].closed
    BY <1>1, <1>3 DEF ByCopy, CopyInv
  <2>2. routine \in Int /\ outage \in Int /\ lag \in Int
        /\ routine - 1 <= lag /\ outage - 1 <= lag
    BY DEF ResolverAssumption, Greatest, Least
  <2>3. CurrentWithin(v, routine - 1) \/ CurrentWithin(v, outage - 1)
    <3>1. /\ Least(RoutineTTL, JtiStaleness) + MaxSkew + CallTimeout - 1 = routine - 1
          /\ Greatest(LastGoodTTL, RoutineTTL) + 3 * CallTimeout - 1 = outage - 1
      BY DEF ResolverAssumption, Greatest, Least
    <3>2. CASE pc[r] = "read"
      BY <3>1, <3>2, RoutineCopyAllows
    <3>3. CASE pc[r] = "rescued"
      BY <3>1, <3>3, LastGoodAllows
    <3> QED
      BY <2>1, <3>2, <3>3
  <2>4. CurrentWithin(v, lag)
    <3> HIDE DEF v, routine, outage, lag
    <3> QED
      BY <1>1, <2>1, <2>2, <2>3, WithinMore
  <2>5. call[r].strict =>
          /\ history[v].jti = call[r].token
          /\ CurrentWithin(v, JtiStaleness + MaxSkew + CallTimeout)
    BY <2>1, StrictCopyAllows
  <2> QED
    BY <1>1, <2>1, <2>4, <2>5
       DEF CurrentWithin, Decision!MayAllow, Decision!Within, Decision!Names,
           Decision!Current, Current
<1> QED
  BY <1>2, <1>3, ConcludingStep

LEMMA SupersededRightly ==
    ASSUME ResolverAssumption, IInv, Next, NEW r \in Requests, Concludes(r, "superseded")
    PROVE  Decision!MaySupersede(r)
<1> DEFINE v == held[r].v
<1>1. TypeOK /\ pc[r] \in Waiting /\ CopyInv(r)
  BY DEF IInv, Concludes
<1>2. history[v].jti # call[r].token
  BY SupersededOnAnswer
<1>3. CASE v \in Seen(r)
  <2>1. v \in 1..Current /\ v \in Decision!Since(r)
    BY <1>1, <1>3, WaitingSeen
  <2> QED
    BY <1>1, <1>2, <2>1
       DEF Decision!MaySupersede, Decision!Names, Decision!Current, Current
<1>4. CASE ByCopy(r, "superseded") /\ Age(r, held[r].stamp) = 0
  <2>1. v \in 1..Current
    BY <1>1, <1>4 DEF ByCopy, CopyInv
  <2>2. CurrentWithin(v, 0 + MaxSkew + CallTimeout)
    BY <1>4, CopyWithin DEF ByCopy, Unknown
  <2>3. 0 + MaxSkew + CallTimeout = MaxSkew + CallTimeout
    BY DEF ResolverAssumption
  <2> QED
    BY <1>1, <1>2, <2>1, <2>2, <2>3
       DEF CurrentWithin, Decision!MaySupersede, Decision!Within, Decision!Names,
           Decision!Current, Current
<1> QED
  BY <1>3, <1>4, SupersededOnAnswer

LEMMA DeniedRightly ==
    ASSUME ResolverAssumption, IInv, Next, NEW r \in Requests, Concludes(r, "denied")
    PROVE  Decision!MayDeny(r)
<1>1. pc[r] \in Waiting
  BY DEF Concludes
<1> QED
  BY <1>1, DeniedOnAnswer, WaitingSeen DEF Decision!MayDeny

\* A verdict is one of SessionDecision's answers.
LEMMA AnswersRightly ==
    ASSUME ResolverAssumption, IInv, Next, NEW r \in Requests, NEW kind \in Verdict,
           Concludes(r, kind)
    PROVE  \/ kind = "allowed" /\ Decision!MayAllow(r)
           \/ kind = "denied" /\ Decision!MayDeny(r)
           \/ kind = "superseded" /\ Decision!MaySupersede(r)
           \/ kind \in {"none", "unauthenticated", "unavailable", "misconfigured", "error"}
BY AllowedRightly, DeniedRightly, SupersededRightly DEF Verdict

\* What a caller sees of request r.
Asked(r) == IF pc[r] \in Waiting THEN call[r] ELSE [began |-> 0]
Told(r) == IF pc[r] \in Waiting THEN "none" ELSE verdict[r]

LEMMA RequestDecides ==
    ASSUME ResolverAssumption, IInv, Next, NEW r \in Requests, RequestStep(r)
    PROVE  [Decision!Next]_<<now, history, [q \in Requests |-> Asked(q)],
                             [q \in Requests |-> Told(q)]>>
<1> DEFINE asked == [q \in Requests |-> Asked(q)]
           told == [q \in Requests |-> Told(q)]
<1>1. /\ TypeOK /\ TypeOK' /\ OthersKeep(r) /\ now' = now /\ history' = history
      /\ WaitInv(r)
  BY RequestKeeps DEF IInv
<1>2. /\ \A q \in Requests \ {r} : Asked(q)' = Asked(q) /\ Told(q)' = Told(q)
  BY <1>1 DEF OthersKeep, Asked, Told
<1>3. /\ asked' = [asked EXCEPT ![r] = Asked(r)']
      /\ told' = [told EXCEPT ![r] = Told(r)']
  BY <1>2
<1>4. CASE pc[r] \notin Waiting
  <2>1. Start(r)
    BY <1>4 DEF RequestStep, Resume, CallEnds, UseCopy, UseAnswer, UseLastGood,
       CacheReplies, CacheReadFails, LastGoodReadFails, AuthAnswers, FetchFails,
       FetchForbidden, CacheStores, CacheStoreFails, Forget, Cancel, Waiting
  <2>2. pc'[r] \in Waiting /\ call'[r].began = Current
    BY <1>1, <2>1 DEF Start, Await, TypeOK, Waiting
  <2>3. /\ asked[r] = [began |-> 0]
        /\ asked'[r] = Asked(r)' /\ asked'[r].began = Current /\ told'[r] = "none"
    BY <1>4, <2>2 DEF Asked, Told
  <2>4. Decision!Ask(r)
    BY <1>3, <2>3 DEF Decision!Ask, Decision!NoQuestion, Decision!Current, Current, Asked, Told
  <2> QED
    BY <1>1, <2>4 DEF Decision!Next
<1>5. CASE pc[r] \in Waiting /\ pc'[r] \in Waiting
  <2>1. call'[r] \in {call[r], [call[r] EXCEPT !.closed = TRUE]}
    BY <1>1, <1>5, WaitingStep DEF Waiting
  <2>2. Asked(r) = call[r] /\ Asked(r)' = call'[r] /\ Told(r) = "none" /\ Told(r)' = "none"
    BY <1>5 DEF Asked, Told
  <2>3. told' = told
    BY <1>3, <2>2
  <2>4. CASE call'[r] = call[r]
    <3>1. asked' = asked
      BY <1>3, <2>2, <2>4
    <3> QED
      BY <1>1, <2>3, <3>1
  <2>5. CASE call'[r] = [call[r] EXCEPT !.closed = TRUE]
    <3>1. asked[r] = call[r] /\ asked' = [asked EXCEPT ![r].closed = TRUE]
      BY <1>3, <2>2, <2>5
    <3>2. asked[r] # [began |-> 0]
      BY <1>1, <1>5, <3>1 DEF WaitInv
    <3>3. Decision!Insist(r)
      BY <2>3, <3>1, <3>2 DEF Decision!Insist, Decision!NoQuestion, Asked, Told
    <3> QED
      BY <1>1, <3>3 DEF Decision!Next
  <2> QED
    BY <2>1, <2>4, <2>5
<1>6. CASE pc[r] \in Waiting /\ pc'[r] \notin Waiting
  <2>1. pc'[r] = "idle" /\ verdict'[r] \in Verdict /\ Concludes(r, verdict'[r])
    BY <1>1, <1>6, WaitingStep DEF Concludes
  <2>2. Asked(r) = call[r] /\ Asked(r)' = [began |-> 0] /\ Told(r)' = verdict'[r]
    BY <1>6 DEF Asked, Told
  <2>3. asked[r] # [began |-> 0]
    BY <1>1, <1>6, <2>2 DEF WaitInv
  <2>4. /\ asked' = [asked EXCEPT ![r] = [began |-> 0]]
        /\ told' = [told EXCEPT ![r] = verdict'[r]]
    BY <1>3, <2>2
  <2>5. Decision!Answers(r)
    BY <2>1, <2>3, <2>4, AnswersRightly
       DEF Decision!Answers, Decision!NoQuestion, Asked, Told
  <2> QED
    BY <1>1, <2>5 DEF Decision!Next
<1> QED
  BY <1>4, <1>5, <1>6

\* Whatever path a request takes through the cache, its outages and its races,
\* the caller gets an answer that SessionDecision promises.
THEOREM DecisionsAreAuths == Spec => DecisionIsAuths
<1>1. Init => Decision!Init
  BY DEF Init, Decision!Init, Decision!NoQuestion, Waiting
<1>2. ASSUME ResolverAssumption, IInv, [Next]_vars
      PROVE  [Decision!Next]_<<now, history, [q \in Requests |-> Asked(q)],
                               [q \in Requests |-> Told(q)]>>
  <2>1. CASE Auth
    <3>1. Decision!SessionChanges
      BY <1>2, <2>1, AuthKeeps
         DEF IInv, Decision!SessionChanges, Decision!Current, Current
    <3> QED
      BY <3>1 DEF Decision!Next
  <2>2. CASE Tick
    BY <2>2 DEF Tick, Decision!Next, Decision!Tick
  <2>3. CASE CacheEvicts \/ UNCHANGED vars
    BY <2>3 DEF CacheEvicts, vars, Asked, Told
  <2>4. ASSUME Next, NEW r \in Requests, RequestStep(r)
        PROVE  [Decision!Next]_<<now, history, [q \in Requests |-> Asked(q)],
                                 [q \in Requests |-> Told(q)]>>
    BY <1>2, <2>4, RequestDecides
  <2> QED
    BY <1>2, <2>1, <2>2, <2>3, <2>4 DEF Next, RequestStep
<1>3. ResolverAssumption /\ IInv /\ [Next]_vars =>
        [Decision!Next]_<<now, history,
            [r \in Requests |-> IF pc[r] \in Waiting THEN call[r] ELSE [began |-> 0]],
            [r \in Requests |-> IF pc[r] \in Waiting THEN "none" ELSE verdict[r]]>>
  BY <1>2 DEF Asked, Told
<1> QED
  BY <1>1, <1>3, HeldAnswersAreHonest, ResolverAssumption, PTL
     DEF Spec, DecisionIsAuths, Decision!Spec
-----------------------------------------------------------------------------
\* What a request does next, and with how many steps before it after that.
LEMMA AwaitLeads ==
    ASSUME TypeOK, NEW r \in Requests, NEW where, NEW answer, Await(r, where, answer)
    PROVE  pc'[r] = where
BY DEF Await, TypeOK

LEMMA ConcludeEnds ==
    ASSUME TypeOK, NEW r \in Requests, NEW kind, Conclude(r, kind)
    PROVE  StepsLeft(r)' = 0
BY DEF Conclude, TypeOK, StepsLeft

\* A second question fails closed: it leads to no copy, and to no third one.
LEMMA DecideLeads ==
    ASSUME ResolverAssumption, TypeOK, NEW r \in Requests, NEW v, NEW age, Decide(r, v, age)
    PROVE  StepsLeft(r)' = 0 \/ (StepsLeft(r)' = 3 /\ age # 0)
<1>1. CASE /\ JtiRuling(call[r].strict, call[r].token, history[v].jti, age) = "superseded"
           /\ age # 0
  <2>1. pc'[r] = "asking" /\ call'[r].closed
    BY <1>1, AwaitLeads DEF Decide, TypeOK, Call
  <2> QED
    BY <1>1, <2>1 DEF StepsLeft
<1>2. CASE ~(/\ JtiRuling(call[r].strict, call[r].token, history[v].jti, age) = "superseded"
             /\ age # 0)
  BY <1>2, ConcludeEnds DEF Decide
<1> QED
  BY <1>1, <1>2

LEMMA StepBringsNearer ==
    ASSUME ResolverAssumption, IInv, NEW r \in Requests, RequestStep(r), pc[r] \in Waiting
    PROVE  StepsLeft(r)' < StepsLeft(r)
<1>0. TypeOK /\ CopyInv(r)
  BY DEF IInv
<1>1. StepsLeft(r) \in 1..9
  BY DEF StepsLeft, Waiting
<1>2. ~Start(r)
  BY DEF Start, Waiting
<1>3. ASSUME StepsLeft(r)' = 0
      PROVE  StepsLeft(r)' < StepsLeft(r)
  BY <1>1, <1>3
<1>4. CASE UseCopy(r)
  <2>1. StepsLeft(r) = 8 /\ ~call[r].closed
    BY <1>0, <1>4 DEF UseCopy, CopyInv, StepsLeft
  <2>2. CASE Decide(r, held[r].v, Age(r, held[r].stamp))
    BY <1>0, <2>1, <2>2, DecideLeads
  <2>3. CASE Await(r, "asking", NoAnswer) /\ UNCHANGED call
    <3>1. pc'[r] = "asking" /\ call'[r] = call[r]
      BY <1>0, <2>3, AwaitLeads
    <3> QED
      BY <2>1, <3>1 DEF StepsLeft
  <2> QED
    BY <1>4, <2>2, <2>3 DEF UseCopy
<1>5. CASE UseAnswer(r)
  <2>1. StepsLeft(r) \in {2, 6}
    BY <1>5 DEF UseAnswer, StepsLeft
  <2>2. pc'[r] \in {"writing", "forgetting"}
    BY <1>0, <1>5, AwaitLeads DEF UseAnswer
  <2>3. StepsLeft(r)' = 1
    BY <2>2 DEF StepsLeft
  <2> QED
    BY <2>1, <2>3
<1>6. CASE UseLastGood(r)
  <2>1. StepsLeft(r) = 4
    BY <1>6 DEF UseLastGood, StepsLeft
  <2> QED
    BY <1>0, <1>3, <1>6, <2>1, ConcludeEnds, DecideLeads DEF UseLastGood
<1>7. CASE CacheReplies(r) \/ AuthAnswers(r)
  <2>1. CASE CacheReplies(r)
    BY <1>0, <2>1 DEF CacheReplies, TypeOK, StepsLeft
  <2>2. CASE AuthAnswers(r)
    BY <1>0, <2>2 DEF AuthAnswers, TypeOK, StepsLeft
  <2> QED
    BY <1>7, <2>1, <2>2
<1>8. CASE CacheReadFails(r)
  <2>1. StepsLeft(r) \in {8, 9} /\ ~call[r].closed
    BY <1>0, <1>8 DEF CacheReadFails, CopyInv, StepsLeft
  <2>2. pc'[r] = "asking" /\ call'[r] = call[r]
    BY <1>0, <1>8, AwaitLeads DEF CacheReadFails
  <2>3. StepsLeft(r)' = 7
    BY <2>1, <2>2 DEF StepsLeft
  <2> QED
    BY <2>1, <2>3
<1>9. CASE FetchFails(r)
  <2>1. CASE call[r].closed
    BY <1>0, <1>3, <1>9, <2>1, ConcludeEnds DEF FetchFails
  <2>2. CASE ~call[r].closed
    <3>1. StepsLeft(r) \in {6, 7}
      BY <1>9, <2>2 DEF FetchFails, StepsLeft
    <3>2. pc'[r] = "rescuing"
      BY <1>0, <1>9, <2>2, AwaitLeads DEF FetchFails
    <3>3. StepsLeft(r)' = 5
      BY <3>2 DEF StepsLeft
    <3> QED
      BY <3>1, <3>3
  <2> QED
    BY <2>1, <2>2
<1>10. CASE FetchForbidden(r) \/ Forget(r) \/ LastGoodReadFails(r) \/ Cancel(r)
  BY <1>0, <1>3, <1>10, ConcludeEnds DEF FetchForbidden, Forget, LastGoodReadFails, Cancel
<1>11. CASE CacheStores(r) \/ CacheStoreFails(r)
  <2>1. Decide(r, held[r].v, 0) \/ Conclude(r, "error")
    BY <1>11 DEF CacheStores, CacheStoreFails
  <2> QED
    BY <1>0, <1>3, <2>1, ConcludeEnds, DecideLeads
<1> QED
  BY <1>2, <1>4, <1>5, <1>6, <1>7, <1>8, <1>9, <1>10, <1>11
     DEF RequestStep, Resume, CallEnds

\* Every request makes headway only towards its end, so that what EveryRequestEnds
\* needs beside this is that the event loop and the timeouts let it take its steps.
THEOREM RequestsNearTheirEnd == Spec => NeverGoesRound
<1>1. ASSUME ResolverAssumption, IInv, [Next]_vars, NEW r \in Requests, pc[r] \in Waiting
      PROVE  \/ StepsLeft(r)' < StepsLeft(r)
             \/ UNCHANGED <<pc[r], call[r], held[r], since[r]>>
  <2>1. CASE Auth
    BY <1>1, <2>1, AuthKeeps DEF IInv
  <2>2. CASE Tick \/ CacheEvicts \/ UNCHANGED vars
    BY <2>2 DEF Tick, CacheEvicts, vars
  <2>3. ASSUME NEW q \in Requests, RequestStep(q), q # r
        PROVE  UNCHANGED <<pc[r], call[r], held[r], since[r]>>
    BY <1>1, <2>3, RequestKeeps DEF OthersKeep, IInv
  <2>4. CASE RequestStep(r)
    BY <1>1, <2>4, StepBringsNearer
  <2> QED
    BY <1>1, <2>1, <2>2, <2>3, <2>4 DEF Next, RequestStep
<1>2. ResolverAssumption /\ IInv /\ [Next]_vars =>
        \A r \in Requests : pc[r] \in Waiting =>
            \/ StepsLeft(r)' < StepsLeft(r)
            \/ UNCHANGED <<pc[r], call[r], held[r], since[r]>>
  BY <1>1
<1> QED
  BY <1>2, HeldAnswersAreHonest, ResolverAssumption, PTL DEF Spec, NeverGoesRound
=============================================================================
