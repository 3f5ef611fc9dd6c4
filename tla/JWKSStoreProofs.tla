--------------------------- MODULE JWKSStoreProofs ---------------------------
(***************************************************************************)
(* Proofs about JWKSStore: the invariant behind the one lock, and what     *)
(* get_key owes its callers, for any number of tasks and any timing.       *)
(***************************************************************************)
EXTENDS JWKSStore, SequenceTheorems, TLAPS

-----------------------------------------------------------------------------
\* Types.

LEMMA RemoveAtType ==
    ASSUME NEW S, NEW s \in Seq(S), NEW i \in 1..Len(s)
    PROVE  RemoveAt(s, i) \in Seq(S)
<1>1. SubSeq(s, 1, i-1) \in Seq(S) /\ SubSeq(s, i+1, Len(s)) \in Seq(S)
  BY SubSeqProperties
<1> QED
  BY <1>1, ConcatProperties DEF RemoveAt

LEMMA ReturnType ==
    ASSUME StoreAssumption, TypeOK, NEW t \in Tasks, NEW kid \in Kids \cup {None},
           NEW version \in Nat, NEW held, NEW refreshed \in {"no", "yes", "failed"},
           Return(t, kid, version, held, refreshed)
    PROVE  /\ pc' \in [Tasks -> Waiting \cup {"idle", "sleeping"}]
           /\ want' \in [Tasks -> Kids \cup {None}]
           /\ began' \in [Tasks -> Nat] /\ got' \in [Tasks -> Nat]
           /\ since' \in [Tasks -> Nat]
           /\ returned' \in Returned \cup {NoReturn}
<1>1. returned' \in Returned \cup {NoReturn}
  BY DEF Return, Returned
<1> QED
  BY <1>1 DEF Return, Reset, TypeOK

LEMMA WaitType ==
    ASSUME StoreAssumption, TypeOK, NEW t \in Tasks, NEW kid \in Kids \cup {None},
           NEW version \in Nat, NEW where \in Waiting, NEW start \in Nat,
           Wait(t, kid, version, where, start)
    PROVE  /\ pc' \in [Tasks -> Waiting \cup {"idle", "sleeping"}]
           /\ want' \in [Tasks -> Kids \cup {None}]
           /\ began' \in [Tasks -> Nat] /\ got' \in [Tasks -> Nat]
           /\ since' \in [Tasks -> Nat]
           /\ returned' \in Returned \cup {NoReturn}
BY DEF Wait, TypeOK

LEMMA LockedType ==
    ASSUME StoreAssumption, TypeOK, NEW t \in Tasks, NEW kid \in Kids \cup {None},
           NEW version \in Nat, Locked(t, kid, version)
    PROVE  /\ holder' \in Tasks \cup {None}
           /\ pc' \in [Tasks -> Waiting \cup {"idle", "sleeping"}]
           /\ want' \in [Tasks -> Kids \cup {None}]
           /\ began' \in [Tasks -> Nat] /\ got' \in [Tasks -> Nat]
           /\ since' \in [Tasks -> Nat]
           /\ returned' \in Returned \cup {NoReturn}
<1>1. CASE Return(t, kid, version, keys, "no") /\ holder' = None
  BY <1>1, ReturnType
<1>2. CASE Wait(t, kid, version, "fetching", now) /\ holder' = t
  BY <1>2, WaitType DEF TypeOK, Waiting
<1> QED
  BY <1>1, <1>2 DEF Locked

LEMMA EnterType ==
    ASSUME StoreAssumption, TypeOK, NEW t \in Tasks, NEW kid \in Kids \cup {None},
           Enter(t, kid)
    PROVE  TypeOK'
<1>1. Current \in Nat
  BY DEF TypeOK, Current
<1>2. UNCHANGED <<now, published, keys, fetchedAt, static, pollTask, stopping>>
  BY DEF Enter, store, polling
<1>3. CASE Return(t, kid, Current, keys, "no") /\ UNCHANGED <<holder, waiters>>
  BY <1>1, <1>2, <1>3, ReturnType DEF TypeOK, Current
<1>4. CASE Locked(t, kid, Current) /\ UNCHANGED waiters
  BY <1>1, <1>2, <1>4, LockedType DEF TypeOK, Current
<1>5. CASE /\ Wait(t, kid, Current, "waiting", 0)
           /\ waiters' = Append(waiters, t) /\ UNCHANGED holder
  <2>1. waiters' \in Seq(Tasks)
    BY <1>5 DEF TypeOK
  <2> QED
    BY <1>1, <1>2, <1>5, <2>1, WaitType DEF TypeOK, Current, Waiting
<1> QED
  BY <1>3, <1>4, <1>5 DEF Enter

LEMMA TaskType ==
    ASSUME StoreAssumption, TypeOK, NEW t \in Tasks, Step(t) \/ Stops(t)
    PROVE  TypeOK'
<1>1. want[t] \in Kids \cup {None} /\ began[t] \in Nat /\ got[t] \in Nat
  BY DEF TypeOK
<1>2. CASE Acquire(t)
  <2>1. waiters' \in Seq(Tasks)
    BY <1>2 DEF Acquire, TypeOK
  <2> QED
    BY <1>1, <1>2, <2>1, LockedType DEF Acquire, TypeOK, store, polling, Current
<1>3. CASE IssuerAnswers(t)
  BY <1>3 DEF IssuerAnswers, TypeOK, store, polling, Current, Waiting
<1>4. CASE FetchReturns(t)
  BY <1>1, <1>4, ReturnType DEF FetchReturns, TypeOK, polling, Current
<1>5. CASE FetchFails(t)
  BY <1>1, <1>5, ReturnType DEF FetchFails, TypeOK, store, polling, Current
<1>6. CASE Stops(t)
  <2>1. waiters' \in Seq(Tasks)
    BY <1>6, RemoveAtType DEF Stops, LeaveQueue, TypeOK
  <2> QED
    BY <1>6, <2>1 DEF Stops, Reset, TypeOK, store, polling, Current
<1> QED
  BY <1>2, <1>3, <1>4, <1>5, <1>6 DEF Step

\* The steps of the issuer, the clock and the store's other callers.
OtherStep ==
    \/ Rotate \/ Tick \/ PinKeys \/ StopPolling \/ PollingStopped
    \/ \E p \in Pollers : StartPolling(p)

LEMMA OtherType ==
    ASSUME StoreAssumption, TypeOK, OtherStep
    PROVE  TypeOK'
<1>1. CASE Rotate
  <2>1. PICK kids \in SUBSET Kids :
           published' = Append(published, [kids |-> kids, since |-> now])
    BY <1>1 DEF Rotate
  <2>2. [kids |-> kids, since |-> now] \in Documents
    BY DEF Documents, TypeOK
  <2> QED
    BY <1>1, <2>1, <2>2 DEF Rotate, TypeOK, store, calls, polling, Current
<1>2. CASE Tick
  BY <1>2 DEF Tick, TypeOK, store, calls, polling, Current
<1>3. CASE PinKeys
  BY <1>3 DEF PinKeys, TypeOK, calls, polling, Current
<1>4. CASE StopPolling
  BY <1>4 DEF StopPolling, TypeOK, store, calls, Current
<1>5. CASE PollingStopped
  BY <1>5 DEF PollingStopped, TypeOK, store, calls, Current
<1>6. ASSUME NEW p \in Pollers, StartPolling(p)
      PROVE  TypeOK'
  BY <1>6 DEF StartPolling, TypeOK, store, Current, Tasks
<1> QED
  BY <1>1, <1>2, <1>3, <1>4, <1>5, <1>6 DEF OtherStep

\* Every step is one of these.
LEMMA StepCases ==
    ASSUME StoreAssumption, [Next]_vars
    PROVE  \/ OtherStep
           \/ \E t \in Tasks, kid \in Kids \cup {None} :
                 pc[t] \in {"idle", "sleeping"} /\ Enter(t, kid)
           \/ \E t \in Tasks : Step(t) \/ Stops(t)
           \/ UNCHANGED vars
BY DEF Next, OtherStep, GetKey, Warm, Poll, Tasks

LEMMA InitType == StoreAssumption /\ Init => TypeOK
<1> SUFFICES ASSUME StoreAssumption, Init
             PROVE  TypeOK
  OBVIOUS
<1>1. PICK kids \in SUBSET Kids : published = <<[kids |-> kids, since |-> 0]>>
  BY DEF Init
<1>2. [kids |-> kids, since |-> 0] \in Documents
  BY DEF Documents
<1>3. published \in Seq(Documents) /\ Len(published) = 1
  BY <1>1, <1>2
<1>4. /\ pc \in [Tasks -> Waiting \cup {"idle", "sleeping"}]
      /\ want \in [Tasks -> Kids \cup {None}]
      /\ began \in [Tasks -> Nat] /\ got \in [Tasks -> Nat] /\ since \in [Tasks -> Nat]
  BY DEF Init
<1>5. /\ waiters \in Seq(Tasks)
      /\ now = 0 /\ keys = 0 /\ fetchedAt = 0 /\ static = FALSE /\ holder = None
      /\ returned = NoReturn /\ pollTask = None /\ stopping = None
  BY DEF Init, Nothing
<1>6. /\ keys \in Nat \cup {Pinned} /\ holder \in Tasks \cup {None}
      /\ static \in BOOLEAN /\ now \in Nat /\ fetchedAt \in Nat
      /\ returned \in Returned \cup {NoReturn}
      /\ pollTask \in Pollers \cup {None} /\ stopping \in Pollers \cup {None}
  BY <1>5
<1> QED
  BY <1>3, <1>4, <1>5, <1>6 DEF TypeOK, Current

LEMMA StepType == StoreAssumption /\ TypeOK /\ [Next]_vars => TypeOK'
<1> SUFFICES ASSUME StoreAssumption, TypeOK, [Next]_vars
             PROVE  TypeOK'
  OBVIOUS
<1>1. CASE UNCHANGED vars
  BY <1>1 DEF vars, store, calls, polling, TypeOK, Current
<1> QED
  BY <1>1, StepCases, OtherType, EnterType, TaskType

\* Every variable keeps its type.
THEOREM TypeCorrect == Spec => []TypeOK
BY InitType, StepType, StoreAssumption, PTL DEF Spec
-----------------------------------------------------------------------------
\* The inductive invariant.

\* A step of t leaves the other tasks alone.
OthersKeep(t) ==
    \A u \in Tasks \ {t} : /\ pc'[u] = pc[u] /\ began'[u] = began[u]
                           /\ got'[u] = got[u] /\ since'[u] = since[u]

LEMMA ReturnKeeps ==
    ASSUME TypeOK, NEW t \in Tasks, NEW kid, NEW version, NEW held, NEW refreshed,
           Return(t, kid, version, held, refreshed)
    PROVE  OthersKeep(t) /\ pc'[t] \in {"idle", "sleeping"} /\ began'[t] = 1
BY DEF TypeOK, Return, Reset, OthersKeep

LEMMA WaitKeeps ==
    ASSUME TypeOK, NEW t \in Tasks, NEW kid, NEW version, NEW where, NEW start,
           Wait(t, kid, version, where, start)
    PROVE  /\ OthersKeep(t) /\ pc'[t] = where
           /\ began'[t] = version /\ since'[t] = start
BY DEF TypeOK, Wait, OthersKeep

\* Nobody else fetches while the lock is free or t holds it, so that t may then
\* take or free it and replace the set; otherwise it must leave both alone.
LEMMA OthersInv ==
    ASSUME IInv, NEW t \in Tasks, OthersKeep(t), UNCHANGED <<now, published>>,
           holder \in {None, t} \/ UNCHANGED <<holder, keys>>, None \notin Tasks
    PROVE  \A u \in Tasks \ {t} : FetchInv(u)'
<1> SUFFICES ASSUME NEW u \in Tasks \ {t}
             PROVE  FetchInv(u)'
  OBVIOUS
<1>1. FetchInv(u) /\ pc'[u] = pc[u] /\ began'[u] = began[u]
      /\ got'[u] = got[u] /\ since'[u] = since[u]
  BY DEF IInv, OthersKeep
<1>2. CASE holder \in {None, t}
  <2>1. pc[u] \notin Fetching
    BY <1>1, <1>2 DEF FetchInv
  <2> QED
    BY <1>1, <2>1 DEF FetchInv, Fetching, Current
<1>3. CASE UNCHANGED <<holder, keys>>
  BY <1>1, <1>3 DEF FetchInv, CurrentSince, Current
<1> QED
  BY <1>2, <1>3

LEMMA LockedInv ==
    ASSUME StoreAssumption, IInv, NEW t \in Tasks, NEW kid, NEW version \in 1..Current,
           Locked(t, kid, version), UNCHANGED <<now, published>>
    PROVE  OthersKeep(t) /\ FetchInv(t)'
<1> TypeOK /\ Current' = Current /\ Current \in Nat \ {0}
  BY DEF IInv, TypeOK, Current
<1>1. CASE Return(t, kid, version, keys, "no")
  BY <1>1, ReturnKeeps DEF FetchInv, Fetching
<1>2. CASE Wait(t, kid, version, "fetching", now) /\ holder' = t
  <2>1. /\ OthersKeep(t) /\ pc'[t] = "fetching" /\ began'[t] = version
        /\ since'[t] = now
    BY <1>2, WaitKeeps
  <2>2. now' <= since'[t] + FetchTimeout /\ since'[t] <= now'
    BY <2>1 DEF TypeOK, StoreAssumption
  <2> QED
    BY <1>2, <2>1, <2>2 DEF FetchInv
<1> QED
  BY <1>1, <1>2 DEF Locked

LEMMA EnterInv ==
    ASSUME StoreAssumption, IInv, NEW t \in Tasks, NEW kid, Enter(t, kid)
    PROVE  \A u \in Tasks : FetchInv(u)'
<1> TypeOK /\ Current \in Nat \ {0}
  BY DEF IInv, TypeOK, Current
<1> Current' = Current /\ Current \in 1..Current
  BY DEF Enter, Current
<1>1. UNCHANGED <<now, published, keys>>
  BY DEF Enter, store
<1>2. CASE Return(t, kid, Current, keys, "no") /\ UNCHANGED holder
  <2>1. OthersKeep(t) /\ FetchInv(t)'
    BY <1>2, ReturnKeeps DEF FetchInv, Fetching
  <2> QED
    BY <1>1, <1>2, <2>1, OthersInv DEF StoreAssumption
<1>3. CASE holder = None /\ Locked(t, kid, Current)
  BY <1>1, <1>3, LockedInv, OthersInv DEF StoreAssumption
<1>4. CASE Wait(t, kid, Current, "waiting", 0) /\ UNCHANGED holder
  <2>1. OthersKeep(t) /\ FetchInv(t)'
    BY <1>4, WaitKeeps DEF FetchInv, Fetching
  <2> QED
    BY <1>1, <1>4, <2>1, OthersInv DEF StoreAssumption
<1> QED
  BY <1>2, <1>3, <1>4 DEF Enter

LEMMA TaskInv ==
    ASSUME StoreAssumption, IInv, NEW t \in Tasks, Step(t) \/ Stops(t)
    PROVE  /\ KeysInv' /\ UNCHANGED <<now, published>>
           /\ \A u \in Tasks : FetchInv(u)'
<1> /\ TypeOK /\ FetchInv(t) /\ KeysInv /\ None \notin Tasks
    /\ Current \in Nat \ {0}
  BY DEF IInv, TypeOK, Current, StoreAssumption
<1>1. ASSUME UNCHANGED <<now, published, store>>
      PROVE  KeysInv'
  BY <1>1 DEF store, KeysInv, CurrentSince, Current
<1>2. CASE Acquire(t)
  <2>1. UNCHANGED <<now, published, store>> /\ holder = None
    BY <1>2 DEF Acquire
  <2>2. began[t] \in 1..Current
    BY DEF FetchInv
  <2>3. OthersKeep(t) /\ FetchInv(t)'
    BY <1>2, <2>1, <2>2, LockedInv DEF Acquire
  <2> QED
    BY <1>1, <2>1, <2>3, OthersInv
<1>3. CASE IssuerAnswers(t)
  <2>1. /\ UNCHANGED <<now, published, store, holder>> /\ UNCHANGED <<holder, keys>>
        /\ pc'[t] = "answered" /\ got'[t] = Current
        /\ began'[t] = began[t] /\ since'[t] = since[t] /\ pc[t] = "fetching"
        /\ OthersKeep(t)
    BY <1>3 DEF IssuerAnswers, TypeOK, OthersKeep, store
  <2>2. keys \in Nat => Current >= keys
    BY DEF KeysInv, TypeOK, Pinned, Nothing
  <2>3. FetchInv(t)'
    BY <2>1, <2>2 DEF FetchInv, CurrentSince, Current, Fetching
  <2> QED
    BY <1>1, <2>1, <2>3, OthersInv
<1>4. CASE FetchReturns(t)
  <2>1. /\ UNCHANGED <<now, published, static>> /\ keys' = got[t] /\ fetchedAt' = now
        /\ pc[t] = "answered" /\ Return(t, want[t], began[t], got[t], "yes")
    BY <1>4 DEF FetchReturns
  <2>2. /\ holder = t /\ got[t] \in 1..Current /\ CurrentSince(got[t], since[t])
        /\ since[t] >= now - FetchTimeout
    BY <2>1 DEF FetchInv, Fetching, TypeOK, StoreAssumption
  <2>3. CurrentSince(got[t], now - FetchTimeout)
    <3>1. CASE got[t] = Current
      BY <3>1 DEF CurrentSince
    <3>2. CASE got[t] # Current
      <4>1. published[got[t] + 1] \in Documents /\ published[got[t] + 1].since >= since[t]
        BY <2>2, <3>2 DEF CurrentSince, TypeOK, Current
      <4> QED
        BY <2>2, <4>1 DEF CurrentSince, Documents, TypeOK, StoreAssumption
    <3> QED
      BY <3>1, <3>2
  <2>4. KeysInv'
    BY <2>1, <2>2, <2>3 DEF KeysInv, TypeOK, Pinned, Nothing, CurrentSince, Current
  <2>5. OthersKeep(t) /\ FetchInv(t)'
    BY <2>1, ReturnKeeps DEF FetchInv, Fetching, Current
  <2> QED
    BY <2>1, <2>2, <2>4, <2>5, OthersInv
<1>5. CASE FetchFails(t)
  <2>1. /\ UNCHANGED <<now, published, store>> /\ pc[t] \in Fetching
        /\ Return(t, want[t], began[t], keys, "failed")
    BY <1>5 DEF FetchFails
  <2>2. holder = t
    BY <2>1 DEF FetchInv
  <2>3. OthersKeep(t) /\ FetchInv(t)'
    BY <2>1, ReturnKeeps DEF FetchInv, Fetching, Current
  <2> QED
    BY <1>1, <2>1, <2>2, <2>3, OthersInv
<1>6. CASE Stops(t)
  <2>1. /\ UNCHANGED <<now, published, store>> /\ OthersKeep(t)
        /\ holder = t \/ UNCHANGED <<holder, keys>>
        /\ pc'[t] = "idle" /\ began'[t] = 1
    BY <1>6 DEF Stops, Reset, TypeOK, OthersKeep, store
  <2>2. FetchInv(t)'
    BY <2>1 DEF FetchInv, Fetching, Current
  <2> QED
    BY <1>1, <2>1, <2>2, OthersInv
<1> QED
  BY <1>2, <1>3, <1>4, <1>5, <1>6 DEF Step

\* A version that was current at x still was when the issuer published another.
LEMMA RotateSince ==
    ASSUME TypeOK, Rotate, NEW v \in 1..Current, NEW x \in Int, x <= now,
           CurrentSince(v, x)
    PROVE  v = Current' \/ published'[v + 1].since >= x
<1>1. PICK kids \in SUBSET Kids :
         published' = Append(published, [kids |-> kids, since |-> now])
  BY DEF Rotate
<1>2. CASE v = Current
  BY <1>1, <1>2 DEF TypeOK, Current
<1>3. CASE v # Current
  <2>1. v + 1 \in 1..Current /\ published[v + 1].since >= x
    BY <1>3 DEF CurrentSince, TypeOK, Current
  <2>2. published'[v + 1] = published[v + 1]
    BY <1>1, <2>1 DEF TypeOK, Current
  <2> QED
    BY <2>1, <2>2
<1> QED
  BY <1>2, <1>3

LEMMA RotateInv ==
    ASSUME StoreAssumption, IInv, Rotate
    PROVE  /\ \A v \in 1..Current' : published'[v].since <= now'
           /\ KeysInv'
           /\ \A t \in Tasks : FetchInv(t)'
<1> TypeOK /\ KeysInv /\ Current \in Nat \ {0} /\ now \in Nat /\ fetchedAt \in Nat
    /\ FetchTimeout \in Nat
  BY DEF IInv, TypeOK, Current, StoreAssumption
<1> UNCHANGED <<now, keys, fetchedAt, static, holder, pc, want, began, got, since>>
  BY DEF Rotate, store, calls
<1>1. PICK kids \in SUBSET Kids :
         published' = Append(published, [kids |-> kids, since |-> now])
  BY DEF Rotate
<1>2. /\ Current' = Current + 1 /\ published'[Current + 1].since = now
      /\ \A v \in 1..Current : published'[v] = published[v]
  BY <1>1 DEF TypeOK, Current
<1>3. \A v \in 1..Current' : published'[v].since <= now'
  BY <1>2 DEF IInv
<1>4. KeysInv'
  <2>1. ASSUME keys \in 1..Current
        PROVE  CurrentSince(keys, fetchedAt - FetchTimeout)'
    <3>1. CurrentSince(keys, fetchedAt - FetchTimeout)
          /\ fetchedAt - FetchTimeout <= now /\ fetchedAt - FetchTimeout \in Int
      BY <2>1 DEF KeysInv
    <3> QED
      BY <2>1, <3>1, RotateSince DEF CurrentSince
  <2>2. keys \in 1..Current' => keys \in 1..Current
    BY <1>2 DEF KeysInv, Nothing, Pinned
  <2> QED
    BY <1>2, <2>1, <2>2 DEF KeysInv
<1>5. ASSUME NEW t \in Tasks
      PROVE  FetchInv(t)'
  <2>1. FetchInv(t) /\ began[t] \in Nat /\ got[t] \in Nat /\ since[t] \in Nat
    BY DEF IInv, TypeOK
  <2>2. ASSUME pc[t] = "answered"
        PROVE  /\ got[t] \in began[t]..Current /\ since[t] <= now
               /\ CurrentSince(got[t], since[t])'
    <3>1. /\ got[t] \in 1..Current /\ CurrentSince(got[t], since[t])
          /\ got[t] \in began[t]..Current /\ since[t] <= now
      BY <2>1, <2>2 DEF FetchInv, Fetching
    <3> QED
      BY <2>1, <3>1, RotateSince DEF CurrentSince
  <2> QED
    BY <1>2, <2>1, <2>2 DEF FetchInv
<1> QED
  BY <1>3, <1>4, <1>5

LEMMA OtherInv ==
    ASSUME StoreAssumption, IInv, OtherStep
    PROVE  /\ \A v \in 1..Current' : published'[v].since <= now'
           /\ KeysInv'
           /\ \A t \in Tasks : FetchInv(t)'
<1> TypeOK /\ KeysInv /\ Current \in Nat \ {0} /\ now \in Nat
    /\ \A v \in 1..Current : published[v] \in Documents /\ published[v].since <= now
  BY DEF IInv, TypeOK, Current
<1>1. CASE Rotate
  BY <1>1, RotateInv
<1>2. CASE Tick
  <2>1. /\ UNCHANGED <<published, keys, fetchedAt, static, holder>>
        /\ UNCHANGED <<pc, want, began, got, since>> /\ now' = now + 1
        /\ \A t \in Tasks : pc[t] \in Fetching => now - since[t] < FetchTimeout
    BY <1>2 DEF Tick, store, calls
  <2>2. KeysInv' /\ \A v \in 1..Current' : published'[v].since <= now'
    BY <2>1 DEF KeysInv, CurrentSince, Current, TypeOK, Documents
  <2>3. ASSUME NEW t \in Tasks
        PROVE  FetchInv(t)'
    <3>1. FetchInv(t) /\ since[t] \in Nat /\ FetchTimeout \in Nat
      BY DEF IInv, TypeOK, StoreAssumption
    <3>2. pc[t] \in Fetching => since[t] <= now' /\ now' <= since[t] + FetchTimeout
      BY <2>1, <3>1 DEF FetchInv
    <3> QED
      BY <2>1, <3>1, <3>2 DEF FetchInv, CurrentSince, Current
  <2> QED
    BY <2>2, <2>3
<1>3. CASE PinKeys
  <2>1. /\ UNCHANGED <<now, published, holder, pc, began, got, since>>
        /\ keys' = Pinned /\ static' = TRUE /\ fetchedAt' = now
    BY <1>3 DEF PinKeys, calls
  <2>2. KeysInv'
    BY <2>1 DEF KeysInv, Pinned, Current
  <2>3. \A t \in Tasks : FetchInv(t)'
    BY <2>1 DEF IInv, FetchInv, CurrentSince, Current, Pinned
  <2> QED
    BY <2>1, <2>2, <2>3 DEF Current
<1>4. CASE UNCHANGED <<now, published, store, holder, calls>>
  <2>1. UNCHANGED <<now, published, keys, fetchedAt, static, holder, pc, began, got, since>>
    BY <1>4 DEF store, calls
  <2>2. KeysInv'
    BY <2>1 DEF KeysInv, CurrentSince, Current
  <2>3. \A t \in Tasks : FetchInv(t)'
    BY <2>1 DEF IInv, FetchInv, CurrentSince, Current
  <2> QED
    BY <2>1, <2>2, <2>3 DEF Current
<1>5. ASSUME NEW p \in Pollers, StartPolling(p)
      PROVE  KeysInv' /\ (\A t \in Tasks : FetchInv(t)') /\ UNCHANGED <<now, published>>
  <2>1. /\ UNCHANGED <<now, published, keys, fetchedAt, static, holder, began, got, since>>
        /\ pc' = [pc EXCEPT ![p] = "sleeping"]
    BY <1>5 DEF StartPolling, store
  <2>2. KeysInv'
    BY <2>1 DEF KeysInv, CurrentSince, Current
  <2>3. ASSUME NEW t \in Tasks
        PROVE  FetchInv(t)'
    <3>1. FetchInv(t) /\ (pc'[t] = pc[t] \/ pc'[t] = "sleeping")
      BY <2>1 DEF IInv, TypeOK
    <3> QED
      BY <2>1, <3>1 DEF FetchInv, CurrentSince, Current, Fetching
  <2> QED
    BY <2>1, <2>2, <2>3
<1> QED
  BY <1>1, <1>2, <1>3, <1>4, <1>5 DEF OtherStep, StopPolling, PollingStopped, Current

-----------------------------------------------------------------------------
\* The queue.

\* What is left of a queue that its i-th member leaves.
Without(s, r, i) ==
    /\ r \in Seq(Tasks) /\ Len(r) + 1 = Len(s)
    /\ \A j \in 1..Len(r) : r[j] = s[IF j < i THEN j ELSE j + 1]

LEMMA ConcatProps ==
    ASSUME NEW a \in Seq(Tasks), NEW b \in Seq(Tasks)
    PROVE  /\ a \o b \in Seq(Tasks) /\ Len(a \o b) = Len(a) + Len(b)
           /\ Len(a) \in Nat /\ Len(b) \in Nat
           /\ \A j \in 1..Len(a)+Len(b) :
                 (a \o b)[j] = IF j <= Len(a) THEN a[j] ELSE b[j - Len(a)]
BY ConcatProperties, LenProperties

LEMMA RemoveAtIsWithout ==
    ASSUME NEW s \in Seq(Tasks), NEW i \in 1..Len(s)
    PROVE  Without(s, RemoveAt(s, i), i)
<1> DEFINE a == SubSeq(s, 1, i-1)
           b == SubSeq(s, i+1, Len(s))
<1>1. Len(s) \in Nat /\ i \in Nat
  BY LenProperties
<1>2. a \in Seq(Tasks) /\ Len(a) = i - 1 /\ \A j \in 1..i-1 : a[j] = s[j]
  BY <1>1, SubSeqProperties
<1>3. /\ b \in Seq(Tasks) /\ Len(b) = Len(s) - i
      /\ \A j \in 1..Len(s)-i : b[j] = s[i + j]
  BY <1>1, SubSeqProperties
<1>4. RemoveAt(s, i) = a \o b
  BY DEF RemoveAt
<1> HIDE DEF a, b
<1>5. /\ a \o b \in Seq(Tasks) /\ Len(a \o b) = Len(a) + Len(b)
      /\ \A j \in 1..Len(a)+Len(b) :
            (a \o b)[j] = IF j <= Len(a) THEN a[j] ELSE b[j - Len(a)]
  BY <1>2, <1>3, ConcatProps
<1>6. Len(a \o b) = Len(s) - 1
  BY <1>1, <1>2, <1>3, <1>5
<1>7. ASSUME NEW j \in 1..Len(a \o b)
      PROVE  (a \o b)[j] = s[IF j < i THEN j ELSE j + 1]
  <2>1. CASE j < i
    BY <1>1, <1>2, <1>3, <1>5, <2>1
  <2>2. CASE ~(j < i)
    <3>1. (a \o b)[j] = b[j - (i - 1)]
      BY <1>1, <1>2, <1>3, <1>5, <2>2
    <3>2. j - (i - 1) \in 1..Len(s)-i /\ i + (j - (i - 1)) = j + 1
      BY <1>1, <1>6, <2>2
    <3>3. b[j - (i - 1)] = s[i + (j - (i - 1))]
      BY <1>3, <3>2
    <3> QED
      BY <2>2, <3>1, <3>2, <3>3
  <2> QED
    BY <2>1, <2>2
<1>8. Without(s, a \o b, i)
  <2>1. Len(a \o b) + 1 = Len(s)
    BY <1>1, <1>6
  <2> QED
    BY <1>5, <1>7, <2>1 DEF Without
<1> QED
  BY <1>4, <1>8

LEMMA TailIsWithout ==
    ASSUME NEW s \in Seq(Tasks), s # <<>>
    PROVE  Without(s, Tail(s), 1) /\ Head(s) = s[1] /\ Len(s) \in Nat \ {0}
<1>1. Len(s) \in Nat \ {0} /\ Head(s) = s[1]
  BY EmptySeq, LenProperties, HeadTailProperties
<1>2. Tail(s) \in Seq(Tasks) /\ Len(Tail(s)) = Len(s) - 1
      /\ \A j \in 1..Len(Tail(s)) : Tail(s)[j] = s[j + 1]
  BY HeadTailProperties
<1> QED
  BY <1>1, <1>2 DEF Without

\* Those that are left are the others, in the order they were in.
LEMMA WithoutKeeps ==
    ASSUME NEW s \in Seq(Tasks), NEW r, NEW i \in 1..Len(s), Without(s, r, i),
           \A j, k \in 1..Len(s) : s[j] = s[k] => j = k
    PROVE  /\ \A j, k \in 1..Len(r) : r[j] = r[k] => j = k
           /\ \A t \in Tasks : (\E j \in 1..Len(r) : r[j] = t)
                                 <=> t # s[i] /\ \E j \in 1..Len(s) : s[j] = t
           /\ \A j, k \in 1..Len(r) : j < k =>
                 \E m, n \in 1..Len(s) : m < n /\ s[m] = r[j] /\ s[n] = r[k]
<1> DEFINE old(j) == IF j < i THEN j ELSE j + 1
<1>1. Len(s) \in Nat /\ Len(r) \in Nat /\ Len(r) + 1 = Len(s)
  BY LenProperties DEF Without
<1>2. \A j \in 1..Len(r) : old(j) \in 1..Len(s) /\ old(j) # i /\ r[j] = s[old(j)]
  BY <1>1 DEF Without
<1>3. \A j, k \in 1..Len(r) : j < k => old(j) < old(k)
  BY <1>1
<1>4. \A j, k \in 1..Len(r) : old(j) = old(k) => j = k
  BY <1>1
<1>5. \A m \in 1..Len(s) : m # i => \E j \in 1..Len(r) : old(j) = m
  <2> SUFFICES ASSUME NEW m \in 1..Len(s), m # i PROVE \E j \in 1..Len(r) : old(j) = m
    OBVIOUS
  <2>1. CASE m < i
    <3>1. m \in 1..Len(r) /\ old(m) = m
      BY <1>1, <2>1
    <3> QED
      BY <3>1
  <2>2. CASE m > i
    <3>1. m - 1 \in 1..Len(r) /\ old(m - 1) = m
      BY <1>1, <2>2
    <3> QED
      BY <3>1
  <2> QED
    BY <1>1, <2>1, <2>2
<1> HIDE DEF old
<1>6. \A j, k \in 1..Len(r) : r[j] = r[k] => j = k
  BY <1>2, <1>4
<1>7. ASSUME NEW t \in Tasks
      PROVE  (\E j \in 1..Len(r) : r[j] = t) <=> t # s[i] /\ \E j \in 1..Len(s) : s[j] = t
  <2>1. ASSUME NEW j \in 1..Len(r), r[j] = t
        PROVE  t # s[i] /\ \E m \in 1..Len(s) : s[m] = t
    BY <1>2, <2>1
  <2>2. ASSUME NEW m \in 1..Len(s), s[m] = t, t # s[i]
        PROVE  \E j \in 1..Len(r) : r[j] = t
    <3>1. PICK j \in 1..Len(r) : old(j) = m
      BY <1>5, <2>2
    <3> QED
      BY <1>2, <2>2, <3>1
  <2> QED
    BY <2>1, <2>2
<1>8. \A j, k \in 1..Len(r) : j < k =>
         \E m, n \in 1..Len(s) : m < n /\ s[m] = r[j] /\ s[n] = r[k]
  BY <1>2, <1>3
<1> QED
  BY <1>6, <1>7, <1>8

LEMMA AppendProps ==
    ASSUME NEW s \in Seq(Tasks), NEW t \in Tasks
    PROVE  /\ Len(Append(s, t)) = Len(s) + 1 /\ Len(s) \in Nat
           /\ Append(s, t)[Len(s) + 1] = t
           /\ \A j \in 1..Len(s) : Append(s, t)[j] = s[j]
BY AppendProperties, LenProperties

\* A task that is not in the queue, before or after its step, leaves it alone.
LEMMA QueueUntouched ==
    ASSUME TypeOK, QueueInv, NEW t \in Tasks, OthersKeep(t), UNCHANGED waiters,
           pc[t] # "waiting", pc'[t] # "waiting", None \notin Tasks,
           \/ holder' = None
           \/ holder' = t /\ pc'[t] \in Fetching
           \/ holder' = holder /\ holder # t
    PROVE  QueueInv'
<1>1. ASSUME NEW u \in Tasks
      PROVE  pc'[u] = "waiting" <=> \E i \in 1..Len(waiters) : waiters[i] = u
  BY DEF QueueInv, OthersKeep
<1>2. holder' # None => pc'[holder'] \in Fetching
  BY DEF QueueInv, OthersKeep, TypeOK
<1> QED
  BY <1>1, <1>2 DEF QueueInv

\* The i-th member leaves the queue, and takes the lock or frees what it held.
LEMMA QueueLeft ==
    ASSUME TypeOK, QueueInv, NEW i \in 1..Len(waiters), Without(waiters, waiters', i),
           OthersKeep(waiters[i]), pc'[waiters[i]] # "waiting", None \notin Tasks,
           \/ holder' = None
           \/ holder' = waiters[i] /\ pc'[waiters[i]] \in Fetching
           \/ holder' = holder
    PROVE  QueueInv'
<1>1. waiters[i] \in Tasks /\ pc[waiters[i]] = "waiting" /\ waiters \in Seq(Tasks)
  BY DEF TypeOK, QueueInv
<1>2. /\ \A j, k \in 1..Len(waiters') : waiters'[j] = waiters'[k] => j = k
      /\ \A u \in Tasks : (\E j \in 1..Len(waiters') : waiters'[j] = u)
                            <=> u # waiters[i] /\ \E j \in 1..Len(waiters) : waiters[j] = u
  BY <1>1, WithoutKeeps DEF QueueInv
<1>3. ASSUME NEW u \in Tasks
      PROVE  pc'[u] = "waiting" <=> \E j \in 1..Len(waiters') : waiters'[j] = u
  BY <1>1, <1>2 DEF QueueInv, OthersKeep
<1>4. holder' # None => pc'[holder'] \in Fetching
  <2>1. holder # None => holder \in Tasks /\ pc[holder] \in Fetching /\ holder # waiters[i]
    BY <1>1 DEF QueueInv, TypeOK, Fetching
  <2> QED
    BY <2>1 DEF OthersKeep
<1> QED
  BY <1>2, <1>3, <1>4 DEF QueueInv

LEMMA LockedQueue ==
    ASSUME TypeOK, NEW t \in Tasks, NEW kid, NEW version, Locked(t, kid, version)
    PROVE  /\ OthersKeep(t) /\ pc'[t] # "waiting"
           /\ holder' = None \/ (holder' = t /\ pc'[t] \in Fetching)
<1>1. CASE Return(t, kid, version, keys, "no") /\ holder' = None
  BY <1>1, ReturnKeeps
<1>2. CASE Wait(t, kid, version, "fetching", now) /\ holder' = t
  BY <1>2, WaitKeeps DEF Fetching
<1> QED
  BY <1>1, <1>2 DEF Locked

LEMMA EnterQueue ==
    ASSUME StoreAssumption, TypeOK, QueueInv, NEW t \in Tasks, NEW kid, Enter(t, kid),
           pc[t] \in {"idle", "sleeping"}
    PROVE  QueueInv'
<1> None \notin Tasks
  BY DEF StoreAssumption
<1>1. holder # t
  BY DEF QueueInv, Fetching
<1>2. CASE Return(t, kid, Current, keys, "no") /\ UNCHANGED <<holder, waiters>>
  BY <1>1, <1>2, ReturnKeeps, QueueUntouched
<1>3. CASE Locked(t, kid, Current) /\ UNCHANGED waiters
  BY <1>3, LockedQueue, QueueUntouched
<1>4. CASE /\ Wait(t, kid, Current, "waiting", 0)
           /\ waiters' = Append(waiters, t) /\ UNCHANGED holder
  <2>1. OthersKeep(t) /\ pc'[t] = "waiting"
    BY <1>4, WaitKeeps
  <2>2. /\ Len(waiters') = Len(waiters) + 1 /\ Len(waiters) \in Nat
        /\ waiters'[Len(waiters) + 1] = t
        /\ \A j \in 1..Len(waiters) : waiters'[j] = waiters[j] /\ waiters[j] # t
    <3>1. waiters \in Seq(Tasks) /\ \A j \in 1..Len(waiters) : waiters[j] # t
      BY DEF TypeOK, QueueInv
    <3> QED
      BY <1>4, <3>1, AppendProps
  <2>3. \A j \in 1..Len(waiters') : j \in 1..Len(waiters) \/ j = Len(waiters) + 1
    BY <2>2
  <2>4. \A i, j \in 1..Len(waiters') : waiters'[i] = waiters'[j] => i = j
    BY <2>2, <2>3 DEF QueueInv
  <2>5. ASSUME NEW u \in Tasks
        PROVE  pc'[u] = "waiting" <=> \E i \in 1..Len(waiters') : waiters'[i] = u
    <3>1. CASE u = t
      BY <2>1, <2>2, <3>1
    <3>2. CASE u # t
      <4>1. pc'[u] = "waiting" <=> \E i \in 1..Len(waiters) : waiters[i] = u
        BY <2>1, <3>2 DEF QueueInv, OthersKeep
      <4>2. 1..Len(waiters) \subseteq 1..Len(waiters')
        BY <2>2
      <4> QED
        BY <2>2, <2>3, <3>2, <4>1, <4>2
    <3> QED
      BY <3>1, <3>2
  <2>6. holder' # None => pc'[holder'] \in Fetching
    BY <1>1, <1>4, <2>1 DEF QueueInv, OthersKeep, TypeOK
  <2> QED
    BY <2>4, <2>5, <2>6 DEF QueueInv
<1> QED
  BY <1>2, <1>3, <1>4 DEF Enter

LEMMA TaskQueue ==
    ASSUME StoreAssumption, IInv, NEW t \in Tasks, Step(t) \/ Stops(t)
    PROVE  QueueInv'
<1> TypeOK /\ QueueInv /\ None \notin Tasks /\ (pc[t] \in Fetching => holder = t)
  BY DEF IInv, FetchInv, StoreAssumption
<1>1. CASE Acquire(t)
  <2>1. /\ Without(waiters, waiters', 1) /\ waiters[1] = t /\ 1 \in 1..Len(waiters)
    BY <1>1, TailIsWithout DEF Acquire, TypeOK
  <2> QED
    BY <1>1, <2>1, LockedQueue, QueueLeft DEF Acquire
<1>2. CASE IssuerAnswers(t)
  <2>1. /\ OthersKeep(t) /\ UNCHANGED <<waiters, holder>> /\ pc[t] = "fetching"
        /\ pc'[t] = "answered"
    BY <1>2 DEF IssuerAnswers, TypeOK, OthersKeep
  <2>2. holder' = t /\ pc'[t] \in Fetching
    BY <2>1 DEF Fetching
  <2> QED
    BY <2>1, <2>2, QueueUntouched
<1>3. CASE FetchReturns(t)
  <2>1. OthersKeep(t) /\ pc'[t] # "waiting" /\ UNCHANGED waiters /\ holder' = None
        /\ pc[t] # "waiting"
    BY <1>3, ReturnKeeps DEF FetchReturns
  <2> QED
    BY <2>1, QueueUntouched
<1>4. CASE FetchFails(t)
  <2>1. OthersKeep(t) /\ pc'[t] # "waiting" /\ UNCHANGED waiters /\ holder' = None
        /\ pc[t] # "waiting"
    BY <1>4, ReturnKeeps DEF FetchFails, Fetching
  <2> QED
    BY <2>1, QueueUntouched
<1>5. CASE Stops(t)
  <2>1. OthersKeep(t) /\ pc'[t] = "idle" /\ holder' \in {None, holder}
        /\ (holder' = holder => holder # t \/ holder' = None)
    BY <1>5 DEF Stops, Reset, TypeOK, OthersKeep
  <2>2. CASE pc[t] # "waiting"
    BY <1>5, <2>1, <2>2, QueueUntouched DEF Stops, LeaveQueue
  <2>3. CASE pc[t] = "waiting"
    <3>1. PICK i \in 1..Len(waiters) : waiters[i] = t /\ waiters' = RemoveAt(waiters, i)
      BY <1>5, <2>3 DEF Stops, LeaveQueue
    <3>2. Without(waiters, waiters', i)
      BY <3>1, RemoveAtIsWithout DEF TypeOK
    <3> QED
      BY <2>1, <3>1, <3>2, QueueLeft
  <2> QED
    BY <2>2, <2>3
<1> QED
  BY <1>1, <1>2, <1>3, <1>4, <1>5 DEF Step

LEMMA OtherQueue ==
    ASSUME TypeOK, QueueInv, OtherStep
    PROVE  QueueInv'
<1>1. ASSUME NEW p \in Pollers, StartPolling(p)
      PROVE  QueueInv'
  <2>1. /\ UNCHANGED <<holder, waiters>> /\ pc[p] = "idle" /\ p \in Tasks
        /\ \A u \in Tasks : pc'[u] = IF u = p THEN "sleeping" ELSE pc[u]
    BY <1>1 DEF StartPolling, TypeOK, Tasks
  <2>2. \A u \in Tasks : pc'[u] = "waiting" <=> pc[u] = "waiting"
    BY <2>1
  <2>3. holder # None => pc'[holder] \in Fetching
    BY <2>1 DEF QueueInv, TypeOK, Fetching
  <2> QED
    BY <2>1, <2>2, <2>3 DEF QueueInv
<1>2. CASE UNCHANGED <<holder, waiters, pc>>
  BY <1>2 DEF QueueInv
<1> QED
  BY <1>1, <1>2
     DEF OtherStep, Rotate, Tick, PinKeys, StopPolling, PollingStopped, calls
-----------------------------------------------------------------------------

LEMMA InitIInv == StoreAssumption /\ Init => IInv
<1> SUFFICES ASSUME StoreAssumption, Init
             PROVE  IInv
  OBVIOUS
<1>1. TypeOK
  BY InitType
<1>2. PICK kids \in SUBSET Kids : published = <<[kids |-> kids, since |-> 0]>>
  BY DEF Init
<1>3. Current = 1 /\ published[1].since = 0
  BY <1>2 DEF Current
<1>4. /\ now = 0 /\ fetchedAt = 0 /\ keys = Nothing
      /\ \A t \in Tasks : pc[t] = "idle" /\ began[t] = 1
  BY DEF Init
<1>5. KeysInv
  BY <1>3, <1>4 DEF KeysInv, Nothing, Pinned
<1>6. \A t \in Tasks : FetchInv(t)
  BY <1>3, <1>4 DEF FetchInv, Fetching
<1>7. \A v \in 1..Current : published[v].since <= now
  BY <1>3, <1>4
<1>8. QueueInv
  BY <1>4 DEF Init, QueueInv
<1> QED
  BY <1>1, <1>5, <1>6, <1>7, <1>8 DEF IInv

LEMMA StepIInv == StoreAssumption /\ IInv /\ [Next]_vars => IInv'
<1> SUFFICES ASSUME StoreAssumption, IInv, [Next]_vars
             PROVE  IInv'
  OBVIOUS
<1>1. TypeOK'
  BY StepType DEF IInv
<1>2. CASE UNCHANGED vars
  BY <1>1, <1>2 DEF vars, store, calls, polling, IInv, KeysInv, FetchInv, QueueInv,
                    CurrentSince, Current
<1>3. CASE OtherStep
  BY <1>1, <1>3, OtherInv, OtherQueue DEF IInv, Current
<1>4. ASSUME NEW t \in Tasks, Step(t) \/ Stops(t)
      PROVE  IInv'
  BY <1>1, <1>4, TaskInv, TaskQueue DEF IInv, Current
<1>5. ASSUME NEW t \in Tasks, NEW kid, pc[t] \in {"idle", "sleeping"}, Enter(t, kid)
      PROVE  IInv'
  <2>1. UNCHANGED <<now, published, keys, fetchedAt, static>>
    BY <1>5 DEF Enter, store
  <2>2. KeysInv'
    BY <2>1 DEF IInv, KeysInv, CurrentSince, Current
  <2> QED
    BY <1>1, <1>5, <2>1, <2>2, EnterInv, EnterQueue DEF IInv, Current
<1> QED
  BY <1>2, <1>3, <1>4, <1>5, StepCases

\* Whatever the number of tasks and the timing, one task fetches, it holds the
\* lock, and what it brings is no older than what the store holds.
THEOREM OneFetchHoldsTheLock == Spec => []IInv
BY InitIInv, StepIInv, StoreAssumption, PTL DEF Spec
-----------------------------------------------------------------------------
\* What get_key returns.

\* The returns of get_key: from what is held, or from a fetch.
Returns ==
    \/ returned' = NoReturn
    \/ \E t \in Tasks :
         /\ FetchFails(t) /\ want[t] # None
         /\ returned' = [kid |-> want[t], began |-> began[t], refreshed |-> "failed",
                         found |-> want[t] \in KidsOf(keys)]
    \/ \E kid \in Kids, version \in 1..Current :
         /\ UNCHANGED <<now, published, keys, fetchedAt, static>> /\ (Hit(kid) \/ static)
         /\ returned' = [kid |-> kid, began |-> version, refreshed |-> "no",
                         found |-> kid \in KidsOf(keys)]
    \/ \E t \in Tasks :
         /\ FetchReturns(t) /\ want[t] # None
         /\ returned' = [kid |-> want[t], began |-> began[t], refreshed |-> "yes",
                         found |-> want[t] \in KidsOf(got[t])]

LEMMA LockedReturns ==
    ASSUME NEW t \in Tasks, NEW kid \in Kids \cup {None}, NEW version \in 1..Current,
           Locked(t, kid, version), UNCHANGED <<now, published, store>>
    PROVE  Returns
BY DEF Locked, Return, Wait, Returns, store

LEMMA StepReturns ==
    ASSUME StoreAssumption, IInv, [Next]_vars
    PROVE  UNCHANGED vars \/ Returns
<1> TypeOK /\ Current \in 1..Current
  BY DEF IInv, TypeOK, Current
<1>1. ASSUME OtherStep
      PROVE  Returns
  <2>1. returned' = NoReturn
    BY <1>1 DEF OtherStep, Rotate, Tick, PinKeys, StopPolling, PollingStopped, StartPolling
  <2> QED
    BY <2>1 DEF Returns
<1>2. ASSUME NEW t \in Tasks, NEW kid \in Kids \cup {None}, Enter(t, kid)
      PROVE  Returns
  <2>1. CASE Hit(kid) /\ Return(t, kid, Current, keys, "no")
    BY <1>2, <2>1 DEF Enter, Return, Returns, store
  <2>2. CASE Locked(t, kid, Current)
    BY <1>2, <2>2, LockedReturns DEF Enter
  <2>3. CASE Wait(t, kid, Current, "waiting", 0)
    BY <2>3 DEF Wait, Returns
  <2> QED
    BY <1>2, <2>1, <2>2, <2>3 DEF Enter
<1>3. ASSUME NEW t \in Tasks, Step(t) \/ Stops(t)
      PROVE  Returns
  <2>1. CASE Acquire(t)
    <3>1. want[t] \in Kids \cup {None} /\ began[t] \in 1..Current
      BY DEF IInv, TypeOK, FetchInv
    <3> QED
      BY <2>1, <3>1, LockedReturns DEF Acquire
  <2>2. CASE FetchReturns(t)
    BY <2>2 DEF FetchReturns, Return, Returns
  <2>3. CASE FetchFails(t)
    <3>1. \/ returned' = NoReturn
          \/ returned' = [kid |-> want[t], began |-> began[t], refreshed |-> "failed",
                          found |-> want[t] \in KidsOf(keys)] /\ want[t] # None
      BY <2>3 DEF FetchFails, Return
    <3> QED
      BY <2>3, <3>1 DEF Returns
  <2>4. CASE IssuerAnswers(t) \/ Stops(t)
    BY <2>4 DEF IssuerAnswers, Stops, Returns
  <2> QED
    BY <1>3, <2>1, <2>2, <2>3, <2>4 DEF Step
<1> QED
  BY <1>1, <1>2, <1>3, StepCases

LEMMA VersionTypes ==
    ASSUME TypeOK
    PROVE  Current \in Nat \ {0} /\ \A v \in 1..Current : published[v].since \in Nat
<1>1. published \in Seq(Documents) /\ Current > 0
  BY DEF TypeOK
<1>2. Current \in Nat \ {0} /\ \A v \in 1..Current : published[v] \in Documents
  BY <1>1 DEF Current
<1>3. \A d \in Documents : d.since \in Nat
  BY DEF Documents
<1> QED
  BY <1>2, <1>3

\* A set that is neither pinned nor stale was the issuer's not long ago.
LEMMA HeldIsPublished ==
    ASSUME StoreAssumption, IInv, NEW kid, kid \in KidsOf(keys), ~static, ~Stale
    PROVE  \E v \in 1..Current : /\ kid \in published[v].kids
                                 /\ CurrentWithin(v, TTL + FetchTimeout)
<1>1. /\ keys \in 1..Current /\ kid \in published[keys].kids
      /\ CurrentSince(keys, fetchedAt - FetchTimeout)
  BY DEF IInv, KeysInv, KidsOf, Nothing, Pinned
<1>2. /\ now - fetchedAt <= TTL /\ now \in Nat /\ fetchedAt \in Nat
      /\ TTL \in Nat /\ FetchTimeout \in Nat /\ Current \in Nat
      /\ \A v \in 1..Current : published[v].since \in Nat
  BY VersionTypes DEF IInv, TypeOK, Stale, StoreAssumption
<1>3. CurrentWithin(keys, TTL + FetchTimeout)
  <2>1. CASE keys = Current
    BY <2>1 DEF CurrentWithin
  <2>2. CASE keys # Current
    <3>1. keys + 1 \in 1..Current
      BY <1>1, <1>2, <2>2
    <3>2. published[keys + 1].since \in Nat
      BY <1>2, <3>1
    <3>3. published[keys + 1].since >= fetchedAt - FetchTimeout
      BY <1>1, <2>2 DEF CurrentSince
    <3> QED
      BY <1>2, <3>2, <3>3 DEF CurrentWithin
  <2> QED
    BY <2>1, <2>2
<1> QED
  BY <1>1, <1>3

\* What a fetch brings was the issuer's when it began or later.
LEMMA FetchedIsPublished ==
    ASSUME StoreAssumption, IInv, NEW t \in Tasks, FetchReturns(t)
    PROVE  /\ got[t] \in 1..Current /\ got[t] \in began[t]..Current
           /\ KidsOf(got[t]) = published[got[t]].kids
           /\ CurrentWithin(got[t], TTL + FetchTimeout)
<1>1. /\ pc[t] = "answered" /\ FetchInv(t) /\ began[t] \in Nat /\ got[t] \in Nat
      /\ since[t] \in Nat /\ now \in Nat /\ TTL \in Nat /\ FetchTimeout \in Nat
      /\ Current \in Nat /\ \A v \in 1..Current : published[v].since \in Nat
  BY VersionTypes DEF FetchReturns, IInv, TypeOK, StoreAssumption
<1>2. /\ got[t] \in began[t]..Current /\ got[t] \in 1..Current
      /\ CurrentSince(got[t], since[t]) /\ now <= since[t] + FetchTimeout
  BY <1>1 DEF FetchInv, Fetching
<1>3. KidsOf(got[t]) = published[got[t]].kids
  BY <1>2 DEF KidsOf, Pinned, Nothing
<1>4. CASE got[t] # Current
  <2>1. /\ published[got[t] + 1].since >= since[t]
        /\ published[got[t] + 1].since \in Nat
    BY <1>1, <1>2, <1>4 DEF CurrentSince
  <2>2. now - published[got[t] + 1].since <= TTL + FetchTimeout
    BY <1>1, <1>2, <2>1
  <2> QED
    BY <1>2, <1>3, <2>2 DEF CurrentWithin
<1> QED
  BY <1>2, <1>3, <1>4 DEF CurrentWithin

\* A fetch that returns replaces a set by one that is no older.
LEMMA KeysKept ==
    ASSUME StoreAssumption, IInv, [Next]_vars
    PROVE  (keys \in Nat /\ keys' \in Nat) => keys' >= keys
<1>1. CASE UNCHANGED keys
  BY <1>1
<1>2. CASE keys' = Pinned
  BY <1>2 DEF Pinned
<1>3. ASSUME NEW t \in Tasks, FetchReturns(t)
      PROVE  keys \in Nat => keys' >= keys
  BY <1>3 DEF FetchReturns, IInv, FetchInv, TypeOK
<1>4. ASSUME OtherStep
      PROVE  UNCHANGED keys \/ keys' = Pinned
  BY <1>4 DEF OtherStep, Rotate, Tick, PinKeys, StopPolling, PollingStopped, StartPolling,
              store
<1>5. ASSUME NEW t \in Tasks, Step(t) \/ Stops(t), ~FetchReturns(t)
      PROVE  UNCHANGED keys
  BY <1>5 DEF Step, Stops, Acquire, IssuerAnswers, FetchFails, store
<1>6. ASSUME NEW t \in Tasks, NEW kid, Enter(t, kid)
      PROVE  UNCHANGED keys
  BY <1>6 DEF Enter, store
<1>7. CASE UNCHANGED vars
  BY <1>1, <1>7 DEF vars, store
<1> QED
  BY <1>1, <1>2, <1>3, <1>4, <1>5, <1>6, <1>7, StepCases

LEMMA StepServed ==
    StoreAssumption /\ IInv /\ ServedKeyIsPublished /\ [Next]_vars => ServedKeyIsPublished'
<1> SUFFICES ASSUME StoreAssumption, IInv, ServedKeyIsPublished, [Next]_vars,
                    Grounded', returned'.found
             PROVE  (\E v \in 1..Current : /\ returned.kid \in published[v].kids
                                           /\ CurrentWithin(v, TTL + FetchTimeout))'
  BY DEF ServedKeyIsPublished
<1>1. CASE UNCHANGED vars
  BY <1>1 DEF vars, store, ServedKeyIsPublished, Grounded, CurrentWithin, Current
<1>2. CASE returned' = NoReturn \/ returned'.refreshed = "failed"
  BY <1>2 DEF Grounded
<1>3. ASSUME NEW kid \in Kids, NEW version,
             UNCHANGED <<now, published, static>>, Hit(kid) \/ static,
             returned' = [kid |-> kid, began |-> version, refreshed |-> "no",
                          found |-> kid \in KidsOf(keys)]
      PROVE  (\E v \in 1..Current : /\ returned.kid \in published[v].kids
                                    /\ CurrentWithin(v, TTL + FetchTimeout))'
  <2>1. ~static /\ ~Stale /\ kid \in KidsOf(keys)
    BY <1>3 DEF Grounded, Hit
  <2>2. PICK v \in 1..Current : /\ kid \in published[v].kids
                               /\ CurrentWithin(v, TTL + FetchTimeout)
    BY <2>1, HeldIsPublished
  <2> QED
    BY <1>3, <2>2 DEF CurrentWithin, Current
<1>4. ASSUME NEW t \in Tasks, FetchReturns(t),
             returned' = [kid |-> want[t], began |-> began[t], refreshed |-> "yes",
                          found |-> want[t] \in KidsOf(got[t])]
      PROVE  (\E v \in 1..Current : /\ returned.kid \in published[v].kids
                                    /\ CurrentWithin(v, TTL + FetchTimeout))'
  <2>1. UNCHANGED <<now, published>> /\ want[t] \in KidsOf(got[t])
    BY <1>4 DEF FetchReturns
  <2> QED
    BY <1>4, <2>1, FetchedIsPublished DEF CurrentWithin, Current
<1> QED
  BY <1>1, <1>2, <1>3, <1>4, StepReturns DEF Returns

\* A key get_key serves was published by the issuer within the last ttl and fetch
\* time, unless the set is pinned or the call's own fetch failed.
THEOREM ServedKeysArePublished == Spec => []ServedKeyIsPublished
<1>1. StoreAssumption /\ Init => ServedKeyIsPublished
  BY DEF Init, ServedKeyIsPublished, Grounded
<1> QED
  BY <1>1, OneFetchHoldsTheLock, StepServed, StoreAssumption, PTL DEF Spec

LEMMA StepMiss ==
    StoreAssumption /\ IInv /\ MissIsIssuersAnswer /\ [Next]_vars => MissIsIssuersAnswer'
<1> SUFFICES ASSUME StoreAssumption, IInv, MissIsIssuersAnswer, [Next]_vars,
                    Grounded', ~returned'.found
             PROVE  \E v \in returned'.began..Current' : returned'.kid \notin published'[v].kids
  BY DEF MissIsIssuersAnswer
<1>1. CASE UNCHANGED vars
  BY <1>1 DEF vars, store, MissIsIssuersAnswer, Grounded, Current
<1>2. CASE returned' = NoReturn \/ returned'.refreshed = "failed"
  BY <1>2 DEF Grounded
<1>3. ASSUME NEW kid \in Kids, NEW version,
             UNCHANGED <<now, published, keys, fetchedAt, static>>, Hit(kid) \/ static,
             returned' = [kid |-> kid, began |-> version, refreshed |-> "no",
                          found |-> kid \in KidsOf(keys)]
      PROVE  FALSE
  BY <1>3 DEF Grounded, Hit
<1>4. ASSUME NEW t \in Tasks, FetchReturns(t),
             returned' = [kid |-> want[t], began |-> began[t], refreshed |-> "yes",
                          found |-> want[t] \in KidsOf(got[t])]
      PROVE  \E v \in returned'.began..Current' : returned'.kid \notin published'[v].kids
  <2>1. UNCHANGED published /\ want[t] \notin KidsOf(got[t])
    BY <1>4 DEF FetchReturns
  <2> QED
    BY <1>4, <2>1, FetchedIsPublished DEF Current
<1> QED
  BY <1>1, <1>2, <1>3, <1>4, StepReturns DEF Returns

\* A kid get_key does not find was missing from a document the issuer published
\* during the call, unless the set is pinned or the call's own fetch failed.
THEOREM MissesAreIssuersAnswers == Spec => []MissIsIssuersAnswer
<1>1. StoreAssumption /\ Init => MissIsIssuersAnswer
  BY DEF Init, MissIsIssuersAnswer, Grounded
<1> QED
  BY <1>1, OneFetchHoldsTheLock, StepMiss, StoreAssumption, PTL DEF Spec

\* A key set never gives way to an older one.
THEOREM KeySetsNeverGoBack == Spec => RotationsNeverGoBack
<1>1. StoreAssumption /\ IInv /\ [Next]_vars
        => [(keys \in Nat /\ keys' \in Nat) => keys' >= keys]_vars
  BY KeysKept
<1> QED
  BY <1>1, OneFetchHoldsTheLock, StoreAssumption, PTL DEF Spec, RotationsNeverGoBack
-----------------------------------------------------------------------------
\* Who waits, and for whom.

LEMMA AheadShrinks ==
    ASSUME TypeOK, NEW t \in Tasks, NEW i \in 1..Len(waiters),
           Without(waiters, waiters', i), waiters[i] # t,
           \A j, k \in 1..Len(waiters) : waiters[j] = waiters[k] => j = k,
           \/ holder' \notin Tasks
           \/ holder' = holder
           \/ holder' = waiters[i] /\ waiters[i] \in Ahead(t)
    PROVE  Ahead(t)' \subseteq Ahead(t)
<1>1. \A j, k \in 1..Len(waiters') : j < k =>
         \E m, n \in 1..Len(waiters) :
            m < n /\ waiters[m] = waiters'[j] /\ waiters[n] = waiters'[k]
  BY WithoutKeeps DEF TypeOK
<1> SUFFICES ASSUME NEW u \in Tasks, u \in Ahead(t)'
             PROVE  u \in Ahead(t)
  BY DEF Ahead
<1>2. CASE u = holder'
  BY <1>2 DEF Ahead
<1>3. CASE \E j, k \in 1..Len(waiters') : j < k /\ waiters'[j] = u /\ waiters'[k] = t
  BY <1>1, <1>3 DEF Ahead
<1> QED
  BY <1>2, <1>3 DEF Ahead

LEMMA StepOvertakesNobody ==
    ASSUME StoreAssumption, IInv, [Next]_vars,
           NEW t \in Tasks, pc[t] = "waiting", pc'[t] = "waiting"
    PROVE  Ahead(t)' \subseteq Ahead(t)
<1> TypeOK /\ QueueInv /\ None \notin Tasks
  BY DEF IInv, StoreAssumption
<1>1. PICK n \in 1..Len(waiters) : waiters[n] = t
  BY DEF QueueInv
<1>2. waiters # <<>>
  BY <1>1
<1>3. CASE UNCHANGED waiters /\ (holder' = holder \/ holder' \notin Tasks)
  BY <1>3 DEF Ahead
<1>4. ASSUME NEW u \in Tasks, NEW kid, pc[u] \in {"idle", "sleeping"}, Enter(u, kid)
      PROVE  Ahead(t)' \subseteq Ahead(t)
  <2>1. CASE UNCHANGED <<holder, waiters>>
    BY <1>3, <2>1
  <2>2. CASE waiters' = Append(waiters, u) /\ UNCHANGED holder
    <3>1. /\ Len(waiters') = Len(waiters) + 1 /\ Len(waiters) \in Nat
          /\ waiters'[Len(waiters) + 1] = u
          /\ \A j \in 1..Len(waiters) : waiters'[j] = waiters[j]
      BY <2>2, AppendProps DEF TypeOK
    <3>2. u # t
      BY <1>4
    <3>3. \A j, k \in 1..Len(waiters') : j < k /\ waiters'[k] = t =>
             /\ j \in 1..Len(waiters) /\ k \in 1..Len(waiters)
             /\ waiters'[j] = waiters[j] /\ waiters[k] = t
      BY <3>1, <3>2
    <3> QED
      BY <2>2, <3>3 DEF Ahead
  <2> QED
    BY <1>2, <1>4, <2>1, <2>2 DEF Enter
<1>5. CASE OtherStep
  BY <1>3, <1>5
     DEF OtherStep, Rotate, Tick, PinKeys, StopPolling, PollingStopped, StartPolling
<1>6. ASSUME NEW u \in Tasks, Step(u) \/ Stops(u)
      PROVE  Ahead(t)' \subseteq Ahead(t)
  <2>1. CASE Acquire(u)
    <3>1. /\ Without(waiters, waiters', 1) /\ waiters[1] = u /\ 1 \in 1..Len(waiters)
      BY <2>1, TailIsWithout DEF Acquire, TypeOK
    <3>2. pc'[u] # "waiting" /\ holder' \in {None, u}
      BY <2>1, LockedQueue DEF Acquire
    <3>3. u # t
      BY <3>2
    <3>4. n > 1 /\ u \in Ahead(t)
      <4>1. n # 1 /\ n \in Nat /\ n >= 1
        BY <1>1, <3>1, <3>3 DEF TypeOK
      <4> QED
        BY <1>1, <3>1, <4>1 DEF Ahead
    <3> QED
      BY <3>1, <3>2, <3>3, <3>4, AheadShrinks DEF QueueInv
  <2>2. CASE IssuerAnswers(u)
    BY <1>3, <2>2 DEF IssuerAnswers
  <2>3. CASE FetchReturns(u) \/ FetchFails(u)
    BY <1>3, <2>3 DEF FetchReturns, FetchFails
  <2>4. CASE Stops(u) /\ pc[u] # "waiting"
    BY <1>3, <2>4 DEF Stops, LeaveQueue
  <2>5. CASE Stops(u) /\ pc[u] = "waiting"
    <3>1. PICK i \in 1..Len(waiters) : waiters[i] = u /\ waiters' = RemoveAt(waiters, i)
      BY <2>5 DEF Stops, LeaveQueue
    <3>2. Without(waiters, waiters', i)
      BY <3>1, RemoveAtIsWithout DEF TypeOK
    <3>3. u # t /\ (holder' = holder \/ holder' \notin Tasks)
      BY <2>5 DEF Stops, TypeOK
    <3> QED
      BY <3>1, <3>2, <3>3, AheadShrinks DEF QueueInv
  <2> QED
    BY <1>6, <2>1, <2>2, <2>3, <2>4, <2>5 DEF Step
<1>7. CASE UNCHANGED vars
  BY <1>3, <1>7 DEF vars
<1> QED
  BY <1>4, <1>5, <1>6, <1>7, StepCases

\* Whatever tasks come, fail or are cancelled, those a waiting task waits for only
\* become fewer.
THEOREM FirstComeFirstServed == Spec => NobodyOvertakes
<1>1. StoreAssumption /\ IInv /\ [Next]_vars =>
         [\A t \in Tasks : pc[t] = "waiting" /\ pc'[t] = "waiting" =>
             Ahead(t)' \subseteq Ahead(t)]_vars
  BY StepOvertakesNobody
<1> QED
  BY <1>1, OneFetchHoldsTheLock, StoreAssumption, PTL DEF Spec, NobodyOvertakes

\* While a task waits, the one that holds the lock is at its fetch, or the first
\* waiter may take it.
THEOREM TheLockIsNeverLost == Spec => []LockIsHandedOn
<1>1. IInv => LockIsHandedOn
  <2> SUFFICES ASSUME IInv, waiters # <<>>, holder = None
               PROVE  pc[Head(waiters)] = "waiting"
    BY DEF IInv, QueueInv, LockIsHandedOn
  <2>1. waiters[1] = Head(waiters) /\ 1 \in 1..Len(waiters) /\ waiters[1] \in Tasks
    BY TailIsWithout DEF IInv, TypeOK
  <2> QED
    BY <2>1 DEF IInv, QueueInv
<1> QED
  BY <1>1, OneFetchHoldsTheLock, PTL
-----------------------------------------------------------------------------
\* What KeyDirectory shows of the store.

\* A set that is neither pinned nor stale is young enough to serve from.
LEMMA HeldIsYoung ==
    ASSUME StoreAssumption, IInv, keys \in 1..Current, ~static, ~Stale
    PROVE  Directory!Within(keys, TTL + FetchTimeout)
<1>1. /\ now - fetchedAt <= TTL /\ now \in Nat /\ fetchedAt \in Nat
      /\ TTL \in Nat /\ FetchTimeout \in Nat /\ Current \in Nat
      /\ \A v \in 1..Current : published[v].since \in Nat
  BY VersionTypes DEF IInv, TypeOK, Stale, StoreAssumption
<1>2. CASE keys # Current
  <2>1. keys + 1 \in 1..Current
    BY <1>1, <1>2
  <2>2. published[keys + 1].since \in Nat
    BY <1>1, <2>1
  <2>3. published[keys + 1].since >= fetchedAt - FetchTimeout
    BY <1>2 DEF CurrentSince, IInv, KeysInv
  <2> QED
    BY <1>1, <2>2, <2>3 DEF Directory!Within
<1> QED
  BY <1>2 DEF Directory!Within, Directory!Current, Current

\* What a fetch brings is no older than its call, than what is held and than the
\* fetcher's timeout.
LEMMA FetchRenews ==
    ASSUME StoreAssumption, IInv, NEW t \in Tasks, FetchReturns(t)
    PROVE  Directory!Renew(1) /\ Directory!Renew(began[t])
<1>1. /\ pc[t] = "answered" /\ FetchInv(t) /\ began[t] \in Nat /\ got[t] \in Nat
      /\ since[t] \in Nat /\ now \in Nat /\ FetchTimeout \in Nat
      /\ Current \in Nat /\ \A v \in 1..Current : published[v].since \in Nat
      /\ keys' = got[t]
  BY VersionTypes DEF FetchReturns, IInv, TypeOK, StoreAssumption
<1>2. /\ got[t] \in began[t]..Current /\ began[t] \in 1..Current /\ got[t] \in 1..Current
      /\ CurrentSince(got[t], since[t]) /\ now <= since[t] + FetchTimeout
      /\ keys \in Nat => keys <= got[t]
  <2>1. /\ got[t] \in began[t]..Current /\ began[t] \in 1..Current
        /\ CurrentSince(got[t], since[t]) /\ now <= since[t] + FetchTimeout
        /\ keys \in Nat => got[t] >= keys
    BY <1>1 DEF FetchInv, Fetching
  <2> QED
    BY <1>1, <2>1
<1>3. Directory!Within(got[t], FetchTimeout)
  <2>1. CASE got[t] # Current
    <3>1. /\ published[got[t] + 1].since >= since[t]
          /\ published[got[t] + 1].since \in Nat
      BY <1>1, <1>2, <2>1 DEF CurrentSince
    <3>2. now - published[got[t] + 1].since <= FetchTimeout
      BY <1>1, <1>2, <3>1
    <3> QED
      BY <3>2 DEF Directory!Within
  <2> QED
    BY <2>1 DEF Directory!Within, Directory!Current, Current
<1> QED
  BY <1>1, <1>2, <1>3 DEF Directory!Renew, Directory!Current, Current

\* A task changes the held set by a fetch that returns, and nothing else that the
\* directory shows.
LEMMA TaskShows ==
    ASSUME NEW t \in Tasks, Step(t) \/ Stops(t) \/ \E kid \in Kids \cup {None} : Enter(t, kid)
    PROVE  /\ UNCHANGED <<now, published, static>>
           /\ UNCHANGED keys \/ FetchReturns(t)
BY DEF Step, Stops, Enter, Acquire, IssuerAnswers, FetchReturns, FetchFails, store

\* Each return of get_key is an answer the directory may give.
LEMMA ReturnIsAnswer ==
    ASSUME StoreAssumption, IInv, Returns, UNCHANGED <<now, published, static>>,
           UNCHANGED keys \/ \E t \in Tasks : FetchReturns(t)
    PROVE  Directory!Serve
<1>1. /\ Current \in Nat /\ \A t \in Tasks : began[t] \in 1..Current
      /\ \A t \in Tasks : want[t] \in Kids \cup {None}
      /\ Directory!Current = Current /\ \A v : Directory!KidsOf(v) = KidsOf(v)
  BY VersionTypes
     DEF IInv, FetchInv, TypeOK, Directory!Current, Current, Directory!KidsOf, KidsOf,
         Directory!Nothing, Nothing, Directory!Pinned, Pinned
<1>2. CASE returned' = NoReturn
  BY <1>2, FetchRenews DEF Directory!Serve, Directory!NoAnswer, NoReturn
<1>3. ASSUME NEW t \in Tasks, FetchFails(t), want[t] # None,
             returned' = [kid |-> want[t], began |-> began[t], refreshed |-> "failed",
                          found |-> want[t] \in KidsOf(keys)]
      PROVE  Directory!Serve
  <2>1. UNCHANGED keys
    BY <1>3 DEF FetchFails, store
  <2>2. Directory!Lookup(want[t], began[t])
    BY <1>1, <1>3, <2>1 DEF Directory!Lookup, Directory!Says
  <2> QED
    BY <1>1, <1>3, <2>2 DEF Directory!Serve
<1>4. ASSUME NEW kid \in Kids, NEW version \in 1..Current, UNCHANGED keys,
             Hit(kid) \/ static,
             returned' = [kid |-> kid, began |-> version, refreshed |-> "no",
                          found |-> kid \in KidsOf(keys)]
      PROVE  Directory!Serve
  <2>1. static \/ (kid \in KidsOf(keys) /\ Directory!Within(keys, TTL + FetchTimeout))
    <3>1. CASE ~static
      <4>1. kid \in KidsOf(keys) /\ ~Stale
        BY <1>4, <3>1 DEF Hit
      <4>2. keys \in 1..Current
        BY <3>1, <4>1 DEF IInv, KeysInv, KidsOf, Nothing, Pinned
      <4> QED
        BY <3>1, <4>1, <4>2, HeldIsYoung
    <3> QED
      BY <3>1
  <2>2. Directory!Lookup(kid, version)
    BY <1>1, <1>4, <2>1 DEF Directory!Lookup, Directory!Says
  <2> QED
    BY <1>1, <1>4, <2>2 DEF Directory!Serve
<1>5. ASSUME NEW t \in Tasks, FetchReturns(t), want[t] # None,
             returned' = [kid |-> want[t], began |-> began[t], refreshed |-> "yes",
                          found |-> want[t] \in KidsOf(got[t])]
      PROVE  Directory!Serve
  <2>1. keys' = got[t] /\ Directory!KidsOf(keys)' = KidsOf(keys')
    BY <1>5
       DEF FetchReturns, Directory!KidsOf, KidsOf, Directory!Nothing, Nothing,
           Directory!Pinned, Pinned
  <2>2. KidsOf(keys') = KidsOf(got[t])
    BY <2>1
  <2>3. Directory!Lookup(want[t], began[t])
    BY <1>1, <1>5, <2>1, <2>2, FetchRenews DEF Directory!Lookup, Directory!Says
  <2> QED
    BY <1>1, <1>5, <2>3 DEF Directory!Serve
<1> QED
  BY <1>2, <1>3, <1>4, <1>5 DEF Returns

LEMMA StepShows ==
    ASSUME StoreAssumption, IInv, [Next]_vars
    PROVE  [Directory!Next]_<<now, published, keys, static, returned>>
<1>0. TypeOK
  BY DEF IInv
<1>1. CASE Rotate
  <2>1. PICK kids \in SUBSET Kids : published' = Append(published, [kids |-> kids, since |-> now])
    BY <1>1 DEF Rotate
  <2>2. /\ Len(published') = Current + 1
        /\ \A v \in 1..Current : published'[v] = published[v]
        /\ published'[Current + 1] = [kids |-> kids, since |-> now]
    BY <1>0, <2>1 DEF TypeOK, Current
  <2>3. Directory!IssuerRotates
    BY <1>1, <2>2
       DEF Rotate, store, Directory!IssuerRotates, Directory!Current, Current,
           Directory!NoAnswer, NoReturn
  <2> QED
    BY <2>3 DEF Directory!Next
<1>2. CASE Tick
  BY <1>2 DEF Tick, store, Directory!Next, Directory!Tick, Directory!NoAnswer, NoReturn
<1>3. CASE PinKeys
  BY <1>3 DEF PinKeys, Directory!Next, Directory!Pin, Directory!NoAnswer, NoReturn,
              Directory!Pinned, Pinned
<1>4. CASE StopPolling \/ PollingStopped \/ \E p \in Pollers : StartPolling(p)
  BY <1>4 DEF StopPolling, PollingStopped, StartPolling, store, Directory!Next,
              Directory!Serve, Directory!NoAnswer, NoReturn
<1>5. CASE UNCHANGED vars
  BY <1>5 DEF vars, store
<1>6. ASSUME ~UNCHANGED vars, NEW t \in Tasks,
             Step(t) \/ Stops(t) \/ \E kid \in Kids \cup {None} : Enter(t, kid)
      PROVE  Directory!Next
  <2>1. Directory!Serve
    BY <1>6, TaskShows, StepReturns, ReturnIsAnswer
  <2> QED
    BY <2>1 DEF Directory!Next
<1> QED
  BY <1>1, <1>2, <1>3, <1>4, <1>5, <1>6, StepCases DEF OtherStep

\* However many tasks share the store, the lookups of all of them read one
\* directory that never goes back, and a key is missed only after asking.
THEOREM StoreIsADirectory == Spec => LookupsReadOneDirectory
<1>1. Init => Directory!Init
  BY DEF Init, Directory!Init, Directory!NoAnswer, NoReturn, Directory!Nothing, Nothing
<1> QED
  BY <1>1, StepShows, OneFetchHoldsTheLock, StoreAssumption, PTL
     DEF Spec, LookupsReadOneDirectory, Directory!Spec
=============================================================================
