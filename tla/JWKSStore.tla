------------------------------ MODULE JWKSStore ------------------------------
(***************************************************************************)
(* The signing keys of the token issuer: JWKSStore (identity/jwks.py).     *)
(*                                                                         *)
(* The tasks of one event loop share the store.  They interleave at the    *)
(* awaits: of the lock, of the injected fetcher, of a poller's sleep.  A   *)
(* fetch has two steps, the document leaving the issuer and the task       *)
(* resuming with it.                                                       *)
(*                                                                         *)
(* A key set is the number of the version of the document the issuer       *)
(* published: published[v] tells which kids it names.  A kid names one key *)
(* for ever.                                                               *)
(***************************************************************************)
EXTENDS Integers, Sequences, SequencesExt

CONSTANTS
    Callers,       \* tasks that call get_key or warm
    Pollers,       \* tasks that start_polling creates
    None,
    Kids,
    PinnedKids,    \* what pin_keys is given
    TTL,           \* ttl
    FetchTimeout,  \* the fetcher's own timeout
    MaxTime,       \* bound: the last instant
    MaxVersions    \* bound: the documents the issuer publishes

Tasks == Callers \cup Pollers

ASSUME StoreAssumption ==
    /\ Callers \cap Pollers = {}
    /\ None \notin Tasks /\ None \notin Kids
    /\ PinnedKids \subseteq Kids
    /\ TTL \in Nat /\ FetchTimeout \in Nat
    /\ MaxTime \in Nat /\ MaxVersions \in Nat

VARIABLES
    now,        \* time.monotonic()
    published,  \* the issuer's documents; the last one is current
    keys,       \* _keys: the version they are of, Nothing, or Pinned
    fetchedAt,  \* _fetched_at
    static,     \* _static
    holder,     \* the task that holds _lock, or None
    waiters,    \* the tasks that wait for it, in the order they came
    pc,         \* where each task is
    want,       \* the kid a task looks for; None for warm and for a poll
    began,      \* the issuer's version when the task's call began
    got,        \* the version a task's fetch brought
    since,      \* when its fetch began
    returned,   \* what get_key returned in the last step, or NoReturn
    pollTask,   \* _poll_task, or None
    stopping    \* the poller that stop_polling cancelled and awaits, or None

store == <<keys, fetchedAt, static>>
polling == <<pollTask, stopping>>
calls == <<pc, want, began, got, since>>
vars == <<now, published, store, holder, waiters, calls, returned, polling>>
-----------------------------------------------------------------------------
Nothing == 0
Pinned == -1

Waiting == {"waiting", "fetching", "answered"}
Fetching == {"fetching", "answered"}

\* The kid get_key was given and the issuer's version when it began; found: a
\* key, not None; refreshed: whether the call itself asked the issuer.
Returned == [kid : Kids, began : Nat, found : BOOLEAN,
             refreshed : {"no", "yes", "failed"}]
NoReturn == [kid |-> None]

Current == Len(published)
Documents == [kids : SUBSET Kids, since : Nat]

\* The kids the store holds.
KidsOf(v) ==
    IF v = Pinned THEN PinnedKids
    ELSE IF v = Nothing THEN {}
    ELSE published[v].kids

TypeOK ==
    /\ now \in Nat
    /\ published \in Seq(Documents) /\ Current > 0
    /\ keys \in Nat \cup {Pinned} /\ fetchedAt \in Nat /\ static \in BOOLEAN
    /\ holder \in Tasks \cup {None}
    /\ waiters \in Seq(Tasks)
    /\ pc \in [Tasks -> Waiting \cup {"idle", "sleeping"}]
    /\ want \in [Tasks -> Kids \cup {None}]
    /\ began \in [Tasks -> Nat]
    /\ got \in [Tasks -> Nat]
    /\ since \in [Tasks -> Nat]
    /\ returned \in Returned \cup {NoReturn}
    /\ pollTask \in Pollers \cup {None} /\ stopping \in Pollers \cup {None}

Init ==
    /\ now = 0
    /\ \E kids \in SUBSET Kids : published = <<[kids |-> kids, since |-> 0]>>
    /\ keys = Nothing /\ fetchedAt = 0 /\ static = FALSE
    /\ holder = None /\ waiters = <<>>
    /\ pc = [t \in Tasks |-> "idle"]
    /\ want = [t \in Tasks |-> None]
    /\ began = [t \in Tasks |-> 1]
    /\ got = [t \in Tasks |-> 0]
    /\ since = [t \in Tasks |-> 0]
    /\ returned = NoReturn
    /\ pollTask = None /\ stopping = None
-----------------------------------------------------------------------------
\* The issuer rotates its keys; time passes, but no fetch outlives its timeout.

Rotate ==
    /\ Current < MaxVersions
    /\ \E kids \in SUBSET Kids :
          /\ kids # published[Current].kids
          /\ published' = Append(published, [kids |-> kids, since |-> now])
    /\ returned' = NoReturn
    /\ UNCHANGED <<now, store, holder, waiters, calls, polling>>

Tick ==
    /\ now < MaxTime
    /\ \A t \in Tasks : pc[t] \in Fetching => now - since[t] < FetchTimeout
    /\ now' = now + 1
    /\ returned' = NoReturn
    /\ UNCHANGED <<published, store, holder, waiters, calls, polling>>

\* pin_keys, from any other code of the process.
PinKeys ==
    /\ keys' = Pinned /\ static' = TRUE /\ fetchedAt' = now
    /\ returned' = NoReturn
    /\ UNCHANGED <<now, published, holder, waiters, calls, polling>>
-----------------------------------------------------------------------------
Stale == ~static /\ now - fetchedAt > TTL

\* The key is cached and the set is not stale.
Hit(kid) == kid \in KidsOf(keys) /\ ~Stale

\* What a call leaves behind.
Reset(t) ==
    /\ want' = [want EXCEPT ![t] = None]
    /\ began' = [began EXCEPT ![t] = 1]
    /\ got' = [got EXCEPT ![t] = 0]
    /\ since' = [since EXCEPT ![t] = 0]

\* get_key returns what is now held, warm and a poll nothing; a poller sleeps again.
Return(t, kid, version, held, refreshed) ==
    /\ pc' = [pc EXCEPT ![t] = IF t \in Pollers THEN "sleeping" ELSE "idle"]
    /\ returned' = IF kid = None THEN NoReturn
                   ELSE [kid |-> kid, began |-> version, refreshed |-> refreshed,
                         found |-> kid \in KidsOf(held)]
    /\ Reset(t)

\* The call waits, for the lock or for the fetcher.
Wait(t, kid, version, where, start) ==
    /\ pc' = [pc EXCEPT ![t] = where]
    /\ want' = [want EXCEPT ![t] = kid]
    /\ began' = [began EXCEPT ![t] = version]
    /\ since' = [since EXCEPT ![t] = start]
    /\ returned' = NoReturn
    /\ UNCHANGED got

\* Fault: inside the lock, any set that is not stale is final.
LockedTrustsAnySet(t, kid, version) ==
    LET final == Hit(kid) \/ static \/ (keys # Nothing /\ ~Stale)
    IN \/ final /\ Return(t, kid, version, keys, "no") /\ holder' = None
       \/ ~final /\ Wait(t, kid, version, "fetching", now) /\ holder' = t

\* With the lock: look once more, then refresh; a pinned store does not fetch.
Locked(t, kid, version) ==
    LET final == Hit(kid) \/ static
    IN \/ final /\ Return(t, kid, version, keys, "no") /\ holder' = None
       \/ ~final /\ Wait(t, kid, version, "fetching", now) /\ holder' = t

\* Fault: a poll does not take the lock.
EnterUnlocked(t, kid) ==
    LET free == holder = None /\ waiters = <<>>
    IN /\ \/ Hit(kid) /\ Return(t, kid, Current, keys, "no") /\ UNCHANGED <<holder, waiters>>
          \/ /\ kid = None /\ ~static /\ Wait(t, kid, Current, "fetching", now)
             /\ UNCHANGED <<holder, waiters>>
          \/ kid # None /\ ~Hit(kid) /\ free /\ Locked(t, kid, Current) /\ UNCHANGED waiters
          \/ /\ kid # None /\ ~Hit(kid) /\ ~free /\ Wait(t, kid, Current, "waiting", 0)
             /\ waiters' = Append(waiters, t) /\ UNCHANGED holder
       /\ UNCHANGED <<now, published, store, polling>>

\* Fault: a lock that is free is taken, whoever waits for it already.
EnterBarging(t, kid) ==
    LET free == holder = None
    IN /\ \/ Hit(kid) /\ Return(t, kid, Current, keys, "no") /\ UNCHANGED <<holder, waiters>>
          \/ ~Hit(kid) /\ free /\ Locked(t, kid, Current) /\ UNCHANGED waiters
          \/ /\ ~Hit(kid) /\ ~free /\ Wait(t, kid, Current, "waiting", 0)
             /\ waiters' = Append(waiters, t) /\ UNCHANGED holder
       /\ UNCHANGED <<now, published, store, polling>>

\* A hit needs no lock; a free lock is taken without waiting.
Enter(t, kid) ==
    LET free == holder = None /\ waiters = <<>>
    IN /\ \/ Hit(kid) /\ Return(t, kid, Current, keys, "no") /\ UNCHANGED <<holder, waiters>>
          \/ ~Hit(kid) /\ free /\ Locked(t, kid, Current) /\ UNCHANGED waiters
          \/ /\ ~Hit(kid) /\ ~free /\ Wait(t, kid, Current, "waiting", 0)
             /\ waiters' = Append(waiters, t) /\ UNCHANGED holder
       /\ UNCHANGED <<now, published, store, polling>>

GetKey(c) == pc[c] = "idle" /\ \E kid \in Kids : Enter(c, kid)
Warm(c) == pc[c] = "idle" /\ Enter(c, None)

\* A poller's interval has passed.
Poll(p) == pc[p] = "sleeping" /\ p # stopping /\ Enter(p, None)

\* asyncio.Lock is fair: the first waiter resumes with it.
Acquire(t) ==
    /\ holder = None /\ waiters # <<>> /\ t = Head(waiters)
    /\ waiters' = Tail(waiters)
    /\ Locked(t, want[t], began[t])
    /\ UNCHANGED <<now, published, store, polling>>

IssuerAnswers(t) ==
    /\ pc[t] = "fetching"
    /\ pc' = [pc EXCEPT ![t] = "answered"]
    /\ got' = [got EXCEPT ![t] = Current]
    /\ returned' = NoReturn
    /\ UNCHANGED <<now, published, store, holder, waiters, want, began, since, polling>>

\* The whole set is replaced, or nothing is.
FetchReturns(t) ==
    /\ pc[t] = "answered"
    /\ keys' = got[t] /\ fetchedAt' = now
    /\ Return(t, want[t], began[t], got[t], "yes") /\ holder' = None
    /\ UNCHANGED <<now, published, static, waiters, polling>>

\* Fault: a failed refresh counts as one.
FetchFailsStamped(t) ==
    /\ pc[t] \in Fetching
    /\ fetchedAt' = now
    /\ UNCHANGED <<keys, static>>
    /\ Return(t, want[t], began[t], keys, "failed") /\ holder' = None
    /\ UNCHANGED <<now, published, waiters, polling>>

\* The issuer is unreachable, answers too late, or a document that is no key set:
\* what is cached is served, whatever its age.
FetchFails(t) ==
    /\ pc[t] \in Fetching
    /\ UNCHANGED store
    /\ Return(t, want[t], began[t], keys, "failed") /\ holder' = None
    /\ UNCHANGED <<now, published, waiters, polling>>

LeaveQueue(t) ==
    \/ pc[t] # "waiting" /\ UNCHANGED waiters
    \/ /\ pc[t] = "waiting"
       /\ \E i \in 1..Len(waiters) : waiters[i] = t /\ waiters' = RemoveAt(waiters, i)

\* Fault: a cancelled task keeps the lock.
StopsHoldingLock(t) ==
    /\ pc[t] # "idle"
    /\ pc' = [pc EXCEPT ![t] = "idle"]
    /\ LeaveQueue(t)
    /\ Reset(t)
    /\ returned' = NoReturn
    /\ UNCHANGED <<now, published, store, holder, polling>>

\* CancelledError, wherever the task is: it leaves the queue or frees the lock.
Stops(t) ==
    /\ pc[t] # "idle"
    /\ pc' = [pc EXCEPT ![t] = "idle"]
    /\ LeaveQueue(t)
    /\ holder' = IF holder = t THEN None ELSE holder
    /\ Reset(t)
    /\ returned' = NoReturn
    /\ UNCHANGED <<now, published, store, polling>>

\* start_polling: nothing, if the last task is not done.
StartPolling(p) ==
    /\ pollTask # None => pc[pollTask] = "idle"
    /\ pc[p] = "idle" /\ p # stopping
    /\ pollTask' = p
    /\ pc' = [pc EXCEPT ![p] = "sleeping"]
    /\ returned' = NoReturn
    /\ UNCHANGED <<now, published, store, holder, waiters, want, began, got, since, stopping>>

\* stop_polling cancels the task and awaits it; whatever _poll_task has become
\* in the meantime, it is cleared.
StopPolling ==
    /\ pollTask # None /\ stopping = None
    /\ stopping' = pollTask
    /\ returned' = NoReturn
    /\ UNCHANGED <<now, published, store, holder, waiters, calls, pollTask>>

PollingStopped ==
    /\ stopping # None /\ pc[stopping] = "idle"
    /\ pollTask' = None /\ stopping' = None
    /\ returned' = NoReturn
    /\ UNCHANGED <<now, published, store, holder, waiters, calls>>
-----------------------------------------------------------------------------
\* A task that may run: a cancelled poller only stops.
Step(t) ==
    \/ t # stopping /\ (Acquire(t) \/ IssuerAnswers(t) \/ FetchReturns(t) \/ FetchFails(t))
    \/ t = stopping /\ Stops(t)

Next ==
    \/ Rotate \/ Tick \/ PinKeys \/ StopPolling \/ PollingStopped
    \/ \E t \in Tasks : Step(t)
    \/ \E c \in Callers : GetKey(c) \/ Warm(c) \/ Stops(c)
    \/ \E p \in Pollers : Poll(p) \/ StartPolling(p)

Spec == Init /\ [][Next]_vars

\* The event loop runs what is ready, and the fetcher's timeout ends a fetch.
Fairness == \A t \in Tasks : WF_vars(Step(t))
FairSpec == Spec /\ Fairness
-----------------------------------------------------------------------------
CurrentWithin(v, d) == v = Current \/ now - published[v + 1].since <= d

\* What get_key has just returned rests on the issuer's word: the set is not
\* pinned, and the call did not ask the issuer in vain.
Grounded == returned # NoReturn /\ ~static /\ returned.refreshed # "failed"

\* A key is served only if the issuer still published it within the last ttl
\* and fetch time -- unless the call itself asked and the issuer failed
\* (jwks.py:243, "that key is served rather than failing"), or the set is pinned.
ServedKeyIsPublished ==
    Grounded /\ returned.found =>
      \E v \in 1..Current : /\ returned.kid \in published[v].kids
                            /\ CurrentWithin(v, TTL + FetchTimeout)

\* get_key answers None only if at some instant of the call the issuer did not
\* publish the kid, or could not be asked: a token signed with a key published
\* before the call is never refused because another task had just refreshed.
MissIsIssuersAnswer ==
    Grounded /\ ~returned.found =>
      \E v \in returned.began..Current : returned.kid \notin published[v].kids

\* A key set never gives way to an older one: what the one lock is for, as a slow
\* fetch would otherwise bring back keys the issuer has retired.
RotationsNeverGoBack ==
    [][(keys \in Nat /\ keys' \in Nat) => keys' >= keys]_vars

\* No call waits for ever, whoever is cancelled or whatever fails while it holds
\* the lock.
EveryLookupEnds ==
    \A c \in Callers : pc[c] \in Waiting ~> pc[c] = "idle"

\* The lock, the fetches and the pollers are invisible: whichever tasks race, fail
\* or are cancelled, the lookups of all of them read one directory of the issuer's
\* keys that never goes back, and none is refused a key unless the issuer was asked
\* (jwks.py:133, "refetches the JWKS once and retries"; get_key).
Directory ==
    INSTANCE KeyDirectory WITH Lag <- TTL + FetchTimeout, view <- keys, answer <- returned

LookupsReadOneDirectory == Directory!Spec

\* Whom a task in the queue waits for: the one that holds the lock, and those
\* that came before it.
Ahead(t) ==
    {u \in Tasks : \/ u = holder
                   \/ \E i, j \in 1..Len(waiters) :
                         i < j /\ waiters[i] = u /\ waiters[j] = t}

\* Nobody gets ahead of a lookup that waits: pollers and requests that come
\* later, fail or are cancelled never lengthen its way to the lock.
NobodyOvertakes ==
    [][\A t \in Tasks : pc[t] = "waiting" /\ pc'[t] = "waiting" =>
          Ahead(t)' \subseteq Ahead(t)]_vars

\* The lock is never lost: while anyone waits, the task that holds it is at its
\* fetch, which returns, fails or is cancelled; or it is free, and the first
\* waiter can take it.
LockIsHandedOn ==
    waiters # <<>> =>
        IF holder = None THEN pc[Head(waiters)] = "waiting" ELSE pc[holder] \in Fetching

\* "Pin a static set of JWKs and stop fetching from the remote endpoint"
\* (jwks.py:158): a pinned store holds the pinned keys.
PinnedStaysPinned == static => keys = Pinned

\* The inductive invariant.  The one task that fetches holds the lock, and what
\* it brings is no older than what the store holds.
CurrentSince(v, t) == v = Current \/ published[v + 1].since >= t

KeysInv ==
    /\ keys \in {Nothing, Pinned} \cup 1..Current
    /\ fetchedAt <= now
    /\ keys = Pinned => static
    /\ keys \in 1..Current => CurrentSince(keys, fetchedAt - FetchTimeout)

FetchInv(t) ==
    /\ began[t] \in 1..Current
    /\ pc[t] \in Fetching => /\ holder = t
                             /\ since[t] <= now /\ now <= since[t] + FetchTimeout
    /\ pc[t] = "answered" => /\ got[t] \in began[t]..Current
                             /\ keys \in Nat => got[t] >= keys
                             /\ CurrentSince(got[t], since[t])

\* The queue holds each task that waits, once; whoever holds the lock fetches.
QueueInv ==
    /\ \A i, j \in 1..Len(waiters) : waiters[i] = waiters[j] => i = j
    /\ \A t \in Tasks :
           pc[t] = "waiting" <=> \E i \in 1..Len(waiters) : waiters[i] = t
    /\ holder # None => pc[holder] \in Fetching

IInv ==
    /\ TypeOK /\ QueueInv
    /\ \A v \in 1..Current : published[v].since <= now
    /\ KeysInv
    /\ \A t \in Tasks : FetchInv(t)
=============================================================================
