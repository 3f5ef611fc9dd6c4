--------------------------- MODULE OperationStepUp ---------------------------
(***************************************************************************)
(* Per-operation step-up: verify_operation_for (adapters/hooks.py), its    *)
(* verify_operation and HttpOperationVerifier (assurance/operation.py).    *)
(*                                                                         *)
(* Requests of clients redeem challenges at auth, which consumes them on   *)
(* :verify.  The network delays and repeats a call and loses its answer;   *)
(* workers crash; the host's idempotency reservation, keyed by the         *)
(* operation id, lapses.  A challenge is a session and an operation id: an *)
(* operation id is unique within its session.                              *)
(***************************************************************************)
EXTENDS Integers, Sequences

CONSTANTS
    Requests,    \* requests at work at one time; each slot is used again
    Challenges,
    Purposes,
    Bodies,      \* request bodies, each also standing for its raw_body_hash
    NoHash,      \* no hash: the policy binds no body, or the host computes none
    MediaHash,   \* what the deprecated hasher computes: no hash of the raw bytes
    MaxCalls     \* bound: the calls of :verify

ASSUME StepUpAssumption ==
    /\ NoHash \notin Bodies /\ MediaHash \notin Bodies
    /\ {"free", "stored"} \cap Requests = {}
    /\ MaxCalls \in Nat

VARIABLES
    raisedFor,    \* auth: the act each challenge was raised for
    spendable,    \* auth: the challenges passed, not expired and not consumed
    answers,      \* auth: what its idempotency store holds, per key
    sent,         \* the calls of :verify the network holds; it may repeat them
    calls,        \* how many calls were made
    reservation,  \* host: who runs under an operation id, or free, or stored
    lapsed,       \* host: the operation ids whose reservation lapsed
    pc,           \* where each request is
    call,         \* its arguments
    key,          \* the Idempotency-Key of its last call
    ended,        \* how a request ended in the last step, or NoEnd
    writes        \* the writes performed under each challenge

auth == <<raisedFor, spendable, answers>>
host == <<reservation, lapsed>>
task == <<pc, call, key>>
vars == <<auth, sent, calls, host, task, ended, writes>>

\* Of the whole exchange, what was authorized and what was written.
Promise ==
    INSTANCE SingleUse WITH
        Challenges <- Challenges, Purposes <- Purposes, Bodies <- Bodies, NoHash <- NoHash,
        raisedFor <- raisedFor, writes <- writes
-----------------------------------------------------------------------------
NoAct == Promise!NoAct
Act == Promise!Act

\* The purpose is the route's; hash is what it computed for the body, if it did.
Call == [challenge : Challenges, purpose : Purposes, body : Bodies,
         hash : Bodies \cup {NoHash, MediaHash}]

Key == Nat \cup Challenges
Answer == [key : Key, kind : {"ok", "miss", "forbidden"}, act : Act \cup {NoAct}]

Working == {"connecting", "sent", "verified", "written"}

\* The first three are the handler's own, the others exceptions of verify_operation_for.
Outcome == {"crashed", "failed", "written", "unsent", "unavailable", "timeout", "bad",
            "misconfigured", "miss", "purpose", "body", "unhashed"}
Ended == [challenge : Challenges, key : Key, how : Outcome]
NoEnd == [how |-> "none"]
NoCall == NoAct

TypeOK ==
    /\ raisedFor \in [Challenges -> Act \cup {NoAct}]
    /\ spendable \subseteq Challenges
    /\ answers \subseteq Answer
    /\ sent \subseteq [key : Key, challenge : Challenges]
    /\ calls \in Nat
    /\ reservation \in [Challenges -> Requests \cup {"free", "stored"}]
    /\ lapsed \subseteq Challenges
    /\ pc \in [Requests -> Working \cup {"idle"}]
    /\ call \in [Requests -> Call \cup {NoCall}]
    /\ \A r \in Requests : pc[r] \in Working => call[r] \in Call
    /\ key \in [Requests -> Key]
    /\ ended \in Ended \cup {NoEnd}
    /\ writes \in [Challenges -> Seq(Promise!Write)]

Init ==
    /\ Promise!Init
    /\ spendable = {} /\ answers = {} /\ sent = {} /\ calls = 0
    /\ reservation = [c \in Challenges |-> "free"] /\ lapsed = {}
    /\ pc = [r \in Requests |-> "idle"]
    /\ call = [r \in Requests |-> NoCall]
    /\ key = [r \in Requests |-> 0]
    /\ ended = NoEnd
-----------------------------------------------------------------------------
\* Auth.

\* The user passes the challenge raised under c.
StepUp(c) ==
    /\ \E act \in Act : Promise!StepUp(c, act)
    /\ spendable' = spendable \cup {c}
    /\ ended' = NoEnd
    /\ UNCHANGED <<answers, sent, calls, host, task>>

Expire(c) ==
    /\ c \in spendable
    /\ spendable' = spendable \ {c}
    /\ ended' = NoEnd
    /\ UNCHANGED <<raisedFor, answers, sent, calls, host, task, writes>>

Unanswered(m) == \A a \in answers : a.key # m.key

\* :verify consumes a spendable challenge; a repeated key gets the stored answer.
AuthVerifies(m) ==
    /\ Unanswered(m)
    /\ \/ /\ m.challenge \in spendable
          /\ answers' = answers \cup {[key |-> m.key, kind |-> "ok",
                                       act |-> raisedFor[m.challenge]]}
       \/ /\ m.challenge \notin spendable
          /\ answers' = answers \cup {[key |-> m.key, kind |-> "miss", act |-> NoAct]}
    /\ spendable' = spendable \ {m.challenge}
    /\ ended' = NoEnd
    /\ UNCHANGED <<raisedFor, sent, calls, host, task, writes>>

\* Auth refuses this service, or its request.
AuthRefuses(m) ==
    /\ Unanswered(m)
    /\ answers' = answers \cup {[key |-> m.key, kind |-> "forbidden", act |-> NoAct]}
    /\ ended' = NoEnd
    /\ UNCHANGED <<raisedFor, spendable, sent, calls, host, task, writes>>
-----------------------------------------------------------------------------
\* The host's handler, around the call.

Ends(r, how) ==
    /\ pc' = [pc EXCEPT ![r] = "idle"]
    /\ call' = [call EXCEPT ![r] = NoCall]
    /\ key' = [key EXCEPT ![r] = 0]
    /\ ended' = [challenge |-> call[r].challenge, key |-> key[r], how |-> how]

\* The reservation is released, if it is still the request's own.
Refuses(r, how) ==
    LET c == call[r].challenge
    IN /\ Ends(r, how)
       /\ reservation' = [reservation EXCEPT ![c] = IF @ = r THEN "free" ELSE @]
       /\ UNCHANGED <<auth, sent, calls, lapsed, writes>>

\* Fault: the retry of a call sends the request's own key again.
RequestKey(c) == c

\* A key no other call has.
FreshKey(c) == calls + 1

\* Fault: the challenge is verified before the reservation is taken.
ArriveUnreserved(r) ==
    /\ pc[r] = "idle" /\ calls < MaxCalls
    /\ \E new \in Call :
        /\ new.hash \in {new.body, NoHash, MediaHash}
        /\ reservation' = [reservation EXCEPT ![new.challenge] = r]
        /\ pc' = [pc EXCEPT ![r] = "connecting"]
        /\ call' = [call EXCEPT ![r] = new]
        /\ key' = [key EXCEPT ![r] = FreshKey(new.challenge)]
    /\ calls' = calls + 1 /\ ended' = NoEnd
    /\ UNCHANGED <<auth, sent, lapsed, writes>>

\* RESERVED: a first execution, the only branch that calls verify_operation_for.
\* REPLAY, IN_PROGRESS and MISMATCH answer at once and change nothing.
Arrive(r) ==
    /\ pc[r] = "idle" /\ calls < MaxCalls
    /\ \E new \in Call :
        /\ new.hash \in {new.body, NoHash, MediaHash}
        /\ reservation[new.challenge] = "free"
        /\ reservation' = [reservation EXCEPT ![new.challenge] = r]
        /\ pc' = [pc EXCEPT ![r] = "connecting"]
        /\ call' = [call EXCEPT ![r] = new]
        /\ key' = [key EXCEPT ![r] = FreshKey(new.challenge)]
    /\ calls' = calls + 1 /\ ended' = NoEnd
    /\ UNCHANGED <<auth, sent, lapsed, writes>>

\* The write, after the verify only; it may fail.
Perform(r) ==
    LET c == call[r].challenge
    IN /\ pc[r] = "verified"
       /\ writes' = [writes EXCEPT ![c] =
                       Append(@, [purpose |-> call[r].purpose, body |-> call[r].body])]
       /\ pc' = [pc EXCEPT ![r] = "written"]
       /\ ended' = NoEnd
       /\ UNCHANGED <<auth, sent, calls, host, call, key>>

WriteFails(r) == pc[r] = "verified" /\ Refuses(r, "failed")

\* The response is stored under the operation id.
Store(r) ==
    LET c == call[r].challenge
    IN /\ pc[r] = "written"
       /\ Ends(r, "written")
       /\ reservation' = [reservation EXCEPT ![c] = IF @ = r THEN "stored" ELSE @]
       /\ UNCHANGED <<auth, sent, calls, lapsed, writes>>

\* The worker dies, or the request is cancelled: the reservation stays behind.
Crash(r) ==
    /\ pc[r] \in Working
    /\ Ends(r, "crashed")
    /\ UNCHANGED <<auth, sent, calls, host, writes>>

Lapse(c) ==
    /\ reservation[c] \in Requests
    /\ reservation' = [reservation EXCEPT ![c] = "free"]
    /\ lapsed' = lapsed \cup {c}
    /\ ended' = NoEnd
    /\ UNCHANGED <<auth, sent, calls, task, writes>>
-----------------------------------------------------------------------------
\* verify_operation_for.

\* No operation id, or no raw bytes were kept: raised before any call.
RefusedUnsent(r) == pc[r] = "connecting" /\ Refuses(r, "unsent")

\* Refused, or timed out while connecting: 503.
ConnectFails(r) == pc[r] = "connecting" /\ Refuses(r, "unavailable")

Send(r) ==
    /\ pc[r] = "connecting"
    /\ sent' = sent \cup {[key |-> key[r], challenge |-> call[r].challenge]}
    /\ pc' = [pc EXCEPT ![r] = "sent"]
    /\ ended' = NoEnd
    /\ UNCHANGED <<auth, calls, host, call, key, writes>>

\* Fault: a connection that drops is taken for a request that never left.
AnswerLostUnsent(r) ==
    /\ pc[r] = "sent"
    /\ \E how \in {"timeout", "unsent", "bad"} : Refuses(r, how)

\* Timed out after the send: 504.  The connection drops, or a 5xx comes back: 503.
\* A redirect, or a 200 that is no verification: 502.
AnswerLost(r) ==
    /\ pc[r] = "sent"
    /\ \E how \in {"timeout", "unavailable", "bad"} : Refuses(r, how)

\* Fault: with no hash computed there is no check.
CheckBodyIfHashed(act, hash) == act.bound = NoHash \/ hash = NoHash \/ hash = act.bound

\* A hash the challenge is bound to must be the one computed.
CheckBody(act, hash) == act.bound = NoHash \/ hash = act.bound

\* Auth's answer is the challenge of this act, or the request ends.
Receive(r) ==
    /\ pc[r] = "sent"
    /\ \E a \in answers :
        /\ a.key = key[r]
        /\ \/ a.kind = "forbidden" /\ Refuses(r, "misconfigured")
           \/ a.kind = "miss" /\ Refuses(r, "miss")
           \/ a.kind = "ok" /\ a.act.purpose # call[r].purpose /\ Refuses(r, "purpose")
           \/ /\ a.kind = "ok" /\ a.act.purpose = call[r].purpose
              /\ ~CheckBody(a.act, call[r].hash)
              /\ Refuses(r, IF call[r].hash = NoHash THEN "unhashed" ELSE "body")
           \/ /\ a.kind = "ok" /\ a.act.purpose = call[r].purpose
              /\ CheckBody(a.act, call[r].hash)
              /\ pc' = [pc EXCEPT ![r] = "verified"]
              /\ ended' = NoEnd
              /\ UNCHANGED <<auth, sent, calls, host, call, key, writes>>
-----------------------------------------------------------------------------
Step(r) ==
    \/ Arrive(r) \/ Perform(r) \/ WriteFails(r) \/ Store(r)
    \/ Crash(r) \/ RefusedUnsent(r) \/ ConnectFails(r) \/ Send(r) \/ AnswerLost(r)
    \/ Receive(r)

Next ==
    \/ \E c \in Challenges : StepUp(c) \/ Expire(c) \/ Lapse(c)
    \/ \E m \in sent : AuthVerifies(m) \/ AuthRefuses(m)
    \/ \E r \in Requests : Step(r)

Spec == Init /\ [][Next]_vars
-----------------------------------------------------------------------------
\* A step-up authorizes one write, of the act it was raised for, whatever is
\* repeated, lost or late, whoever crashes, and even if the reservation lapses.
ActsOnce == Promise!Spec

\* A retry of an act that was written is never told that its challenge is gone
\* -- "the exact retry the operation id exists to make safe" (hooks.py:282) --
\* unless the host lost the reservation.
WrittenIsNeverMissed ==
    ended.how = "miss" /\ ended.challenge \notin lapsed => writes[ended.challenge] = <<>>

\* The call of the request that ended consumed its challenge.
Spent == \E a \in answers : a.key = ended.key /\ a.kind = "ok"

\* What a caller may conclude from a refusal, whatever calls are still in flight
\* and whoever else redeems: the challenge was not consumed by its own call, or
\* it was.  Only a 503, a 504, a 502 and a crash leave it open (outbound.py:134).
RefusalTellsSpent ==
    /\ ended.how \in {"unsent", "misconfigured", "miss"} => ~Spent
    /\ ended.how \in {"purpose", "body", "unhashed", "failed"} => Spent

\* "refusing rather than spending a binding we cannot honour" (operation.py:239,
\* and "we must not spend the challenge", operation.py:224).
UnhashedSpendsNothing == ended.how = "unhashed" => ~Spent

-----------------------------------------------------------------------------
\* The inductive invariant.

Message(r) == [key |-> key[r], challenge |-> call[r].challenge]

\* Keys are fresh: one request per key, one message, one answer.
KeysInv ==
    /\ \A r \in Requests : pc[r] \in Working => key[r] \in 1..calls
    /\ \A r, q \in Requests :
          r # q /\ pc[r] \in Working /\ pc[q] \in Working => key[r] # key[q]
    /\ \A m \in sent : m.key \in 1..calls
    /\ \A m, n \in sent : m.key = n.key => m = n
    /\ \A r \in Requests : pc[r] = "connecting" => \A m \in sent : m.key # key[r]
    /\ \A r \in Requests : pc[r] \in {"sent", "verified", "written"} => Message(r) \in sent
    /\ \A a \in answers : \E m \in sent : m.key = a.key
    /\ \A a, b \in answers : a.key = b.key => a = b

\* The call consumed its challenge.
Redeemed(m) ==
    [key |-> m.key, kind |-> "ok", act |-> raisedFor[m.challenge]] \in answers

SpentOnce ==
    /\ \A c \in spendable : raisedFor[c] \in Act
    /\ \A m \in sent, a \in answers :
          m.key = a.key /\ a.kind = "ok" =>
            a.act = raisedFor[m.challenge] /\ a.act \in Act /\ m.challenge \notin spendable
    /\ \A m, n \in sent :
          Redeemed(m) /\ Redeemed(n) /\ m.challenge = n.challenge => m = n

\* Who holds the answer has not written yet; after the write nobody holds it.
WritesInv ==
    /\ \A r \in Requests : pc[r] = "verified" =>
          LET act == raisedFor[call[r].challenge]
          IN /\ Redeemed(Message(r))
             /\ act.purpose = call[r].purpose
             /\ act.bound \in {NoHash, call[r].body}
             /\ writes[call[r].challenge] = <<>>
    /\ \A c \in Challenges : writes[c] # <<>> =>
          \E m \in sent :
             /\ m.challenge = c /\ Redeemed(m)
             /\ \A r \in Requests : pc[r] \in Working /\ key[r] = m.key => pc[r] = "written"

\* One request works under a reservation that has not lapsed.
ReservationInv ==
    /\ \A r \in Requests :
          LET c == call[r].challenge
          IN pc[r] \in Working /\ c \notin lapsed =>
               reservation[c] = r /\ (pc[r] # "written" => writes[c] = <<>>)
    /\ \A c \in Challenges \ lapsed : reservation[c] = "free" => writes[c] = <<>>

HashInv ==
    \A r \in Requests : pc[r] \in Working => call[r].hash \in {call[r].body, NoHash, MediaHash}

IInv == TypeOK /\ KeysInv /\ SpentOnce /\ WritesInv /\ ReservationInv /\ HashInv
=============================================================================
