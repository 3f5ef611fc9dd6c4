---------------------------- MODULE SessionDecision ----------------------------
(***************************************************************************)
(* What asking the resolver about a session promises (C-078, C-079): the   *)
(* answer is auth's, as of some instant since the question; a question     *)
(* that does not fail closed may be allowed on an older answer, and how    *)
(* old is bounded.  Caches, calls, stamps and clocks are not visible.      *)
(***************************************************************************)
EXTENDS Integers, Sequences

CONSTANTS
    Requests, Null, Absent,
    Lag,          \* how far behind auth an allowed session may be
    TokenLag,     \* how far behind auth a token allowed by a strict worker may be
    RefusalLag    \* how far behind auth a token that is sent to refresh may be

VARIABLES
    now,
    history,      \* auth's versions of the session; the last one is current
    asked,        \* each request's question, or NoQuestion
    verdict       \* the answer to each request's last question

NoQuestion == [began |-> 0]

Current == Len(history)

\* Version v was auth's current one at some instant of the last d.
Within(v, d) == v = Current \/ now - history[v + 1].since <= d

Init ==
    /\ now = 0
    /\ Len(history) = 1 /\ history[1].state = "enabled"
    /\ asked = [r \in Requests |-> NoQuestion]
    /\ verdict = [r \in Requests |-> "none"]

SessionChanges ==
    /\ Len(history') = Current + 1
    /\ \A v \in 1..Current : history'[v] = history[v]
    /\ history'[Current + 1].since = now
    /\ UNCHANGED <<now, asked, verdict>>

Tick ==
    /\ now' = now + 1
    /\ UNCHANGED <<history, asked, verdict>>

Ask(r) ==
    /\ asked[r] = NoQuestion
    /\ asked'[r].began = Current
    /\ asked' = [asked EXCEPT ![r] = asked'[r]]
    /\ verdict' = [verdict EXCEPT ![r] = "none"]

\* The question fails closed from now on: an older answer contradicts it.
Insist(r) ==
    /\ asked[r] # NoQuestion
    /\ asked' = [asked EXCEPT ![r].closed = TRUE]
    /\ UNCHANGED verdict

Since(r) == asked[r].began..Current

Names(v, token) == history[v].jti = token
NamesNone(v) == history[v].jti \in {Null, Absent}

MayAllow(r) ==
    \E v \in 1..Current :
        /\ history[v].state = "enabled"
        /\ \/ /\ v \in Since(r)
              /\ Names(v, asked[r].token) \/ (~asked[r].strict /\ NamesNone(v))
           \/ /\ ~asked[r].closed /\ Within(v, Lag)
              /\ asked[r].strict => Names(v, asked[r].token) /\ Within(v, TokenLag)

MayDeny(r) == \E v \in Since(r) : history[v].state # "enabled"

MaySupersede(r) ==
    \E v \in 1..Current : /\ ~Names(v, asked[r].token)
                          /\ v \in Since(r) \/ Within(v, RefusalLag)

Answers(r) ==
    /\ asked[r] # NoQuestion
    /\ asked' = [asked EXCEPT ![r] = NoQuestion]
    /\ \/ MayAllow(r) /\ verdict' = [verdict EXCEPT ![r] = "allowed"]
       \/ MayDeny(r) /\ verdict' = [verdict EXCEPT ![r] = "denied"]
       \/ MaySupersede(r) /\ verdict' = [verdict EXCEPT ![r] = "superseded"]
       \/ \E failure \in {"none", "unauthenticated", "unavailable", "misconfigured", "error"} :
             verdict' = [verdict EXCEPT ![r] = failure]

Next ==
    \/ SessionChanges \/ Tick
    \/ \E r \in Requests : /\ Ask(r) \/ Insist(r) \/ Answers(r)
                           /\ UNCHANGED <<now, history>>

Spec == Init /\ [][Next]_<<now, history, asked, verdict>>
=============================================================================
