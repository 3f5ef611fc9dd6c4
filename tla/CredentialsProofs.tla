-------------------------- MODULE CredentialsProofs --------------------------
(***************************************************************************)
(* Proofs about Selectors, Tokens and Callbacks, for any tokens, bodies,   *)
(* authenticators, clocks and lifetimes: what verify says of a token, who  *)
(* is accepted and for how long, and what a vendor's signature vouches     *)
(* for.  At the end the three planes together: each keeps its promises     *)
(* while the others work beside it.                                        *)
(***************************************************************************)
EXTENDS Credentials, EastWestProofs, SequenceTheorems, TLAPS

-----------------------------------------------------------------------------
(***************************************************************************)
(* Selectors.                                                              *)
(***************************************************************************)
\* Two selectors that do not overlap never both find a credential in one
\* header: what the middleware's constructor asks of the authenticators is
\* enough to tell a credential of another kind from a forged one.
THEOREM OneHeaderOneCredential ==
    ASSUME NEW s, NEW t, NEW headers, s.header = t.header, ~Overlaps(s, t)
    PROVE  Extract(s, headers) = None \/ Extract(t, headers) = None
BY DEF Overlaps, Extract

-----------------------------------------------------------------------------
(***************************************************************************)
(* Tokens.                                                                 *)
(***************************************************************************)
\* What verify says of a token, whatever the order it is checked in: "ok" of
\* ours that runs, "expired" of ours that has ended, and of no other.
LEMMA VerifyMeans ==
    ASSUME NEW t \in Presentable, NEW when
    PROVE  /\ Verify(t, when) \in {"ok", "invalid", "expired", "fault"}
           /\ Verify(t, when) = "ok" <=> Ours(t, when) /\ ~Expired(t, when)
           /\ Verify(t, when) = "expired" <=> Ours(t, when) /\ Expired(t, when)
<1>1. /\ CheckFloor(t) \in {"ok", "invalid", "fault"}
      /\ CheckFloor(t) = "ok" <=>
             t.named /\ ~t.text /\ ~(Whole(t.exp) - Whole(t.iat) > MaxTokenLifetime)
  BY DEF CheckFloor
<1> DEFINE Rest == t.signer = t.kid /\ t.complete /\ ~Premature(t, when)
<1>2. /\ Decoded(t, when, TRUE) = IF ~Rest THEN "invalid"
                                  ELSE IF Expired(t, when) THEN "expired"
                                  ELSE IF ~t.ours THEN "invalid" ELSE "ok"
      /\ Decoded(t, when, FALSE) = IF ~Rest \/ ~t.ours THEN "invalid" ELSE "ok"
  BY DEF Decoded
<1>3. t.exp \in Nat /\ t.iat \in Nat
  BY TokensAssumption DEF Token
<1>4. Whole(t.exp) \in Int /\ Whole(t.iat) \in Int /\ MaxTokenLifetime \in Int
  BY <1>3, TokensAssumption DEF Whole
<1>5. Ours(t, when) <=>
          /\ Rest /\ t.ours
          /\ t.named /\ ~t.text /\ ~(Whole(t.exp) - Whole(t.iat) > MaxTokenLifetime)
  BY <1>4 DEF Ours
<1>6. Verify(t, when) = IF ~Rest \/ ~t.ours THEN "invalid"
                        ELSE IF CheckFloor(t) # "ok" THEN CheckFloor(t)
                        ELSE IF Expired(t, when) THEN "expired" ELSE "ok"
  <2> HIDE DEF Rest
  <2> QED
    BY <1>1, <1>2 DEF Verify
<1> HIDE DEF Rest
<1>7. CASE ~Rest \/ ~t.ours
  BY <1>5, <1>6, <1>7
<1>8. CASE Rest /\ t.ours /\ CheckFloor(t) # "ok"
  BY <1>1, <1>5, <1>6, <1>8
<1>9. CASE Rest /\ t.ours /\ CheckFloor(t) = "ok" /\ Expired(t, when)
  BY <1>1, <1>5, <1>6, <1>9
<1>10. CASE Rest /\ t.ours /\ CheckFloor(t) = "ok" /\ ~Expired(t, when)
  BY <1>1, <1>5, <1>6, <1>10
<1> QED
  BY <1>7, <1>8, <1>9, <1>10

\* A token once ours stays ours; and between two instants at which it is
\* accepted lies less than its longest lifetime and twice the leeway.
LEMMA OursLasts ==
    ASSUME NEW t \in Presentable, NEW a \in Int, NEW b \in Int, a <= b,
           Ours(t, a), ~Expired(t, a)
    PROVE  /\ Ours(t, b)
           /\ ~Expired(t, b) => b - a < MaxTokenLifetime + 2 * Leeway
<1>1. t.exp \in Nat /\ t.iat \in Nat /\ (t.nbf # None => t.nbf \in Nat)
  BY TokensAssumption DEF Token
<1>2. /\ Whole(t.exp) \in Int /\ Whole(t.iat) \in Int
      /\ t.nbf # None => Whole(t.nbf) \in Int
  BY <1>1, TokensAssumption DEF Whole
<1>3. MaxTokenLifetime \in Int /\ Leeway \in Int
  BY TokensAssumption
<1> QED
  BY <1>2, <1>3 DEF Ours, Premature, Expired

LEMMA TokensStart == TokensInit => TokensInv
<1> SUFFICES ASSUME TokensInit PROVE TokensInv
  OBVIOUS
<1>1. 0 \in 0 .. MaxNow /\ 0 \in 0 .. 0
  BY TokensAssumption
<1>2. TokensTypeOK
  BY <1>1 DEF TokensInit, TokensTypeOK
<1>3. Stages /\ VerdictStands /\ SourceStands /\ WatchStands
  BY TokensAssumption
     DEF TokensInit, Stages, VerdictStands, SourceStands, WatchStands, Checked, LookedUp,
         TokenAnswers
<1> QED
  BY <1>2, <1>3 DEF TokensInv

\* Steps that leave the request and its credential alone.
LEMMA OutsideStep ==
    ASSUME TokensInv, Configure \/ TokensTick \/ Rotate \/ Refreshed
    PROVE  TokensInv'
<1> USE TokensAssumption DEF TokensInv, keyring, request, past
<1>1. TokensTypeOK'
  BY DEF Configure, TokensTick, Rotate, Refreshed, TokensTypeOK
<1>2. CASE Configure
  <2>1. wired = None /\ at = "idle" /\ verdict = None /\ answer = None
    BY <1>2 DEF Configure, Stages
  <2>2. Stages' /\ VerdictStands' /\ SourceStands'
    BY <1>2, <2>1
       DEF Configure, Stages, VerdictStands, SourceStands, Checked, LookedUp, TokenAnswers
  <2>3. WatchStands'
    BY <1>2 DEF Configure, WatchStands
  <2> QED
    BY <1>1, <2>2, <2>3
<1>3. CASE TokensTick \/ Rotate \/ Refreshed
  <2>1. UNCHANGED <<wired, live, at, token, source, verdict, judged, answer, principal,
                    wasLive, watched, first>>
    BY <1>3 DEF TokensTick, Rotate, Refreshed
  <2>2. Stages' /\ VerdictStands' /\ SourceStands' /\ WatchStands'
    BY <2>1 DEF Stages, VerdictStands, SourceStands, WatchStands, Checked, LookedUp
  <2> QED
    BY <1>1, <2>2
<1> QED
  BY <1>2, <1>3

LEMMA SourceStep ==
    ASSUME TokensInv, SourceChanges
    PROVE  TokensInv'
<1> USE TokensAssumption DEF TokensInv, keyring, request, past
<1>1. UNCHANGED <<wired, now, issued, held, at, token, source, verdict, judged, answer,
                  principal, watched, first>>
  BY DEF SourceChanges
<1>2. TokensTypeOK'
  BY <1>1 DEF SourceChanges, TokensTypeOK
<1>3. Stages' /\ VerdictStands' /\ WatchStands'
  BY <1>1 DEF Stages, VerdictStands, WatchStands, Checked, LookedUp
<1>4. SourceStands'
  BY <1>1 DEF SourceChanges, SourceStands, Checked, LookedUp
<1> QED
  BY <1>2, <1>3, <1>4

LEMMA ArriveStep ==
    ASSUME TokensInv, NEW h \in Headers, Arrive(h)
    PROVE  TokensInv'
<1> USE TokensAssumption DEF TokensInv, keyring, request, past
<1>1. UNCHANGED <<wired, now, issued, held, live, watched, first>>
      /\ wired # None /\ wired \in Authenticators
      /\ source' = None /\ verdict' = None /\ judged' = 0
      /\ token' \in Presentable \cup {None} /\ wasLive' = (token' \in live)
  BY DEF Arrive, TokensTypeOK
<1>2. \/ /\ at' = "answered" /\ principal' = None
         /\ answer' \in {"absent", "Unauthenticated", "False"}
      \/ /\ at' = "looking" /\ LookedUp /\ token' # None
         /\ answer' = None /\ principal' = None
      \/ /\ at' = "keying" /\ Checked /\ token' # None
         /\ answer' = None /\ principal' = None
  BY DEF Arrive, Refused, Ended, Checked, LookedUp
<1>3. 0 \in 0 .. now
  BY DEF TokensTypeOK
<1>4. TokensTypeOK'
  BY <1>1, <1>2, <1>3 DEF TokensTypeOK, TokenAnswers
<1>5. Stages'
  BY <1>1, <1>2 DEF Stages, Checked, LookedUp, TokenAnswers
<1>6. VerdictStands'
  BY <1>1, <1>2 DEF VerdictStands, Checked, TokenAnswers, Verdicts
<1>7. SourceStands'
  BY <1>1, <1>2 DEF SourceStands, LookedUp, TokenAnswers, Sourced
<1>8. WatchStands'
  BY <1>1 DEF WatchStands
<1> QED
  BY <1>4, <1>5, <1>6, <1>7, <1>8

\* What is said of a request, its token and its verdict once that is known.
LEMMA VerifyStep ==
    ASSUME TokensInv, VerifyToken
    PROVE  TokensInv'
<1> USE TokensAssumption DEF TokensInv, keyring, request, past
<1>1. /\ UNCHANGED <<wired, now, issued, live, token, source, wasLive>>
      /\ at = "keying" /\ answer = None /\ Checked /\ token \in Presentable
      /\ wired \in Authenticators /\ held' \subseteq Kids /\ now \in Nat
      /\ judged' = now
  BY DEF VerifyToken, Stages, TokensTypeOK
<1>2. PICK v : /\ v = IF token.kid \in held' THEN Verify(token, now) ELSE "unknown_kid"
               /\ verdict' = v /\ Admit(v)
               /\ \/ UNCHANGED <<watched, first>>
                  \/ v = "ok" /\ watched = None /\ watched' = token /\ first' = now
  BY DEF VerifyToken
<1>3. Verify(token, now) \in {"ok", "invalid", "expired", "fault"}
  BY <1>1, VerifyMeans
<1>4. v \in Verdicts /\ (v # "unknown_kid" => v = Verify(token, now))
  BY <1>2, <1>3 DEF Verdicts
<1>5. token.claims \subseteq Claims
  BY <1>1 DEF Token
<1>6. PrincipalClaims(token) \subseteq Claims
      /\ PrincipalClaims(token) \subseteq wired.forwards \cup {"jti"}
  BY <1>5 DEF PrincipalClaims
<1>7. \/ /\ v = "ok" /\ at' = "loading" /\ wired.loads = "host"
         /\ answer' = None /\ principal' = principal
      \/ /\ v = "ok" /\ at' = "binding" /\ answer' = None
         /\ principal' \subseteq Claims
         /\ wired.loads = "class" => principal' \subseteq wired.forwards \cup {"jti"}
      \/ /\ v = "ok" /\ at' = "answered" /\ answer' = "principal"
         /\ principal' \subseteq Claims
         /\ wired.loads = "class" => principal' \subseteq wired.forwards \cup {"jti"}
      \/ /\ v = "ok" /\ at' = "answered" /\ answer' = "error" /\ principal' = None
      \/ /\ v # "ok" /\ at' = "answered" /\ principal' = None
         /\ answer' \in {"TokenExpired", "AuthzUnavailable", "Unauthenticated", "False"}
         /\ answer' = "TokenExpired" => v = "expired"
         /\ v = "expired" /\ wired.kind = "jwt" => answer' = "TokenExpired"
  <2>1. CASE v = "ok"
    BY <1>1, <1>2, <1>5, <1>6, <2>1 DEF Admit, Proceed, Ended
  <2>2. CASE v # "ok"
    BY <1>1, <1>2, <2>2 DEF Admit, Refused, Ended
  <2> QED
    BY <2>1, <2>2
<1>8. TokensTypeOK'
  BY <1>1, <1>2, <1>4, <1>7 DEF TokensTypeOK, TokenAnswers
<1>9. Stages'
  BY <1>1, <1>2, <1>4, <1>7 DEF Stages, Checked, LookedUp, TokenAnswers, Verdicts
<1>10. VerdictStands'
  BY <1>1, <1>2, <1>4, <1>7 DEF VerdictStands, Checked, TokenAnswers, Verdicts
<1>11. SourceStands'
  BY <1>1 DEF SourceStands, LookedUp, Checked
<1>12. WatchStands'
  <2>1. first \in 0 .. now /\ (watched # None => Verify(watched, first) = "ok")
    BY DEF TokensTypeOK, WatchStands
  <2>2. v = "ok" => Verify(token, now) = "ok"
    BY <1>4
  <2> QED
    BY <1>1, <1>2, <2>1, <2>2 DEF WatchStands
<1> QED
  BY <1>8, <1>9, <1>10, <1>11, <1>12

\* What a request waits for after its token was found good, or looked up.
LEMMA LaterStep ==
    ASSUME TokensInv,
           LoadReturns \/ BindReturns \/ SourceReads \/ LookupReturns \/ LookupFails
    PROVE  TokensInv'
<1> USE TokensAssumption DEF TokensInv, keyring, request, past
<1>1. UNCHANGED <<wired, now, issued, held, live, token, verdict, judged, wasLive,
                  watched, first>>
  BY DEF LoadReturns, BindReturns, SourceReads, LookupReturns, LookupFails
<1>2. WatchStands'
  BY <1>1 DEF WatchStands
<1>3. /\ wired # None /\ wired \in Authenticators /\ answer = None /\ at # "idle"
      /\ Checked => token \in Presentable
  BY DEF LoadReturns, BindReturns, SourceReads, LookupReturns, LookupFails, Stages,
         TokensTypeOK, VerdictStands, Checked, Verdicts
<1>4. CASE SourceReads
  BY <1>1, <1>2, <1>3, <1>4
     DEF SourceReads, TokensTypeOK, Stages, VerdictStands, SourceStands, Checked, LookedUp,
         Sourced
<1>5. CASE LookupFails
  <2>1. LookedUp /\ verdict = None /\ source' = source
        /\ at' = "answered" /\ answer' = "AuthzUnavailable" /\ principal' = None
    BY <1>5 DEF LookupFails, Ended, Stages
  <2> QED
    BY <1>1, <1>2, <1>3, <2>1
       DEF TokensTypeOK, Stages, VerdictStands, SourceStands, Checked, LookedUp,
           TokenAnswers, Verdicts
<1>6. CASE LookupReturns
  <2>1. LookedUp /\ verdict = None /\ source' = source
        /\ \/ /\ wasLive /\ principal' = {}
              /\ \/ at' = "binding" /\ answer' = answer
                 \/ at' = "answered" /\ answer' = "principal"
           \/ at' = "answered" /\ answer' = "Unauthenticated" /\ principal' = None
    BY <1>6 DEF LookupReturns, Proceed, Ended, Stages, SourceStands
  <2> QED
    BY <1>1, <1>2, <1>3, <2>1
       DEF TokensTypeOK, Stages, VerdictStands, SourceStands, Checked, LookedUp,
           TokenAnswers, Verdicts
<1>7. CASE LoadReturns
  <2>1. Checked /\ verdict = "ok" /\ wired.loads = "host" /\ source' = source
        /\ \/ /\ principal' = token.claims
              /\ \/ at' = "binding" /\ answer' = answer
                 \/ at' = "answered" /\ answer' = "principal"
           \/ /\ at' = "answered" /\ principal' = None
              /\ answer' \in {"Unauthenticated", "AuthzUnavailable", "error"}
    BY <1>7 DEF LoadReturns, Proceed, Ended, Stages
  <2>2. token.claims \subseteq Claims
    BY <1>3, <2>1 DEF Token
  <2> QED
    BY <1>1, <1>2, <1>3, <2>1, <2>2
       DEF TokensTypeOK, Stages, VerdictStands, SourceStands, Checked, LookedUp,
           TokenAnswers, Verdicts
<1>8. CASE BindReturns
  <2>1. at = "binding" /\ source' = source /\ at' = "answered"
        /\ \/ answer' = "principal" /\ principal' = principal
           \/ principal' = None /\ answer' \in {"Unauthenticated", "AuthzUnavailable"}
    BY <1>8 DEF BindReturns, Ended
  <2> QED
    BY <1>1, <1>2, <1>3, <2>1
       DEF TokensTypeOK, Stages, VerdictStands, SourceStands, Checked, LookedUp,
           TokenAnswers, Verdicts
<1> QED
  BY <1>4, <1>5, <1>6, <1>7, <1>8

LEMMA TokensStep == TokensInv /\ [TokensNext]_tokensVars => TokensInv'
<1> SUFFICES ASSUME TokensInv, [TokensNext]_tokensVars PROVE TokensInv'
  OBVIOUS
<1>1. CASE UNCHANGED tokensVars
  BY <1>1
     DEF tokensVars, keyring, request, past, TokensInv, TokensTypeOK, Stages,
         VerdictStands, SourceStands, WatchStands, Checked, LookedUp
<1>2. CASE TokensNext
  BY <1>2, OutsideStep, SourceStep, ArriveStep, VerifyStep, LaterStep DEF TokensNext
<1> QED
  BY <1>1, <1>2

\* The inductive invariant: what a request waiting for a key, a lookup or a
\* loader was judged on, and what each verdict was given for.
THEOREM VerdictsStand == TokensSpec => []TokensInv
BY TokensStart, TokensStep, PTL DEF TokensSpec

\* Whoever gets in brought a token of ours that ran during the request, or one
\* the source knew since the request came.
THEOREM AcceptedAreProven == TokensSpec => []AcceptedIsProven
<1>1. TokensInv => AcceptedIsProven
  <2> SUFFICES ASSUME TokensInv, answer = "principal" PROVE AcceptedIsProven
    BY DEF AcceptedIsProven
  <2> USE TokensAssumption
  <2>1. at = "answered" /\ wired # None
    BY DEF TokensInv, Stages, TokenAnswers
  <2>2. CASE LookedUp
    BY <2>2 DEF TokensInv, SourceStands, LookedUp, AcceptedIsProven
  <2>3. CASE Checked
    <3>1. verdict = "ok" /\ token \in Presentable /\ Verify(token, judged) = "ok"
      BY <2>3 DEF TokensInv, VerdictStands, Verdicts
    <3>2. Ours(token, judged) /\ ~Expired(token, judged)
      BY <3>1, VerifyMeans
    <3> QED
      BY <2>3, <3>2 DEF TokensInv, VerdictStands, Checked, AcceptedIsProven
  <2> QED
    BY <2>1, <2>2, <2>3 DEF Checked, LookedUp
<1> QED
  BY <1>1, VerdictsStand, PTL

\* "Refresh it" is said of a token of ours that has ended, and of no other.
THEOREM RefreshesAreForOurs == TokensSpec => []RefreshIsForOurs
<1>1. TokensInv => RefreshIsForOurs
  <2> SUFFICES ASSUME TokensInv, verdict # None, verdict # "unknown_kid",
                      at = "answered", wired.kind = "jwt"
               PROVE  (answer = "TokenExpired") <=> (Ours(token, judged) /\ Expired(token, judged))
    BY DEF RefreshIsForOurs
  <2>1. token \in Presentable /\ verdict = Verify(token, judged)
        /\ ((answer = "TokenExpired") <=> (verdict = "expired"))
    BY DEF TokensInv, VerdictStands
  <2> QED
    BY <2>1, VerifyMeans
<1> QED
  BY <1>1, VerdictsStand, PTL

\* A token once accepted is refused for no other reason than its age.
THEOREM AcceptedTokensOnlyExpire == TokensSpec => []AcceptedOnlyExpires
<1>1. TokensInv => AcceptedOnlyExpires
  <2> SUFFICES ASSUME TokensInv, watched # None, token = watched,
                      verdict \notin {None, "unknown_kid"}
               PROVE  verdict \in {"ok", "expired"}
    BY DEF AcceptedOnlyExpires
  <2>1. /\ token \in Presentable /\ verdict = Verify(token, judged)
        /\ Verify(token, first) = "ok" /\ first <= judged
        /\ first \in Int /\ judged \in Int
    BY TokensAssumption DEF TokensInv, TokensTypeOK, VerdictStands, WatchStands
  <2>2. Ours(token, first) /\ ~Expired(token, first)
    BY <2>1, VerifyMeans
  <2>3. Ours(token, judged)
    BY <2>1, <2>2, OursLasts
  <2> QED
    BY <2>1, <2>3, VerifyMeans
<1> QED
  BY <1>1, VerdictsStand, PTL

\* A token is accepted for no longer than its longest lifetime and twice the
\* leeway.
THEOREM LifetimesAreBounded == TokensSpec => []LifetimeIsBounded
<1>1. TokensInv => LifetimeIsBounded
  <2> SUFFICES ASSUME TokensInv, watched # None, token = watched, verdict = "ok"
               PROVE  judged - first < MaxTokenLifetime + 2 * Leeway
    BY DEF LifetimeIsBounded
  <2>1. /\ token \in Presentable /\ Verify(token, judged) = "ok"
        /\ Verify(token, first) = "ok" /\ first <= judged
        /\ first \in Int /\ judged \in Int
    BY TokensAssumption
       DEF TokensInv, TokensTypeOK, VerdictStands, WatchStands, Verdicts
  <2>2. Ours(token, first) /\ ~Expired(token, first) /\ ~Expired(token, judged)
    BY <2>1, VerifyMeans
  <2> QED
    BY <2>1, <2>2, OursLasts
<1> QED
  BY <1>1, VerdictsStand, PTL

-----------------------------------------------------------------------------
(***************************************************************************)
(* Callbacks.                                                              *)
(***************************************************************************)
\* Moving a chunk from what is still to come to what is held loses nothing.
LEMMA ChunkMoves ==
    ASSUME NEW b \in Body, NEW r \in Body, NEW n \in 0 .. Len(r)
    PROVE  /\ b \o SubSeq(r, 1, n) \in Body /\ SubSeq(r, n + 1, Len(r)) \in Body
           /\ Len(b \o SubSeq(r, 1, n)) = Len(b) + n
           /\ (b \o SubSeq(r, 1, n)) \o SubSeq(r, n + 1, Len(r)) = b \o r
<1> USE DEF Body
<1>1. Len(r) \in Nat /\ n \in Nat /\ n <= Len(r)
  BY LenProperties
<1>2. \A i \in 1 .. Len(r) : r[i] \in Nat
  BY ElementOfSeq
<1>3. SubSeq(r, 1, n) \in Seq(Nat) /\ Len(SubSeq(r, 1, n)) = n
  <2>1. \A i \in 1 .. n : r[i] \in Nat
    BY <1>1, <1>2
  <2>2. SubSeq(r, 1, n) \in Seq(Nat)
        /\ Len(SubSeq(r, 1, n)) = IF 1 <= n THEN n - 1 + 1 ELSE 0
    BY <1>1, <2>1, SubSeqProperties
  <2> QED
    BY <1>1, <2>2
<1>4. SubSeq(r, n + 1, Len(r)) \in Seq(Nat)
  <2>1. \A i \in n + 1 .. Len(r) : r[i] \in Nat
    BY <1>1, <1>2
  <2> QED
    BY <1>1, <2>1, SubSeqProperties
<1>5. SubSeq(r, 1, n) \o SubSeq(r, n + 1, Len(r)) = r
  <2>1. 1 \in 1 .. Len(r) + 1 /\ n \in 1 - 1 .. Len(r) /\ Len(r) \in n .. Len(r)
    BY <1>1
  <2>2. SubSeq(r, 1, n) \o SubSeq(r, n + 1, Len(r)) = SubSeq(r, 1, Len(r))
    BY <2>1, ConcatAdjacentSubSeq
  <2> QED
    BY <2>2, SubSeqFull
<1>6. b \o SubSeq(r, 1, n) \in Seq(Nat) /\ Len(b \o SubSeq(r, 1, n)) = Len(b) + n
  BY <1>3, ConcatProperties
<1>7. (b \o SubSeq(r, 1, n)) \o SubSeq(r, n + 1, Len(r)) = b \o r
  <2>1. \A t, u \in Seq(Nat) : (b \o t) \o u = b \o (t \o u)
    BY ConcatAssociative
  <2>2. (b \o SubSeq(r, 1, n)) \o SubSeq(r, n + 1, Len(r))
            = b \o (SubSeq(r, 1, n) \o SubSeq(r, n + 1, Len(r)))
    BY <1>3, <1>4, <2>1, Zenon
  <2> QED
    BY <1>5, <2>2, Zenon
<1> QED
  BY <1>4, <1>6, <1>7

LEMMA CallbacksStart == CallbacksInit => CallbacksInv
<1> SUFFICES ASSUME CallbacksInit PROVE CallbacksInv
  OBVIOUS
<1>1. 0 \in 0 .. MaxClock /\ 0 \in 0 .. 0 /\ << >> \in Body
  BY CallbacksAssumption
<1>2. CallbacksTypeOK
  BY <1>1, CallbacksAssumption DEF CallbacksInit, CallbacksTypeOK
<1>3. BodyStands /\ WordStands
  BY CallbacksAssumption DEF CallbacksInit, BodyStands, WordStands, Outcomes
<1> QED
  BY <1>2, <1>3 DEF CallbacksInv

\* Steps of the world around a request, and its arrival.
LEMMA WorldStep ==
    ASSUME CallbacksInv, Wire \/ ClockTick \/ RotateSecret
    PROVE  CallbacksInv'
<1> USE CallbacksAssumption DEF CallbacksInv, delivery, wrapper, ruling, history
<1>1. CallbacksTypeOK'
  BY DEF Wire, ClockTick, RotateSecret, CallbacksTypeOK
<1>2. CASE Wire
  <2>1. /\ setup = None /\ stage = "idle" /\ outcome = None /\ setup' \in Setups
        /\ kept = None /\ buffer = << >> /\ watchedBody = None
        /\ UNCHANGED <<stage, signature, body, rest, buffer, kept, outcome, read, used,
                      checkedAt, watchedBody, firstTaken>>
    BY <1>2 DEF Wire, BodyStands, WordStands
  <2>2. BodyStands'
    BY <2>1 DEF BodyStands, Setup
  <2>3. WordStands'
    BY <2>1 DEF WordStands, Outcomes
  <2> QED
    BY <1>1, <2>2, <2>3
<1>3. CASE ClockTick \/ RotateSecret
  <2>1. UNCHANGED <<setup, stage, signature, body, rest, buffer, kept, outcome, read, used,
                    checkedAt, watchedBody, firstTaken>>
    BY <1>3 DEF ClockTick, RotateSecret
  <2> QED
    BY <1>1, <2>1 DEF BodyStands, WordStands, Stamp
<1> QED
  BY <1>2, <1>3

LEMMA DeliverStep ==
    ASSUME CallbacksInv, NEW b \in Bodies, NEW s \in Presented, Deliver(b, s)
    PROVE  CallbacksInv'
<1> USE CallbacksAssumption DEF CallbacksInv, delivery, wrapper, ruling, history
<1>1. /\ UNCHANGED <<setup, clock, secret, watchedBody, firstTaken>>
      /\ setup \in Setups /\ setup # None
      /\ stage' = IF setup.wrapped THEN "receiving" ELSE "checking"
      /\ signature' = s /\ body' = b /\ rest' = b /\ buffer' = << >> /\ kept' = None
      /\ outcome' = None /\ read' = None /\ used' = EmptySecret /\ checkedAt' = 0
  BY DEF Deliver, CallbacksTypeOK
<1>2. s \in Signature \cup {Malformed, None}
  BY DEF Presented, Signature
<1>3. CallbacksTypeOK'
  BY <1>1, <1>2 DEF CallbacksTypeOK
<1>4. BodyStands'
  <2>1. << >> \o b = b
    BY ConcatEmptySeq DEF Body
  <2>2. setup.limit # None => 0 <= setup.limit
    BY <1>1 DEF Setup
  <2> QED
    BY <1>1, <2>1, <2>2 DEF BodyStands
<1>5. WordStands'
  BY <1>1 DEF WordStands, Outcomes, Stamp
<1> QED
  BY <1>3, <1>4, <1>5

LEMMA ReceiveStep ==
    ASSUME CallbacksInv, NEW n \in 0 .. Len(rest), Receive(n)
    PROVE  CallbacksInv'
<1> USE CallbacksAssumption DEF CallbacksInv, delivery, wrapper, ruling, history
<1>1. /\ UNCHANGED <<setup, clock, secret, signature, body, read, used, checkedAt,
                    watchedBody, firstTaken>>
      /\ stage = "receiving" /\ setup \in Setups /\ setup # None /\ setup.wrapped
      /\ outcome = None /\ kept = None /\ body = buffer \o rest
      /\ buffer \in Body /\ rest \in Body
  BY DEF Receive, CallbacksTypeOK, BodyStands, WordStands
<1>2. CASE TooLarge(n)
  <2>1. /\ stage' = "ended" /\ outcome' = "too_large"
        /\ rest' = rest /\ buffer' = buffer /\ kept' = None
    BY <1>1, <1>2 DEF Receive, End
  <2>2. CallbacksTypeOK'
    BY <1>1, <2>1 DEF CallbacksTypeOK, Outcomes
  <2>3. BodyStands' /\ WordStands'
    BY <1>1, <2>1 DEF BodyStands, WordStands
  <2> QED
    BY <2>2, <2>3
<1>3. CASE ~TooLarge(n)
  <2>1. /\ buffer' = buffer \o SubSeq(rest, 1, n)
        /\ rest' = SubSeq(rest, n + 1, Len(rest)) /\ outcome' = None
        /\ \/ stage' = stage /\ kept' = kept
           \/ rest' = << >> /\ stage' = "checking" /\ kept' = buffer'
    BY <1>1, <1>3 DEF Receive, Joined
  <2>2. /\ buffer' \in Body /\ rest' \in Body
        /\ Len(buffer') = Len(buffer) + n /\ buffer' \o rest' = body
    BY <1>1, <2>1, ChunkMoves
  <2>3. setup.limit # None => Len(buffer') <= setup.limit
    <3>1. setup.limit \in Nat \cup {None} /\ Len(buffer') \in Nat
      BY <1>1, <2>2, LenProperties DEF Setup, Body
    <3> QED
      BY <1>3, <2>2, <3>1 DEF TooLarge
  <2>4. rest' = << >> => buffer' = body
    BY <2>2, ConcatEmptySeq DEF Body
  <2>5. CallbacksTypeOK'
    BY <1>1, <2>1, <2>2 DEF CallbacksTypeOK
  <2>6. BodyStands'
    BY <1>1, <2>1, <2>2, <2>3, <2>4 DEF BodyStands
  <2>7. WordStands'
    BY <1>1, <2>1 DEF WordStands, Outcomes
  <2> QED
    BY <2>5, <2>6, <2>7
<1> QED
  BY <1>2, <1>3

LEMMA DisconnectStep ==
    ASSUME CallbacksInv, Disconnect
    PROVE  CallbacksInv'
<1> USE DEF CallbacksInv, delivery, wrapper, ruling, history
<1>1. /\ UNCHANGED <<setup, clock, secret, signature, body, rest, buffer, kept, read, used,
                    checkedAt, watchedBody, firstTaken>>
      /\ stage = "receiving" /\ stage' = "ended" /\ outcome' = "gone" /\ setup # None
  BY DEF Disconnect, End, BodyStands
<1>2. CallbacksTypeOK'
  BY <1>1 DEF CallbacksTypeOK, Outcomes
<1>3. BodyStands' /\ WordStands'
  BY <1>1 DEF BodyStands, WordStands
<1> QED
  BY <1>2, <1>3

LEMMA StampInt ==
    ASSUME NEW b \in Body, Stamp(b) # None
    PROVE  Stamp(b) \in Nat
<1>1. b # << >>
  BY DEF Stamp
<1>2. Len(b) \in Nat \ {0}
  BY <1>1, EmptySeq, LenProperties DEF Body
<1> QED
  BY <1>1, <1>2, ElementOfSeq DEF Stamp, Body

\* What is not stale lies within the skew, either way.
LEMMA FreshIsNear ==
    ASSUME NEW b \in Body, clock \in Nat, ~Stale(b)
    PROVE  Stamp(b) # None /\ clock - Stamp(b) \in -MaxSkew .. MaxSkew
<1>1. Stamp(b) # None /\ ~(clock - Stamp(b) > MaxSkew) /\ ~(Stamp(b) - clock > MaxSkew)
  BY DEF Stale
<1>2. Stamp(b) \in Nat
  BY <1>1, StampInt
<1> QED
  BY <1>1, <1>2, CallbacksAssumption

LEMMA CheckStep ==
    ASSUME CallbacksInv, Check
    PROVE  CallbacksInv'
<1> USE CallbacksAssumption DEF CallbacksInv, delivery, wrapper, ruling, history
<1>1. /\ UNCHANGED <<setup, clock, secret, signature, body, rest, buffer, kept, read>>
      /\ stage = "checking" /\ setup \in Setups /\ setup # None /\ outcome = None
      /\ used' = secret /\ checkedAt' = clock /\ clock \in Nat
      /\ secret \in Secrets \cup {EmptySecret} /\ kept \in Body \cup {None}
      /\ kept # None => kept = body
  BY DEF Check, CallbacksTypeOK, BodyStands, WordStands
<1>2. clock \in 0 .. clock
  BY <1>1
<1>3. CASE Ruling = "taken"
  <2>1. /\ stage' = "handling" /\ outcome' = None
        /\ \/ UNCHANGED <<watchedBody, firstTaken>>
           \/ watchedBody' = kept /\ firstTaken' = clock
    BY <1>1, <1>3 DEF Check
  <2>2. /\ kept # None /\ secret # EmptySecret /\ signature = [body |-> kept, key |-> secret]
        /\ setup.windowed => ~Stale(kept)
    BY <1>3 DEF Ruling
  <2>3. kept \in Body /\ kept = body /\ kept \in Bodies
    BY <1>1, <2>2 DEF CallbacksTypeOK
  <2>4. setup.windowed =>
            Stamp(kept) # None /\ clock - Stamp(kept) \in -MaxSkew .. MaxSkew
    BY <1>1, <2>2, <2>3, FreshIsNear
  <2>5. CallbacksTypeOK'
    BY <1>1, <1>2, <2>1, <2>3 DEF CallbacksTypeOK
  <2>6. BodyStands'
    BY <1>1, <2>1, <2>2 DEF BodyStands
  <2>7. WordStands'
    BY <1>1, <2>1, <2>2, <2>4 DEF WordStands, Outcomes, Stamp
  <2> QED
    BY <2>5, <2>6, <2>7
<1>4. CASE Ruling # "taken"
  <2>1. /\ stage' = "ended" /\ outcome' = Ruling
        /\ UNCHANGED <<watchedBody, firstTaken>>
    BY <1>1, <1>4 DEF Check, End
  <2>2. Ruling \in Outcomes
    BY DEF Ruling, Outcomes
  <2>3. Ruling = "invalid" => kept # None /\ signature # [body |-> kept, key |-> secret]
    BY DEF Ruling
  <2>4. CallbacksTypeOK'
    BY <1>1, <1>2, <2>1, <2>2 DEF CallbacksTypeOK
  <2>5. BodyStands'
    BY <1>1, <2>1 DEF BodyStands
  <2>6. WordStands'
    BY <1>1, <1>4, <2>1, <2>3 DEF WordStands, Stamp
  <2> QED
    BY <2>4, <2>5, <2>6
<1> QED
  BY <1>3, <1>4

LEMMA HandleStep ==
    ASSUME CallbacksInv, Handle
    PROVE  CallbacksInv'
<1> USE DEF CallbacksInv, delivery, wrapper, ruling, history
<1>1. /\ UNCHANGED <<setup, clock, secret, signature, body, rest, buffer, kept, used,
                    checkedAt, watchedBody, firstTaken>>
      /\ stage = "handling" /\ stage' = "ended" /\ outcome' = "taken" /\ read' = kept
      /\ setup # None
  BY DEF Handle, End, Replayed, BodyStands
<1>2. CallbacksTypeOK'
  BY <1>1 DEF CallbacksTypeOK, Outcomes
<1>3. BodyStands' /\ WordStands'
  BY <1>1 DEF BodyStands, WordStands, Stamp
<1> QED
  BY <1>2, <1>3

LEMMA CallbacksStep == CallbacksInv /\ [CallbacksNext]_callbacksVars => CallbacksInv'
<1> SUFFICES ASSUME CallbacksInv, [CallbacksNext]_callbacksVars PROVE CallbacksInv'
  OBVIOUS
<1>1. CASE UNCHANGED callbacksVars
  BY <1>1
     DEF callbacksVars, delivery, wrapper, ruling, history, CallbacksInv, CallbacksTypeOK,
         BodyStands, WordStands, Stamp
<1>2. CASE CallbacksNext
  BY <1>2, WorldStep, DeliverStep, ReceiveStep, DisconnectStep, CheckStep, HandleStep
     DEF CallbacksNext
<1> QED
  BY <1>1, <1>2

\* The inductive invariant: what the wrapper holds is what the wire delivered of
\* the callback, and what each callback that ended was taken or refused for.
THEOREM WordsStand == CallbacksSpec => []CallbacksInv
BY CallbacksStart, CallbacksStep, PTL DEF CallbacksSpec

\* A handler runs on the bytes the vendor signed, all of them and only them; and
\* what the vendor signed is never called forged, however it was cut up.
THEOREM CallbacksAreTheVendors == CallbacksSpec => []CallbackIsVendorsWord
<1>1. CallbacksInv => CallbackIsVendorsWord
  BY CallbacksAssumption
     DEF CallbacksInv, BodyStands, WordStands, CallbackIsVendorsWord
<1> QED
  BY <1>1, WordsStand, PTL

\* One callback is taken again for no longer than twice the skew.
THEOREM ReplaysEnd == CallbacksSpec => []ReplayWindow
<1>1. CallbacksInv => ReplayWindow
  <2> SUFFICES ASSUME CallbacksInv, outcome = "taken", setup.windowed, body = watchedBody
               PROVE  checkedAt - firstTaken <= 2 * MaxSkew
    BY DEF ReplayWindow
  <2> USE CallbacksAssumption DEF CallbacksInv
  <2>1. body # None /\ kept = body
    BY DEF CallbacksTypeOK, BodyStands, WordStands
  <2>2. /\ Stamp(body) # None
        /\ checkedAt - Stamp(body) \in -MaxSkew .. MaxSkew
        /\ firstTaken - Stamp(body) \in -MaxSkew .. MaxSkew
    BY <2>1 DEF WordStands
  <2>3. Stamp(body) \in Nat /\ checkedAt \in Int /\ firstTaken \in Int
    BY <2>2, StampInt DEF CallbacksTypeOK
  <2> QED
    BY <2>2, <2>3
<1> QED
  BY <1>1, WordsStand, PTL

\* The wrapper never holds more than its limit, and hands on no larger body.
THEOREM BuffersAreBounded == CallbacksSpec => []BufferIsBounded
<1>1. CallbacksInv => BufferIsBounded
  BY CallbacksAssumption
     DEF CallbacksInv, CallbacksTypeOK, BodyStands, BufferIsBounded
<1> QED
  BY <1>1, WordsStand, PTL

-----------------------------------------------------------------------------
(***************************************************************************)
(* The planes together.                                                    *)
(***************************************************************************)
\* A step of the service is a step of each plane, or leaves it alone.
LEMMA EachPlaneSteps ==
    [CredentialsNext]_credentialsVars =>
        /\ [TokensNext]_tokensVars
        /\ [CallbacksNext]_callbacksVars
        /\ [EastWestNext]_eastWestVars
BY DEF CredentialsNext, credentialsVars

\* A plane beside the others behaves as it does alone: the service implements
\* the specification of each.
THEOREM EachPlaneAsAlone ==
    CredentialsSpec => TokensSpec /\ CallbacksSpec /\ EastWestSpec
<1>1. CredentialsInit => TokensInit /\ CallbacksInit /\ EastWestInit
  BY DEF CredentialsInit
<1> QED
  BY <1>1, EachPlaneSteps, PTL DEF CredentialsSpec, TokensSpec, CallbacksSpec, EastWestSpec

\* The three inductive invariants stand in the running service, whichever
\* planes are at work in it at once.
THEOREM InvariantsStand == CredentialsSpec => []IInv
BY EachPlaneAsAlone, VerdictsStand, WordsStand, HooksStand, PTL DEF IInv

\* And so do the promises: a service that takes tokens, callbacks and peers at
\* once lets nobody in whom its own plane would refuse.
THEOREM PlanesKeepTheirPromises ==
    CredentialsSpec =>
        /\ [](AcceptedIsProven /\ RefreshIsForOurs /\ AcceptedOnlyExpires /\ LifetimeIsBounded)
        /\ [](CallbackIsVendorsWord /\ ReplayWindow /\ BufferIsBounded)
        /\ []PeerOpensItsOwn
BY EachPlaneAsAlone, AcceptedAreProven, RefreshesAreForOurs, AcceptedTokensOnlyExpire,
   LifetimesAreBounded, CallbacksAreTheVendors, ReplaysEnd, BuffersAreBounded,
   PeersOpenTheirOwn, PTL
=============================================================================
