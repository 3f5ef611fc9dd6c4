------------------------------- MODULE Tokens -------------------------------
(***************************************************************************)
(* One authenticator whose credential a header carries: an access token    *)
(* checked by signature (JWKSVerifier of identity/jwks.py, behind          *)
(* JWTAuthenticator or the boolean RemoteJWKSAuthenticator), or an opaque  *)
(* token looked up at its source (ReferenceAuthenticator), of              *)
(* adapters/authenticators.py.                                             *)
(*                                                                         *)
(* One request at a time: requests share the keys and the source, which    *)
(* change between any two steps.  Module JWKSStore says how the keys are   *)
(* kept; here get_key serves what is held, or what the issuer has now.     *)
(* Time is counted in ticks, Second of them to a second, because auth      *)
(* mints an iat in milliseconds and the library compares whole seconds.    *)
(***************************************************************************)
EXTENDS Selectors, Integers

CONSTANTS
    Kids,
    Presentable,       \* the tokens callers present
    Authenticators,    \* the authenticators a service may configure
    Headers,           \* what the requests' headers hold
    Referenced,        \* the opaque tokens the source may know
    Second,
    Leeway,            \* leeway, in ticks
    MaxTokenLifetime,  \* max_token_lifetime, in ticks
    MaxNow             \* bound: the last instant

Claims == {"sub", "jti", "type", "sid", "grants"}

(***************************************************************************)
(* A token, as what the checks tell apart: the key it names (None: no kid, *)
(* or no token at all) and the one that signed it; whether it has every    *)
(* required claim, whether its sid and jti are non-empty strings, whether  *)
(* iss and aud are the configured ones; whether its iat is a string of     *)
(* digits; its instants; the claims beside those.                          *)
(***************************************************************************)
Token ==
    [kid : Kids \cup {None}, signer : Kids \cup {None},
     complete : BOOLEAN, named : BOOLEAN, ours : BOOLEAN, text : BOOLEAN,
     iat : Nat, nbf : Nat \cup {None}, exp : Nat, claims : SUBSET Claims]

\* loads: what becomes of the claims.  bound: a binding is checked here.
Authenticator ==
    [kind : {"jwt", "boolean", "reference"},
     selector : [header : STRING, scheme : STRING \cup {None}],
     loads : {"claims", "class", "host"}, forwards : SUBSET Claims, bound : BOOLEAN]

Verdicts == {"ok", "invalid", "expired", "unknown_kid", "fault"}

TokenAnswers ==
    {"absent", "principal", "Unauthenticated", "TokenExpired", "AuthzUnavailable",
     "error", "False"}

Sourced == {"known", "unknown"}

ASSUME TokensAssumption ==
    /\ None \notin Kids \cup Nat \cup Verdicts \cup TokenAnswers \cup Sourced
    /\ Garbled \in Presentable /\ Garbled.kid = None
    /\ Presentable \subseteq Token /\ None \notin Presentable
    /\ Referenced \subseteq Presentable
    /\ None \notin Authenticators /\ Authenticators \subseteq Authenticator
    /\ \A a \in Authenticators : a.kind = "boolean" => a.loads = "class" /\ ~a.bound
    /\ \A h \in Headers, a \in Authenticators :
           Extract(a.selector, h) \in Presentable \cup {None}
    /\ Second \in Nat \ {0} /\ Leeway \in Nat /\ MaxTokenLifetime \in Nat \ {0}
    /\ MaxNow \in Nat

VARIABLES
    wired,    \* the authenticator, None before it is configured
    now,      \* the wall clock
    issued,   \* the keys the issuer publishes
    held,     \* the keys the store holds
    live,     \* the opaque tokens the source knows
    at,       \* where the request is
    token,    \* the credential extracted, or None
    source,   \* what the source has answered, None before
    verdict,  \* what verify returned or raised, None before
    judged,   \* history: when it did
    wasLive,  \* history: the source knew the token since the request came
    answer,   \* what the authenticator returned or raised
    principal,\* the claims on the principal, or None
    watched,  \* history: a token verify accepted, None before, ...
    first     \* ... and when it did

keyring == <<issued, held>>
request == <<at, token, source, verdict, judged, answer, principal>>
past == <<watched, first>>
tokensVars == <<wired, now, keyring, live, request, wasLive, past>>

TokensInit ==
    /\ wired = None /\ now = 0 /\ issued = {} /\ held = {} /\ live = {}
    /\ at = "idle" /\ token = None /\ source = None /\ verdict = None /\ judged = 0
    /\ wasLive = FALSE /\ answer = None /\ principal = None
    /\ watched = None /\ first = 0

\* The host constructs its authenticator; its keys are what they are by then.
Configure ==
    /\ wired = None
    /\ wired' \in Authenticators
    /\ issued' \in SUBSET Kids /\ held' \in SUBSET Kids
    /\ UNCHANGED <<now, live, request, wasLive, past>>

-----------------------------------------------------------------------------
(***************************************************************************)
(* The outside: time, the issuer and the store's other users, the source.  *)
(***************************************************************************)
TokensTick ==
    /\ wired # None /\ now < MaxNow
    /\ now' = now + 1
    /\ UNCHANGED <<wired, keyring, live, request, wasLive, past>>

Checked == wired # None /\ wired.kind # "reference"
LookedUp == wired # None /\ wired.kind = "reference"

Rotate ==
    /\ Checked
    /\ issued' \in SUBSET Kids
    /\ UNCHANGED <<wired, now, held, live, request, wasLive, past>>

\* A poll, or another request's miss.
Refreshed ==
    /\ Checked
    /\ held' = issued
    /\ UNCHANGED <<wired, now, issued, live, request, wasLive, past>>

\* The source issues an opaque token, or revokes it.
SourceChanges ==
    /\ LookedUp
    /\ live' \in SUBSET Referenced
    /\ wasLive' = (wasLive \/ (at = "looking" /\ token \in live'))
    /\ UNCHANGED <<wired, now, keyring, request, past>>

-----------------------------------------------------------------------------
(***************************************************************************)
(* JWKSVerifier.verify.  PyJWT checks in this order: the signature, the    *)
(* claims required, iat, nbf, exp, iss, aud.                               *)
(***************************************************************************)
Whole(t) == (t \div Second) * Second

Premature(t, when) ==
    \/ Whole(t.iat) > when + Leeway
    \/ t.nbf # None /\ Whole(t.nbf) > when + Leeway

Expired(t, when) == Whole(t.exp) <= when - Leeway

\* jwt.decode, with and without verify_exp.
Decoded(t, when, expiry) ==
    IF t.signer # t.kid \/ ~t.complete \/ Premature(t, when) THEN "invalid"
    ELSE IF expiry /\ Expired(t, when) THEN "expired"
    ELSE IF ~t.ours THEN "invalid"
    ELSE "ok"

\* A mutant of the next: a lifetime is not looked at.
CheckFloorNames(t) ==
    IF ~t.named THEN "invalid" ELSE IF t.text THEN "fault" ELSE "ok"

\* _check_floor; math.floor of a string raises TypeError.
CheckFloor(t) ==
    IF ~t.named THEN "invalid"
    ELSE IF t.text THEN "fault"
    ELSE IF Whole(t.exp) - Whole(t.iat) > MaxTokenLifetime THEN "invalid"
    ELSE "ok"

\* Mutants of the next: a token that has expired is not decoded again; its
\* lifetime is counted from now.
VerifyOnce(t, when) ==
    LET once == Decoded(t, when, TRUE) IN IF once = "ok" THEN CheckFloor(t) ELSE once
VerifyYoung(t, when) ==
    IF when - Whole(t.iat) > MaxTokenLifetime THEN "invalid"
    ELSE IF Decoded(t, when, TRUE) = "ok" THEN CheckFloor(t) ELSE Decoded(t, when, TRUE)

\* Expired, when expiry alone fails.
Verify(t, when) ==
    LET once == Decoded(t, when, TRUE)
        again == Decoded(t, when, FALSE)
    IN  IF once = "ok" THEN CheckFloor(t)
        ELSE IF once = "invalid" \/ again = "invalid" THEN "invalid"
        ELSE IF CheckFloor(t) # "ok" THEN CheckFloor(t)
        ELSE "expired"

\* JWKSVerifier.principal_claims: the allowlist, and jti whatever it says.
PrincipalClaims(t) == t.claims \cap (wired.forwards \cup {"jti"})
-----------------------------------------------------------------------------
(***************************************************************************)
(* The authenticators.                                                     *)
(***************************************************************************)
Ended(a, p) == at' = "answered" /\ answer' = a /\ principal' = p

\* The boolean contract knows no reasons.
Refused(a) == Ended(IF wired.kind = "boolean" THEN "False" ELSE a, None)

\* A mutant of the next: the source's answer to the last request is kept for
\* the same token.
ArriveCached(h) ==
    LET t == Extract(wired.selector, h) IN
    /\ wired # None /\ at \in {"idle", "answered"}
    /\ token' = t /\ verdict' = None /\ judged' = 0
    /\ source' = IF t = token THEN source ELSE None
    /\ wasLive' = (t \in live)
    /\ IF t = None THEN Refused("absent")
       ELSE IF wired.kind = "reference"
            THEN at' = "looking" /\ answer' = None /\ principal' = None
       ELSE IF t.kid = None THEN Refused("Unauthenticated")
       ELSE at' = "keying" /\ answer' = None /\ principal' = None
    /\ UNCHANGED <<wired, now, keyring, live, past>>

\* A request comes: no credential of this kind is no failure.
Arrive(h) ==
    LET t == Extract(wired.selector, h) IN
    /\ wired # None /\ at \in {"idle", "answered"}
    /\ token' = t /\ source' = None /\ verdict' = None /\ judged' = 0
    /\ wasLive' = (t \in live)
    /\ IF t = None THEN Refused("absent")
       ELSE IF wired.kind = "reference"
            THEN at' = "looking" /\ answer' = None /\ principal' = None
       ELSE IF t.kid = None THEN Refused("Unauthenticated")
       ELSE at' = "keying" /\ answer' = None /\ principal' = None
    /\ UNCHANGED <<wired, now, keyring, live, past>>

\* A credential found good still has to prove possession, if it is bound.
Proceed(p) ==
    IF wired.bound THEN at' = "binding" /\ principal' = p /\ UNCHANGED answer
                   ELSE Ended("principal", p)

\* What follows verify without an await; user_cls takes no id or type twice.
Admit(v) ==
    IF v = "ok" THEN
        IF wired.loads = "host" THEN at' = "loading" /\ UNCHANGED <<answer, principal>>
        ELSE IF wired.loads = "claims" THEN Proceed(token.claims)
        ELSE IF "type" \in PrincipalClaims(token) THEN Ended("error", None)
        ELSE Proceed(PrincipalClaims(token))
    ELSE IF v = "expired" THEN Refused("TokenExpired")
    ELSE IF v = "fault" THEN Refused("AuthzUnavailable")
    ELSE Refused("Unauthenticated")

\* get_key resumes with the key that is held, or that the issuer has now; one
\* it could not fetch is one it does not know.
VerifyToken ==
    /\ at = "keying"
    /\ held' \in {held, issued}
    /\ LET v == IF token.kid \in held' THEN Verify(token, now) ELSE "unknown_kid" IN
          /\ verdict' = v /\ judged' = now
          /\ \/ UNCHANGED past
             \/ v = "ok" /\ watched = None /\ watched' = token /\ first' = now
          /\ Admit(v)
    /\ UNCHANGED <<wired, now, issued, live, token, source, wasLive>>

\* The host's own principal: it may refuse, be unable to tell, or fail.
LoadReturns ==
    /\ at = "loading"
    /\ \/ Proceed(token.claims)
       \/ \E a \in {"Unauthenticated", "AuthzUnavailable", "error"} : Ended(a, None)
    /\ UNCHANGED <<wired, now, keyring, live, token, source, verdict, judged, wasLive, past>>

\* _bind: any other failure of it is that it could not be checked.
BindReturns ==
    /\ at = "binding"
    /\ \/ Ended("principal", principal)
       \/ \E a \in {"Unauthenticated", "AuthzUnavailable"} : Ended(a, None)
    /\ UNCHANGED <<wired, now, keyring, live, token, source, verdict, judged, wasLive, past>>

\* The lookup reads its source, ...
SourceReads ==
    /\ at = "looking" /\ source = None
    /\ source' = IF token \in live THEN "known" ELSE "unknown"
    /\ UNCHANGED <<wired, now, keyring, live, at, token, verdict, judged, answer,
                   principal, wasLive, past>>

\* ... and returns later; None is no principal.
LookupReturns ==
    /\ at = "looking" /\ source # None
    /\ IF source = "known" THEN Proceed({}) ELSE Ended("Unauthenticated", None)
    /\ UNCHANGED <<wired, now, keyring, live, token, source, verdict, judged, wasLive, past>>

\* The source is unreachable, raises anything, or outlasts the timeout.
LookupFails ==
    /\ at = "looking"
    /\ Ended("AuthzUnavailable", None)
    /\ UNCHANGED <<wired, now, keyring, live, token, source, verdict, judged, wasLive, past>>

TokensNext ==
    \/ Configure \/ TokensTick \/ Rotate \/ Refreshed \/ SourceChanges
    \/ \E h \in Headers : Arrive(h)
    \/ VerifyToken \/ LoadReturns \/ BindReturns
    \/ SourceReads \/ LookupReturns \/ LookupFails

TokensSpec == TokensInit /\ [][TokensNext]_tokensVars
-----------------------------------------------------------------------------
(***************************************************************************)
(* Properties.                                                             *)
(***************************************************************************)
\* A token this service is meant to take, were it not for its age: whatever
\* the order it is checked in.
Ours(t, when) ==
    /\ t.signer = t.kid /\ t.complete /\ t.named /\ ~t.text /\ t.ours
    /\ ~Premature(t, when)
    /\ Whole(t.exp) - Whole(t.iat) <= MaxTokenLifetime

\* Whoever gets in brought a token that was ours and running at an instant of
\* this very request, or one its source knew at an instant of this request: a
\* revocation made before the request is never outlived (authenticators.py,
\* "Never cached here").  The user object names its token, and carries no
\* claim the code did not list.
AcceptedIsProven ==
    answer = "principal" =>
        IF wired.kind = "reference" THEN wasLive
        ELSE /\ Ours(token, judged) /\ ~Expired(token, judged)
             /\ wired.loads = "class" =>
                    principal \subseteq wired.forwards \cup {"jti"}

\* "Refresh it" is said of a token that is ours in everything but its age,
\* and of each such token whose key is known: never of one for another
\* service or issuer, although PyJWT looks at exp first (RUL-175).
RefreshIsForOurs ==
    verdict # None /\ verdict # "unknown_kid" /\ at = "answered" /\ wired.kind = "jwt" =>
        (answer = "TokenExpired") <=> (Ours(token, judged) /\ Expired(token, judged))

\* A token once accepted is refused for no other reason than its age, as long
\* as its key is known.
AcceptedOnlyExpires ==
    watched # None /\ token = watched =>
        verdict \in {None, "ok", "expired", "unknown_kid"}

\* A token is accepted over no longer than its longest lifetime and twice the
\* leeway, whatever it says of itself.
LifetimeIsBounded ==
    watched # None /\ token = watched /\ verdict = "ok" =>
        judged - first < MaxTokenLifetime + 2 * Leeway

TokensTypeOK ==
    /\ wired \in Authenticators \cup {None}
    /\ now \in 0 .. MaxNow /\ issued \subseteq Kids /\ held \subseteq Kids
    /\ live \subseteq Referenced
    /\ at \in {"idle", "looking", "keying", "loading", "binding", "answered"}
    /\ token \in Presentable \cup {None}
    /\ source \in Sourced \cup {None}
    /\ verdict \in Verdicts \cup {None}
    /\ judged \in 0 .. now /\ wasLive \in BOOLEAN
    /\ answer \in TokenAnswers \cup {None}
    /\ principal = None \/ principal \subseteq Claims
    /\ watched \in Presentable \cup {None} /\ first \in 0 .. now

(***************************************************************************)
(* The invariant the proofs rest on.                                       *)
(***************************************************************************)
\* What a request has behind it at each stage.
Stages ==
    /\ wired = None => at = "idle" /\ verdict = None
    /\ at = "keying" => Checked /\ token # None /\ verdict = None
    /\ at = "looking" => LookedUp /\ token # None /\ verdict = None
    /\ at = "loading" => Checked /\ verdict = "ok" /\ wired.loads = "host"
    /\ at = "binding" /\ Checked => verdict = "ok"
    /\ verdict # None => Checked
    /\ (answer # None) <=> (at = "answered")

\* The verdict is verify's on this token at that instant, and the answer
\* follows from it.
VerdictStands ==
    /\ verdict \notin {None, "unknown_kid"} =>
           token \in Presentable /\ verdict = Verify(token, judged)
    /\ answer = "TokenExpired" => verdict = "expired"
    /\ verdict = "expired" /\ at = "answered" /\ wired.kind = "jwt" =>
           answer = "TokenExpired"
    /\ answer = "principal" /\ Checked => verdict = "ok"
    /\ (at = "binding" \/ answer = "principal") /\ Checked /\ wired.loads = "class" =>
           principal \subseteq wired.forwards \cup {"jti"}

\* What the source says of the token, it has said since the request came.
SourceStands ==
    LookedUp =>
        /\ at = "looking" /\ (source = "known" \/ token \in live) => wasLive
        /\ at = "binding" \/ answer = "principal" => wasLive

\* A watched token was accepted when it was first seen, and no later verdict
\* is of an earlier instant.
WatchStands ==
    watched # None =>
        /\ Verify(watched, first) = "ok"
        /\ verdict # None => first <= judged

TokensInv == TokensTypeOK /\ Stages /\ VerdictStands /\ SourceStands /\ WatchStands
=============================================================================
