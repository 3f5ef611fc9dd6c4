------------------------------ MODULE Callbacks ------------------------------
(***************************************************************************)
(* A vendor's callback: RawBodyBuffer (adapters/rawbody.py) takes the body *)
(* as it arrives and keeps it, HMACAuthenticator                           *)
(* (adapters/authenticators.py) checks the vendor's signature over what    *)
(* was kept, and the handler then reads the body anew.  Between any two    *)
(* messages of the client the secret may be rotated and time passes.       *)
(*                                                                         *)
(* A body is a sequence of bytes, the first of them the instant at which   *)
(* the vendor says it signed; a signature is the body it was made of and   *)
(* the key it was made with, since equal digests mean equal bodies.  The   *)
(* empty key is everyone's; under the vendor's, any body may be signed.    *)
(***************************************************************************)
EXTENDS Selectors, Integers, Sequences

CONSTANTS
    Secrets,     \* what the vendor and the service have shared, now or before
    EmptySecret, \* what a secret's file holds while it is being written
    Malformed,   \* a header that is no digest
    Bodies,      \* the bodies clients send
    Setups,      \* how the service may be wired
    MaxSkew,     \* max_skew
    MaxClock     \* bound: the last instant

Body == Seq(Nat)

\* wrapped: the app is inside RawBodyBuffer, whose max_bytes is limit, or None.
\* windowed: the authenticator has a timestamp_of.
Setup == [wrapped : BOOLEAN, limit : Nat \cup {None}, windowed : BOOLEAN]

\* What a header may hold: a vendor's signature, or one under the empty key,
\* over this body or another.
Signature == [body : Body, key : Secrets \cup {EmptySecret}]
Presented == [body : Bodies, key : Secrets \cup {EmptySecret}] \cup {Malformed, None}

Outcomes ==
    {"absent", "wiring", "unavailable", "invalid", "stale", "taken", "too_large", "gone"}

ASSUME CallbacksAssumption ==
    /\ None \notin Outcomes
    /\ Bodies \subseteq Body /\ << >> \in Bodies
    /\ Malformed # None /\ Malformed \notin Signature /\ None \notin Signature
    /\ None \notin Body /\ None \notin Nat
    /\ EmptySecret \notin Secrets /\ None \notin Setups /\ Setups \subseteq Setup
    /\ MaxSkew \in Nat \ {0} /\ MaxClock \in Nat

VARIABLES
    setup,      \* the wiring, None before it is done
    clock,
    secret,     \* what the secret's callable returns now
    stage,      \* where the request is
    signature,  \* what its header presents, or None
    body,       \* what the client means to send
    rest,       \* what of it is still to come
    buffer,     \* chunks
    kept,       \* scope[RAW_BODY_SCOPE_KEY], or None
    outcome,    \* how the request has ended, or None
    read,       \* what the handler has read, or None
    used,       \* history: the secret it was checked with, ...
    checkedAt,  \* ... and when
    watchedBody,\* history: a body that was taken, None before, ...
    firstTaken  \* ... and when it was

delivery == <<signature, body>>
wrapper == <<rest, buffer, kept>>
ruling == <<outcome, read, used, checkedAt>>
history == <<watchedBody, firstTaken>>
callbacksVars == <<setup, clock, secret, stage, delivery, wrapper, ruling, history>>

CallbacksInit ==
    /\ setup = None /\ clock = 0 /\ secret = EmptySecret
    /\ stage = "idle" /\ signature = None /\ body = << >>
    /\ rest = << >> /\ buffer = << >> /\ kept = None
    /\ outcome = None /\ read = None /\ used = EmptySecret /\ checkedAt = 0
    /\ watchedBody = None /\ firstTaken = 0

Wire ==
    /\ setup = None
    /\ setup' \in Setups
    /\ UNCHANGED <<clock, secret, stage, delivery, wrapper, ruling, history>>

ClockTick ==
    /\ setup # None /\ clock < MaxClock
    /\ clock' = clock + 1
    /\ UNCHANGED <<setup, secret, stage, delivery, wrapper, ruling, history>>

\* The agent writes the secret's file.
RotateSecret ==
    /\ setup # None
    /\ secret' \in Secrets \cup {EmptySecret}
    /\ UNCHANGED <<setup, clock, stage, delivery, wrapper, ruling, history>>

-----------------------------------------------------------------------------
(***************************************************************************)
(* RawBodyBuffer.  Without it the authenticator is reached at once.        *)
(***************************************************************************)
Deliver(b, s) ==
    /\ setup # None /\ stage \in {"idle", "ended"}
    /\ stage' = IF setup.wrapped THEN "receiving" ELSE "checking"
    /\ signature' = s /\ body' = b
    /\ rest' = b /\ buffer' = << >> /\ kept' = None
    /\ outcome' = None /\ read' = None /\ used' = EmptySecret /\ checkedAt' = 0
    /\ UNCHANGED <<setup, clock, secret, history>>

End(o) == stage' = "ended" /\ outcome' = o

TooLarge(n) == setup.limit # None /\ Len(buffer) + n > setup.limit

\* A mutant of the next: each chunk takes the place of those before it.
LastChunk(chunk) == chunk

Joined(chunk) == buffer \o chunk

\* A chunk of the body, empty ones included; the last says there is no more.
Receive(n) ==
    /\ stage = "receiving"
    /\ IF TooLarge(n)
       THEN End("too_large") /\ UNCHANGED wrapper
       ELSE /\ buffer' = Joined(SubSeq(rest, 1, n))
            /\ rest' = SubSeq(rest, n + 1, Len(rest))
            /\ \/ stage' = stage /\ UNCHANGED kept
               \/ rest' = << >> /\ stage' = "checking" /\ kept' = buffer'
            /\ UNCHANGED outcome
    /\ UNCHANGED <<setup, clock, secret, delivery, read, used, checkedAt, history>>

\* The client goes away mid-body: falcon, shown the disconnect first, leaves.
Disconnect ==
    /\ stage = "receiving"
    /\ End("gone")
    /\ UNCHANGED <<setup, clock, secret, delivery, wrapper, read, used, checkedAt, history>>

-----------------------------------------------------------------------------
(***************************************************************************)
(* HMACAuthenticator.                                                      *)
(***************************************************************************)
Stamp(b) == IF b = << >> THEN None ELSE b[1]

\* A mutant of the next: a callback from the future is fresh.
StaleIfOld(b) == Stamp(b) = None \/ clock - Stamp(b) > MaxSkew

Stale(b) ==
    Stamp(b) = None \/ clock - Stamp(b) > MaxSkew \/ Stamp(b) - clock > MaxSkew

Ruling ==
    IF signature = None THEN "absent"
    ELSE IF kept = None THEN "wiring"
    ELSE IF secret = EmptySecret THEN "unavailable"
    ELSE IF signature # [body |-> kept, key |-> secret] THEN "invalid"
    ELSE IF setup.windowed /\ Stale(kept) THEN "stale"
    ELSE "taken"

Check ==
    /\ stage = "checking"
    /\ used' = secret /\ checkedAt' = clock
    /\ IF Ruling = "taken"
       THEN /\ stage' = "handling" /\ UNCHANGED outcome
            /\ \/ UNCHANGED history
               \/ watchedBody = None /\ watchedBody' = kept /\ firstTaken' = clock
       ELSE End(Ruling) /\ UNCHANGED history
    /\ UNCHANGED <<setup, clock, secret, delivery, wrapper, read>>

\* _replay, once: afterwards the client's own messages follow.
Replayed == kept

Handle ==
    /\ stage = "handling"
    /\ read' = Replayed
    /\ End("taken")
    /\ UNCHANGED <<setup, clock, secret, delivery, wrapper, used, checkedAt, history>>

CallbacksNext ==
    \/ Wire \/ ClockTick \/ RotateSecret
    \/ \E b \in Bodies, s \in Presented : Deliver(b, s)
    \/ \E n \in 0 .. Len(rest) : Receive(n)
    \/ Disconnect \/ Check \/ Handle

CallbacksSpec == CallbacksInit /\ [][CallbacksNext]_callbacksVars
-----------------------------------------------------------------------------
(***************************************************************************)
(* Properties.                                                             *)
(***************************************************************************)
\* A handler runs on a callback only if the vendor signed the very bytes the
\* client sent, all of them, with the secret in use when they were checked --
\* never under the empty key -- and it reads these bytes; and what the vendor
\* so signed is never called forged, however it arrived in pieces (C-031).
CallbackIsVendorsWord ==
    LET vendors == used \in Secrets /\ signature = [body |-> body, key |-> used] IN
    /\ outcome = "taken" => vendors /\ read = body
    /\ outcome = "invalid" => ~vendors

\* Within a window, one callback is taken again for no longer than twice the
\* skew allowed: there is no store of nonces to end it sooner.
ReplayWindow ==
    outcome = "taken" /\ setup.windowed /\ body = watchedBody =>
        checkedAt - firstTaken <= 2 * MaxSkew

\* max_bytes bounds what is held of any request, whatever size its chunks are;
\* and of a body over it the application never sees a byte.
BufferIsBounded ==
    setup # None /\ setup.limit # None /\ setup.wrapped =>
        /\ Len(buffer) <= setup.limit
        /\ stage \in {"checking", "handling"} => Len(body) <= setup.limit

CallbacksTypeOK ==
    /\ setup \in Setups \cup {None} /\ clock \in 0 .. MaxClock
    /\ secret \in Secrets \cup {EmptySecret}
    /\ stage \in {"idle", "receiving", "checking", "handling", "ended"}
    /\ signature \in Signature \cup {Malformed, None} /\ body \in Bodies
    /\ rest \in Body /\ buffer \in Body /\ kept \in Body \cup {None}
    /\ outcome \in Outcomes \cup {None}
    /\ read \in Body \cup {None}
    /\ used \in Secrets \cup {EmptySecret} /\ checkedAt \in 0 .. clock
    /\ watchedBody \in Bodies \cup {None} /\ firstTaken \in 0 .. clock

(***************************************************************************)
(* The invariant the proofs rest on.                                       *)
(***************************************************************************)
\* The wrapper holds a beginning of the body, or all of it, and no more than
\* its limit; what it keeps is the body.
BodyStands ==
    /\ setup = None => stage = "idle" /\ kept = None /\ buffer = << >> /\ watchedBody = None
    /\ stage # "idle" /\ ~setup.wrapped => kept = None
    /\ stage = "receiving" => kept = None /\ setup.wrapped /\ body = buffer \o rest
    /\ kept # None => kept = body /\ buffer = body
    /\ setup # None /\ setup.wrapped /\ setup.limit # None => Len(buffer) <= setup.limit
    /\ stage \in {"checking", "handling"} /\ setup.wrapped => kept = body

\* A callback goes to its handler on the vendor's word, and the first time a
\* watched one did, it was fresh.
WordStands ==
    /\ stage # "ended" => outcome = None
    /\ stage = "handling" \/ outcome = "taken" =>
           /\ kept # None /\ used \in Secrets /\ signature = [body |-> kept, key |-> used]
           /\ setup.windowed =>
                  Stamp(kept) # None /\ checkedAt - Stamp(kept) \in -MaxSkew .. MaxSkew
    /\ outcome = "taken" => read = kept
    /\ outcome = "invalid" =>
           ~(used \in Secrets /\ signature = [body |-> body, key |-> used])
    /\ watchedBody # None /\ setup.windowed =>
           /\ Stamp(watchedBody) # None
           /\ firstTaken - Stamp(watchedBody) \in -MaxSkew .. MaxSkew

CallbacksInv == CallbacksTypeOK /\ BodyStands /\ WordStands
=============================================================================
