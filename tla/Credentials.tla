----------------------------- MODULE Credentials -----------------------------
(***************************************************************************)
(* The credentials of the three planes a resource service mounts,          *)
(* together: access and opaque tokens, vendors' callbacks, peers'          *)
(* certificates.  A route accepts one of them (module Planes) and each     *)
(* authenticator keeps what it keeps to itself, so the service is their    *)
(* interleaving; a behaviour follows the requests of some of the planes.   *)
(***************************************************************************)
EXTENDS Tokens, Callbacks, EastWest

CONSTANT Following  \* the sets of planes whose requests a behaviour may follow

ASSUME FollowingAssumption == Following \subseteq SUBSET {"tokens", "callbacks", "eastwest"}

VARIABLE followed

credentialsVars == <<followed, tokensVars, callbacksVars, eastWestVars>>

CredentialsInit ==
    /\ followed \in Following
    /\ TokensInit /\ CallbacksInit /\ EastWestInit

CredentialsNext ==
    /\ UNCHANGED followed
    /\ \/ "tokens" \in followed /\ TokensNext /\ UNCHANGED <<callbacksVars, eastWestVars>>
       \/ "callbacks" \in followed /\ CallbacksNext /\ UNCHANGED <<tokensVars, eastWestVars>>
       \/ "eastwest" \in followed /\ EastWestNext /\ UNCHANGED <<tokensVars, callbacksVars>>

CredentialsSpec == CredentialsInit /\ [][CredentialsNext]_credentialsVars
-----------------------------------------------------------------------------
\* What each plane's verdicts rest on stands while the others work beside it:
\* the inductive invariant of each, its types among it.
IInv == TokensInv /\ CallbacksInv /\ EastWestInv
=============================================================================
