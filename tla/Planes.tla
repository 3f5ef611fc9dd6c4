------------------------------- MODULE Planes -------------------------------
(***************************************************************************)
(* Which credential opens which endpoint: the registry that mount() fills  *)
(* before a service starts (adapters/routing.py), the two checks that may  *)
(* refuse the start (verify_app and the middleware's verify), and the      *)
(* plane middleware that every request then meets (adapters/middleware.py, *)
(* planes.py).                                                             *)
(*                                                                         *)
(* The host wires its authenticators once (Init), mounts its routes one by *)
(* one, catching a refused mount or not, adds bare routes beside them, runs *)
(* the two checks in the order the middleware's docstring shows, and        *)
(* serves.  A path is a model value; what the code reads off its text (the *)
(* version segment, /.well-known/, /v<n>/ops/) is given by constants.      *)
(* HTTP methods and authenticator names are numbers, in the order sorted() *)
(* puts them.                                                              *)
(***************************************************************************)
EXTENDS Naturals, FiniteSets

CONSTANTS
    Path,        \* URI templates
    VersionOf,   \* the version segment of a path, or None
    WellKnown,   \* the paths under /.well-known/
    OpsPath,     \* the paths under /v<n>/ops/
    Exempt,      \* exempt_paths, the same for verify_app and the middleware
    Class,       \* resource classes
    Method,      \* HTTP methods, numbered alphabetically
    Name,        \* authenticator names, numbered alphabetically
    MethodOf,    \* how each authenticator checks: JWT, MTLS, HMAC, ...
    Mounts,      \* the mount() calls the host may make
    Bare,        \* the app.add_route() calls the host may make past mount()
    Wirings,     \* the sets of authenticators the host may supply
    MaxCalls,    \* bound on the mount() and add_route() calls of a run
    MaxPresented,\* bound on the credentials one request presents
    LateRoutes,  \* whether the host may still add a bare route while serving
    None

(***************************************************************************)
(* planes.py: five planes, the closed set of methods of each, and the      *)
(* methods the wrong-plane search may verify.                              *)
(***************************************************************************)
MethodsByPlane ==
    [ USER     |-> {"JWT"},
      CLIENT   |-> {"DPOP_PROOF", "REFERENCE_TOKEN", "ONE_SHOT_TOKEN"},
      SERVICE  |-> {"MTLS"},
      CALLBACK |-> {"HMAC", "ONE_SHOT_TOKEN"},
      PUBLIC   |-> {} ]

ResourceServicePlanes == DOMAIN MethodsByPlane \ {"CLIENT"}

SearchableMethods == {"JWT", "MTLS"}

\* PLANE_BY_METHOD: over a resource service's planes every method has one.
PlaneOf(n) ==
    CHOOSE plane \in ResourceServicePlanes : MethodOf[n] \in MethodsByPlane[plane]

Admissible(plane) ==
    CASE plane = "USER"    -> {"CUSTOMER", "OPERATOR"}
      [] plane = "SERVICE" -> {"SERVICE"}
      [] OTHER             -> {}

ActorType == {"CUSTOMER", "OPERATOR", "SERVICE"}

\* actor_types=None, beside the sets of actor types.
Undeclared == {None}

(***************************************************************************)
(* A declaration is what one mount() call says of its route; the registry  *)
(* keeps it, for each method, as the Registration of that endpoint.        *)
(***************************************************************************)
Declaration ==
    [path : Path, class : Class, methods : SUBSET Method, plane : STRING,
     reason : BOOLEAN, credential : Name \cup {None},
     actors : SUBSET (ActorType \cup {None}), alias : Path \cup {None}]

Endpoint == Method \X Path

ASSUME PlanesAssumption ==
    /\ Method \subseteq Nat
    /\ Name \subseteq Nat
    /\ None \notin Nat \cup Path \cup ActorType
    /\ MethodOf \in [Name -> {"JWT", "MTLS", "HMAC", "ONE_SHOT_TOKEN"}]
    /\ \A p \in WellKnown : VersionOf[p] = None
    /\ Mounts \subseteq Declaration
    /\ Bare \subseteq [path : Path, class : Class, methods : (SUBSET Method) \ {{}}]
    /\ Wirings \subseteq SUBSET Name
    /\ MaxCalls \in Nat
    /\ LateRoutes \in BOOLEAN

VARIABLES
    rows,          \* PlaneRegistry._by_endpoint
    classPlane,    \* PlaneRegistry._by_class: the plane each class is pinned to
    classVersion,  \* PlaneRegistry._version_by_class
    app,           \* the router: what answers at each path, or None
    wired,         \* the authenticators the middleware was built with
    phase,         \* mounting, swept (verify_app passed), serving, refused
    calls,         \* mount() and add_route() calls so far
    answer         \* the last request, and how it was answered

vars == <<rows, classPlane, classVersion, app, wired, phase, calls, answer>>

NoAnswer == [kind |-> "none"]

Init ==
    /\ rows = << >>
    /\ classPlane = << >>
    /\ classVersion = << >>
    /\ app = [p \in Path |-> None]
    /\ wired \in Wirings
    /\ phase = "mounting"
    /\ calls = 0
    /\ answer = NoAnswer

(***************************************************************************)
(* register(): the rules a declaration must keep, one operator each, for   *)
(* the endpoint (m, d.path).                                               *)
(***************************************************************************)
StrayActors(d) ==
    /\ d.actors # Undeclared
    /\ \/ d.actors = {}
       \/ ~(d.actors \subseteq Admissible(d.plane))
       \/ d.actors = {"OPERATOR"} /\ d.path \notin OpsPath

PublicUnstated(d) ==
    d.plane = "PUBLIC" /\ (d.credential # None \/ ~d.reason)

Unversioned(d) == VersionOf[d.path] = None /\ d.path \notin WellKnown

\* A mutant of the next: the twin is compared if it happens to be mounted.
NoAliasLate(d, m) ==
    \/ d.plane # "CALLBACK"
    \/ VersionOf[d.path] # None
    \/ /\ <<m, d.alias>> \in DOMAIN rows
       /\ LET twin == rows[<<m, d.alias>>] IN
             \/ twin.plane # "CALLBACK" \/ twin.alias # None
             \/ twin.class # d.class \/ twin.credential # d.credential

\* _check_alias: a callback's unversioned URL, beside a twin mounted first.
NoAlias(d, m) ==
    \/ d.plane # "CALLBACK"
    \/ VersionOf[d.path] # None
    \/ <<m, d.alias>> \notin DOMAIN rows
    \/ LET twin == rows[<<m, d.alias>>] IN
          \/ twin.plane # "CALLBACK" \/ twin.alias # None
          \/ twin.class # d.class \/ twin.credential # d.credential

\* Mutants of the next rule: without the class's pin, without the endpoint's row.
OnlyEndpointPinned(d, m) ==
    <<m, d.path>> \in DOMAIN rows /\ rows[<<m, d.path>>].plane # d.plane

OnlyClassPinned(d, m) ==
    d.class \in DOMAIN classPlane /\ classPlane[d.class] # d.plane

OnAnotherPlane(d, m) ==
    \/ <<m, d.path>> \in DOMAIN rows /\ rows[<<m, d.path>>].plane # d.plane
    \/ d.class \in DOMAIN classPlane /\ classPlane[d.class] # d.plane

\* A mutant: the version rule only for first-party routes.
FirstPartyVersion(d) ==
    /\ d.plane = "USER"
    /\ d.class \in DOMAIN classVersion
    /\ classVersion[d.class] # VersionOf[d.path]

OnAnotherVersion(d) ==
    /\ VersionOf[d.path] # None
    /\ d.class \in DOMAIN classVersion
    /\ classVersion[d.class] # VersionOf[d.path]

Conflict(d, m) ==
    \/ d.plane \notin ResourceServicePlanes
    \/ StrayActors(d)
    \/ PublicUnstated(d)
    \/ IF d.alias = None THEN Unversioned(d) ELSE NoAlias(d, m)
    \/ OnAnotherPlane(d, m)
    \/ OnAnotherVersion(d)

\* dict.setdefault: the first value written under a key stays.
SetDefault(f, key, value) ==
    [k \in DOMAIN f \cup {key} |-> IF k \in DOMAIN f THEN f[k] ELSE value]

(***************************************************************************)
(* mount(): the methods are registered one by one, in order, and the route *)
(* is added only after the last.  A conflict on a later method leaves the  *)
(* earlier rows and the class's pins in the registry, and the app alone.   *)
(* A declaration whose first method conflicts changes nothing, as does a   *)
(* dev_only route where none may mount.                                    *)
(***************************************************************************)
Registered(d) ==
    {m \in d.methods : \A k \in d.methods : k <= m => ~Conflict(d, k)}

Mount(d) ==
    /\ phase = "mounting" /\ calls < MaxCalls
    /\ Registered(d) # {}
    /\ LET written == Registered(d) \X {d.path} IN
       rows' = [e \in DOMAIN rows \cup written |->
                    IF e \in written THEN d ELSE rows[e]]
    /\ classPlane' = SetDefault(classPlane, d.class, d.plane)
    /\ classVersion' = IF VersionOf[d.path] = None THEN classVersion
                       ELSE SetDefault(classVersion, d.class, VersionOf[d.path])
    /\ app' = IF Registered(d) = d.methods
              THEN [app EXCEPT ![d.path] = [class |-> d.class, methods |-> d.methods]]
              ELSE app
    /\ calls' = calls + 1
    /\ UNCHANGED <<wired, phase, answer>>

\* The framework's router keeps one resource per template: the last added.
AddRoute(r) ==
    /\ phase = "mounting" \/ (LateRoutes /\ phase = "serving")
    /\ calls < MaxCalls
    /\ app' = [app EXCEPT ![r.path] = [class |-> r.class, methods |-> r.methods]]
    /\ calls' = calls + 1
    /\ UNCHANGED <<rows, classPlane, classVersion, wired, phase, answer>>

(***************************************************************************)
(* The two boot checks.                                                    *)
(***************************************************************************)
Serves(m, p) == app[p] # None /\ m \in app[p].methods

\* A mutant: a path with any row is taken as mounted.
VerifyAppByPath ==
    /\ phase = "mounting"
    /\ phase' = IF \A m \in Method, p \in Path \ Exempt :
                       Serves(m, p) => \E k \in Method : <<k, p>> \in DOMAIN rows
                THEN "swept" ELSE "refused"
    /\ UNCHANGED <<rows, classPlane, classVersion, app, wired, calls, answer>>

VerifyApp ==
    /\ phase = "mounting"
    /\ phase' = IF \A m \in Method, p \in Path \ Exempt :
                       Serves(m, p) => <<m, p>> \in DOMAIN rows
                THEN "swept" ELSE "refused"
    /\ UNCHANGED <<rows, classPlane, classVersion, app, wired, calls, answer>>

\* _accepted: the authenticators that may open a row; exactly one, or a gap.
Accepted(row) ==
    {n \in wired : PlaneOf(n) = row.plane
                   /\ (row.credential = None \/ n = row.credential)}

Gap(row) == \A n \in wired : Accepted(row) # {n}

AdmitsNobody(row) == row.plane = "USER" /\ row.actors \in {Undeclared, {}}

\* A mutant: only a plane without an authenticator is a gap.
VerifyPlanes ==
    /\ phase = "swept"
    /\ phase' = IF \E e \in DOMAIN rows :
                       /\ rows[e].plane # "PUBLIC"
                       /\ \A n \in wired : PlaneOf(n) # rows[e].plane
                THEN "refused" ELSE "serving"
    /\ UNCHANGED <<rows, classPlane, classVersion, app, wired, calls, answer>>

Verify ==
    /\ phase = "swept"
    /\ phase' = IF \E e \in DOMAIN rows :
                       /\ rows[e].plane # "PUBLIC"
                       /\ AdmitsNobody(rows[e]) \/ Gap(rows[e])
                THEN "refused" ELSE "serving"
    /\ UNCHANGED <<rows, classPlane, classVersion, app, wired, calls, answer>>

(***************************************************************************)
(* A request: what each authenticator makes of it.  "hop" is the           *)
(* certificate of a forwarding hop, a caller on its own plane and          *)
(* transport in the search; "unchecked" a credential that could not be     *)
(* checked, for which the authenticator raises AuthzUnavailable.           *)
(***************************************************************************)
Outcome == {"absent", "valid", "hop", "invalid", "unchecked"}

Requests ==
    {seen \in [wired -> Outcome] :
        /\ Cardinality({n \in wired : seen[n] # "absent"}) <= MaxPresented
        /\ \A n \in wired : seen[n] = "hop" => MethodOf[n] = "MTLS"}

Searched(plane) ==
    {n \in wired : PlaneOf(n) # plane /\ MethodOf[n] \in SearchableMethods}

\* A mutant: an invalid credential does not end the search.
ForeignPastInvalid(plane, seen) ==
    {n \in Searched(plane) : seen[n] = "valid"}

\* _find_foreign_credential: in name order, past what is absent or transport;
\* the first other outcome ends the search, and only a valid one is foreign.
Foreign(plane, seen) ==
    {n \in Searched(plane) :
        /\ seen[n] = "valid"
        /\ \A k \in Searched(plane) : k < n => seen[k] \in {"absent", "hop"}}

\* What the router does once the hook has returned.
Falcon(m, p) == IF Serves(m, p) THEN "handler" ELSE "405"

ByCredential(m, p, n, seen, plane) ==
    CASE seen[n] \in {"valid", "hop"} -> Falcon(m, p)
      [] seen[n] = "invalid"          -> "401"
      [] seen[n] = "unchecked"        -> "503"
      [] seen[n] = "absent"           ->
            IF Foreign(plane, seen) # {} THEN "404" ELSE "401"

Answered(m, p, seen, kind, by) ==
    answer' = [endpoint |-> <<m, p>>, seen |-> seen, kind |-> kind, by |-> by]

\* What process_resource raises UnregisteredRoute for: a route without a row,
\* that is neither a probe nor another method of a known template; a row that
\* admits nobody, or without its one credential.
WiringError(m, p) ==
    IF <<m, p>> \in DOMAIN rows
    THEN LET row == rows[<<m, p>>] IN
         AdmitsNobody(row) \/ (row.plane # "PUBLIC" /\ Gap(row))
    ELSE p \notin Exempt /\ \A k \in Method : <<k, p>> \notin DOMAIN rows

AsksNothing(m, p) ==
    <<m, p>> \in DOMAIN rows => rows[<<m, p>>].plane = "PUBLIC"

\* process_resource, then the responder it lets through.  A request changes
\* nothing another one reads, so one is looked at per run (bound).
ProcessResource(m, p) ==
    /\ phase = "serving" /\ app[p] # None /\ answer = NoAnswer
    /\ \E seen \in Requests :
          IF WiringError(m, p) THEN Answered(m, p, seen, "500", None)
          ELSE IF AsksNothing(m, p) THEN Answered(m, p, seen, Falcon(m, p), None)
          ELSE LET row == rows[<<m, p>>] IN
               \E n \in Accepted(row) :
                   Answered(m, p, seen, ByCredential(m, p, n, seen, row.plane), n)
    /\ UNCHANGED <<rows, classPlane, classVersion, app, wired, phase, calls>>

Next ==
    \/ \E d \in Mounts : Mount(d)
    \/ \E r \in Bare : AddRoute(r)
    \/ VerifyApp
    \/ Verify
    \/ \E m \in Method, p \in Path : ProcessResource(m, p)

Spec == Init /\ [][Next]_vars
-----------------------------------------------------------------------------
(***************************************************************************)
(* Properties                                                              *)
(***************************************************************************)
Row == {d \in Declaration : d.plane \in ResourceServicePlanes}

Answer ==
    [endpoint : Endpoint, seen : UNION {[w -> Outcome] : w \in Wirings},
     kind : {"handler", "405", "401", "404", "500", "503"}, by : Name \cup {None}]

\* The registry, the router and the last answer are of their types.
TypeOK ==
    /\ DOMAIN rows \subseteq Endpoint
    /\ \A e \in DOMAIN rows : rows[e] \in Row
    /\ DOMAIN classPlane \subseteq Class
    /\ \A c \in DOMAIN classPlane : classPlane[c] \in ResourceServicePlanes
    /\ DOMAIN classVersion \subseteq Class
    /\ app \in [Path -> [class : Class, methods : (SUBSET Method) \ {{}}] \cup {None}]
    /\ wired \in Wirings
    /\ phase \in {"mounting", "swept", "serving", "refused"}
    /\ calls \in 0 .. MaxCalls
    /\ answer = NoAnswer \/ answer \in Answer

(***************************************************************************)
(* What makes a resource class pure: every row agrees with the pins of its *)
(* class, which register() reads and writes apart from the rows, whatever  *)
(* was refused half way, mounted again, or mounted on an unversioned path  *)
(* first.  The two rules it is for follow.                                 *)
(***************************************************************************)
RowsKeepPins ==
    \A e \in DOMAIN rows :
        LET row == rows[e] IN
        /\ row.path = e[2]
        /\ ~PublicUnstated(row)
        /\ row.class \in DOMAIN classPlane
        /\ row.plane = classPlane[row.class]
        /\ VersionOf[e[2]] # None =>
              /\ row.class \in DOMAIN classVersion
              /\ VersionOf[e[2]] = classVersion[row.class]

(***************************************************************************)
(* What the boot checks found stays so while the service runs, if no route *)
(* is added past them; and only a serving one answers.                     *)
(***************************************************************************)
SweptIsRegistered ==
    phase \in {"swept", "serving"} /\ ~LateRoutes =>
        \A m \in Method, p \in Path \ Exempt : Serves(m, p) => <<m, p>> \in DOMAIN rows

ServingHasNoGap ==
    phase = "serving" =>
        \A e \in DOMAIN rows :
            rows[e].plane # "PUBLIC" => ~AdmitsNobody(rows[e]) /\ ~Gap(rows[e])

OnlyServingAnswers == answer # NoAnswer => phase = "serving"

\* An endpoint outside the versioned paths and /.well-known/ is some vendor's old
\* URL, and whatever is mounted again after it, the endpoint it retires into stays
\* there, a callback's: mounted versioned, unless it is under /.well-known/.  (The
\* class and credential they agreed on when the alias was mounted may part.)
AliasHasTwin ==
    \A e \in DOMAIN rows :
        LET to == rows[e].alias IN
        IF to = None THEN VersionOf[e[2]] # None \/ e[2] \in WellKnown
        ELSE /\ VersionOf[e[2]] = None /\ rows[e].plane = "CALLBACK"
             /\ <<e[1], to>> \in DOMAIN rows
             /\ rows[<<e[1], to>>].plane = "CALLBACK"
             /\ VersionOf[to] # None \/ to \in WellKnown

IInv ==
    TypeOK /\ RowsKeepPins /\ SweptIsRegistered /\ ServingHasNoGap /\ OnlyServingAnswers

\* One resource class serves one plane and one API version (C-006): Falcon
\* binds an instance that answers many endpoints, and nothing else would
\* notice when one of them is on another plane.
ClassPurity ==
    \A e, f \in DOMAIN rows :
        rows[e].class = rows[f].class =>
            /\ rows[e].plane = rows[f].plane
            /\ VersionOf[e[2]] = None \/ VersionOf[f[2]] = None
               \/ VersionOf[e[2]] = VersionOf[f[2]]

\* No call moves an endpoint to another plane, nor forgets it: a route that
\* is mounted again, or whose remount is refused half way, keeps the plane
\* under which its callers were told apart.
EndpointPlaneIsFinal ==
    [][\A e \in DOMAIN rows :
          e \in DOMAIN rows' /\ rows'[e].plane = rows[e].plane]_vars

\* Where no route is added after the boot checks, a handler runs only for a
\* caller whose one declared credential, on the route's own plane, was
\* present and valid; or on a PUBLIC route with a stated reason; or for a
\* probe that was never registered.
NothingRunsUnproven ==
    answer.kind = "handler" =>
        LET e == answer.endpoint IN
        IF e \notin DOMAIN rows THEN e[2] \in Exempt
        ELSE \/ rows[e].plane = "PUBLIC" /\ rows[e].reason
             \/ /\ answer.by \in wired
                /\ answer.seen[answer.by] \in {"valid", "hop"}
                /\ rows[e].credential \in {None, answer.by}
                /\ \A n \in wired : PlaneOf(n) = rows[e].plane =>
                       n = answer.by \/ rows[e].credential = answer.by
                /\ rows[e].plane = "USER" => rows[e].actors \notin {Undeclared, {}}

\* A service that both checks let start answers no request with a wiring
\* error: what process_resource would refuse on the first request to a route
\* is found at boot.
BootLeavesNothingToFind == answer.kind # "500"

\* The answer of a router miss to a mounted endpoint: only for a caller whose
\* credential for the endpoint is absent, and who holds a valid JWT or
\* certificate of another plane, past nothing but absent credentials and
\* forwarding hops.  What needs a lookup, or did not verify, is no mismatch.
MismatchIsForeign ==
    answer.kind = "404" =>
        LET plane == rows[answer.endpoint].plane
            Secondary(n) == PlaneOf(n) # plane /\ MethodOf[n] \in {"JWT", "MTLS"}
        IN  /\ answer.seen[answer.by] = "absent"
            /\ \E n \in wired :
                  /\ Secondary(n) /\ answer.seen[n] = "valid"
                  /\ \A k \in wired : k < n /\ Secondary(k) =>
                         answer.seen[k] \notin {"invalid", "unchecked", "valid"}

\* A route unknown to the registry is refused per request, unless it is a
\* probe (the docstring of plane_of).
UnregisteredIsRefused ==
    answer.kind = "handler" /\ answer.endpoint \notin DOMAIN rows =>
        answer.endpoint[2] \in Exempt
=============================================================================
