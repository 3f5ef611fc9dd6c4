---------------------------- MODULE PlanesProofs ----------------------------
(***************************************************************************)
(* Proofs about Planes: class purity, the finality of an endpoint's plane, *)
(* and what a request meets once the boot checks have passed, for any      *)
(* paths, classes, declarations and authenticators.                        *)
(***************************************************************************)
EXTENDS Planes, TLAPS

\* What a method that got registered did not conflict with.
LEMMA RegisteredFacts ==
    ASSUME TypeOK, PlanesAssumption, NEW d \in Mounts, NEW m \in Registered(d)
    PROVE  /\ d \in Row /\ m \in Method /\ d.path \in Path /\ d.class \in Class
           /\ ~PublicUnstated(d)
           /\ <<m, d.path>> \in DOMAIN rows => rows[<<m, d.path>>].plane = d.plane
           /\ d.class \in DOMAIN classPlane => classPlane[d.class] = d.plane
           /\ VersionOf[d.path] # None /\ d.class \in DOMAIN classVersion =>
                  classVersion[d.class] = VersionOf[d.path]
<1>1. m \in d.methods /\ m \in Method /\ d \in Declaration
  BY DEF Registered, PlanesAssumption, Declaration
<1>2. m <= m
  BY <1>1 DEF PlanesAssumption
<1>3. ~Conflict(d, m)
  BY <1>1, <1>2 DEF Registered
<1>4. d.plane \in ResourceServicePlanes /\ ~PublicUnstated(d)
  BY <1>3 DEF Conflict
<1>5. d \in Row /\ d.path \in Path /\ d.class \in Class
  BY <1>1, <1>4 DEF Row, Declaration
<1>6. ~OnAnotherPlane(d, m) /\ ~OnAnotherVersion(d)
  BY <1>3 DEF Conflict
<1> QED
  BY <1>1, <1>4, <1>5, <1>6 DEF OnAnotherPlane, OnAnotherVersion

LEMMA MountRows ==
    ASSUME TypeOK, PlanesAssumption, NEW d \in Mounts, Mount(d)
    PROVE  /\ DOMAIN rows \subseteq DOMAIN rows'
           /\ \A e \in DOMAIN rows' :
                 \/ e \in DOMAIN rows /\ rows'[e] = rows[e]
                 \/ /\ \E m \in Registered(d) : e = <<m, d.path>>
                    /\ rows'[e] = d
BY DEF Mount

-----------------------------------------------------------------------------
LEMMA MountType ==
    ASSUME TypeOK, PlanesAssumption, NEW d \in Mounts, Mount(d)
    PROVE  TypeOK'
<1>1. PICK m \in Registered(d) : TRUE
  BY DEF Mount
<1>2. d \in Row /\ d.path \in Path /\ d.class \in Class
      /\ d.plane \in ResourceServicePlanes /\ d.methods \subseteq Method
  BY <1>1, RegisteredFacts DEF Row, Declaration
<1>3. ASSUME NEW e \in DOMAIN rows' PROVE e \in Endpoint /\ rows'[e] \in Row
  <2>1. CASE e \in DOMAIN rows /\ rows'[e] = rows[e]
    BY <2>1 DEF TypeOK
  <2>2. CASE (\E k \in Registered(d) : e = <<k, d.path>>) /\ rows'[e] = d
    BY <1>2, <2>2 DEF Registered, Endpoint
  <2> QED
    BY <2>1, <2>2, MountRows
<1>4. DOMAIN classPlane' \subseteq Class
      /\ \A c \in DOMAIN classPlane' : classPlane'[c] \in ResourceServicePlanes
  BY <1>2 DEF Mount, TypeOK, SetDefault
<1>5. DOMAIN classVersion' \subseteq Class
  BY <1>2 DEF Mount, TypeOK, SetDefault
<1>6. app' \in [Path -> [class : Class, methods : (SUBSET Method) \ {{}}] \cup {None}]
  <2>1. [class |-> d.class, methods |-> d.methods]
            \in [class : Class, methods : (SUBSET Method) \ {{}}]
    BY <1>1, <1>2 DEF Registered
  <2>2. app \in [Path -> [class : Class, methods : (SUBSET Method) \ {{}}] \cup {None}]
    BY DEF TypeOK
  <2> QED
    BY <2>1, <2>2 DEF Mount
<1>7. calls' \in 0 .. MaxCalls
  BY DEF Mount, TypeOK, PlanesAssumption
<1> QED
  BY <1>3, <1>4, <1>5, <1>6, <1>7 DEF TypeOK, Mount

LEMMA AddRouteType ==
    ASSUME TypeOK, PlanesAssumption, NEW r \in Bare, AddRoute(r)
    PROVE  TypeOK'
<1>1. r.path \in Path
      /\ [class |-> r.class, methods |-> r.methods] \in [class : Class, methods : (SUBSET Method) \ {{}}]
  BY DEF PlanesAssumption
<1>2. app \in [Path -> [class : Class, methods : (SUBSET Method) \ {{}}] \cup {None}]
  BY DEF TypeOK
<1>3. app' \in [Path -> [class : Class, methods : (SUBSET Method) \ {{}}] \cup {None}]
  BY <1>1, <1>2 DEF AddRoute
<1>4. calls' \in 0 .. MaxCalls
  BY DEF AddRoute, TypeOK, PlanesAssumption
<1> QED
  BY <1>3, <1>4 DEF TypeOK, AddRoute

LEMMA RequestFacts ==
    ASSUME TypeOK, PlanesAssumption, NEW seen \in Requests
    PROVE  seen \in [wired -> Outcome]
           /\ seen \in UNION {[w -> Outcome] : w \in Wirings}
BY DEF Requests, TypeOK

LEMMA ByCredentialType ==
    ASSUME NEW m, NEW p, NEW n \in wired, NEW plane, NEW seen \in [wired -> Outcome]
    PROVE  /\ ByCredential(m, p, n, seen, plane) \in {"handler", "405", "401", "404", "503"}
           /\ ByCredential(m, p, n, seen, plane) = "handler" => seen[n] \in {"valid", "hop"}
<1>1. seen[n] \in Outcome
  OBVIOUS
<1>2. CASE seen[n] \in {"valid", "hop"}
  BY <1>2 DEF ByCredential, Falcon
<1>3. CASE seen[n] = "invalid"
  BY <1>3 DEF ByCredential
<1>4. CASE seen[n] = "unchecked"
  BY <1>4 DEF ByCredential
<1>5. CASE seen[n] = "absent"
  BY <1>5 DEF ByCredential
<1> QED
  BY <1>1, <1>2, <1>3, <1>4, <1>5 DEF Outcome

LEMMA AnswerType ==
    ASSUME TypeOK, PlanesAssumption, NEW m \in Method, NEW p \in Path, ProcessResource(m, p)
    PROVE  answer' \in Answer /\ answer' # NoAnswer
<1>1. PICK seen \in Requests :
          IF WiringError(m, p) THEN Answered(m, p, seen, "500", None)
          ELSE IF AsksNothing(m, p) THEN Answered(m, p, seen, Falcon(m, p), None)
          ELSE LET row == rows[<<m, p>>] IN
               \E n \in Accepted(row) :
                   Answered(m, p, seen, ByCredential(m, p, n, seen, row.plane), n)
  BY DEF ProcessResource
<1>2. PICK kind \in {"handler", "405", "401", "404", "500", "503"}, by \in Name \cup {None} :
          answer' = [endpoint |-> <<m, p>>, seen |-> seen, kind |-> kind, by |-> by]
  <2>1. CASE WiringError(m, p)
    BY <1>1, <2>1 DEF Answered
  <2>2. CASE ~WiringError(m, p) /\ AsksNothing(m, p)
    <3>1. Falcon(m, p) \in {"handler", "405"}
      BY DEF Falcon
    <3>2. answer' = [endpoint |-> <<m, p>>, seen |-> seen, kind |-> Falcon(m, p), by |-> None]
      BY <1>1, <2>2 DEF Answered
    <3> QED
      BY <3>1, <3>2
  <2>3. CASE ~WiringError(m, p) /\ ~AsksNothing(m, p)
    <3> DEFINE verdict(n) == ByCredential(m, p, n, seen, rows[<<m, p>>].plane)
    <3>1. PICK n \in Accepted(rows[<<m, p>>]) :
              answer' = [endpoint |-> <<m, p>>, seen |-> seen, kind |-> verdict(n), by |-> n]
      BY <1>1, <2>3 DEF Answered
    <3>2. n \in wired /\ n \in Name
      BY DEF Accepted, TypeOK, PlanesAssumption
    <3>3. verdict(n) \in {"handler", "405", "401", "404", "503"}
      BY <3>2, RequestFacts, ByCredentialType
    <3> HIDE DEF verdict
    <3> QED
      BY <3>1, <3>2, <3>3
  <2> QED
    BY <2>1, <2>2, <2>3
<1>4. answer' \in Answer
  BY <1>2, RequestFacts DEF Answer, Endpoint
<1>5. answer'.kind # NoAnswer.kind
  BY <1>2 DEF NoAnswer
<1> QED
  BY <1>4, <1>5

LEMMA TypeStep ==
    ASSUME TypeOK, PlanesAssumption, [Next]_vars
    PROVE  TypeOK'
<1>1. ASSUME NEW d \in Mounts, Mount(d) PROVE TypeOK'
  BY <1>1, MountType
<1>2. ASSUME NEW r \in Bare, AddRoute(r) PROVE TypeOK'
  BY <1>2, AddRouteType
<1>3. CASE VerifyApp
  BY <1>3 DEF TypeOK, VerifyApp
<1>4. CASE Verify
  BY <1>4 DEF TypeOK, Verify
<1>5. ASSUME NEW m \in Method, NEW p \in Path, ProcessResource(m, p) PROVE TypeOK'
  BY <1>5, AnswerType DEF TypeOK, ProcessResource
<1>6. CASE UNCHANGED vars
  BY <1>6 DEF TypeOK, vars
<1> QED
  BY <1>1, <1>2, <1>3, <1>4, <1>5, <1>6 DEF Next

-----------------------------------------------------------------------------
\* The registry.

LEMMA MountKeepsPins ==
    ASSUME TypeOK, RowsKeepPins, PlanesAssumption, NEW d \in Mounts, Mount(d)
    PROVE  RowsKeepPins'
<1> SUFFICES ASSUME NEW e \in DOMAIN rows'
             PROVE  /\ rows'[e].path = e[2]
                    /\ ~PublicUnstated(rows'[e])
                    /\ rows'[e].class \in DOMAIN classPlane'
                    /\ rows'[e].plane = classPlane'[rows'[e].class]
                    /\ VersionOf[e[2]] # None =>
                          /\ rows'[e].class \in DOMAIN classVersion'
                          /\ VersionOf[e[2]] = classVersion'[rows'[e].class]
  BY DEF RowsKeepPins, PublicUnstated
<1>1. classPlane' = SetDefault(classPlane, d.class, d.plane)
  BY DEF Mount
<1>2. classVersion' = IF VersionOf[d.path] = None THEN classVersion
                      ELSE SetDefault(classVersion, d.class, VersionOf[d.path])
  BY DEF Mount
<1>3. CASE e \in DOMAIN rows /\ rows'[e] = rows[e]
  <2>1. /\ rows[e].path = e[2] /\ ~PublicUnstated(rows[e])
        /\ rows[e].class \in DOMAIN classPlane
        /\ rows[e].plane = classPlane[rows[e].class]
        /\ VersionOf[e[2]] # None =>
              /\ rows[e].class \in DOMAIN classVersion
              /\ VersionOf[e[2]] = classVersion[rows[e].class]
    BY <1>3 DEF RowsKeepPins
  <2>2. /\ rows[e].class \in DOMAIN classPlane'
        /\ rows[e].plane = classPlane'[rows[e].class]
    BY <1>1, <2>1 DEF SetDefault
  <2>3. VersionOf[e[2]] # None =>
              /\ rows[e].class \in DOMAIN classVersion'
              /\ VersionOf[e[2]] = classVersion'[rows[e].class]
    BY <1>2, <2>1 DEF SetDefault
  <2> QED
    BY <1>3, <2>1, <2>2, <2>3
<1>4. CASE (\E m \in Registered(d) : e = <<m, d.path>>) /\ rows'[e] = d
  <2>1. PICK m \in Registered(d) : e = <<m, d.path>>
    BY <1>4
  <2>2. ~PublicUnstated(d) /\ e[2] = d.path
    BY <2>1, RegisteredFacts
  <2>3. d.class \in DOMAIN classPlane' /\ classPlane'[d.class] = d.plane
    BY <1>1, <2>1, RegisteredFacts DEF SetDefault
  <2>4. VersionOf[d.path] # None =>
            d.class \in DOMAIN classVersion' /\ classVersion'[d.class] = VersionOf[d.path]
    BY <1>2, <2>1, RegisteredFacts DEF SetDefault
  <2> QED
    BY <1>4, <2>2, <2>3, <2>4
<1> QED
  BY <1>3, <1>4, MountRows

LEMMA PinsStep ==
    ASSUME TypeOK, RowsKeepPins, PlanesAssumption, [Next]_vars
    PROVE  RowsKeepPins'
<1>1. ASSUME NEW d \in Mounts, Mount(d) PROVE RowsKeepPins'
  BY <1>1, MountKeepsPins
<1>2. CASE UNCHANGED <<rows, classPlane, classVersion>>
  BY <1>2 DEF RowsKeepPins, PublicUnstated
<1> QED
  BY <1>1, <1>2 DEF Next, AddRoute, VerifyApp, Verify, ProcessResource, vars

LEMMA MountKeepsPlane ==
    ASSUME TypeOK, PlanesAssumption, NEW d \in Mounts, Mount(d), NEW e \in DOMAIN rows
    PROVE  e \in DOMAIN rows' /\ rows'[e].plane = rows[e].plane
<1>1. e \in DOMAIN rows'
  BY MountRows
<1>2. CASE rows'[e] = rows[e]
  BY <1>1, <1>2
<1>3. CASE (\E m \in Registered(d) : e = <<m, d.path>>) /\ rows'[e] = d
  BY <1>1, <1>3, RegisteredFacts
<1> QED
  BY <1>1, <1>2, <1>3, MountRows

LEMMA MountKeepsTwins ==
    ASSUME TypeOK, AliasHasTwin, PlanesAssumption, NEW d \in Mounts, Mount(d)
    PROVE  AliasHasTwin'
<1> SUFFICES ASSUME NEW e \in DOMAIN rows'
             PROVE  LET to == rows'[e].alias IN
                    IF to = None THEN VersionOf[e[2]] # None \/ e[2] \in WellKnown
                    ELSE /\ VersionOf[e[2]] = None /\ rows'[e].plane = "CALLBACK"
                         /\ <<e[1], to>> \in DOMAIN rows'
                         /\ rows'[<<e[1], to>>].plane = "CALLBACK"
                         /\ VersionOf[to] # None \/ to \in WellKnown
  BY DEF AliasHasTwin
<1>1. CASE e \in DOMAIN rows /\ rows'[e] = rows[e]
  BY <1>1, MountKeepsPlane DEF AliasHasTwin
<1>2. CASE (\E m \in Registered(d) : e = <<m, d.path>>) /\ rows'[e] = d
  <2>1. PICK m \in Registered(d) : e = <<m, d.path>>
    BY <1>2
  <2>2. m \in Method
    BY <2>1, RegisteredFacts
  <2>3. ~Conflict(d, m)
    <3>1. m <= m
      BY <2>2 DEF PlanesAssumption
    <3> QED
      BY <2>1, <3>1 DEF Registered
  <2>4. CASE d.alias = None
    BY <1>2, <2>1, <2>3, <2>4 DEF Conflict, Unversioned
  <2>5. CASE d.alias # None
    <3>1. ~NoAlias(d, m)
      BY <2>3, <2>5 DEF Conflict
    <3>2. /\ <<m, d.alias>> \in DOMAIN rows
          /\ rows[<<m, d.alias>>].plane = "CALLBACK"
          /\ rows[<<m, d.alias>>].alias = None
          /\ d.plane = "CALLBACK" /\ VersionOf[d.path] = None
      BY <3>1 DEF NoAlias
    <3>3. VersionOf[d.alias] # None \/ d.alias \in WellKnown
      BY <3>2 DEF AliasHasTwin
    <3>4. <<m, d.alias>> \in DOMAIN rows' /\ rows'[<<m, d.alias>>].plane = "CALLBACK"
      BY <3>2, MountKeepsPlane
    <3> QED
      BY <1>2, <2>1, <2>5, <3>2, <3>3, <3>4
  <2> QED
    BY <2>4, <2>5
<1> QED
  BY <1>1, <1>2, MountRows

-----------------------------------------------------------------------------
\* The boot checks.

LEMMA BootStep ==
    ASSUME IInv, PlanesAssumption, [Next]_vars
    PROVE  SweptIsRegistered' /\ ServingHasNoGap' /\ OnlyServingAnswers'
<1> USE DEF IInv
<1>1. ASSUME NEW d \in Mounts, Mount(d)
      PROVE  SweptIsRegistered' /\ ServingHasNoGap' /\ OnlyServingAnswers'
  BY <1>1 DEF Mount, SweptIsRegistered, ServingHasNoGap, OnlyServingAnswers
<1>2. ASSUME NEW r \in Bare, AddRoute(r)
      PROVE  SweptIsRegistered' /\ ServingHasNoGap' /\ OnlyServingAnswers'
  BY <1>2 DEF AddRoute, SweptIsRegistered, ServingHasNoGap, OnlyServingAnswers,
              AdmitsNobody, Gap, Accepted
<1>3. CASE VerifyApp
  BY <1>3 DEF VerifyApp, SweptIsRegistered, ServingHasNoGap, OnlyServingAnswers, Serves
<1>4. CASE Verify
  <2>1. SweptIsRegistered'
    BY <1>4 DEF Verify, SweptIsRegistered, Serves
  <2>2. ServingHasNoGap'
    BY <1>4 DEF Verify, ServingHasNoGap, AdmitsNobody, Gap, Accepted
  <2> QED
    BY <1>4, <2>1, <2>2 DEF Verify, OnlyServingAnswers
<1>5. ASSUME NEW m \in Method, NEW p \in Path, ProcessResource(m, p)
      PROVE  SweptIsRegistered' /\ ServingHasNoGap' /\ OnlyServingAnswers'
  BY <1>5 DEF ProcessResource, SweptIsRegistered, ServingHasNoGap, OnlyServingAnswers,
              Serves, AdmitsNobody, Gap, Accepted
<1>6. CASE UNCHANGED vars
  <2>1. SweptIsRegistered' /\ OnlyServingAnswers'
    BY <1>6 DEF vars, SweptIsRegistered, OnlyServingAnswers, Serves
  <2>2. ServingHasNoGap'
    BY <1>6 DEF vars, ServingHasNoGap, AdmitsNobody, Gap, Accepted, PlaneOf
  <2> QED
    BY <2>1, <2>2
<1> QED
  BY <1>1, <1>2, <1>3, <1>4, <1>5, <1>6 DEF Next

LEMMA InitIInv ==
    ASSUME PlanesAssumption, Init
    PROVE  IInv
BY DEF Init, PlanesAssumption, IInv, TypeOK, RowsKeepPins, SweptIsRegistered, ServingHasNoGap,
       OnlyServingAnswers, NoAnswer

LEMMA IInvStep ==
    ASSUME PlanesAssumption, IInv, [Next]_vars
    PROVE  IInv'
BY TypeStep, PinsStep, BootStep DEF IInv

\* The inductive invariant: every row agrees with the pins of its class, and
\* what the boot checks found stays so while the service runs.
THEOREM Invariance == Spec => []IInv
<1>1. Init => IInv
  BY InitIInv, PlanesAssumption
<1>2. IInv /\ [Next]_vars => IInv'
  BY IInvStep, PlanesAssumption
<1> QED
  BY <1>1, <1>2, PTL DEF Spec

\* One resource class serves one plane and one API version.
THEOREM Purity == Spec => []ClassPurity
<1>1. IInv => ClassPurity
  BY DEF IInv, RowsKeepPins, ClassPurity
<1> QED
  BY <1>1, Invariance, PTL

\* No call of the host moves an endpoint to another plane, or forgets it.
THEOREM PlaneIsFinal == Spec => EndpointPlaneIsFinal
<1>1. ASSUME IInv, [Next]_vars, NEW e \in DOMAIN rows
      PROVE  e \in DOMAIN rows' /\ rows'[e].plane = rows[e].plane
  <2>1. ASSUME NEW d \in Mounts, Mount(d)
        PROVE  e \in DOMAIN rows' /\ rows'[e].plane = rows[e].plane
    BY <1>1, <2>1, PlanesAssumption, MountKeepsPlane DEF IInv
  <2>2. CASE UNCHANGED rows
    BY <2>2
  <2> QED
    BY <1>1, <2>1, <2>2 DEF Next, AddRoute, VerifyApp, Verify, ProcessResource, vars
<1>2. IInv /\ [Next]_vars =>
          [\A e \in DOMAIN rows : e \in DOMAIN rows' /\ rows'[e].plane = rows[e].plane]_vars
  BY <1>1
<1> QED
  BY <1>2, Invariance, PTL DEF Spec, EndpointPlaneIsFinal

\* A vendor's old URL keeps the callback it retires into, whatever is mounted later.
THEOREM AliasesKeepTheirTwin == Spec => []AliasHasTwin
<1>1. Init => AliasHasTwin
  BY DEF Init, AliasHasTwin
<1>2. IInv /\ AliasHasTwin /\ [Next]_vars => AliasHasTwin'
  <2> SUFFICES ASSUME IInv, AliasHasTwin, [Next]_vars PROVE AliasHasTwin'
    OBVIOUS
  <2>1. ASSUME NEW d \in Mounts, Mount(d) PROVE AliasHasTwin'
    BY <2>1, MountKeepsTwins, PlanesAssumption DEF IInv
  <2>2. CASE UNCHANGED rows
    BY <2>2 DEF AliasHasTwin
  <2> QED
    BY <2>1, <2>2 DEF Next, AddRoute, VerifyApp, Verify, ProcessResource, vars
<1> QED
  BY <1>1, <1>2, Invariance, PTL DEF Spec

-----------------------------------------------------------------------------
\* What a request meets.

LEMMA ServedIsProven ==
    ASSUME IInv, PlanesAssumption, ~LateRoutes,
           NEW m \in Method, NEW p \in Path, ProcessResource(m, p)
    PROVE  NothingRunsUnproven' /\ BootLeavesNothingToFind'
<1> DEFINE e == <<m, p>>
<1>1. TypeOK /\ RowsKeepPins /\ SweptIsRegistered /\ ServingHasNoGap
      /\ phase = "serving" /\ app[p] # None /\ UNCHANGED <<rows, app, wired>>
  BY DEF IInv, ProcessResource
<1>2. PICK seen \in Requests :
          IF WiringError(m, p) THEN Answered(m, p, seen, "500", None)
          ELSE IF AsksNothing(m, p) THEN Answered(m, p, seen, Falcon(m, p), None)
          ELSE LET row == rows[<<m, p>>] IN
               \E n \in Accepted(row) :
                   Answered(m, p, seen, ByCredential(m, p, n, seen, row.plane), n)
  BY DEF ProcessResource
<1>3. seen \in [wired -> Outcome]
  BY <1>1, RequestFacts
<1>4. e \in DOMAIN rows => ~AdmitsNobody(rows[e]) /\ (rows[e].plane # "PUBLIC" => ~Gap(rows[e]))
  BY <1>1 DEF ServingHasNoGap, AdmitsNobody
<1>5. CASE WiringError(m, p)
  <2>1. p \notin Exempt /\ \A k \in Method : <<k, p>> \notin DOMAIN rows
    BY <1>4, <1>5 DEF WiringError
  <2>2. PICK k \in Method : Serves(k, p)
    <3>1. app[p] \in [class : Class, methods : (SUBSET Method) \ {{}}]
      BY <1>1 DEF TypeOK
    <3>2. PICK k \in app[p].methods : k \in Method
      BY <3>1
    <3> QED
      BY <1>1, <3>2 DEF Serves
  <2>3. <<k, p>> \in DOMAIN rows
    BY <1>1, <2>1, <2>2 DEF SweptIsRegistered
  <2> QED
    BY <2>1, <2>3
<1>6. CASE ~WiringError(m, p) /\ AsksNothing(m, p)
  <2>1. answer' = [endpoint |-> e, seen |-> seen, kind |-> Falcon(m, p), by |-> None]
    BY <1>2, <1>6 DEF Answered
  <2>2. Falcon(m, p) # "500" /\ (Falcon(m, p) = "handler" => Serves(m, p))
    BY DEF Falcon
  <2>3. e \notin DOMAIN rows /\ Serves(m, p) => p \in Exempt
    BY <1>1 DEF SweptIsRegistered
  <2>4. e \in DOMAIN rows => rows[e].plane = "PUBLIC" /\ rows[e].reason
    BY <1>1, <1>6 DEF AsksNothing, RowsKeepPins, PublicUnstated
  <2> QED
    BY <1>1, <2>1, <2>2, <2>3, <2>4 DEF NothingRunsUnproven, BootLeavesNothingToFind
<1>7. CASE ~WiringError(m, p) /\ ~AsksNothing(m, p)
  <2>1. e \in DOMAIN rows /\ rows[e].plane # "PUBLIC"
    BY <1>7 DEF AsksNothing
  <2>2. PICK n \in Accepted(rows[e]) :
            Answered(m, p, seen, ByCredential(m, p, n, seen, rows[e].plane), n)
    BY <1>2, <1>7
  <2>3. PICK k \in wired : Accepted(rows[e]) = {k}
    BY <1>4, <2>1 DEF Gap
  <2>4. n = k /\ n \in wired /\ PlaneOf(n) = rows[e].plane /\ rows[e].credential \in {None, n}
    BY <2>2, <2>3 DEF Accepted
  <2>5. \A j \in wired : PlaneOf(j) = rows[e].plane => j = n \/ rows[e].credential = n
    BY <2>3, <2>4 DEF Accepted
  <2>6. /\ answer'.endpoint = e /\ answer'.seen = seen /\ answer'.by = n
        /\ answer'.kind # "500"
        /\ answer'.kind = "handler" => seen[n] \in {"valid", "hop"}
    BY <1>3, <2>2, <2>4, ByCredentialType DEF Answered
  <2>7. rows[e].plane = "USER" => rows[e].actors \notin {Undeclared, {}}
    BY <1>4, <2>1 DEF AdmitsNobody
  <2>8. NothingRunsUnproven'
    BY <1>1, <2>1, <2>4, <2>5, <2>6, <2>7 DEF NothingRunsUnproven, PlaneOf
  <2> QED
    BY <2>6, <2>8 DEF BootLeavesNothingToFind
<1> QED
  BY <1>5, <1>6, <1>7 DEF WiringError

LEMMA ProvenStep ==
    ASSUME IInv, PlanesAssumption, ~LateRoutes, NothingRunsUnproven, BootLeavesNothingToFind,
           [Next]_vars
    PROVE  NothingRunsUnproven' /\ BootLeavesNothingToFind'
<1>1. ASSUME NEW m \in Method, NEW p \in Path, ProcessResource(m, p)
      PROVE  NothingRunsUnproven' /\ BootLeavesNothingToFind'
  BY <1>1, ServedIsProven
<1>2. ASSUME NEW d \in Mounts, Mount(d)
      PROVE  NothingRunsUnproven' /\ BootLeavesNothingToFind'
  <2>1. answer' = NoAnswer
    BY <1>2 DEF IInv, OnlyServingAnswers, Mount
  <2> QED
    BY <2>1 DEF NothingRunsUnproven, BootLeavesNothingToFind, NoAnswer
<1>3. CASE UNCHANGED <<rows, wired, answer>>
  BY <1>3 DEF NothingRunsUnproven, BootLeavesNothingToFind, PlaneOf
<1> QED
  BY <1>1, <1>2, <1>3 DEF Next, AddRoute, VerifyApp, Verify, vars

\* With no route added past the boot checks, no handler runs for a caller
\* who has not proved what its route declares, and no request finds a wiring
\* error that the checks let through.
THEOREM ServiceIsProven ==
    ~LateRoutes => (Spec => [](NothingRunsUnproven /\ BootLeavesNothingToFind))
<1> SUFFICES ASSUME ~LateRoutes
             PROVE  Spec => [](NothingRunsUnproven /\ BootLeavesNothingToFind)
  OBVIOUS
<1>1. Init => NothingRunsUnproven /\ BootLeavesNothingToFind
  BY DEF Init, NoAnswer, NothingRunsUnproven, BootLeavesNothingToFind
<1>2. IInv /\ NothingRunsUnproven /\ BootLeavesNothingToFind /\ [Next]_vars =>
          NothingRunsUnproven' /\ BootLeavesNothingToFind'
  BY ProvenStep, PlanesAssumption
<1> QED
  BY <1>1, <1>2, Invariance, PTL DEF Spec

\* What the middleware would refuse on the first request to a route is found at
\* boot.
THEOREM NothingIsLeftToFind == ~LateRoutes => (Spec => []BootLeavesNothingToFind)
BY ServiceIsProven, PTL

LEMMA MissIsForeign ==
    ASSUME IInv, PlanesAssumption,
           NEW m \in Method, NEW p \in Path, ProcessResource(m, p)
    PROVE  MismatchIsForeign'
<1>1. PICK seen \in Requests :
          IF WiringError(m, p) THEN Answered(m, p, seen, "500", None)
          ELSE IF AsksNothing(m, p) THEN Answered(m, p, seen, Falcon(m, p), None)
          ELSE LET row == rows[<<m, p>>] IN
               \E n \in Accepted(row) :
                   Answered(m, p, seen, ByCredential(m, p, n, seen, row.plane), n)
  BY DEF ProcessResource
<1>2. seen \in [wired -> Outcome] /\ UNCHANGED <<rows, wired>>
  BY RequestFacts DEF IInv, ProcessResource
<1>3. CASE WiringError(m, p)
  BY <1>1, <1>3 DEF Answered, MismatchIsForeign
<1>4. CASE ~WiringError(m, p) /\ AsksNothing(m, p)
  BY <1>1, <1>4 DEF Answered, Falcon, MismatchIsForeign
<1>5. CASE ~WiringError(m, p) /\ ~AsksNothing(m, p)
  <2> DEFINE plane == rows[<<m, p>>].plane
  <2>1. PICK n \in Accepted(rows[<<m, p>>]) :
            Answered(m, p, seen, ByCredential(m, p, n, seen, plane), n)
    BY <1>1, <1>5
  <2>2. /\ answer'.endpoint = <<m, p>> /\ answer'.seen = seen /\ answer'.by = n
        /\ answer'.kind = ByCredential(m, p, n, seen, plane)
    BY <2>1 DEF Answered
  <2>3. seen[n] \in Outcome
    BY <1>2, <2>1 DEF Accepted
  <2>4. SUFFICES ASSUME ByCredential(m, p, n, seen, plane) = "404"
                 PROVE  MismatchIsForeign'
    BY <2>2 DEF MismatchIsForeign
  <2>5. seen[n] = "absent" /\ Foreign(plane, seen) # {}
    BY <2>3, <2>4 DEF ByCredential, Falcon, Outcome
  <2>6. PICK f \in Foreign(plane, seen) : TRUE
    BY <2>5
  <2>7. /\ f \in wired /\ PlaneOf(f) # plane /\ MethodOf[f] \in {"JWT", "MTLS"}
        /\ seen[f] = "valid"
        /\ \A k \in wired : k < f /\ PlaneOf(k) # plane /\ MethodOf[k] \in {"JWT", "MTLS"} =>
               seen[k] \in {"absent", "hop"}
    BY <2>6 DEF Foreign, Searched, SearchableMethods
  <2> QED
    BY <1>2, <2>2, <2>5, <2>7 DEF MismatchIsForeign, PlaneOf
<1> QED
  BY <1>3, <1>4, <1>5

\* Whoever is answered as by a router miss holds, for another plane, a valid
\* credential that is checked without a lookup, past nothing that did not verify.
THEOREM MismatchesAreForeign == Spec => []MismatchIsForeign
<1>1. Init => MismatchIsForeign
  BY DEF Init, NoAnswer, MismatchIsForeign
<1>2. IInv /\ MismatchIsForeign /\ [Next]_vars => MismatchIsForeign'
  <2> SUFFICES ASSUME IInv, MismatchIsForeign, [Next]_vars PROVE MismatchIsForeign'
    OBVIOUS
  <2>1. ASSUME NEW m \in Method, NEW p \in Path, ProcessResource(m, p)
        PROVE  MismatchIsForeign'
    BY <2>1, MissIsForeign, PlanesAssumption
  <2>2. ASSUME NEW d \in Mounts, Mount(d) PROVE MismatchIsForeign'
    <3>1. answer' = NoAnswer
      BY <2>2 DEF IInv, OnlyServingAnswers, Mount
    <3> QED
      BY <3>1 DEF NoAnswer, MismatchIsForeign
  <2>3. CASE UNCHANGED <<rows, wired, answer>>
    BY <2>3 DEF MismatchIsForeign, PlaneOf
  <2> QED
    BY <2>1, <2>2, <2>3 DEF Next, AddRoute, VerifyApp, Verify, vars
<1> QED
  BY <1>1, <1>2, Invariance, PTL DEF Spec
=============================================================================
