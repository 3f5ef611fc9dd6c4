------------------------------ MODULE MCPlanes ------------------------------
(***************************************************************************)
(* A small service: two user routes (one of them under /v1/ops/), a        *)
(* vendor's callback at a versioned and at an unversioned URL, a callback  *)
(* of the next API version, a /.well-known/ document and a probe; three    *)
(* classes; one authenticator each for USER and SERVICE and two for        *)
(* CALLBACK.  The declarations are the right ones and, for each, the ways  *)
(* of getting it wrong that a later check has to find.                     *)
(***************************************************************************)
EXTENDS Planes, TLC

GET == 1
POST == 2

MCVersionOf ==
    ("orders" :> "v1" @@ "ops" :> "v1" @@ "hook1" :> "v1" @@ "hook2" :> "v2"
     @@ "hook" :> None @@ "known" :> None @@ "health" :> None)

\* 1 and 2 check callbacks, 3 the access token, 4 the peer's certificate.
MCMethodOf == (1 :> "HMAC" @@ 2 :> "ONE_SHOT_TOKEN" @@ 3 :> "JWT" @@ 4 :> "MTLS")

D(path, class, methods, plane, credential, actors, alias) ==
    [path |-> path, class |-> class, methods |-> methods, plane |-> plane,
     reason |-> plane = "PUBLIC", credential |-> credential,
     actors |-> actors, alias |-> alias]

MCMounts ==
    { D("orders", "Orders", {GET, POST}, "USER", None, {"CUSTOMER"}, None),
      D("orders", "Orders", {GET}, "USER", None, Undeclared, None),
      D("orders", "Hook", {POST}, "SERVICE", None, {"SERVICE"}, None),
      D("orders", "Other", {GET, POST}, "USER", 3, {"CUSTOMER", "OPERATOR"}, None),
      D("ops", "Other", {GET}, "USER", None, {"OPERATOR"}, None),
      D("orders", "Other", {GET}, "USER", None, {"OPERATOR"}, None),
      D("ops", "Orders", {POST}, "SERVICE", 3, Undeclared, None),
      D("hook1", "Hook", {POST}, "CALLBACK", 1, Undeclared, None),
      D("hook1", "Hook", {POST}, "CALLBACK", None, Undeclared, None),
      D("hook1", "Hook", {POST}, "CALLBACK", 2, Undeclared, None),
      D("hook", "Hook", {POST}, "CALLBACK", 1, Undeclared, "hook1"),
      D("hook1", "Other", {POST}, "CALLBACK", 1, Undeclared, None),
      D("known", "Hook", {POST}, "CALLBACK", 1, Undeclared, "hook1"),
      D("hook", "Hook", {POST}, "CALLBACK", 1, Undeclared, "known"),
      D("hook2", "Hook", {POST}, "CALLBACK", 1, Undeclared, None),
      D("hook", "Hook", {POST}, "CALLBACK", 1, Undeclared, None),
      D("known", "Other", {GET}, "PUBLIC", None, Undeclared, None),
      [D("known", "Hook", {GET}, "PUBLIC", None, Undeclared, None) EXCEPT !.reason = FALSE],
      D("known", "Hook", {POST}, "CALLBACK", 1, Undeclared, None),
      D("ops", "Hook", {GET}, "CLIENT", None, Undeclared, None) }

R(path, class, methods) == [path |-> path, class |-> class, methods |-> methods]

MCBare ==
    { R("health", "Other", {GET}), R("orders", "Other", {GET, POST}),
      R("ops", "Other", {GET}) }

MCWirings == {{1, 2, 3, 4}, {1, 3, 4}, {1, 2}}
=============================================================================
