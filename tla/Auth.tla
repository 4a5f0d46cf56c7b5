-------------------------------- MODULE Auth --------------------------------
(***************************************************************************)
(* A request meets the global guards, AuthGuard and PermissionGuard, in the  *)
(* order the service registered them, and then its handler.  Tokens are      *)
(* minted by identity and carry the permissions of that moment; identity may *)
(* grant and revoke at any time, and a guard registered between the two may  *)
(* wait for Redis, so anything can happen between one guard and the next.    *)
(*                                                                         *)
(* The second half is the route walk of src/testing, with which a service    *)
(* audits what its routes declare.                                          *)
(***************************************************************************)
EXTENDS Integers, Sequences

CONSTANTS
  Request,
  Principal,    \* users and API keys of identity
  KindOf,       \* [Principal -> {"user", "service"}]
  TenantOf,     \* [Principal -> tenants]
  Permission,
  Route,        \* the routes: what kind they serve and what metadata they carry
  None,         \* undefined, null
  Nothing,      \* no Authorization header, or another scheme
  Forged,       \* a bearer token identity did not sign
  TTL,          \* identity's JWT_ACCESS_TOKEN_TTL
  Skew,         \* how far a replica's clock may be off identity's
  MaxTime,      \* bound on the clock
  MaxChanges    \* bound: grants and revocations

ASSUME AuthAssumption ==
  /\ TTL \in Nat \ {0} /\ Skew \in Nat /\ {MaxTime, MaxChanges} \subseteq Nat
  /\ None \notin Principal \union BOOLEAN
  /\ \A S \in SUBSET Permission : S # None
  /\ KindOf \in [Principal -> {"user", "service"}]

\* @Public() and @RequirePermission(...) on a handler and on its class.
Metadata(S) == [handler : {None} \union S, class : {None} \union S]

ASSUME RouteAssumption ==
  /\ Route # {}
  /\ Route \subseteq [type : {"http", "ws"},
                   public : Metadata({TRUE}),
                   permissions : Metadata(SUBSET Permission)]

(***************************************************************************)
(* Credentials.  A token identity signed names its subject, the permissions  *)
(* of that moment and its expiry.  Identity always sets every claim; a       *)
(* claim is missing only after some future change over there.                *)
(***************************************************************************)
Claims  == {"complete", "no tenant", "no kind", "no permissions"}
Token   == [sub : Principal, perms : SUBSET Permission, exp : Int, claims : Claims]
NoToken == {Nothing, Forged}

ASSUME TokenAssumption == /\ None \notin Token
                          /\ NoToken \intersect Token = {}
                          /\ Nothing # Forged

Tenant  == {TenantOf[p] : p \in Principal}
Context == [tenantId : Tenant, userId : Principal \union {None},
            apiKeyId : Principal \union {None}, permissions : SUBSET Permission]
ASSUME ContextAssumption == None \notin Context

Guard   == {"AuthGuard", "PermissionGuard"}
Why     == {"Unauthenticated", "TokenExpired", "InsufficientPermission"}

VARIABLES
  clock,
  order,        \* the guards, in the order of registration
  grants,       \* identity: what each principal may do now
  changes,      \* how often they changed
  lostAt,       \* history: when it last lost each permission
  held,         \* the token in the clients' hands; tokens do not meet, one is enough
  at,           \* each request: guards passed, or where it ended
  route,        \* the route it asks for
  credential,   \* what it presents
  context,      \* request[REQUEST_CONTEXT_PROPERTY]
  why,          \* the exception that ended it
  entitled      \* history: what the subject could rightly claim when verified

identity == <<grants, changes, lostAt, held>>
request  == <<at, route, credential, context, why, entitled>>
vars     == <<clock, order, identity, request>>

\* What stands in route while no request is under way.
AnyRoute == CHOOSE rt \in Route : TRUE

Place == {"idle", "first", "second", "handled", "refused"}

TypeOK ==
  /\ clock \in Nat
  /\ order \in {<<"AuthGuard", "PermissionGuard">>, <<"PermissionGuard", "AuthGuard">>}
  /\ grants \in [Principal -> SUBSET Permission]
  /\ changes \in 0..MaxChanges
  /\ lostAt \in [Principal -> [Permission -> Int]]
  /\ held \in {None} \union Token
  /\ at \in [Request -> Place]
  /\ route \in [Request -> Route]
  /\ credential \in [Request -> Token \union NoToken]
  /\ context \in [Request -> {None} \union Context]
  /\ why \in [Request -> Why \union {None}]
  /\ entitled \in [Request -> SUBSET Permission]

Init ==
  /\ clock = 0
  /\ order \in {<<"AuthGuard", "PermissionGuard">>, <<"PermissionGuard", "AuthGuard">>}
  /\ grants \in [Principal -> SUBSET Permission]
  /\ changes = 0
  /\ lostAt = [p \in Principal |-> [q \in Permission |-> 0 - TTL - Skew]]
  /\ held = None
  /\ at = [r \in Request |-> "idle"]
  /\ route = [r \in Request |-> AnyRoute]
  /\ credential = [r \in Request |-> Nothing]
  /\ context = [r \in Request |-> None]
  /\ why = [r \in Request |-> None]
  /\ entitled = [r \in Request |-> {}]

(***************************************************************************)
(* Identity, and the clock.                                                 *)
(***************************************************************************)
Tick == clock < MaxTime /\ clock' = clock + 1 /\ UNCHANGED <<order, identity, request>>

Change == changes < MaxChanges /\ changes' = changes + 1

Grant(p, q) ==
  /\ Change
  /\ q \notin grants[p]
  /\ grants' = [grants EXCEPT ![p] = @ \union {q}]
  /\ UNCHANGED <<clock, order, lostAt, held, request>>

Revoke(p, q) ==
  /\ Change
  /\ q \in grants[p]
  /\ grants' = [grants EXCEPT ![p] = @ \ {q}]
  /\ lostAt' = [lostAt EXCEPT ![p] = [@ EXCEPT ![q] = clock]]
  /\ UNCHANGED <<clock, order, held, request>>

Mint(p, c) ==
  /\ held' = [sub |-> p, perms |-> grants[p], exp |-> clock + TTL, claims |-> c]
  /\ UNCHANGED <<clock, order, grants, changes, lostAt, request>>

\* A subject may claim what it has, and what it lost inside the window.
Entitled(p) ==
  {q \in Permission : q \in grants[p] \/ clock - lostAt[p][q] < TTL + Skew}

(***************************************************************************)
(* The service.                                                             *)
(***************************************************************************)
\* Reflector.getAllAndOverride: the handler's own metadata, else its class's.
Override(md) == IF md.handler # None THEN md.handler ELSE md.class

IsPublic(rt) == Override(rt.public) = TRUE

Required(rt) ==
  LET declared == Override(rt.permissions) IN IF declared = None THEN {} ELSE declared

Arrive(r, rt, cred) ==
  /\ at[r] = "idle"
  /\ at' = [at EXCEPT ![r] = "first"]
  /\ route' = [route EXCEPT ![r] = rt]
  /\ credential' = [credential EXCEPT ![r] = cred]
  /\ UNCHANGED <<clock, order, identity, context, why, entitled>>

AtGuard(r, guard) ==
  \/ at[r] = "first" /\ order[1] = guard
  \/ at[r] = "second" /\ order[2] = guard

Pass(r) == at' = [at EXCEPT ![r] = IF @ = "first" THEN "second" ELSE "handled"]

Refuse(r, exception) ==
  /\ at' = [at EXCEPT ![r] = "refused"]
  /\ why' = [why EXCEPT ![r] = exception]
  /\ UNCHANGED <<context, entitled>>

\* A socket or RPC context, and a public route, pass without a context.
StepAside(r) ==
  /\ route[r].type # "http" \/ IsPublic(route[r])
  /\ Pass(r)
  /\ UNCHANGED <<context, why, entitled>>

Judged(r) == route[r].type = "http" /\ ~IsPublic(route[r])

NotPresented(r) ==
  /\ Judged(r)
  /\ credential[r] = Nothing
  /\ Refuse(r, "Unauthenticated")

Slip_LastTick(token, now) == now > token.exp
Expired(token, now) == now >= token.exp

\* A slip: every failure of verifyAsync is one 401.
Slip_OneFailure(r, now) ==
  /\ Judged(r)
  /\ credential[r] = Forged \/ (credential[r] \in Token /\ Expired(credential[r], now))
  /\ Refuse(r, "Unauthenticated")

\* AccessTokenService.verify: the signature first, then the expiry, then the
\* claims.  now is the replica's clock.
VerifyFails(r, now) ==
  /\ Judged(r)
  /\ \/ /\ credential[r] = Forged
        /\ Refuse(r, "Unauthenticated")
     \/ /\ credential[r] \in Token
        /\ Expired(credential[r], now)
        /\ Refuse(r, "TokenExpired")
     \/ /\ credential[r] \in Token
        /\ ~Expired(credential[r], now)
        /\ credential[r].claims \in {"no tenant", "no kind"}
        /\ Refuse(r, "Unauthenticated")

\* Slip: the subject is always a user.
Slip_SubIsUser(token) ==
  [tenantId |-> TenantOf[token.sub], userId |-> token.sub, apiKeyId |-> None,
   permissions |-> IF token.claims = "no permissions" THEN {} ELSE token.perms]

\* The payload narrowClaims returns, as the context the guard makes of it.
ContextOf(token) ==
  LET isService == KindOf[token.sub] = "service" IN
  [tenantId    |-> TenantOf[token.sub],
   userId      |-> IF isService THEN None ELSE token.sub,
   apiKeyId    |-> IF isService THEN token.sub ELSE None,
   permissions |-> IF token.claims = "no permissions" THEN {} ELSE token.perms]

Verified(r, now) ==
  /\ Judged(r)
  /\ credential[r] \in Token
  /\ ~Expired(credential[r], now)
  /\ credential[r].claims \in {"complete", "no permissions"}
  /\ context' = [context EXCEPT ![r] = ContextOf(credential[r])]
  /\ entitled' = [entitled EXCEPT ![r] = Entitled(credential[r].sub)]
  /\ Pass(r)
  /\ UNCHANGED why

\* AuthGuard.canActivate.
AuthGuard(r) ==
  /\ AtGuard(r, "AuthGuard")
  /\ \/ StepAside(r)
     \/ NotPresented(r)
     \/ \E now \in (clock - Skew)..(clock + Skew) : VerifyFails(r, now) \/ Verified(r, now)
  /\ UNCHANGED <<clock, order, identity, route, credential>>

Ungated(r) ==
  /\ Required(route[r]) = {}
  /\ Pass(r)
  /\ UNCHANGED <<context, why, entitled>>

NoContext(r) ==
  /\ Required(route[r]) # {}
  /\ context[r] = None
  /\ Refuse(r, "Unauthenticated")

Missing(r) ==
  /\ Required(route[r]) # {}
  /\ context[r] # None
  /\ ~ (Required(route[r]) \subseteq context[r].permissions)
  /\ Refuse(r, "InsufficientPermission")

Holds(r) ==
  /\ Required(route[r]) # {}
  /\ context[r] # None
  /\ Required(route[r]) \subseteq context[r].permissions
  /\ Pass(r)
  /\ UNCHANGED <<context, why, entitled>>

\* PermissionGuard.canActivate.
PermissionGuard(r) ==
  /\ AtGuard(r, "PermissionGuard")
  /\ Ungated(r) \/ NoContext(r) \/ Missing(r) \/ Holds(r)
  /\ UNCHANGED <<clock, order, identity, route, credential>>

\* The answer has left; the next request under this name starts afresh.
Answered(r) ==
  /\ at[r] \in {"handled", "refused"}
  /\ at' = [at EXCEPT ![r] = "idle"]
  /\ credential' = [credential EXCEPT ![r] = Nothing]
  /\ context' = [context EXCEPT ![r] = None]
  /\ why' = [why EXCEPT ![r] = None]
  /\ entitled' = [entitled EXCEPT ![r] = {}]
  /\ route' = [route EXCEPT ![r] = AnyRoute]
  /\ UNCHANGED <<clock, order, identity>>

\* What a client can present: nothing, a forgery, or the token it holds.
InHand == {held} \ {None}

Next ==
  \/ Tick
  \/ \E p \in Principal, q \in Permission : Grant(p, q) \/ Revoke(p, q)
  \/ \E p \in Principal, c \in Claims : Mint(p, c)
  \/ \E r \in Request : \/ \E rt \in Route, cred \in NoToken \union InHand : Arrive(r, rt, cred)
                        \/ AuthGuard(r) \/ PermissionGuard(r) \/ Answered(r)

Spec == Init /\ [][Next]_vars

(***************************************************************************)
(* testing/registered-route.ts: the route walk.                             *)
(***************************************************************************)
Slip_HandlerOnly(rt) == rt.public.handler = TRUE
WalkIsPublic(rt) == rt.public.handler = TRUE \/ rt.public.class = TRUE

\* The handler's list and the class's, one after the other.
WalkPermissions(rt) ==
  UNION {ps \in {rt.permissions.handler, rt.permissions.class} : ps # None}

registeredRoutes == {rt \in Route : rt.type = "http"}

undeclaredRoutes ==
  {rt \in registeredRoutes : ~WalkIsPublic(rt) /\ WalkPermissions(rt) = {}}

permissionMatrix ==
  [rt \in {x \in registeredRoutes : ~WalkIsPublic(x)} |-> WalkPermissions(rt)]

(***************************************************************************)
(* Properties.                                                              *)
(***************************************************************************)
\* A handler that requires permissions runs only for a subject that, when its
\* token was verified, had every one of them or had lost it less than a token's
\* life (and the clocks' difference) before.  It is the revocation window of
\* AccessTokenService, and it holds whichever order the guards are registered in.
WithinRevocationWindow ==
  \A r \in Request : at[r] = "handled" => Required(route[r]) \subseteq entitled[r]

\* The context names one principal, of the kind it is, in the tenant it belongs
\* to: never an API key where a user is expected, never another tenant, never
\* neither (narrowClaims and AuthGuard).
NobodyIsMisnamed ==
  \A r \in Request : context[r] # None =>
    \E p \in Principal :
      /\ context[r].tenantId = TenantOf[p]
      /\ context[r].userId = IF KindOf[p] = "user" THEN p ELSE None
      /\ context[r].apiKeyId = IF KindOf[p] = "service" THEN p ELSE None
      /\ credential[r] \in Token /\ credential[r].sub = p
      /\ credential[r].claims \notin {"no tenant", "no kind"}

\* A route that answers a caller nobody authenticated is one the walk lists as
\* public, so the set a service pins in its audit misses none.
AnonymousRoutesAreListed ==
  \A r \in Request :
    at[r] = "handled" /\ context[r] = None /\ route[r].type = "http" => WalkIsPublic(route[r])

\* A refused client is told to refresh exactly when that can help: the token it
\* presented was identity's own and its life was over or nearly so, and every
\* good token on a route the guards can open is judged on its permissions alone.
RefusalsAreTrue ==
  \A r \in Request : at[r] = "refused" =>
    /\ why[r] = "TokenExpired" => /\ credential[r] \in Token
                                  /\ clock >= credential[r].exp - Skew
    /\ why[r] = "Unauthenticated" =>
         \/ credential[r] \in NoToken
         \/ credential[r].claims \in {"no tenant", "no kind"}
         \/ ~Judged(r)
         \/ order[1] = "PermissionGuard"

\* What testing/registered-route.ts says of its matrix: it pins which permission
\* opens each route.  A handler ran for a caller who held what the matrix says.
MatrixIsEnforced ==
  \A r \in Request :
    at[r] = "handled" /\ route[r] \in DOMAIN permissionMatrix
      => permissionMatrix[route[r]] \subseteq context[r].permissions
=============================================================================
