----------------------------- MODULE AuthProofs -----------------------------
(***************************************************************************)
(* Proofs about Auth, for any routes, principals, permissions and requests,  *)
(* both orders of the guards, and any token life and clock skew.             *)
(***************************************************************************)
EXTENDS Auth, TLAPS

PassedAuth(r) ==
  at[r] \in {"handled", "refused"} \/ (at[r] = "second" /\ order[1] = "AuthGuard")
PassedGate(r) ==
  at[r] = "handled" \/ (at[r] = "second" /\ order[1] = "PermissionGuard")

\* A token's permissions were its subject's when it was minted, TTL before its end.
Fresh(token) ==
  /\ token.exp <= clock + TTL
  /\ \A q \in token.perms : q \in grants[token.sub] \/ token.exp - TTL <= lostAt[token.sub][q]

HeldInv       == held # None => Fresh(held)
CredentialInv == \A r \in Request : credential[r] \in Token => Fresh(credential[r])

\* Only AuthGuard sets a context, and never beyond what the subject may claim.
ContextInv ==
  \A r \in Request : context[r] # None =>
    PassedAuth(r) /\ context[r].permissions \subseteq entitled[r]

\* What has passed PermissionGuard is not gated, or holds every permission.
GateInv ==
  \A r \in Request : PassedGate(r) =>
    \/ Required(route[r]) = {}
    \/ context[r] # None /\ Required(route[r]) \subseteq context[r].permissions

IInv == TypeOK /\ HeldInv /\ CredentialInv /\ ContextInv /\ GateInv /\ NobodyIsMisnamed

-----------------------------------------------------------------------------

LEMMA InitIInv == Init => IInv
<1> SUFFICES ASSUME Init PROVE IInv
  OBVIOUS
<1>1. AnyRoute \in Route
  BY RouteAssumption DEF AnyRoute
<1>2. 0 - TTL - Skew \in Int /\ 0 \in Nat /\ 0 \in 0..MaxChanges
  BY AuthAssumption
<1>3. TypeOK
  BY <1>1, <1>2 DEF Init, TypeOK, Place, NoToken
<1>4. HeldInv /\ ContextInv /\ GateInv /\ NobodyIsMisnamed
  BY DEF Init, HeldInv, ContextInv, GateInv, PassedGate, NobodyIsMisnamed
<1>5. CredentialInv
  BY TokenAssumption DEF Init, CredentialInv, NoToken
<1> QED BY <1>3, <1>4, <1>5 DEF IInv

\* A step that leaves the requests alone and ages every token soundly keeps IInv.
LEMMA RequestsUntouched ==
  ASSUME IInv, TypeOK', HeldInv', UNCHANGED <<order, request>>,
         \A t \in Token : Fresh(t) => Fresh(t)'
  PROVE  IInv'
BY DEF IInv, request, CredentialInv, ContextInv, GateInv, NobodyIsMisnamed, PassedAuth, PassedGate

LEMMA IdentityIInv ==
  ASSUME IInv, NEW p \in Principal, NEW q \in Permission, Grant(p, q) \/ Revoke(p, q)  PROVE IInv'
<1> USE DEF IInv
<1>1. TypeOK'
  <2>0. Change => changes' \in 0..MaxChanges
    BY AuthAssumption DEF Change, TypeOK
  <2>1. CASE Grant(p, q)
    BY <2>0, <2>1 DEF Grant, TypeOK, request
  <2>2. CASE Revoke(p, q)
    <3>1. lostAt' \in [Principal -> [Permission -> Int]]
      BY <2>2 DEF Revoke, TypeOK
    <3> QED BY <2>0, <2>2, <3>1 DEF Revoke, TypeOK, request
  <2> QED BY <2>1, <2>2
<1>2. ASSUME NEW t \in Token, Fresh(t)  PROVE Fresh(t)'
  <2>1. t.sub \in Principal /\ t.perms \subseteq Permission /\ t.exp \in Int
    BY DEF Token
  <2>2. CASE Grant(p, q)
    BY <1>2, <2>1, <2>2 DEF Grant, Fresh, TypeOK
  <2>3. CASE Revoke(p, q)
    <3>1. \A s \in Principal, x \in Permission :
            /\ x \in grants[s] => x \in grants'[s] \/ lostAt'[s][x] = clock
            /\ lostAt'[s][x] = lostAt[s][x] \/ lostAt'[s][x] = clock
      BY <2>3 DEF Revoke, TypeOK
    <3>2. clock' = clock /\ t.exp - TTL <= clock
      BY <1>2, <2>1, <2>3, AuthAssumption DEF Revoke, Fresh, TypeOK
    <3> QED BY <1>2, <2>1, <3>1, <3>2 DEF Fresh
  <2> QED BY <2>2, <2>3
<1>3. HeldInv'
  BY <1>2 DEF HeldInv, Grant, Revoke, TypeOK
<1> QED BY <1>1, <1>2, <1>3, RequestsUntouched DEF Grant, Revoke

LEMMA TickIInv == ASSUME IInv, Tick  PROVE IInv'
<1> USE DEF IInv
<1>1. TypeOK'
  BY DEF Tick, TypeOK, identity, request
<1>2. ASSUME NEW t \in Token, Fresh(t)  PROVE Fresh(t)'
  <2>1. t.exp \in Int /\ clock \in Nat /\ clock' = clock + 1 /\ UNCHANGED <<grants, lostAt>>
    BY DEF Token, TypeOK, Tick, identity
  <2> QED BY <1>2, <2>1, AuthAssumption DEF Fresh
<1>3. HeldInv'
  BY <1>2 DEF HeldInv, Tick, TypeOK, identity
<1> QED BY <1>1, <1>2, <1>3, RequestsUntouched DEF Tick

LEMMA MintIInv == ASSUME IInv, NEW p \in Principal, NEW c \in Claims, Mint(p, c)  PROVE IInv'
<1> DEFINE token == [sub |-> p, perms |-> grants[p], exp |-> clock + TTL, claims |-> c]
<1> USE DEF IInv
<1>1. token \in Token
  BY AuthAssumption DEF TypeOK, Token
<1>2. TypeOK'
  <2> HIDE DEF token
  <2>1. held' = token
    BY DEF Mint, token
  <2> QED BY <1>1, <2>1 DEF Mint, TypeOK, request
<1>3. \A t \in Token : Fresh(t) => Fresh(t)'
  BY DEF Mint, Fresh
<1>4. Fresh(token)
  BY AuthAssumption DEF Fresh, TypeOK
<1>5. HeldInv'
  <2> HIDE DEF token
  <2>1. held' = token
    BY DEF Mint, token
  <2> QED BY <1>1, <1>3, <1>4, <2>1 DEF HeldInv
<1> QED BY <1>2, <1>3, <1>5, RequestsUntouched DEF Mint

-----------------------------------------------------------------------------

LEMMA ArriveIInv ==
  ASSUME IInv, NEW r \in Request, NEW rt \in Route, NEW cred \in NoToken \union InHand,
         Arrive(r, rt, cred)
  PROVE  IInv'
<1> USE DEF IInv
<1>1. cred \in Token \union NoToken /\ (cred \in Token => Fresh(cred))
  BY TokenAssumption DEF InHand, TypeOK, HeldInv
<1>2. TypeOK'
  BY <1>1 DEF Arrive, TypeOK, Place, identity
<1>3. HeldInv' /\ CredentialInv'
  BY <1>1 DEF Arrive, HeldInv, CredentialInv, Fresh, TypeOK, identity
<1>4. context[r] = None
  BY DEF Arrive, ContextInv, PassedAuth
<1>5. ContextInv' /\ GateInv' /\ NobodyIsMisnamed'
  BY <1>4 DEF Arrive, ContextInv, GateInv, NobodyIsMisnamed, PassedAuth, PassedGate, TypeOK
<1> QED BY <1>2, <1>3, <1>5

LEMMA AnsweredIInv == ASSUME IInv, NEW r \in Request, Answered(r)  PROVE IInv'
<1> USE DEF IInv
<1>1. AnyRoute \in Route
  BY RouteAssumption DEF AnyRoute
<1>2. TypeOK'
  BY <1>1 DEF Answered, TypeOK, Place, identity, NoToken
<1>3. HeldInv' /\ CredentialInv'
  BY TokenAssumption DEF Answered, HeldInv, CredentialInv, Fresh, TypeOK, identity, NoToken
<1>4. ContextInv'
  BY DEF Answered, ContextInv, PassedAuth, TypeOK
<1>5. GateInv'
  BY DEF Answered, GateInv, PassedGate, TypeOK
<1>6. NobodyIsMisnamed'
  BY DEF Answered, NobodyIsMisnamed, TypeOK
<1> QED BY <1>2, <1>3, <1>4, <1>5, <1>6

LEMMA OrderOfGuards ==
  ASSUME TypeOK
  PROVE  \/ order[1] = "AuthGuard" /\ order[2] = "PermissionGuard"
         \/ order[1] = "PermissionGuard" /\ order[2] = "AuthGuard"
<1>1. CASE order = <<"AuthGuard", "PermissionGuard">>
  BY <1>1
<1>2. CASE order = <<"PermissionGuard", "AuthGuard">>
  BY <1>2
<1> QED BY <1>1, <1>2 DEF TypeOK

\* A context that stays as it is goes on naming its principal.
LEMMA NameKept ==
  ASSUME NobodyIsMisnamed, context' = context, credential' = credential
  PROVE  NobodyIsMisnamed'
BY DEF NobodyIsMisnamed

\* What a guard does to the request it judges, and to nothing else.
LEMMA GuardFrame ==
  ASSUME IInv, NEW r \in Request, AuthGuard(r) \/ PermissionGuard(r)
  PROVE  /\ UNCHANGED <<clock, order, identity, route, credential>>
         /\ \A s \in Request \ {r} : /\ at'[s] = at[s] /\ context'[s] = context[s]
                                     /\ entitled'[s] = entitled[s]
         /\ HeldInv' /\ CredentialInv'
<1>1. UNCHANGED <<clock, order, identity, route, credential>>
  BY DEF AuthGuard, PermissionGuard
<1>2. HeldInv' /\ CredentialInv'
  BY <1>1 DEF IInv, HeldInv, CredentialInv, Fresh, identity
<1> QED BY <1>1, <1>2 DEF AuthGuard, PermissionGuard, StepAside, NotPresented, VerifyFails, Verified,
       Refuse, Pass, Ungated, NoContext, Missing, Holds, IInv, TypeOK

LEMMA RefuseIInv ==
  ASSUME IInv, NEW r \in Request, NEW x \in Why, Refuse(r, x),
         UNCHANGED <<clock, order, identity, route, credential>>, HeldInv', CredentialInv'
  PROVE  IInv'
<1> USE DEF IInv
<1>1. TypeOK'
  BY DEF Refuse, TypeOK, Place, identity
<1>2. ContextInv' /\ GateInv'
  BY DEF Refuse, TypeOK, ContextInv, GateInv, PassedAuth, PassedGate
<1> QED BY <1>1, <1>2, NameKept DEF Refuse

\* The context of a verified token is the subject's, within what it may claim.
LEMMA VerifiedContext ==
  ASSUME IInv, NEW r \in Request, NEW now \in (clock - Skew)..(clock + Skew), Verified(r, now)
  PROVE  /\ ContextOf(credential[r]) \in Context
         /\ ContextOf(credential[r]).permissions \subseteq Entitled(credential[r].sub)
<1> DEFINE t == credential[r]
<1>0. t \in Token /\ ~ (now >= t.exp)
  BY DEF Verified, Expired
<1>1. Fresh(t)
  BY <1>0 DEF IInv, CredentialInv
<1>2. t.sub \in Principal /\ t.perms \subseteq Permission /\ t.exp \in Int
  BY <1>0 DEF Token
<1>6. now \in Int /\ now >= clock - Skew /\ now < t.exp
  BY <1>0, <1>2, AuthAssumption DEF IInv, TypeOK
<1>3. ContextOf(t) \in Context
  BY <1>2, AuthAssumption DEF ContextOf, Context, Tenant
<1>4. ContextOf(t).permissions \subseteq t.perms
  BY DEF ContextOf
<1>5. ASSUME NEW q \in t.perms  PROVE q \in Entitled(t.sub)
  <2>1. q \in Permission /\ lostAt[t.sub][q] \in Int /\ clock \in Nat /\ TTL \in Nat /\ Skew \in Nat
    BY <1>2, AuthAssumption DEF IInv, TypeOK
  <2>2. CASE q \in grants[t.sub]
    BY <2>1, <2>2 DEF Entitled
  <2>3. CASE t.exp - TTL <= lostAt[t.sub][q]
    <3>1. clock - lostAt[t.sub][q] < TTL + Skew
      BY <1>2, <1>6, <2>1, <2>3
    <3> QED BY <2>1, <3>1 DEF Entitled
  <2> QED BY <1>1, <2>2, <2>3 DEF Fresh
<1> QED BY <1>3, <1>4, <1>5

LEMMA AuthGuardIInv == ASSUME IInv, NEW r \in Request, AuthGuard(r)  PROVE IInv'
<1> USE DEF IInv
<1>1. UNCHANGED <<clock, order, identity, route, credential>> /\ HeldInv' /\ CredentialInv'
      /\ \A s \in Request \ {r} : /\ at'[s] = at[s] /\ context'[s] = context[s]
                                  /\ entitled'[s] = entitled[s]
  BY GuardFrame
<1>2. /\ \/ at[r] = "first" /\ order[1] = "AuthGuard"
         \/ at[r] = "second" /\ order[1] = "PermissionGuard"
      /\ context[r] = None
  <2>0. TypeOK
    OBVIOUS
  <2>1. \/ order[1] = "AuthGuard" /\ order[2] = "PermissionGuard"
        \/ order[1] = "PermissionGuard" /\ order[2] = "AuthGuard"
    BY <2>0, OrderOfGuards
  <2>2. \/ at[r] = "first" /\ order[1] = "AuthGuard"
        \/ at[r] = "second" /\ order[1] = "PermissionGuard"
    BY <2>1 DEF AuthGuard, AtGuard
  <2> QED BY <2>2 DEF ContextInv, PassedAuth
<1>3. PassedGate(r) => Required(route[r]) = {}
  BY <1>2 DEF GateInv
<1>4. CASE StepAside(r)
  <2>1. /\ context' = context /\ entitled' = entitled /\ why' = why
        /\ at' \in [Request -> Place]
        /\ at'[r] = IF at[r] = "first" THEN "second" ELSE "handled"
    BY <1>4 DEF StepAside, Pass, TypeOK, Place
  <2>2. TypeOK'
    BY <1>1, <2>1 DEF TypeOK, identity
  <2>3. ContextInv' /\ GateInv'
    BY <1>1, <1>2, <1>3, <2>1 DEF ContextInv, GateInv, PassedAuth, PassedGate
  <2> QED BY <1>1, <2>1, <2>2, <2>3, NameKept
<1>5. ASSUME NEW x \in Why, Refuse(r, x)  PROVE IInv'
  BY <1>1, <1>5, RefuseIInv
<1>6. ASSUME NEW now \in (clock - Skew)..(clock + Skew), Verified(r, now)  PROVE IInv'
  <2> DEFINE c == ContextOf(credential[r])
  <2>1. c \in Context /\ c.permissions \subseteq Entitled(credential[r].sub) /\ c # None
    BY <1>6, VerifiedContext, ContextAssumption
  <2>2. Entitled(credential[r].sub) \subseteq Permission
    BY DEF Entitled
  <2>3. /\ context' = [context EXCEPT ![r] = c] /\ why' = why
        /\ entitled' = [entitled EXCEPT ![r] = Entitled(credential[r].sub)]
        /\ at'[r] = IF at[r] = "first" THEN "second" ELSE "handled"
        /\ at' \in [Request -> Place]
    BY <1>6 DEF Verified, Pass, TypeOK, Place
  <2>4. context'[r] = c /\ entitled'[r] = Entitled(credential[r].sub)
    BY <2>3 DEF TypeOK
  <2>5. TypeOK'
    BY <1>1, <2>1, <2>2, <2>3 DEF TypeOK, identity
  <2>6. ContextInv'
    BY <1>1, <1>2, <2>1, <2>3, <2>4 DEF ContextInv, PassedAuth
  <2>7. GateInv'
    BY <1>1, <1>2, <1>3, <2>3 DEF GateInv, PassedGate
  <2>8. /\ credential[r] \in Token /\ credential[r].sub \in Principal
        /\ credential[r].claims \notin {"no tenant", "no kind"}
        /\ KindOf[credential[r].sub] \in {"user", "service"}
    BY <1>6, AuthAssumption DEF Verified, Token
  <2>9. /\ c.tenantId = TenantOf[credential[r].sub]
        /\ c.userId = IF KindOf[credential[r].sub] = "user" THEN credential[r].sub ELSE None
        /\ c.apiKeyId = IF KindOf[credential[r].sub] = "service" THEN credential[r].sub ELSE None
    BY <2>8 DEF ContextOf
  <2> HIDE DEF c
  <2>10. \A s \in Request \ {r} : context'[s] = context[s] /\ credential'[s] = credential[s]
    BY <1>1
  <2>11. credential' = credential
    BY <1>1
  <2>12. NobodyIsMisnamed'
    <3> SUFFICES ASSUME NEW s \in Request, context'[s] # None
                 PROVE \E p \in Principal :
                         /\ context'[s].tenantId = TenantOf[p]
                         /\ context'[s].userId = IF KindOf[p] = "user" THEN p ELSE None
                         /\ context'[s].apiKeyId = IF KindOf[p] = "service" THEN p ELSE None
                         /\ credential'[s] \in Token /\ credential'[s].sub = p
                         /\ credential'[s].claims \notin {"no tenant", "no kind"}
      BY DEF NobodyIsMisnamed
    <3>1. CASE s = r
      BY <2>4, <2>8, <2>9, <2>11, <3>1
    <3>2. CASE s # r
      <4>1. context'[s] = context[s] /\ credential'[s] = credential[s]
        BY <2>10, <3>2
      <4>2. NobodyIsMisnamed /\ context[s] # None
        BY <4>1
      <4>3. PICK p \in Principal :
              /\ context[s].tenantId = TenantOf[p]
              /\ context[s].userId = IF KindOf[p] = "user" THEN p ELSE None
              /\ context[s].apiKeyId = IF KindOf[p] = "service" THEN p ELSE None
              /\ credential[s] \in Token /\ credential[s].sub = p
              /\ credential[s].claims \notin {"no tenant", "no kind"}
        BY <4>2 DEF NobodyIsMisnamed
      <4> QED BY <4>1, <4>3
    <3> QED BY <3>1, <3>2
  <2> QED BY <1>1, <2>5, <2>6, <2>7, <2>12
<1> QED BY <1>4, <1>5, <1>6 DEF AuthGuard, NotPresented, VerifyFails, Why

LEMMA PermissionGuardIInv == ASSUME IInv, NEW r \in Request, PermissionGuard(r)  PROVE IInv'
<1> USE DEF IInv
<1>1. UNCHANGED <<clock, order, identity, route, credential>> /\ HeldInv' /\ CredentialInv'
      /\ \A s \in Request \ {r} : /\ at'[s] = at[s] /\ context'[s] = context[s]
                                  /\ entitled'[s] = entitled[s]
  BY GuardFrame
<1>2. context[r] # None => PassedAuth(r)
  BY DEF ContextInv
<1>3. \/ at[r] = "first" /\ order[1] = "PermissionGuard"
      \/ at[r] = "second" /\ order[1] = "AuthGuard"
  <2>1. \/ order[1] = "AuthGuard" /\ order[2] = "PermissionGuard"
        \/ order[1] = "PermissionGuard" /\ order[2] = "AuthGuard"
    BY OrderOfGuards
  <2> QED BY <2>1 DEF PermissionGuard, AtGuard
<1>4. CASE Ungated(r) \/ Holds(r)
  <2>1. /\ context' = context /\ entitled' = entitled /\ why' = why
        /\ at' \in [Request -> Place]
        /\ at'[r] = IF at[r] = "first" THEN "second" ELSE "handled"
    BY <1>4 DEF Ungated, Holds, Pass, TypeOK, Place
  <2>2. TypeOK'
    BY <1>1, <2>1 DEF TypeOK, identity
  <2>3. ContextInv'
    BY <1>1, <1>2, <1>3, <2>1 DEF ContextInv, PassedAuth
  <2>4. \/ Required(route[r]) = {}
        \/ context[r] # None /\ Required(route[r]) \subseteq context[r].permissions
    BY <1>4 DEF Ungated, Holds
  <2>5. GateInv'
    BY <1>1, <2>1, <2>4 DEF GateInv, PassedGate
  <2> QED BY <1>1, <2>1, <2>2, <2>3, <2>5, NameKept
<1>5. ASSUME NEW x \in Why, Refuse(r, x)  PROVE IInv'
  BY <1>1, <1>5, RefuseIInv
<1> QED BY <1>4, <1>5 DEF PermissionGuard, NoContext, Missing, Why

LEMMA NextIInv == IInv /\ [Next]_vars => IInv'
<1> SUFFICES ASSUME IInv, [Next]_vars PROVE IInv'
  OBVIOUS
<1>1. CASE UNCHANGED vars
  BY <1>1 DEF IInv, vars, identity, request, TypeOK, HeldInv, CredentialInv, Fresh, ContextInv,
     GateInv, NobodyIsMisnamed, PassedAuth, PassedGate
<1> QED BY <1>1, TickIInv, IdentityIInv, MintIInv, ArriveIInv, AuthGuardIInv, PermissionGuardIInv,
       AnsweredIInv DEF Next

\* The strengthened invariant of the guards.
THEOREM Invariance == Spec => []IInv
BY InitIInv, NextIInv, PTL DEF Spec

-----------------------------------------------------------------------------

\* Every request's state is well-formed: contexts hold a tenant, one principal
\* and permissions of the catalogue, whatever the token lacked (narrowClaims).
THEOREM TypeCorrect == Spec => []TypeOK
<1>1. IInv => TypeOK
  BY DEF IInv
<1> QED BY <1>1, Invariance, PTL

\* A gated handler runs only within the revocation window of all it requires
\* (AccessTokenService.verify, then PermissionGuard, or the reverse).
THEOREM RevocationIsBounded == Spec => []WithinRevocationWindow
<1>1. IInv => WithinRevocationWindow
  BY DEF IInv, GateInv, ContextInv, PassedGate, WithinRevocationWindow
<1> QED BY <1>1, Invariance, PTL

\* The context names the presented token's principal, its kind and its tenant
\* (narrowClaims, AuthGuard.canActivate).
THEOREM PrincipalIsTrue == Spec => []NobodyIsMisnamed
<1>1. IInv => NobodyIsMisnamed
  BY DEF IInv
<1> QED BY <1>1, Invariance, PTL

-----------------------------------------------------------------------------
(* Who is let through without a context, and who is refused                  *)

LetThrough(r) == at[r] = "handled" \/ (at[r] = "second" /\ order[1] = "AuthGuard")

\* AuthGuard lets a request it judges through with a context or not at all.
AnonymousInv == \A r \in Request : LetThrough(r) /\ context[r] = None => ~Judged(r)

\* What a refusal says of one request.
RefusalIsTrue(r) ==
  at[r] = "refused" =>
    /\ why[r] = "TokenExpired" => credential[r] \in Token /\ clock >= credential[r].exp - Skew
    /\ why[r] = "Unauthenticated" =>
         \/ credential[r] \in NoToken
         \/ credential[r].claims \in {"no tenant", "no kind"}
         \/ ~Judged(r)
         \/ order[1] = "PermissionGuard"

VerdictInv == AnonymousInv /\ \A r \in Request : RefusalIsTrue(r)

LEMMA RefusalsAreTrueAll == (\A r \in Request : RefusalIsTrue(r)) <=> RefusalsAreTrue
BY DEF RefusalIsTrue, RefusalsAreTrue

\* A verdict stands while the request is left alone, however time goes on.
LEMMA VerdictKept ==
  ASSUME IInv, VerdictInv, NEW r \in Request, order' = order, clock' \in Nat, clock' >= clock,
         at'[r] = at[r], why'[r] = why[r], context'[r] = context[r],
         route'[r] = route[r], credential'[r] = credential[r]
  PROVE  /\ LetThrough(r)' /\ context'[r] = None => ~Judged(r)'
         /\ RefusalIsTrue(r)'
<1>1. LetThrough(r)' /\ context'[r] = None => ~Judged(r)'
  BY DEF VerdictInv, AnonymousInv, LetThrough, Judged
<1>2. ASSUME credential[r] \in Token, clock >= credential[r].exp - Skew
      PROVE  clock' >= credential'[r].exp - Skew
  BY <1>2, AuthAssumption DEF IInv, TypeOK, Token
<1>3. RefusalIsTrue(r)'
  BY <1>2 DEF VerdictInv, RefusalIsTrue, Judged
<1> QED BY <1>1, <1>3

\* A step of the world, and none of the service's.
LEMMA WorldVerdict ==
  ASSUME IInv, VerdictInv, UNCHANGED <<order, request>>, clock' \in Nat, clock' >= clock
  PROVE  VerdictInv'
<1>1. \A r \in Request : /\ LetThrough(r)' /\ context'[r] = None => ~Judged(r)'
                         /\ RefusalIsTrue(r)'
  BY VerdictKept DEF request
<1> QED BY <1>1 DEF VerdictInv, AnonymousInv

LEMMA ArriveVerdict ==
  ASSUME IInv, VerdictInv, NEW r \in Request, NEW rt \in Route, NEW cred \in NoToken \union InHand,
         Arrive(r, rt, cred) \/ Answered(r)
  PROVE  VerdictInv'
<1>1. order' = order /\ clock' = clock /\ clock \in Nat /\ at'[r] \in {"idle", "first"}
  BY DEF Arrive, Answered, IInv, TypeOK
<1>2. \A s \in Request \ {r} :
        /\ at'[s] = at[s] /\ why'[s] = why[s] /\ context'[s] = context[s]
        /\ route'[s] = route[s] /\ credential'[s] = credential[s]
  BY DEF Arrive, Answered, IInv, TypeOK
<1>3. \A s \in Request \ {r} : /\ LetThrough(s)' /\ context'[s] = None => ~Judged(s)'
                               /\ RefusalIsTrue(s)'
  BY <1>1, <1>2, VerdictKept
<1>4. ~LetThrough(r)' /\ RefusalIsTrue(r)'
  BY <1>1 DEF LetThrough, RefusalIsTrue
<1> QED BY <1>3, <1>4 DEF VerdictInv, AnonymousInv

LEMMA AuthGuardVerdict ==
  ASSUME IInv, NEW r \in Request, AuthGuard(r)
  PROVE  /\ LetThrough(r)' /\ context'[r] = None => ~Judged(r)'
         /\ RefusalIsTrue(r)'
<1>1. UNCHANGED <<clock, order, route, credential>> /\ Judged(r)' = Judged(r)
  BY DEF AuthGuard, Judged
<1>2. CASE StepAside(r)
  <2>1. ~Judged(r) /\ at'[r] \in {"second", "handled"}
    BY <1>2 DEF StepAside, Judged, Pass, IInv, TypeOK
  <2> QED BY <1>1, <2>1 DEF RefusalIsTrue
<1>3. CASE NotPresented(r)
  <2>1. credential[r] \in NoToken /\ at'[r] = "refused" /\ why'[r] = "Unauthenticated"
    BY <1>3 DEF NotPresented, Refuse, NoToken, IInv, TypeOK
  <2> QED BY <1>1, <2>1 DEF LetThrough, RefusalIsTrue
<1>4. ASSUME NEW now \in (clock - Skew)..(clock + Skew), VerifyFails(r, now)
      PROVE  /\ LetThrough(r)' /\ context'[r] = None => ~Judged(r)'
             /\ RefusalIsTrue(r)'
  <2>1. at'[r] = "refused"
    BY <1>4 DEF VerifyFails, Refuse, IInv, TypeOK
  <2>2. why'[r] = "TokenExpired" => credential[r] \in Token /\ now >= credential[r].exp
    BY <1>4 DEF VerifyFails, Refuse, Expired, IInv, TypeOK
  <2>3. why'[r] = "Unauthenticated" =>
          credential[r] \in NoToken \/ credential[r].claims \in {"no tenant", "no kind"}
    BY <1>4 DEF VerifyFails, Refuse, NoToken, IInv, TypeOK
  <2>4. ASSUME credential[r] \in Token, now >= credential[r].exp
        PROVE  clock >= credential[r].exp - Skew
    BY <2>4, AuthAssumption DEF IInv, TypeOK, Token
  <2> QED BY <1>1, <2>1, <2>2, <2>3, <2>4 DEF LetThrough, RefusalIsTrue
<1>5. ASSUME NEW now \in (clock - Skew)..(clock + Skew), Verified(r, now)
      PROVE  /\ LetThrough(r)' /\ context'[r] = None => ~Judged(r)'
             /\ RefusalIsTrue(r)'
  <2>1. context'[r] = ContextOf(credential[r]) /\ at'[r] \in {"second", "handled"}
    BY <1>5 DEF Verified, Pass, IInv, TypeOK
  <2>2. context'[r] # None
    BY <1>5, <2>1, VerifiedContext, ContextAssumption
  <2> QED BY <2>1, <2>2 DEF RefusalIsTrue
<1> QED BY <1>2, <1>3, <1>4, <1>5 DEF AuthGuard

\* PermissionGuard without a context: nobody was asked, or AuthGuard comes second.
LEMMA PermissionGuardVerdict ==
  ASSUME IInv, VerdictInv, NEW r \in Request, PermissionGuard(r)
  PROVE  /\ LetThrough(r)' /\ context'[r] = None => ~Judged(r)'
         /\ RefusalIsTrue(r)'
<1>1. UNCHANGED <<clock, order, route, credential, context>> /\ Judged(r)' = Judged(r)
  BY DEF PermissionGuard, Judged, Ungated, NoContext, Missing, Holds, Refuse
<1>2. \/ at[r] = "first" /\ order[1] = "PermissionGuard"
      \/ at[r] = "second" /\ order[1] = "AuthGuard"
  BY OrderOfGuards DEF PermissionGuard, AtGuard, IInv
<1>3. CASE Ungated(r) \/ Holds(r)
  <2>1. at'[r] = IF at[r] = "first" THEN "second" ELSE "handled"
    BY <1>3 DEF Ungated, Holds, Pass, IInv, TypeOK
  <2>2. LetThrough(r)' => LetThrough(r)
    BY <1>1, <1>2, <2>1 DEF LetThrough
  <2>3. at'[r] # "refused"
    BY <2>1
  <2> QED BY <1>1, <2>2, <2>3 DEF VerdictInv, AnonymousInv, RefusalIsTrue
<1>4. CASE NoContext(r)
  <2>1. at'[r] = "refused" /\ why'[r] = "Unauthenticated" /\ context[r] = None
    BY <1>4 DEF NoContext, Refuse, IInv, TypeOK
  <2>2. order[1] = "PermissionGuard" \/ ~Judged(r)
    BY <1>2, <2>1 DEF LetThrough, VerdictInv, AnonymousInv
  <2> QED BY <1>1, <2>1, <2>2 DEF LetThrough, RefusalIsTrue
<1>5. CASE Missing(r)
  <2>1. at'[r] = "refused" /\ why'[r] = "InsufficientPermission"
    BY <1>5 DEF Missing, Refuse, IInv, TypeOK
  <2> QED BY <2>1 DEF LetThrough, RefusalIsTrue
<1> QED BY <1>3, <1>4, <1>5 DEF PermissionGuard

LEMMA GuardVerdict ==
  ASSUME IInv, VerdictInv, NEW r \in Request, AuthGuard(r) \/ PermissionGuard(r)
  PROVE  VerdictInv'
<1>1. /\ LetThrough(r)' /\ context'[r] = None => ~Judged(r)'
      /\ RefusalIsTrue(r)'
  BY AuthGuardVerdict, PermissionGuardVerdict
<1>2. UNCHANGED <<clock, order, route, credential>> /\ clock \in Nat
  BY DEF AuthGuard, PermissionGuard, IInv, TypeOK
<1>3. \A s \in Request \ {r} : at'[s] = at[s] /\ context'[s] = context[s]
  BY GuardFrame
<1>4. \A s \in Request \ {r} : why'[s] = why[s]
  BY DEF AuthGuard, PermissionGuard, StepAside, NotPresented, VerifyFails, Verified,
         Refuse, Ungated, NoContext, Missing, Holds, IInv, TypeOK
<1>5. \A s \in Request \ {r} : /\ LetThrough(s)' /\ context'[s] = None => ~Judged(s)'
                               /\ RefusalIsTrue(s)'
  BY <1>2, <1>3, <1>4, VerdictKept
<1> QED BY <1>1, <1>5 DEF VerdictInv, AnonymousInv

LEMMA NextVerdict == IInv /\ VerdictInv /\ [Next]_vars => VerdictInv'
<1> SUFFICES ASSUME IInv, VerdictInv, [Next]_vars PROVE VerdictInv'
  OBVIOUS
<1>1. clock \in Nat
  BY DEF IInv, TypeOK
<1>2. CASE Tick
  BY <1>1, <1>2, WorldVerdict DEF Tick
<1>3. ASSUME NEW p \in Principal, NEW q \in Permission, Grant(p, q) \/ Revoke(p, q)
      PROVE  VerdictInv'
  BY <1>1, <1>3, WorldVerdict DEF Grant, Revoke
<1>4. ASSUME NEW p \in Principal, NEW c \in Claims, Mint(p, c)  PROVE VerdictInv'
  BY <1>1, <1>4, WorldVerdict DEF Mint
<1>5. CASE UNCHANGED vars
  BY <1>1, <1>5, WorldVerdict DEF vars
<1>6. ASSUME NEW r \in Request, Answered(r)  PROVE VerdictInv'
  <2>1. Nothing \in NoToken \union InHand /\ AnyRoute \in Route
    BY RouteAssumption DEF NoToken, AnyRoute
  <2> QED BY <1>6, <2>1, ArriveVerdict
<1> QED BY <1>2, <1>3, <1>4, <1>5, <1>6, ArriveVerdict, GuardVerdict DEF Next

\* Verdicts are true of every reachable state.
THEOREM Verdicts == Spec => []VerdictInv
<1>1. Init => VerdictInv
  BY DEF Init, VerdictInv, AnonymousInv, LetThrough, RefusalIsTrue
<1> QED BY <1>1, NextVerdict, Invariance, PTL DEF Spec

\* A handler that ran for nobody in particular is on a route registeredRoutes
\* lists as public, whatever its class and handler declare (AuthGuard.isPublic).
THEOREM NothingAnonymousIsUnlisted == Spec => []AnonymousRoutesAreListed
<1>1. \A rt \in Route : IsPublic(rt) => WalkIsPublic(rt)
  BY DEF IsPublic, Override, WalkIsPublic
<1>2. IInv /\ VerdictInv => AnonymousRoutesAreListed
  BY <1>1 DEF IInv, TypeOK, VerdictInv, AnonymousInv, LetThrough, Judged, AnonymousRoutesAreListed
<1> QED BY <1>2, Invariance, Verdicts, PTL

\* A 401 tells the truth about the token, in either order of the guards and
\* under any clock skew (AccessTokenService.verify, PermissionGuard).
THEOREM RefusalsTellTheTruth == Spec => []RefusalsAreTrue
<1>1. VerdictInv => RefusalsAreTrue
  BY RefusalsAreTrueAll DEF VerdictInv
<1> QED BY <1>1, Verdicts, PTL

-----------------------------------------------------------------------------
(* What the audited matrix is worth                                          *)

\* The handler's own list stands instead of its class's, and lacks some of it.
Replaced(rt) ==
  /\ None \notin {rt.permissions.handler, rt.permissions.class}
  /\ ~(rt.permissions.class \subseteq rt.permissions.handler)

\* A route the walk lists answered for the reason the walk gives: it is public, or
\* it declares nothing and the caller was authenticated, or the caller held what
\* the matrix pins for it, unless the handler's list replaced its class's.
\* (registered-route.ts: undeclaredRoutes and permissionMatrix, against the guards.)
AuditIsTrue ==
  \A r \in Request :
    at[r] = "handled" /\ route[r] \in registeredRoutes /\ ~Replaced(route[r]) =>
      \/ WalkIsPublic(route[r])
      \/ route[r] \in undeclaredRoutes /\ context[r] # None
      \/ /\ context[r] # None
         /\ permissionMatrix[route[r]] # {}
         /\ permissionMatrix[route[r]] \subseteq context[r].permissions

\* The guard never asks for more than the walk reports, and for all of it where
\* nothing is replaced.
LEMMA WalkAgainstGuard ==
  ASSUME NEW rt \in Route
  PROVE  /\ Required(rt) \subseteq WalkPermissions(rt)
         /\ ~Replaced(rt) => Required(rt) = WalkPermissions(rt)
<1>1. /\ rt.permissions.handler \in {None} \union SUBSET Permission
      /\ rt.permissions.class \in {None} \union SUBSET Permission
  BY RouteAssumption DEF Metadata
<1>2. WalkPermissions(rt) =
        {q \in Permission : \/ rt.permissions.handler # None /\ q \in rt.permissions.handler
                            \/ rt.permissions.class # None /\ q \in rt.permissions.class}
  BY <1>1 DEF WalkPermissions
<1>3. Required(rt) = IF rt.permissions.handler # None THEN rt.permissions.handler
                     ELSE IF rt.permissions.class # None THEN rt.permissions.class ELSE {}
  BY DEF Required, Override
<1>4. CASE rt.permissions.handler # None
  BY <1>1, <1>2, <1>3, <1>4 DEF Replaced
<1>5. CASE rt.permissions.handler = None
  BY <1>1, <1>2, <1>3, <1>5
<1> QED BY <1>4, <1>5

LEMMA AuditFollows == IInv /\ VerdictInv => AuditIsTrue
<1> SUFFICES ASSUME IInv, VerdictInv,
                    NEW r \in Request, at[r] = "handled", route[r] \in registeredRoutes,
                    ~Replaced(route[r]), ~WalkIsPublic(route[r])
             PROVE  \/ route[r] \in undeclaredRoutes /\ context[r] # None
                    \/ /\ context[r] # None
                       /\ permissionMatrix[route[r]] # {}
                       /\ permissionMatrix[route[r]] \subseteq context[r].permissions
  BY DEF AuditIsTrue
<1>1. route[r] \in Route /\ Judged(r)
  BY DEF registeredRoutes, Judged, IsPublic, Override, WalkIsPublic
<1>2. context[r] # None
  BY <1>1 DEF VerdictInv, AnonymousInv, LetThrough
<1>3. Required(route[r]) = WalkPermissions(route[r])
  BY <1>1, WalkAgainstGuard
<1>4. permissionMatrix[route[r]] = WalkPermissions(route[r])
  BY DEF permissionMatrix
<1>5. Required(route[r]) \subseteq context[r].permissions
  BY DEF IInv, GateInv, PassedGate
<1> QED BY <1>2, <1>3, <1>4, <1>5 DEF undeclaredRoutes

\* The matrix is the truth about every route whose handler's permissions include
\* its class's, or that lists them in one place only: the replaced ones are all that
\* an audit by registered-route.ts gets wrong.
THEOREM AuditsAreTrue == Spec => []AuditIsTrue
BY AuditFollows, Invariance, Verdicts, PTL
=============================================================================
