---------------------------- MODULE IdentityAccess ----------------------------
(***************************************************************************)
(* Who a request comes from and what it may reach: API keys that platform  *)
(* administrators create and delete, JWTs that expire, the X-Identity      *)
(* header of test deployments, the checks of the HTTP dependencies, and    *)
(* WebSockets, which are checked once, when they connect.                  *)
(*                                                                         *)
(* A role is the sequence of the names its commas separate: <<"dev">> is a *)
(* plain role, <<>> a blank one, <<"dev", "ops">> one with a comma.  The   *)
(* key store writes roles as one comma-separated column, which is here the *)
(* set of the names in it: what is read back ends as a set of roles.       *)
(***************************************************************************)
EXTENDS Naturals, FiniteSets, SequencesExt

CONSTANTS
  AccessTenants,    \* tenant ids; "" stands for a blank one
  RoleLists,        \* sequences of roles that a create request may carry
  Jwts,             \* signed tokens: [id, subject, tenant, roles]
  Assertions,       \* X-Identity payloads: [subject, tenant, roles, state]
  Deployments,      \* [environment, jwt, crossTenant]: settings of a deployment
  MaxKeys           \* bound: keys created

ASSUME AccessAssumption == MaxKeys \in Nat /\ RoleLists \subseteq Seq(Seq(STRING))

VARIABLES
  deployment,       \* the settings the service runs with
  keyTable,         \* api_keys: key id -> [tenant, csv]
  asked_for,          \* key id -> [tenant, roles]: what its creator asked for
  expiredJwts,      \* ids of the tokens whose exp has passed
  answered          \* the last answer: [kind, headers, identity, ...], or NoAnswer

accessVars == <<deployment, keyTable, asked_for, expiredJwts, answered>>

None == [kind |-> "none"]
NoAnswer == [kind |-> "none"]
Key(k) == [kind |-> "key", id |-> k]
Token(j) == [kind |-> "jwt", jwt |-> j]

KeyIds == 1..MaxKeys
PlatformAdminRoles == {<<"platform_admin">>, <<"super_admin">>}
CrossTenantRoles == {<<"super_admin">>}

\* Headers of a request: Bearer carries a key or a token, the others at most one credential.
Credentials == {Key(k) : k \in KeyIds} \cup {Token(j) : j \in Jwts}
HeaderSets ==
  {[bearer |-> b, apiKey |-> k, assertion |-> a] :
     b \in {None} \cup Credentials,
     k \in {None} \cup {Key(x) : x \in KeyIds},
     a \in {None} \cup Assertions}

AccessInit ==
  /\ deployment \in Deployments
  /\ keyTable = [k \in {} |-> None] /\ asked_for = keyTable
  /\ expiredJwts = {} /\ answered = NoAnswer

-----------------------------------------------------------------------------
(* Identities *)

Identity(via, tenant, roles, state) ==
  [via |-> via, tenant |-> tenant, roles |-> {r \in roles : r # <<>>}, state |-> state]
Nobody == Identity(None, "", {}, "none")

OrDefault(tenant) == IF tenant = "" THEN "default" ELSE tenant

\* The roles column, and how it is read back: each name between two commas is a role.
JoinRoles(roles) == UNION {ToSet(r) : r \in roles}
SplitRoles(csv) == {<<name>> : name \in csv}

\* _resolve_from_api_key and lookup_by_hash.
FromApiKey(credential) ==
  IF credential.kind = "key" /\ credential.id \in DOMAIN keyTable
  THEN LET row == keyTable[credential.id] IN
       Identity(credential, row.tenant, SplitRoles(row.csv), "valid")
  ELSE Nobody

\* _resolve_from_jwt: nobody without a secret or for what is no token or has no subject.
FromJwt(credential) ==
  IF ~deployment.jwt \/ credential.kind # "jwt" THEN Nobody
  ELSE LET j == credential.jwt IN
       IF j.id \in expiredJwts THEN Identity(credential, "default", {}, "expired")
       ELSE IF ~j.subject THEN Nobody
       ELSE Identity(credential, OrDefault(j.tenant), ToSet(j.roles), "valid")

\* resolve_identity of the X-Identity payload.
FromAssertion(a) ==
  IF a = None \/ ~a.subject THEN Nobody
  ELSE Identity([kind |-> "assertion", of |-> a], OrDefault(a.tenant), ToSet(a.roles), a.state)

\* Mutation: a Bearer credential that resolves to nobody falls through to the other headers.
ExtractIdentityFallsThrough(headers) ==
  LET bearer == IF FromJwt(headers.bearer) # Nobody THEN FromJwt(headers.bearer)
                ELSE FromApiKey(headers.bearer) IN
  IF headers.bearer # None /\ bearer # Nobody THEN bearer
  ELSE IF headers.apiKey # None THEN FromApiKey(headers.apiKey)
  ELSE IF deployment.environment \in {"test", "development"} THEN FromAssertion(headers.assertion)
  ELSE Nobody

\* extract_identity: Bearer decides alone when it is there, then X-API-Key, then X-Identity.
ExtractIdentity(headers) ==
  IF headers.bearer # None
  THEN IF FromJwt(headers.bearer) # Nobody THEN FromJwt(headers.bearer)
       ELSE FromApiKey(headers.bearer)
  ELSE IF headers.apiKey # None THEN FromApiKey(headers.apiKey)
  ELSE IF deployment.environment \in {"test", "development"} THEN FromAssertion(headers.assertion)
  ELSE Nobody

\* get_identity and require_valid_identity.
Usable(identity) == identity # Nobody /\ identity.state \notin {"invalid", "expired"}

IsPlatformAdmin(identity) == identity.roles \cap PlatformAdminRoles # {}

CrossTenantAllowed(identity) ==
  deployment.crossTenant /\ identity.roles \cap CrossTenantRoles # {}

\* enforce_tenant_scope; the bypass is for the admin routes below /tenants/ only.
InScope(identity, tenant, adminRoute) ==
  \/ identity.tenant # "" /\ identity.tenant = tenant
  \/ adminRoute /\ CrossTenantAllowed(identity)

\* scoped_tenant_id of a key listing.
ScopedTenant(identity, requested) == IF requested = "" THEN identity.tenant ELSE requested

-----------------------------------------------------------------------------
(* Requests *)

Answered(kind, headers) ==
  answered' = [kind |-> kind, headers |-> headers, identity |-> ExtractIdentity(headers)]

Refuse(headers) ==
  /\ ~Usable(ExtractIdentity(headers))
  /\ answered' = NoAnswer
  /\ UNCHANGED <<deployment, keyTable, asked_for, expiredJwts>>

CreateApiKey(headers, tenant, roles) ==
  /\ Usable(ExtractIdentity(headers))
  /\ IsPlatformAdmin(ExtractIdentity(headers))
  /\ tenant # ""
  /\ Cardinality(DOMAIN asked_for) < MaxKeys
  /\ LET id == Cardinality(DOMAIN asked_for) + 1
         kept == {r \in ToSet(roles) : r # <<>>} IN
     /\ keyTable' = [k \in DOMAIN keyTable \cup {id} |->
                       IF k = id THEN [tenant |-> tenant, csv |-> JoinRoles(kept)] ELSE keyTable[k]]
     /\ asked_for' = [k \in DOMAIN asked_for \cup {id} |->
                       IF k = id THEN [tenant |-> tenant, roles |-> kept] ELSE asked_for[k]]
  /\ Answered("create", headers)
  /\ UNCHANGED <<deployment, expiredJwts>>

ListApiKeys(headers, requested) ==
  LET identity == ExtractIdentity(headers)
      tenant == ScopedTenant(identity, requested) IN
  /\ Usable(identity) /\ IsPlatformAdmin(identity)
  /\ answered' = [kind |-> "list", headers |-> headers, identity |-> identity,
                  keys |-> {k \in DOMAIN keyTable : keyTable[k].tenant = tenant}]
  /\ UNCHANGED <<deployment, keyTable, asked_for, expiredJwts>>

DeleteApiKey(headers, k) ==
  /\ Usable(ExtractIdentity(headers))
  /\ IsPlatformAdmin(ExtractIdentity(headers))
  /\ k \in DOMAIN keyTable
  /\ keyTable' = [x \in DOMAIN keyTable \ {k} |-> keyTable[x]]
  /\ Answered("delete", headers)
  /\ UNCHANGED <<deployment, asked_for, expiredJwts>>

\* A request to a route under /tenants/{tenant_id}, admin or not.
TenantCall(headers, tenant, adminRoute) ==
  /\ Usable(ExtractIdentity(headers))
  /\ InScope(ExtractIdentity(headers), tenant, adminRoute)
  /\ Answered("tenant", headers)
  /\ UNCHANGED <<deployment, keyTable, asked_for, expiredJwts>>

\* A request to /v1: the tenant is the identity's own.
GatewayRequest(headers) ==
  /\ Usable(ExtractIdentity(headers))
  /\ ExtractIdentity(headers).tenant # ""
  /\ Answered("gateway", headers)
  /\ UNCHANGED <<deployment, keyTable, asked_for, expiredJwts>>

\* The WebSocket route has no /admin/ in its path, so nobody crosses tenants on it.  Its turns
\* are not checked again.
Connect(headers, tenant) ==
  /\ Usable(ExtractIdentity(headers))
  /\ ExtractIdentity(headers).tenant = tenant
  /\ Answered("connect", headers)
  /\ UNCHANGED <<deployment, keyTable, asked_for, expiredJwts>>

Expire(j) ==
  /\ j.id \notin expiredJwts
  /\ expiredJwts' = expiredJwts \cup {j.id}
  /\ answered' = NoAnswer
  /\ UNCHANGED <<deployment, keyTable, asked_for>>

AccessNext ==
  \/ \E h \in HeaderSets :
       \/ Refuse(h)
       \/ \E t \in AccessTenants, roles \in RoleLists : CreateApiKey(h, t, roles)
       \/ \E t \in AccessTenants : ListApiKeys(h, t)
       \/ \E k \in KeyIds : DeleteApiKey(h, k)
       \/ \E t \in AccessTenants, admin \in BOOLEAN : TenantCall(h, t, admin)
       \/ GatewayRequest(h)
       \/ \E t \in AccessTenants : Connect(h, t)
  \/ \E j \in Jwts : Expire(j)

AccessSpec == AccessInit /\ [][AccessNext]_accessVars

-----------------------------------------------------------------------------
Plain(roles) == \A r \in roles : Len(r) = 1

Genuine(answer) ==
  LET who == answer.identity
      via == who.via IN
  CASE via.kind = "key" ->
         /\ via \in {answer.headers.bearer, answer.headers.apiKey}
         /\ via.id \in DOMAIN keyTable
         /\ who.tenant = asked_for[via.id].tenant
         /\ Plain(asked_for[via.id].roles) => who.roles = asked_for[via.id].roles
    [] via.kind = "jwt" -> via = answer.headers.bearer /\ via.jwt.id \notin expiredJwts
    [] via.kind = "assertion" ->
         /\ answer.headers.bearer = None /\ answer.headers.apiKey = None
         /\ deployment.environment # "production"

(* Every request that is answered acts for whom its first credential names: an API key that is  *)
(* in the store at that moment, with the tenant it was created for and, unless a role of it     *)
(* contains a comma, exactly the roles it was created with; a JWT that has not expired; or, in  *)
(* a test deployment and with no other credential, the X-Identity header.  A deleted key or an  *)
(* expired token is never made good by another header.                                          *)
AdmittedAsGranted ==
  [][answered' # answered /\ answered' # NoAnswer => Genuine(answered')]_accessVars
=============================================================================
