------------------------------- MODULE M2MTokens -------------------------------
(***************************************************************************)
(* Tokens between machines: the API tokens an operator issues, rotates and   *)
(* revokes (lib/support/apiTokens.ts, in memory), the short-lived JWTs        *)
(* (lib/support/m2m.ts), the cache of the one the dashboard sends to the      *)
(* Gateway (lib/sidl/gateway.ts), and the authentication of a request.        *)
(* Signing a JWT awaits, so calls that missed the cache overlap.  Times are   *)
(* in units the lifetimes are multiples of.                                  *)
(***************************************************************************)
EXTENDS Integers, Sequences, FiniteSets

CONSTANTS
    Services,        \* SERVICE_IDS without "external"
    Permissions,     \* SERVICE_PERMISSIONS: the ceiling of each service
    Internal,        \* the scope "m2m:internal"
    AdminService,    \* "admin-dashboard"
    GatewayScopes,   \* GATEWAY_JWT_SCOPES
    ExternalScopes,  \* what the configured external key may do
    MinTtl, MaxTtl, MaxSkew,    \* limits of the configuration
    JwtConfigs,      \* [mode, ttl, skew, complete]
    Callers,         \* calls to the Gateway that may overlap
    AuthRequests,    \* requests to authenticate
    TokenScopes,     \* scopes asked for an API token
    TokenTtls, Graces,
    MaxTokens,       \* MAX_TOKENS_PER_STORE
    MaxTokenTime

ASSUME TokensAssumption ==
    /\ MinTtl \in Nat \ {0} /\ MaxTtl \in Nat /\ MinTtl <= MaxTtl
    /\ MaxSkew \in Nat /\ MaxTokens \in Nat /\ MaxTokenTime \in Nat
    /\ TokenTtls \subseteq Int /\ Graces \subseteq Int
    /\ AdminService \in Services /\ GatewayScopes \subseteq Permissions[AdminService]
    /\ Internal \in GatewayScopes /\ "external" \notin Services
    /\ \A k \in JwtConfigs : k.ttl \in Int /\ k.skew \in Int /\ k.complete \in BOOLEAN

VARIABLES
    tkNow,       \* the clock
    tkConfig,    \* the configuration the process was started with
    tkTokens,    \* the API tokens, in the order they were issued
    tkCache,     \* the cached Gateway JWT, or NoJwt
    tkCalls      \* where each call to the Gateway is

tkVars == <<tkNow, tkConfig, tkTokens, tkCache, tkCalls>>

NoJwt == [exp |-> -1]

NotCalling == [at |-> "idle"]

AuthRefused == [valid |-> FALSE]

TkInit ==
    /\ tkNow = 0 /\ tkConfig \in JwtConfigs
    /\ tkTokens = <<>> /\ tkCache = NoJwt
    /\ tkCalls = [c \in Callers |-> NotCalling]

---------------------------------------------------------------------------
(* API tokens.  Scopes outside of the dashboard's own are dropped silently.  *)
Permitted(scopes) == scopes \cap Permissions[AdminService]

Full == Len(tkTokens) >= MaxTokens

NewToken(scopes, ttl, previous) ==
    [scopes |-> Permitted(scopes), expires |-> tkNow + ttl, revoked |-> FALSE, previous |-> previous]

Store(tokens) ==
    /\ tkTokens' = tokens
    /\ UNCHANGED <<tkNow, tkConfig, tkCache, tkCalls>>

IssueToken(scopes, ttl) == ~Full /\ Store(Append(tkTokens, NewToken(scopes, ttl, 0)))

(* An expired token may be updated and rotated, a revoked one may not.       *)
UpdateToken(t, scopes) ==
    ~tkTokens[t].revoked /\ Store([tkTokens EXCEPT ![t].scopes = Permitted(scopes)])

\* Mutant: the new token takes the place of the old one.
RotateTokenInPlace(t, grace, ttl) ==
    /\ ~tkTokens[t].revoked /\ ~Full
    /\ Store([tkTokens EXCEPT ![t] = NewToken(tkTokens[t].scopes, ttl, t)])

(* The expiry of the old token is set before the new one is issued, and       *)
(* stays set when the store is full and the issue throws.                    *)
RotateToken(t, grace, ttl) ==
    LET shortened == [tkTokens EXCEPT ![t].expires = tkNow + grace] IN
    /\ ~tkTokens[t].revoked
    /\ Store(IF Full THEN shortened
             ELSE Append(shortened, NewToken(tkTokens[t].scopes, ttl, t)))

RevokeToken(t) == Store([tkTokens EXCEPT ![t].revoked = TRUE])

(* verifyToken: its callers name no scope and no address.                    *)
TokenAccepted(t) == ~tkTokens[t].revoked /\ tkTokens[t].expires > tkNow

---------------------------------------------------------------------------
(* JWTs.                                                                     *)
ConfigValid ==
    /\ tkConfig.complete /\ tkConfig.mode # "invalid"
    /\ tkConfig.ttl \in MinTtl .. MaxTtl /\ tkConfig.skew \in 0 .. MaxSkew

ScopesAllowed(service, scopes) ==
    service \in Services /\ scopes \subseteq Permissions[service] /\ Internal \in scopes

Jwt(service, scopes, now) ==
    [good |-> TRUE, sub |-> service, scopes |-> scopes,
     iat |-> now, nbf |-> now, exp |-> now + tkConfig.ttl]

LifetimeValid(jwt, now) ==
    /\ jwt.exp - jwt.iat \in MinTtl .. MaxTtl
    /\ jwt.nbf <= jwt.exp
    /\ jwt.iat <= now + tkConfig.skew /\ jwt.nbf <= now + tkConfig.skew
    /\ jwt.exp > now - tkConfig.skew

(* "good" stands for the signature, the header, the issuer, the audience, the *)
(* identifier and the form of the claims.                                    *)
JwtAccepted(jwt, now) ==
    ConfigValid /\ jwt.good /\ ScopesAllowed(jwt.sub, jwt.scopes) /\ LifetimeValid(jwt, now)

---------------------------------------------------------------------------
\* Mutant: the lifetime that is left is not looked at.
CacheUsableAlways == tkCache # NoJwt

(* Calls to the Gateway: the configuration is checked, the cache is asked,    *)
(* and a JWT that was missing is signed and cached when the await returns.    *)
CacheUsable == tkCache # NoJwt /\ tkCache.exp - tkNow > tkConfig.skew

Sent(headers, jwt) == [at |-> "sent", headers |-> headers, jwt |-> jwt, time |-> tkNow]

LegacyHeaders == IF tkConfig.mode = "jwt" THEN {} ELSE {"legacy"}

Calls(c, to) ==
    /\ tkCalls' = [tkCalls EXCEPT ![c] = to]
    /\ UNCHANGED <<tkNow, tkConfig, tkTokens>>

CallGateway(c) ==
    /\ tkCalls[c] = NotCalling
    /\ \/ tkConfig.mode = "legacy" /\ Calls(c, Sent({"legacy"}, NoJwt))
       \/ /\ tkConfig.mode \in {"dual", "jwt"} /\ ConfigValid
          /\ Calls(c, IF CacheUsable THEN Sent(LegacyHeaders \cup {"bearer"}, tkCache)
                      ELSE [at |-> "signing", now |-> tkNow])
    /\ UNCHANGED tkCache

Signed(c) == Jwt(AdminService, GatewayScopes, tkCalls[c].now)

FinishSigning(c) ==
    /\ tkCalls[c].at = "signing"
    /\ tkCache' = Signed(c)
    /\ Calls(c, Sent(LegacyHeaders \cup {"bearer"}, Signed(c)))

GatewayAnswers(c) ==
    /\ tkCalls[c].at = "sent"
    /\ Calls(c, NotCalling)
    /\ UNCHANGED tkCache

---------------------------------------------------------------------------
(* authenticate: an Authorization header decides alone, then an API token in  *)
(* its own header; then the legacy keys, of which the first good one counts.  *)
(* A request is [bearer, token, admin, service, external]; answering it        *)
(* changes nothing but the time of last use of a token, which is left out.   *)
AuthAccepted(source, who, scopes) ==
    [valid |-> TRUE, source |-> source, who |-> who, scopes |-> scopes]

ByToken(t) ==
    IF t \in DOMAIN tkTokens /\ TokenAccepted(t)
    THEN AuthAccepted("token", AdminService, tkTokens[t].scopes) ELSE AuthRefused

ByBearer(b) ==
    CASE b.kind = "token" -> ByToken(b.token)
      [] b.kind = "jwt" /\ JwtAccepted(b.jwt, tkNow) -> AuthAccepted("jwt", b.jwt.sub, b.jwt.scopes)
      [] OTHER -> AuthRefused

(* Whether a service key is good is the registry's answer; see M2MRegistry   *)
(* and M2MKeyLifecycle.                                                      *)
ByKeys(r) ==
    CASE r.admin = "good" -> AuthAccepted("admin", AdminService, Permissions[AdminService])
      [] r.admin # "good" /\ r.service \in Services -> AuthAccepted("service", r.service, Permissions[r.service])
      [] r.admin # "good" /\ r.service \notin Services /\ r.external = "known" ->
            AuthAccepted("external", "external", ExternalScopes)
      [] OTHER -> AuthRefused

Authenticated(r) ==
    CASE r.bearer.kind # "none" -> ByBearer(r.bearer)
      [] r.bearer.kind = "none" /\ r.token # 0 -> ByToken(r.token)
      [] OTHER -> ByKeys(r)

(* Signing is quick compared with a lifetime: it never outlasts the shortest.*)
TkTick ==
    /\ tkNow < MaxTokenTime
    /\ \A c \in Callers : tkCalls[c].at = "signing" => tkNow + 1 < tkCalls[c].now + MinTtl
    /\ tkNow' = tkNow + 1
    /\ UNCHANGED <<tkConfig, tkTokens, tkCache, tkCalls>>

TkNext ==
    \/ \E scopes \in TokenScopes, ttl \in TokenTtls : IssueToken(scopes, ttl)
    \/ \E t \in DOMAIN tkTokens :
        \/ \E scopes \in TokenScopes : UpdateToken(t, scopes)
        \/ \E grace \in Graces, ttl \in TokenTtls : RotateToken(t, grace, ttl)
        \/ RevokeToken(t)
    \/ \E c \in Callers : CallGateway(c) \/ FinishSigning(c) \/ GatewayAnswers(c)
    \/ TkTick

---------------------------------------------------------------------------
(* Every variable of the token stores has its type. *)
TkTypeOK ==
    /\ tkNow \in 0 .. MaxTokenTime /\ tkConfig \in JwtConfigs
    /\ \A t \in DOMAIN tkTokens :
        tkTokens[t].expires \in Int /\ tkTokens[t].revoked \in BOOLEAN
        /\ tkTokens[t].previous \in 0 .. t - 1
    /\ tkCache = NoJwt \/ tkCache.exp - tkCache.iat = tkConfig.ttl
    /\ \A c \in Callers : tkCalls[c].at \in {"idle", "signing", "sent"}

(* What a call takes to the Gateway is accepted there at that moment, also    *)
(* when it came out of the cache, by a verifier whose clock is off by no more*)
(* than the configured skew (getCachedGatewayJwt, lines 56-92).               *)
HandedOutAccepted ==
    \A c \in Callers : tkCalls[c].at = "sent" /\ "bearer" \in tkCalls[c].headers =>
        \A clock \in tkCalls[c].time - tkConfig.skew .. tkCalls[c].time + tkConfig.skew :
            JwtAccepted(tkCalls[c].jwt, clock)

(* However a token came to be, by issue, update or a chain of rotations, it   *)
(* carries no scope the dashboard does not have; nor does any request that is *)
(* let in, whatever it was let in by.                                        *)
ScopesBounded ==
    /\ \A t \in DOMAIN tkTokens : tkTokens[t].scopes \subseteq Permissions[AdminService]
    /\ \A r \in AuthRequests : LET answer == Authenticated(r) IN
        answer.valid /\ answer.who \in Services => answer.scopes \subseteq Permissions[answer.who]

TkSound == HandedOutAccepted /\ ScopesBounded /\ Len(tkTokens) <= MaxTokens

(* A revoked token is never accepted again, and no step takes a token's record *)
(* away or gives it to another: a list of tokens tells what there ever was.   *)
TkFinal ==
    \A t \in DOMAIN tkTokens :
        /\ t \in DOMAIN tkTokens'
        /\ tkTokens'[t].previous = tkTokens[t].previous
        /\ tkTokens[t].revoked => ~TokenAccepted(t)'
=============================================================================
