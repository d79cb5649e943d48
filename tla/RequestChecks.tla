---------------------------- MODULE RequestChecks ----------------------------
(* One request through the checks of its gateway and of its route          *)
(* (agentgateway/src/proxy/httpproxy.rs, apply_gateway_policies and        *)
(* apply_request_policies, with http/jwt.rs, basicauth.rs, apikey.rs,      *)
(* ext_authz.rs, authorization.rs, remoteratelimit.rs, csrf.rs, cors.rs).  *)
(*                                                                         *)
(* Three places hold what is known of the caller: the header it brought,   *)
(* the claims left with the request by the checks that verified it, and    *)
(* the context that rules are evaluated in, which takes only what the      *)
(* expressions registered so far ask for.  An executor is a copy of that   *)
(* context, made when a check first needs one.                             *)
(*                                                                         *)
(* The headers and the method are not the client's for long: authorization *)
(* and rate limit servers, external processors, transformations and header *)
(* modifiers write to the request between one check and the next.          *)
EXTENDS Naturals

CONSTANT CheckPolicy \* level -> the sets of policies that may be set there

CheckLevel == {"gateway", "route"}
Credential == {"jwt", "basic", "key"}
Kind == Credential \cup {"meta"} \* meta: the metadata of an authorization server

Header == {"none", "token", "api key", "stranger", "user", "intruder"}
Origin == {"absent", "null", "own", "listed", "foreign", "malformed"}
Site == {"absent", "same", "cross", "malformed"}
CheckMethod == {"GET", "OPTIONS", "POST"}
RequestParts == [auth : Header, origin : Origin, site : Site, method : CheckMethod]

(* What is written to a request: for each part a new value, or it is kept. *)
Patch == [auth : Header \cup {"kept"}, origin : Origin \cup {"kept"}, site : Site \cup {"kept"},
          method : CheckMethod \cup {"kept"}]

(* What may be set at a level: the modes of each kind of credential, the   *)
(* failure mode of the authorization server, what expressions and rules    *)
(* read, what the level's servers, transformation and header modifier may  *)
(* write, and the rest.  "off" is a policy that is not there.              *)
CheckSettings ==
  [jwt : {"off", "strict", "optional", "permissive"}, basic : {"off", "strict", "optional"},
   key : {"off", "strict", "optional"}, authz : {"off", "allow", "deny", "status"},
   reads : SUBSET Kind, limit : BOOLEAN, allow : SUBSET Kind, deny : SUBSET Kind,
   writes : SUBSET Patch, csrf : BOOLEAN, cors : {"off", "any", "list"}]

ASSUME CheckPolicyAssumption == \A l \in CheckLevel : CheckPolicy[l] \subseteq CheckSettings

VARIABLES
  policies,   \* level -> the policies set
  brought,    \* the request as it came, and as it is now
  head,
  wrote,      \* level -> the parts of it that were written there
  claims,     \* what was verified, with the request
  registered, \* what the expressions registered so far ask for
  inContext,      \* what the context holds
  executor,   \* a copy of the context: [built, sees]
  at,         \* the next check: [level, check]
  asked,      \* level -> what the authorization server said
  charged,    \* the rate limit service has counted the request
  allowOrigin,\* the response will name the origin as allowed
  outcome

checkVars == <<policies, brought, head, wrote, claims, registered, inContext, executor, at, asked,
               charged, allowOrigin, outcome>>

NotBuilt == [built |-> FALSE, sees |-> {}]

(* The order of the checks.                                                *)
After ==
  [gateway |-> [jwt |-> "basic", basic |-> "key", key |-> "authz", authz |-> "others",
                others |-> "transform", transform |-> "register"],
   route |-> [jwt |-> "basic", basic |-> "key", key |-> "authz", authz |-> "rules",
              rules |-> "limit", limit |-> "others", others |-> "transform",
              transform |-> "csrf", csrf |-> "modifier", modifier |-> "cors", cors |-> "answers", answers |-> "end"]]

CheckTypeOK ==
  /\ {brought, head} \subseteq RequestParts
  /\ wrote \in [CheckLevel -> SUBSET DOMAIN head]
  /\ claims \subseteq Kind /\ registered \subseteq Kind
  /\ inContext \subseteq claims
  /\ executor \in [built : BOOLEAN, sees : SUBSET inContext]
  /\ at.level \in CheckLevel /\ at.check \in DOMAIN After[at.level] \cup {"register", "end"}
  /\ asked \in [CheckLevel -> {"nobody", "ok", "denied", "unavailable"}]
  /\ charged \in BOOLEAN /\ allowOrigin \in BOOLEAN
  /\ outcome \in {"open", "refused", "answered", "forwarded"}

CheckInit ==
  /\ policies \in [gateway : CheckPolicy["gateway"], route : CheckPolicy["route"]]
  /\ brought \in RequestParts
  /\ head = brought /\ wrote = [l \in CheckLevel |-> {}]
  /\ registered = policies["gateway"].reads
  /\ claims = {} /\ inContext = {} /\ executor = NotBuilt
  /\ at = [level |-> "gateway", check |-> "jwt"]
  /\ asked = [l \in CheckLevel |-> "nobody"]
  /\ charged = FALSE /\ allowOrigin = FALSE /\ outcome = "open"

Policy == policies[at.level]
AtCheck(c) == outcome = "open" /\ at.check = c

Passes == at' = [at EXCEPT !.check = After[at.level][at.check]] /\ UNCHANGED outcome
Ends(o) == outcome' = o /\ UNCHANGED at

requestNow == <<head, wrote>>
identity == <<requestNow, claims, inContext>>
config == <<policies, brought>>
later == <<charged, allowOrigin>>

(* Something of the level writes to the request, or does not.              *)
WritePatch(p) ==
  /\ head' = [f \in DOMAIN head |-> IF p[f] = "kept" THEN head[f] ELSE p[f]]
  /\ wrote' = [wrote EXCEPT ![at.level] = @ \cup {f \in DOMAIN head : p[f] # "kept"}]

Rewrites == UNCHANGED requestNow \/ \E p \in Policy.writes : WritePatch(p)
(* Headers only, without the method.                                       *)
RewritesHeaders == UNCHANGED requestNow \/ \E p \in Policy.writes : p.method = "kept" /\ WritePatch(p)

-----------------------------------------------------------------------------
(* Who calls.                                                              *)

(* Tokens and keys are both bearers.                                       *)
Presented(k) ==
  head.auth \in (IF k = "basic" THEN {"user", "intruder"} ELSE {"token", "api key", "stranger"})
Valid(k) == head.auth = [jwt |-> "token", basic |-> "user", key |-> "api key"][k]

Remember(k) ==
  /\ claims' = claims \cup {k}
  /\ inContext' = inContext \cup ({k} \cap registered)

(* A credential that is verified is taken from the request.                *)
Identify(k) ==
  /\ AtCheck(k) /\ Policy[k] # "off" /\ Valid(k)
  /\ Remember(k) /\ head' = [head EXCEPT !.auth = "none"]
  /\ Passes /\ UNCHANGED <<config, wrote, registered, executor, asked, later>>

(* Another one is refused, but by a permissive policy.                     *)
Disbelieve(k) ==
  /\ AtCheck(k) /\ Policy[k] # "off" /\ Presented(k) /\ ~Valid(k)
  /\ IF Policy[k] = "permissive" THEN Passes ELSE Ends("refused")
  /\ UNCHANGED <<identity, config, registered, executor, asked, later>>

(* No credential of this kind.                                             *)
Anonymous(k) ==
  /\ AtCheck(k) /\ (Policy[k] = "off" \/ ~Presented(k))
  /\ IF Policy[k] = "strict" THEN Ends("refused") ELSE Passes
  /\ UNCHANGED <<identity, config, registered, executor, asked, later>>

-----------------------------------------------------------------------------
(* The authorization server.                                               *)

Built == IF executor.built THEN executor ELSE [built |-> TRUE, sees |-> inContext]

(* mutant: the executor made before the metadata is kept *)
ReadMetadataLate(cs, e) ==
  /\ executor' = e
  /\ inContext' = IF "meta" \in cs \cap registered THEN inContext \cup {"meta"} ELSE inContext
(* The metadata comes into the context, and the executor is made anew.     *)
ReadMetadata(cs, e) ==
  IF "meta" \in cs \cap registered
  THEN inContext' = inContext \cup {"meta"} /\ executor' = NotBuilt
  ELSE inContext' = inContext /\ executor' = e

(* It may give metadata, and rewrite the request.                          *)
Authorized ==
  /\ AtCheck("authz") /\ Policy.authz # "off"
  /\ \E m \in SUBSET {"meta"} :
       claims' = claims \cup m /\ ReadMetadata(claims \cup m, Built)
  /\ Rewrites
  /\ asked' = [asked EXCEPT ![at.level] = "ok"]
  /\ Passes /\ UNCHANGED <<config, registered, later>>

(* Its answer, or an error when it gives none.                             *)
Denied ==
  /\ AtCheck("authz") /\ Policy.authz # "off"
  /\ asked' = [asked EXCEPT ![at.level] = "denied"] /\ executor' = Built
  /\ \/ Ends("answered")
     \/ Ends("refused")
  /\ UNCHANGED <<identity, config, registered, later>>

(* handle_auth_failure *)
Unavailable ==
  /\ AtCheck("authz") /\ Policy.authz # "off"
  /\ asked' = [asked EXCEPT ![at.level] = "unavailable"]
  /\ \/ Policy.authz = "allow" /\ ReadMetadata(claims, Built) /\ Passes
     \/ Policy.authz = "deny" /\ Ends("refused") /\ executor' = Built /\ UNCHANGED inContext
     \/ Policy.authz = "status" /\ Ends("answered") /\ executor' = Built /\ UNCHANGED inContext
  /\ UNCHANGED <<requestNow, claims, config, registered, later>>

NoServer ==
  /\ AtCheck("authz") /\ Policy.authz = "off"
  /\ ReadMetadata(claims, executor)
  /\ Passes /\ UNCHANGED <<requestNow, claims, config, registered, asked, later>>

-----------------------------------------------------------------------------

(* What other modules model: the external processor, which may rewrite the *)
(* request, and, behind it, the selection of a route.                      *)
Others ==
  /\ AtCheck("others")
  /\ \/ Passes /\ Rewrites
     \/ (Ends("refused") \/ Ends("answered")) /\ UNCHANGED requestNow
  /\ UNCHANGED <<claims, inContext, config, registered, executor, asked, later>>

(* Transformation::apply_request, with a copy of the context if it is set. *)
Transform ==
  /\ AtCheck("transform")
  /\ Rewrites /\ executor' \in {executor, Built}
  /\ Passes /\ UNCHANGED <<claims, inContext, config, registered, asked, later>>

(* The expressions of the route are registered, and the claims read again  *)
(* for those that only now ask for them.                                   *)
RouteSelected ==
  /\ AtCheck("register")
  /\ at' = [level |-> "route", check |-> "jwt"] /\ executor' = NotBuilt
  /\ LET p == policies["route"] IN registered' = registered \cup p.allow \cup p.deny
  /\ inContext' = inContext \cup (claims \cap Credential \cap registered')
  /\ UNCHANGED <<requestNow, claims, outcome, config, asked, later>>

(* No rules, no refusal; else no rule may deny, and one has to allow.      *)
Permits(sees) ==
  LET p == policies["route"]
  IN p.allow \cup p.deny # {} => p.deny \cap sees = {} /\ p.allow \cap sees # {}

Authorize ==
  /\ AtCheck("rules")
  /\ LET p == policies["route"]
     IN executor' = IF p.allow \cup p.deny = {} THEN executor ELSE Built
  /\ IF Permits(executor'.sees) THEN Passes ELSE Ends("refused")
  /\ UNCHANGED <<identity, config, registered, asked, later>>

(* The local limits; then the rate limit service counts the request, and   *)
(* may add to its headers; without it, no request.                         *)
RateLimited ==
  /\ AtCheck("limit")
  /\ \/ Ends("refused") /\ UNCHANGED <<requestNow, executor, charged>>
     \/ ~Policy.limit /\ Passes /\ UNCHANGED <<requestNow, executor, charged>>
     \/ /\ Policy.limit /\ executor' = Built
        /\ \/ charged' = TRUE /\ Passes /\ RewritesHeaders
           \/ charged' = TRUE /\ Ends("answered") /\ UNCHANGED requestNow
           \/ Ends("refused") /\ UNCHANGED <<requestNow, charged>>
  /\ UNCHANGED <<claims, inContext, config, registered, asked, allowOrigin>>

(* Csrf::apply, is_request_exempt: what the browser says of the site first,*)
(* then the origin.                                                        *)
CsrfVerdict ==
  CASE head.method \in {"GET", "OPTIONS"} -> "pass"
    [] head.method = "POST" /\ head.site = "malformed" -> "refused"
    [] head.method = "POST" /\ head.site = "same" -> "pass"
    [] head.method = "POST" /\ head.site \in {"cross", "absent"} ->
         CASE head.origin = "malformed" -> "refused"
           [] head.origin = "listed" -> "pass"
           [] head.origin = "foreign" -> "answered"
           [] head.origin = "own" -> IF head.site = "absent" THEN "pass" ELSE "answered"
           [] head.origin \in {"absent", "null"} ->
                IF head.site = "absent" THEN "pass" ELSE "answered"

CheckCsrf ==
  /\ AtCheck("csrf")
  /\ IF Policy.csrf /\ CsrfVerdict # "pass" THEN Ends(CsrfVerdict) ELSE Passes
  /\ UNCHANGED <<identity, config, registered, executor, asked, later>>

(* A header modifier, and the rewrite of the path, which may fail.         *)
Modify ==
  /\ AtCheck("modifier")
  /\ \/ Passes /\ RewritesHeaders
     \/ Ends("refused") /\ UNCHANGED requestNow
  /\ UNCHANGED <<claims, inContext, config, registered, executor, asked, later>>

(* Cors::apply: a preflight is answered here.                              *)
CorsAllows ==
  \/ Policy.cors = "any" /\ head.origin # "absent"
  \/ Policy.cors = "list" /\ head.origin = "listed"

CheckCors ==
  /\ AtCheck("cors")
  /\ allowOrigin' = CorsAllows
  /\ IF CorsAllows /\ head.method = "OPTIONS" THEN Ends("answered") ELSE Passes
  /\ UNCHANGED <<identity, config, registered, executor, asked, charged>>

(* A redirect or a direct response is the answer, else the upstream's is.  *)
Answer ==
  /\ \/ AtCheck("answers") /\ (Passes \/ Ends("answered") \/ Ends("refused"))
     \/ AtCheck("end") /\ Ends("forwarded")
  /\ UNCHANGED <<identity, config, registered, executor, asked, later>>

CheckNext ==
  \/ \E k \in Credential : Identify(k) \/ Disbelieve(k) \/ Anonymous(k)
  \/ Authorized \/ Denied \/ Unavailable \/ NoServer
  \/ Others \/ Transform \/ RouteSelected \/ Authorize \/ RateLimited
  \/ CheckCsrf \/ Modify \/ CheckCors \/ Answer

CheckSpec == CheckInit /\ [][CheckNext]_checkVars

-----------------------------------------------------------------------------
(* Properties                                                              *)

Forwarded == outcome = "forwarded"

(* Whatever is set at the gateway or at the route, a request that goes on  *)
(* has the credentials that a strict policy of either asks for.            *)
StrictMeansVerified ==
  Forwarded => \A l \in CheckLevel, k \in Credential : policies[l][k] = "strict" => k \in claims

(* No check leaves a verified credential for the upstream, and a bearer    *)
(* that nobody could verify gets there only where every check of bearers   *)
(* is off or permissive, unless something wrote the header after the       *)
(* checks of the level: what it wrote, the next level checks.              *)
WrittenSince(l) == wrote["route"] \cup (IF l = "gateway" THEN wrote["gateway"] ELSE {})
CredentialsHandled ==
  Forwarded =>
    /\ claims \cap Credential # {} /\ "auth" \notin WrittenSince("gateway") => head.auth = "none"
    /\ \A l \in CheckLevel : "auth" \notin WrittenSince(l) =>
         /\ (\E k \in Credential : policies[l][k] = "strict") => head.auth = "none"
         /\ Presented("jwt") => policies[l].jwt \in {"off", "permissive"} /\ policies[l].key = "off"
         /\ Presented("basic") => policies[l].basic = "off"

(* The rules judge what was verified, by whichever level, and what the     *)
(* authorization servers said: no copy of the context is too old, and no   *)
(* claim is missing because the rule was registered after it was made.     *)
RulesJudgeTheCaller ==
  /\ Forwarded \/ charged => Permits(claims)
  /\ outcome = "refused" /\ at.check = "rules" => ~Permits(claims)

(* A server that did not agree is passed over only in failure mode allow.  *)
ServersAsked ==
  Forwarded => \A l \in CheckLevel :
    policies[l].authz # "off" =>
      asked[l] = "ok" \/ (asked[l] = "unavailable" /\ policies[l].authz = "allow")

(* Only a request that no identity check refuses is counted.               *)
ChargedWhenVerified ==
  charged => \A l \in CheckLevel, k \in Credential : policies[l][k] = "strict" => k \in claims

(* A request whose method as it is forwarded changes state does not come   *)
(* from another site, and a response names an origin as allowed only as    *)
(* the policy does, wherever nothing wrote the headers that tell; such a   *)
(* preflight never gets to the upstream.                                   *)
OriginsKept ==
  /\ /\ Forwarded /\ policies["route"].csrf /\ head.method = "POST"
     /\ {"origin", "site"} \cap WrittenSince("gateway") = {} /\ brought.site # "same"
     => /\ brought.site # "malformed" /\ brought.origin \notin {"foreign", "malformed"}
        /\ brought.site = "cross" => brought.origin = "listed"
  /\ allowOrigin /\ "origin" \notin WrittenSince("gateway") =>
       \/ policies["route"].cors = "any" /\ brought.origin # "absent"
       \/ policies["route"].cors = "list" /\ brought.origin = "listed"
  /\ allowOrigin /\ head.method = "OPTIONS" => outcome = "answered"

ChecksConsistent ==
  /\ CheckTypeOK
  /\ StrictMeansVerified
  /\ CredentialsHandled
  /\ RulesJudgeTheCaller
  /\ ServersAsked
  /\ ChargedWhenVerified
  /\ OriginsKept
=============================================================================
