---------------------------- MODULE McpDispatch -----------------------------
(***************************************************************************)
(* Where a message of an MCP client goes: authentication in front of the   *)
(* backend (agentgateway/src/mcp/router.rs), the method's handler          *)
(* (session.rs), the names a multiplexed backend gives to tools and        *)
(* prompts (handler.rs) and the rules that allow them (rbac.rs,            *)
(* http/authorization.rs).  A name is a sequence of characters.            *)
(***************************************************************************)
EXTENDS Naturals, Sequences, FiniteSets

CONSTANTS Target,   \* names of targets
          Tool,     \* names of tools and prompts at a target
          RuleSets  \* the sets of <<target, tool>> that rules may hold for

Delimiter == "_"

(* Characters are strings; the delimiter is one of them.                   *)
Character == STRING \cup {Delimiter}
ASSUME NamesAssumption ==
  Target \cup Tool \subseteq Seq(Character) /\ IsFiniteSet(Target)
ASSUME RulesAssumption == RuleSets \subseteq SUBSET (Target \X Tool)

VARIABLES
  backend,  \* [targets, prefix: always_use_prefix, authn, allow, deny]
  offers,   \* target -> its tools
  message,  \* the message being handled: [method, name, token]
  handling, \* "none", "checked", "done"
  listed,   \* the names in the last list, FALSE before it
  reached,  \* what upstreams were asked: <<target, tool>>, or the target
  answer    \* "none", "ok", "unauthorized", "unknown", "invalid", "method"

dispatchVars == <<backend, offers, message, handling, listed, reached, answer>>

FanOut == {"initialize", "tools/list", "ping", "prompts/list"}
OneBackendFanOut == {"resources/list", "resources/templates/list"}
Named == {"tools/call", "prompts/get"}
Resource == {"resources/read"}
OneTarget == {"completion/complete"}
Unsupported == {"resources/subscribe"}
Method == FanOut \cup OneBackendFanOut \cup Named \cup Resource \cup OneTarget
            \cup Unsupported \cup {"notification"}

Token == {"missing", "invalid", "valid", "claims"}
NoName == <<>>
NoMessage == [method |-> "ping", name |-> NoName, token |-> "missing"]

Concat(t, x) == t \o <<Delimiter>> \o x
AllNames == {Concat(t, x) : t \in Target, x \in Tool} \cup Tool

DispatchTypeOK ==
  /\ backend \in [targets : SUBSET Target, prefix : BOOLEAN,
                  authn : {"none", "strict", "optional"},
                  allow : RuleSets, deny : RuleSets]
  /\ offers \in [Target -> SUBSET Tool]
  /\ message \in [method : Method, name : AllNames \cup {NoName}, token : Token]
  /\ handling \in {"none", "checked", "done"}
  /\ listed \subseteq AllNames
  /\ reached \subseteq (Target \X Seq(Character)) \cup {<<t>> : t \in Target}
  /\ answer \in {"none", "ok", "unauthorized", "unknown", "invalid", "method"}

DispatchInit ==
  /\ backend \in [targets : SUBSET Target \ {{}}, prefix : BOOLEAN,
                  authn : {"none", "strict", "optional"},
                  allow : RuleSets, deny : RuleSets]
  /\ offers \in [Target -> SUBSET Tool]
  /\ message = NoMessage /\ handling = "none"
  /\ listed = {} /\ reached = {} /\ answer = "none"

-----------------------------------------------------------------------------
(* Names and rules                                                         *)

Multiplexing == Cardinality(backend.targets) # 1

(* default_target_name: with it, names are not prefixed.                   *)
HasDefault == ~Multiplexing /\ ~backend.prefix
DefaultTarget == CHOOSE t \in backend.targets : TRUE

ResourceName(t, x) == IF HasDefault THEN x ELSE Concat(t, x)

Splits(n) == {i \in DOMAIN n : n[i] = Delimiter}

FirstOf(S) == CHOOSE i \in S : \A j \in S : i <= j

(* parse_resource_name: split at the first delimiter.                      *)
ParseFails(n) == ~HasDefault /\ Splits(n) = {}
Parsed(n) ==
  IF HasDefault THEN <<DefaultTarget, n>>
  ELSE LET i == FirstOf(Splits(n))
       IN <<SubSeq(n, 1, i - 1), SubSeq(n, i + 1, Len(n))>>

(* RuleSets::validate: no rules allow everything; a denial wins; without   *)
(* a rule that allows, nothing is allowed.                                 *)
Validate(p) ==
  \/ backend.allow = {} /\ backend.deny = {}
  \/ p \notin backend.deny /\ p \in backend.allow

-----------------------------------------------------------------------------
(* Handlers                                                                *)

Receive(m, n, k) ==
  /\ handling = "none"
  /\ n = NoName <=> m \notin Named \cup Resource
  /\ backend.authn = "none" => k = "missing"   \* it is not looked at
  /\ message' = [method |-> m, name |-> n, token |-> k]
  /\ handling' = "checked"
  /\ UNCHANGED <<backend, offers, listed, reached, answer>>

(* App::serve: claims of an earlier policy cannot be checked again, so     *)
(* they are refused too.                                                   *)
Unauthenticated ==
  /\ backend.authn # "none"
  /\ \/ message.token \in {"invalid", "claims"}
     \/ message.token = "missing" /\ backend.authn = "strict"

Finish(a, new) ==
  /\ handling = "checked"
  /\ handling' = "done" /\ answer' = a /\ reached' = reached \cup new
  /\ UNCHANGED <<backend, offers, message>>

RefuseUnauthenticated ==
  /\ Unauthenticated
  /\ Finish("unauthorized", {}) /\ UNCHANGED listed

Everyone == {<<t>> : t \in backend.targets}

HandleList ==
  /\ ~Unauthenticated /\ message.method \in {"tools/list", "prompts/list"}
  /\ listed' = {ResourceName(p[1], p[2]) :
       p \in {q \in backend.targets \X Tool : q[2] \in offers[q[1]] /\ Validate(q)}}
  /\ Finish("ok", Everyone)

HandleFanOut ==
  /\ ~Unauthenticated
  /\ \/ message.method \in {"initialize", "ping", "notification"}
     \/ message.method \in OneBackendFanOut /\ ~Multiplexing
  /\ Finish("ok", Everyone) /\ UNCHANGED listed

(* A tool call or a prompt: parsed, validated, sent to its target.         *)
HandleNamed ==
  /\ ~Unauthenticated /\ message.method \in Named
  /\ LET n == message.name IN
       IF ParseFails(n) THEN Finish("invalid", {})
       ELSE IF ~Validate(Parsed(n)) THEN Finish("unknown", {})
       ELSE IF Parsed(n)[1] \notin backend.targets THEN Finish("invalid", {})
       ELSE Finish("ok", {Parsed(n)})
  /\ UNCHANGED listed

(* A resource: its URI is not parsed, and only a default target has it.    *)
HandleResource ==
  /\ ~Unauthenticated /\ message.method \in Resource
  /\ LET p == <<DefaultTarget, message.name>> IN
       IF ~HasDefault THEN Finish("method", {})
       ELSE IF ~Validate(p) THEN Finish("unknown", {})
       ELSE Finish("ok", {p})
  /\ UNCHANGED listed

HandleOneTarget ==
  /\ ~Unauthenticated /\ message.method \in OneTarget
  /\ IF HasDefault THEN Finish("ok", {<<DefaultTarget>>}) ELSE Finish("method", {})
  /\ UNCHANGED listed

HandleUnsupported ==
  /\ ~Unauthenticated
  /\ \/ message.method \in Unsupported
     \/ message.method \in OneBackendFanOut /\ Multiplexing
  /\ Finish("method", {}) /\ UNCHANGED listed

NextMessage ==
  /\ handling = "done"
  /\ handling' = "none" /\ answer' = "none" /\ message' = NoMessage
  /\ reached' = {}
  /\ UNCHANGED <<backend, offers, listed>>

DispatchNext ==
  \/ \E m \in Method, n \in AllNames \cup {NoName}, k \in Token : Receive(m, n, k)
  \/ RefuseUnauthenticated \/ HandleList \/ HandleFanOut \/ HandleNamed
  \/ HandleResource \/ HandleOneTarget \/ HandleUnsupported \/ NextMessage

DispatchSpec == DispatchInit /\ [][DispatchNext]_dispatchVars

-----------------------------------------------------------------------------
(* Properties                                                              *)

(* A call by name leads back to a target: to the only one, whose name is   *)
(* not part of it, or to one whose name has no delimiter, which nothing    *)
(* checks when targets are configured.                                     *)
Undelimited(t) == \A i \in DOMAIN t : t[i] # Delimiter
LeadsBack(t) == HasDefault \/ Undelimited(t)

(* What a client is shown is offered by some target and allowed; what is   *)
(* shown of a target that names lead back to it can use, and no two tools  *)
(* of such targets share a name.                                           *)
ListedIsCallable ==
  /\ \A n \in listed : \E t \in backend.targets, x \in Tool :
       x \in offers[t] /\ Validate(<<t, x>>) /\ n = ResourceName(t, x)
  /\ \A t \in backend.targets, x \in Tool :
       LeadsBack(t) => ~ParseFails(ResourceName(t, x)) /\ Parsed(ResourceName(t, x)) = <<t, x>>
  /\ \A p, q \in {t \in backend.targets : LeadsBack(t)} \X Tool :
       p # q => ResourceName(p[1], p[2]) # ResourceName(q[1], q[2])

(* Whatever is called, and whatever the targets are named, only what would *)
(* be listed under that name is reached, at a target that names lead back  *)
(* to: tools of the others are out of reach.                               *)
ReachedAsNamed ==
  \A p \in reached : Len(p) = 2 => LeadsBack(p[1]) /\ message.name = ResourceName(p[1], p[2])

(* What is not so when a target's name has a delimiter: that everything    *)
(* that is shown can be called.                                            *)
AllListedCallable ==
  \A n \in listed :
    ~ParseFails(n) /\ LET p == Parsed(n) IN
      p[1] \in backend.targets /\ p[2] \in offers[p[1]] /\ Validate(p)

(* An upstream gets a call only for what no rule denies and, when there    *)
(* are rules, one of them allows.                                          *)
OnlyAllowedReached ==
  \A p \in reached : Len(p) = 2 =>
    /\ p \notin backend.deny
    /\ backend.allow # {} \/ backend.deny # {} => p \in backend.allow

(* Nothing reaches an upstream before the request is authenticated.        *)
AuthenticatedFirst ==
  reached # {} /\ backend.authn = "strict" => message.token = "valid"

(* What a client is shown, may use and reaches agree.                      *)
NamesDispatched ==
  /\ DispatchTypeOK
  /\ ListedIsCallable
  /\ ReachedAsNamed
  /\ OnlyAllowedReached
  /\ AuthenticatedFirst
=============================================================================
