CONSTANTS
  SessionCall = {k1, k2}
  Endpoint = {e1, e2}
  UpSession = {x1, x2}
  RandomId = {s1}
  MaxRelays = 2
  NoEndpoint = NoEndpoint
  NoUp = NoUp
  Target <- DispatchTargets
  Tool <- DispatchTools
  RuleSets <- DispatchRules
  RouteKey = {1, 2, 3}
  Shape <- Shapes
  Pattern <- Patterns
  ListenerKey = {l1, l2, l3}
  Request <- Requests
  MaxEntries = 5
  InPlace = FALSE
  PolicyKey = {p1, p2, p3}
  PolicyTarget = {"rule", "section", "route", "gateway"}
  PolicyBody <- PolicyBodies
  Asker = {a1, a2}
  Task = {t1, t2}
  Agent = {g1}
  Dag <- Dags
  Strategy = {"llm", "vector"}
  RouterEntryLimit = 1
  CheckPolicy <- CheckPolicies
  XdsMessage <- AllResources
  SoundMessage <- SoundResources
  LlmPolicy <- LlmPolicies
  LlmProvider <- LlmProviders
  LlmAsk <- LlmAsks
  Untokenized = {}
  WebhookTexts <- LlmWebhookTexts
  Absent = Absent
  ConversionAsk <- ConversionAsks
  ConversionEnv <- ConversionEnvs
  ConversionReply <- ConversionReplies
  StreamMode <- StreamModes
  MaxBlocks = 2
  MaxPieces = 2
  MaxWire = 1
  StopReason = {"tool", "guardrail"}
SPECIFICATION RequestsSpec
SYMMETRY Symmetric
CHECK_DEADLOCK FALSE
INVARIANTS SessionsConsistent ChecksConsistent ConfigurationFollowed PlansConsistent ModelCallsKept
