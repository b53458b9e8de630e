CONSTANTS
  p1 = p1
  p2 = p2
  q1 = q1
  r1 = r1
  r2 = r2
  s1 = s1
  Scenarios = {"queue", "callers", "deletion", "fence"}
  Promoters = {p1, p2, q1}
  Requesters = {r1, r2, s1}
  Intents <- AllIntents
  Observing = TRUE
  Unproven = TRUE
  MaxDeployments = 3
  MaxItems = 2
  MaxDepth = 2
SPECIFICATION ScenarioSpec
SYMMETRY Symmetry
INVARIANTS TypeOK OneExecutes ClaimIsHead DispatchedOnce RunnersApart PremisesHold
PROPERTIES SettledForever NoOvertaking ImplementsContract
