CONSTANTS
  p1 = p1
  p2 = p2
  q1 = q1
  r1 = r1
  r2 = r2
  s1 = s1
  Scenarios = {"waiting"}
  Promoters = {p1, p2}
  Requesters = {s1}
  Intents <- WaitingIntents
  Observing = TRUE
  Unproven = TRUE
  MaxDeployments = 3
  MaxItems = 1
  MaxDepth = 1
SPECIFICATION ScenarioFairSpec
PROPERTIES QueueMoves
