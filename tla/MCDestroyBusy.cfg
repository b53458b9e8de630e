SPECIFICATION Spec
CONSTANTS
  Workers = {w1}
  Internal = {}
  MaxDeployments = 3
  MaxRequests = 1
  MaxFaults = 0
  Refuses = FALSE
  MaxEvents = 2
  MaxDeliver = 2
INVARIANT DestroyWaitsWhenBusy
