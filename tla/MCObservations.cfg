CONSTANTS
  Parts = {"observations", "operations", "planning", "readiness"}
  o1 = o1
  r1 = r1
  q1 = q1
  e1 = e1
  x1 = x1
  x2 = x2
  y1 = y1
  y2 = y2
  Nobody = Nobody
  Observations = {o1}
  Redeploys = {r1}
  RunOf <- ObservedRun
  Contents = {y1, y2}
  Callers = {x1, x2}
  MaxHead = 2
  BatchSize = 1
SPECIFICATION SuiteSpec
SYMMETRY Symmetry
CONSTRAINT AtMostTwoSigned
INVARIANTS NotStartedIsFinal RunLineage
PROPERTIES ExternalAnswersTrue
