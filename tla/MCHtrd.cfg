SPECIFICATION Spec
CONSTANTS
  Scenarios <- MCScenarios
  Policies <- MCPolicies
  SIZE_RANGE = 256
INVARIANTS
  ToldOnceInTime
  ContentIsExact
  RefusesTheMalformed
  ReadsAsIfUncut
  ContentAsIfUncut
