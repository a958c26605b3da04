\* Two servers that answer at the same time, and a Clear.
CONSTANTS
  Names <- MCNames
  Lists <- MCLists
  EndsIn <- MCEndsIn
  Hosts = {h1, h2}
  MaxQueries = 2
  MaxFlows = 2
  MaxClears = 1
SPECIFICATION Spec
INVARIANTS LearnedIsProxied ListedNameFound
CHECK_DEADLOCK FALSE
