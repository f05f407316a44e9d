SPECIFICATION FairSpec
CONSTANTS
  Atoi <- MCAtoi
  Environments <- MCEnvironments
  Keys = {"k1", "k2"}
  Requests = {"q1"}
  DiscoveryTimeout = 2
  ProbeDelay = 1
  ProbePeriod = 2
  ProbeFailures = 3
  MaxIncidents = 1
INVARIANTS
  IInv
  ServesAsConfigured
  VerdictsWereTrue
  LookupsSucceed
  StartsAreExplained
  PrintedTruly
PROPERTIES
  EventuallyServes
