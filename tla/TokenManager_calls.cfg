SPECIFICATION FairSpec
CONSTANTS
  c1 = c1
  c2 = c2
  c3 = c3
  Callers <- ThreeCallers
  NoCaller = NoCaller
  Lifetime = 2
  MaxTime = 5
  MaxTokens = 3
INVARIANTS
  FetchIsNeeded
PROPERTIES
  NeverAnOlderToken
  FailureIsNotCached
  LockedOnlyByHungFetch
