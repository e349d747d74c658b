SPECIFICATION Spec
CONSTANTS
  Requests = {r1, r2, r3}
  None = None
  Addrs = {a1}
  Matches <- MCMatches
  MaxEvents = 1
SYMMETRY Symmetry
INVARIANTS
  TypeOK
  PollerOwnsFields
  PollingMeansPoller
  ActiveRequestsAreCounted
  AnswersAreFresh
