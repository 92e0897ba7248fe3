\* Two requests, three adapters of which two share a descriptor: two valid outputs
\* of three make a quorum.  The budget pays for the calls of one request, and the
\* synthesis adapter charges more than the registry estimates.
SPECIFICATION FairSpec
CONSTANTS
  Requests <- MCRequests
  Candidates <- MCCandidates
  Key <- MCKey
  Label <- MCKey
  IsProcess <- MCIsProcess
  Custom <- MCCustom
  Cost <- MCCost
  SynthesisEstimate = 1
  SynthesisCost = 2
  SynthesisIsProcess = TRUE
  MinSuccessful = 2
  Limit = 7
INVARIANTS StarvedOnlyByOthers SynthesisGrounded ReportsConsistent
PROPERTIES RoutesEnd
CHECK_DEADLOCK FALSE
