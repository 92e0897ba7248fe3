\* Three agents of two teams; three generated identifiers; two restarts.
SPECIFICATION FairSpec
CONSTANTS
  Teams <- MCTeams
  Agents <- MCAgents
  TeamOf <- MCTeamOf
  Runs <- MCRuns
  RunTeam <- MCRunTeam
  Members <- MCMembers
  Types = {"text"}
  Limit <- MCLimit
  UnreadDefault = 1
  UnreadMax = 2
  HistoryMax = 4
  Sends <- MCSends
  EventInputs <- MCEventInputs
  Seeds <- MCSeeds
  MaxSequence = 3
  MaxFaults = 2
  None = "none"
  NotRead <- MCNotRead
  NoLimit <- MCNoLimit
INVARIANTS ReadIsHandled HandledInOrder
PROPERTIES InboxesDrain ImplementsContract
CHECK_DEADLOCK FALSE
