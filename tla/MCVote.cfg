\* Four slots, one of which is a bot's; spectators have no vote.
CONSTANTS
  s1 = s1
  s2 = s2
  s3 = s3
  s4 = s4
  Slots <- FourSlots
  Bots <- OneBot
  SpectatorsVote = FALSE
  VoteTimes = {1, 2}
  CommandDelay = 1
  ResetDelay = 2
  QuorumNum = 3
  QuorumDen = 5
SPECIFICATION FairSpec
INVARIANT BallotsAgree
INVARIANT TimersExclude
PROPERTY PassedByMajority
PROPERTY BallotSpec
PROPERTY VoteRunsOut
PROPERTY VoteEnds
