\* Three clients; spectators have a vote, as by default.
CONSTANTS
  s1 = s1
  s2 = s2
  s3 = s3
  s4 = s4
  Slots <- ThreeSlots
  Bots = {}
  SpectatorsVote = TRUE
  VoteTimes = {1, 2}
  CommandDelay = 1
  ResetDelay = 2
  QuorumNum = 3
  QuorumDen = 5
SPECIFICATION Spec
PROPERTY FailureLocks
