\* A bot and two willing clients under fairness, no replacement of an idle master, a time limit, three rounds.
CONSTANTS
  p1 = p1
  p2 = p2
  p3 = p3
  Nobody = Nobody
  Players <- ThreeSlots
  Bots <- OneBot
  Participations <- Willing
  NoHumansOnly = FALSE
  NoSpecOnly = FALSE
  ReplaceAFK = FALSE
  AFKPunish = "spectate"
  RoundLimit = 3
  TimeLimit = TRUE
  NoRestart = FALSE
SPECIFICATION FairSpec
PROPERTY NextRoundComes
PROPERTY DeadRoundEnds
INVARIANT PickIsFair
