\* Three clients, all participation settings, "only human" overridden, handover of an idle master.
CONSTANTS
  p1 = p1
  p2 = p2
  p3 = p3
  Nobody = Nobody
  Players <- ThreeSlots
  Bots = {}
  Participations <- AllParticipations
  NoHumansOnly = TRUE
  NoSpecOnly = FALSE
  ReplaceAFK = TRUE
  AFKPunish = "spectate"
  RoundLimit = 2
  TimeLimit = FALSE
  NoRestart = FALSE
SPECIFICATION Spec
SYMMETRY SlotSymmetry
INVARIANT TypeOK
INVARIANT AtMostOneZM
INVARIANT RunningRoundHasZM
INVARIANT RoundsAreCounted
INVARIANT RoundLimitIsExact
PROPERTY DefeatMeansNoneAlive
PROPERTY LastDeathPaysMaster
PROPERTY LastSurvivorLeavesEndsRound
PROPERTY NoLateSurvivors
PROPERTY OfficeSpec
