---------------------------- MODULE ZMVoteProofs ----------------------------
(* Proofs about the vote controller, for any number of slots, any times of   *)
(* the vote and any quorum.                                                  *)
EXTENDS ZMVote, FiniteSetTheorems, TLAPS

USE VoteAssumption DEF VoteAssumption, Off, Teams

-----------------------------------------------------------------------------
(* Types *)

\* The voters that are counted when a vote is called are finitely many.
LEMMA PotentialNat == PotentialVoters \in Nat
<1>1. IsFiniteSet({s \in Slots : ValidVoter(s)})
  BY FS_Subset
<1> QED
  BY <1>1, FS_CardinalityType DEF PotentialVoters

\* A call makes the vote active and starts its time.
LEMMA CallStarts ==
  ASSUME NEW s \in Slots, CallVote(s)
  PROVE  accept' \in Nat /\ active'
<1>1. accept' = 0 \/ accept' \in VoteTimes
  BY Zenon DEF CallVote
<1>2. accept' \in Nat
  <2>1. \A n \in VoteTimes : n \in Nat
    OBVIOUS
  <2>2. CASE accept' = 0
    BY <2>2
  <2>3. CASE accept' \in VoteTimes
    BY <2>1, <2>3, Zenon
  <2> QED
    BY <1>1, <2>2, <2>3
<1>3. active'
  BY Zenon DEF CallVote
<1> QED
  BY <1>2, <1>3, Zenon

\* A timer stays a timer from frame to frame.
LEMMA TickType ==
  ASSUME NEW t \in Nat \cup {Off} PROVE Tick(t) \in Nat \cup {Off}
BY DEF Tick

\* Every step of the controller, the clients and the game keeps the types.
LEMMA VoteTypeStep == TypeOK /\ [Next]_vars => TypeOK'
<1> SUFFICES ASSUME TypeOK, [Next]_vars PROVE TypeOK'
  OBVIOUS
<1> USE DEF TypeOK, ballots, timers
<1>1. ASSUME NEW s \in Slots, CallVote(s) PROVE TypeOK'
  <2>1. PotentialVoters \in Nat
    BY PotentialNat
  <2>2. accept' \in Nat /\ active'
    BY <1>1, CallStarts
  <2>3. active' \in BOOLEAN
    BY <1>1, Zenon DEF CallVote
  <2> QED
    BY <1>1, <2>1, <2>2, <2>3 DEF CallVote
<1>2. ASSUME NEW s \in Slots, NEW c \in {"yes", "no"}, TryCastVote(s, c) PROVE TypeOK'
  BY <1>2 DEF TryCastVote
<1>3. ASSUME NEW s \in Slots, NEW t \in Teams, ChangeTeam(s, t) PROVE TypeOK'
  BY <1>3 DEF ChangeTeam
<1>4. ASSUME NEW s \in Slots, Leave(s) PROVE TypeOK'
  BY <1>4 DEF Leave
<1>5. CASE FrameCounts
  <2>1. locked' \in BOOLEAN
    BY <1>5, Zenon DEF FrameCounts
  <2> QED
    BY <1>5, <2>1, TickType DEF FrameCounts, ResetAfter
<1>6. CASE FrameResets
  <2>1. active' \in BOOLEAN
    BY <1>6, Zenon DEF FrameResets
  <2> QED
    BY <1>6, <2>1 DEF FrameResets
<1>7. CASE FrameExecutes
  <2>1. over' \in BOOLEAN
    BY <1>7, Zenon DEF FrameExecutes
  <2> QED
    BY <1>7, <2>1, TickType DEF FrameExecutes
<1>8. CASE FramePasses
  BY <1>8, TickType DEF FramePasses
<1>9. CASE RoundTurns
  BY <1>9 DEF RoundTurns
<1>10. CASE LockoutEnds
  BY <1>10 DEF LockoutEnds
<1>11. CASE UNCHANGED vars
  BY <1>11 DEF vars
<1> QED
  BY <1>1, <1>2, <1>3, <1>4, <1>5, <1>6, <1>7, <1>8, <1>9, <1>10, <1>11
  DEF Next, ClientStep, Frame

\* The controller starts in a well-typed state.
LEMMA VoteTypeInit == Init => TypeOK
<1>1. Init => over \in BOOLEAN /\ active \in BOOLEAN /\ locked \in BOOLEAN
  BY Zenon DEF Init
<1> QED
  BY <1>1 DEF Init, TypeOK

\* The variables of the vote controller keep their types; no counter is negative.
THEOREM VoteTypeCorrect == Spec => []TypeOK
BY VoteTypeInit, VoteTypeStep, PTL DEF Spec

-----------------------------------------------------------------------------
(* The timers *)

\* The steps that leave the controller alone.
Elsewhere == UNCHANGED <<ballots, timers>>

\* What the clients, the rounds and the end of the lockout do is elsewhere.
LEMMA OtherSteps ==
  ASSUME \/ \E s \in Slots : Leave(s) \/ \E t \in Teams : ChangeTeam(s, t)
         \/ RoundTurns \/ LockoutEnds \/ UNCHANGED vars
  PROVE  Elsewhere
BY DEF Leave, ChangeTeam, RoundTurns, LockoutEnds, vars, Elsewhere

\* Every step is a call, a ballot, a frame or elsewhere.
LEMMA VoteSteps ==
  ASSUME [Next]_vars
  PROVE  \/ \E s \in Slots : CallVote(s)
         \/ \E s \in Slots : \E c \in {"yes", "no"} : TryCastVote(s, c)
         \/ FrameCounts \/ FrameResets \/ FrameExecutes \/ FramePasses
         \/ Elsewhere
BY OtherSteps DEF Next, ClientStep, Frame

\* The timers exclude each other after every step.
LEMMA TimersStep == TypeOK /\ TimersExclude /\ [Next]_vars => TimersExclude'
<1> SUFFICES ASSUME TypeOK, TimersExclude, [Next]_vars PROVE TimersExclude'
  OBVIOUS
<1> USE DEF TypeOK, TimersExclude, ballots, timers
<1>1. ASSUME NEW s \in Slots, CallVote(s) PROVE TimersExclude'
  <2>1. accept' \in Nat /\ active'
    BY <1>1, CallStarts
  <2> QED
    BY <1>1, <2>1 DEF CallVote
<1>2. ASSUME NEW s \in Slots, NEW c \in {"yes", "no"}, TryCastVote(s, c)
      PROVE  TimersExclude'
  BY <1>2 DEF TryCastVote, MayCast
<1>3. CASE FrameCounts
  BY <1>3 DEF FrameCounts, ResetAfter, Due, Tick
<1>4. CASE FrameResets
  BY <1>4 DEF FrameResets
<1>5. CASE FrameExecutes
  BY <1>5 DEF FrameExecutes, Due, Tick
<1>6. CASE FramePasses
  BY <1>6 DEF FramePasses, Due, Tick
<1>7. CASE Elsewhere
  BY <1>7 DEF Elsewhere
<1> QED
  BY <1>1, <1>2, <1>3, <1>4, <1>5, <1>6, <1>7, VoteSteps

\* For any times of the vote with the execution before the reset, the timers of the
\* controller never contradict each other.
THEOREM TimersAgree == Spec => []TimersExclude
<1>1. Init => TimersExclude
  BY DEF Init, TimersExclude
<1>2. TypeOK /\ TimersExclude /\ TypeOK' /\ [Next]_vars => TimersExclude'
  BY TimersStep
<1> QED
  BY <1>1, <1>2, VoteTypeCorrect, PTL DEF Spec

-----------------------------------------------------------------------------
(* The controller implements the abstract ballot *)

\* Every step of the controller is a step of the ballot, or none.
LEMMA BallotStep ==
  ASSUME TypeOK, TimersExclude, [Next]_vars
  PROVE  [Ballot!Next]_Phase
<1> USE DEF TypeOK, TimersExclude, ballots, timers, Phase
<1> USE DEF Ballot!Next, Ballot!Open, Ballot!Count, Ballot!Execute, Ballot!Reopen, Ballot!Close
<1>1. ASSUME NEW s \in Slots, CallVote(s) PROVE Ballot!Open
  <2>1. accept' \in Nat /\ active'
    BY <1>1, CallStarts
  <2> QED
    BY <1>1, <2>1 DEF CallVote
<1>2. ASSUME NEW s \in Slots, NEW c \in {"yes", "no"}, TryCastVote(s, c)
      PROVE  Ballot!Reopen \/ UNCHANGED Phase
  BY <1>2 DEF TryCastVote, MayCast
<1>3. CASE FrameCounts
  BY <1>3 DEF FrameCounts, ResetAfter, Due, Tick
<1>4. CASE FrameResets
  BY <1>4 DEF FrameResets, Due, Tick
<1>5. CASE FrameExecutes
  BY <1>5 DEF FrameExecutes, Due, Tick
<1>6. CASE FramePasses
  BY <1>6 DEF FramePasses, Due, Tick
<1>7. CASE Elsewhere
  BY <1>7 DEF Elsewhere
<1> QED
  BY <1>1, <1>2, <1>3, <1>4, <1>5, <1>6, <1>7, VoteSteps

\* The controller, with its timers, late ballots and leavers, implements the
\* abstract ballot that the rules of rounds are composed with: a vote that passes is
\* executed before it is reset.
THEOREM ImplementsBallot == Spec => BallotSpec
<1>1. Init => Ballot!Init
  BY DEF Init, Ballot!Init, Phase
<1>2. TypeOK /\ TimersExclude /\ [Next]_vars => [Ballot!Next]_Phase
  BY BallotStep
<1> QED
  BY <1>1, <1>2, VoteTypeCorrect, TimersAgree, PTL DEF Spec, BallotSpec, Ballot!Spec

-----------------------------------------------------------------------------
(* The count *)

\* Nothing is left of a vote that is over.
IdleClean == ~active => \A s \in Slots : cast[s] = "uncast"

CountInv == TypeOK /\ IdleClean /\ BallotsAgree

\* The slots with a choice are finitely many.
LEMMA VotedFinite ==
  ASSUME NEW c \in {"yes", "no"}
  PROVE  IsFiniteSet(Voted(c)) /\ Cardinality(Voted(c)) \in Nat
<1>1. IsFiniteSet(Voted(c))
  BY FS_Subset DEF Voted
<1> QED
  BY <1>1, FS_CardinalityType

\* A ballot of a slot that has not voted counts for its choice, and for it alone.
LEMMA OneMore ==
  ASSUME TypeOK, NEW s \in Slots, cast[s] = "uncast", NEW c \in {"yes", "no"},
         cast' = [cast EXCEPT ![s] = c]
  PROVE  /\ Cardinality(Voted(c)') = Cardinality(Voted(c)) + 1
         /\ \A d \in {"yes", "no"} \ {c} : Voted(d)' = Voted(d)
<1>1. Voted(c)' = Voted(c) \cup {s} /\ s \notin Voted(c)
  BY DEF Voted, TypeOK
<1>2. \A d \in {"yes", "no"} \ {c} : Voted(d)' = Voted(d)
  BY DEF Voted, TypeOK
<1> QED
  BY <1>1, <1>2, VotedFinite, FS_AddElement

\* Nobody has voted when all slots are uncast.
LEMMA NoneVoted ==
  ASSUME \A s \in Slots : cast[s] = "uncast"
  PROVE  \A c \in {"yes", "no"} : Cardinality(Voted(c)) = 0
BY FS_EmptySet DEF Voted

\* Counters and marks agree after every step.
LEMMA CountStep == CountInv /\ [Next]_vars => CountInv'
<1> SUFFICES ASSUME CountInv, [Next]_vars PROVE (IdleClean /\ BallotsAgree)'
  BY VoteTypeStep DEF CountInv
<1> USE DEF CountInv
<1>0. TypeOK'
  BY VoteTypeStep
<1>1. ASSUME NEW s \in Slots, CallVote(s) PROVE (IdleClean /\ BallotsAgree)'
  <2>1. ~active /\ active' /\ yes' = 1 /\ no' = no
    BY <1>1, Zenon DEF CallVote
  <2>2. cast[s] = "uncast" /\ Cardinality(Voted("yes")) = 0 /\ Cardinality(Voted("no")) = 0
    BY <2>1, NoneVoted DEF IdleClean
  <2>a. cast' = [cast EXCEPT ![s] = "yes"]
    BY <1>1 DEF CallVote
  <2>b. /\ Cardinality(Voted("yes")') = Cardinality(Voted("yes")) + 1
        /\ \A d \in {"yes", "no"} \ {"yes"} : Voted(d)' = Voted(d)
    BY <2>2, <2>a, OneMore
  <2>3. Cardinality(Voted("yes")') = 1 /\ Voted("no")' = Voted("no")
    BY <2>2, <2>b
  <2> QED
    BY <2>1, <2>2, <2>3 DEF IdleClean, BallotsAgree
<1>2. ASSUME NEW s \in Slots, NEW c \in {"yes", "no"}, TryCastVote(s, c)
      PROVE  (IdleClean /\ BallotsAgree)'
  <2>1. /\ Cardinality(Voted(c)') = Cardinality(Voted(c)) + 1
        /\ \A d \in {"yes", "no"} \ {c} : Voted(d)' = Voted(d)
    BY <1>2, OneMore DEF TryCastVote, MayCast
  <2>2. active /\ active' = active
    BY <1>2 DEF TryCastVote, MayCast
  <2> QED
    BY <1>2, <2>1, <2>2 DEF TryCastVote, IdleClean, BallotsAgree
<1>3. CASE FrameResets
  <2>1. \A s \in Slots : cast'[s] = "uncast"
    BY <1>3 DEF FrameResets
  <2>2. \A c \in {"yes", "no"} : Cardinality(Voted(c)') = 0
    BY <2>1, FS_EmptySet DEF Voted
  <2> QED
    BY <1>3, <2>1, <2>2 DEF FrameResets, IdleClean, BallotsAgree
<1>4. CASE UNCHANGED ballots
  BY <1>4 DEF ballots, IdleClean, BallotsAgree, Voted
<1> QED
  BY <1>1, <1>2, <1>3, <1>4, VoteSteps
  DEF FrameCounts, FrameExecutes, FramePasses, Elsewhere

\* For any number of slots, each slot is counted once, for the choice it is marked
\* with, and every vote starts from nothing.
THEOREM BallotsCounted == Spec => []BallotsAgree
<1>1. Init => CountInv
  BY VoteTypeInit, NoneVoted DEF Init, CountInv, IdleClean, BallotsAgree
<1> QED
  BY <1>1, CountStep, PTL DEF Spec, CountInv

\* For any quorum and any number of slots, a vote passes by the majority and the
\* quorum of the slots that are marked, whatever happened since it was called.
THEOREM MajorityPasses == Spec => PassedByMajority
<1> DEFINE Passing == execute = Off /\ execute' # Off
           Majority ==
             /\ Cardinality(Voted("yes")) > Cardinality(Voted("no"))
             /\ Cardinality(Voted("yes") \cup Voted("no")) * QuorumDen >= potential * QuorumNum
<1>1. CountInv /\ [Next]_vars => (Passing => Majority)
  <2> SUFFICES ASSUME CountInv, [Next]_vars, Passing PROVE Majority
    OBVIOUS
  <2>0. execute' # execute
    OBVIOUS
  <2>a. FrameCounts
    <3>1. ~FramePasses /\ ~FrameExecutes /\ ~FrameResets
      BY <2>0 DEF FramePasses, FrameExecutes, FrameResets, Tick
    <3>2. ~Elsewhere
      BY <2>0 DEF Elsewhere, timers
    <3>3. \A s \in Slots : ~CallVote(s) /\ \A c \in {"yes", "no"} : ~TryCastVote(s, c)
      BY <2>0 DEF CallVote, TryCastVote
    <3> QED
      BY <3>1, <3>2, <3>3, VoteSteps
  <2>1. Passes
    BY <2>a DEF FrameCounts, Tick
  <2>2. Voted("yes") \cap Voted("no") = {}
    BY DEF Voted
  <2>3. Cardinality(Voted("yes") \cup Voted("no"))
          = Cardinality(Voted("yes")) + Cardinality(Voted("no"))
    BY <2>2, VotedFinite, FS_Union, FS_EmptySet
  <2> QED
    BY <2>1, <2>3 DEF Passes, CountInv, BallotsAgree, TypeOK
<1>2. CountInv /\ [Next]_vars => [Passing => Majority]_vars
  BY <1>1
<1>3. Spec => []CountInv
  <2>1. Init => CountInv
    BY VoteTypeInit, NoneVoted DEF Init, CountInv, IdleClean, BallotsAgree
  <2> QED
    BY <2>1, CountStep, PTL DEF Spec
<1> QED
  BY <1>2, <1>3, PTL DEF Spec, PassedByMajority

-----------------------------------------------------------------------------
(* The length of a vote *)

\* The frames until the vote is reset, when no further ballot comes.
FramesAlone == IF accept = Off THEN reset ELSE ResetDelay + (IF accept = 0 THEN 1 ELSE accept)

\* The slots that may still vote are finitely many, and no more than there are.
LEMMA UncastFinite ==
  /\ IsFiniteSet(Voted("uncast")) /\ Cardinality(Voted("uncast")) \in Nat
  /\ Cardinality(Voted("uncast")) <= Cardinality(Slots) /\ Cardinality(Slots) \in Nat
<1>1. Voted("uncast") \subseteq Slots
  BY DEF Voted
<1> QED
  BY <1>1, FS_Subset, FS_CardinalityType

\* A ballot takes one from the slots that may still vote.
LEMMA OneFewer ==
  ASSUME TypeOK, NEW s \in Slots, cast[s] = "uncast", NEW c \in {"yes", "no"},
         cast' = [cast EXCEPT ![s] = c]
  PROVE  /\ Cardinality(Voted("uncast")') = Cardinality(Voted("uncast")) - 1
         /\ Cardinality(Voted("uncast")) \in Nat \ {0}
<1>1. Voted("uncast")' = Voted("uncast") \ {s} /\ s \in Voted("uncast")
  BY DEF Voted, TypeOK
<1>2. Voted("uncast") # {}
  BY <1>1
<1> QED
  BY <1>1, <1>2, UncastFinite, FS_RemoveElement, FS_EmptySet

\* What is a product with one factor less, and with no greater factor.
LEMMA ResetsLeft ==
  ASSUME NEW n \in Nat
  PROVE  /\ n * ResetDelay \in Nat
         /\ n # 0 => (n - 1) * ResetDelay = n * ResetDelay - ResetDelay
         /\ \A m \in Nat : m <= n => m * ResetDelay <= n * ResetDelay
<1>1. n * ResetDelay \in Nat
  OBVIOUS
<1>2. (n - 1) * ResetDelay = n * ResetDelay - ResetDelay
  OBVIOUS
<1>3. ASSUME NEW m \in Nat, m <= n PROVE m * ResetDelay <= n * ResetDelay
  BY <1>3
<1> QED
  BY <1>1, <1>2, <1>3

\* The frames left are those without further ballots and a reset for each slot.
LEMMA LeftIs == FramesLeft = Cardinality(Voted("uncast")) * ResetDelay + FramesAlone
BY DEF FramesLeft, FramesAlone

\* A reset is carried out in the frame in which it is due, and its timer never found ended.
ResetAhead == active => reset # 0

TimeInv == CountInv /\ TimersExclude /\ ResetAhead

\* The timers of an active vote have frames left.
LEMMA AloneNat ==
  ASSUME TypeOK, TimersExclude, ResetAhead, active
  PROVE  FramesAlone \in Nat \ {0}
BY DEF TypeOK, TimersExclude, ResetAhead, FramesAlone

\* An active vote has frames left.
LEMMA LeftNat ==
  ASSUME TypeOK, TimersExclude, ResetAhead, active
  PROVE  FramesLeft \in Nat \ {0}
<1>1. FramesAlone \in Nat \ {0}
  BY AloneNat
<1>2. Cardinality(Voted("uncast")) * ResetDelay \in Nat
  BY UncastFinite, ResetsLeft
<1> QED
  BY <1>1, <1>2, LeftIs

\* The reset stays ahead.
LEMMA AheadStep == TypeOK /\ TimersExclude /\ ResetAhead /\ [Next]_vars => ResetAhead'
<1> SUFFICES ASSUME TypeOK, TimersExclude, ResetAhead, [Next]_vars PROVE ResetAhead'
  OBVIOUS
<1> USE DEF TypeOK, ResetAhead
<1>1. ASSUME NEW s \in Slots, CallVote(s) PROVE ResetAhead'
  BY <1>1 DEF CallVote, TimersExclude
<1>2. ASSUME NEW s \in Slots, NEW c \in {"yes", "no"}, TryCastVote(s, c) PROVE ResetAhead'
  BY <1>2 DEF TryCastVote
<1>3. CASE FrameCounts
  BY <1>3 DEF FrameCounts, ResetAfter
<1>4. CASE FrameResets
  BY <1>4 DEF FrameResets
<1>5. CASE FrameExecutes
  BY <1>5 DEF FrameExecutes, Due
<1>6. CASE FramePasses
  BY <1>6 DEF FramePasses, Due
<1>7. CASE Elsewhere
  BY <1>7 DEF Elsewhere, ballots, timers
<1> QED
  BY <1>1, <1>2, <1>3, <1>4, <1>5, <1>6, <1>7, VoteSteps

\* A frame of a vote takes one from the frames left, unless it is the last.
LEMMA FrameTakesOne ==
  ASSUME TypeOK, TimersExclude, ResetAhead, active, active', Frame
  PROVE  FramesLeft' = FramesLeft - 1
<1> USE DEF TypeOK, TimersExclude, ResetAhead
<1>1. ~FrameResets
  BY Zenon DEF FrameResets
<1>2. cast' = cast
  BY <1>1 DEF Frame, FrameCounts, FrameExecutes, FramePasses, ballots
<1>3. Voted("uncast")' = Voted("uncast")
  BY <1>2 DEF Voted
<1>4. FramesAlone' = FramesAlone - 1
  <2>1. CASE FrameCounts
    BY <2>1 DEF FrameCounts, ResetAfter, Due, Tick, FramesAlone
  <2>2. CASE FrameExecutes
    BY <2>2 DEF FrameExecutes, Due, Tick, FramesAlone
  <2>3. CASE FramePasses
    BY <2>3 DEF FramePasses, Due, Tick, FramesAlone
  <2> QED
    BY <1>1, <2>1, <2>2, <2>3 DEF Frame
<1>5. Cardinality(Voted("uncast")) * ResetDelay \in Nat /\ FramesAlone \in Nat
  BY UncastFinite, ResetsLeft, AloneNat
<1>6. FramesLeft' = Cardinality(Voted("uncast")') * ResetDelay + FramesAlone'
  BY DEF FramesLeft, FramesAlone
<1> QED
  BY <1>3, <1>4, <1>5, <1>6, LeftIs

\* A ballot gives no frames back: the reset it may cause is its slot's.
LEMMA BallotGivesNothing ==
  ASSUME TypeOK, TimersExclude, ResetAhead, active,
         NEW s \in Slots, NEW c \in {"yes", "no"}, TryCastVote(s, c)
  PROVE  FramesLeft' <= FramesLeft
<1> DEFINE n == Cardinality(Voted("uncast"))
<1>1. n \in Nat \ {0} /\ Cardinality(Voted("uncast")') = n - 1
  BY OneFewer DEF TryCastVote, MayCast
<1>2. FramesAlone' \in Nat /\ FramesAlone' <= FramesAlone + ResetDelay
  BY DEF TryCastVote, TypeOK, TimersExclude, ResetAhead, FramesAlone
<1>3. n * ResetDelay \in Nat /\ (n - 1) * ResetDelay = n * ResetDelay - ResetDelay
  BY <1>1, ResetsLeft
<1>4. FramesLeft' = Cardinality(Voted("uncast")') * ResetDelay + FramesAlone'
  BY DEF FramesLeft, FramesAlone
<1>5. FramesLeft' = n * ResetDelay - ResetDelay + FramesAlone'
  BY <1>1, <1>3, <1>4
<1>6. FramesAlone \in Nat
  BY AloneNat
<1>7. FramesLeft = n * ResetDelay + FramesAlone
  BY LeftIs
<1> HIDE DEF n
<1> QED
  BY <1>2, <1>3, <1>5, <1>6, <1>7

\* A vote that is called has at most its time and one reset for each slot.
LEMMA CallGives ==
  ASSUME CountInv, TimersExclude, NEW s \in Slots, CallVote(s)
  PROVE  \E t \in VoteTimes \cup {1} : FramesLeft' <= Cardinality(Slots) * ResetDelay + t
<1> DEFINE n == Cardinality(Voted("uncast"))
<1>1. cast[s] = "uncast" /\ cast' = [cast EXCEPT ![s] = "yes"]
  BY Zenon DEF CallVote, CountInv, IdleClean
<1>2. n \in Nat \ {0} /\ Cardinality(Voted("uncast")') = n - 1
  BY <1>1, OneFewer DEF CountInv
<1>3. /\ n * ResetDelay \in Nat /\ (n - 1) * ResetDelay = n * ResetDelay - ResetDelay
      /\ n * ResetDelay <= Cardinality(Slots) * ResetDelay /\ Cardinality(Slots) * ResetDelay \in Nat
  BY <1>2, ResetsLeft, UncastFinite
<1>4. accept' = 0 \/ accept' \in VoteTimes
  BY Zenon DEF CallVote
<1>5. PICK t \in VoteTimes \cup {1} : t \in Nat /\ FramesAlone' = ResetDelay + t
  <2>1. CASE accept' = 0
    BY <2>1 DEF FramesAlone
  <2>2. CASE accept' \in VoteTimes
    BY <2>2 DEF FramesAlone
  <2> QED
    BY <1>4, <2>1, <2>2
<1>6. FramesLeft' = Cardinality(Voted("uncast")') * ResetDelay + FramesAlone'
  BY DEF FramesLeft, FramesAlone
<1>7. FramesLeft' = n * ResetDelay + t
  BY <1>2, <1>3, <1>5, <1>6
<1> HIDE DEF n
<1>8. FramesLeft' <= Cardinality(Slots) * ResetDelay + t
  BY <1>3, <1>5, <1>7
<1> QED
  BY <1>8

\* What each step does to the frames left.
LEMMA TimeStep ==
  ASSUME TimeInv, [Next]_vars
  PROVE  IF active
         THEN /\ FramesLeft > 0
              /\ active' => FramesLeft' <= FramesLeft /\ (Frame => FramesLeft' < FramesLeft)
         ELSE active' =>
                \E t \in VoteTimes \cup {1} : FramesLeft' <= Cardinality(Slots) * ResetDelay + t
<1> USE DEF TimeInv, CountInv
<1>1. CASE active
  <2>1. FramesLeft \in Nat \ {0}
    BY <1>1, LeftNat
  <2>2. ASSUME active', Frame PROVE FramesLeft' = FramesLeft - 1
    BY <1>1, <2>2, FrameTakesOne
  <2>3. ASSUME active' PROVE FramesLeft' <= FramesLeft
    <3>1. ASSUME NEW s \in Slots, CallVote(s) PROVE FALSE
      BY <1>1, <3>1, Zenon DEF CallVote
    <3>2. ASSUME NEW s \in Slots, NEW c \in {"yes", "no"}, TryCastVote(s, c)
          PROVE  FramesLeft' <= FramesLeft
      BY <1>1, <3>2, BallotGivesNothing
    <3>3. CASE Frame
      BY <2>1, <2>2, <2>3, <3>3
    <3>4. CASE Elsewhere
      <4>1. FramesLeft' = FramesLeft
        BY <3>4 DEF Elsewhere, ballots, timers, FramesLeft, Voted
      <4> QED
        BY <2>1, <4>1
    <3> QED
      BY <3>1, <3>2, <3>3, <3>4, VoteSteps DEF Frame
  <2> QED
    BY <1>1, <2>1, <2>2, <2>3
<1>2. CASE ~active
  <2>1. SUFFICES ASSUME active'
                 PROVE  \E t \in VoteTimes \cup {1} :
                          FramesLeft' <= Cardinality(Slots) * ResetDelay + t
    BY <1>2
  <2>2. ~(\E s \in Slots : \E c \in {"yes", "no"} : TryCastVote(s, c))
    BY <1>2, Zenon DEF TryCastVote, MayCast
  <2>3. ~FrameCounts /\ ~FrameResets /\ ~FrameExecutes /\ ~FramePasses
    BY <1>2, Zenon DEF FrameCounts, FrameResets, FrameExecutes, FramePasses
  <2>4. ~Elsewhere
    BY <1>2, <2>1 DEF Elsewhere, ballots
  <2>5. PICK s \in Slots : CallVote(s)
    BY <2>2, <2>3, <2>4, VoteSteps
  <2> QED
    BY <2>5, CallGives
<1> QED
  BY <1>1, <1>2

\* For any number of slots and any times, each frame brings a vote nearer to its end
\* and no client holds it up: the part of VoteEnds that needs no fairness.
THEOREM VotesRunOut == Spec => VoteRunsOut
<1>1. Init => TimeInv
  BY VoteTypeInit, NoneVoted
  DEF Init, TimeInv, CountInv, IdleClean, BallotsAgree, TimersExclude, ResetAhead
<1>2. TimeInv /\ [Next]_vars => TimeInv'
  BY CountStep, TimersStep, AheadStep DEF TimeInv, CountInv
<1>3. Spec => []TimeInv
  BY <1>1, <1>2, PTL DEF Spec
<1>4. TimeInv /\ [Next]_vars =>
        [IF active
         THEN /\ FramesLeft > 0
              /\ active' => FramesLeft' <= FramesLeft /\ (Frame => FramesLeft' < FramesLeft)
         ELSE active' =>
                \E t \in VoteTimes \cup {1} :
                  FramesLeft' <= Cardinality(Slots) * ResetDelay + t]_vars
  BY TimeStep
<1> QED
  BY <1>3, <1>4, PTL DEF Spec, VoteRunsOut
=============================================================================
