------------------------------- MODULE ZMVote -------------------------------
(***************************************************************************)
(* The vote on restarting the round: the vote controller                   *)
(* (CVoteController, server/vote_controller.cpp) with the one issue the    *)
(* mod registers (CZMVoteRoundRestart, server/zmr/zmr_voting.h).           *)
(*                                                                         *)
(* Clients call votes and cast ballots between the frames; a Frame is half *)
(* a second of game time, at whose end the controller thinks and then the  *)
(* game system executes a vote that passed.  The three timers of the       *)
(* controller count these frames.                                          *)
(***************************************************************************)
EXTENDS Integers, FiniteSets

CONSTANTS
  Slots,           \* client slots, the indices of m_nVotesCast
  Bots,            \* slots of fake clients, which have no vote
  SpectatorsVote,  \* sv_vote_allow_spectators
  VoteTimes,       \* sv_vote_timer_duration, with its random second more or less
  CommandDelay,    \* sv_vote_command_delay
  ResetDelay,      \* frames from the count to the reset (5 seconds)
  QuorumNum, QuorumDen  \* sv_vote_quorum_ratio as a fraction

\* The console variable of the delay is bounded by 4.5 seconds, so that the vote
\* is executed before it is reset.
ASSUME VoteAssumption ==
  /\ IsFiniteSet(Slots) /\ Bots \subseteq Slots
  /\ SpectatorsVote \in BOOLEAN
  /\ VoteTimes \subseteq Nat \ {0}
  /\ CommandDelay \in Nat /\ ResetDelay \in Nat \ {0, 1} /\ CommandDelay < ResetDelay
  /\ QuorumNum \in Nat /\ QuorumDen \in Nat \ {0}

VARIABLES
  team,       \* the team of the client in the slot, "none" for a free slot
  over,       \* IsInRoundEnd()
  active,     \* IsVoteActive()
  cast,       \* m_nVotesCast
  yes, no,    \* m_nVoteOptionCount
  potential,  \* m_nPotentialVotes
  accept,     \* m_acceptingVotesTimer
  execute,    \* m_executeCommandTimer
  reset,      \* m_resetVoteTimer
  locked      \* has the vote failed less than sv_vote_failure_timer ago?

ballots == <<active, cast, yes, no, potential>>
timers  == <<accept, execute, reset>>
vars == <<team, over, ballots, timers, locked>>

Teams == {"human", "zm", "spectator"}
Connected == {s \in Slots : team[s] # "none"}

\* A timer is Off, or holds the frames to its end.
Off == -1

\* The timer a frame later.
Tick(t) == IF t > 0 THEN t - 1 ELSE t

\* Mutant: a timer ends a frame early.
DueEarly(t) == Tick(t) \in {0, 1}

\* Does the timer end in this frame?
Due(t) == Tick(t) = 0

-----------------------------------------------------------------------------
(* Calling a vote, casting ballots *)

\* IsValidVoter
ValidVoter(s) ==
  /\ s \in Connected \ Bots
  /\ team[s] = "spectator" => SpectatorsVote

\* CountPotentialVoters
PotentialVoters == Cardinality({s \in Slots : ValidVoter(s)})

\* CheckForEarlyVoteClose, after a ballot: all the expected ones are in.
AllCast(y, n, expected) == y + n >= expected

\* callvote, CreateVote: anyone who may vote, but the master; the caller agrees.
CallVote(s) ==
  /\ s \in Connected \ Bots
  /\ team[s] = "spectator" => SpectatorsVote
  /\ ~active
  /\ ~over
  /\ team[s] # "zm"
  /\ ~locked
  /\ active' = TRUE
  /\ potential' = PotentialVoters
  /\ cast' = [cast EXCEPT ![s] = "yes"]
  /\ yes' = 1
  /\ IF AllCast(1, 0, potential') THEN accept' = 0 ELSE accept' \in VoteTimes
  /\ UNCHANGED <<team, over, no, execute, reset, locked>>

\* Mutants: ballots are taken while the vote is being executed; a slot may vote again.
MayCastClosed(s) == s \in Connected \ Bots /\ active /\ cast[s] = "uncast"
MayCastAgain(s)  == s \in Connected \ Bots /\ active /\ execute = Off

\* TryCastVote: may the slot vote?  Nothing asks whether it is a valid voter, nor
\* whether the ballots have been counted.
MayCast(s) ==
  /\ s \in Connected \ Bots
  /\ active
  /\ execute = Off
  /\ cast[s] = "uncast"

TryCastVote(s, choice) ==
  /\ MayCast(s)
  /\ cast' = [cast EXCEPT ![s] = choice]
  /\ yes' = IF choice = "yes" THEN yes + 1 ELSE yes
  /\ no'  = IF choice = "no"  THEN no + 1  ELSE no
  /\ accept' = IF AllCast(yes', no', potential) THEN 0 ELSE accept
  /\ UNCHANGED <<team, over, active, potential, execute, reset, locked>>

-----------------------------------------------------------------------------
(* Frames *)

\* Mutant: ties pass.
PassesTied == (yes + no) * QuorumDen >= potential * QuorumNum /\ yes >= no

\* VoteControllerThink: has the vote a quorum, and a majority?
Passes ==
  /\ (yes + no) * QuorumDen >= potential * QuorumNum
  /\ yes > no

\* Mutant: a vote that fails is never reset.
ResetAfterPass(passed) == IF passed THEN ResetDelay ELSE Off

\* The reset timer is started by a count, whatever its result.
ResetAfter(passed) == ResetDelay

\* VoteControllerThink: the time for ballots is up.
FrameCounts ==
  /\ active /\ Due(accept)
  /\ accept' = Off
  /\ execute' = IF Passes THEN CommandDelay ELSE Tick(execute)
  /\ reset' = ResetAfter(Passes)
  /\ locked' = (locked \/ ~Passes)
  /\ UNCHANGED <<team, over, ballots>>

\* VoteControllerThink: ResetData.
FrameResets ==
  /\ active /\ ~Due(accept) /\ Due(reset)
  /\ active' = FALSE
  /\ cast' = [s \in Slots |-> "uncast"]
  /\ yes' = 0 /\ no' = 0 /\ potential' = 0
  /\ accept' = Off /\ execute' = Off /\ reset' = Off
  /\ UNCHANGED <<team, over, locked>>

\* FrameUpdatePostEntityThink: ExecuteCommand, which ends the round.
FrameExecutes ==
  /\ active /\ ~Due(accept) /\ ~Due(reset) /\ Due(execute)
  /\ execute' = Off
  /\ accept' = Tick(accept) /\ reset' = Tick(reset)
  /\ over' = TRUE
  /\ UNCHANGED <<team, ballots, locked>>

\* Nothing is due.
FramePasses ==
  /\ active /\ ~Due(accept) /\ ~Due(reset) /\ ~Due(execute)
  /\ accept' = Tick(accept) /\ execute' = Tick(execute) /\ reset' = Tick(reset)
  /\ UNCHANGED <<team, over, ballots, locked>>

Frame == FrameCounts \/ FrameResets \/ FrameExecutes \/ FramePasses

-----------------------------------------------------------------------------
(* The rest of the game *)

\* Clients come and change teams (ZMRound says when).
ChangeTeam(s, t) ==
  /\ t # team[s]
  /\ team' = [team EXCEPT ![s] = t]
  /\ UNCHANGED <<over, ballots, timers, locked>>

\* A client disconnects.  The controller is not told: the ballot stays, and so
\* does the mark that the slot has voted.
Leave(s) ==
  /\ s \in Connected
  /\ team' = [team EXCEPT ![s] = "none"]
  /\ UNCHANGED <<over, ballots, timers, locked>>

\* Rounds end for other reasons, and begin.
RoundTurns ==
  /\ over' = ~over
  /\ UNCHANGED <<team, ballots, timers, locked>>

\* sv_vote_failure_timer elapses (CBaseIssue::CanCallVote).
LockoutEnds ==
  /\ locked /\ locked' = FALSE
  /\ UNCHANGED <<team, over, ballots, timers>>

-----------------------------------------------------------------------------
Init ==
  /\ team = [s \in Slots |-> "none"]
  /\ over = FALSE
  /\ active = FALSE
  /\ cast = [s \in Slots |-> "uncast"]
  /\ yes = 0 /\ no = 0 /\ potential = 0
  /\ accept = Off /\ execute = Off /\ reset = Off
  /\ locked = FALSE

ClientStep(s) ==
  \/ CallVote(s)
  \/ \E choice \in {"yes", "no"} : TryCastVote(s, choice)
  \/ \E t \in Teams : ChangeTeam(s, t)
  \/ Leave(s)

Next == (\E s \in Slots : ClientStep(s)) \/ Frame \/ RoundTurns \/ LockoutEnds

Spec == Init /\ [][Next]_vars

-----------------------------------------------------------------------------
(* Invariants *)

TypeOK ==
  /\ team \in [Slots -> Teams \cup {"none"}]
  /\ over \in BOOLEAN /\ active \in BOOLEAN /\ locked \in BOOLEAN
  /\ cast \in [Slots -> {"uncast", "yes", "no"}]
  /\ yes \in Nat /\ no \in Nat /\ potential \in Nat
  /\ accept \in Nat \cup {Off}
  /\ execute \in Nat \cup {Off}
  /\ reset \in Nat \cup {Off}

Voted(choice) == {s \in Slots : cast[s] = choice}

\* The option counters agree with the marks of the slots: through leavers, late
\* ballots and recounts every slot is counted once, and nothing stays from one vote
\* to the next.
BallotsAgree == yes = Cardinality(Voted("yes")) /\ no = Cardinality(Voted("no"))

\* An active vote always has a running timer and an idle controller none; ballots
\* are not accepted while a result waits to be executed; the execution is always due
\* before the reset, and only a late ballot runs together with the reset.
TimersExclude ==
  /\ active <=> accept # Off \/ execute # Off \/ reset # Off
  /\ accept = Off \/ execute = Off
  /\ execute # Off => execute < reset /\ reset > 1
  /\ accept > 0 => reset = Off

-----------------------------------------------------------------------------
(* Action properties *)

\* Whenever a vote passes, more slots have voted for the restart than against it,
\* and the slots that voted are a quorum of the clients that had a vote when it was
\* called, whoever has come, left or voted late since.
PassedByMajority ==
  [][execute = Off /\ execute' # Off =>
       /\ Cardinality(Voted("yes")) > Cardinality(Voted("no"))
       /\ Cardinality(Voted("yes") \cup Voted("no")) * QuorumDen >= potential * QuorumNum]_vars

\* "A vote that fails cannot be re-submitted for this long" (the console variable
\* sv_vote_failure_timer): no vote passes while the issue is locked by a failure.
FailureLocks == [][execute = Off /\ execute' # Off => ~locked]_vars

\* The frames that a vote may still take: until the count and the reset that follows
\* it, and once more until the reset for each slot that may come with a late ballot.
FramesLeft ==
  Cardinality(Voted("uncast")) * ResetDelay
    + (IF accept = Off THEN reset ELSE ResetDelay + (IF accept = 0 THEN 1 ELSE accept))

\* A vote runs out of time.  Each frame takes from the frames that are left, and nothing
\* that clients do gives any back, late ballots that start a second count and a second
\* reset included; so from its call a vote takes at most its time and one reset for
\* each slot.
VoteRunsOut ==
  [][IF active
     THEN /\ FramesLeft > 0
          /\ active' => FramesLeft' <= FramesLeft /\ (Frame => FramesLeft' < FramesLeft)
     ELSE active' =>
            \E t \in VoteTimes \cup {1} : FramesLeft' <= Cardinality(Slots) * ResetDelay + t]_vars

-----------------------------------------------------------------------------
(* Liveness *)

\* Frames go by whatever the clients do.
FairSpec == Spec /\ WF_vars(Frame)

\* Every vote comes to its end, however many late ballots open it again.
VoteEnds == active ~> ~active

-----------------------------------------------------------------------------
(* The abstract ballot, which ZMRound composes with the rounds *)

Phase ==
  IF ~active THEN "none"
  ELSE IF execute # Off THEN "passed"
  ELSE IF accept # Off THEN "open"
  ELSE "counted"

Ballot == INSTANCE ZMBallot WITH phase <- Phase

\* The controller implements the abstract ballot: a vote that passes is executed
\* before it is reset, once for each count that passes.
BallotSpec == Ballot!Spec
=============================================================================
