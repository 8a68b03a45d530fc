----------------------------- MODULE AcceptLoop -----------------------------
(***************************************************************************)
(* The loop of ConsensusVariable::acceptProposals, one proposal a step:    *)
(* winner starts as the own believe (0) and is compared, by the accept     *)
(* function of the own strategy, with each proposal in vector order.  The  *)
(* vector is any vector: it may hold several proposals of one robot, or    *)
(* proposals without a value.                                              *)
(***************************************************************************)
EXTENDS ConsensusVariable

CONSTANTS
  Robots,      \* robot ids
  Proposals,   \* the believes a proposal may be
  OwnBelieves, \* the believes the variable itself may hold
  MaxLength    \* bound on the length of the vector (TLC only)

ASSUME RobotsAssumption == Robots \subseteq Nat \ {0}
ASSUME BelievesAssumption == Proposals \subseteq Believe(Robots) /\ OwnBelieves \subseteq Believe(Robots)
ASSUME MaxLengthAssumption == MaxLength \in Nat

VARIABLES own, props, pos, winner
vars == <<own, props, pos, winner>>

Init ==
  /\ own \in OwnBelieves
  /\ props \in UNION {[1..n -> Proposals] : n \in 0..MaxLength}
  /\ pos = 0
  /\ winner = 0

\* FAULT: the accept function gets its arguments swapped.
Compare_Swapped ==
  /\ pos < Len(props)
  /\ pos' = pos + 1
  /\ winner' = IF Keeps(own.strat, props[pos'], Candidate(own, props, winner))
               THEN winner ELSE pos'
  /\ UNCHANGED <<own, props>>

\* FAULT: the winner is recorded one past the proposal.
Compare_OnePast ==
  /\ pos < Len(props)
  /\ pos' = pos + 1
  /\ winner' = IF Keeps(own.strat, Candidate(own, props, winner), props[pos'])
               THEN winner ELSE pos' + 1
  /\ UNCHANGED <<own, props>>

\* winner->accept(winner, cv): true keeps the winner, false replaces it.
Compare ==
  /\ pos < Len(props)
  /\ pos' = pos + 1
  /\ winner' = IF Keeps(own.strat, Candidate(own, props, winner), props[pos'])
               THEN winner ELSE pos'
  /\ UNCHANGED <<own, props>>

Next == Compare

Spec == Init /\ [][Next]_vars

-----------------------------------------------------------------------------
TypeOK ==
  /\ own \in OwnBelieves
  /\ props \in Seq(Proposals)
  /\ pos \in 0..Len(props)
  /\ winner \in 0..pos

AllHaveValues == \A k \in DOMAIN props : props[k].val # NoValue

\* The winner after pos comparisons.
WinnerSoFar ==
  /\ \A j \in (winner + 1)..pos : Keeps(own.strat, Candidate(own, props, winner), props[j])
  /\ \A j \in 0..(winner - 1) :
       ~ Keeps(own.strat, Candidate(own, props, j), Candidate(own, props, winner))

\* acceptProposals ends with the candidate IsWinner describes, whatever the order
\* of the vector and even with several proposals of one robot: the loop is a
\* maximum by (age, id), by lowest id, by latest decision, the own believe, or the
\* last proposal.
LoopFindsWinner == pos = Len(props) /\ AllHaveValues => IsWinner(own, props, winner)

\* defaultAcceptStrategy: a proposal with a smaller stamp than another candidate
\* is never accepted, and of two with the same stamp the higher id wins.
NoOlderProposalAccepted ==
  pos = Len(props) /\ own.strat \in DefaultStrategies =>
    \A j \in 0..Len(props) :
      ~ Newer(Candidate(own, props, j), Candidate(own, props, winner))

\* lowestIDAcceptStrategy, mostRecentAcceptStrategy: a proposal without a value
\* (hasValue is false) never replaces the own believe.
NoEmptyProposalAccepted ==
  winner # 0 /\ own.strat \in LowestIDStrategies \cup MostRecentStrategies =>
    props[winner].val # NoValue
=============================================================================
