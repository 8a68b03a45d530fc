------------------------- MODULE ConsensusVariable -------------------------
(***************************************************************************)
(* The data of a variable and what cace::ConsensusVariable computes on it. *)
(*                                                                         *)
(* A believe is what one robot thinks the value of a variable is: the      *)
(* robot (id), the value (val, NoValue when hasValue is false), the        *)
(* Lamport age (age), the accept strategy (strat) and the decision time    *)
(* (dec).  A variable is the robot's own believe together with the vector  *)
(* of proposals: the believes it has heard of from other robots, in the    *)
(* order in which it first heard of each.                                  *)
(*                                                                         *)
(* Name, type, validity and arrival time select nothing in the code below  *)
(* and are left out.                                                       *)
(***************************************************************************)
EXTENDS Integers, Sequences, FiniteSets

CONSTANTS
  Values,   \* the values users distribute
  MinBet,   \* numeric_limits<double>::min(), the vote of a robot that has none
  NoValue,  \* hasValue = false
  LongMax   \* numeric_limits<long>::max()

ASSUME ValuesAssumption == MinBet # NoValue /\ NoValue \notin Values
ASSUME LongMaxAssumption == LongMax \in Nat /\ LongMax >= 1

(***************************************************************************)
(* acceptStrategy: the number orders the delivery guarantees, the name     *)
(* also selects the function that resolves conflicts.                      *)
(***************************************************************************)
NoDistribution == 0
FireAndForget == 10
TwoWayHandShake == 40
ThreeWayHandShake == 70

SetStrategies == {8, 36, 66}
ElectionStrategies == {9, 37, 67}
MostRecentStrategies == {38, 68}
LowestIDStrategies == {39, 69}
DefaultStrategies == {NoDistribution, FireAndForget, TwoWayHandShake, ThreeWayHandShake}

Strategies == SetStrategies \cup ElectionStrategies \cup MostRecentStrategies
                \cup LowestIDStrategies \cup DefaultStrategies

AnyValue == Values \cup {MinBet}

Believe(Robots) ==
  [id : Robots, val : AnyValue \cup {NoValue}, age : Nat, strat : Strategies, dec : Nat]

-----------------------------------------------------------------------------
(***************************************************************************)
(* The accept functions.  Keeps(s, gt, lt) is what the function selected   *)
(* by strategy s returns for the winner so far, gt, and the next proposal, *)
(* lt: TRUE keeps gt, FALSE makes lt the winner.                           *)
(***************************************************************************)
Newer(gt, lt) == gt.age > lt.age \/ (gt.age = lt.age /\ gt.id > lt.id)

\* FAULT: the default strategy forgets the age.
Keeps_IgnoresAge(s, gt, lt) ==
  \/ s \in ElectionStrategies
  \/ s \in DefaultStrategies /\ gt.id > lt.id
  \/ s \in LowestIDStrategies /\ ~(lt.val # NoValue /\ lt.id < gt.id)
  \/ s \in MostRecentStrategies /\ ~(lt.val # NoValue /\ gt.dec < lt.dec)

\* FAULT: hasValue is not tested.
Keeps_IgnoresHasValue(s, gt, lt) ==
  \/ s \in ElectionStrategies
  \/ s \in DefaultStrategies /\ Newer(gt, lt)
  \/ s \in LowestIDStrategies /\ ~(lt.id < gt.id)
  \/ s \in MostRecentStrategies /\ ~(gt.dec < lt.dec)

Keeps(s, gt, lt) ==
  \/ s \in ElectionStrategies
  \/ s \in DefaultStrategies /\ Newer(gt, lt)
  \/ s \in LowestIDStrategies /\ ~(lt.val # NoValue /\ lt.id < gt.id)
  \/ s \in MostRecentStrategies /\ ~(lt.val # NoValue /\ gt.dec < lt.dec)

\* The own believe (0) or the i-th proposal.
Candidate(own, props, i) == IF i = 0 THEN own ELSE props[i]

\* The candidate the loop of acceptProposals ends with (module AcceptLoop has
\* the loop itself, and the theorem that this is what it computes).
IsWinner(own, props, w) ==
  /\ \A j \in (w + 1)..Len(props) :
       Keeps(own.strat, Candidate(own, props, w), props[j])
  /\ \A j \in 0..(w - 1) :
       ~ Keeps(own.strat, Candidate(own, props, j), Candidate(own, props, w))

\* update: everything but the robot id; LONG_MAX stands for "no decision time".
Update(own, new) ==
  [own EXCEPT !.val = new.val, !.age = new.age, !.strat = new.strat,
              !.dec = IF new.dec # LongMax THEN new.dec ELSE own.dec]

\* acceptProposals: the set of own believes it may leave behind (one, since the
\* accept functions are orders on the candidates).
AcceptProposals(own, props) ==
  { IF w = 0 THEN own ELSE Update(own, props[w]) :
      w \in {u \in 0..Len(props) : IsWinner(own, props, u)} }

-----------------------------------------------------------------------------
(***************************************************************************)
(* What the user asks of a variable; active is the vector activeRobots.    *)
(***************************************************************************)
\* FAULT: missing proposals are not noticed.
isAcknowledged_NoCount(own, props, active) ==
  \A k \in DOMAIN props : ~(own.age > props[k].age)

isAcknowledged(own, props, active) ==
  /\ Len(props) >= Cardinality(active)
  /\ \A k \in DOMAIN props : ~(own.age > props[k].age)

checkConflict(own, props, active) ==
  \E k \in DOMAIN props : props[k].id \in active /\ props[k].val # own.val

isAgreed(own, props, active) ==
  isAcknowledged(own, props, active) /\ ~checkConflict(own, props, active)
=============================================================================
