------------------------------ MODULE Election ------------------------------
(***************************************************************************)
(* Elections: a variable with an election strategy, in which every robot   *)
(* keeps its own vote.  A robot bids by distributing its bet; one that     *)
(* hears of an election it has no bet in votes MinBet.  Whoever asks for   *)
(* the winner compares the votes its own robot knows.                      *)
(***************************************************************************)
EXTENDS CaceProtocol

\* numeric_limits<double>::min() is the least positive number: bets that are not
\* positive count as no bet.
ASSUME BetsAssumption == MinBet = 0 /\ Values \subseteq Int

\* FAULT: a robot does not count its own vote.
Votes_OthersOnly(r) == proposals[r]

\* The votes robot r knows, its own first.
Votes(r) == <<own[r]>> \o proposals[r]

\* The loop keeps the first of the highest bets.
IsElected(r, k) ==
  LET bet(j) == Votes(r)[j].val IN
  /\ bet(k) > MinBet
  /\ \A j \in DOMAIN Votes(r) : bet(j) < bet(k) \/ (bet(j) = bet(k) /\ j >= k)

\* Election::getWinner; 0 is nobody.
getWinner(r) ==
  IF \E k \in DOMAIN Votes(r) : IsElected(r, k)
  THEN Votes(r)[CHOOSE k \in DOMAIN Votes(r) : IsElected(r, k)].id
  ELSE 0

-----------------------------------------------------------------------------
(***************************************************************************)
(* Safety.                                                                 *)
(***************************************************************************)
IsElection(r) == own[r].strat \in ElectionStrategies

\* When all is quiet in an election the whole team takes part in, whomever a robot
\* names the winner no robot holds a higher bet: the votes it has recorded are the
\* votes of the others, whatever was repeated or reordered on the way.
ElectedHasHighestBet ==
  Quiet /\ (\A r \in Agents : IsElection(r) /\ activeRobots[r] = Others(r)) =>
    \A r, q \in Agents :
      LET w == getWinner(r) IN
      own[q].val > MinBet => w # 0 /\ own[q].val <= own[w].val

\* In elections a robot's vote becomes a bet only by its own user (the test
\* ElectionConflictHandling2 of systemTests.cpp expects it of a third robot: "Own
\* Believe3 is Not Correct"), whatever it hears and in whatever order.
VotesAreOwn ==
  [][Levels \subseteq ElectionStrategies =>
       \A r \in Agents :
         own'[r].val \in {own[r].val, MinBet} \/ commands' # commands]_vars
=============================================================================
