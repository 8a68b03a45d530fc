-------------------------- MODULE AcceptLoopProofs --------------------------
(***************************************************************************)
(* Proofs about the loop of acceptProposals, for vectors of any length and *)
(* any believes: what it ends with is the candidate IsWinner describes,    *)
(* which is all that the protocol module uses of it.                       *)
(***************************************************************************)
EXTENDS AcceptLoop, TLAPS

\* The numbers the accept functions compare.
Comparable(b) == b.id \in Nat /\ b.age \in Nat /\ b.dec \in Nat

\* Why the loop needs one pass: what does not keep its place against a candidate
\* does not keep it against the next winner either (setAcceptStrategy selects the
\* order by the strategy).
LEMMA LoserStaysLoser ==
  ASSUME NEW s \in Strategies, NEW a, NEW b, NEW c,
         Comparable(a), Comparable(b), Comparable(c),
         (b.val # NoValue /\ c.val # NoValue) \/ s \in DefaultStrategies,
         ~ Keeps(s, a, b), ~ Keeps(s, b, c)
  PROVE  ~ Keeps(s, a, c)
<1>1. CASE s \in DefaultStrategies
  BY <1>1 DEF Keeps, Newer, Comparable, DefaultStrategies, ElectionStrategies,
     LowestIDStrategies, MostRecentStrategies, NoDistribution, FireAndForget,
     TwoWayHandShake, ThreeWayHandShake
<1>2. CASE s \notin DefaultStrategies
  BY <1>2 DEF Keeps, Comparable, ElectionStrategies, LowestIDStrategies, MostRecentStrategies
<1>3. QED BY <1>1, <1>2

\* A candidate the winner keeps its place against loses to whatever beats the winner.
LEMMA KeptFromStaysLoser ==
  ASSUME NEW s \in Strategies, NEW a, NEW b, NEW c,
         Comparable(a), Comparable(b), Comparable(c),
         (a.val # NoValue /\ c.val # NoValue) \/ s \in DefaultStrategies,
         Keeps(s, b, a), ~ Keeps(s, b, c)
  PROVE  ~ Keeps(s, a, c)
<1>1. CASE s \in DefaultStrategies
  BY <1>1 DEF Keeps, Newer, Comparable, DefaultStrategies, ElectionStrategies,
     LowestIDStrategies, MostRecentStrategies, NoDistribution, FireAndForget,
     TwoWayHandShake, ThreeWayHandShake
<1>2. CASE s \notin DefaultStrategies
  BY <1>2 DEF Keeps, Comparable, ElectionStrategies, LowestIDStrategies, MostRecentStrategies
<1>3. QED BY <1>1, <1>2

\* The own believe and the proposals have an id, an age and a decision time.
LEMMA CandidatesComparable ==
  ASSUME TypeOK, NEW j \in 0..Len(props)
  PROVE  Comparable(Candidate(own, props, j))
<1>1. own \in Believe(Robots)
  BY BelievesAssumption DEF TypeOK
<1>2. \A k \in 1..Len(props) : props[k] \in Believe(Robots)
  BY BelievesAssumption DEF TypeOK
<1>3. \A b \in Believe(Robots) : Comparable(b)
  BY RobotsAssumption DEF Believe, Comparable
<1>4. QED BY <1>1, <1>2, <1>3 DEF Candidate

-----------------------------------------------------------------------------
\* A vector of proposals of any length is a sequence.
LEMMA InitTypeOK == Init => TypeOK
<1> SUFFICES ASSUME Init PROVE TypeOK
  OBVIOUS
<1>1. PICK n \in 0..MaxLength : props \in [1..n -> Proposals]
  BY DEF Init
<1>2. props \in Seq(Proposals) /\ Len(props) \in Nat
  BY <1>1, MaxLengthAssumption
<1>3. QED BY <1>2 DEF Init, TypeOK

\* The loop never leaves the vector, and the winner is the own believe or one of
\* the proposals compared so far.
THEOREM TypeCorrect == Spec => []TypeOK
<1>1. Init => TypeOK
  BY InitTypeOK
<1>2. TypeOK /\ [Next]_vars => TypeOK'
  <2> SUFFICES ASSUME TypeOK, [Next]_vars PROVE TypeOK'
    OBVIOUS
  <2>1. CASE Compare
    <3>1. pos + 1 \in 0..Len(props) /\ winner \in 0..(pos + 1)
      BY <2>1 DEF Compare, TypeOK
    <3>2. QED BY <2>1, <3>1 DEF Compare, TypeOK
  <2>2. CASE UNCHANGED vars
    BY <2>2 DEF TypeOK, vars
  <2>3. QED BY <2>1, <2>2 DEF Next
<1>3. QED BY <1>1, <1>2, PTL DEF Spec

-----------------------------------------------------------------------------
\* When the accept function is an order on the candidates.
Ordered == AllHaveValues \/ own.strat \in DefaultStrategies

LoopInv == TypeOK /\ (Ordered => WinnerSoFar)

LEMMA LoopInvHolds == Spec => []LoopInv
<1>1. Init => LoopInv
  <2> SUFFICES ASSUME Init PROVE WinnerSoFar
    BY InitTypeOK DEF LoopInv
  <2>1. QED BY DEF Init, WinnerSoFar
<1>2. TypeOK /\ LoopInv /\ TypeOK' /\ [Next]_vars => LoopInv'
  <2> SUFFICES ASSUME TypeOK, LoopInv, TypeOK', [Next]_vars, Ordered'
               PROVE  WinnerSoFar'
    BY DEF LoopInv
  <2>1. UNCHANGED <<own, props>>
    BY DEF Next, Compare, vars
  <2>2. Ordered /\ WinnerSoFar
    BY <2>1 DEF LoopInv, Ordered, AllHaveValues
  <2>3. CASE Compare
    <3> DEFINE C(j) == Candidate(own, props, j)
               K(j, k) == Keeps(own.strat, C(j), C(k))
    <3>1. pos \in Nat /\ pos + 1 \in 1..Len(props) /\ winner \in 0..pos /\ Len(props) \in Nat
      BY <2>3 DEF Compare, TypeOK
    <3>2. \A j \in 1..Len(props) : C(j) = props[j]
      BY DEF Candidate
    <3>3. /\ \A j \in (winner + 1)..pos : K(winner, j)
          /\ \A j \in 0..(winner - 1) : ~ K(j, winner)
      BY <2>2, <3>1, <3>2 DEF WinnerSoFar
    <3>4. \A j \in 0..Len(props) : Comparable(C(j))
      BY CandidatesComparable
    <3>5. own.strat \in Strategies
      BY BelievesAssumption DEF TypeOK, Believe
    <3>6. \A j \in 1..Len(props) : C(j).val # NoValue \/ own.strat \in DefaultStrategies
      BY <2>2, <3>2 DEF Ordered, AllHaveValues, TypeOK
    <3>7. SUFFICES /\ \A j \in (winner' + 1)..(pos + 1) : K(winner', j)
                   /\ \A j \in 0..(winner' - 1) : ~ K(j, winner')
      <4>1. pos' = pos + 1 /\ winner' \in 0..(pos + 1)
        BY <2>3, <3>1 DEF Compare
      <4>2. \A j \in (winner' + 1)..(pos + 1) : j \in 1..Len(props)
        <5>1. \A n, w, p \in Nat : p + 1 <= n => (w + 1)..(p + 1) \subseteq 1..n
          OBVIOUS
        <5>2. winner' \in Nat /\ pos + 1 <= Len(props)
          BY <3>1, <4>1
        <5>3. QED BY <3>1, <5>1, <5>2
      <4>3. \A j \in (winner' + 1)..(pos + 1) : Keeps(own.strat, C(winner'), props[j])
        BY <3>2, <3>7, <4>2
      <4>4. QED BY <2>1, <3>7, <4>1, <4>3 DEF WinnerSoFar, Candidate
    <3>8. CASE K(winner, pos + 1)
      <4>1. winner' = winner
        BY <2>3, <3>1, <3>2, <3>8 DEF Compare
      <4>2. \A j \in (winner + 1)..(pos + 1) : j \in (winner + 1)..pos \/ j = pos + 1
        BY <3>1
      <4>3. QED BY <3>3, <3>8, <4>1, <4>2
    <3>9. CASE ~ K(winner, pos + 1)
      <4>1. winner' = pos + 1
        BY <2>3, <3>1, <3>2, <3>9 DEF Compare
      <4>2. ASSUME NEW j \in 0..pos PROVE ~ K(j, pos + 1)
        <5>1. CASE j = winner
          BY <3>9, <5>1
        <5>2. CASE j < winner
          <6>1. ~ K(j, winner) /\ winner \in 1..Len(props) /\ j \in 0..Len(props)
            BY <3>1, <3>3, <5>2
          <6>2. Comparable(C(j)) /\ Comparable(C(winner)) /\ Comparable(C(pos + 1))
            BY <3>1, <3>4, <6>1
          <6>3. \/ C(winner).val # NoValue /\ C(pos + 1).val # NoValue
                \/ own.strat \in DefaultStrategies
            BY <3>1, <3>6, <6>1
          <6>4. QED BY <3>5, <3>9, <6>1, <6>2, <6>3, LoserStaysLoser
        <5>3. CASE j > winner
          <6>1. K(winner, j) /\ j \in 1..Len(props)
            BY <3>1, <3>3, <5>3
          <6>2. Comparable(C(j)) /\ Comparable(C(winner)) /\ Comparable(C(pos + 1))
            BY <3>1, <3>4, <6>1
          <6>3. \/ C(j).val # NoValue /\ C(pos + 1).val # NoValue
                \/ own.strat \in DefaultStrategies
            BY <3>1, <3>6, <6>1
          <6>4. QED BY <3>5, <3>9, <6>1, <6>2, <6>3, KeptFromStaysLoser
        <5>4. QED BY <3>1, <5>1, <5>2, <5>3
      <4>3. (pos + 1) - 1 = pos /\ (pos + 2)..(pos + 1) = {}
        BY <3>1
      <4>4. QED BY <3>1, <4>1, <4>2, <4>3
    <3>10. QED BY <3>8, <3>9
  <2>4. CASE UNCHANGED vars
    BY <2>2, <2>4 DEF WinnerSoFar, vars
  <2>5. QED BY <2>3, <2>4 DEF Next
<1>3. QED BY <1>1, <1>2, TypeCorrect, PTL DEF Spec

\* acceptProposals ends with the candidate IsWinner describes: the definition the
\* protocol module uses instead of the loop computes the same.
THEOREM LoopWinner == Spec => []LoopFindsWinner
<1>1. LoopInv => LoopFindsWinner
  BY DEF LoopInv, Ordered, WinnerSoFar, LoopFindsWinner, IsWinner
<1>2. QED BY <1>1, LoopInvHolds, PTL

\* defaultAcceptStrategy: no candidate is newer than the one accepted, and ties go
\* to the higher id, in whatever order the proposals stand.
THEOREM NewestWins == Spec => []NoOlderProposalAccepted
<1>1. LoopInv => NoOlderProposalAccepted
  <2> SUFFICES ASSUME LoopInv, pos = Len(props), own.strat \in DefaultStrategies,
                      NEW j \in 0..Len(props)
               PROVE  ~ Newer(Candidate(own, props, j), Candidate(own, props, winner))
    BY DEF NoOlderProposalAccepted
  <2>1. WinnerSoFar /\ winner \in 0..Len(props) /\ Len(props) \in Nat
    BY DEF LoopInv, Ordered, TypeOK
  <2>2. Comparable(Candidate(own, props, j)) /\ Comparable(Candidate(own, props, winner))
    BY <2>1, CandidatesComparable DEF LoopInv
  <2>3. \A gt, lt : Keeps(own.strat, gt, lt) <=> Newer(gt, lt)
    BY DEF Keeps, DefaultStrategies, ElectionStrategies, LowestIDStrategies,
       MostRecentStrategies, NoDistribution, FireAndForget, TwoWayHandShake, ThreeWayHandShake
  <2>4. CASE j < winner
    BY <2>1, <2>3, <2>4 DEF WinnerSoFar
  <2>5. CASE j > winner
    <3>1. Candidate(own, props, j) = props[j]
      BY <2>1, <2>5 DEF Candidate
    <3>2. Newer(Candidate(own, props, winner), Candidate(own, props, j))
      BY <2>1, <2>3, <2>5, <3>1 DEF WinnerSoFar
    <3>3. QED BY <2>2, <3>2 DEF Newer, Comparable
  <2>6. CASE j = winner
    BY <2>2, <2>6 DEF Newer, Comparable
  <2>7. QED BY <2>1, <2>4, <2>5, <2>6
<1>2. QED BY <1>1, LoopInvHolds, PTL
-----------------------------------------------------------------------------
\* lowestIDAcceptStrategy, mostRecentAcceptStrategy: a proposal without a value never
\* becomes the winner, whichever proposals, with or without values, stand around it.
\* No order on the candidates is needed: the function refuses each such proposal
\* when the loop comes to it, and an earlier winner is replaced by one with a value.
THEOREM NonEmptyWins == Spec => []NoEmptyProposalAccepted
<1>1. Init => NoEmptyProposalAccepted
  BY DEF Init, NoEmptyProposalAccepted
<1>2. TypeOK /\ NoEmptyProposalAccepted /\ [Next]_vars => NoEmptyProposalAccepted'
  <2> SUFFICES ASSUME TypeOK, NoEmptyProposalAccepted, [Next]_vars
               PROVE  NoEmptyProposalAccepted'
    OBVIOUS
  <2>1. CASE Compare
    <3>1. UNCHANGED <<own, props>> /\ pos' \in Nat /\ pos' # 0
      BY <2>1 DEF Compare, TypeOK
    <3>2. CASE winner' = winner
      BY <3>1, <3>2 DEF NoEmptyProposalAccepted
    <3>3. CASE /\ winner' = pos'
               /\ ~ Keeps(own.strat, Candidate(own, props, winner), props[pos'])
      <4>1. own.strat \in LowestIDStrategies \cup MostRecentStrategies
              => props[pos'].val # NoValue
        BY <3>3 DEF Keeps
      <4>2. QED BY <3>1, <3>3, <4>1 DEF NoEmptyProposalAccepted
    <3>4. QED BY <2>1, <3>2, <3>3 DEF Compare
  <2>2. CASE UNCHANGED vars
    BY <2>2 DEF NoEmptyProposalAccepted, vars
  <2>3. QED BY <2>1, <2>2 DEF Next
<1>3. QED BY <1>1, <1>2, TypeCorrect, PTL DEF Spec
=============================================================================
