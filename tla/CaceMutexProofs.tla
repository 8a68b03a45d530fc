--------------------------- MODULE CaceMutexProofs ---------------------------
(***************************************************************************)
(* The mutex under sequential use: each call when all that the call before *)
(* caused is over.  For any team, any retries, repetitions and             *)
(* duplicates, and with any robots in safeStepMode.                        *)
(*                                                                         *)
(* The inductive invariant follows one round, from a call to the quiet     *)
(* state after it.  The round has a value u and a stamp L: the clock of    *)
(* its robot, which is later than the age of everything any robot keeps.   *)
(* Whatever is sent in the round brings u with a stamp from L on.  A robot *)
(* that is still behind has the command waiting for it.  A robot has heard *)
(* of each other robot in this round, or something of that robot waits for *)
(* it, or that robot has the command waiting, and will answer everybody.   *)
(* When nothing waits any more, each robot has u from every other robot.   *)
(*                                                                         *)
(* That the next round is later than everything this one leaves behind is  *)
(* the work of the third way of the handshake: each acknowledge makes a    *)
(* robot tick and send a short ack, which takes the clocks of all robots   *)
(* past the stamp the acknowledge is recorded with (AgesHeard).            *)
(***************************************************************************)
EXTENDS CaceMutex, CaceSafetyProofs

USE AgentsAssumption, LevelsAssumption, TimesAssumption, BoundsAssumption, ModesAssumption,
    ValuesAssumption, LongMaxAssumption, MutexAssumption

-----------------------------------------------------------------------------
(***************************************************************************)
(* The inductive invariant.                                                *)
(***************************************************************************)
\* The command of the round has not reached the store of robot r.
Pending(r) == \E n \in Waiting(r) : n.kind = "Command"

\* All clocks are past a, or on the way to be.
Passed(a) == \A x \in Agents : clock[x] > a \/ \E p \in net[x] : p.stamp > a

\* The clock of x will be past a: when an acknowledge from a on is put through
\* doVariableUpdate, a short ack takes all clocks past it.
WillPass(x, a) ==
  \/ clock[x] > a
  \/ \E p \in net[x] : p.stamp > a
  \/ \E y \in Agents : \E n \in Waiting(y) : n.kind = "Acknowledge" /\ n.stamp >= a

AgesHeard ==
  \A r, x \in Agents :
    /\ WillPass(x, own[r].age)
    /\ \A k \in DOMAIN proposals[r] : WillPass(x, proposals[r][k].age)

RoundPacket(L, u, m) ==
  /\ m.kind \in {"Command", "Acknowledge"} => m.val = u /\ m.stamp >= L
  /\ m.kind = "Command" => m.level = ThreeWayHandShake

RoundJob(L, u, r, j) ==
  /\ j.kind = "CommandJob" => j.val = u /\ j.stamp >= L
  /\ j.kind = "CommandAcknowledgeJob" =>
       RoundPacket(L, u, j.cmd) /\ (j.started => own[r].val = u /\ j.stamp >= L)
  /\ j.kind = "ShortAckJob" => RoundPacket(L, u, j.ack)

\* Nothing of the round has reached the store of r.  A robot that does not know yet
\* that it is not the owner would be a second one: r does not hold its own id.
Behind(L, r) ==
  /\ own[r].val # r
  /\ own[r].age < L
  /\ \A k \in DOMAIN proposals[r] : proposals[r][k].age < L
  /\ Pending(r)

RoundVariable(L, u, r) ==
  /\ own[r].strat = ThreeWayHandShake
  /\ own[r].val # NoValue
  /\ own[r].val = u \/ Behind(L, r)
  /\ \A k \in DOMAIN proposals[r] :
       /\ proposals[r][k].strat = ThreeWayHandShake
       /\ proposals[r][k].val = u \/ proposals[r][k].age < L
  /\ own[r].age <= L \/ \E k \in DOMAIN proposals[r] : proposals[r][k].age >= own[r].age

\* Robot r has u from robot q, or will get it.
Heeds(L, r, q) == \E k \in DOMAIN proposals[r] : proposals[r][k].id = q /\ proposals[r][k].age >= L

HearsOf(L, r, q) == Heeds(L, r, q) \/ (\E n \in Waiting(r) : n.from = q) \/ Pending(q)

RoundPackets(L, u) == \A r \in Agents : \A m \in net[r] : RoundPacket(L, u, m)
RoundJobs(L, u) == \A r \in Agents : \A i \in DOMAIN jobs[r] : RoundJob(L, u, r, jobs[r][i])
RoundVariables(L, u) == \A r \in Agents : RoundVariable(L, u, r)
AllHear(L) == \A r \in Agents : \A q \in Others(r) : HearsOf(L, r, q)

Round(L, u) == RoundPackets(L, u) /\ RoundJobs(L, u) /\ RoundVariables(L, u) /\ AllHear(L)

\* No call yet: the mutex lies in every store, and nobody has heard of another robot.
Untouched ==
  /\ commands = 0
  /\ \A r \in Agents : /\ clock[r] = 1 /\ own[r] = MutexVariable(r) /\ proposals[r] = <<>>
                       /\ jobs[r] = <<>> /\ net[r] = {}

FullTeam == \A r \in Agents : activeRobots[r] = Others(r)

MutexInv ==
  /\ SafetyInv
  /\ FullTeam
  /\ Untouched \/ (AgesHeard /\ \E L \in Nat, u \in Values : Round(L, u))

-----------------------------------------------------------------------------
(***************************************************************************)
(* doVariableUpdate in a round.                                            *)
(***************************************************************************)
\* With a default strategy acceptProposals ends with a believe as new as any proposal.
LEMMA AcceptedNewest ==
  ASSUME NEW b \in Valued, b.strat \in DefaultStrategies, NEW props \in Seq(Valued),
         NEW a \in AcceptProposals(b, props), NEW k \in DOMAIN props
  PROVE  a.age >= props[k].age
<1>1. PICK w \in 0..Len(props) :
        IsWinner(b, props, w) /\ a = IF w = 0 THEN b ELSE Update(b, props[w])
  BY DEF AcceptProposals
<1>2. Len(props) \in Nat /\ k \in 1..Len(props) /\ props[k] \in Valued
  BY ElementOfSeq, LenProperties
<1>3. props[k].age \in Nat /\ b.age \in Nat
  BY <1>2 DEF Valued, Believe
<1>4. Candidate(b, props, w).age \in Nat /\ a.age = Candidate(b, props, w).age
  <2>1. CASE w = 0
    BY <1>1, <1>3, <2>1 DEF Candidate
  <2>2. CASE w # 0
    <3>1. props[w] \in Valued
      BY <1>2, <2>2, ElementOfSeq, LenProperties
    <3>2. QED BY <1>1, <2>2, <3>1 DEF Candidate, Update, Valued, Believe
  <2>3. QED BY <2>1, <2>2
<1>5. b.strat \notin ElectionStrategies /\ b.strat \notin LowestIDStrategies
      /\ b.strat \notin MostRecentStrategies
  BY DEF DefaultStrategies, ElectionStrategies, LowestIDStrategies, MostRecentStrategies,
     NoDistribution, FireAndForget, TwoWayHandShake, ThreeWayHandShake
<1>6. \A x, y : Keeps(b.strat, x, y) <=> Newer(x, y)
  BY <1>5 DEF Keeps
<1>7. CASE k > w
  <2>1. k \in (w + 1)..Len(props)
    BY <1>2, <1>7
  <2>2. Newer(Candidate(b, props, w), props[k])
    BY <1>1, <1>6, <2>1 DEF IsWinner
  <2>3. QED BY <1>3, <1>4, <2>2 DEF Newer
<1>8. CASE k < w
  <2>1. k \in 0..(w - 1) /\ Candidate(b, props, k) = props[k]
    BY <1>2, <1>8 DEF Candidate
  <2>2. ~Newer(props[k], Candidate(b, props, w))
    BY <1>1, <1>6, <2>1 DEF IsWinner
  <2>3. QED BY <1>3, <1>4, <2>2 DEF Newer
<1>9. CASE k = w
  BY <1>2, <1>3, <1>4, <1>9 DEF Candidate
<1>10. QED BY <1>2, <1>7, <1>8, <1>9

\* In a round every proposal is a three way one.
LEMMA ThreeWayProposals ==
  ASSUME TypeInv, NEW r \in Agents, NEW m \in Message, own[r].strat = ThreeWayHandShake,
         existsVariable(r),
         \A k \in DOMAIN proposals[r] : proposals[r][k].strat = ThreeWayHandShake
  PROVE  /\ m.level = ThreeWayHandShake =>
              \A k \in DOMAIN ProposalsAfterCommand(r, m) :
                ProposalsAfterCommand(r, m)[k].strat = ThreeWayHandShake
         /\ \A k \in DOMAIN ProposalsAfterAck(r, m) :
              ProposalsAfterAck(r, m)[k].strat = ThreeWayHandShake
<1>1. \A strat, dec : Heard(m, strat, dec).strat = strat
  BY DEF Heard
<1>2. proposals[r] \in Seq(Believe(Agents))
  BY DEF TypeInv, TypeOK
<1>3. ASSUME NEW b, b.strat = ThreeWayHandShake, NEW k \in DOMAIN Append(proposals[r], b)
      PROVE  Append(proposals[r], b)[k].strat = ThreeWayHandShake
  <2>1. PICK S : S = Believe(Agents) \cup {b}
    OBVIOUS
  <2>2. proposals[r] \in Seq(S) /\ b \in S
    BY <1>2, <2>1, SeqMonotonic
  <2>3. /\ Append(proposals[r], b) \in Seq(S)
        /\ Len(Append(proposals[r], b)) = Len(proposals[r]) + 1
        /\ \A l \in 1..Len(proposals[r]) : Append(proposals[r], b)[l] = proposals[r][l]
        /\ Append(proposals[r], b)[Len(proposals[r]) + 1] = b
    BY <2>2, AppendProperties
  <2>4. /\ DOMAIN proposals[r] = 1..Len(proposals[r]) /\ Len(proposals[r]) \in Nat
        /\ k \in 1..(Len(proposals[r]) + 1)
    BY <2>2, <2>3, LenProperties
  <2>5. k \in 1..Len(proposals[r]) \/ k = Len(proposals[r]) + 1
    BY <2>4
  <2>6. QED BY <1>3, <2>3, <2>4, <2>5
<1>4. CASE Known(r, m)
  BY <1>1, <1>4 DEF ProposalsAfterCommand, ProposalsAfterAck
<1>5. CASE ~Known(r, m)
  BY <1>1, <1>3, <1>5 DEF ProposalsAfterCommand, ProposalsAfterAck
<1>6. QED BY <1>4, <1>5

\* A packet of the round that was put through doVariableUpdate leaves robot r with the
\* value of the round, and with a proposal of the sender that belongs to the round.
Stored(L, u, r, n) ==
  /\ own'[r].strat = ThreeWayHandShake
  /\ own'[r].val = u
  /\ \A k \in DOMAIN proposals'[r] :
       /\ proposals'[r][k].strat = ThreeWayHandShake
       /\ \/ k \in DOMAIN proposals[r] /\ proposals'[r][k] = proposals[r][k]
          \/ proposals'[r][k].val = u /\ proposals'[r][k].age = n.stamp
  /\ own'[r].age <= L \/ \E k \in DOMAIN proposals'[r] : proposals'[r][k].age >= own'[r].age
  /\ own'[r].age = own[r].age \/ \E k \in DOMAIN proposals'[r] : own'[r].age = proposals'[r][k].age
  /\ Heeds(L, r, n.from)'

LEMMA UpdateStores ==
  ASSUME SafetyInv, NEW L \in Nat, NEW u \in Values, NEW r \in Agents, RoundVariable(L, u, r),
         NEW m \in Message, m.kind \in {"Command", "Acknowledge"}, RoundPacket(L, u, m),
         NEW created, NEW props \in Seq(Valued), BroughtProposals(r, m, props),
         \A k \in DOMAIN props : props[k].strat = ThreeWayHandShake,
         DoVariableUpdate(r, created, props)
  PROVE  Stored(L, u, r, m)
<1>1. /\ own \in [Agents -> Believe(Agents)] /\ proposals \in [Agents -> Seq(Believe(Agents))]
      /\ own[r].age \in Nat /\ TypeInv /\ OneOfEach(r)
      /\ m.stamp \in Nat /\ m.stamp >= L /\ m.val = u
  <2>1. m.stamp \in Nat
    BY MessageFields
  <2>2. OneOfEach(r)
    BY TrueMeansUsed
  <2>3. QED BY <2>1, <2>2 DEF SafetyInv, TypeInv, TypeOK, Believe, RoundPacket
<1>2. PICK b \in IF props = proposals[r] THEN {own[r]}
                 ELSE AcceptProposals(OwnBefore(r, created), props) :
         own' = [own EXCEPT ![r] = b] /\ proposals' = [proposals EXCEPT ![r] = props]
  BY DEF DoVariableUpdate
<1>3. own'[r] = b /\ proposals'[r] = props
  BY <1>1, <1>2
<1>4. /\ \A k \in DOMAIN proposals[r] : k \in DOMAIN props /\ Renewed(proposals[r][k], props[k])
      /\ \A k \in DOMAIN props :
           (k \in DOMAIN proposals[r] /\ props[k] = proposals[r][k]) \/ Brought(m, props[k])
  BY <1>1, RenewedProposals
<1>5. \A k \in DOMAIN props : props[k].age \in Nat
  <2>1. \A k \in DOMAIN props : props[k] \in Valued
    BY ElementOfSeq, LenProperties
  <2>2. QED BY <2>1 DEF Valued, Believe
<1>6. PICK s \in DOMAIN props : props[s].id = m.from /\ props[s].age >= m.stamp
  BY <1>1, SenderProposed
<1>7. props[s].age >= L
  BY <1>1, <1>5, <1>6
<1>8. /\ own[r].strat = ThreeWayHandShake /\ own[r] \in Valued /\ OwnBefore(r, created) = own[r]
      /\ own[r].strat \in DefaultStrategies
  BY <1>1 DEF RoundVariable, Valued, OwnBefore, existsVariable, DefaultStrategies
<1>9. \/ props = proposals[r] /\ b = own[r]
      \/ props # proposals[r] /\ b \in AcceptProposals(own[r], props)
  BY <1>2, <1>8
<1>10. /\ \/ b = own[r]
          \/ \E k \in DOMAIN props :
               b.val = props[k].val /\ b.age = props[k].age /\ b.strat = props[k].strat
       /\ props # proposals[r] => \A k \in DOMAIN props : b.age >= props[k].age
  BY <1>8, <1>9, AcceptedOne, AcceptedNewest
<1>11. \A k \in DOMAIN props : props[k].age < L \/ props[k].val = u
  BY <1>1, <1>4 DEF Brought, RoundVariable
\* A robot that keeps its believe is not behind: it has a proposal of the round.
<1>12. b.val = u
  <2>1. CASE b = own[r]
    <3>1. ~Behind(L, r)
      <4>1. CASE props = proposals[r]
        BY <1>5, <1>7, <4>1 DEF Behind
      <4>2. CASE props # proposals[r]
        <5>1. own[r].age >= props[s].age
          BY <1>10, <2>1, <4>2
        <5>2. own[r].age >= L
          BY <1>1, <1>5, <1>7, <5>1
        <5>3. QED BY <1>1, <5>2 DEF Behind
      <4>3. QED BY <4>1, <4>2
    <3>2. QED BY <2>1, <3>1 DEF RoundVariable
  <2>2. CASE b # own[r]
    <3>1. PICK k \in DOMAIN props : b.val = props[k].val /\ b.age = props[k].age
      BY <1>10, <2>2
    <3>2. props # proposals[r]
      BY <1>9, <2>2
    <3>3. props[k].age >= props[s].age
      BY <1>10, <3>1, <3>2
    <3>4. props[k].age >= L
      BY <1>5, <1>7, <3>3
    <3>5. QED BY <1>5, <1>11, <3>1, <3>4
  <2>3. QED BY <2>1, <2>2
<1>13. b.strat = ThreeWayHandShake
  BY <1>8, <1>10
<1>14. b.age = own[r].age \/ \E k \in DOMAIN props : b.age = props[k].age
  BY <1>10
<1>15. b.age <= L \/ \E k \in DOMAIN props : props[k].age >= b.age
  <2>1. ASSUME NEW k \in DOMAIN props, b.age = props[k].age
        PROVE  props[k].age >= b.age
    BY <1>5, <2>1
  <2>2. CASE b = own[r]
    <3>1. ASSUME NEW k \in DOMAIN proposals[r], proposals[r][k].age >= own[r].age
          PROVE  k \in DOMAIN props /\ props[k].age >= own[r].age
      <4>1. k \in DOMAIN props /\ Renewed(proposals[r][k], props[k])
        BY <1>4
      <4>2. proposals[r][k].age \in Nat
        BY <1>1, ListedProposal DEF Believe
      <4>3. QED BY <1>1, <1>5, <3>1, <4>1, <4>2 DEF Renewed
    <3>2. QED BY <2>2, <3>1 DEF RoundVariable
  <2>3. QED BY <1>10, <2>1, <2>2
<1>16. \A k \in DOMAIN props :
         \/ k \in DOMAIN proposals[r] /\ props[k] = proposals[r][k]
         \/ props[k].val = u /\ props[k].age = m.stamp
  BY <1>1, <1>4 DEF Brought
<1>17. Heeds(L, r, m.from)'
  BY <1>3, <1>6, <1>7 DEF Heeds
<1>18. QED BY <1>3, <1>12, <1>13, <1>14, <1>15, <1>16, <1>17 DEF Stored

\* The two updates, of a command and of an acknowledge of the round.
LEMMA RoundUpdates ==
  ASSUME SafetyInv, NEW L \in Nat, NEW u \in Values, NEW r \in Agents, RoundVariable(L, u, r),
         NEW m \in Message, RoundPacket(L, u, m),
         \/ m.kind = "Command" /\ UpdateByCommand(r, m)
         \/ m.kind = "Acknowledge" /\ UpdateByAck(r, m)
  PROVE  Stored(L, u, r, m)
<1>1. TypeInv /\ UsedVariable(r)
  BY TrueMeansUsed DEF SafetyInv
<1>2. /\ own[r].strat = ThreeWayHandShake /\ existsVariable(r)
      /\ \A k \in DOMAIN proposals[r] : proposals[r][k].strat = ThreeWayHandShake
  BY DEF RoundVariable, existsVariable
<1>3. CASE m.kind = "Command" /\ UpdateByCommand(r, m)
  <2>1. m.level = ThreeWayHandShake /\ m.level \in UsedStrategies
    BY <1>3, StrategiesUsed DEF RoundPacket
  <2>2. PICK props : props = ProposalsAfterCommand(r, m)
    OBVIOUS
  <2>3. /\ props \in Seq(Valued) /\ BroughtProposals(r, m, props)
        /\ \A k \in DOMAIN props : props[k].strat = ThreeWayHandShake
    BY <1>1, <1>2, <1>3, <2>1, <2>2, NewProposals, ProposalsBrought, ThreeWayProposals
  <2>4. DoVariableUpdate(r, CreatedByCommand(r, m), props)
    BY <1>3, <2>2 DEF UpdateByCommand
  <2>5. QED BY <1>3, <2>3, <2>4, UpdateStores
<1>4. CASE m.kind = "Acknowledge" /\ UpdateByAck(r, m)
  <2>1. PICK props : props = ProposalsAfterAck(r, m)
    OBVIOUS
  <2>2. /\ props \in Seq(Valued) /\ BroughtProposals(r, m, props)
        /\ \A k \in DOMAIN props : props[k].strat = ThreeWayHandShake
    BY <1>1, <1>2, <1>4, <2>1, NewProposals, ProposalsBrought, ThreeWayProposals
  <2>3. DoVariableUpdate(r, CreatedByAck(r, m), props)
    BY <1>4, <2>1 DEF UpdateByAck
  <2>4. QED BY <1>4, <2>2, <2>3, UpdateStores
<1>5. QED BY <1>3, <1>4

-----------------------------------------------------------------------------
(***************************************************************************)
(* A step of robot r in a round.                                           *)
(***************************************************************************)
\* What waited for robot q is in its store, and all other robots will hear of it.
Settled(L, u, q, n) ==
  /\ own[q].val = u
  /\ Heeds(L, q, n.from)
  /\ n.kind = "Command" =>
       \A x \in Others(q) : \E a \in Waiting(x) :
         a.kind = "Acknowledge" /\ a.from = q /\ a.stamp >= n.stamp
  /\ n.kind = "Acknowledge" => Passed(n.stamp)

\* Packets are taken only by a clock that sees them, and what waited is settled when it
\* waits no longer.
RoundStep(L, u) ==
  /\ UNCHANGED activeRobots
  /\ \A q \in Agents : \A n \in net[q] : n \in net'[q] \/ n.stamp <= clock'[q]
  /\ \A q \in Agents : \A n \in net'[q] : n \in net[q] \/ RoundPacket(L, u, n)
  /\ \A q \in Agents : \A n \in Waiting(q) : n \in Waiting(q)' \/ Settled(L, u, q, n)'
  /\ \A q \in Agents : \A i \in DOMAIN jobs'[q] :
       (\E l \in DOMAIN jobs[q] : jobs'[q][i] = jobs[q][l]) \/ RoundJob(L, u, q, jobs[q][i])'
  /\ \A q \in Agents :
       \/ own'[q] = own[q] /\ proposals'[q] = proposals[q]
       \/ \E n \in Waiting(q) : Stored(L, u, q, n) /\ Settled(L, u, q, n)'

LEMMA WillStillPass ==
  ASSUME SafetyInv, SafetyInv', Grows, NEW L, NEW u, RoundStep(L, u),
         NEW x \in Agents, NEW a \in Nat, WillPass(x, a)
  PROVE  WillPass(x, a)'
<1>1. /\ clock[x] \in Nat /\ clock'[x] \in Nat /\ clock[x] <= clock'[x]
      /\ \A n \in net[x] : n.stamp \in Nat
      /\ \A n \in net'[x] : n.stamp \in Nat
  BY MessageFields DEF SafetyInv, TypeInv, TypeOK, Grows
<1>2. CASE clock[x] > a
  BY <1>1, <1>2 DEF WillPass
<1>3. CASE \E p \in net[x] : p.stamp > a
  <2>1. PICK p \in net[x] : p.stamp > a
    BY <1>3
  <2>2. p \in net'[x] \/ clock'[x] > a
    BY <1>1, <2>1 DEF RoundStep
  <2>3. QED BY <2>1, <2>2 DEF WillPass
<1>4. CASE \E y \in Agents : \E n \in Waiting(y) : n.kind = "Acknowledge" /\ n.stamp >= a
  <2>a. PICK y \in Agents : \E n \in Waiting(y) : n.kind = "Acknowledge" /\ n.stamp >= a
    BY <1>4
  <2>1. PICK n \in Waiting(y) : n.kind = "Acknowledge" /\ n.stamp >= a
    BY <2>a
  <2>2. n.stamp \in Nat
    BY WaitingFields
  <2>3. CASE n \in Waiting(y)'
    BY <2>1, <2>3 DEF WillPass
  <2>4. CASE Settled(L, u, y, n)'
    <3>1. clock'[x] > n.stamp \/ \E p \in net'[x] : p.stamp > n.stamp
      BY <2>1, <2>4 DEF Settled, Passed
    <3>2. clock'[x] > a \/ \E p \in net'[x] : p.stamp > a
      BY <1>1, <2>1, <2>2, <3>1
    <3>3. QED BY <3>2 DEF WillPass
  <2>5. QED BY <2>3, <2>4 DEF RoundStep
<1>5. QED BY <1>2, <1>3, <1>4 DEF WillPass

\* What has reached a store will be heard of by all clocks.
LEMMA SettledPasses ==
  ASSUME SafetyInv, SafetyInv', NEW L, NEW u, NEW q \in Agents, NEW n \in Waiting(q),
         Settled(L, u, q, n)', NEW x \in Agents
  PROVE  WillPass(x, n.stamp)'
<1>1. n.kind \in {"Command", "Acknowledge"} /\ n.from \in Others(q) /\ n.from \in Agents
  BY WaitingFields DEF Others
<1>2. CASE n.kind = "Command"
  BY <1>1, <1>2 DEF Settled, WillPass
<1>3. CASE n.kind = "Acknowledge"
  BY <1>3 DEF Settled, Passed, WillPass
<1>4. QED BY <1>1, <1>2, <1>3

LEMMA AgesStillHeard ==
  ASSUME SafetyInv, SafetyInv', Grows, AgesHeard, NEW L, NEW u, RoundStep(L, u)
  PROVE  AgesHeard'
<1>1. ASSUME NEW x \in Agents, NEW r \in Agents, NEW k \in DOMAIN proposals'[r],
             NEW a, a = proposals'[r][k].age
      PROVE  WillPass(x, a)'
  <2>1. CASE k \in DOMAIN proposals[r] /\ a = proposals[r][k].age
    <3>1. a \in Nat /\ WillPass(x, a)
      BY <2>1, ListedProposal DEF SafetyInv, Believe, AgesHeard
    <3>2. QED BY <3>1, WillStillPass
  <2>2. ASSUME NEW n \in Waiting(r), Settled(L, u, r, n)', a = n.stamp
        PROVE  WillPass(x, a)'
    <3>1. WillPass(x, n.stamp)'
      BY <2>2, SettledPasses
    <3>2. QED BY <2>2, <3>1 DEF WillPass
  <2>3. CASE proposals'[r] = proposals[r]
    BY <1>1, <2>1, <2>3
  <2>4. ASSUME NEW n \in Waiting(r), Stored(L, u, r, n), Settled(L, u, r, n)'
        PROVE  WillPass(x, a)'
    <3>1. \/ k \in DOMAIN proposals[r] /\ proposals'[r][k] = proposals[r][k]
          \/ proposals'[r][k].age = n.stamp
      BY <2>4 DEF Stored
    <3>2. QED BY <1>1, <2>1, <2>2, <2>4, <3>1
  <2>5. QED BY <2>3, <2>4 DEF RoundStep
<1>2. ASSUME NEW x \in Agents, NEW r \in Agents, NEW a, a = own'[r].age
      PROVE  WillPass(x, a)'
  <2>1. CASE a = own[r].age
    <3>1. a \in Nat /\ WillPass(x, a)
      BY <2>1 DEF SafetyInv, TypeInv, TypeOK, Believe, AgesHeard
    <3>2. QED BY <3>1, WillStillPass
  <2>2. CASE \E k \in DOMAIN proposals'[r] : a = proposals'[r][k].age
    BY <1>1, <2>2
  <2>3. QED BY <1>2, <2>1, <2>2 DEF RoundStep, Stored
<1>3. QED BY <1>1, <1>2 DEF AgesHeard, WillPass

LEMMA HeedsStays ==
  ASSUME TypeInv, TypeInv', Grows, NEW L \in Nat, NEW r \in Agents, NEW q, Heeds(L, r, q)
  PROVE  Heeds(L, r, q)'
BY AnswersStay DEF Heeds, Grows

\* What a robot will hear, it still will, or it has heard it.
LEMMA StillHear ==
  ASSUME SafetyInv, SafetyInv', Grows, NEW L \in Nat, NEW u, RoundStep(L, u), AllHear(L)
  PROVE  AllHear(L)'
<1> SUFFICES ASSUME NEW r \in Agents, NEW q \in Others(r)
             PROVE  HearsOf(L, r, q)'
  BY DEF AllHear
<1>1. q \in Agents /\ r \in Others(q)
  BY DEF Others
<1>2. CASE Heeds(L, r, q)
  BY <1>2, HeedsStays DEF HearsOf, SafetyInv
<1>3. CASE \E n \in Waiting(r) : n.from = q
  BY <1>3 DEF RoundStep, Settled, HearsOf
<1>4. CASE Pending(q)
  <2>1. PICK n \in Waiting(q) : n.kind = "Command"
    BY <1>4 DEF Pending
  <2>2. CASE n \in Waiting(q)'
    BY <2>1, <2>2 DEF HearsOf, Pending
  <2>3. CASE Settled(L, u, q, n)'
    <3>1. \E a \in Waiting(r)' : a.from = q
      BY <1>1, <2>1, <2>3 DEF Settled
    <3>2. QED BY <3>1 DEF HearsOf
  <2>4. QED BY <1>1, <2>1, <2>2, <2>3 DEF RoundStep
<1>5. QED BY <1>2, <1>3, <1>4 DEF AllHear, HearsOf

\* A robot that has the value of the round keeps it.
LEMMA ValueStays ==
  ASSUME NEW L, NEW u, RoundStep(L, u), NEW r \in Agents, own[r].val = u
  PROVE  own'[r].val = u
BY DEF RoundStep, Stored

LEMMA VariableStaysInRound ==
  ASSUME SafetyInv, SafetyInv', Grows, NEW L \in Nat, NEW u \in Values, RoundStep(L, u),
         NEW r \in Agents, RoundVariable(L, u, r)
  PROVE  RoundVariable(L, u, r)'
<1>1. CASE own'[r] = own[r] /\ proposals'[r] = proposals[r]
  <2>1. ASSUME Behind(L, r), own'[r].val # u
        PROVE  Behind(L, r)'
    <3>1. PICK n \in Waiting(r) : n.kind = "Command"
      BY <2>1 DEF Behind, Pending
    <3>2. n \in Waiting(r)'
      BY <2>1, <3>1 DEF RoundStep, Settled
    <3>3. QED BY <1>1, <2>1, <3>1, <3>2 DEF Behind, Pending
  <2>2. QED BY <1>1, <2>1 DEF RoundVariable
<1>2. ASSUME NEW n \in Waiting(r), Stored(L, u, r, n)
      PROVE  RoundVariable(L, u, r)'
  <2>1. own'[r].val = u /\ u # NoValue
    BY <1>2 DEF Stored
  <2>2. \A k \in DOMAIN proposals'[r] :
          /\ proposals'[r][k].strat = ThreeWayHandShake
          /\ proposals'[r][k].val = u \/ proposals'[r][k].age < L
    BY <1>2 DEF Stored, RoundVariable
  <2>3. QED BY <1>2, <2>1, <2>2 DEF Stored, RoundVariable
<1>3. QED BY <1>1, <1>2 DEF RoundStep

\* A step of a round leads on in the round.
LEMMA RoundGoesOn ==
  ASSUME SafetyInv, SafetyInv', Grows, FullTeam, AgesHeard, NEW L \in Nat, NEW u \in Values,
         Round(L, u), RoundStep(L, u)
  PROVE  FullTeam' /\ AgesHeard' /\ Round(L, u)'
<1>1. FullTeam'
  BY DEF FullTeam, RoundStep
<1>2. AgesHeard'
  BY AgesStillHeard
<1>3. RoundPackets(L, u)'
  BY DEF RoundStep, Round, RoundPackets, RoundPacket
<1>4. RoundJobs(L, u)'
  <2>1. ASSUME NEW q \in Agents, NEW i \in DOMAIN jobs'[q],
               NEW l \in DOMAIN jobs[q], jobs'[q][i] = jobs[q][l]
        PROVE  RoundJob(L, u, q, jobs[q][i])'
    <3>1. RoundJob(L, u, q, jobs[q][l])
      BY DEF Round, RoundJobs
    <3>2. own[q].val = u => own'[q].val = u
      BY ValueStays
    <3>3. QED BY <2>1, <3>1, <3>2 DEF RoundJob, RoundPacket
  <2>2. QED BY <2>1 DEF RoundStep, RoundJobs
<1>5. RoundVariables(L, u)'
  BY VariableStaysInRound DEF Round, RoundVariables
<1>6. AllHear(L)'
  BY StillHear DEF Round
<1>7. QED BY <1>1, <1>2, <1>3, <1>4, <1>5, <1>6 DEF Round

-----------------------------------------------------------------------------
(***************************************************************************)
(* One lemma for each action.                                              *)
(***************************************************************************)
\* What a step of robot r must show.
LEMMA OneRobotSteps ==
  ASSUME SafetyInv, NEW L, NEW u, NEW r \in Agents, UNCHANGED activeRobots,
         \A q \in Agents \ {r} :
           own'[q] = own[q] /\ proposals'[q] = proposals[q] /\ jobs'[q] = jobs[q],
         NEW taken, PacketsStay(r, taken), \A n \in taken : n.stamp <= clock'[r],
         NEW sent, PacketsFrom(r, sent), \A n \in sent : RoundPacket(L, u, n),
         NEW gone, JobsStay(r, gone),
         \A i \in DOMAIN jobs'[r] :
           (\E l \in DOMAIN jobs[r] : jobs'[r][i] = jobs[r][l]) \/ RoundJob(L, u, r, jobs[r][i])',
         \A n \in Waiting(r) :
           (n \in taken /\ Addressed(r, n)) \/ (\E j \in gone : HeldBack(j, n))
             => n \in Waiting(r)' \/ Settled(L, u, r, n)',
         \/ own'[r] = own[r] /\ proposals'[r] = proposals[r]
         \/ \E n \in Waiting(r) : Stored(L, u, r, n) /\ Settled(L, u, r, n)'
  PROVE  RoundStep(L, u)
<1>1. \A q \in Agents : \A n \in net[q] : n \in net'[q] \/ n.stamp <= clock'[q]
  BY DEF PacketsStay
<1>2. \A q \in Agents : \A n \in net'[q] : n \in net[q] \/ RoundPacket(L, u, n)
  BY DEF PacketsFrom
<1>3. \A q \in Agents : \A n \in Waiting(q) : n \in Waiting(q)' \/ Settled(L, u, q, n)'
  <2> SUFFICES ASSUME NEW q \in Agents, NEW n \in Waiting(q), ~(n \in Waiting(q)')
               PROVE  Settled(L, u, q, n)'
    OBVIOUS
  <2>1. q = r /\ ((n \in taken /\ Addressed(r, n)) \/ (\E j \in gone : HeldBack(j, n)))
    BY WaitingStays
  <2>2. QED BY <2>1
<1>4. \A q \in Agents : \A i \in DOMAIN jobs'[q] :
        (\E l \in DOMAIN jobs[q] : jobs'[q][i] = jobs[q][l]) \/ RoundJob(L, u, q, jobs[q][i])'
  <2>1. ASSUME NEW q \in Agents, q # r, NEW i \in DOMAIN jobs'[q]
        PROVE  \E l \in DOMAIN jobs[q] : jobs'[q][i] = jobs[q][l]
    BY <2>1
  <2>2. QED BY <2>1
<1>5. \A q \in Agents :
        \/ own'[q] = own[q] /\ proposals'[q] = proposals[q]
        \/ \E n \in Waiting(q) : Stored(L, u, q, n) /\ Settled(L, u, q, n)'
  <2>1. ASSUME NEW q \in Agents, q # r PROVE own'[q] = own[q] /\ proposals'[q] = proposals[q]
    BY <2>1
  <2>2. QED BY <2>1
<1>6. QED BY <1>1, <1>2, <1>3, <1>4, <1>5 DEF RoundStep

LEMMA OverhearInRound ==
  ASSUME SafetyInv, NEW L, NEW u, NEW r \in Agents, NEW m \in net[r], Overhear(r, m)
  PROVE  RoundStep(L, u)
<1>1. /\ Receive(r, m, {}) /\ KeepVariable /\ UNCHANGED <<activeRobots, jobs>>
      /\ clock' = [clock EXCEPT ![r] = Seen(clock[r], m.stamp)] /\ ~Addressed(r, m)
  BY DEF Overhear
<1>2. m \in Message /\ m.stamp \in Nat
  BY PacketRead, MessageFields
<1>3. m.stamp <= clock'[r]
  BY <1>1, <1>2, ClockSees DEF SafetyInv
<1> DEFINE taken == {m}
           none == {}
<1>4. PacketsStay(r, taken) /\ PacketsFrom(r, none) /\ \A n \in taken : n.stamp <= clock'[r]
  BY <1>1, <1>3, ReceiveStays DEF SafetyInv
<1>5. JobsStay(r, none) /\ own' = own /\ proposals' = proposals /\ jobs' = jobs
  BY <1>1 DEF JobsStay, KeepVariable
<1>6. /\ \A n \in Waiting(r) : ~((n \in taken /\ Addressed(r, n)) \/ (\E j \in none : HeldBack(j, n)))
      /\ \A n \in none : RoundPacket(L, u, n)
  BY <1>1
<1>7. /\ \A q \in Agents \ {r} :
           own'[q] = own[q] /\ proposals'[q] = proposals[q] /\ jobs'[q] = jobs[q]
      /\ own'[r] = own[r] /\ proposals'[r] = proposals[r] /\ UNCHANGED activeRobots
      /\ \A i \in DOMAIN jobs'[r] : \E l \in DOMAIN jobs[r] : jobs'[r][i] = jobs[r][l]
  BY <1>1, <1>5
<1> HIDE DEF taken, none
<1>8. QED BY <1>4, <1>5, <1>6, <1>7, OneRobotSteps

LEMMA HandleCaceShortAckInRound ==
  ASSUME SafetyInv, NEW L, NEW u, NEW r \in Agents, NEW m \in net[r], handleCaceShortAck(r, m)
  PROVE  RoundStep(L, u)
<1>1. /\ Receive(r, m, {}) /\ KeepVariable /\ UNCHANGED <<activeRobots, jobs>>
      /\ clock' = [clock EXCEPT ![r] = Seen(clock[r], m.stamp)] /\ m.kind = "ShortAck"
  BY DEF handleCaceShortAck
<1>2. m \in Message /\ m.stamp \in Nat
  BY PacketRead, MessageFields
<1>3. m.stamp <= clock'[r]
  BY <1>1, <1>2, ClockSees DEF SafetyInv
<1>4. PacketsStay(r, {m}) /\ PacketsFrom(r, {})
  BY <1>1, ReceiveStays DEF SafetyInv
<1>5. JobsStay(r, {}) /\ own' = own /\ proposals' = proposals
  BY <1>1 DEF JobsStay, KeepVariable
<1>6. m \notin Waiting(r)
  BY <1>1, WaitingFields
<1>7. /\ \A n \in {m} : n.stamp <= clock'[r]
      /\ \A n \in Waiting(r) : ~((n \in {m} /\ Addressed(r, n)) \/ (\E j \in {} : HeldBack(j, n)))
      /\ \A i \in DOMAIN jobs'[r] : \E l \in DOMAIN jobs[r] : jobs'[r][i] = jobs[r][l]
  BY <1>1, <1>3, <1>6
<1>8. QED BY <1>1, <1>4, <1>5, <1>7, OneRobotSteps

\* A command in the store is settled when its acknowledge has gone out to all.
LEMMA CommandSettles ==
  ASSUME NEW L \in Nat, NEW u, NEW r \in Agents, NEW m \in Message, m.kind = "Command",
         RoundPacket(L, u, m), Stored(L, u, r, m), NEW c \in Nat, c >= m.stamp,
         NEW a, a = CaceAcknowledge(r, Broadcast, m.msgID, own'[r].val, c), Reaches(r, {a})
  PROVE  Settled(L, u, r, m)' /\ RoundPacket(L, u, a)
<1>1. /\ a.kind = "Acknowledge" /\ a.from = r /\ a.to = Broadcast /\ a.val = u /\ a.stamp = c
  BY DEF CaceAcknowledge, Stored
<1>2. c >= L /\ m.stamp \in Nat
  <2>1. m.stamp \in Nat /\ m.stamp >= L
    BY MessageFields DEF RoundPacket
  <2>2. QED BY <2>1
<1>3. \A x \in Others(r) : a \in Waiting(x)'
  <2>1. ASSUME NEW x \in Others(r) PROVE a \in Waiting(x)'
    <3>1. x \in Agents /\ a \in net'[x] /\ Addressed(x, a)
      BY <1>1, <2>1 DEF Others, Reaches, Addressed
    <3>2. QED BY <1>1, <3>1, NowWaiting
  <2>2. QED BY <2>1
<1>4. Settled(L, u, r, m)'
  BY <1>1, <1>3 DEF Settled, Stored
<1>5. QED BY <1>1, <1>2, <1>4 DEF RoundPacket

\* An acknowledge in the store is settled when the clock has ticked and the short ack
\* has gone out to all.
LEMMA AckSettles ==
  ASSUME SafetyInv', NEW L \in Nat, NEW u, NEW r \in Agents, NEW m \in Message, m.kind = "Acknowledge",
         Stored(L, u, r, m), NEW c \in Nat, c >= m.stamp, clock'[r] = c + 1,
         NEW a, a = CaceShortAck(r, m.from, m.msgID, c + 1), Reaches(r, {a})
  PROVE  Settled(L, u, r, m)' /\ RoundPacket(L, u, a)
<1>1. a.kind = "ShortAck" /\ a.stamp = c + 1
  BY DEF CaceShortAck
<1>2. m.stamp \in Nat
  BY MessageFields
<1>3. Passed(m.stamp)'
  <2>1. ASSUME NEW x \in Agents PROVE clock'[x] > m.stamp \/ \E p \in net'[x] : p.stamp > m.stamp
    <3>1. CASE x = r
      BY <1>2, <3>1
    <3>2. CASE x # r
      <4>1. a \in net'[x]
        BY <3>2 DEF Reaches, Others
      <4>2. QED BY <1>1, <1>2, <4>1
    <3>3. QED BY <3>1, <3>2
  <2>2. QED BY <2>1 DEF Passed
<1>4. Settled(L, u, r, m)'
  BY <1>3 DEF Settled, Stored
<1>5. QED BY <1>1, <1>4 DEF RoundPacket

LEMMA HandleCaceCommandInRound ==
  ASSUME SafetyInv, NEW L \in Nat, NEW u \in Values, Round(L, u), NEW r \in Agents, NEW m \in net[r],
         handleCaceCommand(r, m)
  PROVE  RoundStep(L, u)
<1>1. m \in Message /\ m.stamp \in Nat /\ RoundPacket(L, u, m) /\ TypeInv
  BY PacketRead, MessageFields DEF Round, RoundPackets, SafetyInv
<1>a. PICK c : c = Seen(clock[r], m.stamp)
  OBVIOUS
<1>2. /\ m.kind = "Command" /\ Addressed(r, m) /\ clock' = [clock EXCEPT ![r] = c]
      /\ UNCHANGED activeRobots
  BY <1>a DEF handleCaceCommand
<1>3. c \in Nat /\ c >= m.stamp /\ clock'[r] = c /\ m.stamp <= clock'[r]
  <2>1. clock[r] \in Nat /\ clock'[r] = c
    BY <1>2 DEF SafetyInv, TypeInv, TypeOK
  <2>2. c \in Nat /\ c >= m.stamp
    BY <1>1, <1>a, <2>1, SeenBounds
  <2>3. QED BY <1>1, <2>1, <2>2
<1>4. m \in Waiting(r) /\ m.level = ThreeWayHandShake /\ m.level > FireAndForget
  BY <1>1, <1>2 DEF Waiting, RoundPacket, ThreeWayHandShake, FireAndForget
<1>5. ASSUME NEW rs \in Retrys(AckRetrys), NEW started \in BOOLEAN, NEW j,
             j = CommandAcknowledgeJob(m, activeRobots[r], c, rs, started), appendJob(r, j),
             started => own'[r].val = u
      PROVE  /\ JobsStay(r, {}) /\ \A q \in Agents \ {r} : jobs'[q] = jobs[q]
             /\ \A i \in DOMAIN jobs'[r] :
                  \/ \E l \in DOMAIN jobs[r] : jobs'[r][i] = jobs[r][l]
                  \/ RoundJob(L, u, r, jobs[r][i])'
             /\ ~started => m \in Waiting(r)'
  <2>1. activeRobots[r] \in SUBSET Agents /\ jobs \in [Agents -> Seq(Job)]
    BY DEF SafetyInv, TypeInv, TypeOK
  <2>2. j \in Job
    BY <1>1, <1>2, <1>3, <1>5, <2>1, NewJobs
  <2>3. /\ j.kind = "CommandAcknowledgeJob" /\ j.cmd = m /\ j.stamp = c /\ j.started = started
    BY <1>5 DEF CommandAcknowledgeJob
  <2>4. JobsStay(r, {}) /\ \E l \in DOMAIN jobs'[r] : jobs'[r][l] = j
    BY <1>1, <1>5, <2>2, AppendStays
  <2>5. JobsBecome(r, j)
    BY <1>5, <2>1, <2>2, AppendedJob
  <2>6. c >= L
    BY <1>1, <1>2, <1>3 DEF RoundPacket
  <2>7. ASSUME NEW i \in DOMAIN jobs'[r], jobs'[r][i] = j
        PROVE  RoundJob(L, u, r, jobs[r][i])'
    BY <1>1, <1>5, <2>3, <2>6, <2>7 DEF RoundJob, RoundPacket
  <2>8. ~started => m \in Waiting(r)'
    <3>1. ~started => HeldBack(j, m)
      BY <2>3 DEF HeldBack
    <3>2. QED BY <2>4, <3>1, NowWaiting
  <2>9. QED BY <2>4, <2>5, <2>7, <2>8 DEF JobsBecome
<1>6. CASE r \in SafeStepRobots
  <2>1. /\ Receive(r, m, {}) /\ KeepVariable
        /\ appendJob(r, CommandAcknowledgeJob(m, activeRobots[r], c, NoRetrys, FALSE))
    BY <1>6, <1>a DEF handleCaceCommand
  <2>2. NoRetrys \in Retrys(AckRetrys)
    BY NewRetrys
  <2>3. PacketsStay(r, {m}) /\ PacketsFrom(r, {}) /\ own' = own /\ proposals' = proposals
    BY <1>1, <2>1, ReceiveStays DEF KeepVariable
  <2>4. /\ JobsStay(r, {}) /\ \A q \in Agents \ {r} : jobs'[q] = jobs[q]
        /\ \A i \in DOMAIN jobs'[r] :
             \/ \E l \in DOMAIN jobs[r] : jobs'[r][i] = jobs[r][l]
             \/ RoundJob(L, u, r, jobs[r][i])'
        /\ m \in Waiting(r)'
    BY <1>5, <2>1, <2>2
  <2>5. /\ \A n \in {m} : n.stamp <= clock'[r]
        /\ \A n \in Waiting(r) :
             (n \in {m} /\ Addressed(r, n)) \/ (\E j \in {} : HeldBack(j, n))
               => n \in Waiting(r)'
    BY <1>3, <2>4
  <2>6. QED BY <1>2, <2>3, <2>4, <2>5, OneRobotSteps
<1>7. CASE r \notin SafeStepRobots
  <2>a. PICK a : a = CaceAcknowledge(r, Broadcast, m.msgID, own'[r].val, c)
    OBVIOUS
  <2>1. /\ UpdateByCommand(r, m) /\ Receive(r, m, {a})
        /\ appendJob(r, CommandAcknowledgeJob(m, activeRobots[r], c,
                          FullRetrys(activeRobots[r], AckRetrys), TRUE))
    BY <1>4, <1>7, <1>a, <2>a DEF handleCaceCommand
  <2>2. Stored(L, u, r, m)
    BY <1>1, <1>2, <2>1, RoundUpdates DEF Round, RoundVariables
  <2>3. VariableUpdated(r)
    BY <1>1, <1>2, <2>1, UpdatedByCommand
  <2>4. PacketsStay(r, {m}) /\ Reaches(r, {a})
    BY <1>1, <2>1, ReceiveStays
  <2>5. Settled(L, u, r, m)' /\ RoundPacket(L, u, a)
    BY <1>1, <1>2, <1>3, <2>2, <2>4, <2>a, CommandSettles
  <2>7. PacketsFrom(r, {a})
    BY <1>1, <2>1, ReceiveStays
  <2>8. activeRobots[r] \in SUBSET Agents
    BY <1>1 DEF TypeInv, TypeOK
  <2>9. FullRetrys(activeRobots[r], AckRetrys) \in Retrys(AckRetrys)
    BY <2>8, NewRetrys
  <2>10. /\ JobsStay(r, {}) /\ \A q \in Agents \ {r} : jobs'[q] = jobs[q]
         /\ \A i \in DOMAIN jobs'[r] :
              \/ \E l \in DOMAIN jobs[r] : jobs'[r][i] = jobs[r][l]
              \/ RoundJob(L, u, r, jobs[r][i])'
    BY <1>5, <2>1, <2>2, <2>9 DEF Stored
  <2>11. /\ \A n \in {m} : n.stamp <= clock'[r]
         /\ \A n \in {a} : RoundPacket(L, u, n)
         /\ \A n \in Waiting(r) :
              (n \in {m} /\ Addressed(r, n)) \/ (\E j \in {} : HeldBack(j, n))
                => Settled(L, u, r, n)'
    <3>1. \A n : n \in {m} \/ (\E j \in {} : HeldBack(j, n)) => n = m
      OBVIOUS
    <3>2. QED BY <1>3, <2>5, <3>1
  <2>12. \E n \in Waiting(r) : Stored(L, u, r, n) /\ Settled(L, u, r, n)'
    BY <1>4, <2>2, <2>5
  <2>13. \A q \in Agents \ {r} :
           own'[q] = own[q] /\ proposals'[q] = proposals[q] /\ jobs'[q] = jobs[q]
    BY <2>3, <2>10 DEF VariableUpdated
  <2>14. QED BY <1>2, <2>4, <2>7, <2>10, <2>11, <2>12, <2>13, OneRobotSteps
<1>8. QED BY <1>6, <1>7

LEMMA HandleCaceAcknowledgeInRound ==
  ASSUME SafetyInv, SafetyInv', NEW L \in Nat, NEW u \in Values, Round(L, u), NEW r \in Agents,
         NEW m \in net[r], handleCaceAcknowledge(r, m)
  PROVE  RoundStep(L, u)
<1>1. m \in Message /\ m.stamp \in Nat /\ RoundPacket(L, u, m) /\ TypeInv
  BY PacketRead, MessageFields DEF Round, RoundPackets, SafetyInv
<1>a. PICK c : c = Seen(clock[r], m.stamp)
  OBVIOUS
<1>2. m.kind = "Acknowledge" /\ Addressed(r, m) /\ UNCHANGED activeRobots
  BY DEF handleCaceAcknowledge
<1>3. c \in Nat /\ c >= m.stamp /\ clock \in [Agents -> Nat]
  <2>1. clock[r] \in Nat /\ clock \in [Agents -> Nat]
    BY <1>1 DEF TypeInv, TypeOK
  <2>2. QED BY <1>1, <1>a, <2>1, SeenBounds
<1>4. m \in Waiting(r)
  BY <1>2 DEF Waiting
<1>5. CASE r \in SafeStepRobots
  <2>1. /\ Receive(r, m, {}) /\ KeepVariable /\ clock' = [clock EXCEPT ![r] = c]
        /\ appendJob(r, ShortAckJob(m))
    BY <1>5, <1>a DEF handleCaceAcknowledge
  <2>2. PICK j : j = ShortAckJob(m)
    OBVIOUS
  <2>3. j \in Job /\ j.kind = "ShortAckJob" /\ j.ack = m /\ appendJob(r, j)
    BY <1>1, <1>2, <2>1, <2>2, NewJobs DEF ShortAckJob
  <2>4. JobsStay(r, {}) /\ \E l \in DOMAIN jobs'[r] : jobs'[r][l] = j
    BY <1>1, <2>3, AppendStays
  <2>5. JobsBecome(r, j)
    BY <1>1, <2>3, AppendedJob DEF TypeInv, TypeOK
  <2>6. m \in Waiting(r)'
    BY <2>3, <2>4, NowWaiting DEF HeldBack
  <2>7. ASSUME NEW i \in DOMAIN jobs'[r], jobs'[r][i] = j
        PROVE  RoundJob(L, u, r, jobs[r][i])'
    BY <1>1, <2>3, <2>7 DEF RoundJob, RoundPacket
  <2>8. PacketsStay(r, {m}) /\ PacketsFrom(r, {}) /\ own' = own /\ proposals' = proposals
    BY <1>1, <2>1, ReceiveStays DEF KeepVariable
  <2>9. clock'[r] = c
    BY <1>3, <2>1
  <2>10. /\ \A n \in {m} : n.stamp <= clock'[r]
         /\ \A n \in Waiting(r) :
              (n \in {m} /\ Addressed(r, n)) \/ (\E k \in {} : HeldBack(k, n))
                => n \in Waiting(r)'
    BY <1>1, <1>3, <2>6, <2>9
  <2>11. /\ \A q \in Agents \ {r} : jobs'[q] = jobs[q]
         /\ \A i \in DOMAIN jobs'[r] :
              \/ \E l \in DOMAIN jobs[r] : jobs'[r][i] = jobs[r][l]
              \/ RoundJob(L, u, r, jobs[r][i])'
    BY <2>5, <2>7 DEF JobsBecome
  <2>12. QED BY <1>2, <2>4, <2>8, <2>10, <2>11, OneRobotSteps
<1>6. CASE r \notin SafeStepRobots
  <2>1. UpdateByAck(r, m) /\ UNCHANGED jobs
    BY <1>6 DEF handleCaceAcknowledge
  <2>2. Stored(L, u, r, m)
    BY <1>1, <1>2, <2>1, RoundUpdates DEF Round, RoundVariables
  <2>3. VariableUpdated(r)
    BY <1>1, <1>2, <2>1, UpdatedByAck
  <2>4. own'[r].strat > TwoWayHandShake
    BY <2>2 DEF Stored, TwoWayHandShake, ThreeWayHandShake
  <2>a. PICK a : a = CaceShortAck(r, m.from, m.msgID, c + 1)
    OBVIOUS
  <2>5. clock' = [clock EXCEPT ![r] = c + 1] /\ Receive(r, m, {a})
    BY <1>6, <1>a, <2>4, <2>a DEF handleCaceAcknowledge
  <2>6. PacketsStay(r, {m}) /\ Reaches(r, {a}) /\ PacketsFrom(r, {a})
    BY <1>1, <2>5, ReceiveStays
  <2>7. clock'[r] = c + 1
    BY <1>3, <2>5
  <2>8. Settled(L, u, r, m)' /\ RoundPacket(L, u, a)
    BY <1>1, <1>2, <1>3, <2>2, <2>6, <2>7, <2>a, AckSettles
  <2>9. m.stamp <= clock'[r]
    BY <1>1, <1>3, <2>7
  <2>10. /\ \A n \in {m} : n.stamp <= clock'[r]
         /\ \A n \in {a} : RoundPacket(L, u, n)
         /\ \A n \in Waiting(r) :
              (n \in {m} /\ Addressed(r, n)) \/ (\E j \in {} : HeldBack(j, n))
                => Settled(L, u, r, n)'
    <3>1. \A n : n \in {m} \/ (\E j \in {} : HeldBack(j, n)) => n = m
      OBVIOUS
    <3>2. QED BY <2>8, <2>9, <3>1
  <2>11. \E n \in Waiting(r) : Stored(L, u, r, n) /\ Settled(L, u, r, n)'
    BY <1>4, <2>2, <2>8
  <2>12. /\ JobsStay(r, {}) /\ \A i \in DOMAIN jobs'[r] : \E l \in DOMAIN jobs[r] : jobs'[r][i] = jobs[r][l]
         /\ \A q \in Agents \ {r} :
              own'[q] = own[q] /\ proposals'[q] = proposals[q] /\ jobs'[q] = jobs[q]
    BY <2>1, <2>3 DEF VariableUpdated, JobsStay
  <2>13. QED BY <1>2, <2>6, <2>10, <2>11, <2>12, OneRobotSteps
<1>7. QED BY <1>5, <1>6

\* The i-th job of robot r is gone or another one of the round; no other job changes.
JobProcessed(L, u, r, i) ==
  /\ JobsStay(r, {jobs[r][i]})
  /\ \A q \in Agents \ {r} : jobs'[q] = jobs[q]
  /\ \A k \in DOMAIN jobs'[r] :
       (\E l \in DOMAIN jobs[r] : jobs'[r][k] = jobs[r][l]) \/ RoundJob(L, u, r, jobs[r][k])'

LEMMA ErasedInRound ==
  ASSUME TypeInv, NEW L, NEW u, NEW r \in Agents, NEW i \in DOMAIN jobs[r], eraseJob(r, i)
  PROVE  JobProcessed(L, u, r, i)
<1>1. jobs \in [Agents -> Seq(Job)]
  BY DEF TypeInv, TypeOK
<1>2. JobsStay(r, {jobs[r][i]})
  BY EraseStays
<1>3. QED BY <1>1, <1>2, ErasedJob DEF JobProcessed

LEMMA ReplacedInRound ==
  ASSUME TypeInv, NEW L, NEW u, NEW r \in Agents, NEW i \in DOMAIN jobs[r],
         NEW j \in Job, replaceJob(r, i, j),
         \A k \in DOMAIN jobs'[r] : jobs'[r][k] = j => RoundJob(L, u, r, jobs[r][k])'
  PROVE  JobProcessed(L, u, r, i)
<1>1. jobs \in [Agents -> Seq(Job)]
  BY DEF TypeInv, TypeOK
<1>2. JobsBecome(r, j)
  BY <1>1, ReplacedJob
<1>3. JobsStay(r, {jobs[r][i]})
  BY ReplaceStays
<1>4. QED BY <1>2, <1>3 DEF JobsBecome, JobProcessed

\* What process() of a job must show.
LEMMA OneJobSteps ==
  ASSUME SafetyInv, NEW L, NEW u, NEW r \in Agents, NEW i \in DOMAIN jobs[r],
         UNCHANGED activeRobots, JobProcessed(L, u, r, i),
         NEW sent, PacketsStay(r, {}), PacketsFrom(r, sent), \A n \in sent : RoundPacket(L, u, n),
         \A q \in Agents \ {r} : own'[q] = own[q] /\ proposals'[q] = proposals[q],
         \A n \in Waiting(r) : HeldBack(jobs[r][i], n) => Settled(L, u, r, n)',
         \/ own'[r] = own[r] /\ proposals'[r] = proposals[r]
         \/ \E n \in Waiting(r) : Stored(L, u, r, n) /\ Settled(L, u, r, n)'
  PROVE  RoundStep(L, u)
<1>a. PICK gone : gone = {jobs[r][i]}
  OBVIOUS
<1>1. JobsStay(r, gone)
  BY <1>a DEF JobProcessed
<1>2. \A q \in Agents \ {r} :
        own'[q] = own[q] /\ proposals'[q] = proposals[q] /\ jobs'[q] = jobs[q]
  BY DEF JobProcessed
<1>3. \A k \in DOMAIN jobs'[r] :
        (\E l \in DOMAIN jobs[r] : jobs'[r][k] = jobs[r][l]) \/ RoundJob(L, u, r, jobs[r][k])'
  BY DEF JobProcessed
<1>b. PICK taken : taken = {}
  OBVIOUS
<1>4. PacketsStay(r, taken) /\ \A n \in taken : n.stamp <= clock'[r]
  BY <1>b
<1>5. \A n \in Waiting(r) :
        (n \in taken /\ Addressed(r, n)) \/ (\E j \in gone : HeldBack(j, n))
          => n \in Waiting(r)' \/ Settled(L, u, r, n)'
  BY <1>a, <1>b
<1>6. QED BY <1>1, <1>2, <1>3, <1>4, <1>5, OneRobotSteps

LEMMA ProcessCommandJobInRound ==
  ASSUME SafetyInv, NEW L \in Nat, NEW u \in Values, Round(L, u), NEW r \in Agents,
         NEW i \in DOMAIN jobs[r], processCommandJob(r, i)
  PROVE  RoundStep(L, u)
<1>a. PICK o : o = jobs[r][i]
  OBVIOUS
<1>b. PICK j : j = [o EXCEPT !.expected = Unanswered(r, o)]
  OBVIOUS
<1>1. /\ o.kind = "CommandJob" /\ KeepVariable
      /\ UNCHANGED <<clock, activeRobots, shortAcks, commands, dups>>
  BY <1>a DEF processCommandJob
<1>2. TypeInv /\ o \in Job /\ RoundJob(L, u, r, o) /\ own[r].strat = ThreeWayHandShake
  BY <1>a, ListedJob DEF SafetyInv, Round, RoundJobs, RoundVariables, RoundVariable
<1>3. o.expected \in SUBSET Agents
  BY <1>1, <1>2, JobFields
<1>4. Unanswered(r, o) \in SUBSET Agents
  BY <1>3 DEF Unanswered
<1>5. j \in Job /\ j.kind = "CommandJob" /\ j.val = o.val /\ j.stamp = o.stamp
  BY <1>1, <1>2, <1>4, <1>b, ChangedCommandJob
<1>6. j.val = u /\ j.stamp >= L
  BY <1>1, <1>2, <1>5 DEF RoundJob
<1>7. \/ eraseJob(r, i) /\ UNCHANGED net
      \/ \E late \in SUBSET Retryable(j) :
           /\ net' = Multicast(net, r, {CaceCommand(r, q, j.msgID, j.val, own[r].strat,
                                                    own[r].dec, j.stamp) : q \in late})
           /\ replaceJob(r, i, Resent(j, late))
  BY <1>a, <1>b DEF processCommandJob, resend
<1>8. UNCHANGED activeRobots /\ \A q \in Agents : own'[q] = own[q] /\ proposals'[q] = proposals[q]
  BY <1>1 DEF KeepVariable
<1>9. \A n \in Waiting(r) : ~HeldBack(jobs[r][i], n)
  BY <1>1, <1>a DEF HeldBack
<1>10. CASE eraseJob(r, i) /\ UNCHANGED net
  <2>a. PICK sent : sent = {}
    OBVIOUS
  <2>1. PacketsStay(r, {}) /\ PacketsFrom(r, sent) /\ \A n \in sent : RoundPacket(L, u, n)
    BY <1>10, <2>a DEF PacketsStay, PacketsFrom
  <2>2. JobProcessed(L, u, r, i)
    BY <1>2, <1>10, ErasedInRound
  <2>3. QED BY <1>8, <1>9, <2>1, <2>2, OneJobSteps
<1>11. ASSUME NEW late \in SUBSET Retryable(j), NEW packets,
              packets = {CaceCommand(r, q, j.msgID, j.val, own[r].strat, own[r].dec, j.stamp) :
                           q \in late},
              net' = Multicast(net, r, packets), replaceJob(r, i, Resent(j, late))
       PROVE  RoundStep(L, u)
  <2>1. PacketsStay(r, {}) /\ PacketsFrom(r, packets)
    BY <1>2, <1>11, SendStays
  <2>2. \A n \in packets : RoundPacket(L, u, n)
    <3>1. ASSUME NEW q
          PROVE  RoundPacket(L, u, CaceCommand(r, q, j.msgID, j.val, own[r].strat, own[r].dec,
                                               j.stamp))
      BY <1>2, <1>6 DEF CaceCommand, RoundPacket
    <3>2. QED BY <1>11, <3>1
  <2>3. PICK k : k = Resent(j, late)
    OBVIOUS
  <2>4. k \in Job /\ k.kind = "CommandJob" /\ k.val = u /\ k.stamp >= L
    BY <1>5, <1>6, <2>3, ResentJob
  <2>5. \A l \in DOMAIN jobs'[r] : jobs'[r][l] = k => RoundJob(L, u, r, jobs[r][l])'
    BY <2>4 DEF RoundJob
  <2>6. replaceJob(r, i, k)
    BY <1>11, <2>3
  <2>7. JobProcessed(L, u, r, i)
    BY <1>2, <2>4, <2>5, <2>6, ReplacedInRound
  <2>8. QED BY <1>8, <1>9, <2>1, <2>2, <2>7, OneJobSteps
<1>12. QED BY <1>7, <1>10, <1>11

LEMMA ProcessShortAckJobInRound ==
  ASSUME SafetyInv, SafetyInv', NEW L \in Nat, NEW u \in Values, Round(L, u), NEW r \in Agents,
         NEW i \in DOMAIN jobs[r], processShortAckJob(r, i)
  PROVE  RoundStep(L, u)
<1>a. PICK m : m = jobs[r][i].ack
  OBVIOUS
<1>b. PICK c : c = clock[r]
  OBVIOUS
<1>c. PICK a : a = CaceShortAck(r, m.from, m.msgID, c + 1)
  OBVIOUS
<1>1. /\ jobs[r][i].kind = "ShortAckJob" /\ UpdateByAck(r, m) /\ eraseJob(r, i)
      /\ UNCHANGED activeRobots
  BY <1>a DEF processShortAckJob
<1>2. TypeInv /\ m \in Message /\ m.kind = "Acknowledge" /\ m.stamp <= c
  BY <1>1, <1>a, <1>b, ListedJob, JobFields DEF SafetyInv, TrueJobs, TrueJob, Taken
<1>3. RoundPacket(L, u, m)
  BY <1>1, <1>a DEF Round, RoundJobs, RoundJob
<1>4. Stored(L, u, r, m)
  BY <1>1, <1>2, <1>3, RoundUpdates DEF Round, RoundVariables
<1>5. VariableUpdated(r)
  BY <1>1, <1>2, UpdatedByAck
<1>6. own'[r].strat > TwoWayHandShake
  BY <1>4 DEF Stored, TwoWayHandShake, ThreeWayHandShake
<1>7. clock' = [clock EXCEPT ![r] = clock[r] + 1] /\ net' = Multicast(net, r, {a})
  BY <1>6, <1>a, <1>b, <1>c DEF processShortAckJob
<1>8. c \in Nat /\ m.stamp \in Nat /\ c >= m.stamp /\ clock'[r] = c + 1
  <2>1. m.stamp \in Nat /\ c \in Nat /\ clock'[r] = c + 1
    BY <1>2, <1>7, <1>b, MessageFields DEF TypeInv, TypeOK
  <2>2. QED BY <1>2, <2>1
<1>9. PacketsStay(r, {}) /\ PacketsFrom(r, {a}) /\ Reaches(r, {a})
  BY <1>2, <1>7, SendStays
<1>10. Settled(L, u, r, m)' /\ RoundPacket(L, u, a)
  BY <1>2, <1>4, <1>8, <1>9, <1>c, AckSettles
<1>11. JobProcessed(L, u, r, i)
  BY <1>1, <1>2, ErasedInRound
<1>12. m \in Waiting(r)
  BY <1>1, <1>a DEF Waiting
<1>13. \A n : HeldBack(jobs[r][i], n) => n = m
  BY <1>1, <1>a DEF HeldBack
<1>14. \A q \in Agents \ {r} : own'[q] = own[q] /\ proposals'[q] = proposals[q]
  BY <1>5 DEF VariableUpdated
<1>15. \E n \in Waiting(r) : Stored(L, u, r, n) /\ Settled(L, u, r, n)'
  BY <1>4, <1>10, <1>12
<1>16. \A n \in Waiting(r) : HeldBack(jobs[r][i], n) => Settled(L, u, r, n)'
  <2>1. ASSUME NEW n, n = m PROVE Settled(L, u, r, n)'
    BY <1>10, <2>1
  <2>2. QED BY <1>13, <2>1
<1>17. \A n \in {a} : RoundPacket(L, u, n)
  BY <1>10
<1>18. QED BY <1>1, <1>9, <1>11, <1>14, <1>15, <1>16, <1>17, OneJobSteps

LEMMA ProcessCommandAcknowledgeJobInRound ==
  ASSUME SafetyInv, NEW L \in Nat, NEW u \in Values, Round(L, u), NEW r \in Agents,
         NEW i \in DOMAIN jobs[r], processCommandAcknowledgeJob(r, i)
  PROVE  RoundStep(L, u)
<1>a. PICK o : o = jobs[r][i]
  OBVIOUS
<1>b. PICK id : id = o.cmd.msgID
  OBVIOUS
<1>c. PICK robots : robots = o.expected \ Answered(r, id)
  OBVIOUS
<1>d. PICK j : j = [o EXCEPT !.expected = robots]
  OBVIOUS
<1>1. /\ o.kind = "CommandAcknowledgeJob" /\ o.started /\ KeepVariable /\ UNCHANGED activeRobots
  BY <1>a DEF processCommandAcknowledgeJob
<1>2. PICK late \in SUBSET Retryable(j) :
        /\ net' = Multicast(net, r, {CaceAcknowledge(r, q, id, own[r].val, j.stamp) : q \in late})
        /\ eraseJob(r, i) \/ replaceJob(r, i, Resent(j, late))
  BY <1>a, <1>b, <1>c, <1>d DEF processCommandAcknowledgeJob, resend
<1>3. TypeInv /\ o \in Job /\ RoundJob(L, u, r, o)
  BY <1>a, ListedJob DEF SafetyInv, Round, RoundJobs
<1>4. own[r].val = u /\ o.stamp >= L /\ RoundPacket(L, u, o.cmd)
  BY <1>1, <1>3 DEF RoundJob
<1>5. j \in Job /\ j.kind = o.kind /\ j.cmd = o.cmd /\ j.stamp = o.stamp
  <2>1. robots \in SUBSET Agents
    BY <1>1, <1>3, <1>c, JobFields
  <2>2. QED BY <1>1, <1>3, <1>d, <2>1, ChangedCommandAcknowledgeJob
<1>6. PICK packets : packets = {CaceAcknowledge(r, q, id, own[r].val, j.stamp) : q \in late}
  OBVIOUS
<1>7. PacketsStay(r, {}) /\ PacketsFrom(r, packets)
  BY <1>2, <1>3, <1>6, SendStays
<1>8. \A n \in packets : RoundPacket(L, u, n)
  <2>1. ASSUME NEW q PROVE RoundPacket(L, u, CaceAcknowledge(r, q, id, own[r].val, j.stamp))
    BY <1>4, <1>5 DEF CaceAcknowledge, RoundPacket
  <2>2. QED BY <1>6, <2>1
<1>9. PICK k : k = Resent(j, late)
  OBVIOUS
<1>10. k \in Job /\ k.kind = "CommandAcknowledgeJob" /\ k.cmd = o.cmd /\ k.stamp = o.stamp
  BY <1>1, <1>5, <1>9, ResentJob
<1>11. \A l \in DOMAIN jobs'[r] : jobs'[r][l] = k => RoundJob(L, u, r, jobs[r][l])'
  <2>1. own'[r] = own[r]
    BY <1>1 DEF KeepVariable
  <2>2. QED BY <1>4, <1>10, <2>1 DEF RoundJob, RoundPacket
<1>12. JobProcessed(L, u, r, i)
  BY <1>2, <1>3, <1>9, <1>10, <1>11, ErasedInRound, ReplacedInRound
<1>13. \A q \in Agents : own'[q] = own[q] /\ proposals'[q] = proposals[q]
  BY <1>1 DEF KeepVariable
<1>14. \A n \in Waiting(r) : ~HeldBack(jobs[r][i], n)
  BY <1>1, <1>a DEF HeldBack
<1>15. QED BY <1>1, <1>7, <1>8, <1>12, <1>13, <1>14, OneJobSteps

LEMMA StartCommandAcknowledgeJobInRound ==
  ASSUME SafetyInv, NEW L \in Nat, NEW u \in Values, Round(L, u), NEW r \in Agents,
         NEW i \in DOMAIN jobs[r], startCommandAcknowledgeJob(r, i)
  PROVE  RoundStep(L, u)
<1>a. PICK o : o = jobs[r][i]
  OBVIOUS
<1>b. PICK m : m = o.cmd
  OBVIOUS
<1>c. PICK c : c = clock[r] + 1
  OBVIOUS
<1>d. PICK robots : robots = o.expected \ Answered(r, m.msgID)
  OBVIOUS
<1>e. PICK retrys : retrys = FullRetrys(o.expected, AckRetrys)
  OBVIOUS
<1>f. PICK j : j = [o EXCEPT !.started = TRUE, !.stamp = c, !.expected = robots, !.retrys = retrys]
  OBVIOUS
<1>g. PICK a : a = CaceAcknowledge(r, Broadcast, m.msgID, own'[r].val, c)
  OBVIOUS
<1>1. /\ o.kind = "CommandAcknowledgeJob" /\ ~o.started /\ UpdateByCommand(r, m)
      /\ UNCHANGED activeRobots
  BY <1>a, <1>b DEF startCommandAcknowledgeJob
<1>2. /\ TypeInv /\ o \in Job /\ m \in Message /\ m.kind = "Command" /\ m.stamp <= clock[r]
      /\ o.expected \in SUBSET Agents
  BY <1>1, <1>a, <1>b, ListedJob, JobFields DEF SafetyInv, TrueJobs, TrueJob, Taken
<1>3. RoundPacket(L, u, m)
  BY <1>1, <1>a, <1>b DEF Round, RoundJobs, RoundJob
<1>4. m.level > FireAndForget
  BY <1>2, <1>3 DEF RoundPacket, FireAndForget, ThreeWayHandShake
<1>5. net' = Multicast(net, r, {a}) /\ (eraseJob(r, i) \/ replaceJob(r, i, j))
  BY <1>4, <1>a, <1>b, <1>c, <1>d, <1>e, <1>f, <1>g DEF startCommandAcknowledgeJob
<1>6. Stored(L, u, r, m)
  BY <1>1, <1>2, <1>3, RoundUpdates DEF Round, RoundVariables
<1>7. VariableUpdated(r)
  BY <1>1, <1>2, UpdatedByCommand
<1>8. c \in Nat /\ c >= m.stamp /\ c >= L
  <2>1. clock[r] \in Nat /\ m.stamp \in Nat /\ m.stamp >= L
    BY <1>2, <1>3, MessageFields DEF TypeInv, TypeOK, RoundPacket
  <2>2. QED BY <1>2, <1>c, <2>1
<1>9. PacketsStay(r, {}) /\ PacketsFrom(r, {a}) /\ Reaches(r, {a})
  BY <1>2, <1>5, SendStays
<1>10. Settled(L, u, r, m)' /\ RoundPacket(L, u, a)
  BY <1>2, <1>3, <1>6, <1>8, <1>9, <1>g, CommandSettles
<1>11. j \in Job /\ j.kind = "CommandAcknowledgeJob" /\ j.cmd = m /\ j.stamp = c
  <2>1. robots \in SUBSET Agents /\ retrys \in Retrys(AckRetrys)
    BY <1>2, <1>d, <1>e, NewRetrys
  <2>2. LET k == [o EXCEPT !.started = TRUE, !.stamp = c, !.expected = robots, !.retrys = retrys]
        IN  /\ k \in Job /\ k.kind = o.kind /\ k.cmd = o.cmd /\ k.expected = robots
            /\ k.stamp = c /\ k.retrys = retrys /\ k.started = TRUE
    BY <1>1, <1>2, <1>8, <2>1, StartedCommandAcknowledgeJob, Zenon
  <2>3. /\ j \in Job /\ j.kind = o.kind /\ j.cmd = o.cmd /\ j.expected = robots
        /\ j.stamp = c /\ j.retrys = retrys /\ j.started = TRUE
    BY <1>f, <2>2, Zenon
  <2>4. QED BY <1>1, <1>b, <2>3
<1>12. JobProcessed(L, u, r, i)
  <2>1. \A k \in DOMAIN jobs'[r] : jobs'[r][k] = j => RoundJob(L, u, r, jobs[r][k])'
    <3>1. own'[r].val = u
      BY <1>6 DEF Stored
    <3>2. QED BY <1>3, <1>8, <1>11, <3>1 DEF RoundJob, RoundPacket
  <2>2. CASE eraseJob(r, i)
    BY <1>2, <2>2, ErasedInRound
  <2>3. CASE replaceJob(r, i, j)
    BY <1>2, <1>11, <2>1, <2>3, ReplacedInRound
  <2>4. QED BY <1>5, <2>2, <2>3
<1>13. m \in Waiting(r)
  BY <1>1, <1>a, <1>b DEF Waiting
<1>14. \A n : HeldBack(jobs[r][i], n) => n = m
  BY <1>1, <1>a, <1>b DEF HeldBack
<1>15. \A q \in Agents \ {r} : own'[q] = own[q] /\ proposals'[q] = proposals[q]
  BY <1>7 DEF VariableUpdated
<1>16. \E n \in Waiting(r) : Stored(L, u, r, n) /\ Settled(L, u, r, n)'
  BY <1>6, <1>10, <1>13
<1>17. \A n \in Waiting(r) : HeldBack(jobs[r][i], n) => Settled(L, u, r, n)'
  <2>1. ASSUME NEW n, n = m PROVE Settled(L, u, r, n)'
    BY <1>10, <2>1
  <2>2. QED BY <1>14, <2>1
<1>18. \A n \in {a} : RoundPacket(L, u, n)
  BY <1>10
<1>19. QED BY <1>1, <1>9, <1>12, <1>15, <1>16, <1>17, <1>18, OneJobSteps

\* All that handlers and jobs do in a round belongs to it.
LEMMA HandledInRound ==
  ASSUME SafetyInv, SafetyInv', NEW L \in Nat, NEW u \in Values, Round(L, u), NEW r \in Agents,
         \/ \E m \in net[r] : Handle(r, m)
         \/ \E i \in DOMAIN jobs[r] : Process(r, i)
  PROVE  RoundStep(L, u)
<1>1. ASSUME NEW m \in net[r], Handle(r, m) PROVE RoundStep(L, u)
  BY <1>1, OverhearInRound, HandleCaceCommandInRound, HandleCaceAcknowledgeInRound,
     HandleCaceShortAckInRound DEF Handle
<1>2. ASSUME NEW i \in DOMAIN jobs[r], Process(r, i) PROVE RoundStep(L, u)
  BY <1>2, ProcessCommandJobInRound, StartCommandAcknowledgeJobInRound,
     ProcessCommandAcknowledgeJobInRound, ProcessShortAckJobInRound DEF Process
<1>3. QED BY <1>1, <1>2

-----------------------------------------------------------------------------
(***************************************************************************)
(* The calls of the mutex are calls of the user.                           *)
(***************************************************************************)
LEMMA FreeIsNobody == Free \notin Agents /\ Free \in Values /\ NoValue \notin Values
BY DEF Free, Broadcast

LEMMA MutexCalls ==
  ASSUME NEW r \in Agents, NEW x \in Values, distributeMutex(r, x)
  PROVE  Call(r) /\ \E t \in DecissionTimes : distributeValue(r, x, ThreeWayHandShake, t)
<1>1. PICK t \in DecissionTimes : distributeValue(r, x, ThreeWayHandShake, t)
  BY DEF distributeMutex
<1>2. ThreeWayHandShake \in Levels
  OBVIOUS
<1>3. QED BY <1>1, <1>2 DEF Call

LEMMA MutexSteps == MutexNext => Next
<1> SUFFICES ASSUME MutexNext PROVE Next
  OBVIOUS
<1>1. PICK r \in Agents :
        \/ pNoBlock(r)
        \/ v(r)
        \/ distributeVariable(r)
        \/ \E m \in net[r] : Handle(r, m)
        \/ \E i \in DOMAIN jobs[r] : Process(r, i)
  BY DEF MutexNext
<1>2. r \in Values /\ Free \in Values
  BY FreeIsNobody
<1>3. CASE pNoBlock(r)
  BY <1>2, <1>3, MutexCalls DEF pNoBlock, Next
<1>4. CASE v(r)
  BY <1>2, <1>4, MutexCalls DEF v, Next
<1>5. CASE distributeVariable(r)
  BY <1>5 DEF Call, Next
<1>6. QED BY <1>1, <1>3, <1>4, <1>5 DEF Next

LEMMA MutexInvInit == MutexInit => MutexInv
<1> SUFFICES ASSUME MutexInit PROVE MutexInv
  OBVIOUS
<1>1. ASSUME NEW r \in Agents
      PROVE  /\ MutexVariable(r) \in Believe(Agents) /\ MutexVariable(r).val = Free
             /\ MutexVariable(r).age = 1 /\ MutexVariable(r).strat = ThreeWayHandShake
  BY FreeIsNobody DEF MutexVariable, Believe, AnyValue, Strategies, DefaultStrategies
<1>2. ASSUME NEW r \in Agents
      PROVE  /\ clock[r] = 1 /\ own[r] = MutexVariable(r) /\ proposals[r] = <<>>
             /\ jobs[r] = <<>> /\ net[r] = {} /\ shortAcks[r] = {} /\ held[r] = {Free}
             /\ activeRobots[r] = Others(r)
  BY DEF MutexInit
<1>3. TypeOK
  <2>1. clock \in [Agents -> Nat] /\ activeRobots \in [Agents -> SUBSET Agents]
    BY DEF MutexInit, Others
  <2>2. own \in [Agents -> Believe(Agents)]
    BY <1>1 DEF MutexInit
  <2>3. proposals \in [Agents -> Seq(Believe(Agents))] /\ jobs \in [Agents -> Seq(Job)]
    BY DEF MutexInit
  <2>4. /\ shortAcks \in [Agents -> SUBSET Receipt] /\ net \in [Agents -> SUBSET Message]
        /\ noted \in [Agents -> SUBSET Receipt]
    BY DEF MutexInit
  <2>5. held \in [Agents -> SUBSET (AnyValue \cup {NoValue})]
    BY FreeIsNobody DEF MutexInit, AnyValue
  <2>6. commands \in 0..MaxCommands /\ resends \in 0..MaxResends /\ dups \in 0..MaxDups
    BY DEF MutexInit
  <2>7. QED BY <2>1, <2>2, <2>3, <2>4, <2>5, <2>6 DEF TypeOK
<1>4. TypeInv
  <2>1. \A r \in Agents : own[r].val # NoValue
    BY <1>1, <1>2, FreeIsNobody
  <2>2. QED BY <1>2, <1>3, <2>1 DEF TypeInv, HasValues, existsVariable
<1>5. TrueNet /\ TrueJobs /\ TrueShortAcks
  BY DEF MutexInit, TrueNet, TrueJobs, TrueShortAcks
<1>6. TrueVariables
  <2> SUFFICES ASSUME NEW r \in Agents PROVE TrueVariable(r)
    BY DEF TrueVariables
  <2>1. own[r].val = Free /\ own[r].age = 1 /\ own[r].strat = ThreeWayHandShake
    BY <1>1, <1>2
  <2>2. QED BY <1>2, <2>1, FreeIsNobody, StrategiesUsed DEF TrueVariable, existsVariable
<1>7. Untouched
  BY <1>2 DEF Untouched, MutexInit
<1>8. FullTeam
  BY <1>2 DEF FullTeam
<1>9. QED BY <1>4, <1>5, <1>6, <1>7, <1>8 DEF MutexInv, SafetyInv

-----------------------------------------------------------------------------
(***************************************************************************)
(* A new round: a call when all is quiet.                                  *)
(***************************************************************************)
\* When all is quiet, everybody has the value of the round from everybody, and the
\* clocks are past all that was recorded.
LEMMA QuietRound ==
  ASSUME SafetyInv, AgesHeard, NEW L \in Nat, NEW u \in Values, Round(L, u), Quiet
  PROVE  /\ \A r \in Agents : own[r].val = u
         /\ \A r, x \in Agents :
              own[r].age < clock[x] /\ \A k \in DOMAIN proposals[r] : proposals[r][k].age < clock[x]
         /\ \A r \in Agents : \A q \in Others(r) : Heeds(L, r, q)
<1>1. \A r \in Agents : ~Pending(r)
  BY NothingWaits DEF Pending
<1>2. \A r \in Agents : own[r].val = u
  BY <1>1 DEF Round, RoundVariables, RoundVariable, Behind
<1>3. ASSUME NEW x \in Agents, NEW a \in Nat, WillPass(x, a)
      PROVE  a < clock[x]
  <2>1. net[x] = {} /\ clock[x] \in Nat
    BY DEF Quiet, SafetyInv, TypeInv, TypeOK
  <2>2. QED BY <1>3, <2>1, NothingWaits DEF WillPass
<1>4. ASSUME NEW r \in Agents, NEW x \in Agents
      PROVE  own[r].age < clock[x] /\ \A k \in DOMAIN proposals[r] : proposals[r][k].age < clock[x]
  <2>1. own[r].age \in Nat /\ \A k \in DOMAIN proposals[r] : proposals[r][k].age \in Nat
    BY ListedProposal DEF SafetyInv, TypeInv, TypeOK, Believe
  <2>2. /\ WillPass(x, own[r].age)
        /\ \A k \in DOMAIN proposals[r] : WillPass(x, proposals[r][k].age)
    BY DEF AgesHeard
  <2>3. QED BY <1>3, <2>1, <2>2
<1>5. ASSUME NEW r \in Agents, NEW q \in Others(r)
      PROVE  Heeds(L, r, q)
  <2>1. q \in Agents /\ Waiting(r) = {}
    BY NothingWaits DEF Others
  <2>2. HearsOf(L, r, q)
    BY DEF Round, AllHear
  <2>3. QED BY <1>1, <2>1, <2>2 DEF HearsOf
<1>6. QED BY <1>2, <1>4, <1>5

\* What everybody has when a call comes: variables that are no later than the clock of
\* the caller, and at the others the value of the call or an older one that does not
\* name its robot.
Callable(w, L, u) ==
  /\ L = clock[w]
  /\ \A r \in Agents :
       /\ own[r].strat = ThreeWayHandShake
       /\ own[r].val # NoValue
       /\ own[r].age <= L
       /\ \A k \in DOMAIN proposals[r] :
            proposals[r][k].strat = ThreeWayHandShake /\ proposals[r][k].age < L
  /\ \A q \in Others(w) : own[q].val = u \/ (own[q].val # q /\ own[q].age < L)

LEMMA NewRound ==
  ASSUME SafetyInv, FullTeam, Quiet, NEW w \in Agents, NEW L, NEW u \in Values, Callable(w, L, u),
         NEW b, b.val = u, b.strat = ThreeWayHandShake, b.age \in Nat, b.age <= L,
         own' = [own EXCEPT ![w] = b], UNCHANGED <<proposals, activeRobots>>,
         NewCommandJob(w, b)
  PROVE  FullTeam' /\ AgesHeard' /\ Round(L, u)'
<1>a. PICK m : m = CaceCommand(w, Broadcast, MsgID(w), b.val, b.strat, b.dec, L + 1)
  OBVIOUS
<1>b. PICK j : j = CommandJob(MsgID(w), b.val, activeRobots[w], L,
                              FullRetrys(activeRobots[w], CommandRetrys))
  OBVIOUS
<1>1. /\ clock \in [Agents -> Nat] /\ own \in [Agents -> Believe(Agents)] /\ L \in Nat
      /\ jobs \in [Agents -> Seq(Job)] /\ L = clock[w]
  BY DEF Callable, SafetyInv, TypeInv, TypeOK
<1>2. /\ clock' = [clock EXCEPT ![w] = L + 1] /\ net' = Multicast(net, w, {m})
      /\ appendJob(w, j)
  BY <1>1, <1>a, <1>b DEF NewCommandJob, NoDistribution, ThreeWayHandShake
<1>3. /\ m.kind = "Command" /\ m.from = w /\ m.to = Broadcast /\ m.val = u
      /\ m.level = ThreeWayHandShake /\ m.stamp = L + 1
  BY <1>a DEF CaceCommand
<1>4. j.kind = "CommandJob" /\ j.val = u /\ j.stamp = L
  BY <1>b DEF CommandJob
<1>5. clock'[w] = L + 1 /\ net'[w] = {} /\ own'[w] = b
  BY <1>1, <1>2 DEF Quiet, Multicast
<1>6. ASSUME NEW q \in Others(w)
      PROVE  net'[q] = {m} /\ own'[q] = own[q] /\ m \in Waiting(q)'
  <2>1. q \in Agents /\ q # w /\ net[q] = {}
    BY DEF Others, Quiet
  <2>2. net'[q] = {m} /\ own'[q] = own[q]
    BY <1>1, <1>2, <2>1 DEF Multicast
  <2>3. Addressed(q, m)
    BY <1>3 DEF Addressed
  <2>4. QED BY <1>3, <2>1, <2>2, <2>3, NowWaiting
<1>7. ASSUME NEW q \in Agents, NEW i \in DOMAIN jobs'[q]
      PROVE  jobs'[q][i] = j
  <2>1. jobs[q] = <<>> /\ jobs[w] = <<>>
    BY DEF Quiet
  <2>2. jobs'[q] = IF q = w THEN Append(jobs[w], j) ELSE jobs[q]
    BY <1>1, <1>2 DEF appendJob
  <2>3. q = w /\ jobs'[q] = <<j>>
    BY <1>7, <2>1, <2>2
  <2>4. QED BY <2>3
<1>8. FullTeam'
  BY DEF FullTeam
<1>9. AgesHeard'
  <2>1. ASSUME NEW x \in Agents, NEW a \in Nat, a <= L
        PROVE  WillPass(x, a)'
    <3>1. CASE x = w
      BY <1>1, <1>5, <2>1, <3>1 DEF WillPass
    <3>2. CASE x # w
      <4>1. m \in net'[x] /\ m.stamp > a
        BY <1>1, <1>3, <1>6, <2>1, <3>2 DEF Others
      <4>2. QED BY <4>1 DEF WillPass
    <3>3. QED BY <3>1, <3>2
  <2>2. ASSUME NEW r \in Agents, NEW a, a = own'[r].age
        PROVE  a \in Nat /\ a <= L
    <3>1. CASE r = w
      BY <1>5, <2>2, <3>1
    <3>2. CASE r # w
      <4>1. a = own[r].age
        BY <1>6, <2>2, <3>2 DEF Others
      <4>2. QED BY <1>1, <4>1 DEF Callable, Believe
    <3>3. QED BY <3>1, <3>2
  <2>3. ASSUME NEW r \in Agents, NEW k \in DOMAIN proposals'[r], NEW a, a = proposals'[r][k].age
        PROVE  a \in Nat /\ a <= L
    <3>1. k \in DOMAIN proposals[r] /\ a = proposals[r][k].age
      BY <2>3
    <3>2. a \in Nat
      BY <3>1, ListedProposal DEF SafetyInv, Believe
    <3>3. QED BY <1>1, <3>1, <3>2 DEF Callable
  <2>4. QED BY <2>1, <2>2, <2>3 DEF AgesHeard, WillPass
<1>10. RoundPackets(L, u)'
  <2>1. ASSUME NEW q \in Agents, NEW n \in net'[q]
        PROVE  n = m
    BY <1>5, <1>6 DEF Others
  <2>2. RoundPacket(L, u, m)
    BY <1>1, <1>3 DEF RoundPacket
  <2>3. QED BY <2>1, <2>2 DEF RoundPackets, RoundPacket
<1>11. RoundJobs(L, u)'
  BY <1>1, <1>4, <1>7 DEF RoundJobs, RoundJob
<1>12. ASSUME NEW r \in Agents PROVE RoundVariable(L, u, r)'
  <2>1. \A k \in DOMAIN proposals'[r] :
          proposals'[r][k].strat = ThreeWayHandShake /\ proposals'[r][k].age < L
    BY DEF Callable
  <2>2. CASE r = w
    BY <1>5, <2>1, <2>2, FreeIsNobody DEF RoundVariable
  <2>3. CASE r # w
    <3>1. r \in Others(w) /\ own'[r] = own[r] /\ Pending(r)'
      BY <1>3, <1>6, <2>3 DEF Others, Pending
    <3>2. own[r].val = u \/ (own[r].val # r /\ own[r].age < L)
      BY <3>1 DEF Callable
    <3>3. own[r].strat = ThreeWayHandShake /\ own[r].val # NoValue /\ own[r].age <= L
      BY DEF Callable
    <3>4. QED BY <2>1, <3>1, <3>2, <3>3 DEF RoundVariable, Behind
  <2>4. QED BY <2>2, <2>3
<1>13. AllHear(L)'
  <2> SUFFICES ASSUME NEW r \in Agents, NEW q \in Others(r)
               PROVE  HearsOf(L, r, q)'
    BY DEF AllHear
  <2>1. CASE q = w
    <3>1. r \in Others(w)
      BY <2>1 DEF Others
    <3>2. QED BY <1>3, <1>6, <2>1, <3>1 DEF HearsOf
  <2>2. CASE q # w
    <3>1. q \in Others(w)
      BY <2>2 DEF Others
    <3>2. QED BY <1>3, <1>6, <3>1 DEF HearsOf, Pending
  <2>3. QED BY <2>1, <2>2
<1>14. QED BY <1>8, <1>9, <1>10, <1>11, <1>12, <1>13 DEF Round, RoundVariables

LEMMA UntouchedVariable ==
  ASSUME Untouched, NEW r \in Agents
  PROVE  /\ own[r].strat = ThreeWayHandShake /\ own[r].val = Free /\ own[r].age = 1
         /\ proposals[r] = <<>> /\ clock[r] = 1
<1>1. own[r] = MutexVariable(r) /\ proposals[r] = <<>> /\ clock[r] = 1
  BY DEF Untouched
<1>2. QED BY <1>1 DEF MutexVariable

\* A call of the mutex finds what it needs.
LEMMA MutexCallable ==
  ASSUME MutexInv, Quiet, NEW w \in Agents, NEW u,
         \/ u = w /\ pNoBlock(w)
         \/ u = Free /\ v(w)
         \/ u = own[w].val /\ distributeVariable(w)
  PROVE  Callable(w, clock[w], u)
<1>1. SafetyInv /\ FullTeam /\ clock[w] \in Nat
  BY DEF MutexInv, SafetyInv, TypeInv, TypeOK
<1>2. \/ u = w /\ own[w].val = Free /\ isAcknowledged(own[w], proposals[w], activeRobots[w])
      \/ own[w].val = w
      \/ u = own[w].val
  BY DEF pNoBlock, isFree, v
<1>3. CASE Untouched
  <2>1. ASSUME NEW r \in Agents
        PROVE  /\ own[r].strat = ThreeWayHandShake /\ own[r].val = Free /\ own[r].age = 1
               /\ proposals[r] = <<>> /\ clock[w] = 1
    BY <1>3, UntouchedVariable
  <2>2. \A r \in Agents : DOMAIN proposals[r] = {}
    BY <2>1
  <2>3. ASSUME NEW q \in Others(w) PROVE own[q].val = u
    <3>1. CASE isAcknowledged(own[w], proposals[w], activeRobots[w])
      <4>1. Len(proposals[w]) = 0 /\ activeRobots[w] = Others(w)
        BY <1>1, <2>1 DEF FullTeam
      <4>2. IsFiniteSet(Others(w))
        BY FS_Subset DEF Others
      <4>3. Cardinality(Others(w)) \in Nat /\ Cardinality(Others(w)) <= 0
        BY <3>1, <4>1, <4>2, FS_CardinalityType DEF isAcknowledged
      <4>4. Others(w) = {}
        BY <4>2, <4>3, FS_EmptySet
      <4>5. QED BY <4>4
    <3>2. CASE own[w].val = w
      BY <2>1, <3>2, FreeIsNobody
    <3>3. CASE u = own[w].val
      BY <2>1, <3>3 DEF Others
    <3>4. QED BY <1>2, <3>1, <3>2, <3>3
  <2>4. QED BY <2>1, <2>2, <2>3, FreeIsNobody DEF Callable
<1>4. ASSUME AgesHeard, NEW L \in Nat, NEW old \in Values, Round(L, old)
      PROVE  Callable(w, clock[w], u)
  <2>1. /\ \A r \in Agents : own[r].val = old
        /\ \A r \in Agents :
             own[r].age < clock[w] /\ \A k \in DOMAIN proposals[r] : proposals[r][k].age < clock[w]
    BY <1>1, <1>4, QuietRound
  <2>2. ASSUME NEW r \in Agents
        PROVE  /\ own[r].strat = ThreeWayHandShake /\ own[r].val # NoValue
               /\ \A k \in DOMAIN proposals[r] : proposals[r][k].strat = ThreeWayHandShake
    BY <1>4 DEF Round, RoundVariables, RoundVariable
  <2>3. \A r \in Agents : own[r].age \in Nat
    BY <1>1 DEF SafetyInv, TypeInv, TypeOK, Believe
  <2>4. \A q \in Others(w) : own[q].val = u \/ own[q].val # q
    BY <1>2, <2>1, FreeIsNobody DEF Others
  <2>5. QED BY <1>1, <2>1, <2>2, <2>3, <2>4 DEF Callable, Others
<1>5. QED BY <1>3, <1>4 DEF MutexInv

LEMMA MutexCallStarts ==
  ASSUME MutexInv, SafetyInv', Quiet, NEW w \in Agents,
         pNoBlock(w) \/ v(w) \/ distributeVariable(w)
  PROVE  MutexInv'
<1>a. PICK L : L = clock[w]
  OBVIOUS
<1>1. SafetyInv /\ FullTeam /\ L \in Nat /\ own \in [Agents -> Believe(Agents)]
  BY <1>a DEF MutexInv, SafetyInv, TypeInv, TypeOK
<1>2. ASSUME NEW u \in Values, distributeMutex(w, u), Callable(w, clock[w], u)
      PROVE  MutexInv'
  <2>1. PICK t \in DecissionTimes : distributeValue(w, u, ThreeWayHandShake, t)
    BY <1>2 DEF distributeMutex
  <2>2. PICK b : b = [id |-> w, val |-> u, age |-> L, strat |-> ThreeWayHandShake, dec |-> t]
    OBVIOUS
  <2>3. b.val = u /\ b.age = L /\ b.strat = ThreeWayHandShake
    BY <2>2
  <2>4. own' = [own EXCEPT ![w] = b] /\ UNCHANGED <<proposals, activeRobots>> /\ NewCommandJob(w, b)
    BY <2>1, <2>2, <1>a DEF distributeValue
  <2>5. b.age \in Nat /\ b.age <= L /\ Callable(w, L, u)
    BY <1>1, <1>2, <1>a, <2>3
  <2>6. AgesHeard' /\ FullTeam' /\ Round(L, u)'
    BY <1>1, <2>3, <2>4, <2>5, NewRound
  <2>7. QED BY <1>1, <2>6 DEF MutexInv
<1>3. CASE pNoBlock(w)
  <2>1. distributeMutex(w, w) /\ w \in Values
    BY <1>3 DEF pNoBlock
  <2>2. Callable(w, clock[w], w)
    BY <1>3, MutexCallable
  <2>3. QED BY <1>2, <2>1, <2>2
<1>4. CASE v(w)
  <2>1. distributeMutex(w, Free) /\ Free \in Values
    BY <1>4, FreeIsNobody DEF v
  <2>2. Callable(w, clock[w], Free)
    BY <1>4, MutexCallable
  <2>3. QED BY <1>2, <2>1, <2>2
<1>5. CASE distributeVariable(w)
  <2>b. PICK b, u : b = own[w] /\ u = own[w].val
    OBVIOUS
  <2>1. Callable(w, L, u)
    BY <1>5, <1>a, <2>b, MutexCallable
  <2>2. /\ own' = [own EXCEPT ![w] = b] /\ UNCHANGED <<proposals, activeRobots>>
        /\ NewCommandJob(w, b)
    BY <1>1, <1>5, <2>b DEF distributeVariable, KeepVariable
  <2>3. u \in Values
    <3>1. CASE Untouched
      BY <2>b, <3>1, FreeIsNobody, UntouchedVariable
    <3>2. ASSUME AgesHeard, NEW l \in Nat, NEW x \in Values, Round(l, x)
          PROVE  own[w].val = x
      BY <1>1, <3>2, QuietRound
    <3>3. QED BY <2>b, <3>1, <3>2 DEF MutexInv
  <2>4. b.val = u /\ b.strat = ThreeWayHandShake /\ b.age \in Nat /\ b.age <= L
    BY <1>1, <2>1, <2>b DEF Callable, Believe
  <2>5. AgesHeard' /\ FullTeam' /\ Round(L, u)'
    BY <1>1, <2>1, <2>2, <2>3, <2>4, NewRound
  <2>6. QED BY <1>1, <2>3, <2>5 DEF MutexInv
<1>6. QED BY <1>3, <1>4, <1>5

-----------------------------------------------------------------------------
(***************************************************************************)
(* The invariant.                                                          *)
(***************************************************************************)
\* A call counts.
LEMMA CallsCount ==
  ASSUME TypeInv, NEW w \in Agents, pNoBlock(w) \/ v(w) \/ distributeVariable(w)
  PROVE  commands' = commands + 1 /\ commands' # commands
<1>1. commands \in Nat
  BY DEF TypeInv, TypeOK
<1>2. commands' = commands + 1
  BY DEF pNoBlock, v, distributeMutex, distributeValue, distributeVariable, NewCommandJob
<1>3. QED BY <1>1, <1>2

LEMMA StutterInRound ==
  ASSUME UNCHANGED vars, NEW L, NEW u
  PROVE  RoundStep(L, u)
<1>1. \A q \in Agents : Waiting(q)' = Waiting(q)
  BY DEF vars, Waiting, Addressed
<1>2. QED BY <1>1 DEF vars, RoundStep

LEMMA MutexInvStep ==
  MutexInv /\ [MutexNext /\ (commands' # commands => Quiet)]_vars
    => MutexInv' /\ SafetyInv' /\ Grows
<1> SUFFICES ASSUME MutexInv, [MutexNext /\ (commands' # commands => Quiet)]_vars
             PROVE  MutexInv' /\ SafetyInv' /\ Grows
  OBVIOUS
<1>1. SafetyInv /\ TypeInv /\ FullTeam
  BY DEF MutexInv, SafetyInv
<1>2. SafetyInv' /\ Grows
  BY <1>1, MutexSteps, SafetyInvStep
<1>3. ASSUME AgesHeard, NEW L \in Nat, NEW u \in Values, Round(L, u), RoundStep(L, u)
      PROVE  MutexInv'
  <2>1. FullTeam' /\ AgesHeard' /\ Round(L, u)'
    BY <1>1, <1>2, <1>3, RoundGoesOn
  <2>2. QED BY <1>2, <2>1 DEF MutexInv
<1>4. ASSUME NEW r \in Agents, pNoBlock(r) \/ v(r) \/ distributeVariable(r),
             commands' # commands => Quiet
      PROVE  MutexInv'
  BY <1>1, <1>2, <1>4, CallsCount, MutexCallStarts
<1>5. ASSUME NEW r \in Agents,
             (\E m \in net[r] : Handle(r, m)) \/ (\E i \in DOMAIN jobs[r] : Process(r, i))
      PROVE  MutexInv'
  <2>1. ~Untouched
    <3>1. ASSUME Untouched PROVE net[r] = {} /\ jobs[r] = <<>> /\ DOMAIN jobs[r] = {}
      BY <3>1 DEF Untouched
    <3>2. QED BY <1>5, <3>1
  <2>2. PICK L \in Nat, u \in Values : AgesHeard /\ Round(L, u)
    BY <2>1 DEF MutexInv
  <2>3. RoundStep(L, u)
    BY <1>1, <1>2, <1>5, <2>2, HandledInRound
  <2>4. QED BY <1>3, <2>2, <2>3
<1>6. CASE UNCHANGED vars
  <2>1. CASE Untouched
    <3>1. Untouched' /\ FullTeam'
      BY <1>1, <1>6, <2>1 DEF vars, Untouched, FullTeam
    <3>2. QED BY <1>2, <3>1 DEF MutexInv
  <2>2. ASSUME AgesHeard, NEW L \in Nat, NEW u \in Values, Round(L, u)
        PROVE  MutexInv'
    BY <1>3, <1>6, <2>2, StutterInRound
  <2>3. Untouched \/ (AgesHeard /\ \E L \in Nat, u \in Values : Round(L, u))
    BY DEF MutexInv
  <2>4. QED BY <1>2, <2>1, <2>2, <2>3
<1>7. MutexInv'
  BY <1>4, <1>5, <1>6 DEF MutexNext
<1>8. QED BY <1>2, <1>7

\* The inductive invariant of sequential use of the mutex: all that is under way or
\* recorded belongs to the round of the last call, or is older.
THEOREM MutexInvCorrect == MutexSequentialSpec => []MutexInv
BY MutexInvInit, MutexInvStep, PTL DEF MutexSequentialSpec

-----------------------------------------------------------------------------
(***************************************************************************)
(* The properties.                                                         *)
(***************************************************************************)
LEMMA QuietMeansConverged == MutexInv => SequentialUseConverges
<1> SUFFICES ASSUME MutexInv, Quiet PROVE \A r, q \in Agents : own[q].val = own[r].val
  BY DEF SequentialUseConverges
<1>1. CASE Untouched
  BY <1>1, UntouchedVariable
<1>2. ASSUME AgesHeard, NEW L \in Nat, NEW u \in Values, Round(L, u)
      PROVE  \A r \in Agents : own[r].val = u
  BY <1>2, QuietRound DEF MutexInv
<1>3. QED BY <1>1, <1>2 DEF MutexInv

\* When all that a call caused is over, and packets were repeated, doubled and
\* reordered, but not lost, every robot's store holds the same value: doVariableUpdate
\* passes over nothing of the last call, because its stamps (distributeValue, the tick
\* of handleCaceAcknowledge) are later than all that was recorded before.
THEOREM MutexConverges == MutexSequentialSpec => []SequentialUseConverges
BY QuietMeansConverged, MutexInvCorrect, PTL

\* A robot that has a proposal of every other robot has as many as isAcknowledged and
\* isOwner ask for.
LEMMA EnoughProposals ==
  ASSUME SafetyInv, NEW r \in Agents,
         \A q \in Others(r) : \E k \in DOMAIN proposals[r] : proposals[r][k].id = q
  PROVE  Len(proposals[r]) >= Cardinality(Others(r))
<1> SUFFICES ASSUME ~(Len(proposals[r]) >= Cardinality(Others(r)))
             PROVE  FALSE
  OBVIOUS
<1> DEFINE n == Len(proposals[r])
           S == 1..n
           T == Others(r)
           f == [q \in T |-> CHOOSE k \in S : proposals[r][k].id = q]
<1>1. n \in Nat /\ DOMAIN proposals[r] = S
  BY LenProperties DEF SafetyInv, TypeInv, TypeOK
<1>2. IsFiniteSet(T) /\ Cardinality(T) \in Nat
  BY FS_Subset, FS_CardinalityType DEF Others
<1>3. IsFiniteSet(S) /\ Cardinality(S) = n
  <2>1. n \in Int /\ 1 \in Int /\ (1 > n => n = 0) /\ n - 1 + 1 = n
    BY <1>1
  <2>2. IsFiniteSet(1..n) /\ Cardinality(1..n) = IF 1 > n THEN 0 ELSE n - 1 + 1
    BY ONLY <2>1, FS_Interval
  <2>3. QED BY ONLY <2>1, <2>2
<1>4. \A q \in T : f[q] \in S /\ proposals[r][f[q]].id = q
  BY <1>1
<1>5. f \in [T -> S]
  BY <1>4
<1>6. \A x, y \in T : f[x] = f[y] => x = y
  BY <1>4
<1>7. Cardinality(S) < Cardinality(T)
  BY <1>1, <1>2, <1>3
<1> HIDE DEF f, S, T
<1>8. \E x, y \in T : x # y /\ f[x] = f[y]
  BY <1>2, <1>3, <1>5, <1>7, FS_PigeonHole
<1>9. QED BY <1>6, <1>8

\* When all is quiet every robot has the proposal of the round from every other robot.
LEMMA QuietProposals ==
  ASSUME SafetyInv, FullTeam, AgesHeard, NEW L \in Nat, NEW u \in Values, Round(L, u), Quiet,
         NEW r \in Agents
  PROVE  /\ Len(proposals[r]) >= Cardinality(activeRobots[r])
         /\ \A k \in DOMAIN proposals[r] : proposals[r][k].val = u /\ proposals[r][k].age >= L
<1>1. \A q \in Others(r) : Heeds(L, r, q)
  BY QuietRound
<1>2. activeRobots[r] = Others(r) /\ Len(proposals[r]) >= Cardinality(Others(r))
  BY <1>1, EnoughProposals DEF FullTeam, Heeds
<1>3. ASSUME NEW k \in DOMAIN proposals[r]
      PROVE  proposals[r][k].val = u /\ proposals[r][k].age >= L
  <2>1. proposals[r][k] \in Believe(Agents) /\ proposals[r][k].id # r
    BY ListedProposal DEF SafetyInv, TrueVariables, TrueVariable, TrueProposal
  <2>2. proposals[r][k].id \in Others(r) /\ proposals[r][k].age \in Nat
    BY <2>1 DEF Others, Believe
  <2>3. PICK l \in DOMAIN proposals[r] :
          proposals[r][l].id = proposals[r][k].id /\ proposals[r][l].age >= L
    BY <1>1, <2>2 DEF Heeds
  <2>4. l = k
    BY <2>3, TrueMeansUsed DEF OneOfEach
  <2>5. proposals[r][k].val = u \/ proposals[r][k].age < L
    BY DEF Round, RoundVariables, RoundVariable
  <2>6. QED BY <2>2, <2>3, <2>4, <2>5
<1>4. QED BY <1>2, <1>3

\* The last round, once there was a call.
LEMMA SomeRound ==
  ASSUME MutexInv, ~Untouched
  PROVE  SafetyInv /\ FullTeam /\ AgesHeard /\ \E L \in Nat, u \in Values : Round(L, u)
BY DEF MutexInv

\* A mutex that is not free when all is quiet: the robot it names owns it, in every
\* robot's store.
NamedRobotIsOwner ==
  Quiet => \A r \in Agents : own[r].val # Free => own[r].val \in Agents /\ isOwner(own[r].val, own[r].val)

LEMMA QuietOwner == MutexInv => NamedRobotIsOwner
<1> SUFFICES ASSUME MutexInv, Quiet, NEW r \in Agents, own[r].val # Free
             PROVE  own[r].val \in Agents /\ isOwner(own[r].val, own[r].val)
  BY DEF NamedRobotIsOwner
<1>1. ~Untouched
  BY UntouchedVariable
<1>2. PICK L \in Nat, u \in Values : Round(L, u) /\ SafetyInv /\ FullTeam /\ AgesHeard
  BY <1>1, SomeRound
<1>3. \A q \in Agents : own[q].val = u
  BY <1>2, QuietRound
<1>4. u \in Agents /\ own[r].val = u
  BY <1>3
<1>5. /\ own[u].val = u /\ Len(proposals[u]) >= Cardinality(activeRobots[u])
      /\ \A k \in DOMAIN proposals[u] : proposals[u][k].val = u
  <2>1. PICK q \in Agents : q = u
    BY <1>4
  <2>2. /\ Len(proposals[q]) >= Cardinality(activeRobots[q])
        /\ \A k \in DOMAIN proposals[q] : proposals[q][k].val = u
    BY <1>2, QuietProposals
  <2>3. QED BY <1>3, <2>1, <2>2
<1>6. isOwner(u, u)
  BY <1>5 DEF isOwner
<1>7. QED BY <1>4, <1>6

\* In any team, under sequential use and when all is quiet, a mutex that is not free is
\* owned by the robot it names (isOwner), whoever looks: pNoBlock has succeeded when
\* all it caused is over.
THEOREM NamedRobotOwns == MutexSequentialSpec => []NamedRobotIsOwner
BY QuietOwner, MutexInvCorrect, PTL

LEMMA QuietUsable ==
  ASSUME Cardinality(Agents) \in {1, 2}
  PROVE  MutexInv => MutexIsUsable
<1> SUFFICES ASSUME MutexInv, Quiet, commands > 0
             PROVE  \/ \E r \in Agents : isOwner(r, r)
                    \/ \E r \in Agents : isFree(r) /\ isAcknowledged(own[r], proposals[r], activeRobots[r])
  BY DEF MutexIsUsable
<1>1. ~Untouched
  BY DEF Untouched
<1>2. PICK L \in Nat, u \in Values : Round(L, u) /\ SafetyInv /\ FullTeam /\ AgesHeard
  BY <1>1, SomeRound
<1>a. Agents # {}
  <2>1. Cardinality({}) = 0 /\ ~(0 \in {1, 2})
    BY FS_EmptySet
  <2>2. QED BY <2>1
<1>3. PICK r \in Agents : TRUE
  BY <1>a
<1>4. \A q \in Agents : own[q].val = u
  BY <1>2, QuietRound
<1>5. CASE u \in Agents
  BY <1>3, <1>4, <1>5, FreeIsNobody, QuietOwner DEF NamedRobotIsOwner
<1>6. CASE u = Free
  <2>1. /\ own[r].val = Free /\ Len(proposals[r]) >= Cardinality(activeRobots[r])
        /\ \A k \in DOMAIN proposals[r] : proposals[r][k].val = Free /\ proposals[r][k].age >= L
    BY <1>2, <1>4, <1>6, QuietProposals
  <2>2. isFree(r)
    BY <2>1 DEF isFree
  <2>3. own[r].age \in Nat /\ \A k \in DOMAIN proposals[r] : proposals[r][k].age \in Nat
    BY <1>2, ListedProposal DEF SafetyInv, TypeInv, TypeOK, Believe
\* There is only one other robot.
  <2>4. \A k, l \in DOMAIN proposals[r] : k = l
    <3> SUFFICES ASSUME NEW k \in DOMAIN proposals[r], NEW l \in DOMAIN proposals[r]
                 PROVE  k = l
      OBVIOUS
    <3>1. ASSUME NEW i \in DOMAIN proposals[r] PROVE proposals[r][i].id \in Others(r)
      <4>1. proposals[r][i] \in Believe(Agents) /\ proposals[r][i].id # r
        BY <1>2, <3>1, ListedProposal DEF SafetyInv, TrueVariables, TrueVariable, TrueProposal
      <4>2. QED BY <4>1 DEF Others, Believe
    <3>2. IsFiniteSet(Others(r)) /\ Cardinality(Others(r)) = Cardinality(Agents) - 1
      BY FS_RemoveElement DEF Others
    <3>3. Cardinality(Others(r)) = 0 \/ Cardinality(Others(r)) = 1
      BY <3>2
    <3>4. proposals[r][k].id = proposals[r][l].id
      <4>1. CASE Cardinality(Others(r)) = 0
        <5>1. Others(r) = {}
          BY <3>2, <4>1, FS_EmptySet
        <5>2. QED BY <3>1, <5>1
      <4>2. CASE Cardinality(Others(r)) = 1
        <5>1. PICK x : Others(r) = {x}
          BY <3>2, <4>2, FS_Singleton
        <5>2. QED BY <3>1, <5>1
      <4>3. QED BY <3>3, <4>1, <4>2
    <3>5. QED BY <1>2, <3>4, TrueMeansUsed DEF OneOfEach
  <2>5. own[r].age <= L \/ \E k \in DOMAIN proposals[r] : proposals[r][k].age >= own[r].age
    BY <1>2 DEF Round, RoundVariables, RoundVariable
  <2>6. \A k \in DOMAIN proposals[r] : ~(own[r].age > proposals[r][k].age)
    BY <2>1, <2>3, <2>4, <2>5
  <2>7. isAcknowledged(own[r], proposals[r], activeRobots[r])
    BY <2>1, <2>6 DEF isAcknowledged
  <2>8. QED BY <2>2, <2>7
<1>7. QED BY <1>5, <1>6

\* Two robots never lose the mutex under sequential use: when all is quiet one owns it,
\* or it is free and one can claim it (pNoBlock asks isAcknowledged first).
THEOREM MutexStaysUsable ==
  ASSUME Cardinality(Agents) \in {1, 2}
  PROVE  MutexSequentialSpec => []MutexIsUsable
BY QuietUsable, MutexInvCorrect, PTL

\* Only the robot that a round names can take itself for the owner.
LEMMA OwnerIsNamed ==
  ASSUME MutexInv, NEW r \in Agents, isOwner(r, r)
  PROVE  ~Untouched /\ \A L \in Nat, u \in Values : Round(L, u) => u = r
<1>1. own[r].val = r
  BY DEF isOwner
<1>2. ~Untouched
  BY <1>1, UntouchedVariable, FreeIsNobody
<1>3. ASSUME NEW L \in Nat, NEW u \in Values, Round(L, u) PROVE u = r
  BY <1>1, <1>3 DEF Round, RoundVariables, RoundVariable, Behind
<1>4. QED BY <1>2, <1>3

\* Under sequential use two robots never take themselves for the owner of the mutex
\* (isOwner), not even while packets of the last call are under way, and not without
\* strict either: a robot that has not heard of the last call yet does not hold its own
\* id.  (With claims that race two robots may: MCMutexViolated.)
THEOREM ExclusiveInSequence == MutexSequentialSpec => []MutualExclusion
<1>1. MutexInv => MutualExclusion
  <2> SUFFICES ASSUME MutexInv, NEW r \in Agents, NEW q \in Agents, isOwner(r, r), isOwner(q, q)
               PROVE  r = q
    BY DEF MutualExclusion
  <2>1. PICK L \in Nat, u \in Values : Round(L, u)
    BY OwnerIsNamed, SomeRound
  <2>2. u = r /\ u = q
    BY <2>1, OwnerIsNamed
  <2>3. QED BY <2>2
<1>2. QED BY <1>1, MutexInvCorrect, PTL

\* What isOwner looks at is as it was, or brings the same value.
LEMMA OwnerStays ==
  ASSUME SafetyInv, SafetyInv', Grows, NEW r \in Agents, isOwner(r, r),
         activeRobots'[r] = activeRobots[r], own'[r].val = r,
         \A k \in DOMAIN proposals'[r] :
           \/ k \in DOMAIN proposals[r] /\ proposals'[r][k] = proposals[r][k]
           \/ proposals'[r][k].val = r
  PROVE  isOwner(r, r)'
<1>1. Len(proposals'[r]) >= Cardinality(activeRobots'[r])
  <2>1. /\ DOMAIN proposals[r] = 1..Len(proposals[r]) /\ Len(proposals[r]) \in Nat
        /\ DOMAIN proposals'[r] = 1..Len(proposals'[r]) /\ Len(proposals'[r]) \in Nat
    BY LenProperties DEF SafetyInv, TypeInv, TypeOK
  <2>2. DOMAIN proposals[r] \subseteq DOMAIN proposals'[r]
    BY DEF Grows, ProposalsGrow
  <2>3. Len(proposals[r]) <= Len(proposals'[r])
    BY <2>1, <2>2
  <2>4. Cardinality(activeRobots[r]) \in Nat
    <3>1. activeRobots[r] \in SUBSET Agents
      BY DEF SafetyInv, TypeInv, TypeOK
    <3>2. QED BY <3>1, FS_Subset, FS_CardinalityType
  <2>5. Len(proposals[r]) >= Cardinality(activeRobots[r])
    BY DEF isOwner
  <2>6. QED BY <2>1, <2>3, <2>4, <2>5
<1>2. \A k \in DOMAIN proposals'[r] :
        proposals'[r][k].val = r \/ (~Strict /\ proposals'[r][k].val \notin activeRobots'[r])
  BY DEF isOwner
<1>3. QED BY <1>1, <1>2 DEF isOwner

LEMMA OwnerStepsDown ==
  ASSUME MutexInv, [MutexNext /\ (commands' # commands => Quiet)]_vars,
         NEW r \in Agents, isOwner(r, r), ~isOwner(r, r)'
  PROVE  own'[r].val = Free /\ commands' # commands
<1>1. SafetyInv /\ TypeInv /\ SafetyInv' /\ Grows
  BY MutexInvStep DEF MutexInv, SafetyInv
<1>2. PICK L \in Nat, u \in Values : Round(L, u)
  BY OwnerIsNamed, SomeRound
<1>3. u = r /\ own[r].val = r
  BY <1>2, OwnerIsNamed DEF isOwner
<1>4. ASSUME RoundStep(L, u) PROVE FALSE
  <2>1. own'[r].val = r /\ activeRobots'[r] = activeRobots[r]
    BY <1>3, <1>4, ValueStays DEF RoundStep
  <2>2. \A k \in DOMAIN proposals'[r] :
          \/ k \in DOMAIN proposals[r] /\ proposals'[r][k] = proposals[r][k]
          \/ proposals'[r][k].val = r
    BY <1>3, <1>4 DEF RoundStep, Stored
  <2>3. QED BY <1>1, <2>1, <2>2, OwnerStays
<1>5. ASSUME NEW w \in Agents, pNoBlock(w) \/ v(w) \/ distributeVariable(w),
             own'[r] = own[r]
      PROVE  FALSE
  <2>1. UNCHANGED <<proposals, activeRobots>>
    BY <1>5 DEF pNoBlock, v, distributeMutex, distributeValue, distributeVariable, KeepVariable
  <2>2. QED BY <1>1, <1>3, <1>5, <2>1, OwnerStays
<1>6. ASSUME NEW w \in Agents, pNoBlock(w) \/ v(w) \/ distributeVariable(w)
      PROVE  own'[r].val = Free /\ commands' # commands
  <2>1. commands' # commands /\ own \in [Agents -> Believe(Agents)]
    BY <1>1, <1>6, CallsCount DEF TypeInv, TypeOK
  <2>2. ASSUME NEW x \in Values, distributeMutex(w, x)
        PROVE  own'[w].val = x /\ \A q \in Others(w) : own'[q] = own[q]
    <3>1. PICK t \in DecissionTimes : distributeValue(w, x, ThreeWayHandShake, t)
      BY <2>2 DEF distributeMutex
    <3>2. PICK b : b = [id |-> w, val |-> x, age |-> clock[w], strat |-> ThreeWayHandShake, dec |-> t]
      OBVIOUS
    <3>3. own' = [own EXCEPT ![w] = b] /\ b.val = x
      BY <3>1, <3>2 DEF distributeValue
    <3>4. QED BY <2>1, <3>3 DEF Others
  <2>3. CASE pNoBlock(w)
    <3>1. own[w].val = Free /\ distributeMutex(w, w)
      BY <2>3 DEF pNoBlock, isFree
    <3>2. r \in Others(w)
      BY <1>3, <3>1, FreeIsNobody DEF Others
    <3>3. own'[r] = own[r]
      BY <2>2, <3>1, <3>2
    <3>4. QED BY <1>5, <2>3, <3>3
  <2>4. CASE v(w)
    <3>1. distributeMutex(w, Free)
      BY <2>4 DEF v
    <3>2. CASE w = r
      BY <2>1, <2>2, <3>1, <3>2, FreeIsNobody
    <3>3. CASE w # r
      <4>1. own'[r] = own[r]
        BY <2>2, <3>1, <3>3, FreeIsNobody DEF Others
      <4>2. QED BY <1>5, <2>4, <4>1
    <3>4. QED BY <3>2, <3>3
  <2>5. CASE distributeVariable(w)
    <3>1. own'[r] = own[r]
      BY <2>5 DEF distributeVariable, KeepVariable
    <3>2. QED BY <1>5, <2>5, <3>1
  <2>6. QED BY <1>6, <2>3, <2>4, <2>5
<1>7. ASSUME NEW q \in Agents,
             (\E m \in net[q] : Handle(q, m)) \/ (\E i \in DOMAIN jobs[q] : Process(q, i))
      PROVE  FALSE
  BY <1>1, <1>2, <1>4, <1>7, HandledInRound
<1>8. CASE UNCHANGED vars
  BY <1>4, <1>8, StutterInRound
<1>9. QED BY <1>6, <1>7, <1>8 DEF MutexNext

\* Under sequential use nobody takes the critical section from its owner: a packet of an
\* earlier call that comes late or twice does not (doVariableUpdate), and no call of
\* another robot does; only the owner's own v ends its ownership.
THEOREM OwnersKeepSection == MutexSequentialSpec => OwnerKeepsSection
<1>1. MutexInv /\ [MutexNext /\ (commands' # commands => Quiet)]_vars =>
        [\A r \in Agents :
           isOwner(r, r) /\ ~isOwner(r, r)' => own'[r].val = Free /\ commands' # commands]_vars
  BY OwnerStepsDown
<1>2. QED BY <1>1, MutexInvCorrect, PTL DEF MutexSequentialSpec, OwnerKeepsSection
=============================================================================
