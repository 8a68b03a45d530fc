--------------------------- MODULE ElectionProofs ---------------------------
(***************************************************************************)
(* Elections in which the whole team takes part: the winner has the        *)
(* highest bet, and a vote is its robot's own.  For any mix of the         *)
(* election strategies, any retries, repetitions and duplicates, and with  *)
(* any robots in safeStepMode.                                             *)
(*                                                                         *)
(* A robot in an election keeps its own vote whatever it hears             *)
(* (acceptElection), so a vote changes only when its robot bids.  A bid    *)
(* keeps the clock as its age and is sent with the next tick: whatever is  *)
(* stamped after the last bid of a robot brings the vote the robot has     *)
(* now, and such a packet is never passed over for an older one.  The      *)
(* inductive invariant says so of all that is under way or recorded, and   *)
(* that each robot has recorded a vote that late of every robot that has   *)
(* bid, or will.                                                           *)
(***************************************************************************)
EXTENDS Election, CaceSafetyProofs

USE AgentsAssumption, LevelsAssumption, TimesAssumption, BoundsAssumption, ModesAssumption,
    ValuesAssumption, LongMaxAssumption, BetsAssumption

-----------------------------------------------------------------------------
(***************************************************************************)
(* The inductive invariant.                                                *)
(***************************************************************************)
\* What is stamped after the last bid of robot q brings the vote of q.
Speaks(q, stamp, val) == stamp > own[q].age => val = own[q].val

\* The strategies of the elections, and whether one of them is acknowledged.
Elections == Levels \cap ElectionStrategies
Acknowledged == \E s \in Levels : s > FireAndForget

\* An acknowledge answers the command of another robot, which has the variable.
VotePacket(m) ==
  /\ m.kind \in {"Command", "Acknowledge"} => Speaks(m.from, m.stamp, m.val)
  /\ m.kind = "Command" => m.level \in Elections
  /\ m.kind = "Acknowledge" => Acknowledged /\ \E x \in Others(m.from) : existsVariable(x)

VoteJob(r, j) ==
  /\ j.kind = "CommandJob" => Speaks(r, j.stamp, j.val)
  /\ j.kind = "CommandAcknowledgeJob" =>
       VotePacket(j.cmd) /\ (j.cmd.level > FireAndForget \/ DOMAIN j.retrys = {})
  /\ j.kind = "ShortAckJob" => VotePacket(j.ack)

VoteVariable(r) ==
  /\ own[r].id = r
  /\ existsVariable(r) <=> IsElection(r)
  /\ existsVariable(r) => own[r].strat \in Elections
  /\ \A x \in held[r] : x # NoValue => existsVariable(r)
  /\ \A k \in DOMAIN proposals[r] :
       Speaks(proposals[r][k].id, proposals[r][k].age, proposals[r][k].val)

\* Robot q has never bid.
Silent(q) == held[q] \subseteq {MinBet, NoValue}

\* Robot r has recorded the vote of q.
HeardVote(r, q) ==
  \E k \in DOMAIN proposals[r] : proposals[r][k].id = q /\ proposals[r][k].age > own[q].age

\* Robot r will record it.
WillHear(r, q) == \E n \in Waiting(r) : n.from = q /\ n.stamp > own[q].age

VotePackets == \A r \in Agents : \A m \in net[r] : VotePacket(m)
VoteJobs == \A r \in Agents : \A i \in DOMAIN jobs[r] : VoteJob(r, jobs[r][i])
VoteVariables == \A r \in Agents : VoteVariable(r)
AllVotesHeard ==
  \A r \in Agents : \A q \in Others(r) : Silent(q) \/ HeardVote(r, q) \/ WillHear(r, q)

ElectionInv == SafetyInv /\ VotePackets /\ VoteJobs /\ VoteVariables /\ AllVotesHeard

\* No robot hears of the election from an acknowledge: when it comes to one it has
\* the variable.
KnownBeforeAnswered ==
  \A r \in Agents : \A n \in Waiting(r) : n.kind = "Acknowledge" => existsVariable(r)

-----------------------------------------------------------------------------
(***************************************************************************)
(* doVariableUpdate in an election.                                        *)
(***************************************************************************)
\* acceptElection keeps the own believe.
LEMMA AcceptElection ==
  ASSUME NEW b, b.strat \in ElectionStrategies, NEW props \in Seq(Valued)
  PROVE  AcceptProposals(b, props) = {b}
<1>1. Len(props) \in Nat
  BY LenProperties
<1>2. \A x, y : Keeps(b.strat, x, y)
  BY DEF Keeps
<1>3. \A w \in 0..Len(props) : IsWinner(b, props, w) <=> w = 0
  <2>1. IsWinner(b, props, 0)
    BY <1>1, <1>2 DEF IsWinner
  <2>2. ASSUME NEW w \in 0..Len(props), w # 0 PROVE ~IsWinner(b, props, w)
    <3>1. 0 \in 0..(w - 1)
      BY <1>1, <2>2
    <3>2. QED BY <1>2, <3>1 DEF IsWinner
  <2>3. QED BY <2>1, <2>2
<1>4. {u \in 0..Len(props) : IsWinner(b, props, u)} = {0}
  BY <1>1, <1>3
<1>5. QED BY <1>4 DEF AcceptProposals

\* The own believe stays.
KeepsVote(r) == own'[r] = own[r] /\ held'[r] \subseteq held[r] \cup {own[r].val}

\* A robot that hears of an election it has no bet in votes MinBet.
FirstVote(r) ==
  /\ ~existsVariable(r)
  /\ own'[r].id = r /\ own'[r].val = MinBet /\ own'[r].strat \in Elections
  /\ held'[r] = held[r] \cup {MinBet}

\* Its user bids, and the bet goes out to all with the next tick.
Bids(r) ==
  /\ own'[r].id = r /\ own'[r].val \in Values /\ own'[r].strat \in Elections
  /\ own'[r].age = clock[r]
  /\ held'[r] = held[r] \cup {own'[r].val}
  /\ commands' # commands
  /\ \A q \in Others(r) : \E n \in Waiting(q)' : n.from = r /\ n.stamp > clock[r]

\* What waited for robot r is recorded.
Recorded(r, n) ==
  \E k \in DOMAIN proposals[r] : proposals[r][k].id = n.from /\ proposals[r][k].age >= n.stamp

VoteUpdated(r, m) ==
  /\ KeepsVote(r) \/ FirstVote(r)
  /\ \A k \in DOMAIN proposals'[r] :
       (k \in DOMAIN proposals[r] /\ proposals'[r][k] = proposals[r][k]) \/ Brought(m, proposals'[r][k])
  /\ Recorded(r, m)'
  /\ \A q \in Agents \ {r} :
       own'[q] = own[q] /\ proposals'[q] = proposals[q] /\ held'[q] = held[q]

LEMMA UpdateVotes ==
  ASSUME SafetyInv, NEW r \in Agents, VoteVariable(r), NEW m \in Message,
         NEW created, NEW props \in Seq(Valued), props # <<>>, BroughtProposals(r, m, props),
         DoVariableUpdate(r, created, props),
         \/ existsVariable(r)
         \/ created.id = r /\ created.val = MinBet /\ created.strat \in Elections
  PROVE  VoteUpdated(r, m)
<1>1. /\ TypeInv /\ OneOfEach(r) /\ own \in [Agents -> Believe(Agents)]
      /\ proposals \in [Agents -> Seq(Believe(Agents))]
      /\ held \in [Agents -> SUBSET (AnyValue \cup {NoValue})]
  BY TrueMeansUsed DEF SafetyInv, TypeInv, TypeOK
<1>2. PICK b \in IF props = proposals[r] THEN {own[r]}
                 ELSE AcceptProposals(OwnBefore(r, created), props) :
         /\ own' = [own EXCEPT ![r] = b] /\ proposals' = [proposals EXCEPT ![r] = props]
         /\ held' = [held EXCEPT ![r] = @ \cup {b.val}]
  BY DEF DoVariableUpdate
<1>3. own'[r] = b /\ proposals'[r] = props /\ held'[r] = held[r] \cup {b.val}
  BY <1>1, <1>2
<1>4. \A q \in Agents \ {r} :
        own'[q] = own[q] /\ proposals'[q] = proposals[q] /\ held'[q] = held[q]
  BY <1>1, <1>2
<1>5. \A k \in DOMAIN props :
        (k \in DOMAIN proposals[r] /\ props[k] = proposals[r][k]) \/ Brought(m, props[k])
  BY <1>1, RenewedProposals
<1>6. Recorded(r, m)'
  BY <1>1, <1>3, SenderProposed DEF Recorded
<1>7. CASE existsVariable(r)
  <2>1. OwnBefore(r, created) = own[r] /\ own[r].strat \in ElectionStrategies
    BY <1>7 DEF OwnBefore, VoteVariable, Elections
  <2>2. b = own[r]
    BY <1>2, <2>1, AcceptElection
  <2>3. KeepsVote(r)
    BY <1>3, <2>2 DEF KeepsVote
  <2>4. QED BY <1>3, <1>4, <1>5, <1>6, <2>3 DEF VoteUpdated
<1>8. CASE ~existsVariable(r)
  <2>1. props # proposals[r]
    BY <1>1, <1>8 DEF TypeInv, HasValues
  <2>2. OwnBefore(r, created) = created
    BY <1>8 DEF OwnBefore
  <2>3. b = created
    BY <1>2, <1>8, <2>1, <2>2, AcceptElection DEF Elections
  <2>4. FirstVote(r)
    BY <1>3, <1>8, <2>3 DEF FirstVote
  <2>5. QED BY <1>3, <1>4, <1>5, <1>6, <2>4 DEF VoteUpdated
<1>9. QED BY <1>7, <1>8

LEMMA CommandVotes ==
  ASSUME SafetyInv, NEW r \in Agents, VoteVariable(r), NEW m \in Message, m.kind = "Command",
         m.level \in Elections, m.level \in UsedStrategies, UpdateByCommand(r, m)
  PROVE  VoteUpdated(r, m)
<1>1. TypeInv /\ UsedVariable(r)
  BY TrueMeansUsed DEF SafetyInv
<1>2. PICK props, created : props = ProposalsAfterCommand(r, m) /\ created = CreatedByCommand(r, m)
  OBVIOUS
<1>3. props \in Seq(Valued) /\ props # <<>> /\ BroughtProposals(r, m, props)
  BY <1>1, <1>2, NewProposals, ProposalsBrought
<1>4. created.id = r /\ created.val = MinBet /\ created.strat \in Elections
  BY <1>2 DEF CreatedByCommand, Elections
<1>5. DoVariableUpdate(r, created, props)
  BY <1>2 DEF UpdateByCommand
<1>6. QED BY <1>3, <1>4, <1>5, UpdateVotes

LEMMA AckVotes ==
  ASSUME SafetyInv, NEW r \in Agents, VoteVariable(r), existsVariable(r),
         NEW m \in Message, m.kind = "Acknowledge", UpdateByAck(r, m)
  PROVE  VoteUpdated(r, m)
<1>1. TypeInv /\ UsedVariable(r)
  BY TrueMeansUsed DEF SafetyInv
<1>2. PICK props : props = ProposalsAfterAck(r, m)
  OBVIOUS
<1>3. props \in Seq(Valued) /\ props # <<>> /\ BroughtProposals(r, m, props)
  BY <1>1, <1>2, NewProposals, ProposalsBrought
<1>4. DoVariableUpdate(r, CreatedByAck(r, m), props)
  BY <1>2 DEF UpdateByAck
<1>5. QED BY <1>3, <1>4, UpdateVotes

-----------------------------------------------------------------------------
(***************************************************************************)
(* A step of robot w in an election.                                       *)
(***************************************************************************)
VoteStep(w) ==
  /\ \A q \in Agents \ {w} : own'[q] = own[q] /\ held'[q] = held[q]
  /\ KeepsVote(w) \/ FirstVote(w) \/ Bids(w)
  /\ \A q \in Agents : \A n \in net'[q] : n \in net[q] \/ VotePacket(n)'
  /\ \A q \in Agents : \A i \in DOMAIN jobs'[q] :
       (\E l \in DOMAIN jobs[q] : jobs'[q][i] = jobs[q][l]) \/ VoteJob(q, jobs[q][i])'
  /\ \A q \in Agents : \A k \in DOMAIN proposals'[q] :
       \/ k \in DOMAIN proposals[q] /\ proposals'[q][k] = proposals[q][k]
       \/ \E n \in Waiting(q) : Brought(n, proposals'[q][k])
  /\ \A q \in Agents : \A n \in Waiting(q) : n \in Waiting(q)' \/ Recorded(q, n)'

\* A robot that has the variable goes on having it.
LEMMA ExistsStays ==
  ASSUME NEW w \in Agents, VoteStep(w), NEW q \in Agents, existsVariable(q)
  PROVE  existsVariable(q)'
BY DEF VoteStep, KeepsVote, FirstVote, Bids, existsVariable

\* What a robot has said of its vote remains true, or is older than its new bid.
LEMMA SpeaksStays ==
  ASSUME SafetyInv, VoteVariables, NEW w \in Agents, VoteStep(w), NEW q \in Agents,
         NEW stamp \in Nat, stamp <= clock[q], NEW val \in held[q], val # NoValue,
         Speaks(q, stamp, val)
  PROVE  Speaks(q, stamp, val)'
<1>1. clock[q] \in Nat /\ existsVariable(q)
  BY DEF SafetyInv, TypeInv, TypeOK, VoteVariables, VoteVariable
<1>2. CASE own'[q] = own[q]
  BY <1>2 DEF Speaks
<1>3. CASE Bids(q)
  BY <1>1, <1>3 DEF Bids, Speaks
<1>4. QED BY <1>1, <1>2, <1>3 DEF VoteStep, KeepsVote, FirstVote

LEMMA VotePacketStays ==
  ASSUME SafetyInv, VoteVariables, NEW w \in Agents, VoteStep(w), NEW m \in Message,
         TruePacket(m), VotePacket(m)
  PROVE  VotePacket(m)'
<1>1. m.from \in Agents /\ m.stamp \in Nat /\ (m.kind \in {"Command", "Acknowledge"} => m.val \in AnyValue)
  BY MessageFields
<1>2. m.kind \in {"Command", "Acknowledge"} => Speaks(m.from, m.stamp, m.val)'
  <2> SUFFICES ASSUME m.kind \in {"Command", "Acknowledge"}
               PROVE  Speaks(m.from, m.stamp, m.val)'
    OBVIOUS
  <2>1. m.val # NoValue /\ m.val \in held[m.from] /\ m.stamp <= clock[m.from]
        /\ Speaks(m.from, m.stamp, m.val)
    BY <1>1 DEF AnyValue, TruePacket, VotePacket
  <2>2. PICK q \in Agents, stamp \in Nat : q = m.from /\ stamp = m.stamp
    BY <1>1
  <2>3. Speaks(q, stamp, m.val)'
    BY <2>1, <2>2, SpeaksStays
  <2>4. QED BY <2>2, <2>3 DEF Speaks
<1>3. m.kind = "Acknowledge" => Acknowledged /\ \E x \in Others(m.from) : existsVariable(x)'
  <2>1. ASSUME NEW x \in Others(m.from), existsVariable(x) PROVE existsVariable(x)'
    BY <2>1, ExistsStays DEF Others
  <2>2. QED BY <2>1 DEF VotePacket
<1>4. QED BY <1>2, <1>3 DEF VotePacket, Acknowledged

\* What waits is true of its sender, and of its vote.
LEMMA WaitingVotes ==
  ASSUME SafetyInv, VotePackets, VoteJobs, NEW r \in Agents, NEW n \in Waiting(r)
  PROVE  n \in Message /\ TruePacket(n) /\ VotePacket(n)
<1>1. n \in Message
  BY WaitingFields
<1>2. CASE n \in net[r]
  BY <1>1, <1>2, PacketRead DEF VotePackets
<1>3. ASSUME NEW i \in DOMAIN jobs[r],
             \/ jobs[r][i].kind = "CommandAcknowledgeJob" /\ n = jobs[r][i].cmd
             \/ jobs[r][i].kind = "ShortAckJob" /\ n = jobs[r][i].ack
      PROVE  TruePacket(n) /\ VotePacket(n)
  <2>1. TrueJob(r, jobs[r][i]) /\ VoteJob(r, jobs[r][i])
    BY DEF SafetyInv, TrueJobs, VoteJobs
  <2>2. CASE jobs[r][i].kind = "CommandAcknowledgeJob" /\ n = jobs[r][i].cmd
    BY <2>1, <2>2 DEF TrueJob, Taken, VoteJob
  <2>3. CASE jobs[r][i].kind = "ShortAckJob" /\ n = jobs[r][i].ack
    BY <2>1, <2>3 DEF TrueJob, Taken, VoteJob
  <2>4. QED BY <1>3, <2>2, <2>3
<1>4. QED BY <1>1, <1>2, <1>3 DEF Waiting

LEMMA VotePacketsStay ==
  ASSUME SafetyInv, VotePackets, VoteVariables, NEW w \in Agents, VoteStep(w)
  PROVE  VotePackets'
<1> SUFFICES ASSUME NEW q \in Agents, NEW n \in net'[q] PROVE VotePacket(n)'
  BY DEF VotePackets, VotePacket, Speaks, existsVariable
<1>1. CASE n \in net[q]
  BY <1>1, PacketRead, VotePacketStays DEF VotePackets
<1>2. QED BY <1>1 DEF VoteStep

LEMMA VoteJobsStay ==
  ASSUME SafetyInv, VoteJobs, VoteVariables, NEW w \in Agents, VoteStep(w)
  PROVE  VoteJobs'
<1>1. ASSUME NEW q \in Agents, NEW i \in DOMAIN jobs'[q],
             NEW l \in DOMAIN jobs[q], jobs'[q][i] = jobs[q][l]
      PROVE  VoteJob(q, jobs[q][i])'
  <2>a. PICK j : j = jobs[q][l]
    OBVIOUS
  <2>1. j \in Job /\ TrueJob(q, j) /\ VoteJob(q, j)
    BY <2>a, ListedJob DEF SafetyInv, TrueJobs, VoteJobs
  <2>2. j.kind = "CommandJob" => Speaks(q, j.stamp, j.val)'
    <3> SUFFICES ASSUME j.kind = "CommandJob" PROVE Speaks(q, j.stamp, j.val)'
      OBVIOUS
    <3>1. j.stamp \in Nat /\ j.val \in AnyValue
      BY <2>1, JobFields
    <3>2. j.stamp <= clock[q] /\ j.val \in held[q] /\ j.val # NoValue /\ Speaks(q, j.stamp, j.val)
      BY <2>1, <3>1 DEF TrueJob, VoteJob, AnyValue
    <3>3. QED BY <3>1, <3>2, SpeaksStays
  <2>3. j.kind = "CommandAcknowledgeJob" =>
          VotePacket(j.cmd)' /\ (j.cmd.level > FireAndForget \/ DOMAIN j.retrys = {})
    BY <2>1, JobFields, VotePacketStays DEF TrueJob, Taken, VoteJob
  <2>4. j.kind = "ShortAckJob" => VotePacket(j.ack)'
    BY <2>1, JobFields, VotePacketStays DEF TrueJob, Taken, VoteJob
  <2>5. jobs'[q][i] = j
    BY <1>1, <2>a
  <2>6. QED BY <2>2, <2>3, <2>4, <2>5 DEF VoteJob, VotePacket, Speaks
<1>2. QED BY <1>1 DEF VoteStep, VoteJobs

LEMMA VoteVariablesStay ==
  ASSUME SafetyInv, VotePackets, VoteJobs, VoteVariables, NEW w \in Agents, VoteStep(w)
  PROVE  VoteVariables'
<1> SUFFICES ASSUME NEW r \in Agents PROVE VoteVariable(r)'
  BY DEF VoteVariables
<1>1. VoteVariable(r) /\ \A x \in Values : x # NoValue
  BY DEF VoteVariables
<1>2. own'[r].id = r /\ (existsVariable(r)' <=> IsElection(r)')
      /\ (existsVariable(r)' => own'[r].strat \in Elections)
      /\ \A x \in held'[r] : x # NoValue => existsVariable(r)'
  <2>1. CASE own'[r] = own[r] /\ held'[r] \subseteq held[r] \cup {own[r].val}
    BY <1>1, <2>1 DEF VoteVariable, IsElection, existsVariable
  <2>2. CASE FirstVote(r)
    BY <1>1, <2>2 DEF FirstVote, IsElection, existsVariable, Elections
  <2>3. CASE Bids(r)
    BY <1>1, <2>3 DEF Bids, IsElection, existsVariable, Elections
  <2>4. QED BY <2>1, <2>2, <2>3 DEF VoteStep, KeepsVote
<1>3. ASSUME NEW k \in DOMAIN proposals'[r], NEW p, p = proposals'[r][k]
      PROVE  Speaks(p.id, p.age, p.val)'
  <2>1. CASE k \in DOMAIN proposals[r] /\ p = proposals[r][k]
    <3>1. p \in Believe(Agents) /\ p.val # NoValue /\ TrueProposal(r, p)
      BY <2>1, ListedProposal DEF SafetyInv, TypeInv, HasValues, TrueVariables, TrueVariable
    <3>2. p.id \in Agents /\ p.age \in Nat
      BY <3>1 DEF Believe
    <3>3. p.age <= clock[p.id] /\ p.val \in held[p.id] /\ Speaks(p.id, p.age, p.val)
      BY <1>1, <2>1, <3>1 DEF TrueProposal, VoteVariable
    <3>4. PICK q \in Agents, stamp \in Nat : q = p.id /\ stamp = p.age
      BY <3>2
    <3>5. Speaks(q, stamp, p.val)'
      BY <3>1, <3>3, <3>4, SpeaksStays
    <3>6. QED BY <3>4, <3>5 DEF Speaks
  <2>2. ASSUME NEW n \in Waiting(r), Brought(n, p)
        PROVE  Speaks(p.id, p.age, p.val)'
    <3>1. VotePacket(n)' /\ n.kind \in {"Command", "Acknowledge"}
      BY WaitingVotes, WaitingFields, VotePacketStays
    <3>2. Speaks(n.from, n.stamp, n.val)'
      BY <3>1 DEF VotePacket
    <3>3. QED BY <2>2, <3>2 DEF Brought, Speaks
  <2>3. QED BY <1>3, <2>1, <2>2 DEF VoteStep
<1>4. \A k \in DOMAIN proposals'[r] :
        Speaks(proposals[r][k].id, proposals[r][k].age, proposals[r][k].val)'
  BY <1>3 DEF Speaks
<1>5. QED BY <1>2, <1>4 DEF VoteVariable

\* Each vote is still heard, or will be.
LEMMA VotesStillHeard ==
  ASSUME SafetyInv, SafetyInv', Grows, VoteVariables, AllVotesHeard, NEW w \in Agents, VoteStep(w)
  PROVE  AllVotesHeard'
<1> SUFFICES ASSUME NEW r \in Agents, NEW q \in Others(r)
             PROVE  Silent(q)' \/ HeardVote(r, q)' \/ WillHear(r, q)'
  BY DEF AllVotesHeard
<1>1. q \in Agents /\ r \in Others(q) /\ VoteVariable(q) /\ own[q].age \in Nat /\ TypeInv /\ TypeInv'
  BY DEF Others, VoteVariables, SafetyInv, TypeInv, TypeOK, Believe
<1>a. ASSUME NEW k \in DOMAIN proposals'[r] PROVE proposals'[r][k].age \in Nat
  <2>1. proposals'[r] \in Seq(Believe(Agents))
    BY <1>1 DEF TypeInv, TypeOK
  <2>2. proposals'[r][k] \in Believe(Agents)
    BY <2>1, ElementOfSeq, LenProperties
  <2>3. QED BY <2>2 DEF Believe
<1>2. CASE Bids(q)
  <2>1. PICK n \in Waiting(r)' : n.from = q /\ n.stamp > clock[q]
    BY <1>1, <1>2 DEF Bids
  <2>2. QED BY <1>2, <2>1 DEF Bids, WillHear
<1>3. CASE FirstVote(q)
  BY <1>1, <1>3 DEF FirstVote, VoteVariable, Silent
<1>4. CASE own'[q] = own[q] /\ held'[q] \subseteq held[q] \cup {own[q].val}
  <2>1. CASE Silent(q)
    <3>1. own[q].val = NoValue \/ own[q].val \in held[q]
      BY <1>1 DEF SafetyInv, TrueVariables, TrueVariable, existsVariable
    <3>2. QED BY <1>4, <2>1, <3>1 DEF Silent
  <2>2. CASE HeardVote(r, q)
    <3>1. PICK k \in DOMAIN proposals[r] :
            proposals[r][k].id = q /\ proposals[r][k].age > own[q].age
      BY <2>2 DEF HeardVote
    <3>2. k \in DOMAIN proposals'[r] /\ Renewed(proposals[r][k], proposals'[r][k])
      BY DEF Grows, ProposalsGrow
    <3>3. proposals[r][k].age \in Nat /\ proposals'[r][k].age \in Nat
      BY <1>1, <1>a, <3>2, ListedProposal DEF Believe
    <3>4. proposals'[r][k].id = q /\ proposals'[r][k].age > own'[q].age
      BY <1>1, <1>4, <3>1, <3>2, <3>3 DEF Renewed
    <3>5. QED BY <3>2, <3>4 DEF HeardVote
  <2>3. CASE WillHear(r, q)
    <3>1. PICK n \in Waiting(r) : n.from = q /\ n.stamp > own[q].age
      BY <2>3 DEF WillHear
    <3>2. CASE n \in Waiting(r)'
      BY <1>4, <3>1, <3>2 DEF WillHear
    <3>3. CASE Recorded(r, n)'
      <4>1. PICK k \in DOMAIN proposals'[r] :
              proposals'[r][k].id = q /\ proposals'[r][k].age >= n.stamp
        BY <3>1, <3>3 DEF Recorded
      <4>2. proposals'[r][k].age \in Nat /\ n.stamp \in Nat
        BY <1>a, <4>1, WaitingFields
      <4>3. proposals'[r][k].age > own'[q].age
        BY <1>1, <1>4, <3>1, <4>1, <4>2
      <4>4. QED BY <4>1, <4>3 DEF HeardVote
    <3>4. QED BY <3>2, <3>3 DEF VoteStep
  <2>4. QED BY <2>1, <2>2, <2>3 DEF AllVotesHeard
<1>5. QED BY <1>1, <1>2, <1>3, <1>4 DEF VoteStep, KeepsVote

LEMMA ElectionGoesOn ==
  ASSUME ElectionInv, SafetyInv', Grows, NEW w \in Agents, VoteStep(w)
  PROVE  ElectionInv'
BY VotePacketsStay, VoteJobsStay, VoteVariablesStay, VotesStillHeard DEF ElectionInv

-----------------------------------------------------------------------------
(***************************************************************************)
(* One lemma for each action.                                              *)
(***************************************************************************)
\* What a step of robot r must show.
LEMMA OneVoterSteps ==
  ASSUME NEW r \in Agents,
         \A q \in Agents \ {r} :
           own'[q] = own[q] /\ proposals'[q] = proposals[q] /\ held'[q] = held[q] /\ jobs'[q] = jobs[q],
         KeepsVote(r) \/ FirstVote(r) \/ Bids(r),
         NEW taken, PacketsStay(r, taken),
         NEW sent, PacketsFrom(r, sent), \A n \in sent : VotePacket(n)',
         NEW gone, JobsStay(r, gone),
         \A i \in DOMAIN jobs'[r] :
           (\E l \in DOMAIN jobs[r] : jobs'[r][i] = jobs[r][l]) \/ VoteJob(r, jobs[r][i])',
         \A k \in DOMAIN proposals'[r] :
           \/ k \in DOMAIN proposals[r] /\ proposals'[r][k] = proposals[r][k]
           \/ \E n \in Waiting(r) : Brought(n, proposals'[r][k]),
         \A n \in Waiting(r) :
           (n \in taken /\ Addressed(r, n)) \/ (\E j \in gone : HeldBack(j, n))
             => n \in Waiting(r)' \/ Recorded(r, n)'
  PROVE  VoteStep(r)
<1>1. \A q \in Agents : \A n \in net'[q] : n \in net[q] \/ VotePacket(n)'
  BY DEF PacketsFrom
<1>2. \A q \in Agents : \A n \in Waiting(q) : n \in Waiting(q)' \/ Recorded(q, n)'
  <2> SUFFICES ASSUME NEW q \in Agents, NEW n \in Waiting(q), ~(n \in Waiting(q)')
               PROVE  Recorded(q, n)'
    OBVIOUS
  <2>1. q = r /\ ((n \in taken /\ Addressed(r, n)) \/ (\E j \in gone : HeldBack(j, n)))
    BY WaitingStays
  <2>2. QED BY <2>1
<1>3. \A q \in Agents : \A i \in DOMAIN jobs'[q] :
        (\E l \in DOMAIN jobs[q] : jobs'[q][i] = jobs[q][l]) \/ VoteJob(q, jobs[q][i])'
  <2>1. ASSUME NEW q \in Agents, q # r, NEW i \in DOMAIN jobs'[q]
        PROVE  \E l \in DOMAIN jobs[q] : jobs'[q][i] = jobs[q][l]
    BY <2>1
  <2>2. QED BY <2>1
<1>4. \A q \in Agents : \A k \in DOMAIN proposals'[q] :
        \/ k \in DOMAIN proposals[q] /\ proposals'[q][k] = proposals[q][k]
        \/ \E n \in Waiting(q) : Brought(n, proposals'[q][k])
  <2>1. ASSUME NEW q \in Agents, q # r, NEW k \in DOMAIN proposals'[q]
        PROVE  k \in DOMAIN proposals[q] /\ proposals'[q][k] = proposals[q][k]
    BY <2>1
  <2>2. QED BY <2>1
<1>5. QED BY <1>1, <1>2, <1>3, <1>4 DEF VoteStep

\* A step that leaves the variable alone.
LEMMA VariableKept ==
  ASSUME KeepVariable, NEW r \in Agents
  PROVE  /\ KeepsVote(r)
         /\ \A q \in Agents : own'[q] = own[q] /\ proposals'[q] = proposals[q] /\ held'[q] = held[q]
         /\ \A k \in DOMAIN proposals'[r] :
              k \in DOMAIN proposals[r] /\ proposals'[r][k] = proposals[r][k]
BY DEF KeepVariable, KeepsVote

\* A packet that only moves the clock.
LEMMA PacketHeard ==
  ASSUME SafetyInv, NEW r \in Agents, NEW m \in net[r], Receive(r, m, {}), KeepVariable,
         UNCHANGED jobs, ~(Addressed(r, m) /\ m.kind \in {"Command", "Acknowledge"})
  PROVE  VoteStep(r)
<1> DEFINE taken == {m}
           none == {}
<1>1. PacketsStay(r, taken) /\ PacketsFrom(r, none)
  BY ReceiveStays DEF SafetyInv
<1>2. JobsStay(r, none)
  BY DEF JobsStay
<1>3. /\ \A n \in Waiting(r) : ~((n \in taken /\ Addressed(r, n)) \/ (\E j \in none : HeldBack(j, n)))
      /\ \A n \in none : VotePacket(n)'
  BY WaitingFields
<1>4. \A i \in DOMAIN jobs'[r] : \E l \in DOMAIN jobs[r] : jobs'[r][i] = jobs[r][l]
  OBVIOUS
<1> HIDE DEF taken, none
<1>5. QED BY <1>1, <1>2, <1>3, <1>4, VariableKept, OneVoterSteps

LEMMA OverhearVotes ==
  ASSUME SafetyInv, NEW r \in Agents, NEW m \in net[r], Overhear(r, m)
  PROVE  VoteStep(r)
BY PacketHeard DEF Overhear

LEMMA HandleCaceShortAckVotes ==
  ASSUME SafetyInv, NEW r \in Agents, NEW m \in net[r], handleCaceShortAck(r, m)
  PROVE  VoteStep(r)
<1>1. /\ Receive(r, m, {}) /\ KeepVariable /\ UNCHANGED jobs /\ m.kind = "ShortAck"
  BY DEF handleCaceShortAck
<1>2. QED BY <1>1, PacketHeard

\* A robot that has sent a command has the variable.
LEMMA CommanderKnows ==
  ASSUME SafetyInv, VoteVariables, NEW r \in Agents,
         NEW m \in Message, m.kind = "Command", m.from # r, TruePacket(m)
  PROVE  m.from \in Others(r) /\ existsVariable(m.from)
<1>1. m.from \in Agents /\ m.val \in AnyValue /\ m.val # NoValue
  BY MessageFields DEF AnyValue
<1>2. m.val \in held[m.from]
  BY DEF TruePacket
<1>3. QED BY <1>1, <1>2 DEF VoteVariables, VoteVariable, Others

\* An acknowledge brings the vote its robot has after the update.
LEMMA AcknowledgeVotes ==
  ASSUME Acknowledged, NEW r \in Agents,
         NEW x \in Others(r), existsVariable(x), own'[x] = own[x], NEW to, NEW id, NEW c, NEW a, a = CaceAcknowledge(r, to, id, own'[r].val, c)
  PROVE  VotePacket(a)'
<1>1. a.kind = "Acknowledge" /\ a.from = r /\ a.val = own'[r].val /\ a.stamp = c
  BY DEF CaceAcknowledge
<1>2. existsVariable(x)'
  BY DEF existsVariable
<1>3. QED BY <1>1, <1>2 DEF VotePacket, Speaks, Acknowledged

LEMMA HandleCaceCommandVotes ==
  ASSUME ElectionInv, NEW r \in Agents, NEW m \in net[r], handleCaceCommand(r, m)
  PROVE  VoteStep(r)
<1>1. /\ m \in Message /\ m.from # r /\ TruePacket(m) /\ VotePacket(m) /\ SafetyInv /\ TypeInv
      /\ VoteVariables /\ VoteVariable(r)
  BY PacketRead DEF ElectionInv, VotePackets, VoteVariables, SafetyInv
<1>a. PICK c : c = Seen(clock[r], m.stamp)
  OBVIOUS
<1>2. m.kind = "Command" /\ Addressed(r, m) /\ m.level \in Elections
  BY <1>1 DEF handleCaceCommand, VotePacket
<1>3. m \in Waiting(r) /\ c \in Nat /\ m.level \in UsedStrategies
  <2>1. clock[r] \in Nat /\ m.stamp \in Nat
    BY <1>1, MessageFields DEF TypeInv, TypeOK
  <2>2. QED BY <1>1, <1>2, <1>a, <2>1, SeenBounds DEF Waiting, TruePacket
<1>4. m.from \in Others(r) /\ existsVariable(m.from)
  BY <1>1, <1>2, CommanderKnows
<1>5. ASSUME NEW rs \in Retrys(AckRetrys), NEW started \in BOOLEAN, NEW j,
             j = CommandAcknowledgeJob(m, activeRobots[r], c, rs, started), appendJob(r, j),
             VotePacket(m)', m.level > FireAndForget \/ DOMAIN rs = {}
      PROVE  /\ JobsStay(r, {}) /\ \A q \in Agents \ {r} : jobs'[q] = jobs[q]
             /\ \A i \in DOMAIN jobs'[r] :
                  \/ \E l \in DOMAIN jobs[r] : jobs'[r][i] = jobs[r][l]
                  \/ VoteJob(r, jobs[r][i])'
             /\ ~started => m \in Waiting(r)'
  <2>1. activeRobots[r] \in SUBSET Agents /\ jobs \in [Agents -> Seq(Job)]
    BY <1>1 DEF TypeInv, TypeOK
  <2>2. j \in Job
    BY <1>1, <1>2, <1>3, <1>5, <2>1, NewJobs
  <2>3. j.kind = "CommandAcknowledgeJob" /\ j.cmd = m /\ j.started = started /\ j.retrys = rs
    BY <1>5 DEF CommandAcknowledgeJob
  <2>4. JobsStay(r, {}) /\ \E l \in DOMAIN jobs'[r] : jobs'[r][l] = j
    BY <1>1, <1>5, <2>2, AppendStays
  <2>5. JobsBecome(r, j)
    BY <1>5, <2>1, <2>2, AppendedJob
  <2>6. ASSUME NEW i \in DOMAIN jobs'[r], jobs'[r][i] = j
        PROVE  VoteJob(r, jobs[r][i])'
    BY <1>5, <2>3, <2>6 DEF VoteJob
  <2>7. ~started => m \in Waiting(r)'
    <3>1. ~started => HeldBack(j, m)
      BY <2>3 DEF HeldBack
    <3>2. QED BY <2>4, <3>1, NowWaiting
  <2>8. QED BY <2>4, <2>5, <2>6, <2>7 DEF JobsBecome
<1>6. ASSUME \A q \in Agents \ {r} : own'[q] = own[q] PROVE VotePacket(m)'
  <2>1. own'[m.from] = own[m.from]
    BY <1>4, <1>6 DEF Others
  <2>2. QED BY <1>1, <1>2, <2>1 DEF VotePacket, Speaks
<1>7. CASE r \in SafeStepRobots
  <2>1. /\ Receive(r, m, {}) /\ KeepVariable
        /\ appendJob(r, CommandAcknowledgeJob(m, activeRobots[r], c, NoRetrys, FALSE))
    BY <1>7, <1>a DEF handleCaceCommand
  <2>2. NoRetrys \in Retrys(AckRetrys) /\ DOMAIN NoRetrys = {}
    BY NewRetrys DEF NoRetrys
  <2>3. PacketsStay(r, {m}) /\ PacketsFrom(r, {})
    BY <1>1, <2>1, ReceiveStays
  <2>4. VotePacket(m)'
    BY <1>6, <2>1, VariableKept
  <2>5. /\ JobsStay(r, {}) /\ \A q \in Agents \ {r} : jobs'[q] = jobs[q]
        /\ \A i \in DOMAIN jobs'[r] :
             \/ \E l \in DOMAIN jobs[r] : jobs'[r][i] = jobs[r][l]
             \/ VoteJob(r, jobs[r][i])'
        /\ m \in Waiting(r)'
    BY <1>5, <2>1, <2>2, <2>4
  <2>6. /\ \A n \in {} : VotePacket(n)'
        /\ \A n \in Waiting(r) :
             (n \in {m} /\ Addressed(r, n)) \/ (\E j \in {} : HeldBack(j, n))
               => n \in Waiting(r)'
    BY <2>5
  <2>7. QED BY <2>1, <2>3, <2>5, <2>6, VariableKept, OneVoterSteps
<1>8. CASE r \notin SafeStepRobots
  <2>a. PICK acks, packets, rs :
          /\ acks = (m.level > FireAndForget)
          /\ packets = (IF acks THEN {CaceAcknowledge(r, Broadcast, m.msgID, own'[r].val, c)} ELSE {})
          /\ rs = (IF acks THEN FullRetrys(activeRobots[r], AckRetrys) ELSE NoRetrys)
    OBVIOUS
  <2>1. /\ UpdateByCommand(r, m) /\ Receive(r, m, packets)
        /\ appendJob(r, CommandAcknowledgeJob(m, activeRobots[r], c, rs, TRUE))
    BY <1>8, <1>a, <2>a DEF handleCaceCommand
  <2>2. VoteUpdated(r, m)
    BY <1>1, <1>2, <1>3, <2>1, CommandVotes
  <2>3. /\ \A q \in Agents \ {r} :
             own'[q] = own[q] /\ proposals'[q] = proposals[q] /\ held'[q] = held[q]
        /\ KeepsVote(r) \/ FirstVote(r)
    BY <2>2 DEF VoteUpdated
  <2>4. VotePacket(m)'
    BY <1>6, <2>3
  <2>5. PacketsStay(r, {m}) /\ PacketsFrom(r, packets)
    BY <1>1, <2>1, ReceiveStays
  <2>6. \A n \in packets : VotePacket(n)'
    <3>1. own'[m.from] = own[m.from]
      BY <1>4, <2>3 DEF Others
    <3>2. ASSUME NEW n \in packets PROVE VotePacket(n)'
      <4>1. n = CaceAcknowledge(r, Broadcast, m.msgID, own'[r].val, c)
        BY <2>a
      <4>2. Acknowledged
        BY <1>2, <2>a DEF Acknowledged, Elections
      <4>3. QED BY <1>4, <3>1, <4>1, <4>2, AcknowledgeVotes
    <3>3. QED BY <3>2
  <2>7. rs \in Retrys(AckRetrys) /\ (m.level > FireAndForget \/ DOMAIN rs = {})
    <3>1. activeRobots[r] \in SUBSET Agents /\ DOMAIN NoRetrys = {}
      BY <1>1 DEF TypeInv, TypeOK, NoRetrys
    <3>2. QED BY <2>a, <3>1, NewRetrys
  <2>8. /\ JobsStay(r, {}) /\ \A q \in Agents \ {r} : jobs'[q] = jobs[q]
        /\ \A i \in DOMAIN jobs'[r] :
             \/ \E l \in DOMAIN jobs[r] : jobs'[r][i] = jobs[r][l]
             \/ VoteJob(r, jobs[r][i])'
    BY <1>5, <2>1, <2>4, <2>7
  <2>9. \A k \in DOMAIN proposals'[r] :
          \/ k \in DOMAIN proposals[r] /\ proposals'[r][k] = proposals[r][k]
          \/ \E n \in Waiting(r) : Brought(n, proposals'[r][k])
    BY <1>3, <2>2 DEF VoteUpdated
  <2>10. \A n \in Waiting(r) :
           (n \in {m} /\ Addressed(r, n)) \/ (\E j \in {} : HeldBack(j, n)) => Recorded(r, n)'
    <3>1. \A n : n \in {m} \/ (\E j \in {} : HeldBack(j, n)) => n = m
      OBVIOUS
    <3>2. Recorded(r, m)'
      BY <2>2 DEF VoteUpdated
    <3>3. QED BY <3>1, <3>2
  <2>11. \A q \in Agents \ {r} :
           own'[q] = own[q] /\ proposals'[q] = proposals[q] /\ held'[q] = held[q] /\ jobs'[q] = jobs[q]
    BY <2>3, <2>8
  <2>12. KeepsVote(r) \/ FirstVote(r)
    BY <2>3
  <2>13. QED BY <2>5, <2>6, <2>8, <2>9, <2>10, <2>11, <2>12, OneVoterSteps
<1>9. QED BY <1>7, <1>8

LEMMA HandleCaceAcknowledgeVotes ==
  ASSUME ElectionInv, KnownBeforeAnswered, NEW r \in Agents, NEW m \in net[r],
         handleCaceAcknowledge(r, m)
  PROVE  VoteStep(r)
<1>1. /\ m \in Message /\ m.from # r /\ TruePacket(m) /\ VotePacket(m) /\ SafetyInv /\ TypeInv
      /\ VoteVariables /\ VoteVariable(r)
  BY PacketRead DEF ElectionInv, VotePackets, VoteVariables, SafetyInv
<1>2. m.kind = "Acknowledge" /\ Addressed(r, m)
  BY DEF handleCaceAcknowledge
<1>3. m \in Waiting(r)
  BY <1>2 DEF Waiting
<1>4. existsVariable(r)
  BY <1>2, <1>3 DEF KnownBeforeAnswered
<1>5. CASE r \in SafeStepRobots
  <2>1. Receive(r, m, {}) /\ KeepVariable /\ appendJob(r, ShortAckJob(m))
    BY <1>5 DEF handleCaceAcknowledge
  <2>2. PICK j : j = ShortAckJob(m)
    OBVIOUS
  <2>3. j \in Job /\ j.kind = "ShortAckJob" /\ j.ack = m /\ appendJob(r, j)
    BY <1>1, <1>2, <2>1, <2>2, NewJobs DEF ShortAckJob
  <2>4. JobsStay(r, {}) /\ \E l \in DOMAIN jobs'[r] : jobs'[r][l] = j
    BY <1>1, <2>3, AppendStays
  <2>5. JobsBecome(r, j)
    BY <1>1, <2>3, AppendedJob DEF TypeInv, TypeOK
  <2>6. m \in Waiting(r)'
    BY <2>3, <2>4, NowWaiting DEF HeldBack
  <2>7. VotePacket(m)'
    BY <1>1, <2>1 DEF KeepVariable, VotePacket, Speaks, existsVariable, Acknowledged
  <2>8. ASSUME NEW i \in DOMAIN jobs'[r], jobs'[r][i] = j
        PROVE  VoteJob(r, jobs[r][i])'
    BY <2>3, <2>7, <2>8 DEF VoteJob
  <2>9. PacketsStay(r, {m}) /\ PacketsFrom(r, {})
    BY <1>1, <2>1, ReceiveStays
  <2>10. /\ \A n \in {} : VotePacket(n)'
         /\ \A n \in Waiting(r) :
              (n \in {m} /\ Addressed(r, n)) \/ (\E k \in {} : HeldBack(k, n))
                => n \in Waiting(r)'
    BY <2>6
  <2>11. /\ \A q \in Agents \ {r} : jobs'[q] = jobs[q]
         /\ \A i \in DOMAIN jobs'[r] :
              \/ \E l \in DOMAIN jobs[r] : jobs'[r][i] = jobs[r][l]
              \/ VoteJob(r, jobs[r][i])'
    BY <2>5, <2>8 DEF JobsBecome
  <2>12. QED BY <2>1, <2>4, <2>9, <2>10, <2>11, VariableKept, OneVoterSteps
<1>6. CASE r \notin SafeStepRobots
  <2>1. /\ UpdateByAck(r, m) /\ UNCHANGED jobs
        /\ \/ Receive(r, m, {})
           \/ \E c : Receive(r, m, {CaceShortAck(r, m.from, m.msgID, c)})
    BY <1>6 DEF handleCaceAcknowledge
  <2>2. PICK packets : Receive(r, m, packets) /\ \A n \in packets : n.kind = "ShortAck"
    <3>1. CASE Receive(r, m, {})
      BY <3>1
    <3>2. ASSUME NEW c, Receive(r, m, {CaceShortAck(r, m.from, m.msgID, c)})
          PROVE  \E packets : Receive(r, m, packets) /\ \A n \in packets : n.kind = "ShortAck"
      <4>1. PICK packets : packets = {CaceShortAck(r, m.from, m.msgID, c)}
        OBVIOUS
      <4>2. Receive(r, m, packets) /\ \A n \in packets : n.kind = "ShortAck"
        BY <3>2, <4>1 DEF CaceShortAck
      <4>3. QED BY <4>2
    <3>3. QED BY <2>1, <3>1, <3>2
  <2>3. VoteUpdated(r, m)
    BY <1>1, <1>2, <1>4, <2>1, AckVotes
  <2>4. PacketsStay(r, {m}) /\ PacketsFrom(r, packets)
    BY <1>1, <2>2, ReceiveStays
  <2>5. \A n \in packets : VotePacket(n)'
    BY <2>2 DEF VotePacket
  <2>6. /\ JobsStay(r, {})
        /\ \A i \in DOMAIN jobs'[r] : \E l \in DOMAIN jobs[r] : jobs'[r][i] = jobs[r][l]
    BY <2>1 DEF JobsStay
  <2>7. \A k \in DOMAIN proposals'[r] :
          \/ k \in DOMAIN proposals[r] /\ proposals'[r][k] = proposals[r][k]
          \/ \E n \in Waiting(r) : Brought(n, proposals'[r][k])
    BY <1>3, <2>3 DEF VoteUpdated
  <2>8. \A n \in Waiting(r) :
          (n \in {m} /\ Addressed(r, n)) \/ (\E j \in {} : HeldBack(j, n)) => Recorded(r, n)'
    <3>1. \A n : n \in {m} \/ (\E j \in {} : HeldBack(j, n)) => n = m
      OBVIOUS
    <3>2. Recorded(r, m)'
      BY <2>3 DEF VoteUpdated
    <3>3. QED BY <3>1, <3>2
  <2>9. \A q \in Agents \ {r} :
          own'[q] = own[q] /\ proposals'[q] = proposals[q] /\ held'[q] = held[q] /\ jobs'[q] = jobs[q]
    BY <2>1, <2>3 DEF VoteUpdated
  <2>10. KeepsVote(r) \/ FirstVote(r)
    BY <2>3 DEF VoteUpdated
  <2>11. QED BY <2>4, <2>5, <2>6, <2>7, <2>8, <2>9, <2>10, OneVoterSteps
<1>7. QED BY <1>5, <1>6

\* The i-th job of robot r is gone or another one; no other job changes.
JobVoted(r, i) ==
  /\ JobsStay(r, {jobs[r][i]})
  /\ \A q \in Agents \ {r} : jobs'[q] = jobs[q]
  /\ \A k \in DOMAIN jobs'[r] :
       (\E l \in DOMAIN jobs[r] : jobs'[r][k] = jobs[r][l]) \/ VoteJob(r, jobs[r][k])'

LEMMA ErasedVotes ==
  ASSUME TypeInv, NEW r \in Agents, NEW i \in DOMAIN jobs[r], eraseJob(r, i)
  PROVE  JobVoted(r, i)
<1>1. jobs \in [Agents -> Seq(Job)]
  BY DEF TypeInv, TypeOK
<1>2. JobsStay(r, {jobs[r][i]})
  BY EraseStays
<1>3. QED BY <1>1, <1>2, ErasedJob DEF JobVoted

LEMMA ReplacedVotes ==
  ASSUME TypeInv, NEW r \in Agents, NEW i \in DOMAIN jobs[r],
         NEW j \in Job, replaceJob(r, i, j), VoteJob(r, j)'
  PROVE  JobVoted(r, i)
<1>1. jobs \in [Agents -> Seq(Job)]
  BY DEF TypeInv, TypeOK
<1>2. JobsBecome(r, j)
  BY <1>1, ReplacedJob
<1>3. JobsStay(r, {jobs[r][i]})
  BY ReplaceStays
<1>4. \A k \in DOMAIN jobs'[r] : jobs'[r][k] = j => VoteJob(r, jobs[r][k])'
  BY DEF VoteJob, VotePacket, Speaks
<1>5. QED BY <1>2, <1>3, <1>4 DEF JobsBecome, JobVoted

\* What process() of a job must show.
LEMMA OneJobVotes ==
  ASSUME NEW r \in Agents, NEW i \in DOMAIN jobs[r], JobVoted(r, i),
         NEW sent, PacketsStay(r, {}), PacketsFrom(r, sent), \A n \in sent : VotePacket(n)',
         \A q \in Agents \ {r} :
           own'[q] = own[q] /\ proposals'[q] = proposals[q] /\ held'[q] = held[q],
         KeepsVote(r) \/ FirstVote(r),
         \A k \in DOMAIN proposals'[r] :
           \/ k \in DOMAIN proposals[r] /\ proposals'[r][k] = proposals[r][k]
           \/ \E n \in Waiting(r) : Brought(n, proposals'[r][k]),
         \A n \in Waiting(r) : HeldBack(jobs[r][i], n) => Recorded(r, n)'
  PROVE  VoteStep(r)
<1>a. PICK gone, taken : gone = {jobs[r][i]} /\ taken = {}
  OBVIOUS
<1>1. JobsStay(r, gone) /\ PacketsStay(r, taken)
  BY <1>a DEF JobVoted
<1>2. \A q \in Agents \ {r} :
        own'[q] = own[q] /\ proposals'[q] = proposals[q] /\ held'[q] = held[q] /\ jobs'[q] = jobs[q]
  BY DEF JobVoted
<1>3. \A k \in DOMAIN jobs'[r] :
        (\E l \in DOMAIN jobs[r] : jobs'[r][k] = jobs[r][l]) \/ VoteJob(r, jobs[r][k])'
  BY DEF JobVoted
<1>4. \A n \in Waiting(r) :
        (n \in taken /\ Addressed(r, n)) \/ (\E j \in gone : HeldBack(j, n)) => Recorded(r, n)'
  BY <1>a
<1>5. QED BY <1>1, <1>2, <1>3, <1>4, OneVoterSteps

\* process() of a job that only sends again.
LEMMA ResentVotes ==
  ASSUME NEW r \in Agents, NEW i \in DOMAIN jobs[r], JobVoted(r, i), KeepVariable,
         NEW sent, PacketsStay(r, {}), PacketsFrom(r, sent), \A n \in sent : VotePacket(n)',
         \A n : ~HeldBack(jobs[r][i], n)
  PROVE  VoteStep(r)
BY VariableKept, OneJobVotes

LEMMA ProcessCommandJobVotes ==
  ASSUME ElectionInv, NEW r \in Agents, NEW i \in DOMAIN jobs[r], processCommandJob(r, i)
  PROVE  VoteStep(r)
<1>a. PICK o : o = jobs[r][i]
  OBVIOUS
<1>b. PICK j : j = [o EXCEPT !.expected = Unanswered(r, o)]
  OBVIOUS
<1>1. o.kind = "CommandJob" /\ KeepVariable
  BY <1>a DEF processCommandJob
<1>2. TypeInv /\ o \in Job /\ VoteJob(r, o) /\ TrueJob(r, o) /\ VoteVariable(r)
  BY <1>a, ListedJob DEF ElectionInv, SafetyInv, VoteJobs, TrueJobs, VoteVariables
<1>3. o.expected \in SUBSET Agents /\ o.val \in AnyValue
  BY <1>1, <1>2, JobFields
<1>4. Speaks(r, o.stamp, o.val) /\ own[r].strat \in Elections
  <2>1. o.val # NoValue /\ o.val \in held[r]
    BY <1>1, <1>2, <1>3 DEF AnyValue, TrueJob
  <2>2. QED BY <1>1, <1>2, <2>1 DEF VoteJob, VoteVariable
<1>5. Unanswered(r, o) \in SUBSET Agents
  BY <1>3 DEF Unanswered
<1>6. j \in Job /\ j.kind = "CommandJob" /\ j.val = o.val /\ j.stamp = o.stamp
  BY <1>1, <1>2, <1>5, <1>b, ChangedCommandJob
<1>7. own'[r] = own[r]
  BY <1>1 DEF KeepVariable
<1>8. \A n : ~HeldBack(jobs[r][i], n)
  BY <1>1, <1>a DEF HeldBack
<1>9. \/ eraseJob(r, i) /\ UNCHANGED net
      \/ \E late \in SUBSET Retryable(j) :
           /\ net' = Multicast(net, r, {CaceCommand(r, q, j.msgID, j.val, own[r].strat,
                                                    own[r].dec, j.stamp) : q \in late})
           /\ replaceJob(r, i, Resent(j, late))
  BY <1>a, <1>b DEF processCommandJob, resend
<1>10. CASE eraseJob(r, i) /\ UNCHANGED net
  <2>a. PICK sent : sent = {}
    OBVIOUS
  <2>1. PacketsStay(r, {}) /\ PacketsFrom(r, sent) /\ \A n \in sent : VotePacket(n)'
    BY <1>10, <2>a DEF PacketsStay, PacketsFrom
  <2>2. JobVoted(r, i)
    BY <1>2, <1>10, ErasedVotes
  <2>3. QED BY <1>1, <1>8, <2>1, <2>2, ResentVotes
<1>11. ASSUME NEW late \in SUBSET Retryable(j), NEW packets,
              packets = {CaceCommand(r, q, j.msgID, j.val, own[r].strat, own[r].dec, j.stamp) :
                           q \in late},
              net' = Multicast(net, r, packets), replaceJob(r, i, Resent(j, late))
       PROVE  VoteStep(r)
  <2>1. PacketsStay(r, {}) /\ PacketsFrom(r, packets)
    BY <1>2, <1>11, SendStays
  <2>2. ASSUME NEW n \in packets PROVE VotePacket(n)'
    <3>1. /\ n.kind = "Command" /\ n.from = r /\ n.val = o.val /\ n.stamp = o.stamp
          /\ n.level = own[r].strat
      BY <1>6, <1>11 DEF CaceCommand
    <3>2. QED BY <1>4, <1>7, <3>1 DEF VotePacket, Speaks
  <2>3. PICK k : k = Resent(j, late)
    OBVIOUS
  <2>4. k \in Job /\ k.kind = "CommandJob" /\ k.val = o.val /\ k.stamp = o.stamp
    BY <1>6, <2>3, ResentJob
  <2>5. VoteJob(r, k)'
    BY <1>4, <1>7, <2>4 DEF VoteJob, Speaks
  <2>6. replaceJob(r, i, k)
    BY <1>11, <2>3
  <2>7. JobVoted(r, i)
    BY <1>2, <2>4, <2>5, <2>6, ReplacedVotes
  <2>8. QED BY <1>1, <1>8, <2>1, <2>2, <2>7, ResentVotes
<1>12. QED BY <1>9, <1>10, <1>11

LEMMA ProcessShortAckJobVotes ==
  ASSUME ElectionInv, KnownBeforeAnswered, NEW r \in Agents, NEW i \in DOMAIN jobs[r],
         processShortAckJob(r, i)
  PROVE  VoteStep(r)
<1>a. PICK m : m = jobs[r][i].ack
  OBVIOUS
<1>1. jobs[r][i].kind = "ShortAckJob" /\ UpdateByAck(r, m) /\ eraseJob(r, i)
  BY <1>a DEF processShortAckJob
<1>2. /\ SafetyInv /\ TypeInv /\ m \in Message /\ m.kind = "Acknowledge" /\ VoteVariable(r)
  BY <1>1, <1>a, ListedJob, JobFields DEF ElectionInv, SafetyInv, VoteVariables
<1>3. m \in Waiting(r) /\ existsVariable(r)
  <2>1. m \in Waiting(r)
    BY <1>1, <1>a DEF Waiting
  <2>2. QED BY <1>2, <2>1 DEF KnownBeforeAnswered
<1>4. VoteUpdated(r, m)
  BY <1>1, <1>2, <1>3, AckVotes
<1>5. \/ net' = Multicast(net, r, {CaceShortAck(r, m.from, m.msgID, clock[r] + 1)})
      \/ UNCHANGED net
  BY <1>a DEF processShortAckJob
<1>6. PICK packets : /\ PacketsStay(r, {}) /\ PacketsFrom(r, packets)
                     /\ \A n \in packets : n.kind = "ShortAck"
  <2>1. CASE net' = Multicast(net, r, {CaceShortAck(r, m.from, m.msgID, clock[r] + 1)})
    <3>1. PICK packets : packets = {CaceShortAck(r, m.from, m.msgID, clock[r] + 1)}
      OBVIOUS
    <3>2. PacketsStay(r, {}) /\ PacketsFrom(r, packets)
      BY <1>2, <2>1, <3>1, SendStays
    <3>3. \A n \in packets : n.kind = "ShortAck"
      BY <3>1 DEF CaceShortAck
    <3>4. QED BY <3>2, <3>3
  <2>2. CASE UNCHANGED net
    <3>1. PacketsStay(r, {}) /\ PacketsFrom(r, {})
      BY <2>2 DEF PacketsStay, PacketsFrom
    <3>2. QED BY <3>1
  <2>3. QED BY <1>5, <2>1, <2>2
<1>7. \A n \in packets : VotePacket(n)'
  BY <1>6 DEF VotePacket
<1>8. JobVoted(r, i)
  BY <1>1, <1>2, ErasedVotes
<1>9. /\ KeepsVote(r) \/ FirstVote(r)
      /\ \A q \in Agents \ {r} :
           own'[q] = own[q] /\ proposals'[q] = proposals[q] /\ held'[q] = held[q]
      /\ \A k \in DOMAIN proposals'[r] :
           \/ k \in DOMAIN proposals[r] /\ proposals'[r][k] = proposals[r][k]
           \/ \E n \in Waiting(r) : Brought(n, proposals'[r][k])
  BY <1>3, <1>4 DEF VoteUpdated
<1>10. \A n \in Waiting(r) : HeldBack(jobs[r][i], n) => Recorded(r, n)'
  <2>1. \A n : HeldBack(jobs[r][i], n) => n = m
    BY <1>1, <1>a DEF HeldBack
  <2>2. Recorded(r, m)'
    BY <1>4 DEF VoteUpdated
  <2>3. QED BY <2>1, <2>2
<1>11. QED BY <1>6, <1>7, <1>8, <1>9, <1>10, OneJobVotes

LEMMA ProcessCommandAcknowledgeJobVotes ==
  ASSUME ElectionInv, NEW r \in Agents, NEW i \in DOMAIN jobs[r],
         processCommandAcknowledgeJob(r, i)
  PROVE  VoteStep(r)
<1>a. PICK o : o = jobs[r][i]
  OBVIOUS
<1>b. PICK id, robots : id = o.cmd.msgID /\ robots = o.expected \ Answered(r, id)
  OBVIOUS
<1>c. PICK j : j = [o EXCEPT !.expected = robots]
  OBVIOUS
<1>1. o.kind = "CommandAcknowledgeJob" /\ o.started /\ KeepVariable
  BY <1>a DEF processCommandAcknowledgeJob
<1>2. PICK late \in SUBSET Retryable(j) :
        /\ net' = Multicast(net, r, {CaceAcknowledge(r, q, id, own[r].val, j.stamp) : q \in late})
        /\ eraseJob(r, i) \/ replaceJob(r, i, Resent(j, late))
  BY <1>a, <1>b, <1>c DEF processCommandAcknowledgeJob, resend
<1>3. /\ SafetyInv /\ TypeInv /\ o \in Job /\ VoteJob(r, o) /\ TrueJob(r, o) /\ VoteVariables
  BY <1>a, ListedJob DEF ElectionInv, SafetyInv, VoteJobs, TrueJobs
<1>4. /\ o.cmd \in Message /\ o.cmd.kind = "Command" /\ o.cmd.from # r /\ TruePacket(o.cmd)
      /\ VotePacket(o.cmd) /\ o.expected \in SUBSET Agents
  BY <1>1, <1>3, JobFields DEF TrueJob, Taken, VoteJob
<1>5. o.cmd.from \in Others(r) /\ existsVariable(o.cmd.from)
  BY <1>3, <1>4, CommanderKnows
<1>6. /\ j \in Job /\ j.kind = o.kind /\ j.cmd = o.cmd /\ j.stamp = o.stamp
      /\ j.retrys = o.retrys
  <2>1. robots \in SUBSET Agents
    BY <1>4, <1>b
  <2>2. QED BY <1>1, <1>3, <1>c, <2>1, ChangedCommandAcknowledgeJob
<1>7. PICK packets : packets = {CaceAcknowledge(r, q, id, own[r].val, j.stamp) : q \in late}
  OBVIOUS
<1>8. PacketsStay(r, {}) /\ PacketsFrom(r, packets)
  BY <1>2, <1>3, <1>7, SendStays
<1>9. ASSUME NEW n \in packets PROVE VotePacket(n)'
  <2>1. PICK q \in late : n = CaceAcknowledge(r, q, id, own'[r].val, j.stamp)
    BY <1>1, <1>7 DEF KeepVariable
  <2>2. own'[o.cmd.from] = own[o.cmd.from]
    BY <1>1 DEF KeepVariable
  <2>3. DOMAIN o.retrys # {}
    BY <1>6, <1>9 DEF Retryable
  <2>4. Acknowledged
    BY <1>1, <1>3, <1>4, <2>3 DEF VoteJob, VotePacket, Acknowledged, Elections
  <2>5. QED BY <1>5, <2>1, <2>2, <2>4, AcknowledgeVotes
<1>10. PICK k : k = Resent(j, late)
  OBVIOUS
<1>11. k \in Job /\ k.kind = "CommandAcknowledgeJob" /\ k.cmd = o.cmd
       /\ DOMAIN k.retrys = DOMAIN o.retrys
  BY <1>1, <1>6, <1>10, ResentJob
<1>12. VoteJob(r, k)'
  <2>1. VotePacket(o.cmd)'
    BY <1>1, <1>4 DEF KeepVariable, VotePacket, Speaks, existsVariable, Acknowledged
  <2>2. o.cmd.level > FireAndForget \/ DOMAIN o.retrys = {}
    BY <1>1, <1>3 DEF VoteJob
  <2>3. QED BY <1>11, <2>1, <2>2 DEF VoteJob
<1>13. JobVoted(r, i)
  BY <1>2, <1>3, <1>10, <1>11, <1>12, ErasedVotes, ReplacedVotes
<1>14. \A n : ~HeldBack(jobs[r][i], n)
  BY <1>1, <1>a DEF HeldBack
<1>15. QED BY <1>1, <1>8, <1>9, <1>13, <1>14, ResentVotes

LEMMA StartCommandAcknowledgeJobVotes ==
  ASSUME ElectionInv, NEW r \in Agents, NEW i \in DOMAIN jobs[r], startCommandAcknowledgeJob(r, i)
  PROVE  VoteStep(r)
<1>a. PICK o : o = jobs[r][i]
  OBVIOUS
<1>b. PICK m, c : m = o.cmd /\ c = clock[r] + 1
  OBVIOUS
<1>1. o.kind = "CommandAcknowledgeJob" /\ ~o.started /\ UpdateByCommand(r, m)
  BY <1>a, <1>b DEF startCommandAcknowledgeJob
<1>2. /\ SafetyInv /\ TypeInv /\ o \in Job /\ VoteJob(r, o) /\ TrueJob(r, o) /\ VoteVariables
      /\ VoteVariable(r)
  BY <1>a, ListedJob DEF ElectionInv, SafetyInv, VoteJobs, TrueJobs, VoteVariables
<1>3. /\ m \in Message /\ m.kind = "Command" /\ m.from # r /\ TruePacket(m) /\ VotePacket(m)
      /\ o.expected \in SUBSET Agents
  BY <1>1, <1>2, <1>b, JobFields DEF TrueJob, Taken, VoteJob
<1>4. m.level \in Elections /\ m.level \in UsedStrategies
  BY <1>3 DEF VotePacket, TruePacket
<1>5. m.from \in Others(r) /\ existsVariable(m.from)
  BY <1>2, <1>3, CommanderKnows
<1>6. VoteUpdated(r, m)
  BY <1>1, <1>2, <1>3, <1>4, CommandVotes
<1>7. own'[m.from] = own[m.from]
  BY <1>5, <1>6 DEF Others, VoteUpdated
<1>8. PICK acks, packets, retrys, robots, j :
        /\ acks = (m.level > FireAndForget)
        /\ packets = (IF acks THEN {CaceAcknowledge(r, Broadcast, m.msgID, own'[r].val, clock'[r])}
                              ELSE {})
        /\ retrys = (IF acks THEN FullRetrys(o.expected, AckRetrys) ELSE NoRetrys)
        /\ robots = o.expected \ Answered(r, m.msgID)
        /\ j = [o EXCEPT !.started = TRUE, !.stamp = clock'[r], !.expected = robots,
                         !.retrys = retrys]
  OBVIOUS
<1>9. clock'[r] \in Nat /\ net' = Multicast(net, r, packets) /\ (eraseJob(r, i) \/ replaceJob(r, i, j))
  <2>1. clock \in [Agents -> Nat]
    BY <1>2 DEF TypeInv, TypeOK
  <2>2. clock'[r] = IF acks THEN clock[r] + 1 ELSE clock[r]
    BY <1>8, <1>a, <1>b, <2>1 DEF startCommandAcknowledgeJob
  <2>3. net' = Multicast(net, r, packets) /\ (eraseJob(r, i) \/ replaceJob(r, i, j))
    BY <1>8, <1>a, <1>b, <2>2 DEF startCommandAcknowledgeJob
  <2>4. QED BY <2>1, <2>2, <2>3
<1>10. PacketsStay(r, {}) /\ PacketsFrom(r, packets)
  BY <1>2, <1>9, SendStays
<1>11. ASSUME NEW n \in packets PROVE VotePacket(n)'
  <2>1. n = CaceAcknowledge(r, Broadcast, m.msgID, own'[r].val, clock'[r])
    BY <1>8
  <2>2. Acknowledged
    BY <1>4, <1>8 DEF Acknowledged, Elections
  <2>3. QED BY <1>5, <1>7, <2>1, <2>2, AcknowledgeVotes
<1>12. j \in Job /\ j.kind = "CommandAcknowledgeJob" /\ j.cmd = m /\ j.retrys = retrys
  <2>1. robots \in SUBSET Agents /\ retrys \in Retrys(AckRetrys)
    BY <1>3, <1>8, NewRetrys
  <2>2. PICK s \in Nat : s = clock'[r]
    BY <1>9
  <2>3. LET k == [o EXCEPT !.started = TRUE, !.stamp = s, !.expected = robots, !.retrys = retrys]
        IN  /\ k \in Job /\ k.kind = o.kind /\ k.cmd = o.cmd /\ k.expected = robots
            /\ k.stamp = s /\ k.retrys = retrys /\ k.started = TRUE
    BY <1>1, <1>2, <2>1, StartedCommandAcknowledgeJob, Zenon
  <2>4. /\ j \in Job /\ j.kind = o.kind /\ j.cmd = o.cmd /\ j.expected = robots
        /\ j.stamp = s /\ j.retrys = retrys /\ j.started = TRUE
    BY <1>8, <2>2, <2>3, Zenon
  <2>5. QED BY <1>1, <1>b, <2>4
<1>13. VoteJob(r, j)'
  <2>1. VotePacket(m)'
    BY <1>3, <1>4, <1>7 DEF VotePacket, Speaks
  <2>2. m.level > FireAndForget \/ DOMAIN retrys = {}
    BY <1>8 DEF NoRetrys
  <2>3. QED BY <1>12, <2>1, <2>2 DEF VoteJob
<1>14. JobVoted(r, i)
  BY <1>2, <1>9, <1>12, <1>13, ErasedVotes, ReplacedVotes
<1>15. m \in Waiting(r)
  BY <1>1, <1>a, <1>b DEF Waiting
<1>16. /\ KeepsVote(r) \/ FirstVote(r)
       /\ \A q \in Agents \ {r} :
            own'[q] = own[q] /\ proposals'[q] = proposals[q] /\ held'[q] = held[q]
       /\ \A k \in DOMAIN proposals'[r] :
            \/ k \in DOMAIN proposals[r] /\ proposals'[r][k] = proposals[r][k]
            \/ \E n \in Waiting(r) : Brought(n, proposals'[r][k])
  BY <1>6, <1>15 DEF VoteUpdated
<1>17. \A n \in Waiting(r) : HeldBack(jobs[r][i], n) => Recorded(r, n)'
  <2>1. \A n : HeldBack(jobs[r][i], n) => n = m
    BY <1>1, <1>a, <1>b DEF HeldBack
  <2>2. Recorded(r, m)'
    BY <1>6 DEF VoteUpdated
  <2>3. QED BY <2>1, <2>2
<1>18. QED BY <1>10, <1>11, <1>14, <1>16, <1>17, OneJobVotes

\* The command of a call brings the vote, with the tick after the clock.
LEMMA NewCommandVotes ==
  ASSUME SafetyInv, NEW r \in Agents, NEW b \in Valued, b.strat \in Elections,
         NewCommandJob(r, b), own'[r].val = b.val
  PROVE  /\ \E m : /\ PacketsFrom(r, {m}) /\ VotePacket(m)' /\ m.from = r /\ m.stamp > clock[r]
                   /\ \A q \in Others(r) : m \in Waiting(q)'
         /\ PacketsStay(r, {}) /\ JobsStay(r, {})
         /\ \A q \in Agents \ {r} : jobs'[q] = jobs[q]
         /\ \A i \in DOMAIN jobs'[r] :
              (\E l \in DOMAIN jobs[r] : jobs'[r][i] = jobs[r][l]) \/ VoteJob(r, jobs[r][i])'
         /\ commands' # commands
<1>a. PICK m, j :
        /\ m = CaceCommand(r, Broadcast, MsgID(r), b.val, b.strat, b.dec, clock[r] + 1)
        /\ j = CommandJob(MsgID(r), b.val, activeRobots[r], clock[r],
                          FullRetrys(activeRobots[r], CommandRetrys))
  OBVIOUS
<1>1. /\ TypeInv /\ clock[r] \in Nat /\ commands \in Nat /\ jobs \in [Agents -> Seq(Job)]
      /\ activeRobots[r] \in SUBSET Agents
  BY DEF SafetyInv, TypeInv, TypeOK
<1>2. b.strat > NoDistribution
  BY DEF Elections, ElectionStrategies, NoDistribution
<1>3. net' = Multicast(net, r, {m}) /\ appendJob(r, j) /\ commands' = commands + 1
  BY <1>2, <1>a DEF NewCommandJob
<1>4. /\ m.kind = "Command" /\ m.from = r /\ m.to = Broadcast /\ m.val = b.val
      /\ m.level = b.strat /\ m.stamp = clock[r] + 1
      /\ j.kind = "CommandJob" /\ j.val = b.val
  BY <1>a DEF CaceCommand, CommandJob
<1>5. PacketsStay(r, {}) /\ Reaches(r, {m}) /\ PacketsFrom(r, {m})
  BY <1>1, <1>3, SendStays
<1>6. VotePacket(m)'
  BY <1>4 DEF VotePacket, Speaks
<1>7. ASSUME NEW q \in Others(r) PROVE m \in Waiting(q)'
  <2>1. q \in Agents /\ m \in net'[q] /\ Addressed(q, m)
    BY <1>4, <1>5 DEF Others, Reaches, Addressed
  <2>2. QED BY <1>4, <2>1, NowWaiting
<1>8. j \in Job
  <2>1. MsgID(r) \in Nat /\ b.val \in AnyValue
    BY <1>1, MsgIDType DEF Valued, Believe
  <2>2. FullRetrys(activeRobots[r], CommandRetrys) \in Retrys(CommandRetrys)
    BY <1>1, NewRetrys
  <2>3. QED BY <1>1, <1>a, <2>1, <2>2, NewJobs
<1>9. JobsStay(r, {}) /\ JobsBecome(r, j)
  BY <1>1, <1>3, <1>8, AppendStays, AppendedJob
<1>10. ASSUME NEW i \in DOMAIN jobs'[r], jobs'[r][i] = j PROVE VoteJob(r, jobs[r][i])'
  BY <1>4, <1>10 DEF VoteJob, Speaks
<1>11. m.stamp > clock[r] /\ commands' # commands
  BY <1>1, <1>3, <1>4
<1>12. QED BY <1>4, <1>5, <1>6, <1>7, <1>9, <1>10, <1>11 DEF JobsBecome

LEMMA DistributeValueVotes ==
  ASSUME ElectionInv, NEW r \in Agents, NEW v \in Values, NEW s \in Elections,
         NEW t \in DecissionTimes, distributeValue(r, v, s, t)
  PROVE  VoteStep(r)
<1>1. /\ SafetyInv /\ clock[r] \in Nat /\ own \in [Agents -> Believe(Agents)]
      /\ held \in [Agents -> SUBSET (AnyValue \cup {NoValue})]
  BY DEF ElectionInv, SafetyInv, TypeInv, TypeOK
<1>2. PICK b : b = [id |-> r, val |-> v, age |-> clock[r], strat |-> s, dec |-> t]
  OBVIOUS
<1>3. b.id = r /\ b.val = v /\ b.age = clock[r] /\ b.strat = s
  BY <1>2
<1>4. b \in Valued
  <2>1. v \in AnyValue \cup {NoValue} /\ v # NoValue /\ s \in Strategies /\ t \in Nat
    BY DEF AnyValue, Elections
  <2>2. QED BY <1>1, <1>2, <2>1 DEF Valued, Believe
<1>5. /\ own' = [own EXCEPT ![r] = b] /\ held' = [held EXCEPT ![r] = @ \cup {v}]
      /\ NewCommandJob(r, b) /\ UNCHANGED proposals
  BY <1>2 DEF distributeValue
<1>6. /\ own'[r] = b /\ held'[r] = held[r] \cup {v}
      /\ \A q \in Agents \ {r} :
           own'[q] = own[q] /\ proposals'[q] = proposals[q] /\ held'[q] = held[q]
  BY <1>1, <1>5
<1>7. /\ PacketsStay(r, {}) /\ JobsStay(r, {})
      /\ \A q \in Agents \ {r} : jobs'[q] = jobs[q]
      /\ \A i \in DOMAIN jobs'[r] :
           (\E l \in DOMAIN jobs[r] : jobs'[r][i] = jobs[r][l]) \/ VoteJob(r, jobs[r][i])'
      /\ commands' # commands
  BY <1>1, <1>3, <1>4, <1>5, <1>6, NewCommandVotes
<1>8. PICK m : /\ PacketsFrom(r, {m}) /\ VotePacket(m)' /\ m.from = r /\ m.stamp > clock[r]
               /\ \A q \in Others(r) : m \in Waiting(q)'
  BY <1>1, <1>3, <1>4, <1>5, <1>6, NewCommandVotes
<1>9. Bids(r)
  BY <1>3, <1>6, <1>7, <1>8 DEF Bids
<1>10. PICK sent, none : sent = {m} /\ none = {}
  OBVIOUS
<1>11. /\ \A n \in sent : VotePacket(n)'
       /\ \A n \in Waiting(r) : ~((n \in none /\ Addressed(r, n)) \/ (\E j \in none : HeldBack(j, n)))
       /\ PacketsStay(r, none) /\ JobsStay(r, none) /\ PacketsFrom(r, sent)
  BY <1>7, <1>8, <1>10
<1>12. \A k \in DOMAIN proposals'[r] :
         k \in DOMAIN proposals[r] /\ proposals'[r][k] = proposals[r][k]
  BY <1>5
<1>13. \A q \in Agents \ {r} :
         own'[q] = own[q] /\ proposals'[q] = proposals[q] /\ held'[q] = held[q] /\ jobs'[q] = jobs[q]
  BY <1>6, <1>7
<1>14. QED BY <1>7, <1>9, <1>11, <1>12, <1>13, OneVoterSteps

LEMMA DistributeVariableVotes ==
  ASSUME ElectionInv, NEW r \in Agents, distributeVariable(r)
  PROVE  VoteStep(r)
<1>1. /\ SafetyInv /\ own \in [Agents -> Believe(Agents)] /\ KeepVariable
      /\ NewCommandJob(r, own[r]) /\ existsVariable(r)
  BY DEF ElectionInv, SafetyInv, TypeInv, TypeOK, distributeVariable
<1>2. own[r] \in Valued /\ own[r].strat \in Elections /\ own'[r] = own[r]
  BY <1>1 DEF Valued, existsVariable, ElectionInv, VoteVariables, VoteVariable, IsElection,
     KeepVariable
<1>3. /\ PacketsStay(r, {}) /\ JobsStay(r, {})
      /\ \A q \in Agents \ {r} : jobs'[q] = jobs[q]
      /\ \A i \in DOMAIN jobs'[r] :
           (\E l \in DOMAIN jobs[r] : jobs'[r][i] = jobs[r][l]) \/ VoteJob(r, jobs[r][i])'
  BY <1>1, <1>2, NewCommandVotes
<1>4. PICK m : PacketsFrom(r, {m}) /\ VotePacket(m)'
  BY <1>1, <1>2, NewCommandVotes
<1>5. PICK sent, none : sent = {m} /\ none = {}
  OBVIOUS
<1>6. /\ \A n \in sent : VotePacket(n)'
      /\ \A n \in Waiting(r) : ~((n \in none /\ Addressed(r, n)) \/ (\E j \in none : HeldBack(j, n)))
      /\ PacketsStay(r, none) /\ JobsStay(r, none) /\ PacketsFrom(r, sent)
  BY <1>3, <1>4, <1>5
<1>7. QED BY <1>1, <1>3, <1>6, VariableKept, OneVoterSteps

\* A step that touches neither the variable nor jobs nor packets.
LEMMA NothingSaid ==
  ASSUME KeepVariable, UNCHANGED <<jobs, net>>, NEW r \in Agents
  PROVE  VoteStep(r)
<1>1. PICK none : none = {}
  OBVIOUS
<1>2. PacketsStay(r, none) /\ PacketsFrom(r, none) /\ JobsStay(r, none)
  BY DEF PacketsStay, PacketsFrom, JobsStay
<1>3. /\ \A n \in none : VotePacket(n)'
      /\ \A n \in Waiting(r) : ~((n \in none /\ Addressed(r, n)) \/ (\E j \in none : HeldBack(j, n)))
      /\ \A i \in DOMAIN jobs'[r] : \E l \in DOMAIN jobs[r] : jobs'[r][i] = jobs[r][l]
      /\ \A q \in Agents \ {r} : jobs'[q] = jobs[q]
  BY <1>1
<1>4. QED BY <1>2, <1>3, VariableKept, OneVoterSteps

LEMMA AgentEngangementVotes ==
  ASSUME NEW r \in Agents, NEW q \in Agents, agentEngangement(r, q)
  PROVE  VoteStep(r)
BY NothingSaid DEF agentEngangement

-----------------------------------------------------------------------------
(***************************************************************************)
(* The invariant is inductive where no robot hears of the election from an *)
(* acknowledge.                                                            *)
(***************************************************************************)
LEMMA ElectionInvInit == Init => ElectionInv
<1> SUFFICES ASSUME Init PROVE ElectionInv
  OBVIOUS
<1>1. SafetyInv
  BY SafetyInvInit
<1>2. VotePackets /\ VoteJobs
  BY DEF Init, VotePackets, VoteJobs
<1>3. ASSUME NEW r \in Agents PROVE VoteVariable(r) /\ Silent(r)
  <2>1. /\ own[r] = Absent(r) /\ proposals[r] = <<>> /\ held[r] = {}
    BY DEF Init
  <2>2. own[r].id = r /\ ~existsVariable(r) /\ ~IsElection(r)
    BY <2>1 DEF Absent, existsVariable, IsElection, NoDistribution, ElectionStrategies
  <2>3. QED BY <2>1, <2>2 DEF VoteVariable, Silent
<1>4. VoteVariables /\ AllVotesHeard
  BY <1>3 DEF VoteVariables, AllVotesHeard, Others
<1>5. QED BY <1>1, <1>2, <1>4 DEF ElectionInv

LEMMA NextVotes ==
  ASSUME Levels \subseteq ElectionStrategies, ElectionInv, KnownBeforeAnswered,
         SafetyInv', Grows, Next
  PROVE  \E w \in Agents : VoteStep(w)
<1>1. SafetyInv
  BY DEF ElectionInv
<1>2. ASSUME NEW r \in Agents, Call(r) PROVE VoteStep(r)
  BY <1>2, DistributeValueVotes, DistributeVariableVotes, AgentEngangementVotes
     DEF Call, Elections
<1>3. ASSUME NEW r \in Agents, NEW m \in net[r], Handle(r, m) PROVE VoteStep(r)
  BY <1>1, <1>3, OverhearVotes, HandleCaceCommandVotes, HandleCaceAcknowledgeVotes,
     HandleCaceShortAckVotes DEF Handle
<1>4. ASSUME NEW r \in Agents, NEW i \in DOMAIN jobs[r], Process(r, i) PROVE VoteStep(r)
  BY <1>4, ProcessCommandJobVotes, StartCommandAcknowledgeJobVotes,
     ProcessCommandAcknowledgeJobVotes, ProcessShortAckJobVotes DEF Process
<1>5. QED BY <1>2, <1>3, <1>4 DEF Next

LEMMA ElectionInvStep ==
  ASSUME Levels \subseteq ElectionStrategies, ElectionInv, KnownBeforeAnswered, [Next]_vars
  PROVE  ElectionInv'
<1>1. SafetyInv' /\ Grows
  BY SafetyInvStep DEF ElectionInv
<1>2. CASE Next
  BY <1>1, <1>2, NextVotes, ElectionGoesOn
<1>3. ASSUME UNCHANGED vars, NEW r \in Agents PROVE ElectionInv'
  <2>1. KeepVariable /\ UNCHANGED <<jobs, net>>
    BY <1>3 DEF vars, KeepVariable
  <2>2. QED BY <1>1, <2>1, NothingSaid, ElectionGoesOn
<1>4. ASSUME Agents = {} PROVE ElectionInv'
  BY <1>1, <1>4 DEF ElectionInv, VotePackets, VoteJobs, VoteVariables, AllVotesHeard
<1>5. QED BY <1>2, <1>3, <1>4

-----------------------------------------------------------------------------
(***************************************************************************)
(* getWinner.                                                              *)
(***************************************************************************)
\* Among finitely many votes there is a first highest one.
LEMMA BestExists ==
  ASSUME NEW S \in SUBSET Nat, IsFiniteSet(S), S # {}, NEW bet, \A j \in S : bet[j] \in Int
  PROVE  \E k \in S : \A j \in S : bet[j] < bet[k] \/ (bet[j] = bet[k] /\ j >= k)
<1> DEFINE Beats(j, k) == bet[j] > bet[k] \/ (bet[j] = bet[k] /\ j <= k)
           Better(k) == {j \in S : Beats(j, k)}
<1>a. PICK T : T = {Better(k) : k \in S}
  OBVIOUS
<1>1. T \subseteq FiniteSubsetsOf(S) /\ T # {}
  <2>1. ASSUME NEW k \in S PROVE Better(k) \in SUBSET S /\ IsFiniteSet(Better(k))
    <3>1. Better(k) \subseteq S
      OBVIOUS
    <3>2. QED BY <3>1, FS_Subset
  <2> HIDE DEF Better
  <2>2. ASSUME NEW B \in T PROVE B \in FiniteSubsetsOf(S)
    <3>1. PICK k \in S : B = Better(k)
      BY <1>a
    <3>2. B \in SUBSET S /\ IsFiniteSet(B)
      BY <2>1, <3>1
    <3>3. QED BY <3>2 DEF FiniteSubsetsOf
  <2>3. PICK k \in S : TRUE
    OBVIOUS
  <2>4. Better(k) \in T
    BY <1>a
  <2>5. QED BY <2>2, <2>4
<1>2. PICK R : R = StrictSubsetOrdering(S)
  OBVIOUS
<1>3. IsWellFoundedOn(R, FiniteSubsetsOf(S))
  BY <1>2, FS_StrictSubsetOrderingWellFounded
<1>4. PICK B \in T : \A C \in T : <<C, B>> \notin R
  BY <1>1, <1>3, WFMin
<1>5. PICK k \in S : B = Better(k)
  BY <1>a, <1>4
<1>6. ASSUME NEW j \in S, ~(bet[j] < bet[k] \/ (bet[j] = bet[k] /\ j >= k)) PROVE FALSE
  <2>1. bet[j] \in Int /\ bet[k] \in Int /\ j \in Nat /\ k \in Nat
    OBVIOUS
  <2>2. k \in Better(k) /\ k \notin Better(j)
    BY <1>6, <2>1
  <2>3. ASSUME NEW i \in Better(j) PROVE i \in Better(k)
    <3>1. i \in S /\ bet[i] \in Int /\ i \in Nat
      OBVIOUS
    <3>2. Beats(i, j)
      OBVIOUS
    <3>3. Beats(i, k)
      BY <1>6, <2>1, <3>1, <3>2
    <3>4. QED BY <3>1, <3>3
  <2>4. Better(j) \subseteq Better(k) /\ Better(j) # Better(k)
    BY <2>2, <2>3
  <2>5. Better(j) \in SUBSET S /\ Better(k) \in SUBSET S /\ Better(j) \in T
    BY <1>a
  <2> HIDE DEF Better
  <2>6. <<Better(j), Better(k)>> \in R
    BY <1>2, <2>4, <2>5 DEF StrictSubsetOrdering
  <2>7. QED BY <1>4, <1>5, <2>5, <2>6
<1>7. QED BY <1>6

LEMMA VotesCounted ==
  ASSUME SafetyInv, NEW r \in Agents, existsVariable(r)
  PROVE  /\ DOMAIN Votes(r) \in SUBSET Nat /\ IsFiniteSet(DOMAIN Votes(r))
         /\ 1 \in DOMAIN Votes(r) /\ Votes(r)[1] = own[r]
         /\ \A k \in DOMAIN proposals[r] :
              k + 1 \in DOMAIN Votes(r) /\ Votes(r)[k + 1] = proposals[r][k]
         /\ \A j \in DOMAIN Votes(r) :
              j # 1 => j - 1 \in DOMAIN proposals[r] /\ Votes(r)[j] = proposals[r][j - 1]
         /\ \A j \in DOMAIN Votes(r) : Votes(r)[j].val \in Int
<1>1. /\ own[r] \in Believe(Agents) /\ proposals[r] \in Seq(Believe(Agents))
      /\ \A k \in DOMAIN proposals[r] :
           proposals[r][k].val # NoValue /\ proposals[r][k] \in Believe(Agents)
  BY ListedProposal DEF SafetyInv, TypeInv, TypeOK, HasValues
<1>2. PICK o, n, props : o = <<own[r]>> /\ props = proposals[r] /\ n = Len(props)
  OBVIOUS
<1>3. /\ o \in Seq(Believe(Agents)) /\ Len(o) = 1 /\ o[1] = own[r]
      /\ props \in Seq(Believe(Agents)) /\ n \in Nat /\ DOMAIN props = 1..n
  BY <1>1, <1>2, LenProperties
<1>4. /\ Votes(r) = o \o props
      /\ Len(Votes(r)) = 1 + n
      /\ DOMAIN Votes(r) = 1..(1 + n)
      /\ \A j \in 1..(1 + n) : Votes(r)[j] = IF j <= 1 THEN o[j] ELSE props[j - 1]
  <2>1. Votes(r) = o \o props
    BY <1>2 DEF Votes
  <2>2. QED BY <1>2, <1>3, <2>1, ConcatProperties, LenProperties
<1>5. IsFiniteSet(1..(1 + n))
  <2>1. 1 \in Int /\ 1 + n \in Int
    BY <1>3
  <2>2. QED BY <2>1, FS_Interval
<1>6. DOMAIN Votes(r) \in SUBSET Nat /\ IsFiniteSet(DOMAIN Votes(r))
  BY <1>3, <1>4, <1>5
<1>7. 1 \in DOMAIN Votes(r) /\ Votes(r)[1] = own[r]
  BY <1>3, <1>4
<1>8. \A k \in DOMAIN proposals[r] :
        k + 1 \in DOMAIN Votes(r) /\ Votes(r)[k + 1] = proposals[r][k]
  BY <1>2, <1>3, <1>4
<1>9. \A j \in DOMAIN Votes(r) :
        j # 1 => j - 1 \in DOMAIN proposals[r] /\ Votes(r)[j] = proposals[r][j - 1]
  BY <1>2, <1>3, <1>4
<1>10. \A b \in Believe(Agents) : b.val # NoValue => b.val \in Int
  <2>1. AnyValue \subseteq Int
    BY DEF AnyValue
  <2>2. ASSUME NEW b \in Believe(Agents), b.val # NoValue PROVE b.val \in Int
    <3>1. b.val \in AnyValue
      BY <2>2 DEF Believe
    <3>2. QED BY <2>1, <3>1
  <2>3. QED BY <2>2
<1>11. \A j \in DOMAIN Votes(r) : Votes(r)[j].val \in Int
  BY <1>1, <1>7, <1>9, <1>10 DEF existsVariable
<1>12. QED BY <1>6, <1>7, <1>8, <1>9, <1>11

\* When all is quiet, every vote a robot counts is the vote its robot has now.
LEMMA QuietVotes ==
  ASSUME ElectionInv, Quiet, \A x \in Agents : IsElection(x), NEW r \in Agents
  PROVE  /\ \A k \in DOMAIN proposals[r] :
              /\ proposals[r][k].id \in Agents
              /\ proposals[r][k].val = own[proposals[r][k].id].val
         /\ \A q \in Others(r) : own[q].val # MinBet => \E k \in DOMAIN proposals[r] : proposals[r][k].id = q
<1>1. /\ SafetyInv /\ TrueVariable(r) /\ VoteVariable(r) /\ Waiting(r) = {}
      /\ \A q \in Others(r) : Silent(q) \/ HeardVote(r, q) \/ WillHear(r, q)
  BY NothingWaits DEF ElectionInv, SafetyInv, TrueVariables, VoteVariables, AllVotesHeard
<1>2. \A q \in Others(r) : Silent(q) \/ HeardVote(r, q)
  BY <1>1 DEF WillHear
<1>3. ASSUME NEW q \in Agents PROVE existsVariable(q) /\ own[q].val \in held[q]
  BY DEF ElectionInv, SafetyInv, TrueVariables, TrueVariable, VoteVariables, VoteVariable
<1>4. ASSUME NEW q \in Agents, Silent(q) PROVE own[q].val = MinBet
  BY <1>3, <1>4 DEF Silent, existsVariable
<1>5. ASSUME NEW k \in DOMAIN proposals[r]
      PROVE  proposals[r][k].id \in Agents /\ proposals[r][k].val = own[proposals[r][k].id].val
  <2>1. /\ proposals[r][k] \in Believe(Agents) /\ proposals[r][k].val # NoValue
        /\ TrueProposal(r, proposals[r][k])
    BY <1>1, ListedProposal DEF SafetyInv, TypeInv, TypeOK, HasValues, TrueVariable
  <2>2. PICK q : q = proposals[r][k].id
    OBVIOUS
  <2>3. q \in Others(r) /\ q \in Agents /\ proposals[r][k].val \in held[q]
    BY <2>1, <2>2 DEF Believe, TrueProposal, Others
  <2>4. CASE Silent(q)
    BY <1>4, <2>1, <2>2, <2>3, <2>4 DEF Silent
  <2>5. CASE HeardVote(r, q)
    <3>1. PICK l \in DOMAIN proposals[r] : proposals[r][l].id = q /\ proposals[r][l].age > own[q].age
      BY <2>5 DEF HeardVote
    <3>2. l = k
      BY <1>1, <2>2, <3>1 DEF TrueVariable
    <3>3. QED BY <1>1, <2>2, <2>3, <3>1, <3>2 DEF VoteVariable, Speaks
  <2>6. QED BY <1>2, <2>2, <2>3, <2>4, <2>5
<1>6. ASSUME NEW q \in Others(r), own[q].val # MinBet
      PROVE  \E k \in DOMAIN proposals[r] : proposals[r][k].id = q
  BY <1>2, <1>4, <1>6 DEF HeardVote, Others
<1>7. QED BY <1>5, <1>6

\* The invariant gives the property.
LEMMA WinnerHasHighestBet == ElectionInv => ElectedHasHighestBet
<1> SUFFICES ASSUME ElectionInv, Quiet, \A x \in Agents : IsElection(x),
                    NEW r \in Agents, NEW q \in Agents, own[q].val > MinBet
             PROVE  getWinner(r) # 0 /\ own[q].val <= own[getWinner(r)].val
  BY DEF ElectedHasHighestBet
<1>1. SafetyInv /\ existsVariable(r) /\ own[r].id = r
  BY DEF ElectionInv, VoteVariables, VoteVariable
<1>2. PICK S, bet : S = DOMAIN Votes(r) /\ bet = [j \in S |-> Votes(r)[j].val]
  OBVIOUS
<1>3. S \in SUBSET Nat /\ IsFiniteSet(S) /\ S # {} /\ \A j \in S : bet[j] \in Int
  BY <1>1, <1>2, VotesCounted
<1>4. ASSUME NEW j \in S
      PROVE  Votes(r)[j].id \in Agents /\ bet[j] = own[Votes(r)[j].id].val
  <2>1. CASE j = 1
    BY <1>1, <1>2, <2>1, VotesCounted
  <2>2. CASE j # 1
    BY <1>1, <1>2, <2>2, VotesCounted, QuietVotes
  <2>3. QED BY <2>1, <2>2
<1>5. MinBet \in Int /\ own[q].val # MinBet
  OBVIOUS
<1>6. PICK i \in S : Votes(r)[i].id = q
  <2>1. CASE q = r
    BY <1>1, <1>2, <2>1, VotesCounted
  <2>2. CASE q # r
    BY <1>1, <1>2, <1>5, <2>2, VotesCounted, QuietVotes DEF Others
  <2>3. QED BY <2>1, <2>2
<1>7. bet[i] = own[q].val
  BY <1>4, <1>6
<1>8. ASSUME NEW k \in S
      PROVE  IsElected(r, k) <=> /\ bet[k] > MinBet
                                 /\ \A j \in S : bet[j] < bet[k] \/ (bet[j] = bet[k] /\ j >= k)
  BY <1>2 DEF IsElected
<1>9. PICK k \in S : \A j \in S : bet[j] < bet[k] \/ (bet[j] = bet[k] /\ j >= k)
  BY <1>3, BestExists
<1>10. bet[k] > MinBet
  <2>1. bet[i] \in Int /\ bet[k] \in Int /\ bet[i] > MinBet /\ bet[i] <= bet[k]
    BY <1>3, <1>7, <1>9
  <2>2. QED BY <1>5, <2>1
<1>11. IsElected(r, k)
  BY <1>8, <1>9, <1>10
<1>12. PICK w : w = CHOOSE n \in S : IsElected(r, n)
  OBVIOUS
<1>13. w \in S /\ IsElected(r, w)
  BY <1>11, <1>12
<1>14. getWinner(r) = Votes(r)[w].id
  BY <1>2, <1>11, <1>12 DEF getWinner
<1>15. getWinner(r) \in Agents /\ bet[w] = own[getWinner(r)].val
  BY <1>4, <1>13, <1>14
<1>16. bet[i] <= bet[w]
  BY <1>3, <1>6, <1>8, <1>13
<1>17. getWinner(r) # 0
  BY <1>15 DEF Broadcast
<1>18. QED BY <1>7, <1>15, <1>16, <1>17

-----------------------------------------------------------------------------
(***************************************************************************)
(* The theorems.                                                           *)
(***************************************************************************)
\* In a team of two the robot an acknowledge comes to is the one whose command it
\* answers.
LEMMA TwoRobotsKnow ==
  ASSUME Cardinality(Agents) <= 2, ElectionInv
  PROVE  KnownBeforeAnswered
<1> SUFFICES ASSUME NEW r \in Agents, NEW n \in Waiting(r), n.kind = "Acknowledge"
             PROVE  existsVariable(r)
  BY DEF KnownBeforeAnswered
<1>1. n.from \in Others(r) /\ VotePacket(n)
  BY WaitingFields, WaitingVotes DEF ElectionInv
<1>2. PICK x \in Others(n.from) : existsVariable(x)
  BY <1>1 DEF VotePacket
<1>3. x = r
  <2> SUFFICES ASSUME x # r PROVE FALSE
    OBVIOUS
  <2>1. PICK one, two, three : one = {r} /\ two = one \cup {n.from} /\ three = two \cup {x}
    OBVIOUS
  <2>2. IsFiniteSet(one) /\ Cardinality(one) = 1
    BY <2>1, FS_Singleton
  <2>3. n.from \notin one /\ x \notin two /\ three \subseteq Agents
    BY <1>1, <2>1 DEF Others
  <2>4. IsFiniteSet(two) /\ Cardinality(two) = 2
    <3>1. /\ IsFiniteSet(one \cup {n.from})
          /\ Cardinality(one \cup {n.from}) =
               IF n.from \in one THEN Cardinality(one) ELSE Cardinality(one) + 1
      BY <2>2, FS_AddElement, Zenon
    <3>2. QED BY <2>1, <2>2, <2>3, <3>1
  <2>5. Cardinality(three) = 3
    <3>1. Cardinality(two \cup {x}) = IF x \in two THEN Cardinality(two) ELSE Cardinality(two) + 1
      BY <2>4, FS_AddElement, Zenon
    <3>2. QED BY <2>1, <2>3, <2>4, <3>1
  <2>6. Cardinality(three) <= Cardinality(Agents)
    BY <2>3, FS_Subset
  <2>7. Cardinality(Agents) \in Nat
    BY FS_CardinalityType
  <2>8. QED BY <2>5, <2>6, <2>7
<1>4. QED BY <1>2, <1>3

\* Fire-and-forget elections are not acknowledged.
LEMMA UnacknowledgedKnow ==
  ASSUME ~Acknowledged, ElectionInv
  PROVE  KnownBeforeAnswered
<1>1. ASSUME NEW r \in Agents, NEW n \in Waiting(r) PROVE n.kind # "Acknowledge"
  BY WaitingVotes DEF ElectionInv, VotePacket
<1>2. QED BY <1>1 DEF KnownBeforeAnswered

LEMMA ElectionsKnow ==
  ASSUME Levels \subseteq ElectionStrategies, ElectionInv,
         Cardinality(Agents) <= 2 \/ \A s \in Levels : s <= FireAndForget
  PROVE  KnownBeforeAnswered
<1>1. ASSUME \A s \in Levels : s <= FireAndForget PROVE ~Acknowledged
  BY <1>1 DEF Acknowledged, FireAndForget, ElectionStrategies
<1>2. QED BY <1>1, TwoRobotsKnow, UnacknowledgedKnow

\* Election::getWinner, for any team: as long as no robot hears of the election from
\* an acknowledge before it has heard a command (ShortAckJob::doVariableUpdate would
\* then make the vote of another robot its own), whomever a robot names the winner
\* when all is quiet has the highest bet.
THEOREM ElectedHighestIfKnown ==
  ASSUME Levels \subseteq ElectionStrategies
  PROVE  Spec /\ []KnownBeforeAnswered => []ElectedHasHighestBet
<1>1. ElectionInv /\ KnownBeforeAnswered /\ [Next]_vars => ElectionInv'
  BY ElectionInvStep
<1>2. QED BY <1>1, ElectionInvInit, WinnerHasHighestBet, PTL DEF Spec

\* Election::getWinner: in an election of two robots, and in a fire-and-forget election
\* of any number, whomever a robot names the winner when all is quiet has the highest
\* bet, whatever was repeated, reordered or sent again, and however often the robots
\* have bid.
THEOREM ElectedHighest ==
  ASSUME Levels \subseteq ElectionStrategies,
         Cardinality(Agents) <= 2 \/ \A s \in Levels : s <= FireAndForget
  PROVE  Spec => []ElectedHasHighestBet
<1>1. ElectionInv /\ [Next]_vars => ElectionInv'
  BY ElectionInvStep, ElectionsKnow
<1>2. QED BY <1>1, ElectionInvInit, WinnerHasHighestBet, PTL DEF Spec

\* A step changes the vote of a robot to a bet only if a user distributes.
LEMMA StepVotesOwn ==
  ASSUME Levels \subseteq ElectionStrategies, ElectionInv, KnownBeforeAnswered, [Next]_vars
  PROVE  [\A r \in Agents : own'[r].val \in {own[r].val, MinBet} \/ commands' # commands]_vars
<1>1. CASE UNCHANGED vars
  BY <1>1
<1>2. CASE Next
  <2>1. SafetyInv' /\ Grows
    BY <1>2, SafetyInvStep DEF ElectionInv
  <2>2. PICK w \in Agents : VoteStep(w)
    BY <1>2, <2>1, NextVotes
  <2>3. ASSUME NEW r \in Agents
        PROVE  own'[r].val \in {own[r].val, MinBet} \/ commands' # commands
    BY <2>2 DEF VoteStep, KeepsVote, FirstVote, Bids
  <2>4. QED BY <2>3
<1>3. QED BY <1>1, <1>2

\* CommandAcknowledgeJob::doVariableUpdate and ConsensusVariable::acceptElection, for
\* any team: as long as no robot hears of the election from an acknowledge first, a
\* vote becomes a bet only by its own user.  The run election_violated shows that the
\* condition is needed.
THEOREM VotesOwnIfKnown ==
  ASSUME Levels \subseteq ElectionStrategies
  PROVE  Spec /\ []KnownBeforeAnswered => VotesAreOwn
<1>1. ElectionInv /\ KnownBeforeAnswered /\ [Next]_vars => ElectionInv'
  BY ElectionInvStep
<1>2. ElectionInv /\ KnownBeforeAnswered /\ [Next]_vars =>
        [Levels \subseteq ElectionStrategies =>
           \A r \in Agents : own'[r].val \in {own[r].val, MinBet} \/ commands' # commands]_vars
  BY StepVotesOwn
<1>3. QED BY <1>1, <1>2, ElectionInvInit, PTL DEF Spec, VotesAreOwn

\* CommandAcknowledgeJob::doVariableUpdate and ConsensusVariable::acceptElection: in a
\* team of two, and in fire-and-forget elections of any team, a vote becomes a bet only
\* by its own user, without a condition.
THEOREM VotesOwn ==
  ASSUME Levels \subseteq ElectionStrategies,
         Cardinality(Agents) <= 2 \/ \A s \in Levels : s <= FireAndForget
  PROVE  Spec => VotesAreOwn
<1>1. ElectionInv /\ [Next]_vars => ElectionInv'
  BY ElectionInvStep, ElectionsKnow
<1>2. ElectionInv /\ [Next]_vars =>
        [Levels \subseteq ElectionStrategies =>
           \A r \in Agents : own'[r].val \in {own[r].val, MinBet} \/ commands' # commands]_vars
  BY StepVotesOwn, ElectionsKnow
<1>3. QED BY <1>1, <1>2, ElectionInvInit, PTL DEF Spec, VotesAreOwn
=============================================================================
