---------------------------- MODULE CaceProtocol ----------------------------
(***************************************************************************)
(* How the robots of a team agree on a variable with cace: one variable,   *)
(* replicated in every robot's store, distributed with commands,           *)
(* acknowledgements (two way) and short acknowledgements (three way), and  *)
(* retried by the jobs of each robot's CommunicationWorker.                *)
(*                                                                         *)
(* The network is UDP multicast: net[r] holds the packets under way to     *)
(* robot r.  A packet may be taken in any order, never (it is lost), or    *)
(* twice (bounded by MaxDups).  Every robot hears every packet; a packet   *)
(* for another robot only moves the Lamport clock.                         *)
(*                                                                         *)
(* Each handler, each process() of a job and each call of the user is one  *)
(* step: handlers run on the threads of the multicast channels and jobs on *)
(* the timer thread, so the steps of one robot interleave in any order.    *)
(***************************************************************************)
EXTENDS ConsensusVariable, SequencesExt

CONSTANTS
  Agents,         \* robot ids
  Levels,         \* the strategies users distribute with
  DecissionTimes, \* values of TimeManager::getDistributedTime()
  CommandRetrys,  \* CommandJob::maxRetrys
  AckRetrys,      \* CommandAcknowledgeJob::maxRetrys
  SafeStepRobots, \* robots with Cace::safeStepMode set
  EngagedFirst,   \* every agentEngangement happened before the first command
  MaxCommands,    \* bound: calls that distribute the variable
  MaxResends,     \* bound: packets sent again by jobs
  MaxDups         \* bound: packets the network delivers twice

Broadcast == 0

ASSUME AgentsAssumption == Agents \subseteq Nat \ {Broadcast} /\ IsFiniteSet(Agents)
ASSUME LevelsAssumption == Levels \subseteq Strategies
ASSUME TimesAssumption == DecissionTimes \subseteq Nat
ASSUME BoundsAssumption == CommandRetrys \in Nat /\ AckRetrys \in Nat
                            /\ MaxCommands \in Nat /\ MaxResends \in Nat /\ MaxDups \in Nat
ASSUME ModesAssumption == SafeStepRobots \subseteq Agents /\ EngagedFirst \in BOOLEAN

VARIABLES
  clock,        \* TimeManager::lamportTime
  activeRobots, \* Cace::activeRobots
  own,          \* the variable in the store: the robot's own believe
  proposals,    \* its proposals
  jobs,         \* CommunicationWorker::jobs
  shortAcks,    \* CaceCommunication::shortAcks
  net,          \* packets under way to each robot
  commands,     \* number of calls that distributed the variable
  resends,      \* number of packets sent again
  dups,         \* number of packets delivered twice
  held,         \* history: the values a robot's own believe has had
  noted         \* history: the acknowledges (and writes) put through doVariableUpdate

vars == <<clock, activeRobots, own, proposals, jobs, shortAcks, net, commands, resends, dups,
          held, noted>>

Others(r) == Agents \ {r}

\* The variable is not in the store.
Absent(r) == [id |-> r, val |-> NoValue, age |-> 0, strat |-> NoDistribution, dec |-> 0]
existsVariable(r) == own[r].val # NoValue

-----------------------------------------------------------------------------
(***************************************************************************)
(* Messages.                                                               *)
(***************************************************************************)
CaceCommand(r, to, id, v, level, dec, stamp) ==
  [kind |-> "Command", from |-> r, to |-> to, msgID |-> id, val |-> v,
   level |-> level, dec |-> dec, stamp |-> stamp]

CaceAcknowledge(r, to, id, v, stamp) ==
  [kind |-> "Acknowledge", from |-> r, to |-> to, msgID |-> id, val |-> v, stamp |-> stamp]

CaceShortAck(r, to, id, stamp) ==
  [kind |-> "ShortAck", from |-> r, to |-> to, msgID |-> id, stamp |-> stamp]

\* FAULT: the clock ignores what it hears.
Seen_Ignored(c, stamp) == c

\* updateLamportTime
Seen(c, stamp) == IF c < stamp THEN stamp + 1 ELSE c

\* (short)((lamportTime + 100) * ownID), as an unsigned number.
MsgID(r) == ((clock[r] + 100) * r) % 65536

\* publish: everybody but the sender gets the packets (its own copies come back
\* too, but the sender has itself on the blacklist).
Multicast(n, r, packets) ==
  [q \in Agents |-> IF q = r THEN n[q] ELSE n[q] \cup packets]

\* Robot r takes packet m off the network and sends packets.
Receive(r, m, packets) ==
  /\ m \in net[r]
  /\ \/ net' = Multicast([net EXCEPT ![r] = @ \ {m}], r, packets) /\ UNCHANGED dups
     \/ /\ dups < MaxDups
        /\ dups' = dups + 1
        /\ net' = Multicast(net, r, packets)

Addressed(r, m) == m.to \in {Broadcast, r}

-----------------------------------------------------------------------------
(***************************************************************************)
(* Jobs.  retrys is the list of JobStateEntity: how often the job may      *)
(* still send to each robot it started with.                               *)
(***************************************************************************)
CommandJob(id, v, robots, stamp, retrys) ==
  [kind |-> "CommandJob", msgID |-> id, val |-> v, expected |-> robots,
   stamp |-> stamp, retrys |-> retrys]

CommandAcknowledgeJob(cmd, robots, stamp, retrys, started) ==
  [kind |-> "CommandAcknowledgeJob", cmd |-> cmd, expected |-> robots,
   stamp |-> stamp, retrys |-> retrys, started |-> started]

ShortAckJob(ack) == [kind |-> "ShortAckJob", ack |-> ack]

\* FAULT: the first sending is counted on top of the retries.
FullRetrys_OneMore(robots, n) == [q \in robots |-> n + 1]

FullRetrys(robots, n) == [q \in robots |-> n]
NoRetrys == [q \in {} |-> 0]

\* FAULT: the last retry is not used.
Retryable_OneLess(j) == {q \in j.expected \cap DOMAIN j.retrys : j.retrys[q] > 1}

\* The expected robots a job may still send to (their retrys sum to remainingRetrys).
Retryable(j) == {q \in j.expected \cap DOMAIN j.retrys : j.retrys[q] > 0}

\* FAULT: retries are not counted.
Resent_Uncounted(j, late) == j

\* The job after sending once more to the robots in late.
Resent(j, late) ==
  [j EXCEPT !.retrys = [q \in DOMAIN j.retrys |->
                          IF q \in late THEN j.retrys[q] - 1 ELSE j.retrys[q]]]

appendJob(r, j) == jobs' = [jobs EXCEPT ![r] = Append(@, j)]
eraseJob(r, i) == jobs' = [jobs EXCEPT ![r] = RemoveAt(@, i)]
replaceJob(r, i, j) == jobs' = [jobs EXCEPT ![r] = [@ EXCEPT ![i] = j]]

\* The resend timers of the robots in late have run out: packets go out again.
resend(r, late, packets) ==
  /\ resends + Cardinality(late) <= MaxResends
  /\ resends' = resends + Cardinality(late)
  /\ net' = Multicast(net, r, packets)

-----------------------------------------------------------------------------
(***************************************************************************)
(* doVariableUpdate of CommandAcknowledgeJob and of ShortAckJob: note the  *)
(* sender's believe unless it is stale, and accept proposals if that was   *)
(* news.  A robot that does not know the variable creates it.              *)
(***************************************************************************)
Heard(m, strat, dec) ==
  [id |-> m.from, val |-> m.val, age |-> m.stamp, strat |-> strat, dec |-> dec]

\* FAULT: stale believes are taken.
News_AnyAge(r, m, k) == proposals[r][k].id = m.from

News(r, m, k) == proposals[r][k].id = m.from /\ proposals[r][k].age < m.stamp

\* FAULT: a proposal counts as found only when it is renewed.
Known_IfRenewed(r, m) == \E k \in DOMAIN proposals[r] : News(r, m, k)

Known(r, m) == \E k \in DOMAIN proposals[r] : proposals[r][k].id = m.from

ProposalsAfterCommand(r, m) ==
  LET b == Heard(m, m.level, m.dec) IN
  IF Known(r, m)
  THEN [k \in DOMAIN proposals[r] |-> IF News(r, m, k) THEN b ELSE proposals[r][k]]
  ELSE Append(proposals[r], b)

ProposalsAfterAck(r, m) ==
  IF Known(r, m)
  THEN [k \in DOMAIN proposals[r] |->
          IF News(r, m, k) THEN Heard(m, proposals[r][k].strat, LongMax) ELSE proposals[r][k]]
  ELSE Append(proposals[r],
              IF existsVariable(r) THEN Heard(m, own[r].strat, own[r].dec)
                                   ELSE Heard(m, ThreeWayHandShake, LongMax))

\* The own believe acceptProposals starts from: the stored one, or the one a robot
\* creates for an unknown variable.  An election starts from no vote, every
\* other strategy from the value it was told.
CreatedByCommand(r, m) ==
  [id |-> r, val |-> IF m.level \in ElectionStrategies THEN MinBet ELSE m.val,
   age |-> m.stamp, strat |-> m.level, dec |-> m.dec]

CreatedByAck(r, m) ==
  [id |-> r, val |-> m.val, age |-> 0, strat |-> ThreeWayHandShake, dec |-> LongMax - 1]

OwnBefore(r, created) == IF existsVariable(r) THEN own[r] ELSE created

DoVariableUpdate(r, created, props) ==
  /\ proposals' = [proposals EXCEPT ![r] = props]
  /\ \E b \in IF props = proposals[r] THEN {own[r]}
              ELSE AcceptProposals(OwnBefore(r, created), props) :
       /\ own' = [own EXCEPT ![r] = b]
       /\ held' = [held EXCEPT ![r] = @ \cup {b.val}]

UpdateByCommand(r, m) ==
  /\ DoVariableUpdate(r, CreatedByCommand(r, m), ProposalsAfterCommand(r, m))
  /\ UNCHANGED noted

UpdateByAck(r, m) ==
  /\ DoVariableUpdate(r, CreatedByAck(r, m), ProposalsAfterAck(r, m))
  /\ noted' = [noted EXCEPT ![r] = @ \cup {[from |-> m.from, msgID |-> m.msgID]}]

KeepVariable == UNCHANGED <<own, proposals, held, noted>>

-----------------------------------------------------------------------------
(***************************************************************************)
(* Calls of the user.                                                      *)
(***************************************************************************)
\* FAULT: the packet is stamped, the clock does not tick.
NewCommandJob_NoTick(r, b) ==
  LET sends == b.strat > NoDistribution
      L == clock[r]
  IN /\ commands < MaxCommands
     /\ commands' = commands + 1
     /\ UNCHANGED clock
     /\ net' = IF sends
               THEN Multicast(net, r,
                      {CaceCommand(r, Broadcast, MsgID(r), b.val, b.strat, b.dec, L + 1)})
               ELSE net
     /\ appendJob(r, CommandJob(MsgID(r), b.val, activeRobots[r], L,
                       IF sends THEN FullRetrys(activeRobots[r], CommandRetrys) ELSE NoRetrys))

\* The command both calls below enqueue: sent at construction, one tick after the
\* stamp the job and (in distributeValue) the own believe keep.
NewCommandJob(r, b) ==
  LET sends == b.strat > NoDistribution
      L == clock[r]
  IN /\ commands < MaxCommands
     /\ commands' = commands + 1
     /\ clock' = [clock EXCEPT ![r] = IF sends THEN L + 1 ELSE L]
     /\ net' = IF sends
               THEN Multicast(net, r,
                      {CaceCommand(r, Broadcast, MsgID(r), b.val, b.strat, b.dec, L + 1)})
               ELSE net
     /\ appendJob(r, CommandJob(MsgID(r), b.val, activeRobots[r], L,
                       IF sends THEN FullRetrys(activeRobots[r], CommandRetrys) ELSE NoRetrys))

\* CaceSpace::distributeValue
distributeValue(r, v, s, t) ==
  LET b == [id |-> r, val |-> v, age |-> clock[r], strat |-> s, dec |-> t] IN
  /\ own' = [own EXCEPT ![r] = b]
  /\ held' = [held EXCEPT ![r] = @ \cup {v}]
  /\ NewCommandJob(r, b)
  /\ UNCHANGED <<activeRobots, proposals, shortAcks, resends, dups, noted>>

\* CaceSpace::distributeVariable of the variable in the store: the believe is sent
\* again as it is, with its old age.
distributeVariable(r) ==
  /\ existsVariable(r)
  /\ NewCommandJob(r, own[r])
  /\ KeepVariable
  /\ UNCHANGED <<activeRobots, shortAcks, resends, dups>>

\* Cace::agentEngangement without believe updates.
agentEngangement(r, q) ==
  /\ q \in Others(r) \ activeRobots[r]
  /\ activeRobots' = [activeRobots EXCEPT ![r] = @ \cup {q}]
  /\ KeepVariable
  /\ UNCHANGED <<clock, jobs, shortAcks, net, commands, resends, dups>>

-----------------------------------------------------------------------------
(***************************************************************************)
(* Handlers, on the threads of the multicast channels.                     *)
(***************************************************************************)
\* Any handler, for a packet addressed to another robot.
Overhear(r, m) ==
  /\ ~Addressed(r, m)
  /\ Receive(r, m, {})
  /\ clock' = [clock EXCEPT ![r] = Seen(@, m.stamp)]
  /\ KeepVariable
  /\ UNCHANGED <<activeRobots, jobs, shortAcks, commands, resends>>

handleCaceCommand(r, m) ==
  LET c == Seen(clock[r], m.stamp)
      acks == m.level > FireAndForget
  IN /\ m.kind = "Command"
     /\ Addressed(r, m)
     /\ clock' = [clock EXCEPT ![r] = c]
     /\ \/ /\ r \in SafeStepRobots
           /\ Receive(r, m, {})
           /\ KeepVariable
           /\ appendJob(r, CommandAcknowledgeJob(m, activeRobots[r], c, NoRetrys, FALSE))
        \/ /\ r \notin SafeStepRobots
           /\ UpdateByCommand(r, m)
           /\ Receive(r, m, IF acks THEN {CaceAcknowledge(r, Broadcast, m.msgID, own'[r].val, c)}
                                    ELSE {})
           /\ appendJob(r, CommandAcknowledgeJob(m, activeRobots[r], c,
                             IF acks THEN FullRetrys(activeRobots[r], AckRetrys) ELSE NoRetrys, TRUE))
     /\ UNCHANGED <<activeRobots, shortAcks, commands, resends>>

\* Without safeStepMode the ShortAckJob does its work here, and its process() only
\* removes it: that job is left out.
handleCaceAcknowledge(r, m) ==
  LET c == Seen(clock[r], m.stamp) IN
  /\ m.kind = "Acknowledge"
  /\ Addressed(r, m)
  /\ \/ /\ r \in SafeStepRobots
        /\ Receive(r, m, {})
        /\ clock' = [clock EXCEPT ![r] = c]
        /\ KeepVariable
        /\ appendJob(r, ShortAckJob(m))
     \/ /\ r \notin SafeStepRobots
        /\ UpdateByAck(r, m)
        /\ IF own'[r].strat > TwoWayHandShake
           THEN /\ clock' = [clock EXCEPT ![r] = c + 1]
                /\ Receive(r, m, {CaceShortAck(r, m.from, m.msgID, c + 1)})
           ELSE /\ clock' = [clock EXCEPT ![r] = c]
                /\ Receive(r, m, {})
        /\ UNCHANGED jobs
  /\ UNCHANGED <<activeRobots, shortAcks, commands, resends>>

handleCaceShortAck(r, m) ==
  /\ m.kind = "ShortAck"
  /\ Addressed(r, m)
  /\ Receive(r, m, {})
  /\ clock' = [clock EXCEPT ![r] = Seen(@, m.stamp)]
  /\ shortAcks' = [shortAcks EXCEPT ![r] = @ \cup {[from |-> m.from, msgID |-> m.msgID]}]
  /\ KeepVariable
  /\ UNCHANGED <<activeRobots, jobs, commands, resends>>

-----------------------------------------------------------------------------
(***************************************************************************)
(* process() of the i-th job, on the timer thread.                         *)
(***************************************************************************)
\* FAULT: any proposal of a robot counts as its answer.
Unanswered_AnyAge(r, j) ==
  {q \in j.expected : ~ \E k \in DOMAIN proposals[r] : proposals[r][k].id = q}

\* CommandJob: a robot whose proposal is not older than the job need not be told.
\* The strategy is the one the variable has now.
Unanswered(r, j) ==
  {q \in j.expected :
     ~ \E k \in DOMAIN proposals[r] : proposals[r][k].id = q /\ proposals[r][k].age >= j.stamp}

processCommandJob(r, i) ==
  LET j == [jobs[r][i] EXCEPT !.expected = Unanswered(r, jobs[r][i])]
      acked == own[r].strat > FireAndForget
  IN /\ jobs[r][i].kind = "CommandJob"
     /\ \/ /\ Retryable(j) = {} \/ ~acked
           /\ eraseJob(r, i)
           /\ UNCHANGED <<net, resends>>
        \/ /\ Retryable(j) # {} /\ acked
           /\ \E late \in SUBSET Retryable(j) :
                /\ resend(r, late, {CaceCommand(r, q, j.msgID, j.val, own[r].strat, own[r].dec,
                                               j.stamp) : q \in late})
                /\ replaceJob(r, i, Resent(j, late))
     /\ KeepVariable
     /\ UNCHANGED <<clock, activeRobots, shortAcks, commands, dups>>

\* FAULT: short acks of other messages count.
Answered_AnyMessage(r, id) == {a.from : a \in shortAcks[r]}

\* CommandAcknowledgeJob: robots that sent a short ack for the message id.
Answered(r, id) == {a.from : a \in {b \in shortAcks[r] : b.msgID = id}}

TakeShortAcks(r, id) ==
  shortAcks' = [shortAcks EXCEPT ![r] = {b \in @ : b.msgID # id}]

AckDone(j) == Retryable(j) = {} \/ j.cmd.level <= TwoWayHandShake

\* In safeStepMode the first process() does the update and sends the acknowledge.
startCommandAcknowledgeJob(r, i) ==
  LET m == jobs[r][i].cmd
      acks == m.level > FireAndForget
      c == IF acks THEN clock[r] + 1 ELSE clock[r]
      remaining == jobs[r][i].expected \ Answered(r, m.msgID)
      j == [jobs[r][i] EXCEPT !.started = TRUE, !.stamp = c, !.expected = remaining,
              !.retrys = IF acks THEN FullRetrys(jobs[r][i].expected, AckRetrys) ELSE NoRetrys]
  IN /\ jobs[r][i].kind = "CommandAcknowledgeJob"
     /\ ~jobs[r][i].started
     /\ UpdateByCommand(r, m)
     /\ clock' = [clock EXCEPT ![r] = c]
     /\ net' = Multicast(net, r,
          IF acks THEN {CaceAcknowledge(r, Broadcast, m.msgID, own'[r].val, c)} ELSE {})
     /\ TakeShortAcks(r, m.msgID)
     /\ IF AckDone(j) THEN eraseJob(r, i) ELSE replaceJob(r, i, j)
     /\ UNCHANGED <<activeRobots, commands, resends, dups>>

processCommandAcknowledgeJob(r, i) ==
  LET id == jobs[r][i].cmd.msgID
      j == [jobs[r][i] EXCEPT !.expected = @ \ Answered(r, id)]
  IN /\ jobs[r][i].kind = "CommandAcknowledgeJob"
     /\ jobs[r][i].started
     /\ TakeShortAcks(r, id)
     /\ \E late \in SUBSET Retryable(j) :
          /\ resend(r, late, {CaceAcknowledge(r, q, id, own[r].val, j.stamp) : q \in late})
          /\ IF AckDone(j) THEN eraseJob(r, i) ELSE replaceJob(r, i, Resent(j, late))
     /\ KeepVariable
     /\ UNCHANGED <<clock, activeRobots, commands, dups>>

\* ShortAckJob, in safeStepMode.
processShortAckJob(r, i) ==
  LET m == jobs[r][i].ack IN
  /\ jobs[r][i].kind = "ShortAckJob"
  /\ UpdateByAck(r, m)
  /\ IF own'[r].strat > TwoWayHandShake
     THEN /\ clock' = [clock EXCEPT ![r] = @ + 1]
          /\ net' = Multicast(net, r, {CaceShortAck(r, m.from, m.msgID, clock[r] + 1)})
     ELSE UNCHANGED <<clock, net>>
  /\ eraseJob(r, i)
  /\ UNCHANGED <<activeRobots, shortAcks, commands, resends, dups>>

-----------------------------------------------------------------------------
Init ==
  /\ clock = [r \in Agents |-> 1]
  /\ activeRobots = [r \in Agents |-> IF EngagedFirst THEN Others(r) ELSE {}]
  /\ own = [r \in Agents |-> Absent(r)]
  /\ proposals = [r \in Agents |-> <<>>]
  /\ jobs = [r \in Agents |-> <<>>]
  /\ shortAcks = [r \in Agents |-> {}]
  /\ net = [r \in Agents |-> {}]
  /\ commands = 0
  /\ resends = 0
  /\ dups = 0
  /\ held = [r \in Agents |-> {}]
  /\ noted = [r \in Agents |-> {}]

Call(r) ==
  \/ \E v \in Values, s \in Levels, t \in DecissionTimes : distributeValue(r, v, s, t)
  \/ distributeVariable(r)
  \/ \E q \in Agents : agentEngangement(r, q)

Handle(r, m) ==
  \/ Overhear(r, m)
  \/ handleCaceCommand(r, m)
  \/ handleCaceAcknowledge(r, m)
  \/ handleCaceShortAck(r, m)

Process(r, i) ==
  \/ processCommandJob(r, i)
  \/ startCommandAcknowledgeJob(r, i)
  \/ processCommandAcknowledgeJob(r, i)
  \/ processShortAckJob(r, i)

Next ==
  \E r \in Agents :
    \/ Call(r)
    \/ \E m \in net[r] : Handle(r, m)
    \/ \E i \in DOMAIN jobs[r] : Process(r, i)

Spec == Init /\ [][Next]_vars

\* No job is left and no packet is under way.
Quiet == \A r \in Agents : jobs[r] = <<>> /\ net[r] = {}

-----------------------------------------------------------------------------
(***************************************************************************)
(* Types.                                                                  *)
(***************************************************************************)
\* The packets of all channels.  Those of BelieveUpdate and RemoteAccess are under way
\* together with those of the commands: every robot overhears them.  A notification
\* sent again is addressed to the number of its message.
Message ==
  [kind : {"Command", "Write"}, from : Agents, to : Agents \cup {Broadcast}, msgID : Nat,
   val : AnyValue, level : Strategies, dec : Nat, stamp : Nat]
  \cup [kind : {"Acknowledge"}, from : Agents, to : Agents \cup {Broadcast}, msgID : Nat,
        val : AnyValue, stamp : Nat]
  \cup [kind : {"ShortAck"}, from : Agents, to : Agents \cup {Broadcast}, msgID : Nat, stamp : Nat]
  \cup [kind : {"Notification"}, from : Agents, to : Nat, msgID : Nat, val : AnyValue,
        level : Strategies, dec : Nat, stamp : Nat]
  \cup [kind : {"Request"}, from : Agents, to : Agents, msgID : Nat, stamp : {0}]
  \cup [kind : {"Response"}, from : Agents, to : Agents, msgID : Nat,
        val : AnyValue \cup {NoValue}, level : Strategies, dec : Nat, stamp : Nat]

Retrys(n) == UNION {[S -> 0..n] : S \in SUBSET Agents}

Packet(kind) == {m \in Message : m.kind = kind}

\* The jobs of all kinds: one worker processes them.
Job ==
  [kind : {"CommandJob"}, msgID : Nat, val : AnyValue, expected : SUBSET Agents, stamp : Nat,
   retrys : Retrys(CommandRetrys)]
  \cup [kind : {"CommandAcknowledgeJob"}, cmd : Packet("Command"), expected : SUBSET Agents,
        stamp : Nat, retrys : Retrys(AckRetrys), started : BOOLEAN]
  \cup [kind : {"ShortAckJob"}, ack : Packet("Acknowledge")]
  \cup [kind : {"BelieveNotificationJob"}, msgID : Nat, expected : SUBSET Agents, stamp : Nat,
        retrys : Retrys(CommandRetrys)]
  \cup [kind : {"BelieveAcknowledgeJob"}, notification : Packet("Notification"),
        expected : SUBSET Agents, stamp : Nat, retrys : Retrys(CommandRetrys), started : BOOLEAN]
  \cup [kind : {"RequestJob"}, msgID : Nat, expected : SUBSET Agents, retrys : Retrys(CommandRetrys)]
  \cup [kind : {"WriteJob"}, msgID : Nat, variable : Believe(Agents), expected : SUBSET Agents,
        retrys : Retrys(CommandRetrys)]
  \cup [kind : {"WriteAckJob"}, cmd : Packet("Write")]

\* A sender and a message id: a short ack in the list, or a packet noted.
Receipt == [from : Agents, msgID : Nat]

TypeOK ==
  /\ clock \in [Agents -> Nat]
  /\ activeRobots \in [Agents -> SUBSET Agents]
  /\ own \in [Agents -> Believe(Agents)]
  /\ proposals \in [Agents -> Seq(Believe(Agents))]
  /\ jobs \in [Agents -> Seq(Job)]
  /\ shortAcks \in [Agents -> SUBSET Receipt]
  /\ net \in [Agents -> SUBSET Message]
  /\ commands \in 0..MaxCommands
  /\ resends \in 0..MaxResends
  /\ dups \in 0..MaxDups
  /\ held \in [Agents -> SUBSET (AnyValue \cup {NoValue})]
  /\ noted \in [Agents -> SUBSET Receipt]

-----------------------------------------------------------------------------
(***************************************************************************)
(* Safety.                                                                 *)
(***************************************************************************)
\* Lamport time dominates the stamps (TimeManager::updateLamportTime, sendCace*):
\* no robot has put a stamp on a packet, and nobody has recorded a stamp of it,
\* that its own clock has not reached; and no robot holds a believe or a proposal
\* stamped later than its own clock.  So what a user distributes next is at least
\* as new as everything its robot knows.
ClockDominates ==
  \A r \in Agents :
    /\ own[r].age <= clock[r]
    /\ \A m \in net[r] : m.stamp <= clock[m.from]
    /\ \A k \in DOMAIN proposals[r] :
         /\ proposals[r][k].age <= clock[r]
         /\ proposals[r][k].age <= clock[proposals[r][k].id]

\* "List of all Robots' proposals": one proposal for each other robot, none for
\* the robot itself, however often and in whatever order packets arrive.
\* isAcknowledged counts proposals and relies on it.
OneProposalPerRobot ==
  \A r \in Agents : \A k \in DOMAIN proposals[r] :
    /\ proposals[r][k].id # r
    /\ \A l \in DOMAIN proposals[r] : proposals[r][l].id = proposals[r][k].id => l = k

Agreed(r) == existsVariable(r) /\ isAgreed(own[r], proposals[r], activeRobots[r])

\* When isAgreed says that the whole team agrees, every robot of the team has had
\* that value as its own believe: agreement is never claimed with a robot that
\* never took part, whatever was lost, repeated or reordered.  (Not with robots
\* that still hold the value: see AgreedMeansEqual.)
AgreedMeansHeld ==
  \A r \in Agents :
    Agreed(r) /\ activeRobots[r] = Others(r) =>
      \A q \in Others(r) : own[r].val \in held[q]

\* When users distribute one value at a time, each when all that the one before has
\* caused is over, a fully engaged team converges: whenever all is quiet, a value that
\* one robot holds is held by all.  The stamps make each command newer
\* than all that the one before left behind, so no robot ignores it.
SequentialUseConverges ==
  Quiet /\ (\A r \in Agents : activeRobots[r] = Others(r)) =>
    \A r, q \in Agents : existsVariable(r) => own[q].val = own[r].val

\* CommandJob::process: as long as the job lives, each robot struck from its list
\* has a proposal not older than the job, that is, the reason to strike it stays.
StruckHaveAnswered ==
  \A r \in Agents : \A i \in DOMAIN jobs[r] :
    jobs[r][i].kind = "CommandJob" =>
      \A q \in DOMAIN jobs[r][i].retrys \ jobs[r][i].expected :
        \E k \in DOMAIN proposals[r] :
          proposals[r][k].id = q /\ proposals[r][k].age >= jobs[r][i].stamp

\* A command that is to be acknowledged is given up only when every robot it was
\* meant for has answered with something not older, or has been sent the command
\* as often as retries allow.
CommandEndsAnswered ==
  [][\A r \in Agents : \A i \in DOMAIN jobs[r] :
       processCommandJob(r, i) /\ Len(jobs'[r]) < Len(jobs[r]) /\ own[r].strat > FireAndForget =>
         \A q \in DOMAIN jobs[r][i].retrys :
           \/ jobs[r][i].retrys[q] = 0
           \/ \E k \in DOMAIN proposals[r] :
                proposals[r][k].id = q /\ proposals[r][k].age >= jobs[r][i].stamp]_vars

\* The retries with which a CommandAcknowledgeJob goes into its next process().
RetrysLeft(j) == IF j.started THEN j.retrys ELSE FullRetrys(j.expected, AckRetrys)

\* CommandAcknowledgeJob::process, the third way of the handshake: an acknowledge is
\* given up only when every robot it was meant for has noted, in its own store, an
\* acknowledge of this robot for this command, or retries are used up.
AcknowledgeEndsNoted ==
  [][\A r \in Agents : \A i \in DOMAIN jobs[r] :
       /\ startCommandAcknowledgeJob(r, i) \/ processCommandAcknowledgeJob(r, i)
       /\ Len(jobs'[r]) < Len(jobs[r])
       /\ jobs[r][i].cmd.level > TwoWayHandShake
       => \A q \in DOMAIN RetrysLeft(jobs[r][i]) :
            \/ RetrysLeft(jobs[r][i])[q] = 0
            \/ [from |-> r, msgID |-> jobs[r][i].cmd.msgID] \in noted[q]]_vars

\* A proposal is only ever replaced by a later one of the same robot: a packet that
\* comes late or twice changes nothing (the test var->getLamportAge() <
\* lamportTime of the two doVariableUpdate).
ProposalsOnlyRenewed ==
  [][\A r \in Agents : \A k \in DOMAIN proposals[r] :
       /\ k \in DOMAIN proposals'[r]
       /\ \/ proposals'[r][k] = proposals[r][k]
          \/ /\ proposals'[r][k].id = proposals[r][k].id
             /\ proposals'[r][k].age > proposals[r][k].age]_vars

\* With the default accept strategy the own believe never goes back to an older
\* stamp: not by a late packet, not by a resend, not by what the user distributes.
BelieveNeverOlder ==
  [][Levels \subseteq DefaultStrategies =>
       \A r \in Agents : own'[r].age >= own[r].age]_vars

(***************************************************************************)
(* Liveness, under the fairness of the timer thread (BelieveUpdate).       *)
(***************************************************************************)
\* Once users stop distributing, every job ends (it is answered or has used up its
\* retries): the list of each CommunicationWorker drains for good.
JobsFinish == <>[](\A r \in Agents : jobs[r] = <<>>)

(***************************************************************************)
(* What the header of ConsensusVariable says of isAgreed; the code does    *)
(* not achieve it.                                                         *)
(***************************************************************************)
\* isAgreed: "Returns whether the current Variable believe is known to all other
\* agents and they agree to our believe (i.e. they have an equal believe)"; here
\* only claimed when no job is left and no packet is under way.
AgreedMeansEqual ==
  Quiet => \A r \in Agents : Agreed(r) =>
             \A q \in activeRobots[r] : own[q].val = own[r].val
=============================================================================
