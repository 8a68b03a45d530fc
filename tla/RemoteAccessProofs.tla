------------------------- MODULE RemoteAccessProofs -------------------------
(***************************************************************************)
(* Requests, responses and writes keep what is proved of the commands:     *)
(* whatever speaks about a robot speaks the truth about its past.  With    *)
(* users who wait, what a robot finds in its list of responses answers its *)
(* last request.                                                           *)
(***************************************************************************)
EXTENDS RemoteAccess, CaceSafetyProofs

USE AgentsAssumption, LevelsAssumption, TimesAssumption, BoundsAssumption, ModesAssumption,
    ValuesAssumption, LongMaxAssumption, RemoteAssumption

-----------------------------------------------------------------------------
(***************************************************************************)
(* What a step of robot r must show.                                       *)
(***************************************************************************)
RemoteJobs == {"RequestJob", "WriteJob", "WriteAckJob"}

\* Robot r's list holds nothing but old jobs and true jobs of this module.
RemoteJobsBecome(r) ==
  /\ jobs' \in [Agents -> Seq(Job)]
  /\ \A q \in Agents \ {r} : jobs'[q] = jobs[q]
  /\ \A k \in DOMAIN jobs'[r] :
       \/ \E l \in DOMAIN jobs[r] : jobs'[r][k] = jobs[r][l]
       \/ \E j \in Job : jobs'[r][k] = j /\ j.kind \in RemoteJobs /\ TrueJob(r, j)'

LEMMA NewRemoteJob ==
  ASSUME NEW r \in Agents, NEW j \in Job, JobsBecome(r, j), j.kind \in RemoteJobs, TrueJob(r, j)'
  PROVE  RemoteJobsBecome(r)
BY Zenon DEF JobsBecome, RemoteJobsBecome

LEMMA KeptRemoteJobs ==
  ASSUME TypeInv, NEW r \in Agents, UNCHANGED jobs
  PROVE  RemoteJobsBecome(r)
BY DEF RemoteJobsBecome, TypeInv, TypeOK

LEMMA ErasedRemoteJob ==
  ASSUME TypeInv, NEW r \in Agents, NEW i \in DOMAIN jobs[r], eraseJob(r, i)
  PROVE  RemoteJobsBecome(r)
<1>1. jobs \in [Agents -> Seq(Job)]
  BY DEF TypeInv, TypeOK
<1>2. QED BY <1>1, ErasedJob DEF RemoteJobsBecome

\* A step that leaves the variable alone.
LEMMA KeepingStepSafe ==
  ASSUME SafetyInv, NEW r \in Agents, NEW packets \in SUBSET Message,
         clock' \in [Agents -> Nat], \A q \in Agents : clock[q] <= clock'[q],
         net' \in [Agents -> SUBSET Message], PacketsFrom(r, packets),
         \A m \in packets : m.from = r /\ TruePacket(m)',
         RemoteJobsBecome(r), resends' \in 0..MaxResends, dups' \in 0..MaxDups,
         KeepVariable, UNCHANGED <<activeRobots, shortAcks, commands>>
  PROVE  SafetyInv' /\ Grows
<1>1. TypeOK'
  BY DEF SafetyInv, TypeInv, TypeOK, KeepVariable, RemoteJobsBecome
<1>2. HasValues'
  <2>1. \A k \in DOMAIN jobs'[r] :
          \/ jobs'[r][k].kind = "CommandAcknowledgeJob" /\ jobs'[r][k].started
               => existsVariable(r)
          \/ \E l \in DOMAIN jobs[r] : jobs'[r][k] = jobs[r][l]
    BY DEF RemoteJobsBecome, RemoteJobs
  <2>2. QED BY <2>1, ValuesKept DEF SafetyInv, KeepVariable, RemoteJobsBecome
<1>3. TypeInv'
  BY <1>1, <1>2 DEF TypeInv
<1>4. Grows
  BY KeptPastGrows
<1>5. TrueNet'
  BY <1>3, <1>4, NetStaysTrue
<1>6. TrueJobs'
  <2>1. TrueJobsBecome(r)
    BY Zenon DEF RemoteJobsBecome, TrueJobsBecome
  <2>2. QED BY <1>3, <1>4, <2>1, JobsStayTrue DEF RemoteJobsBecome
<1>7. TrueShortAcks' /\ TrueVariables'
  BY <1>3, <1>4, ShortAcksStayTrue, KeptVariable DEF KeepVariable
<1>8. QED BY <1>3, <1>4, <1>5, <1>6, <1>7 DEF SafetyInv

\* A step that writes: the believe becomes the one the write brought, whatever its age,
\* and no proposal moves.
LEMMA WritingStepSafe ==
  ASSUME SafetyInv, NEW r \in Agents, NEW packets \in SUBSET Message,
         clock' \in [Agents -> Nat], \A q \in Agents : clock[q] <= clock'[q],
         net' \in [Agents -> SUBSET Message], PacketsFrom(r, packets),
         \A p \in packets : p.from = r /\ TruePacket(p)',
         RemoteJobsBecome(r), dups' \in 0..MaxDups,
         NEW m \in Message, m.kind = "Write", TruePacket(m), m.stamp <= clock'[r],
         UpdateByWrite(r, m), UNCHANGED <<activeRobots, shortAcks, commands, resends>>
  PROVE  SafetyInv' /\ Grows
<1>a. PICK b : b = Written(r, m)
  OBVIOUS
<1>b. /\ m.from \in Agents /\ m.msgID \in Nat /\ m.stamp \in Nat /\ m.val \in AnyValue
      /\ m.level \in Strategies /\ m.dec \in Nat
  BY MessageFields
<1>c. m.val # NoValue
  BY <1>b DEF AnyValue
<1>1. /\ b \in Valued /\ b.val = m.val /\ b.age = m.stamp /\ b.strat = m.level
  BY <1>a, <1>b, <1>c DEF Written, Valued, Believe
<1>2. /\ own' = [own EXCEPT ![r] = b]
      /\ held' = [held EXCEPT ![r] = @ \cup {m.val}]
      /\ noted' = [noted EXCEPT ![r] = @ \cup {[from |-> m.from, msgID |-> m.msgID]}]
      /\ proposals' = proposals
  BY <1>a DEF UpdateByWrite
<1>3. /\ own \in [Agents -> Believe(Agents)] /\ proposals \in [Agents -> Seq(Believe(Agents))]
      /\ held \in [Agents -> SUBSET (AnyValue \cup {NoValue})]
      /\ noted \in [Agents -> SUBSET Receipt]
  BY DEF SafetyInv, TypeInv, TypeOK
<1>4. /\ own' \in [Agents -> Believe(Agents)]
      /\ held' \in [Agents -> SUBSET (AnyValue \cup {NoValue})]
      /\ noted' \in [Agents -> SUBSET Receipt]
  BY <1>1, <1>2, <1>3, <1>b DEF Valued, Receipt
<1>5. /\ own'[r] = b /\ m.val \in held'[r]
      /\ \A q \in Agents \ {r} : own'[q] = own[q]
      /\ \A q \in Agents : held[q] \subseteq held'[q] /\ noted[q] \subseteq noted'[q]
  BY <1>2, <1>3
<1>6. TypeOK'
  BY <1>2, <1>4 DEF SafetyInv, TypeInv, TypeOK, RemoteJobsBecome
<1>7. HasValues'
  <2> SUFFICES ASSUME NEW q \in Agents
               PROVE  (/\ \A k \in DOMAIN proposals[q] : proposals[q][k].val # NoValue
                       /\ proposals[q] # <<>> => existsVariable(q)
                       /\ \A i \in DOMAIN jobs[q] :
                            jobs[q][i].kind = "CommandAcknowledgeJob" /\ jobs[q][i].started
                              => existsVariable(q))'
    BY DEF HasValues
  <2>1. CASE q = r
    BY <1>1, <1>2, <1>5, <2>1 DEF SafetyInv, TypeInv, HasValues, existsVariable, Valued
  <2>2. CASE q # r
    <3>1. own'[q] = own[q] /\ proposals'[q] = proposals[q] /\ jobs'[q] = jobs[q]
      BY <1>2, <1>5, <2>2 DEF RemoteJobsBecome
    <3>2. QED BY <3>1 DEF SafetyInv, TypeInv, HasValues, existsVariable
  <2>3. QED BY <2>1, <2>2
<1>8. TypeInv'
  BY <1>6, <1>7 DEF TypeInv
<1>9. Grows
  BY <1>2, <1>5 DEF Grows, ProposalsGrow, Renewed
<1>10. TrueNet' /\ TrueShortAcks'
  BY <1>8, <1>9, NetStaysTrue, ShortAcksStayTrue
<1>11. TrueJobs'
  <2>1. TrueJobsBecome(r)
    BY Zenon DEF RemoteJobsBecome, TrueJobsBecome
  <2>2. QED BY <1>8, <1>9, <2>1, JobsStayTrue DEF RemoteJobsBecome
<1>12. TrueVariable(r)'
  <2>1. \A k \in DOMAIN proposals[r] : TrueProposal(r, proposals[r][k])'
    <3> SUFFICES ASSUME NEW k \in DOMAIN proposals[r], NEW p, p = proposals[r][k]
                 PROVE  TrueProposal(r, p)'
      BY <1>2 DEF TrueProposal
    <3>1. p \in Believe(Agents) /\ TrueProposal(r, p)
      BY ListedProposal DEF SafetyInv, TrueVariables, TrueVariable
    <3>2. QED BY <1>8, <1>9, <3>1, ProposalStaysTrue DEF SafetyInv
  <2>2. own'[r].strat \in UsedStrategies /\ own'[r].val # NoValue
    BY <1>1, <1>5 DEF TruePacket, Valued
  <2>3. \A k, l \in DOMAIN proposals[r] : proposals[r][k].id = proposals[r][l].id => k = l
    BY DEF SafetyInv, TrueVariables, TrueVariable
  <2>4. QED BY <1>1, <1>2, <1>5, <2>1, <2>2, <2>3 DEF TrueVariable, TrueProposal, existsVariable
<1>13. TrueVariables'
  BY <1>2, <1>5, <1>8, <1>9, <1>12, VariablesStayTrue
<1>14. QED BY <1>8, <1>9, <1>10, <1>11, <1>13 DEF SafetyInv

-----------------------------------------------------------------------------
(***************************************************************************)
(* Packets, jobs and the clock.                                            *)
(***************************************************************************)
LEMMA Ticks ==
  ASSUME TypeInv, NEW r \in Agents, tick(r)
  PROVE  /\ clock[r] \in Nat /\ clock'[r] = clock[r] + 1 /\ clock' \in [Agents -> Nat]
         /\ \A q \in Agents : clock[q] <= clock'[q]
BY DEF TypeInv, TypeOK, tick

\* The clock of a robot that hears a stamp.
LEMMA ClockHears ==
  ASSUME TypeInv, NEW r \in Agents, NEW stamp \in Nat,
         clock' = [clock EXCEPT ![r] = Seen(clock[r], stamp)]
  PROVE  /\ clock' \in [Agents -> Nat] /\ stamp <= clock'[r]
         /\ \A q \in Agents : clock[q] <= clock'[q]
<1>1. Seen(clock[r], stamp) \in Nat
  BY SeenBounds DEF TypeInv, TypeOK
<1>2. clock' \in [Agents -> Nat]
  BY <1>1 DEF TypeInv, TypeOK
<1>3. QED BY <1>2, ClockSees

LEMMA NewRequest ==
  ASSUME NEW r \in Agents, NEW q \in Agents, NEW id \in Nat, NEW m, m = CaceVariableRequest(r, q, id)
  PROVE  /\ m \in Message /\ m.kind = "Request" /\ m.from = r /\ m.to = q
         /\ m.msgID = id /\ m.stamp = 0
BY DEF CaceVariableRequest, Message

LEMMA NewWrite ==
  ASSUME NEW r \in Agents, NEW q \in Agents, NEW id \in Nat, NEW b \in Believe(Agents),
         b.val # NoValue, NEW stamp \in Nat, NEW m, m = CaceWrite(r, q, id, b, stamp)
  PROVE  /\ m \in Message /\ m.kind = "Write" /\ m.from = r /\ m.level = b.strat /\ m.stamp = stamp
BY DEF CaceWrite, Message, Believe

LEMMA NewResponse ==
  ASSUME NEW r \in Agents, NEW q \in Agents, NEW id \in Nat, NEW b \in Believe(Agents),
         NEW stamp \in Nat, NEW m, m = CaceResponse(r, q, id, b, stamp)
  PROVE  /\ m \in Message /\ m.kind = "Response" /\ m.from = r /\ m.to = q /\ m.msgID = id
         /\ m.val = b.val /\ m.stamp = stamp
BY DEF CaceResponse, Message, Believe

LEMMA NewRemoteJobs ==
  /\ \A id \in Nat, q \in Agents :
       RequestJob(id, q) \in Job /\ RequestJob(id, q).kind = "RequestJob"
         /\ RequestJob(id, q).msgID = id
  /\ \A id \in Nat, q \in Agents, b \in Believe(Agents) :
       WriteJob(id, q, b) \in Job /\ WriteJob(id, q, b).kind = "WriteJob"
         /\ WriteJob(id, q, b).variable = b
  /\ \A m \in Message : m.kind = "Write" =>
       WriteAckJob(m) \in Job /\ WriteAckJob(m).kind = "WriteAckJob" /\ WriteAckJob(m).cmd = m
<1>1. \A q \in Agents : {q} \in SUBSET Agents /\ FullRetrys({q}, CommandRetrys) \in Retrys(CommandRetrys)
  BY NewRetrys
<1>2. QED BY <1>1 DEF RequestJob, WriteJob, WriteAckJob, Job, Packet

\* A request or write job after one more sending.
LEMMA ResentRemoteJob ==
  ASSUME NEW o \in Job, o.kind \in {"RequestJob", "WriteJob"}, NEW late, late = Retryable(o),
         NEW j, j = Resent(o, late)
  PROVE  /\ late \in SUBSET Agents
         /\ j \in Job /\ j.kind = o.kind /\ j.msgID = o.msgID
         /\ o.kind = "WriteJob" => j.variable = o.variable
<1> DEFINE retrys == [q \in DOMAIN o.retrys |->
                        IF q \in late THEN o.retrys[q] - 1 ELSE o.retrys[q]]
           Q == [kind : {"RequestJob"}, msgID : Nat, expected : SUBSET Agents,
                 retrys : Retrys(CommandRetrys)]
           W == [kind : {"WriteJob"}, msgID : Nat, variable : Believe(Agents),
                 expected : SUBSET Agents, retrys : Retrys(CommandRetrys)]
<1>1. o.expected \in SUBSET Agents /\ o.retrys \in Retrys(CommandRetrys)
  BY OtherJobFields
<1>2. late \in SUBSET Agents /\ late \in SUBSET DOMAIN o.retrys /\ \A q \in late : o.retrys[q] > 0
  BY <1>1 DEF Retryable
<1>3. retrys \in Retrys(CommandRetrys)
  BY <1>1, <1>2, ResentRetrys
<1>4. j = [o EXCEPT !.retrys = retrys]
  BY DEF Resent
<1> HIDE DEF retrys
<1>5. (o.kind = "RequestJob" => o \in Q) /\ (o.kind = "WriteJob" => o \in W)
      /\ Q \subseteq Job /\ W \subseteq Job
  BY DEF Job
<1>6. CASE o.kind = "RequestJob"
  BY <1>2, <1>3, <1>4, <1>5, <1>6
<1>7. CASE o.kind = "WriteJob"
  BY <1>2, <1>3, <1>4, <1>5, <1>7
<1>8. QED BY <1>6, <1>7

-----------------------------------------------------------------------------
(***************************************************************************)
(* One lemma for each action.                                              *)
(***************************************************************************)
LEMMA SentPacket ==
  ASSUME TypeInv, NEW r \in Agents, NEW m \in Message, net' = Multicast(net, r, {m})
  PROVE  net' \in [Agents -> SUBSET Message] /\ PacketsFrom(r, {m})
<1>1. net \in [Agents -> SUBSET Message] /\ {m} \in SUBSET Message
  BY DEF TypeInv, TypeOK
<1>2. QED BY <1>1, MulticastPackets DEF PacketsFrom

LEMMA OnlyPacket ==
  ASSUME NEW r, NEW p, p.from = r, TruePacket(p)'
  PROVE  \A m \in {p} : m.from = r /\ TruePacket(m)'
BY DEF TruePacket

LEMMA RequestVariableSafe ==
  ASSUME SafetyInv, NEW r \in Agents, NEW q \in Agents, requestVariable(r, q)
  PROVE  SafetyInv' /\ Grows
<1>a. PICK m : m = CaceVariableRequest(r, q, MsgID(r))
  OBVIOUS
<1>b. PICK j : j = RequestJob(MsgID(r), q)
  OBVIOUS
<1>1. /\ tick(r) /\ net' = Multicast(net, r, {m}) /\ appendJob(r, j) /\ KeepVariable
      /\ UNCHANGED <<activeRobots, shortAcks, commands, resends, dups>>
  BY <1>a, <1>b DEF requestVariable
<1>2. MsgID(r) \in Nat
  BY MsgIDType DEF SafetyInv
<1>3. m \in Message /\ m.kind = "Request" /\ m.from = r /\ m.stamp = 0
  BY <1>2, <1>a, NewRequest
<1>4. clock' \in [Agents -> Nat] /\ \A p \in Agents : clock[p] <= clock'[p]
  BY <1>1, Ticks DEF SafetyInv
<1>5. TruePacket(m)'
  BY <1>3, <1>4 DEF TruePacket
<1>6. j \in Job /\ j.kind = "RequestJob"
  BY <1>2, <1>b, NewRemoteJobs
<1>7. RemoteJobsBecome(r)
  <2>1. TrueJob(r, j)'
    BY <1>6 DEF TrueJob
  <2>2. QED BY <1>1, <1>6, <2>1, AppendedJob, NewRemoteJob
           DEF SafetyInv, TypeInv, TypeOK, RemoteJobs
<1>8. net' \in [Agents -> SUBSET Message] /\ PacketsFrom(r, {m})
  BY <1>1, <1>3, SentPacket DEF SafetyInv
<1>9. \A p \in {m} : p.from = r /\ TruePacket(p)'
  BY <1>3, <1>5, OnlyPacket
<1>10. resends' \in 0..MaxResends /\ dups' \in 0..MaxDups /\ {m} \in SUBSET Message
  BY <1>1, <1>3 DEF SafetyInv, TypeInv, TypeOK
<1>11. QED BY <1>1, <1>4, <1>7, <1>8, <1>9, <1>10, KeepingStepSafe

LEMMA WriteVariableSafe ==
  ASSUME SafetyInv, NEW r \in Agents, NEW q \in Agents, NEW v \in Values, NEW s \in Levels,
         NEW t \in DecissionTimes, writeVariable(r, q, v, s, t)
  PROVE  SafetyInv' /\ Grows
<1>a. PICK b : b = [id |-> r, val |-> v, age |-> clock[r], strat |-> s, dec |-> t]
  OBVIOUS
<1>b. PICK m : m = CaceWrite(r, q, MsgID(r), b, clock[r] + 1)
  OBVIOUS
<1>c. PICK j : j = WriteJob(MsgID(r), q, b)
  OBVIOUS
<1>1. /\ tick(r) /\ net' = Multicast(net, r, {m}) /\ appendJob(r, j) /\ KeepVariable
      /\ UNCHANGED <<activeRobots, shortAcks, commands, resends, dups>>
  BY <1>a, <1>b, <1>c DEF writeVariable
<1>2. MsgID(r) \in Nat
  BY MsgIDType DEF SafetyInv
<1>3. /\ clock[r] \in Nat /\ clock'[r] = clock[r] + 1 /\ clock' \in [Agents -> Nat]
      /\ \A p \in Agents : clock[p] <= clock'[p]
  BY <1>1, Ticks DEF SafetyInv
<1>4. b \in Believe(Agents) /\ b.val # NoValue /\ b.strat \in UsedStrategies
  BY <1>3, <1>a, StrategiesUsed DEF Believe, AnyValue
<1>5. m \in Message /\ m.kind = "Write" /\ m.from = r /\ m.level = b.strat /\ m.stamp = clock[r] + 1
  <2>1. clock[r] + 1 \in Nat
    BY <1>3
  <2>2. \A id \in Nat, stamp \in Nat : m = CaceWrite(r, q, id, b, stamp) =>
          m \in Message /\ m.kind = "Write" /\ m.from = r /\ m.level = b.strat /\ m.stamp = stamp
    BY <1>4, NewWrite
  <2>3. QED BY <1>2, <1>b, <2>1, <2>2
<1>6. TruePacket(m)'
  BY <1>3, <1>4, <1>5 DEF TruePacket
<1>7. j \in Job /\ j.kind = "WriteJob" /\ j.variable = b
  BY <1>2, <1>4, <1>c, NewRemoteJobs
<1>8. RemoteJobsBecome(r)
  <2>1. TrueJob(r, j)'
    BY <1>4, <1>7 DEF TrueJob
  <2>2. QED BY <1>1, <1>7, <2>1, AppendedJob, NewRemoteJob
           DEF SafetyInv, TypeInv, TypeOK, RemoteJobs
<1>9. net' \in [Agents -> SUBSET Message] /\ PacketsFrom(r, {m})
  BY <1>1, <1>5, SentPacket DEF SafetyInv
<1>10. \A p \in {m} : p.from = r /\ TruePacket(p)'
  BY <1>5, <1>6, OnlyPacket
<1>11. resends' \in 0..MaxResends /\ dups' \in 0..MaxDups /\ {m} \in SUBSET Message
  BY <1>1, <1>5 DEF SafetyInv, TypeInv, TypeOK
<1>12. QED BY <1>1, <1>3, <1>8, <1>9, <1>10, <1>11, KeepingStepSafe

LEMMA HandleCaceVariableRequestSafe ==
  ASSUME SafetyInv, NEW r \in Agents, NEW m \in net[r], handleCaceVariableRequest(r, m)
  PROVE  SafetyInv' /\ Grows
<1>a. PICK p : p = CaceResponse(r, m.from, m.msgID, own[r], clock[r] + 1)
  OBVIOUS
<1>1. /\ tick(r) /\ Receive(r, m, {p}) /\ KeepVariable
      /\ UNCHANGED <<activeRobots, jobs, shortAcks, commands, resends>>
  BY <1>a DEF handleCaceVariableRequest
<1>2. m \in Message /\ m.from \in Agents /\ m.msgID \in Nat
  BY PacketRead, MessageFields
<1>3. /\ clock[r] \in Nat /\ clock'[r] = clock[r] + 1 /\ clock' \in [Agents -> Nat]
      /\ \A q \in Agents : clock[q] <= clock'[q]
  BY <1>1, Ticks DEF SafetyInv
<1>4. own[r] \in Believe(Agents) /\ (own[r].val = NoValue \/ own[r].val \in held[r])
  BY DEF SafetyInv, TypeInv, TypeOK, TrueVariables, TrueVariable, existsVariable
<1>5. /\ p \in Message /\ p.kind = "Response" /\ p.from = r /\ p.val = own[r].val
      /\ p.stamp = clock[r] + 1
  <2>1. clock[r] + 1 \in Nat
    BY <1>3
  <2>2. QED BY <1>2, <1>4, <1>a, <2>1, NewResponse
<1>6. TruePacket(p)'
  BY <1>1, <1>3, <1>4, <1>5 DEF TruePacket, KeepVariable
<1>7. net' \in [Agents -> SUBSET Message] /\ dups' \in 0..MaxDups /\ PacketsFrom(r, {p})
      /\ {p} \in SUBSET Message
  <2>1. {p} \in SUBSET Message
    BY <1>5
  <2>2. QED BY <1>1, <2>1, ReceivedPackets DEF SafetyInv, TypeInv, TypeOK
<1>8. \A n \in {p} : n.from = r /\ TruePacket(n)'
  BY <1>5, <1>6, OnlyPacket
<1>9. RemoteJobsBecome(r) /\ resends' \in 0..MaxResends
  BY <1>1, KeptRemoteJobs DEF SafetyInv, TypeInv, TypeOK
<1>10. QED BY <1>1, <1>3, <1>7, <1>8, <1>9, KeepingStepSafe

LEMMA HandleCaceResponseSafe ==
  ASSUME SafetyInv, NEW r \in Agents, NEW m \in net[r], handleCaceResponse(r, m)
  PROVE  SafetyInv' /\ Grows
<1>1. /\ Receive(r, m, {}) /\ KeepVariable /\ clock' = [clock EXCEPT ![r] = Seen(clock[r], m.stamp)]
      /\ UNCHANGED <<activeRobots, jobs, shortAcks, commands, resends>>
  BY DEF handleCaceResponse
<1>2. m.stamp \in Nat
  BY PacketRead, MessageFields
<1>3. clock' \in [Agents -> Nat] /\ \A q \in Agents : clock[q] <= clock'[q]
  BY <1>1, <1>2, ClockHears DEF SafetyInv
<1>4. net' \in [Agents -> SUBSET Message] /\ dups' \in 0..MaxDups /\ PacketsFrom(r, {})
  BY <1>1, ReceivedPackets DEF SafetyInv, TypeInv, TypeOK
<1>5. RemoteJobsBecome(r) /\ resends' \in 0..MaxResends
  BY <1>1, KeptRemoteJobs DEF SafetyInv, TypeInv, TypeOK
<1>6. QED BY <1>1, <1>3, <1>4, <1>5, KeepingStepSafe

\* The short ack that answers a write the robot has put into its store.
LEMMA NewWriteAck ==
  ASSUME TypeInv, NEW r \in Agents, NEW m \in Message, UpdateByWrite(r, m),
         NEW stamp \in Nat, clock'[r] = stamp, NEW p, p = CaceWriteAck(r, m, stamp)
  PROVE  p \in Message /\ p.from = r /\ TruePacket(p)'
<1>1. m.from \in Agents /\ m.msgID \in Nat
  BY MessageFields
<1>2. /\ p \in Message /\ p.from = r /\ p.kind = "ShortAck" /\ p.to = m.from
      /\ p.msgID = m.msgID /\ p.stamp = stamp
  BY <1>1 DEF CaceWriteAck, CaceShortAck, Message
<1>3. [from |-> m.from, msgID |-> m.msgID] \in noted'[r]
  BY DEF UpdateByWrite, TypeInv, TypeOK
<1>4. QED BY <1>1, <1>2, <1>3 DEF TruePacket

LEMMA HandleCaceWriteSafe ==
  ASSUME SafetyInv, NEW r \in Agents, NEW m \in net[r], handleCaceWrite(r, m)
  PROVE  SafetyInv' /\ Grows
<1>a. PICK c : c = Seen(clock[r], m.stamp)
  OBVIOUS
<1>b. PICK p : p = CaceWriteAck(r, m, c + 1)
  OBVIOUS
<1>1. /\ m.kind = "Write" /\ UNCHANGED <<activeRobots, shortAcks, commands, resends>>
      /\ \/ /\ Receive(r, m, {}) /\ clock' = [clock EXCEPT ![r] = c]
            /\ appendJob(r, WriteAckJob(m)) /\ KeepVariable
         \/ /\ UpdateByWrite(r, m) /\ clock' = [clock EXCEPT ![r] = c + 1]
            /\ Receive(r, m, {p}) /\ UNCHANGED jobs
  BY <1>a, <1>b DEF handleCaceWrite, ClockAtWrite
<1>2. m \in Message /\ m.from # r /\ TruePacket(m) /\ m.stamp \in Nat
  BY PacketRead, MessageFields
<1>3. c \in Nat /\ c + 1 \in Nat /\ c >= clock[r] /\ m.stamp <= c /\ clock \in [Agents -> Nat]
  <2>1. clock \in [Agents -> Nat] /\ clock[r] \in Nat
    BY DEF SafetyInv, TypeInv, TypeOK
  <2>2. c \in Nat /\ c >= clock[r] /\ c >= m.stamp
    BY <1>2, <1>a, <2>1, SeenBounds
  <2>3. QED BY <1>2, <2>1, <2>2
<1>4. resends' \in 0..MaxResends
  BY <1>1 DEF SafetyInv, TypeInv, TypeOK
<1>5. CASE /\ Receive(r, m, {}) /\ clock' = [clock EXCEPT ![r] = c]
           /\ appendJob(r, WriteAckJob(m)) /\ KeepVariable
  <2>1. clock' \in [Agents -> Nat] /\ clock'[r] = c /\ \A q \in Agents : clock[q] <= clock'[q]
    BY <1>3, <1>5
  <2>2. net' \in [Agents -> SUBSET Message] /\ dups' \in 0..MaxDups /\ PacketsFrom(r, {})
    BY <1>5, ReceivedPackets DEF SafetyInv, TypeInv, TypeOK
  <2>3. PICK j : j = WriteAckJob(m)
    OBVIOUS
  <2>4. j \in Job /\ j.kind = "WriteAckJob" /\ j.cmd = m
    BY <1>1, <1>2, <2>3, NewRemoteJobs
  <2>5. TruePacket(m)'
    <3>1. m.from \in Agents
      BY <1>2, MessageFields
    <3>2. clock[m.from] \in Nat /\ clock'[m.from] \in Nat /\ clock[m.from] <= clock'[m.from]
      BY <1>3, <2>1, <3>1
    <3>3. QED BY <1>1, <1>2, <1>5, <3>2 DEF TruePacket, KeepVariable
  <2>6. TrueJob(r, j)'
    BY <1>2, <1>3, <2>1, <2>4, <2>5 DEF TrueJob, Taken
  <2>7. RemoteJobsBecome(r)
    BY <1>5, <2>3, <2>4, <2>6, AppendedJob, NewRemoteJob
       DEF SafetyInv, TypeInv, TypeOK, RemoteJobs
  <2>8. QED BY <1>1, <1>4, <1>5, <2>1, <2>2, <2>7, KeepingStepSafe
<1>6. CASE /\ UpdateByWrite(r, m) /\ clock' = [clock EXCEPT ![r] = c + 1]
           /\ Receive(r, m, {p}) /\ UNCHANGED jobs
  <2>1. clock' \in [Agents -> Nat] /\ clock'[r] = c + 1 /\ \A q \in Agents : clock[q] <= clock'[q]
    BY <1>3, <1>6
  <2>2. p \in Message /\ p.from = r /\ TruePacket(p)'
    BY <1>2, <1>3, <1>6, <1>b, <2>1, NewWriteAck DEF SafetyInv
  <2>3. {p} \in SUBSET Message
    BY <2>2
  <2>4. net' \in [Agents -> SUBSET Message] /\ dups' \in 0..MaxDups /\ PacketsFrom(r, {p})
    BY <1>6, <2>3, ReceivedPackets DEF SafetyInv, TypeInv, TypeOK
  <2>5. \A n \in {p} : n.from = r /\ TruePacket(n)'
    BY <2>2, OnlyPacket
  <2>6. RemoteJobsBecome(r)
    BY <1>6, KeptRemoteJobs DEF SafetyInv
  <2>7. m.stamp <= clock'[r]
    BY <1>2, <1>3, <2>1
  <2>8. QED BY <1>1, <1>2, <1>6, <2>1, <2>3, <2>4, <2>5, <2>6, <2>7, WritingStepSafe
<1>7. QED BY <1>1, <1>5, <1>6

LEMMA ProcessWriteAckJobSafe ==
  ASSUME SafetyInv, NEW r \in Agents, NEW i \in DOMAIN jobs[r], processWriteAckJob(r, i)
  PROVE  SafetyInv' /\ Grows
<1>a. PICK o : o = jobs[r][i]
  OBVIOUS
<1>b. PICK m : m = o.cmd
  OBVIOUS
<1>c. PICK p : p = CaceWriteAck(r, m, clock[r] + 1)
  OBVIOUS
<1>1. /\ o.kind = "WriteAckJob" /\ UpdateByWrite(r, m) /\ tick(r) /\ eraseJob(r, i)
      /\ net' = Multicast(net, r, {p})
      /\ UNCHANGED <<activeRobots, shortAcks, commands, resends, dups>>
  BY <1>a, <1>b, <1>c DEF processWriteAckJob
<1>2. o \in Job /\ TrueJob(r, o)
  BY <1>a, ListedJob DEF SafetyInv, TrueJobs
<1>3. m \in Message /\ m.kind = "Write" /\ TruePacket(m) /\ m.stamp <= clock[r] /\ m.stamp \in Nat
  BY <1>1, <1>2, <1>b, OtherJobFields, MessageFields DEF TrueJob, Taken
<1>4. /\ clock[r] \in Nat /\ clock'[r] = clock[r] + 1 /\ clock' \in [Agents -> Nat]
      /\ \A q \in Agents : clock[q] <= clock'[q]
  BY <1>1, Ticks DEF SafetyInv
<1>5. p \in Message /\ p.from = r /\ TruePacket(p)'
  <2>1. clock[r] + 1 \in Nat
    BY <1>4
  <2>2. QED BY <1>1, <1>3, <1>4, <1>c, <2>1, NewWriteAck DEF SafetyInv
<1>6. net' \in [Agents -> SUBSET Message] /\ PacketsFrom(r, {p}) /\ {p} \in SUBSET Message
  BY <1>1, <1>5, SentPacket DEF SafetyInv
<1>7. \A n \in {p} : n.from = r /\ TruePacket(n)'
  BY <1>5, OnlyPacket
<1>8. RemoteJobsBecome(r) /\ dups' \in 0..MaxDups /\ m.stamp <= clock'[r]
  <2>1. TypeInv
    BY DEF SafetyInv
  <2>2. RemoteJobsBecome(r)
    BY <1>1, <2>1, ErasedRemoteJob
  <2>3. dups' \in 0..MaxDups
    BY <1>1, <2>1 DEF TypeInv, TypeOK
  <2>4. QED BY <1>3, <1>4, <2>2, <2>3
<1>9. QED BY <1>1, <1>3, <1>4, <1>6, <1>7, <1>8, WritingStepSafe

\* A job that sends its packet again, or is given up.
LEMMA ResendingSafe ==
  ASSUME SafetyInv, NEW r \in Agents, NEW i \in DOMAIN jobs[r], NEW m \in Message,
         m.from = r, ResendLater(r, i, m), TruePacket(m)',
         jobs[r][i].kind \in {"RequestJob", "WriteJob"},
         KeepVariable, UNCHANGED <<activeRobots, shortAcks, commands, dups>>
  PROVE  SafetyInv' /\ Grows
<1>a. PICK o : o = jobs[r][i]
  OBVIOUS
<1>b. PICK late : late = Retryable(o)
  OBVIOUS
<1>c. PICK j : j = Resent(o, late)
  OBVIOUS
<1>1. resend(r, late, {m}) /\ tick(r) /\ replaceJob(r, i, j)
  BY <1>a, <1>b, <1>c DEF ResendLater
<1>2. o \in Job /\ TrueJob(r, o) /\ o.kind \in {"RequestJob", "WriteJob"}
  BY <1>a, ListedJob DEF SafetyInv, TrueJobs
<1>3. /\ late \in SUBSET Agents /\ j \in Job /\ j.kind = o.kind
      /\ o.kind = "WriteJob" => j.variable = o.variable
  BY <1>2, <1>b, <1>c, ResentRemoteJob
<1>4. TrueJob(r, j)'
  BY <1>2, <1>3 DEF TrueJob
<1>5. RemoteJobsBecome(r)
  BY <1>1, <1>2, <1>3, <1>4, ReplacedJob, NewRemoteJob
     DEF SafetyInv, TypeInv, TypeOK, RemoteJobs
<1>6. {m} \in SUBSET Message /\ net' = Multicast(net, r, {m})
  BY <1>1 DEF resend
<1>7. net' \in [Agents -> SUBSET Message] /\ PacketsFrom(r, {m}) /\ resends' \in 0..MaxResends
      /\ dups' \in 0..MaxDups
  BY <1>1, <1>3, <1>6, SentPacket, ResendsBounded DEF SafetyInv, TypeInv, TypeOK
<1>8. clock' \in [Agents -> Nat] /\ \A q \in Agents : clock[q] <= clock'[q]
  BY <1>1, Ticks DEF SafetyInv
<1>9. \A p \in {m} : p.from = r /\ TruePacket(p)'
  BY OnlyPacket
<1>10. QED BY <1>5, <1>6, <1>7, <1>8, <1>9, KeepingStepSafe

LEMMA GivingUpSafe ==
  ASSUME SafetyInv, NEW r \in Agents, NEW i \in DOMAIN jobs[r], GiveUp(r, i),
         KeepVariable, UNCHANGED <<activeRobots, shortAcks, commands, dups>>
  PROVE  SafetyInv' /\ Grows
<1>1. eraseJob(r, i) /\ UNCHANGED <<clock, net, resends>>
  BY DEF GiveUp
<1>2. RemoteJobsBecome(r)
  BY <1>1, ErasedRemoteJob DEF SafetyInv
<1>3. /\ clock' \in [Agents -> Nat] /\ \A q \in Agents : clock[q] <= clock'[q]
      /\ net' \in [Agents -> SUBSET Message] /\ PacketsFrom(r, {})
      /\ resends' \in 0..MaxResends /\ dups' \in 0..MaxDups
  BY <1>1 DEF SafetyInv, TypeInv, TypeOK, PacketsFrom
<1>4. QED BY <1>2, <1>3, KeepingStepSafe

LEMMA ProcessRequestJobSafe ==
  ASSUME SafetyInv, NEW r \in Agents, NEW i \in DOMAIN jobs[r], processRequestJob(r, i)
  PROVE  SafetyInv' /\ Grows
<1>a. PICK o : o = jobs[r][i]
  OBVIOUS
<1>1. /\ o.kind = "RequestJob" /\ KeepVariable
      /\ UNCHANGED <<activeRobots, shortAcks, commands, dups>>
      /\ \/ GiveUp(r, i)
         \/ \E q \in o.expected : ResendLater(r, i, CaceVariableRequest(r, q, o.msgID))
  BY <1>a DEF processRequestJob
<1>2. ASSUME NEW q \in o.expected, ResendLater(r, i, CaceVariableRequest(r, q, o.msgID))
      PROVE  SafetyInv' /\ Grows
  <2>1. PICK m : m = CaceVariableRequest(r, q, o.msgID)
    OBVIOUS
  <2>2. q \in Agents /\ o.msgID \in Nat
    BY <1>1, <1>a, ListedJob, OtherJobFields DEF SafetyInv
  <2>3. m \in Message /\ m.kind = "Request" /\ m.from = r /\ m.stamp = 0
    BY <2>1, <2>2, NewRequest
  <2>4. clock' \in [Agents -> Nat]
    BY <1>2, Ticks DEF SafetyInv, ResendLater
  <2>5. TruePacket(m)'
    BY <2>3, <2>4 DEF TruePacket
  <2>6. QED BY <1>1, <1>2, <1>a, <2>1, <2>3, <2>5, ResendingSafe
<1>3. QED BY <1>1, <1>2, GivingUpSafe

LEMMA ProcessWriteJobSafe ==
  ASSUME SafetyInv, NEW r \in Agents, NEW i \in DOMAIN jobs[r], processWriteJob(r, i)
  PROVE  SafetyInv' /\ Grows
<1>a. PICK o : o = jobs[r][i]
  OBVIOUS
<1>1. /\ o.kind = "WriteJob" /\ KeepVariable
      /\ UNCHANGED <<activeRobots, shortAcks, commands, dups>>
      /\ \/ GiveUp(r, i)
         \/ \E q \in o.expected :
              ResendLater(r, i, CaceWrite(r, q, o.msgID, o.variable, clock[r] + 1))
  BY <1>a DEF processWriteJob
<1>2. ASSUME NEW q \in o.expected,
             ResendLater(r, i, CaceWrite(r, q, o.msgID, o.variable, clock[r] + 1))
      PROVE  SafetyInv' /\ Grows
  <2>1. PICK m : m = CaceWrite(r, q, o.msgID, o.variable, clock[r] + 1)
    OBVIOUS
  <2>2. /\ q \in Agents /\ o.msgID \in Nat /\ o.variable \in Believe(Agents)
        /\ o.variable.strat \in UsedStrategies /\ o.variable.val # NoValue
    BY <1>1, <1>a, ListedJob, OtherJobFields DEF SafetyInv, TrueJobs, TrueJob
  <2>3. clock[r] + 1 \in Nat /\ clock'[r] = clock[r] + 1
    BY <1>2, Ticks DEF SafetyInv, ResendLater
  <2>4. m \in Message /\ m.kind = "Write" /\ m.from = r /\ m.level = o.variable.strat
        /\ m.stamp = clock[r] + 1
    <3>1. q \in Agents
      BY <2>2
    <3>2. \A id \in Nat, b \in Believe(Agents), stamp \in Nat :
            b.val # NoValue /\ m = CaceWrite(r, q, id, b, stamp) =>
              m \in Message /\ m.kind = "Write" /\ m.from = r /\ m.level = b.strat /\ m.stamp = stamp
      BY <3>1, NewWrite
    <3>3. QED BY <2>1, <2>2, <2>3, <3>2
  <2>5. TruePacket(m)'
    BY <2>2, <2>3, <2>4 DEF TruePacket
  <2>6. QED BY <1>1, <1>2, <1>a, <2>1, <2>4, <2>5, ResendingSafe
<1>3. QED BY <1>1, <1>2, GivingUpSafe

-----------------------------------------------------------------------------
(***************************************************************************)
(* The lists of responses.                                                 *)
(***************************************************************************)
ResponseRecord == [believe : Believe(Agents), request : Nat]

RemoteTypeOK ==
  /\ responses \in [Agents -> Seq(ResponseRecord)]
  /\ asked \in [Agents -> Nat]
  /\ requests \in Nat

\* A response is true of the robot it comes from.
TrueResponse(x) ==
  /\ x.believe.val = NoValue \/ x.believe.val \in held[x.believe.id]
  /\ x.believe.age <= clock[x.believe.id]

RemoteInv == SafetyInv /\ RemoteTypeOK /\ ResponsesWereHeld

\* Robot r's list holds nothing but old responses and response x.
ResponsesBecome(r, x) ==
  /\ responses' \in [Agents -> Seq(ResponseRecord)]
  /\ \A q \in Agents \ {r} : responses'[q] = responses[q]
  /\ \A k \in DOMAIN responses'[r] :
       responses'[r][k] = x \/ \E l \in DOMAIN responses[r] : responses'[r][k] = responses[r][l]

LEMMA HalfOf ==
  ASSUME NEW n \in Nat
  PROVE  n \div 2 \in Nat /\ \A k \in 1..(n \div 2) : 2 * k \in 1..n
OBVIOUS

\* What deleteResponse leaves was there before.
LEMMA DeletedResponses ==
  ASSUME NEW S, NEW s \in Seq(S)
  PROVE  /\ deleteResponse(s) \in Seq(S)
         /\ \A k \in DOMAIN deleteResponse(s) : \E l \in DOMAIN s : deleteResponse(s)[k] = s[l]
<1>1. PICK h \in Nat : h = Len(s) \div 2 /\ \A k \in 1..h : 2 * k \in 1..Len(s)
  BY HalfOf, LenProperties
<1>2. deleteResponse(s) = [k \in 1..h |-> s[2 * k]]
  BY <1>1 DEF deleteResponse
<1>3. \A k \in 1..h : s[2 * k] \in S
  BY <1>1, ElementOfSeq
<1>4. [k \in 1..h |-> s[2 * k]] \in Seq(S)
  BY <1>3, IsASeq
<1>5. DOMAIN s = 1..Len(s)
  BY LenProperties
<1>6. QED BY <1>1, <1>2, <1>4, <1>5

LEMMA AppendedResponse ==
  ASSUME responses \in [Agents -> Seq(ResponseRecord)], NEW r \in Agents,
         NEW x \in ResponseRecord, responses' = [responses EXCEPT ![r] = Append(@, x)]
  PROVE  ResponsesBecome(r, x)
<1>1. responses' = [responses EXCEPT ![r] = Append(responses[r], x)]
      /\ responses[r] \in Seq(ResponseRecord)
  OBVIOUS
<1>2. /\ Append(responses[r], x) \in Seq(ResponseRecord)
      /\ Len(Append(responses[r], x)) = Len(responses[r]) + 1
      /\ \A k \in 1..Len(responses[r]) : Append(responses[r], x)[k] = responses[r][k]
      /\ Append(responses[r], x)[Len(responses[r]) + 1] = x
  BY <1>1, AppendProperties
<1>3. responses'[r] = Append(responses[r], x)
      /\ \A q \in Agents \ {r} : responses'[q] = responses[q]
  BY <1>1
<1>4. /\ DOMAIN responses[r] = 1..Len(responses[r]) /\ Len(responses[r]) \in Nat
      /\ DOMAIN responses'[r] = 1..(Len(responses[r]) + 1)
  BY <1>1, <1>2, <1>3, LenProperties
<1>5. \A k \in DOMAIN responses'[r] :
        responses'[r][k] = x \/ \E l \in DOMAIN responses[r] : responses'[r][k] = responses[r][l]
  <2> SUFFICES ASSUME NEW k \in 1..(Len(responses[r]) + 1), k # Len(responses[r]) + 1
               PROVE  responses'[r][k] = responses[r][k] /\ k \in DOMAIN responses[r]
    BY <1>2, <1>3, <1>4
  <2>1. k \in 1..Len(responses[r])
    BY <1>4
  <2>2. QED BY <1>2, <1>3, <1>4, <2>1
<1>6. responses' \in [Agents -> Seq(ResponseRecord)]
  BY <1>1, <1>2
<1>7. QED BY <1>3, <1>5, <1>6 DEF ResponsesBecome

LEMMA ResponsesStayTrue ==
  ASSUME RemoteInv, TypeInv', Grows, NEW r \in Agents, NEW x, ResponsesBecome(r, x),
         TrueResponse(x)' \/ \A k \in DOMAIN responses'[r] :
                               \E l \in DOMAIN responses[r] : responses'[r][k] = responses[r][l]
  PROVE  ResponsesWereHeld'
<1>1. ASSUME NEW q \in Agents, NEW l \in DOMAIN responses[q], NEW y, y = responses[q][l]
      PROVE  TrueResponse(y)'
  <2>1. responses[q] \in Seq(ResponseRecord)
    BY DEF RemoteInv, RemoteTypeOK
  <2>2. y \in ResponseRecord
    BY <1>1, <2>1, ElementOfSeq, LenProperties
  <2>3. TrueResponse(y)
    BY <1>1 DEF RemoteInv, ResponsesWereHeld, TrueResponse
  <2>4. y.believe.id \in Agents /\ y.believe.age \in Nat
    BY <2>2 DEF ResponseRecord, Believe
  <2>5. /\ clock[y.believe.id] \in Nat /\ clock'[y.believe.id] \in Nat
        /\ clock[y.believe.id] <= clock'[y.believe.id]
        /\ held[y.believe.id] \subseteq held'[y.believe.id]
    BY <2>4 DEF RemoteInv, SafetyInv, TypeInv, TypeOK, Grows
  <2>6. y.believe.age <= clock'[y.believe.id]
    BY <2>3, <2>4, <2>5 DEF TrueResponse
  <2>7. QED BY <2>3, <2>5, <2>6 DEF TrueResponse
<1>2. ASSUME NEW q \in Agents, NEW k \in DOMAIN responses'[q], NEW y, y = responses'[q][k]
      PROVE  TrueResponse(y)'
  <2>1. CASE \E l \in DOMAIN responses[q] : y = responses[q][l]
    BY <1>1, <2>1
  <2>2. CASE q = r /\ y = x /\ TrueResponse(x)'
    BY <2>2
  <2>3. QED BY <1>2, <2>1, <2>2 DEF ResponsesBecome
<1>3. QED BY <1>2 DEF ResponsesWereHeld, TrueResponse

\* Of the steps of this module, those that touch the lists.
LEMMA RequestVariableResponses ==
  ASSUME RemoteInv, NEW r \in Agents, NEW q \in Agents, requestVariable(r, q), TypeInv', Grows
  PROVE  RemoteTypeOK' /\ ResponsesWereHeld'
<1>1. /\ responses' = [responses EXCEPT ![r] = deleteResponse(responses[r])]
      /\ asked' = [asked EXCEPT ![r] = MsgID(r)] /\ requests' = requests + 1
  BY DEF requestVariable
<1>2. /\ responses \in [Agents -> Seq(ResponseRecord)] /\ asked \in [Agents -> Nat]
      /\ requests \in Nat
      /\ responses[r] \in Seq(ResponseRecord)
  BY DEF RemoteInv, RemoteTypeOK
<1>3. PICK s \in Seq(ResponseRecord) :
        /\ s = deleteResponse(responses[r])
        /\ \A k \in DOMAIN s : \E l \in DOMAIN responses[r] : s[k] = responses[r][l]
  BY <1>2, DeletedResponses
<1>4. responses' = [responses EXCEPT ![r] = s]
  BY <1>1, <1>3
<1>5. /\ responses' \in [Agents -> Seq(ResponseRecord)] /\ responses'[r] = s
      /\ \A p \in Agents \ {r} : responses'[p] = responses[p]
  BY <1>2, <1>4
<1>6. ResponsesBecome(r, 0)
  BY <1>3, <1>5 DEF ResponsesBecome
<1>7. ResponsesWereHeld'
  BY <1>3, <1>5, <1>6, ResponsesStayTrue
<1>8. MsgID(r) \in Nat
  BY MsgIDType DEF RemoteInv, SafetyInv
<1>9. QED BY <1>1, <1>2, <1>5, <1>7, <1>8 DEF RemoteTypeOK

LEMMA GetRequestedVariableResponses ==
  ASSUME RemoteInv, NEW r \in Agents, getRequestedVariable(r), TypeInv', Grows
  PROVE  RemoteTypeOK' /\ ResponsesWereHeld'
<1>1. /\ responses' = [responses EXCEPT ![r] = Tail(responses[r])] /\ asked' = asked
      /\ responses[r] # <<>> /\ requests' = requests
  BY DEF getRequestedVariable
<1>2. /\ responses \in [Agents -> Seq(ResponseRecord)] /\ asked \in [Agents -> Nat]
      /\ requests \in Nat
      /\ responses[r] \in Seq(ResponseRecord)
  BY DEF RemoteInv, RemoteTypeOK
<1>3. PICK s \in Seq(ResponseRecord) :
        s = Tail(responses[r]) /\ Len(s) = Len(responses[r]) - 1
        /\ \A k \in 1..Len(s) : s[k] = responses[r][k + 1]
  <2>1. PICK l \in Seq(ResponseRecord) : l = responses[r]
    BY <1>2
  <2>2. PICK s \in Seq(ResponseRecord) : s = Tail(l)
    BY <1>1, <2>1, HeadTailProperties
  <2>3. Len(s) = Len(l) - 1 /\ \A k \in 1..Len(s) : s[k] = l[k + 1]
    BY <1>1, <2>1, <2>2, HeadTailProperties
  <2>4. QED BY <2>1, <2>2, <2>3
<1>4. DOMAIN s = 1..Len(s) /\ DOMAIN responses[r] = 1..Len(responses[r])
      /\ Len(s) \in Nat /\ Len(responses[r]) \in Nat
  BY <1>2, <1>3, LenProperties
<1>5. \A k \in DOMAIN s : \E l \in DOMAIN responses[r] : s[k] = responses[r][l]
  <2>1. ASSUME NEW k \in DOMAIN s PROVE k + 1 \in DOMAIN responses[r] /\ s[k] = responses[r][k + 1]
    BY <1>3, <1>4
  <2>2. QED BY <2>1
<1>6. responses' = [responses EXCEPT ![r] = s]
  BY <1>1, <1>3
<1>7. /\ responses' \in [Agents -> Seq(ResponseRecord)] /\ responses'[r] = s
      /\ \A p \in Agents \ {r} : responses'[p] = responses[p]
  BY <1>2, <1>6
<1>8. ResponsesBecome(r, 0)
  BY <1>5, <1>7 DEF ResponsesBecome
<1>9. QED BY <1>1, <1>2, <1>5, <1>7, <1>8, ResponsesStayTrue DEF RemoteTypeOK

LEMMA HandleCaceResponseResponses ==
  ASSUME RemoteInv, NEW r \in Agents, NEW m \in net[r], handleCaceResponse(r, m), TypeInv', Grows
  PROVE  RemoteTypeOK' /\ ResponsesWereHeld'
<1>a. PICK x : x = [believe |-> Response(r, m), request |-> m.msgID]
  OBVIOUS
<1>1. /\ responses' = [responses EXCEPT ![r] = Append(responses[r], x)] /\ asked' = asked
      /\ m.kind = "Response" /\ requests' = requests
  BY <1>a DEF handleCaceResponse
<1>2. /\ responses \in [Agents -> Seq(ResponseRecord)] /\ asked \in [Agents -> Nat]
      /\ requests \in Nat
      /\ responses[r] \in Seq(ResponseRecord)
  BY DEF RemoteInv, RemoteTypeOK
<1>3. m \in Message /\ TruePacket(m)
  BY PacketRead DEF RemoteInv
<1>4. PICK b : b = Response(r, m)
  OBVIOUS
<1>5. x \in ResponseRecord /\ x.believe = b /\ b.id = m.from /\ b.val = m.val /\ b.age = m.stamp
  <2>1. /\ m.from \in Agents /\ m.val \in AnyValue \cup {NoValue} /\ m.stamp \in Nat
        /\ m.level \in Strategies /\ m.dec \in Nat /\ m.msgID \in Nat
    BY <1>1, <1>3, MessageFields
  <2>2. b = [id |-> m.from, val |-> m.val, age |-> m.stamp, strat |-> m.level, dec |-> m.dec]
    BY <1>4 DEF Response, Heard
  <2>3. b \in Believe(Agents)
    BY <2>1, <2>2 DEF Believe
  <2>4. QED BY <1>4, <1>a, <2>1, <2>2, <2>3 DEF ResponseRecord
<1>6. ResponsesBecome(r, x)
  BY <1>1, <1>2, <1>5, AppendedResponse
<1>7. TrueResponse(x)'
  <2>1. m.from \in Agents /\ m.stamp \in Nat
    BY <1>3, MessageFields
  <2>2. /\ clock[m.from] \in Nat /\ clock'[m.from] \in Nat /\ clock[m.from] <= clock'[m.from]
        /\ held[m.from] \subseteq held'[m.from]
    BY <2>1 DEF RemoteInv, SafetyInv, TypeInv, TypeOK, Grows
  <2>3. m.stamp <= clock'[m.from] /\ (m.val = NoValue \/ m.val \in held'[m.from])
    BY <1>1, <1>3, <2>1, <2>2 DEF TruePacket
  <2>4. QED BY <1>4, <1>5, <2>3 DEF TrueResponse
<1>8. QED BY <1>1, <1>2, <1>6, <1>7, ResponsesStayTrue DEF RemoteTypeOK, ResponsesBecome

LEMMA OldResponsesStayTrue ==
  ASSUME RemoteInv, UNCHANGED <<responses, requests, asked>>, TypeInv', Grows
  PROVE  RemoteTypeOK' /\ ResponsesWereHeld'
<1>1. RemoteTypeOK'
  BY DEF RemoteInv, RemoteTypeOK
<1>2. ASSUME NEW r \in Agents PROVE ResponsesWereHeld'
  <2>1. ResponsesBecome(r, 0)
    BY <1>1 DEF ResponsesBecome, RemoteTypeOK
  <2>2. QED BY <2>1, ResponsesStayTrue
<1>3. CASE Agents = {}
  <2>1. ResponsesWereHeld'
    BY <1>3 DEF ResponsesWereHeld
  <2>2. QED BY <1>1, <2>1
<1>4. CASE Agents # {}
  <2>1. \E r \in Agents : TRUE
    BY <1>4
  <2>2. QED BY <1>1, <1>2, <2>1
<1>5. QED BY <1>3, <1>4, <1>1

-----------------------------------------------------------------------------
(***************************************************************************)
(* The invariant.                                                          *)
(***************************************************************************)
LEMMA RemoteInvInit == RemoteInit => RemoteInv
<1> SUFFICES ASSUME RemoteInit PROVE RemoteInv
  OBVIOUS
<1>1. SafetyInv
  BY SafetyInvInit DEF RemoteInit
<1>2. <<>> \in Seq(ResponseRecord) /\ DOMAIN <<>> = {}
  BY EmptySeq
<1>3. RemoteTypeOK /\ ResponsesWereHeld
  BY <1>2 DEF RemoteInit, RemoteTypeOK, ResponsesWereHeld
<1>4. QED BY <1>1, <1>3 DEF RemoteInv

LEMMA RemoteNextSafe ==
  ASSUME SafetyInv, RemoteNext
  PROVE  SafetyInv' /\ Grows
<1>1. CASE Next
  BY <1>1, SafetyInvStep
<1>2. ASSUME NEW r \in Agents, RemoteCall(r) PROVE SafetyInv' /\ Grows
  <2>1. ASSUME NEW q \in Others(r), requestVariable(r, q) PROVE SafetyInv' /\ Grows
    BY <2>1, RequestVariableSafe DEF Others
  <2>2. ASSUME NEW q \in Others(r), NEW v \in Values, NEW s \in Levels, NEW t \in DecissionTimes,
               writeVariable(r, q, v, s, t)
        PROVE  SafetyInv' /\ Grows
    BY <2>2, WriteVariableSafe DEF Others
  <2>3. CASE getRequestedVariable(r)
    <3>1. UNCHANGED vars
      BY <2>3 DEF getRequestedVariable
    <3>2. QED BY <3>1, SafetyInvStep
  <2>4. QED BY <1>2, <2>1, <2>2, <2>3 DEF RemoteCall
<1>3. ASSUME NEW r \in Agents, NEW m \in net[r], RemoteHandle(r, m) PROVE SafetyInv' /\ Grows
  BY <1>3, HandleCaceVariableRequestSafe, HandleCaceResponseSafe, HandleCaceWriteSafe
     DEF RemoteHandle
<1>4. ASSUME NEW r \in Agents, NEW i \in DOMAIN jobs[r], ProcessRemote(r, i)
      PROVE  SafetyInv' /\ Grows
  BY <1>4, ProcessRequestJobSafe, ProcessWriteJobSafe, ProcessWriteAckJobSafe DEF ProcessRemote
<1>5. QED BY <1>1, <1>2, <1>3, <1>4 DEF RemoteNext

LEMMA RemoteInvStep == RemoteInv /\ [RemoteNext]_allVars => RemoteInv'
<1> SUFFICES ASSUME RemoteInv, [RemoteNext]_allVars PROVE RemoteInv'
  OBVIOUS
<1>1. CASE UNCHANGED allVars
  <2>1. UNCHANGED vars /\ UNCHANGED <<responses, requests, asked>>
    BY <1>1 DEF allVars, remoteVars
  <2>2. SafetyInv' /\ Grows
    BY <2>1, SafetyInvStep DEF RemoteInv
  <2>3. QED BY <2>1, <2>2, OldResponsesStayTrue DEF RemoteInv, SafetyInv
<1>2. CASE RemoteNext
  <2>1. SafetyInv' /\ Grows /\ TypeInv'
    BY <1>2, RemoteNextSafe DEF RemoteInv, SafetyInv
  <2>2. CASE UNCHANGED <<responses, requests, asked>>
    BY <2>1, <2>2, OldResponsesStayTrue DEF RemoteInv
  <2>3. ASSUME NEW r \in Agents, NEW q \in Agents, requestVariable(r, q) PROVE RemoteInv'
    BY <2>1, <2>3, RequestVariableResponses DEF RemoteInv
  <2>4. ASSUME NEW r \in Agents, getRequestedVariable(r) PROVE RemoteInv'
    BY <2>1, <2>4, GetRequestedVariableResponses DEF RemoteInv
  <2>5. ASSUME NEW r \in Agents, NEW m \in net[r], handleCaceResponse(r, m) PROVE RemoteInv'
    BY <2>1, <2>5, HandleCaceResponseResponses DEF RemoteInv
  <2>6. \/ UNCHANGED <<responses, requests, asked>>
        \/ \E r \in Agents :
             \/ \E q \in Agents : requestVariable(r, q)
             \/ getRequestedVariable(r)
             \/ \E m \in net[r] : handleCaceResponse(r, m)
    <3>1. CASE Next /\ UNCHANGED remoteVars
      BY <3>1 DEF remoteVars
    <3>2. ASSUME NEW r \in Agents, RemoteCall(r)
          PROVE  \/ UNCHANGED <<responses, requests, asked>>
                 \/ (\E q \in Agents : requestVariable(r, q)) \/ getRequestedVariable(r)
      BY <3>2 DEF RemoteCall, writeVariable, Others
    <3>3. ASSUME NEW r \in Agents, NEW m \in net[r], RemoteHandle(r, m)
          PROVE  UNCHANGED <<responses, requests, asked>> \/ handleCaceResponse(r, m)
      BY <3>3 DEF RemoteHandle, handleCaceVariableRequest, handleCaceWrite, remoteVars
    <3>4. ASSUME NEW r \in Agents, NEW i \in DOMAIN jobs[r], ProcessRemote(r, i)
          PROVE  UNCHANGED <<responses, requests, asked>>
      BY <3>4 DEF ProcessRemote, processRequestJob, processWriteJob, processWriteAckJob, remoteVars
    <3>5. QED BY Zenon, <1>2, <3>1, <3>2, <3>3, <3>4 DEF RemoteNext
  <2>7. QED BY <2>2, <2>3, <2>4, <2>5, <2>6
<1>3. QED BY <1>1, <1>2

\* Whatever speaks about a robot, the writes and the responses among it, speaks the
\* truth about its past.
THEOREM RemoteInvCorrect == RemoteSpec => []RemoteInv
BY RemoteInvInit, RemoteInvStep, PTL DEF RemoteSpec

\* Users who wait (PatientSpec) and runs without resends and duplicates before the
\* last request (LuckySpec) are cases of RemoteSpec.
THEOREM LuckyIsRemote == (LuckySpec => RemoteSpec) /\ (PatientSpec => RemoteSpec)
<1>1. [LuckyNext]_allVars => [RemoteNext]_allVars
  BY DEF LuckyNext, PatientNext
<1>2. [PatientNext]_allVars => [RemoteNext]_allVars
  BY DEF PatientNext
<1>3. QED BY <1>1, <1>2, PTL DEF LuckySpec, PatientSpec, RemoteSpec

-----------------------------------------------------------------------------
(***************************************************************************)
(* The properties.                                                         *)
(***************************************************************************)
\* The clock of a robot has reached every stamp it has recorded, and every stamp of
\* its own that is under way or recorded elsewhere, also where a write has replaced a
\* believe by an older one (updateLamportTime).
THEOREM RemoteClocksDominate == RemoteSpec => []ClockDominates
<1>1. RemoteInv => ClockDominates
  BY TrueClocks DEF RemoteInv
<1>2. QED BY <1>1, RemoteInvCorrect, PTL

\* isAgreed never claims agreement of a full team on a value one of its robots never
\* held, also when writes go past the proposals.
THEOREM RemoteAgreementHeld == RemoteSpec => []AgreedMeansHeld
<1>1. RemoteInv => AgreedMeansHeld
  BY TrueAgreement DEF RemoteInv
<1>2. QED BY <1>1, RemoteInvCorrect, PTL

\* A response with a value is something its sender has held, and stamped with a time
\* its sender's clock has reached (handleCaceVariableRequest, handleCaceResponse).
THEOREM ResponsesHeld == RemoteSpec => []ResponsesWereHeld
<1>1. RemoteInv => ResponsesWereHeld
  BY DEF RemoteInv
<1>2. QED BY <1>1, RemoteInvCorrect, PTL

\* With the default accept strategy nothing but the arrival of a write takes a robot
\* back to an older believe (WriteAckJob::doVariableUpdate).
THEOREM OnlyWritesGoBack == RemoteSpec => OnlyWritesRollBack
<1>1. ASSUME RemoteInv, RemoteNext, Levels \subseteq DefaultStrategies,
             NEW q \in Agents, own'[q].age < own[q].age
      PROVE  Writing(q)
  <2>1. /\ own \in [Agents -> Believe(Agents)] /\ own' \in [Agents -> Believe(Agents)]
    BY <1>1, RemoteNextSafe DEF RemoteInv, SafetyInv, TypeInv, TypeOK
  <2>2. own[q].age \in Nat /\ own'[q].age \in Nat
    BY <2>1 DEF Believe
  <2>3. own'[q] # own[q] /\ ~ UNCHANGED own /\ ~ (own'[q].age >= own[q].age)
    BY <1>1, <2>2
  <2>4. ~ Next
    BY <1>1, <2>3, NextNeverOlder, TrueMeansUsed DEF RemoteInv, SafetyInv
  <2>5. PICK r \in Agents :
          \/ \E m \in net[r] : handleCaceWrite(r, m)
          \/ \E i \in DOMAIN jobs[r] : processWriteAckJob(r, i)
    <3>1. ASSUME NEW r \in Agents PROVE ~ RemoteCall(r)
      BY <2>3 DEF RemoteCall, requestVariable, writeVariable, getRequestedVariable, KeepVariable, vars
    <3>2. ASSUME NEW r \in Agents, NEW m \in net[r], RemoteHandle(r, m)
          PROVE  handleCaceWrite(r, m)
      BY <2>3, <3>2 DEF RemoteHandle, handleCaceVariableRequest, handleCaceResponse, KeepVariable
    <3>3. ASSUME NEW r \in Agents, NEW i \in DOMAIN jobs[r], ProcessRemote(r, i)
          PROVE  processWriteAckJob(r, i)
      BY <2>3, <3>3 DEF ProcessRemote, processRequestJob, processWriteJob, KeepVariable
    <3>4. QED BY <1>1, <2>4, <3>1, <3>2, <3>3 DEF RemoteNext
  <2>6. r = q
    BY <2>1, <2>3, <2>5 DEF handleCaceWrite, processWriteAckJob, UpdateByWrite, KeepVariable
  <2>7. QED BY <2>5, <2>6 DEF Writing
<1>2. RemoteInv /\ [RemoteNext]_allVars =>
        [Levels \subseteq DefaultStrategies =>
           \A r \in Agents : own'[r].age < own[r].age => Writing(r)]_allVars
  BY <1>1
<1>3. QED BY <1>2, RemoteInvCorrect, PTL DEF RemoteSpec, OnlyWritesRollBack

-----------------------------------------------------------------------------
(***************************************************************************)
(* Users who wait, without luck running out: responses answer the last     *)
(* request.                                                                *)
(***************************************************************************)
\* Whatever may still become a response to r: its request on the way to the robot it
\* asks, and a response on the way to r.
Open(r) ==
  {m \in UNION {net[q] : q \in Agents} :
     \/ m.kind = "Request" /\ m.from = r /\ m \in net[m.to]
     \/ m.kind = "Response" /\ m.to = r /\ m \in net[r]}

\* Whatever asks or answers carries the id of the last request.
Current ==
  /\ \A r \in Agents : \A k \in DOMAIN responses[r] : responses[r][k].request = asked[r]
  /\ \A q \in Agents : \A m \in net[q] :
       /\ m.kind = "Request" => m.msgID = asked[m.from]
       /\ m.kind = "Response" => m.msgID = asked[m.to]
  /\ \A r \in Agents : \A i \in DOMAIN jobs[r] :
       jobs[r][i].kind = "RequestJob" => jobs[r][i].msgID = asked[r]

\* As long as nothing was sent again or came twice, a robot has, or will have, at most
\* one response: so half of them, which is what deleteResponse keeps, is none.
OneAnswer ==
  resends = 0 /\ dups = 0 =>
    \A r \in Agents :
      /\ \A m, n \in Open(r) : m = n
      /\ Len(responses[r]) <= 1
      /\ Open(r) # {} => responses[r] = <<>>

LuckyInv == RemoteInv /\ Current /\ OneAnswer

\* The kinds of packets that ask and answer, and of the jobs that do.
Asking == {"Request", "Response", "RequestJob"}

\* No new response is in a list.
ResponsesKept ==
  \A q \in Agents :
    /\ Len(responses'[q]) <= Len(responses[q])
    /\ \A k \in DOMAIN responses'[q] : \E l \in DOMAIN responses[q] : responses'[q][k] = responses[q][l]

NothingAsked ==
  /\ PacketsKept(Asking) /\ JobsKept(Asking) /\ LuckKept
  /\ ResponsesKept /\ asked' = asked

LEMMA ResponseLists ==
  ASSUME RemoteTypeOK, NEW r \in Agents
  PROVE  /\ responses[r] \in Seq(ResponseRecord) /\ Len(responses[r]) \in Nat
         /\ DOMAIN responses[r] = 1..Len(responses[r])
         /\ Len(responses[r]) = 0 <=> responses[r] = <<>>
<1>1. responses[r] \in Seq(ResponseRecord)
  BY DEF RemoteTypeOK
<1>2. QED BY <1>1, LenProperties, EmptySeq

LEMMA NothingAskedLucky ==
  ASSUME LuckyInv, RemoteInv', NothingAsked
  PROVE  LuckyInv'
<1>1. Current'
  <2>1. ASSUME NEW r \in Agents, NEW k \in DOMAIN responses'[r]
        PROVE  responses'[r][k].request = asked'[r]
    BY DEF LuckyInv, Current, NothingAsked, ResponsesKept
  <2>2. ASSUME NEW q \in Agents, NEW m \in net'[q]
        PROVE  /\ m.kind = "Request" => m.msgID = asked'[m.from]
               /\ m.kind = "Response" => m.msgID = asked'[m.to]
    BY DEF LuckyInv, Current, NothingAsked, PacketsKept, Asking
  <2>3. ASSUME NEW r \in Agents, NEW i \in DOMAIN jobs'[r], jobs'[r][i].kind = "RequestJob"
        PROVE  jobs'[r][i].msgID = asked'[r]
    BY <2>3 DEF LuckyInv, Current, NothingAsked, JobsKept, Asking
  <2>4. QED BY <2>1, <2>2, <2>3 DEF Current
<1>2. OneAnswer'
  <2> SUFFICES ASSUME resends' = 0, dups' = 0, NEW r \in Agents
               PROVE  (/\ \A m, n \in Open(r) : m = n
                       /\ Len(responses[r]) <= 1
                       /\ Open(r) # {} => responses[r] = <<>>)'
    BY DEF OneAnswer
  <2>1. resends \in Nat /\ dups \in Nat
    BY DEF LuckyInv, RemoteInv, SafetyInv, TypeInv, TypeOK
  <2>2. resends = 0 /\ dups = 0
    BY <2>1 DEF NothingAsked, LuckKept
  <2>3. /\ \A m, n \in Open(r) : m = n
        /\ Len(responses[r]) <= 1
        /\ Open(r) # {} => responses[r] = <<>>
    BY <2>2 DEF LuckyInv, OneAnswer
  <2>4. Open(r)' \subseteq Open(r)
    <3>1. ASSUME NEW m \in Open(r)' PROVE m \in Open(r)
      <4>1. PICK q \in Agents : m \in net'[q] /\ m.kind \in {"Request", "Response"}
        BY DEF Open
      <4>2. m \in net[q] /\ m \in Message
        BY <4>1 DEF NothingAsked, PacketsKept, Asking, LuckyInv, RemoteInv, SafetyInv, TypeInv, TypeOK
      <4>3. m.to \in Agents
        BY <4>1, <4>2, MessageFields
      <4>4. m \in net'[m.to] => m \in net[m.to]
        BY <4>1, <4>3 DEF NothingAsked, PacketsKept, Asking
      <4>5. m \in net'[r] => m \in net[r]
        BY <4>1 DEF NothingAsked, PacketsKept, Asking
      <4>6. QED BY <4>2, <4>4, <4>5 DEF Open
    <3>2. QED BY <3>1
  <2>5. /\ Len(responses'[r]) <= Len(responses[r])
        /\ Len(responses[r]) \in Nat /\ Len(responses'[r]) \in Nat
        /\ Len(responses[r]) = 0 <=> responses[r] = <<>>
        /\ Len(responses'[r]) = 0 <=> responses'[r] = <<>>
    BY ResponseLists DEF LuckyInv, RemoteInv, NothingAsked, ResponsesKept
  <2>6. Open(r)' # {} => Open(r) # {}
    BY <2>4
  <2>7. Open(r)' # {} => responses'[r] = <<>>
    BY <2>3, <2>5, <2>6
  <2>8. QED BY <2>3, <2>4, <2>5, <2>7
<1>3. QED BY <1>1, <1>2 DEF LuckyInv

LEMMA ListsKept ==
  ASSUME RemoteTypeOK, UNCHANGED responses
  PROVE  ResponsesKept
BY ResponseLists DEF ResponsesKept

\* Nor do writes, nor looking for a response, nor giving up.
LEMMA GiveUpAsksNothing ==
  ASSUME LuckyInv, NEW r \in Agents, NEW i \in DOMAIN jobs[r], GiveUp(r, i),
         UNCHANGED <<dups, remoteVars>>
  PROVE  NothingAsked
<1>1. eraseJob(r, i) /\ UNCHANGED <<net, resends, dups, responses, asked>>
  BY DEF GiveUp, remoteVars
<1>2. resends \in Nat /\ dups \in Nat
  BY DEF LuckyInv, RemoteInv, SafetyInv, TypeInv, TypeOK
<1>3. JobsKept(Asking) /\ ResponsesKept
  BY <1>1, EraseKeeps, ListsKept DEF LuckyInv, RemoteInv, SafetyInv
<1>4. PacketsKept(Asking) /\ LuckKept
  BY <1>1, <1>2 DEF PacketsKept, LuckKept
<1>5. QED BY <1>1, <1>3, <1>4 DEF NothingAsked

LEMMA WritesAskNothing ==
  ASSUME LuckyInv, NEW r \in Agents,
         \/ \E q \in Agents, v \in Values, s \in Levels, t \in DecissionTimes : writeVariable(r, q, v, s, t)
         \/ \E m \in net[r] : handleCaceWrite(r, m)
         \/ \E i \in DOMAIN jobs[r] : processWriteJob(r, i) \/ processWriteAckJob(r, i)
  PROVE  NothingAsked
<1>1. /\ TypeInv /\ RemoteTypeOK /\ resends \in Nat /\ dups \in Nat
      /\ net \in [Agents -> SUBSET Message]
  <2>1. TypeInv /\ RemoteTypeOK
    BY DEF LuckyInv, RemoteInv, SafetyInv
  <2>2. resends \in 0..MaxResends /\ dups \in 0..MaxDups /\ net \in [Agents -> SUBSET Message]
    BY <2>1 DEF TypeInv, TypeOK
  <2>3. QED BY <2>1, <2>2
<1>2. ASSUME NEW q, NEW v, NEW s, NEW t, writeVariable(r, q, v, s, t) PROVE NothingAsked
  <2>1. PICK b : b = [id |-> r, val |-> v, age |-> clock[r], strat |-> s, dec |-> t]
    OBVIOUS
  <2>2. PICK m : m = CaceWrite(r, q, MsgID(r), b, clock[r] + 1)
    OBVIOUS
  <2>3. PICK j : j = WriteJob(MsgID(r), q, b)
    OBVIOUS
  <2>4. /\ net' = Multicast(net, r, {m}) /\ appendJob(r, j)
        /\ UNCHANGED <<resends, dups, responses, asked>>
    BY <1>2, <2>1, <2>2, <2>3 DEF writeVariable
  <2>5. j.kind = "WriteJob" /\ m.kind = "Write"
    BY <2>2, <2>3 DEF WriteJob, CaceWrite
  <2>6. j.kind \notin Asking /\ \A p \in {m} : p.kind \notin Asking
    BY <2>5 DEF Asking
  <2>7. PacketsKept(Asking) /\ JobsKept(Asking) /\ ResponsesKept
    BY <1>1, <2>4, <2>6, MulticastKeeps, AppendKeeps, ListsKept
  <2>8. QED BY <1>1, <2>4, <2>7 DEF NothingAsked, LuckKept
<1>3. ASSUME NEW m \in net[r], handleCaceWrite(r, m) PROVE NothingAsked
  <2>1. PICK c : c = Seen(clock[r], m.stamp)
    OBVIOUS
  <2>2. PICK p : p = CaceWriteAck(r, m, c + 1)
    OBVIOUS
  <2>3. /\ UNCHANGED <<resends, responses, asked>>
        /\ Receive(r, m, {}) \/ Receive(r, m, {p})
        /\ appendJob(r, WriteAckJob(m)) \/ UNCHANGED jobs
    BY <1>3, <2>1, <2>2 DEF handleCaceWrite, ClockAtWrite, remoteVars
  <2>4. \A x \in {p} : x.kind \notin Asking
    BY <2>2 DEF CaceWriteAck, CaceShortAck, Asking
  <2>5. PacketsKept(Asking) /\ dups <= dups'
    BY <1>1, <2>3, <2>4, ReceiveKeeps
  <2>6. JobsKept(Asking)
    <3>1. WriteAckJob(m).kind \notin Asking
      BY DEF WriteAckJob, Asking
    <3>2. CASE UNCHANGED jobs
      BY <3>2 DEF JobsKept
    <3>3. QED BY <1>1, <2>3, <3>1, <3>2, AppendKeeps
  <2>7. ResponsesKept
    BY <1>1, <2>3, ListsKept
  <2>8. QED BY <1>1, <2>3, <2>5, <2>6, <2>7 DEF NothingAsked, LuckKept
<1>4. ASSUME NEW i \in DOMAIN jobs[r], processWriteJob(r, i) PROVE NothingAsked
  <2>1. PICK o : o = jobs[r][i]
    OBVIOUS
  <2>2. /\ o.kind = "WriteJob" /\ UNCHANGED <<dups, remoteVars>>
        /\ \/ GiveUp(r, i)
           \/ \E q : ResendLater(r, i, CaceWrite(r, q, o.msgID, o.variable, clock[r] + 1))
    BY <1>4, <2>1 DEF processWriteJob
  <2>3. CASE GiveUp(r, i)
    BY <2>2, <2>3, GiveUpAsksNothing
  <2>4. ASSUME NEW m, m.kind = "Write", ResendLater(r, i, m) PROVE NothingAsked
    <3>1. PICK late : late = Retryable(o)
      OBVIOUS
    <3>2. PICK j : j = Resent(o, late)
      OBVIOUS
    <3>3. resend(r, late, {m}) /\ replaceJob(r, i, j)
      BY <2>1, <2>4, <3>1, <3>2 DEF ResendLater
    <3>4. late \in SUBSET Agents /\ j.kind = "WriteJob"
      BY <1>1, <2>1, <2>2, <3>1, <3>2, ListedJob, ResentRemoteJob
    <3>5. j.kind \notin Asking /\ \A p \in {m} : p.kind \notin Asking
      BY <2>4, <3>4 DEF Asking
    <3>6. PacketsKept(Asking) /\ resends <= resends'
      BY <1>1, <3>3, <3>4, <3>5, ResendKeeps
    <3>7. JobsKept(Asking) /\ ResponsesKept
      BY <1>1, <2>2, <3>3, <3>5, ReplaceKeeps, ListsKept DEF remoteVars
    <3>8. QED BY <1>1, <2>2, <3>6, <3>7 DEF NothingAsked, LuckKept, remoteVars
  <2>5. QED BY <2>2, <2>3, <2>4 DEF CaceWrite
<1>5. ASSUME NEW i \in DOMAIN jobs[r], processWriteAckJob(r, i) PROVE NothingAsked
  <2>1. PICK p : p = CaceWriteAck(r, jobs[r][i].cmd, clock[r] + 1)
    OBVIOUS
  <2>2. /\ net' = Multicast(net, r, {p}) /\ eraseJob(r, i)
        /\ UNCHANGED <<resends, dups, responses, asked>>
    BY <1>5, <2>1 DEF processWriteAckJob, remoteVars
  <2>3. \A x \in {p} : x.kind \notin Asking
    BY <2>1 DEF CaceWriteAck, CaceShortAck, Asking
  <2>4. PacketsKept(Asking) /\ JobsKept(Asking) /\ ResponsesKept
    BY <1>1, <2>2, <2>3, MulticastKeeps, EraseKeeps, ListsKept
  <2>5. QED BY <1>1, <2>2, <2>4 DEF NothingAsked, LuckKept
<1>6. QED BY <1>2, <1>3, <1>4, <1>5

LEMMA NextAsksNothing ==
  ASSUME LuckyInv, Next, UNCHANGED remoteVars
  PROVE  NothingAsked
<1>1. Asking \cap CommandKinds = {}
  BY DEF Asking, CommandKinds
<1>2. PacketsKept(Asking) /\ JobsKept(Asking) /\ LuckKept
  BY <1>1, CallKeeps, HandleKeeps, ProcessKeeps
     DEF Next, LuckyInv, RemoteInv, SafetyInv
<1>3. QED BY <1>2, ListsKept DEF NothingAsked, LuckyInv, RemoteInv, remoteVars

LEMMA GetAsksNothing ==
  ASSUME LuckyInv, NEW r \in Agents, getRequestedVariable(r)
  PROVE  NothingAsked
<1>1. /\ responses \in [Agents -> Seq(ResponseRecord)] /\ responses[r] # <<>>
      /\ responses' = [responses EXCEPT ![r] = Tail(responses[r])]
      /\ net' = net /\ jobs' = jobs /\ UNCHANGED <<resends, dups, asked>>
  BY DEF LuckyInv, RemoteInv, RemoteTypeOK, getRequestedVariable, vars
<1>2. /\ Tail(responses[r]) \in Seq(ResponseRecord)
      /\ Len(Tail(responses[r])) = Len(responses[r]) - 1
      /\ \A k \in 1..Len(Tail(responses[r])) : Tail(responses[r])[k] = responses[r][k + 1]
  BY <1>1, HeadTailProperties
<1>3. responses'[r] = Tail(responses[r]) /\ \A q \in Agents \ {r} : responses'[q] = responses[q]
  BY <1>1
<1>4. /\ DOMAIN responses'[r] = 1..Len(responses'[r]) /\ Len(responses'[r]) \in Nat
      /\ DOMAIN responses[r] = 1..Len(responses[r]) /\ Len(responses[r]) \in Nat
      /\ Len(responses'[r]) = Len(responses[r]) - 1
  BY <1>1, <1>2, <1>3, LenProperties
<1>5. \A k \in DOMAIN responses'[r] :
        k + 1 \in DOMAIN responses[r] /\ responses'[r][k] = responses[r][k + 1]
  BY <1>2, <1>3, <1>4
<1>6. \A q \in Agents : Len(responses[q]) \in Nat
  BY <1>1, LenProperties
<1>7. ResponsesKept
  <2>1. Len(responses'[r]) <= Len(responses[r])
    BY <1>4
  <2>2. \A q \in Agents \ {r} : Len(responses'[q]) <= Len(responses[q])
    BY <1>3, <1>6
  <2>3. \A k \in DOMAIN responses'[r] : \E l \in DOMAIN responses[r] : responses'[r][k] = responses[r][l]
    BY <1>5
  <2>4. QED BY <1>3, <2>1, <2>2, <2>3 DEF ResponsesKept
<1>8. resends \in Nat /\ dups \in Nat
  BY DEF LuckyInv, RemoteInv, SafetyInv, TypeInv, TypeOK
<1>9. QED BY <1>1, <1>7, <1>8 DEF NothingAsked, PacketsKept, JobsKept, LuckKept

\* A user who waits asks when nothing is under way, and then only the request is.
LEMMA RequestVariableLucky ==
  ASSUME LuckyInv, RemoteInv', NEW r \in Agents, NEW q \in Agents, requestVariable(r, q),
         Quiet, resends = 0, dups = 0
  PROVE  LuckyInv'
<1>a. PICK p : p = CaceVariableRequest(r, q, MsgID(r))
  OBVIOUS
<1>b. PICK j : j = RequestJob(MsgID(r), q)
  OBVIOUS
<1>1. /\ asked' = [asked EXCEPT ![r] = MsgID(r)]
      /\ responses' = [responses EXCEPT ![r] = deleteResponse(responses[r])]
      /\ net' = Multicast(net, r, {p}) /\ appendJob(r, j)
  BY <1>a, <1>b DEF requestVariable
<1>2. /\ responses \in [Agents -> Seq(ResponseRecord)] /\ asked \in [Agents -> Nat]
      /\ jobs \in [Agents -> Seq(Job)] /\ MsgID(r) \in Nat
  BY MsgIDType DEF LuckyInv, RemoteInv, RemoteTypeOK, SafetyInv, TypeInv, TypeOK
<1>3. p \in Message /\ p.kind = "Request" /\ p.from = r /\ p.to = q /\ p.msgID = asked'[r]
  BY <1>1, <1>2, <1>a, NewRequest
<1>4. \A s \in Agents : \A m \in net'[s] : m = p
  BY <1>1 DEF Quiet, Multicast
<1>5. deleteResponse(responses[r]) = <<>>
  <2>1. Len(responses[r]) \in Nat /\ Len(responses[r]) <= 1
    BY <1>2, LenProperties DEF LuckyInv, OneAnswer
  <2>2. \A n \in Nat : n <= 1 => 1..(n \div 2) = {}
    OBVIOUS
  <2>3. 1..(Len(responses[r]) \div 2) = {}
    BY <2>1, <2>2
  <2>4. deleteResponse(responses[r]) \in Seq(ResponseRecord)
    BY <1>2, DeletedResponses
  <2>5. DOMAIN deleteResponse(responses[r]) = {}
    BY <2>3 DEF deleteResponse
  <2>6. QED BY <2>4, <2>5, LenProperties, EmptySeq
<1>6. /\ responses'[r] = <<>> /\ \A s \in Agents \ {r} : responses'[s] = responses[s]
      /\ \A s \in Agents \ {r} : asked'[s] = asked[s]
  BY <1>1, <1>2, <1>5
<1>7. Current'
  <2>1. ASSUME NEW s \in Agents, NEW k \in DOMAIN responses'[s]
        PROVE  responses'[s][k].request = asked'[s]
    <3>1. s # r
      BY <1>6, EmptySeq
    <3>2. QED BY <1>6, <3>1 DEF LuckyInv, Current
  <2>2. ASSUME NEW s \in Agents, NEW m \in net'[s]
        PROVE  /\ m.kind = "Request" => m.msgID = asked'[m.from]
               /\ m.kind = "Response" => m.msgID = asked'[m.to]
    BY <1>3, <1>4
  <2>3. ASSUME NEW s \in Agents, NEW i \in DOMAIN jobs'[s], jobs'[s][i].kind = "RequestJob"
        PROVE  jobs'[s][i].msgID = asked'[s]
    <3>1. j \in Job /\ j.msgID = MsgID(r)
      BY <1>2, <1>b, NewRemoteJobs
    <3>2. JobsBecome(r, j)
      BY <1>1, <1>2, <3>1, AppendedJob
    <3>3. \A t \in Agents : DOMAIN jobs[t] = {}
      BY EmptySeq DEF Quiet
    <3>4. s = r /\ jobs'[s][i] = j
      BY <3>2, <3>3 DEF JobsBecome
    <3>5. QED BY <1>1, <1>2, <3>1, <3>4
  <2>4. QED BY <2>1, <2>2, <2>3 DEF Current
<1>8. OneAnswer'
  <2> SUFFICES ASSUME NEW s \in Agents
               PROVE  (/\ \A m, n \in Open(s) : m = n
                       /\ Len(responses[s]) <= 1
                       /\ Open(s) # {} => responses[s] = <<>>)'
    BY DEF OneAnswer
  <2>1. \A m \in Open(s)' : m = p /\ s = r
    BY <1>3, <1>4 DEF Open
  <2>2. Len(responses'[s]) <= 1
    <3>1. CASE s = r
      BY <1>6, <3>1, EmptySeq
    <3>2. CASE s # r
      BY <1>6, <3>2 DEF LuckyInv, OneAnswer
    <3>3. QED BY <3>1, <3>2
  <2>3. QED BY <1>6, <2>1, <2>2
<1>9. QED BY <1>7, <1>8 DEF LuckyInv

\* The request of a robot becomes the response to it.
LEMMA HandleCaceVariableRequestLucky ==
  ASSUME LuckyInv, RemoteInv', NEW r \in Agents, NEW m \in net[r], handleCaceVariableRequest(r, m)
  PROVE  LuckyInv'
<1>a. PICK p : p = CaceResponse(r, m.from, m.msgID, own[r], clock[r] + 1)
  OBVIOUS
<1>1. /\ Receive(r, m, {p}) /\ m.kind = "Request" /\ m.to \in {Broadcast, r}
      /\ UNCHANGED <<jobs, resends, responses, asked>>
  BY <1>a DEF handleCaceVariableRequest, Addressed, remoteVars
<1>2. /\ m \in Message /\ m.from # r /\ m.from \in Agents /\ m.to = r /\ m.msgID \in Nat
  BY <1>1, PacketRead, MessageFields DEF LuckyInv, RemoteInv, Broadcast
<1>3. /\ net \in [Agents -> SUBSET Message] /\ dups \in Nat /\ resends \in Nat
      /\ own[r] \in Believe(Agents) /\ clock[r] + 1 \in Nat
      /\ net' \in [Agents -> SUBSET Message]
  <2>1. TypeOK /\ TypeOK'
    BY DEF LuckyInv, RemoteInv, SafetyInv, TypeInv
  <2>2. /\ resends \in 0..MaxResends /\ dups \in 0..MaxDups /\ clock[r] \in Nat
        /\ own[r] \in Believe(Agents) /\ net \in [Agents -> SUBSET Message]
    BY <2>1 DEF TypeOK
  <2>3. net' \in [Agents -> SUBSET Message]
    BY <2>1 DEF TypeOK
  <2>4. QED BY <2>2, <2>3
<1>4. p \in Message /\ p.kind = "Response" /\ p.from = r /\ p.to = m.from /\ p.msgID = m.msgID
  BY <1>2, <1>3, <1>a, NewResponse
<1>5. \A q \in Agents : \A x \in net'[q] : x \in net[q] \/ x = p
  <2>1. {p} \in SUBSET Message /\ dups \in 0..MaxDups
    BY <1>4 DEF LuckyInv, RemoteInv, SafetyInv, TypeInv, TypeOK
  <2>2. PacketsFrom(r, {p})
    BY <1>1, <1>3, <2>1, ReceivedPackets
  <2>3. QED BY <2>2 DEF PacketsFrom
<1>6. Current'
  <2>1. p.msgID = asked[p.to]
    BY <1>1, <1>4 DEF LuckyInv, Current
  <2>2. ASSUME NEW q \in Agents, NEW x \in net'[q]
        PROVE  /\ x.kind = "Request" => x.msgID = asked'[x.from]
               /\ x.kind = "Response" => x.msgID = asked'[x.to]
    <3>1. CASE x = p
      BY <1>1, <1>4, <2>1, <3>1
    <3>2. CASE x \in net[q]
      BY <1>1, <3>2 DEF LuckyInv, Current
    <3>3. QED BY <1>5, <3>1, <3>2
  <2>3. QED BY <1>1, <2>2 DEF LuckyInv, Current
<1>7. OneAnswer'
  <2> SUFFICES ASSUME resends' = 0, dups' = 0, NEW s \in Agents
               PROVE  (/\ \A x, y \in Open(s) : x = y
                       /\ Len(responses[s]) <= 1
                       /\ Open(s) # {} => responses[s] = <<>>)'
    BY DEF OneAnswer
  <2>1. resends = 0 /\ dups = 0 /\ net' = Multicast([net EXCEPT ![r] = @ \ {m}], r, {p})
    BY <1>1, <1>3 DEF Receive
  <2>2. /\ \A x, y \in Open(s) : x = y
        /\ Len(responses[s]) <= 1
        /\ Open(s) # {} => responses[s] = <<>>
    BY <2>1 DEF LuckyInv, OneAnswer
  <2>3. m \notin net'[r]
    BY <1>3, <2>1 DEF Multicast
  <2>4. m \in Open(m.from)
    BY <1>1, <1>2 DEF Open
  <2>5. \A x \in Open(s)' : (x = p /\ s = m.from) \/ (x \in Open(s) /\ x # m)
    <3>1. ASSUME NEW x \in Open(s)', x # p PROVE x \in Open(s) /\ x # m
      <4>1. PICK q \in Agents : x \in net'[q]
        BY DEF Open
      <4>2. x \in Message /\ x.kind \in {"Request", "Response"}
        BY <1>3, <4>1 DEF Open
      <4>3. x.to \in Agents
        BY <4>2, MessageFields
      <4>4. x # m
        BY <1>1, <1>2, <2>3 DEF Open
      <4>5. x \in net[q] /\ (x \in net'[x.to] => x \in net[x.to]) /\ (x \in net'[s] => x \in net[s])
        BY <1>5, <3>1, <4>1, <4>3
      <4>6. QED BY <4>4, <4>5 DEF Open
    <3>2. ASSUME p \in Open(s)' PROVE s = m.from
      BY <1>4, <3>2 DEF Open
    <3>3. QED BY <3>1, <3>2
  <2>6. CASE s = m.from
    <3>1. \A x \in Open(s)' : x = p
      BY <2>2, <2>4, <2>5, <2>6
    <3>2. responses'[s] = <<>>
      BY <1>1, <2>2, <2>4, <2>6
    <3>3. QED BY <1>1, <2>2, <3>1, <3>2
  <2>7. CASE s # m.from
    <3>1. \A x \in Open(s)' : x \in Open(s)
      BY <2>5, <2>7
    <3>2. QED BY <1>1, <2>2, <3>1
  <2>8. QED BY <2>6, <2>7
<1>8. QED BY <1>6, <1>7 DEF LuckyInv

\* The response under way becomes the one in the list.
LEMMA HandleCaceResponseLucky ==
  ASSUME LuckyInv, RemoteInv', NEW r \in Agents, NEW m \in net[r], handleCaceResponse(r, m)
  PROVE  LuckyInv'
<1>a. PICK e : e = [believe |-> Response(r, m), request |-> m.msgID]
  OBVIOUS
<1>1. /\ Receive(r, m, {}) /\ m.kind = "Response" /\ m.to \in {Broadcast, r}
      /\ responses' = [responses EXCEPT ![r] = Append(responses[r], e)]
      /\ UNCHANGED <<jobs, resends, asked>>
  BY <1>a DEF handleCaceResponse, Addressed
<1>2. m \in Message /\ m.to = r /\ m.msgID \in Nat
  BY <1>1, PacketRead, MessageFields DEF LuckyInv, RemoteInv, Broadcast
<1>3. /\ net \in [Agents -> SUBSET Message] /\ dups \in Nat /\ dups \in 0..MaxDups
      /\ net' \in [Agents -> SUBSET Message] /\ responses \in [Agents -> Seq(ResponseRecord)]
  <2>1. TypeInv /\ TypeInv' /\ RemoteTypeOK
    BY DEF LuckyInv, RemoteInv, SafetyInv
  <2>2. QED BY <2>1 DEF TypeInv, TypeOK, RemoteTypeOK
<1>4. \A q \in Agents : \A x \in net'[q] : x \in net[q]
  <2>1. net' \in [Agents -> SUBSET Message] /\ PacketsFrom(r, {})
    <3>1. {} \in SUBSET Message
      OBVIOUS
    <3>2. QED BY <1>1, <1>3, <3>1, ReceivedPackets
  <2>2. QED BY <2>1 DEF PacketsFrom
<1>5. e \in ResponseRecord /\ e.request = asked[r]
  <2>1. /\ m.from \in Agents /\ m.val \in AnyValue \cup {NoValue} /\ m.stamp \in Nat
        /\ m.level \in Strategies /\ m.dec \in Nat
    BY <1>1, <1>2, MessageFields
  <2>2. PICK b : b = Response(r, m)
    OBVIOUS
  <2>3. b = [id |-> m.from, val |-> m.val, age |-> m.stamp, strat |-> m.level, dec |-> m.dec]
    BY <2>2 DEF Response, Heard
  <2>4. b \in Believe(Agents)
    BY <2>1, <2>3 DEF Believe
  <2>5. m.msgID = asked[r]
    BY <1>1, <1>2 DEF LuckyInv, Current
  <2>6. QED BY <1>2, <1>a, <2>2, <2>4, <2>5 DEF ResponseRecord
<1>6. ResponsesBecome(r, e)
  BY <1>1, <1>3, <1>5, AppendedResponse
<1>7. Current'
  <2>1. ASSUME NEW s \in Agents, NEW k \in DOMAIN responses'[s]
        PROVE  responses'[s][k].request = asked'[s]
    <3>1. CASE s = r /\ responses'[s][k] = e
      BY <1>1, <1>5, <3>1
    <3>2. CASE \E l \in DOMAIN responses[s] : responses'[s][k] = responses[s][l]
      BY <1>1, <3>2 DEF LuckyInv, Current
    <3>3. QED BY <1>6, <3>1, <3>2 DEF ResponsesBecome
  <2>2. ASSUME NEW q \in Agents, NEW x \in net'[q]
        PROVE  /\ x.kind = "Request" => x.msgID = asked'[x.from]
               /\ x.kind = "Response" => x.msgID = asked'[x.to]
    BY <1>1, <1>4 DEF LuckyInv, Current
  <2>3. QED BY <1>1, <2>1, <2>2 DEF LuckyInv, Current
<1>8. OneAnswer'
  <2> SUFFICES ASSUME resends' = 0, dups' = 0, NEW s \in Agents
               PROVE  (/\ \A x, y \in Open(s) : x = y
                       /\ Len(responses[s]) <= 1
                       /\ Open(s) # {} => responses[s] = <<>>)'
    BY DEF OneAnswer
  <2>1. resends = 0 /\ dups = 0 /\ net' = Multicast([net EXCEPT ![r] = @ \ {m}], r, {})
    BY <1>1, <1>3 DEF Receive
  <2>2. /\ \A x, y \in Open(s) : x = y
        /\ Len(responses[s]) <= 1
        /\ Open(s) # {} => responses[s] = <<>>
    BY <2>1 DEF LuckyInv, OneAnswer
  <2>3. m \notin net'[r]
    BY <1>3, <2>1 DEF Multicast
  <2>4. m \in Open(r)
    BY <1>1, <1>2 DEF Open
  <2>5. \A x \in Open(s)' : x \in Open(s)
    <3>1. ASSUME NEW x \in Open(s)' PROVE x \in Open(s)
      <4>1. PICK q \in Agents : x \in net'[q]
        BY DEF Open
      <4>2. x \in Message /\ x.kind \in {"Request", "Response"}
        BY <1>3, <4>1 DEF Open
      <4>3. x.to \in Agents
        BY <4>2, MessageFields
      <4>4. x \in net[q] /\ (x \in net'[x.to] => x \in net[x.to]) /\ (x \in net'[s] => x \in net[s])
        BY <1>4, <4>1, <4>3
      <4>5. QED BY <4>4 DEF Open
    <3>2. QED BY <3>1
  <2>6. CASE s = r
    <3>1. m \notin Open(s)'
      BY <1>1, <2>3, <2>6 DEF Open
    <3>2. Open(s)' = {}
      BY <2>2, <2>4, <2>5, <2>6, <3>1
    <3>3. responses[r] = <<>> /\ responses'[r] = Append(responses[r], e)
      BY <1>1, <1>3, <2>2, <2>4, <2>6
    <3>4. responses[r] \in Seq(ResponseRecord) /\ Len(responses[r]) = 0
      BY <1>3, <3>3, EmptySeq
    <3>5. Len(responses'[r]) = Len(responses[r]) + 1
      BY <1>5, <3>3, <3>4, AppendProperties
    <3>6. Len(responses'[s]) <= 1
      BY <2>6, <3>4, <3>5
    <3>7. QED BY <3>2, <3>6
  <2>7. CASE s # r
    BY <1>6, <2>2, <2>5, <2>7 DEF ResponsesBecome
  <2>8. QED BY <2>6, <2>7
<1>9. QED BY <1>7, <1>8 DEF LuckyInv

\* A request sent again is the last one still.
LEMMA ProcessRequestJobLucky ==
  ASSUME LuckyInv, RemoteInv', NEW r \in Agents, NEW i \in DOMAIN jobs[r], processRequestJob(r, i)
  PROVE  LuckyInv'
<1>a. PICK o : o = jobs[r][i]
  OBVIOUS
<1>1. /\ o.kind = "RequestJob" /\ UNCHANGED <<dups, remoteVars>>
      /\ \/ GiveUp(r, i)
         \/ \E q \in o.expected : ResendLater(r, i, CaceVariableRequest(r, q, o.msgID))
  BY <1>a DEF processRequestJob
<1>2. CASE GiveUp(r, i)
  BY <1>1, <1>2, GiveUpAsksNothing, NothingAskedLucky
<1>3. ASSUME NEW q \in o.expected, ResendLater(r, i, CaceVariableRequest(r, q, o.msgID))
      PROVE  LuckyInv'
  <2>1. PICK p : p = CaceVariableRequest(r, q, o.msgID)
    OBVIOUS
  <2>2. PICK late : late = Retryable(o)
    OBVIOUS
  <2>3. PICK j : j = Resent(o, late)
    OBVIOUS
  <2>4. /\ late # {} /\ resends' = resends + Cardinality(late)
        /\ net' = Multicast(net, r, {p}) /\ replaceJob(r, i, j)
    BY <1>3, <1>a, <2>1, <2>2, <2>3 DEF ResendLater, resend
  <2>5. /\ o \in Job /\ q \in Agents /\ o.msgID \in Nat /\ o.msgID = asked[r]
    BY <1>1, <1>a, ListedJob, OtherJobFields DEF LuckyInv, RemoteInv, SafetyInv, Current
  <2>6. p.kind = "Request" /\ p.from = r /\ p.msgID = asked[r]
    BY <2>1, <2>5, NewRequest
  <2>7. /\ late \in SUBSET Agents /\ j \in Job /\ j.msgID = asked[r]
    BY <1>1, <2>2, <2>3, <2>5, ResentRemoteJob
  <2>8. resends' # 0
    <3>1. IsFiniteSet(late)
      BY <2>7, FS_Subset
    <3>2. Cardinality(late) \in Nat /\ Cardinality(late) # 0
      BY <2>4, <3>1, FS_CardinalityType, FS_EmptySet
    <3>3. resends \in Nat
      BY DEF LuckyInv, RemoteInv, SafetyInv, TypeInv, TypeOK
    <3>4. QED BY <2>4, <3>2, <3>3
  <2>9. Current'
    <3>1. asked' = asked /\ responses' = responses
      BY <1>1 DEF remoteVars
    <3>2. ASSUME NEW s \in Agents, NEW x \in net'[s]
          PROVE  /\ x.kind = "Request" => x.msgID = asked'[x.from]
                 /\ x.kind = "Response" => x.msgID = asked'[x.to]
      <4>1. x = p \/ x \in net[s]
        BY <2>4 DEF Multicast
      <4>2. CASE x = p
        BY <2>6, <3>1, <4>2
      <4>3. CASE x \in net[s]
        BY <3>1, <4>3 DEF LuckyInv, Current
      <4>4. QED BY <4>1, <4>2, <4>3
    <3>3. ASSUME NEW s \in Agents, NEW k \in DOMAIN jobs'[s], jobs'[s][k].kind = "RequestJob"
          PROVE  jobs'[s][k].msgID = asked'[s]
      <4>1. JobsBecome(r, j)
        BY <2>4, <2>7, ReplacedJob DEF LuckyInv, RemoteInv, SafetyInv, TypeInv, TypeOK
      <4>2. CASE s = r /\ jobs'[s][k] = j
        BY <2>7, <3>1, <4>2
      <4>3. CASE \E l \in DOMAIN jobs[s] : jobs'[s][k] = jobs[s][l]
        BY <3>1, <3>3, <4>3 DEF LuckyInv, Current
      <4>4. QED BY <4>1, <4>2, <4>3 DEF JobsBecome
    <3>4. QED BY <3>1, <3>2, <3>3 DEF LuckyInv, Current
  <2>10. QED BY <2>8, <2>9 DEF LuckyInv, OneAnswer
<1>4. QED BY <1>1, <1>2, <1>3

LEMMA LuckyInvInit == RemoteInit => LuckyInv
<1> SUFFICES ASSUME RemoteInit PROVE LuckyInv
  OBVIOUS
<1>1. RemoteInv
  BY RemoteInvInit
<1>2. DOMAIN <<>> = {} /\ Len(<<>>) = 0
  BY EmptySeq
<1>3. \A r \in Agents : /\ responses[r] = <<>> /\ net[r] = {} /\ jobs[r] = <<>>
  BY DEF RemoteInit, Init
<1>4. Current
  BY <1>2, <1>3 DEF Current
<1>5. OneAnswer
  BY <1>2, <1>3 DEF OneAnswer, Open
<1>6. QED BY <1>1, <1>4, <1>5 DEF LuckyInv

LEMMA LuckyInvStep == LuckyInv /\ [LuckyNext]_allVars => LuckyInv'
<1> SUFFICES ASSUME LuckyInv, [LuckyNext]_allVars PROVE LuckyInv'
  OBVIOUS
<1>1. RemoteInv'
  BY RemoteInvStep DEF LuckyInv, LuckyNext, PatientNext
<1>2. CASE UNCHANGED allVars
  <2>1. UNCHANGED <<net, jobs, resends, dups, responses, asked>>
    BY <1>2 DEF allVars, vars, remoteVars
  <2>2. Current'
    BY <2>1 DEF LuckyInv, Current
  <2>3. \A r \in Agents : Open(r)' = Open(r)
    BY <2>1 DEF Open
  <2>4. OneAnswer'
    BY <2>1, <2>3 DEF LuckyInv, OneAnswer
  <2>5. QED BY <1>1, <2>2, <2>4 DEF LuckyInv
<1>3. CASE LuckyNext
  <2>1. CASE NothingAsked
    BY <1>1, <2>1, NothingAskedLucky
  <2>2. CASE Next /\ UNCHANGED remoteVars
    BY <2>1, <2>2, NextAsksNothing
  <2>3. ASSUME NEW r \in Agents, RemoteCall(r) PROVE LuckyInv'
    <3>1. ASSUME NEW q \in Agents, requestVariable(r, q) PROVE LuckyInv'
      <4>1. requests' # requests
        BY <3>1 DEF requestVariable, LuckyInv, RemoteInv, RemoteTypeOK
      <4>2. Quiet /\ resends = 0 /\ dups = 0
        BY <1>3, <4>1 DEF LuckyNext, PatientNext
      <4>3. QED BY <1>1, <3>1, <4>2, RequestVariableLucky
    <3>2. ASSUME NEW q \in Agents, NEW v \in Values, NEW s \in Levels, NEW t \in DecissionTimes,
                 writeVariable(r, q, v, s, t)
          PROVE  LuckyInv'
      BY <2>1, <3>2, WritesAskNothing
    <3>3. CASE getRequestedVariable(r)
      BY <2>1, <3>3, GetAsksNothing
    <3>4. QED BY <2>3, <3>1, <3>2, <3>3 DEF RemoteCall, Others
  <2>4. ASSUME NEW r \in Agents, NEW m \in net[r], RemoteHandle(r, m) PROVE LuckyInv'
    BY <1>1, <2>1, <2>4, HandleCaceVariableRequestLucky, HandleCaceResponseLucky, WritesAskNothing
       DEF RemoteHandle
  <2>5. ASSUME NEW r \in Agents, NEW i \in DOMAIN jobs[r], ProcessRemote(r, i) PROVE LuckyInv'
    BY <1>1, <2>1, <2>5, ProcessRequestJobLucky, WritesAskNothing DEF ProcessRemote
  <2>6. QED BY <1>3, <2>2, <2>3, <2>4, <2>5 DEF LuckyNext, PatientNext, RemoteNext
<1>4. QED BY <1>2, <1>3

\* With users who ask only when all is quiet, and as long as nothing was sent again or
\* came twice before a request, what a robot finds in its list of responses answers its
\* last request (requestVariable, deleteResponse, handleCaceResponse).
THEOREM ResponsesAreOfLastRequest == LuckySpec => []ResponsesAnswerLast
<1>1. LuckyInv => ResponsesAnswerLast
  BY DEF LuckyInv, Current, ResponsesAnswerLast
<1>2. QED BY <1>1, LuckyInvInit, LuckyInvStep, PTL DEF LuckySpec
=============================================================================
