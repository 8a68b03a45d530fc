-------------------------- MODULE CaceSafetyProofs --------------------------
(***************************************************************************)
(* Type correctness and the safety properties of the protocol, for any     *)
(* team, any strategies and any bounds.                                    *)
(*                                                                         *)
(* TypeOK is not inductive by itself: a message carries a value, so the    *)
(* proof also shows that a robot that has heard of the variable has a      *)
(* value for it (HasValues).                                               *)
(*                                                                         *)
(* The inductive invariant of the safety properties says that whatever     *)
(* speaks about a robot (a packet, a job, a proposal, a short ack in       *)
(* another robot's list) speaks the truth about its past: its clock has    *)
(* reached the stamp, its own believe has had the value, it has noted the  *)
(* acknowledge.  The past only grows, so what is true of it stays true     *)
(* wherever it is stored and whenever it is delivered.                     *)
(***************************************************************************)
EXTENDS CaceProtocol, FiniteSetTheorems, SequenceTheorems, TLAPS

USE AgentsAssumption, LevelsAssumption, TimesAssumption, BoundsAssumption, ModesAssumption,
    ValuesAssumption, LongMaxAssumption

-----------------------------------------------------------------------------
(***************************************************************************)
(* Sequences, packets, jobs.                                               *)
(***************************************************************************)
\* Erasing a job of the list leaves the others.
LEMMA RemoveAtElements ==
  ASSUME NEW S, NEW s \in Seq(S), NEW i \in DOMAIN s
  PROVE  /\ RemoveAt(s, i) \in Seq(S)
         /\ Len(RemoveAt(s, i)) = Len(s) - 1
         /\ \A k \in DOMAIN RemoveAt(s, i) : \E l \in DOMAIN s : RemoveAt(s, i)[k] = s[l]
<1> DEFINE n == Len(s)
           a == SubSeq(s, 1, i - 1)
           b == SubSeq(s, i + 1, n)
           c == a \o b
<1>1. n \in Nat /\ i \in 1..n /\ DOMAIN s = 1..n
  BY LenProperties
<1>2. /\ a \in Seq(S) /\ Len(a) = i - 1
      /\ \A k \in 1..(i - 1) : a[k] = s[k]
  BY <1>1, SubSeqProperties
<1>3. /\ b \in Seq(S) /\ Len(b) = n - i
      /\ \A k \in 1..(n - i) : b[k] = s[i + k]
  BY <1>1, SubSeqProperties
<1> HIDE DEF n, a, b
<1>. a \in Seq(S) /\ b \in Seq(S)
  BY <1>2, <1>3
<1>c. /\ c \in Seq(S)
      /\ Len(c) = Len(a) + Len(b)
      /\ \A k \in 1..(Len(a) + Len(b)) : c[k] = IF k <= Len(a) THEN a[k] ELSE b[k - Len(a)]
  BY ConcatProperties, Zenon
<1> HIDE DEF c
<1>4. c \in Seq(S) /\ Len(c) = n - 1
  BY <1>1, <1>2, <1>3, <1>c
<1>5. ASSUME NEW k \in 1..(n - 1) PROVE \E l \in 1..n : c[k] = s[l]
  <2>1. c[k] = IF k <= Len(a) THEN a[k] ELSE b[k - Len(a)]
    <3>1. Len(a) + Len(b) = n - 1
      BY <1>1, <1>2, <1>3
    <3>2. QED BY <1>c, <3>1
  <2>2. CASE k <= i - 1
    <3>1. k \in 1..(i - 1) /\ k \in 1..n
      BY <1>1, <2>2
    <3>2. QED BY <1>2, <2>1, <2>2, <3>1
  <2>3. CASE ~(k <= i - 1)
    <3>1. k - (i - 1) \in 1..(n - i) /\ i + (k - (i - 1)) = k + 1 /\ k + 1 \in 1..n
      BY <1>1, <2>3
    <3>2. c[k] = b[k - (i - 1)]
      BY <1>2, <2>1, <2>3
    <3>3. b[k - (i - 1)] = s[k + 1]
      BY <1>3, <3>1
    <3>4. QED BY <3>1, <3>2, <3>3
  <2>4. QED BY <2>2, <2>3
<1>6. RemoveAt(s, i) = c
  BY DEF RemoveAt, a, b, c, n
<1>7. DOMAIN c = 1..(n - 1)
  BY <1>4, LenProperties
<1>8. QED BY <1>1, <1>4, <1>5, <1>6, <1>7 DEF n

\* A job appended to, put in place of, or erased from robot r's list: the list is a
\* list of jobs and holds nothing else that is new.
JobsBecome(r, j) ==
  /\ jobs' \in [Agents -> Seq(Job)]
  /\ \A q \in Agents \ {r} : jobs'[q] = jobs[q]
  /\ \A k \in DOMAIN jobs'[r] :
       jobs'[r][k] = j \/ \E l \in DOMAIN jobs[r] : jobs'[r][k] = jobs[r][l]

LEMMA AppendedJob ==
  ASSUME jobs \in [Agents -> Seq(Job)], NEW r \in Agents, NEW j \in Job, appendJob(r, j)
  PROVE  JobsBecome(r, j)
<1>1. jobs' = [jobs EXCEPT ![r] = Append(jobs[r], j)] /\ jobs[r] \in Seq(Job)
  BY DEF appendJob
<1>2. /\ Append(jobs[r], j) \in Seq(Job)
      /\ Len(Append(jobs[r], j)) = Len(jobs[r]) + 1
      /\ \A k \in 1..Len(jobs[r]) : Append(jobs[r], j)[k] = jobs[r][k]
      /\ Append(jobs[r], j)[Len(jobs[r]) + 1] = j
  BY <1>1, AppendProperties
<1>3. jobs'[r] = Append(jobs[r], j) /\ \A q \in Agents \ {r} : jobs'[q] = jobs[q]
  BY <1>1
<1>4. /\ DOMAIN jobs[r] = 1..Len(jobs[r]) /\ Len(jobs[r]) \in Nat
      /\ DOMAIN jobs'[r] = 1..(Len(jobs[r]) + 1)
  BY <1>1, <1>2, <1>3, LenProperties
<1>5. \A k \in DOMAIN jobs'[r] :
        jobs'[r][k] = j \/ \E l \in DOMAIN jobs[r] : jobs'[r][k] = jobs[r][l]
  <2> SUFFICES ASSUME NEW k \in 1..(Len(jobs[r]) + 1), k # Len(jobs[r]) + 1
               PROVE  jobs'[r][k] = jobs[r][k] /\ k \in DOMAIN jobs[r]
    BY <1>2, <1>3, <1>4
  <2>1. k \in 1..Len(jobs[r])
    BY <1>4
  <2>2. QED BY <1>2, <1>3, <1>4, <2>1
<1>6. jobs' \in [Agents -> Seq(Job)]
  BY <1>1, <1>2
<1>7. QED BY <1>3, <1>5, <1>6 DEF JobsBecome

LEMMA ReplacedJob ==
  ASSUME jobs \in [Agents -> Seq(Job)], NEW r \in Agents, NEW j \in Job,
         NEW i \in DOMAIN jobs[r], replaceJob(r, i, j)
  PROVE  JobsBecome(r, j)
<1>1. jobs' = [jobs EXCEPT ![r] = [jobs[r] EXCEPT ![i] = j]] /\ jobs[r] \in Seq(Job)
  BY DEF replaceJob
<1>2. i \in 1..Len(jobs[r])
  BY <1>1, LenProperties
<1>3. [jobs[r] EXCEPT ![i] = j] \in Seq(Job)
  BY <1>1, <1>2, ExceptSeq
<1>4. QED BY <1>1, <1>3 DEF JobsBecome

LEMMA ErasedJob ==
  ASSUME jobs \in [Agents -> Seq(Job)], NEW r \in Agents, NEW i \in DOMAIN jobs[r],
         eraseJob(r, i)
  PROVE  /\ jobs' \in [Agents -> Seq(Job)]
         /\ \A q \in Agents \ {r} : jobs'[q] = jobs[q]
         /\ \A k \in DOMAIN jobs'[r] : \E l \in DOMAIN jobs[r] : jobs'[r][k] = jobs[r][l]
<1>1. jobs' = [jobs EXCEPT ![r] = RemoveAt(jobs[r], i)] /\ jobs[r] \in Seq(Job)
  BY DEF eraseJob
<1>2. /\ RemoveAt(jobs[r], i) \in Seq(Job)
      /\ \A k \in DOMAIN RemoveAt(jobs[r], i) :
           \E l \in DOMAIN jobs[r] : RemoveAt(jobs[r], i)[k] = jobs[r][l]
  BY <1>1, RemoveAtElements
<1>3. QED BY <1>1, <1>2

\* What is under way to a robot after packets were sent.
LEMMA MulticastPackets ==
  ASSUME NEW n \in [Agents -> SUBSET Message], NEW r \in Agents, NEW packets \in SUBSET Message
  PROVE  /\ Multicast(n, r, packets) \in [Agents -> SUBSET Message]
         /\ \A q \in Agents : \A m \in Multicast(n, r, packets)[q] :
              m \in n[q] \/ (q # r /\ m \in packets)
BY DEF Multicast

\* Nothing is under way but what was under way or is sent by robot r.
PacketsFrom(r, packets) ==
  \A q \in Agents : \A m \in net'[q] : m \in net[q] \/ (q # r /\ m \in packets)

LEMMA ReceivedPackets ==
  ASSUME net \in [Agents -> SUBSET Message], dups \in 0..MaxDups,
         NEW r \in Agents, NEW m, NEW packets \in SUBSET Message, Receive(r, m, packets)
  PROVE  /\ m \in Message
         /\ net' \in [Agents -> SUBSET Message]
         /\ dups' \in 0..MaxDups
         /\ PacketsFrom(r, packets)
<1>1. m \in Message
  BY DEF Receive
<1>2. CASE net' = Multicast([net EXCEPT ![r] = @ \ {m}], r, packets) /\ UNCHANGED dups
  <2> DEFINE n == [net EXCEPT ![r] = @ \ {m}]
  <2>1. n \in [Agents -> SUBSET Message] /\ \A q \in Agents : n[q] \subseteq net[q]
    OBVIOUS
  <2>2. net' = Multicast(n, r, packets)
    BY <1>2
  <2> HIDE DEF n
  <2>3. /\ net' \in [Agents -> SUBSET Message]
        /\ \A q \in Agents : \A p \in net'[q] : p \in n[q] \/ (q # r /\ p \in packets)
    BY <2>1, <2>2, MulticastPackets
  <2>4. PacketsFrom(r, packets)
    BY <2>1, <2>3 DEF PacketsFrom
  <2>5. QED BY <1>1, <1>2, <2>3, <2>4
<1>3. CASE dups < MaxDups /\ dups' = dups + 1 /\ net' = Multicast(net, r, packets)
  BY <1>1, <1>3, MulticastPackets DEF PacketsFrom
<1>4. QED BY <1>2, <1>3 DEF Receive

-----------------------------------------------------------------------------
(***************************************************************************)
(* Messages and jobs have the fields their handlers use.                   *)
(***************************************************************************)
LEMMA MessageFields ==
  ASSUME NEW m \in Message
  PROVE  /\ m.from \in Agents /\ m.msgID \in Nat /\ m.stamp \in Nat
         /\ m.kind \in {"Request", "Response"} => m.to \in Agents
         /\ m.kind \in {"Command", "Acknowledge", "Write", "Notification"} => m.val \in AnyValue
         /\ m.kind = "Response" => m.val \in AnyValue \cup {NoValue}
         /\ m.kind \in {"Command", "Write", "Notification", "Response"} =>
              m.level \in Strategies /\ m.dec \in Nat
BY DEF Message

LEMMA NewMessages ==
  ASSUME NEW r \in Agents, NEW to \in Agents \cup {Broadcast}, NEW id \in Nat, NEW v \in AnyValue,
         NEW level \in Strategies, NEW dec \in Nat, NEW stamp \in Nat
  PROVE  /\ CaceCommand(r, to, id, v, level, dec, stamp) \in Message
         /\ CaceAcknowledge(r, to, id, v, stamp) \in Message
         /\ CaceShortAck(r, to, id, stamp) \in Message
BY DEF CaceCommand, CaceAcknowledge, CaceShortAck, Message

LEMMA JobFields ==
  ASSUME NEW j \in Job
  PROVE  /\ j.kind = "CommandJob" =>
              /\ j.msgID \in Nat /\ j.val \in AnyValue /\ j.expected \in SUBSET Agents
              /\ j.stamp \in Nat /\ j.retrys \in Retrys(CommandRetrys)
         /\ j.kind = "CommandAcknowledgeJob" =>
              /\ j.cmd \in Message /\ j.cmd.kind = "Command" /\ j.expected \in SUBSET Agents
              /\ j.stamp \in Nat /\ j.retrys \in Retrys(AckRetrys) /\ j.started \in BOOLEAN
         /\ j.kind = "ShortAckJob" => j.ack \in Message /\ j.ack.kind = "Acknowledge"
BY DEF Job, Packet

LEMMA OtherJobFields ==
  ASSUME NEW j \in Job
  PROVE  /\ j.kind = "BelieveNotificationJob" =>
              /\ j.msgID \in Nat /\ j.expected \in SUBSET Agents /\ j.stamp \in Nat
              /\ j.retrys \in Retrys(CommandRetrys)
         /\ j.kind = "BelieveAcknowledgeJob" =>
              /\ j.notification \in Message /\ j.notification.kind = "Notification"
              /\ j.expected \in SUBSET Agents /\ j.stamp \in Nat
              /\ j.retrys \in Retrys(CommandRetrys) /\ j.started \in BOOLEAN
         /\ j.kind = "RequestJob" =>
              /\ j.msgID \in Nat /\ j.expected \in SUBSET Agents
              /\ j.retrys \in Retrys(CommandRetrys)
         /\ j.kind = "WriteJob" =>
              /\ j.msgID \in Nat /\ j.variable \in Believe(Agents)
              /\ j.expected \in SUBSET Agents /\ j.retrys \in Retrys(CommandRetrys)
         /\ j.kind = "WriteAckJob" => j.cmd \in Message /\ j.cmd.kind = "Write"
BY DEF Job, Packet

LEMMA NewRetrys ==
  ASSUME NEW robots \in SUBSET Agents, NEW n \in Nat
  PROVE  FullRetrys(robots, n) \in Retrys(n) /\ NoRetrys \in Retrys(n)
<1>1. FullRetrys(robots, n) \in [robots -> 0..n]
  BY DEF FullRetrys
<1>2. NoRetrys \in [{} -> 0..n]
  BY DEF NoRetrys
<1>3. \A S \in SUBSET Agents : [S -> 0..n] \subseteq Retrys(n)
  BY Zenon DEF Retrys
<1>4. {} \in SUBSET Agents
  OBVIOUS
<1>5. [robots -> 0..n] \subseteq Retrys(n) /\ [{} -> 0..n] \subseteq Retrys(n)
  BY <1>3, <1>4
<1>6. QED BY <1>1, <1>2, <1>5, Zenon

LEMMA NewJobs ==
  /\ \A id \in Nat, v \in AnyValue, robots \in SUBSET Agents, stamp \in Nat,
        retrys \in Retrys(CommandRetrys) : CommandJob(id, v, robots, stamp, retrys) \in Job
  /\ \A m \in Message, robots \in SUBSET Agents, stamp \in Nat, retrys \in Retrys(AckRetrys),
        started \in BOOLEAN :
       m.kind = "Command" => CommandAcknowledgeJob(m, robots, stamp, retrys, started) \in Job
  /\ \A m \in Message : m.kind = "Acknowledge" => ShortAckJob(m) \in Job
BY DEF CommandJob, CommandAcknowledgeJob, ShortAckJob, Job, Packet

\* Sending to robots that may still be sent to keeps the retries within bounds.
LEMMA ResentRetrys ==
  ASSUME NEW n \in Nat, NEW retrys \in Retrys(n), NEW late \in SUBSET DOMAIN retrys,
         \A q \in late : retrys[q] > 0
  PROVE  [q \in DOMAIN retrys |-> IF q \in late THEN retrys[q] - 1 ELSE retrys[q]] \in Retrys(n)
<1>1. PICK S \in SUBSET Agents : retrys \in [S -> 0..n]
  BY DEF Retrys
<1>2. [q \in DOMAIN retrys |-> IF q \in late THEN retrys[q] - 1 ELSE retrys[q]] \in [S -> 0..n]
  BY <1>1
<1>3. QED BY <1>2 DEF Retrys

-----------------------------------------------------------------------------
(***************************************************************************)
(* doVariableUpdate.                                                       *)
(***************************************************************************)
\* The strengthening: a robot that has heard of the variable, or has acknowledged a
\* command for it, has a value for it.
HasValues ==
  \A r \in Agents :
    /\ \A k \in DOMAIN proposals[r] : proposals[r][k].val # NoValue
    /\ proposals[r] # <<>> => existsVariable(r)
    /\ \A i \in DOMAIN jobs[r] :
         jobs[r][i].kind = "CommandAcknowledgeJob" /\ jobs[r][i].started => existsVariable(r)

TypeInv == TypeOK /\ HasValues

\* A believe with a value.
Valued == {b \in Believe(Agents) : b.val # NoValue}

LEMMA AcceptedBelieve ==
  ASSUME NEW b \in Valued, NEW props \in Seq(Valued), NEW a \in AcceptProposals(b, props)
  PROVE  a \in Valued
<1>1. PICK w \in 0..Len(props) : a = IF w = 0 THEN b ELSE Update(b, props[w])
  BY DEF AcceptProposals
<1>2. CASE w = 0
  BY <1>1, <1>2
<1>3. CASE w # 0
  <2>1. props[w] \in Valued
    BY <1>3, ElementOfSeq
  <2>2. QED BY <1>1, <1>3, <2>1 DEF Update, Valued, Believe
<1>4. QED BY <1>2, <1>3

LEMMA NewProposals ==
  ASSUME TypeInv, NEW r \in Agents, NEW m \in Message,
         m.kind \in {"Command", "Acknowledge", "Notification"}, NEW props,
         \/ m.kind \in {"Command", "Notification"} /\ props = ProposalsAfterCommand(r, m)
         \/ props = ProposalsAfterAck(r, m)
  PROVE  props \in Seq(Valued) /\ props # <<>>
<1> DEFINE s == proposals[r]
<1>1. s \in Seq(Valued)
  <2>1. s \in Seq(Believe(Agents)) /\ \A k \in DOMAIN s : s[k].val # NoValue
    BY DEF TypeInv, TypeOK, HasValues
  <2>2. \A k \in 1..Len(s) : s[k] \in Valued
    BY <2>1, ElementOfSeq, LenProperties DEF Valued
  <2>3. QED BY <2>1, <2>2, LenProperties, SeqDef
<1>2. \A strat \in Strategies, dec \in Nat : Heard(m, strat, dec) \in Valued
  BY MessageFields DEF Heard, Valued, Believe, AnyValue
<1>3. own[r].strat \in Strategies /\ own[r].dec \in Nat
  BY DEF TypeInv, TypeOK, Believe
<1>4. \A k \in DOMAIN s : s[k] \in Valued /\ s[k].strat \in Strategies
  BY <1>1, ElementOfSeq, LenProperties DEF Valued, Believe
<1>5. ThreeWayHandShake \in Strategies
  BY DEF Strategies, DefaultStrategies
<1>6. m.kind \in {"Command", "Notification"} => Heard(m, m.level, m.dec) \in Valued
  BY <1>2, MessageFields
<1>7. CASE Known(r, m)
  <2>1. /\ DOMAIN props = DOMAIN s
        /\ \A k \in DOMAIN s : props[k] \in Valued
        /\ props = [k \in DOMAIN s |-> props[k]]
    BY <1>2, <1>4, <1>6, <1>7 DEF ProposalsAfterCommand, ProposalsAfterAck
  <2>2. props \in [1..Len(s) -> Valued] /\ Len(s) \in Nat
    BY <1>1, <2>1, LenProperties
  <2>3. props # <<>>
    BY <1>7, <2>1 DEF Known
  <2>4. QED BY <2>2, <2>3, SeqDef
<1>8. CASE ~ Known(r, m)
  <2>1. PICK b \in Valued : props = Append(s, b)
    BY <1>2, <1>3, <1>5, <1>6, <1>8 DEF ProposalsAfterCommand, ProposalsAfterAck
  <2>2. QED BY <1>1, <2>1, AppendProperties
<1>9. QED BY <1>7, <1>8

LEMMA CreatedBelieves ==
  ASSUME NEW r \in Agents, NEW m \in Message, m.kind \in {"Command", "Acknowledge"}
  PROVE  /\ m.kind = "Command" => CreatedByCommand(r, m) \in Valued
         /\ CreatedByAck(r, m) \in Valued
<1>1. ThreeWayHandShake \in Strategies
  BY DEF Strategies, DefaultStrategies
<1>2. QED BY <1>1, MessageFields DEF CreatedByCommand, CreatedByAck, Valued, Believe, AnyValue

\* What an update leaves behind: robot r has a value, and only robot r has changed.
VariableUpdated(r) ==
  /\ own' \in [Agents -> Believe(Agents)]
  /\ proposals' \in [Agents -> Seq(Believe(Agents))]
  /\ held' \in [Agents -> SUBSET (AnyValue \cup {NoValue})]
  /\ noted' \in [Agents -> SUBSET Receipt]
  /\ own'[r] \in Valued
  /\ proposals'[r] \in Seq(Valued)
  /\ \A q \in Agents \ {r} : own'[q] = own[q] /\ proposals'[q] = proposals[q]

LEMMA UpdatedVariable ==
  ASSUME TypeInv, NEW r \in Agents, NEW created \in Valued, NEW props \in Seq(Valued),
         props # <<>>, DoVariableUpdate(r, created, props), noted' \in [Agents -> SUBSET Receipt]
  PROVE  VariableUpdated(r)
<1>1. /\ own \in [Agents -> Believe(Agents)]
      /\ proposals \in [Agents -> Seq(Believe(Agents))]
      /\ held \in [Agents -> SUBSET (AnyValue \cup {NoValue})]
  BY DEF TypeInv, TypeOK
<1>2. PICK b \in IF props = proposals[r] THEN {own[r]}
                 ELSE AcceptProposals(OwnBefore(r, created), props) :
         /\ own' = [own EXCEPT ![r] = b]
         /\ held' = [held EXCEPT ![r] = @ \cup {b.val}]
  BY DEF DoVariableUpdate
<1>3. existsVariable(r) => own[r] \in Valued
  BY <1>1 DEF existsVariable, Valued
<1>4. b \in Valued
  <2>1. CASE props = proposals[r]
    BY <1>2, <1>3, <2>1 DEF TypeInv, HasValues
  <2>2. CASE props # proposals[r]
    <3>1. OwnBefore(r, created) \in Valued
      BY <1>3 DEF OwnBefore
    <3>2. QED BY <1>2, <2>2, <3>1, AcceptedBelieve
  <2>3. QED BY <2>1, <2>2
<1>5. b \in Believe(Agents) /\ b.val \in AnyValue \cup {NoValue}
  BY <1>4 DEF Valued, Believe
<1>6. props \in Seq(Believe(Agents))
  <2>1. Valued \subseteq Believe(Agents)
    BY DEF Valued
  <2>2. QED BY <2>1, SeqMonotonic
<1>7. proposals' = [proposals EXCEPT ![r] = props]
  BY DEF DoVariableUpdate
<1>8. QED BY <1>1, <1>2, <1>4, <1>5, <1>6, <1>7 DEF VariableUpdated

LEMMA UpdatedByCommand ==
  ASSUME TypeInv, NEW r \in Agents, NEW m \in Message, m.kind = "Command", UpdateByCommand(r, m)
  PROVE  VariableUpdated(r)
<1>1. noted' \in [Agents -> SUBSET Receipt]
  BY DEF UpdateByCommand, TypeInv, TypeOK
<1>2. QED BY <1>1, NewProposals, CreatedBelieves, UpdatedVariable DEF UpdateByCommand

LEMMA UpdatedByAck ==
  ASSUME TypeInv, NEW r \in Agents, NEW m \in Message, m.kind = "Acknowledge", UpdateByAck(r, m)
  PROVE  VariableUpdated(r)
<1>1. noted' \in [Agents -> SUBSET Receipt]
  <2>1. [from |-> m.from, msgID |-> m.msgID] \in Receipt
    BY MessageFields DEF Receipt
  <2>2. QED BY <2>1 DEF UpdateByAck, TypeInv, TypeOK
<1>2. QED BY <1>1, NewProposals, CreatedBelieves, UpdatedVariable DEF UpdateByAck

\* The values robots have stay values, whatever a step does with the jobs.
LEMMA ValuesAfterUpdate ==
  ASSUME TypeInv, NEW r \in Agents, VariableUpdated(r),
         \A q \in Agents \ {r} : jobs'[q] = jobs[q]
  PROVE  HasValues'
<1> SUFFICES ASSUME NEW q \in Agents
             PROVE  (/\ \A k \in DOMAIN proposals[q] : proposals[q][k].val # NoValue
                     /\ proposals[q] # <<>> => existsVariable(q)
                     /\ \A i \in DOMAIN jobs[q] :
                          jobs[q][i].kind = "CommandAcknowledgeJob" /\ jobs[q][i].started
                            => existsVariable(q))'
  BY DEF HasValues
<1>1. CASE q = r
  <2>1. own'[q].val # NoValue
    BY <1>1 DEF VariableUpdated, Valued
  <2>2. \A k \in DOMAIN proposals'[q] : proposals'[q][k].val # NoValue
    BY <1>1, ElementOfSeq, LenProperties DEF VariableUpdated, Valued
  <2>3. QED BY <2>1, <2>2 DEF existsVariable
<1>2. CASE q # r
  <2>1. own'[q] = own[q] /\ proposals'[q] = proposals[q] /\ jobs'[q] = jobs[q]
    BY <1>2 DEF VariableUpdated
  <2>2. QED BY <2>1 DEF TypeInv, HasValues, existsVariable
<1>3. QED BY <1>1, <1>2

LEMMA ValuesKept ==
  ASSUME TypeInv, NEW r \in Agents, UNCHANGED <<own, proposals>>,
         \A q \in Agents \ {r} : jobs'[q] = jobs[q],
         \A k \in DOMAIN jobs'[r] :
           \/ jobs'[r][k].kind = "CommandAcknowledgeJob" /\ jobs'[r][k].started
                => existsVariable(r)
           \/ \E l \in DOMAIN jobs[r] : jobs'[r][k] = jobs[r][l]
  PROVE  HasValues'
<1> SUFFICES ASSUME NEW q \in Agents, NEW i \in DOMAIN jobs'[q],
                    jobs'[q][i].kind = "CommandAcknowledgeJob", jobs'[q][i].started
             PROVE  existsVariable(q)
  BY DEF TypeInv, HasValues, existsVariable
<1>1. \A l \in DOMAIN jobs[q] :
        jobs[q][l].kind = "CommandAcknowledgeJob" /\ jobs[q][l].started => existsVariable(q)
  BY DEF TypeInv, HasValues
<1>2. CASE q = r
  BY <1>1, <1>2
<1>3. CASE q # r
  BY <1>1, <1>3
<1>4. QED BY <1>2, <1>3

-----------------------------------------------------------------------------
(***************************************************************************)
(* The clock, message ids and the count of resends.                        *)
(***************************************************************************)
LEMMA SeenBounds ==
  ASSUME NEW c \in Nat, NEW stamp \in Nat
  PROVE  Seen(c, stamp) \in Nat /\ Seen(c, stamp) >= c /\ Seen(c, stamp) >= stamp
BY DEF Seen

LEMMA MsgIDType ==
  ASSUME TypeInv, NEW r \in Agents
  PROVE  MsgID(r) \in Nat
<1>1. clock[r] \in Nat /\ r \in Nat
  BY DEF TypeInv, TypeOK
<1>2. (clock[r] + 100) * r \in Nat
  BY <1>1
<1>3. QED BY <1>2 DEF MsgID

LEMMA ResendsBounded ==
  ASSUME TypeInv, NEW r, NEW late \in SUBSET Agents, NEW packets, resend(r, late, packets)
  PROVE  resends' \in 0..MaxResends
<1>1. Cardinality(late) \in Nat
  BY FS_Subset, FS_CardinalityType
<1>2. QED BY <1>1 DEF resend, TypeInv, TypeOK

-----------------------------------------------------------------------------
(***************************************************************************)
(* One lemma for each action.                                              *)
(***************************************************************************)
LEMMA NewCommandJobType ==
  ASSUME TypeInv, NEW r \in Agents, NEW b \in Valued, NewCommandJob(r, b)
  PROVE  /\ clock' \in [Agents -> Nat]
         /\ commands' \in 0..MaxCommands
         /\ net' \in [Agents -> SUBSET Message]
         /\ \E j \in Job : j.kind = "CommandJob" /\ JobsBecome(r, j)
<1>1. MsgID(r) \in Nat /\ clock[r] \in Nat /\ activeRobots[r] \in SUBSET Agents
  BY MsgIDType DEF TypeInv, TypeOK
<1>2. b.val \in AnyValue /\ b.strat \in Strategies /\ b.dec \in Nat
  BY DEF Valued, Believe
<1> DEFINE m == CaceCommand(r, Broadcast, MsgID(r), b.val, b.strat, b.dec, clock[r] + 1)
<1>3. m \in Message
  <2>1. clock[r] + 1 \in Nat /\ Broadcast \in Agents \cup {Broadcast}
    BY <1>1
  <2>2. QED BY <1>1, <1>2, <2>1, NewMessages
<1>4. net' \in [Agents -> SUBSET Message]
  <2>1. net' = Multicast(net, r, {m}) \/ net' = net
    BY DEF NewCommandJob
  <2> HIDE DEF m
  <2>2. net \in [Agents -> SUBSET Message] /\ {m} \in SUBSET Message
    BY <1>3 DEF TypeInv, TypeOK
  <2>3. QED BY <2>1, <2>2, MulticastPackets
<1> DEFINE retrys == IF b.strat > NoDistribution THEN FullRetrys(activeRobots[r], CommandRetrys)
                                                 ELSE NoRetrys
           j == CommandJob(MsgID(r), b.val, activeRobots[r], clock[r], retrys)
<1>5. retrys \in Retrys(CommandRetrys)
  BY <1>1, NewRetrys
<1> HIDE DEF retrys
<1>6. j \in Job /\ j.kind = "CommandJob"
  BY <1>1, <1>2, <1>5, NewJobs DEF CommandJob
<1>7. appendJob(r, j)
  BY DEF NewCommandJob, retrys
<1>8. JobsBecome(r, j)
  BY <1>6, <1>7, AppendedJob DEF TypeInv, TypeOK
<1>9. clock' \in [Agents -> Nat] /\ commands' \in 0..MaxCommands
  BY <1>1 DEF NewCommandJob, TypeInv, TypeOK
<1>10. QED BY <1>4, <1>6, <1>8, <1>9

LEMMA DistributeValueType ==
  ASSUME TypeInv, NEW r \in Agents, NEW v \in Values, NEW s \in Levels, NEW t \in DecissionTimes,
         distributeValue(r, v, s, t)
  PROVE  TypeInv'
<1> DEFINE b == [id |-> r, val |-> v, age |-> clock[r], strat |-> s, dec |-> t]
<1>1. b \in Valued
  BY DEF TypeInv, TypeOK, Valued, Believe, AnyValue
<1>2. PICK j \in Job : j.kind = "CommandJob" /\ JobsBecome(r, j)
  BY <1>1, NewCommandJobType DEF distributeValue
<1>3. /\ own' = [own EXCEPT ![r] = b]
      /\ held' = [held EXCEPT ![r] = @ \cup {v}]
      /\ UNCHANGED <<activeRobots, proposals, shortAcks, resends, dups, noted>>
  BY DEF distributeValue
<1>4. TypeOK'
  <2>1. own' \in [Agents -> Believe(Agents)]
    BY <1>1, <1>3 DEF TypeInv, TypeOK, Valued
  <2>2. held' \in [Agents -> SUBSET (AnyValue \cup {NoValue})]
    BY <1>3 DEF TypeInv, TypeOK, AnyValue
  <2>3. clock' \in [Agents -> Nat] /\ commands' \in 0..MaxCommands
        /\ net' \in [Agents -> SUBSET Message]
    BY <1>1, NewCommandJobType DEF distributeValue
  <2>4. QED BY <1>2, <1>3, <2>1, <2>2, <2>3 DEF TypeInv, TypeOK, JobsBecome
<1>5. HasValues'
  <2> SUFFICES ASSUME NEW q \in Agents
               PROVE  (/\ \A k \in DOMAIN proposals[q] : proposals[q][k].val # NoValue
                       /\ proposals[q] # <<>> => existsVariable(q)
                       /\ \A i \in DOMAIN jobs[q] :
                            jobs[q][i].kind = "CommandAcknowledgeJob" /\ jobs[q][i].started
                              => existsVariable(q))'
    BY DEF HasValues
  <2>1. CASE q = r
    <3>1. own'[q].val # NoValue
      BY <1>1, <1>3, <2>1 DEF TypeInv, TypeOK, Valued
    <3>2. QED BY <1>3, <3>1 DEF TypeInv, HasValues, existsVariable
  <2>2. CASE q # r
    <3>1. own'[q] = own[q] /\ jobs'[q] = jobs[q] /\ proposals'[q] = proposals[q]
      BY <1>2, <1>3, <2>2 DEF JobsBecome
    <3>2. QED BY <3>1 DEF TypeInv, HasValues, existsVariable
  <2>3. QED BY <2>1, <2>2
<1>6. QED BY <1>4, <1>5 DEF TypeInv

LEMMA DistributeVariableType ==
  ASSUME TypeInv, NEW r \in Agents, distributeVariable(r)
  PROVE  TypeInv'
<1>1. own[r] \in Valued
  BY DEF distributeVariable, existsVariable, TypeInv, TypeOK, Valued
<1>2. PICK j \in Job : j.kind = "CommandJob" /\ JobsBecome(r, j)
  BY <1>1, NewCommandJobType DEF distributeVariable
<1>3. clock' \in [Agents -> Nat] /\ commands' \in 0..MaxCommands
      /\ net' \in [Agents -> SUBSET Message]
  BY <1>1, NewCommandJobType DEF distributeVariable
<1>4. TypeOK'
  BY <1>2, <1>3 DEF TypeInv, TypeOK, JobsBecome, distributeVariable, KeepVariable
<1>5. HasValues'
  BY <1>2, ValuesKept DEF JobsBecome, distributeVariable, KeepVariable
<1>6. QED BY <1>4, <1>5 DEF TypeInv

LEMMA AgentEngangementType ==
  ASSUME TypeInv, NEW r \in Agents, NEW q \in Agents, agentEngangement(r, q)
  PROVE  TypeInv'
<1>1. TypeOK'
  BY DEF TypeInv, TypeOK, agentEngangement, KeepVariable
<1>2. HasValues'
  BY DEF TypeInv, HasValues, existsVariable, agentEngangement, KeepVariable
<1>3. QED BY <1>1, <1>2 DEF TypeInv

LEMMA OverhearType ==
  ASSUME TypeInv, NEW r \in Agents, NEW m, Overhear(r, m)
  PROVE  TypeInv'
<1>1. Receive(r, m, {}) /\ clock' = [clock EXCEPT ![r] = Seen(clock[r], m.stamp)]
  BY DEF Overhear
<1>2. m \in Message /\ net' \in [Agents -> SUBSET Message] /\ dups' \in 0..MaxDups
  BY <1>1, ReceivedPackets DEF TypeInv, TypeOK
<1>3. clock' \in [Agents -> Nat]
  BY <1>1, <1>2, MessageFields, SeenBounds DEF TypeInv, TypeOK
<1>4. TypeOK'
  BY <1>2, <1>3 DEF TypeInv, TypeOK, Overhear, KeepVariable
<1>5. HasValues'
  BY DEF TypeInv, HasValues, existsVariable, Overhear, KeepVariable
<1>6. QED BY <1>4, <1>5 DEF TypeInv

LEMMA HandleCaceCommandType ==
  ASSUME TypeInv, NEW r \in Agents, NEW m \in Message, handleCaceCommand(r, m)
  PROVE  TypeInv'
<1> DEFINE c == Seen(clock[r], m.stamp)
           acks == m.level > FireAndForget
           packets == IF acks THEN {CaceAcknowledge(r, Broadcast, m.msgID, own'[r].val, c)} ELSE {}
           retrys == IF acks THEN FullRetrys(activeRobots[r], AckRetrys) ELSE NoRetrys
<1>1. /\ m.kind = "Command" /\ clock' = [clock EXCEPT ![r] = c]
      /\ UNCHANGED <<activeRobots, shortAcks, commands, resends>>
  BY DEF handleCaceCommand
<1>2. c \in Nat
  BY MessageFields, SeenBounds DEF TypeInv, TypeOK
<1>3. clock' \in [Agents -> Nat]
  BY <1>1, <1>2 DEF TypeInv, TypeOK
<1>4. activeRobots[r] \in SUBSET Agents /\ retrys \in Retrys(AckRetrys) /\ NoRetrys \in Retrys(AckRetrys)
  BY NewRetrys DEF TypeInv, TypeOK
<1>5. CASE r \in SafeStepRobots
  <2> DEFINE j == CommandAcknowledgeJob(m, activeRobots[r], c, NoRetrys, FALSE)
  <2>1. Receive(r, m, {}) /\ KeepVariable /\ appendJob(r, j)
    BY <1>5 DEF handleCaceCommand
  <2>2. j \in Job /\ j.started = FALSE
    BY <1>1, <1>2, <1>4, NewJobs DEF CommandAcknowledgeJob
  <2> HIDE DEF j
  <2>3. JobsBecome(r, j)
    BY <2>1, <2>2, AppendedJob DEF TypeInv, TypeOK
  <2>4. net' \in [Agents -> SUBSET Message] /\ dups' \in 0..MaxDups
    BY <2>1, ReceivedPackets DEF TypeInv, TypeOK
  <2>5. TypeOK'
    BY <1>1, <1>3, <2>1, <2>3, <2>4 DEF TypeInv, TypeOK, KeepVariable, JobsBecome
  <2>6. HasValues'
    BY <2>1, <2>2, <2>3, ValuesKept DEF KeepVariable, JobsBecome
  <2>7. QED BY <2>5, <2>6 DEF TypeInv
<1>6. CASE r \notin SafeStepRobots
  <2> DEFINE j == CommandAcknowledgeJob(m, activeRobots[r], c, retrys, TRUE)
  <2>1. UpdateByCommand(r, m) /\ Receive(r, m, packets) /\ appendJob(r, j)
    BY <1>6 DEF handleCaceCommand
  <2>2. VariableUpdated(r)
    BY <1>1, <2>1, UpdatedByCommand
  <2>3. packets \in SUBSET Message
    <3>1. own'[r].val \in AnyValue /\ m.msgID \in Nat /\ Broadcast \in Agents \cup {Broadcast}
      BY <2>2, MessageFields DEF VariableUpdated, Valued, Believe
    <3>2. CaceAcknowledge(r, Broadcast, m.msgID, own'[r].val, c) \in Message
      BY <1>2, <3>1, MessageFields, NewMessages DEF Message, CaceAcknowledge
    <3>3. QED BY <3>2
  <2>4. j \in Job
    BY <1>1, <1>2, <1>4, NewJobs
  <2> HIDE DEF j, packets
  <2>5. JobsBecome(r, j)
    BY <2>1, <2>4, AppendedJob DEF TypeInv, TypeOK
  <2>6. net' \in [Agents -> SUBSET Message] /\ dups' \in 0..MaxDups
    BY <2>1, <2>3, ReceivedPackets DEF TypeInv, TypeOK
  <2>7. TypeOK'
    BY <1>1, <1>3, <2>2, <2>5, <2>6 DEF TypeInv, TypeOK, VariableUpdated, JobsBecome
  <2>8. HasValues'
    BY <2>2, <2>5, ValuesAfterUpdate DEF JobsBecome
  <2>9. QED BY <2>7, <2>8 DEF TypeInv
<1>7. QED BY <1>5, <1>6

LEMMA HandleCaceAcknowledgeType ==
  ASSUME TypeInv, NEW r \in Agents, NEW m \in Message, handleCaceAcknowledge(r, m)
  PROVE  TypeInv'
<1> DEFINE c == Seen(clock[r], m.stamp)
           s == CaceShortAck(r, m.from, m.msgID, c + 1)
<1>1. m.kind = "Acknowledge" /\ UNCHANGED <<activeRobots, shortAcks, commands, resends>>
  BY DEF handleCaceAcknowledge
<1>2. c \in Nat
  BY MessageFields, SeenBounds DEF TypeInv, TypeOK
<1>3. CASE r \in SafeStepRobots
  <2>1. /\ Receive(r, m, {}) /\ KeepVariable /\ appendJob(r, ShortAckJob(m))
        /\ clock' = [clock EXCEPT ![r] = c]
    BY <1>3 DEF handleCaceAcknowledge
  <2>2. ShortAckJob(m) \in Job /\ ShortAckJob(m).kind = "ShortAckJob"
    BY <1>1, NewJobs DEF ShortAckJob
  <2>3. JobsBecome(r, ShortAckJob(m))
    BY <2>1, <2>2, AppendedJob DEF TypeInv, TypeOK
  <2>4. net' \in [Agents -> SUBSET Message] /\ dups' \in 0..MaxDups
    BY <2>1, ReceivedPackets DEF TypeInv, TypeOK
  <2>5. clock' \in [Agents -> Nat]
    BY <1>2, <2>1 DEF TypeInv, TypeOK
  <2>6. TypeOK'
    BY <1>1, <2>1, <2>3, <2>4, <2>5 DEF TypeInv, TypeOK, KeepVariable, JobsBecome
  <2>7. HasValues'
    BY <2>1, <2>2, <2>3, ValuesKept DEF KeepVariable, JobsBecome
  <2>8. QED BY <2>6, <2>7 DEF TypeInv
<1>4. CASE r \notin SafeStepRobots
  <2>1. /\ UpdateByAck(r, m) /\ UNCHANGED jobs
        /\ \/ clock' = [clock EXCEPT ![r] = c + 1] /\ Receive(r, m, {s})
           \/ clock' = [clock EXCEPT ![r] = c] /\ Receive(r, m, {})
    BY <1>4 DEF handleCaceAcknowledge
  <2>2. VariableUpdated(r)
    BY <1>1, <2>1, UpdatedByAck
  <2>3. {s} \in SUBSET Message /\ {} \in SUBSET Message
    <3>1. m.from \in Agents \cup {Broadcast} /\ m.msgID \in Nat /\ c + 1 \in Nat
      BY <1>2, MessageFields
    <3>2. s \in Message
      BY <3>1 DEF CaceShortAck, Message
    <3>3. QED BY <3>2
  <2> HIDE DEF s
  <2>4. net' \in [Agents -> SUBSET Message] /\ dups' \in 0..MaxDups
    BY <2>1, <2>3, ReceivedPackets DEF TypeInv, TypeOK
  <2>5. clock' \in [Agents -> Nat]
    <3>1. c + 1 \in Nat
      BY <1>2
    <3> HIDE DEF c
    <3>2. QED BY <1>2, <2>1, <3>1 DEF TypeInv, TypeOK
  <2>6. TypeOK'
    BY <1>1, <2>1, <2>2, <2>4, <2>5 DEF TypeInv, TypeOK, VariableUpdated
  <2>7. HasValues'
    BY <2>1, <2>2, ValuesAfterUpdate
  <2>8. QED BY <2>6, <2>7 DEF TypeInv
<1>5. QED BY <1>3, <1>4

LEMMA HandleCaceShortAckType ==
  ASSUME TypeInv, NEW r \in Agents, NEW m \in Message, handleCaceShortAck(r, m)
  PROVE  TypeInv'
<1>1. Receive(r, m, {}) /\ clock' = [clock EXCEPT ![r] = Seen(clock[r], m.stamp)]
  BY DEF handleCaceShortAck
<1>2. net' \in [Agents -> SUBSET Message] /\ dups' \in 0..MaxDups
  BY <1>1, ReceivedPackets DEF TypeInv, TypeOK
<1>3. clock' \in [Agents -> Nat]
  BY <1>1, MessageFields, SeenBounds DEF TypeInv, TypeOK
<1>4. shortAcks' \in [Agents -> SUBSET Receipt]
  BY MessageFields DEF handleCaceShortAck, Receipt, TypeInv, TypeOK
<1>5. TypeOK'
  BY <1>2, <1>3, <1>4 DEF TypeInv, TypeOK, handleCaceShortAck, KeepVariable
<1>6. HasValues'
  BY DEF TypeInv, HasValues, existsVariable, handleCaceShortAck, KeepVariable
<1>7. QED BY <1>5, <1>6 DEF TypeInv

LEMMA ListedJob ==
  ASSUME TypeInv, NEW r \in Agents, NEW i \in DOMAIN jobs[r]
  PROVE  jobs[r][i] \in Job
<1>1. jobs[r] \in Seq(Job)
  BY DEF TypeInv, TypeOK
<1>2. QED BY <1>1, ElementOfSeq, LenProperties

\* Erasing a job brings no new job.
LEMMA ErasedType ==
  ASSUME TypeInv, NEW r \in Agents, NEW i \in DOMAIN jobs[r], eraseJob(r, i)
  PROVE  JobsBecome(r, jobs[r][i])
<1>1. jobs \in [Agents -> Seq(Job)]
  BY DEF TypeInv, TypeOK
<1>2. QED BY <1>1, ErasedJob DEF JobsBecome

\* Pruning the list of a job's robots, and counting down its retries.
LEMMA ChangedCommandJob ==
  ASSUME NEW o \in Job, o.kind = "CommandJob"
  PROVE  /\ \A robots \in SUBSET Agents : LET j == [o EXCEPT !.expected = robots]
              IN  /\ j \in Job /\ j.kind = o.kind /\ j.msgID = o.msgID /\ j.val = o.val
                  /\ j.expected = robots /\ j.stamp = o.stamp /\ j.retrys = o.retrys
         /\ \A retrys \in Retrys(CommandRetrys) : LET j == [o EXCEPT !.retrys = retrys]
              IN  /\ j \in Job /\ j.kind = o.kind /\ j.msgID = o.msgID /\ j.val = o.val
                  /\ j.expected = o.expected /\ j.stamp = o.stamp /\ j.retrys = retrys
<1> DEFINE R == [kind : {"CommandJob"}, msgID : Nat, val : AnyValue, expected : SUBSET Agents,
                 stamp : Nat, retrys : Retrys(CommandRetrys)]
<1>1. o \in R /\ R \subseteq Job
  BY DEF Job
<1>2. \A robots \in SUBSET Agents : [o EXCEPT !.expected = robots] \in R
  BY <1>1
<1>3. \A retrys \in Retrys(CommandRetrys) : [o EXCEPT !.retrys = retrys] \in R
  BY <1>1
<1>4. QED BY <1>1, <1>2, <1>3

LEMMA ChangedCommandAcknowledgeJob ==
  ASSUME NEW o \in Job, o.kind = "CommandAcknowledgeJob"
  PROVE  /\ \A robots \in SUBSET Agents : LET j == [o EXCEPT !.expected = robots]
              IN  /\ j \in Job /\ j.kind = o.kind /\ j.cmd = o.cmd /\ j.expected = robots
                  /\ j.stamp = o.stamp /\ j.retrys = o.retrys /\ j.started = o.started
         /\ \A retrys \in Retrys(AckRetrys) : LET j == [o EXCEPT !.retrys = retrys]
              IN  /\ j \in Job /\ j.kind = o.kind /\ j.cmd = o.cmd /\ j.expected = o.expected
                  /\ j.stamp = o.stamp /\ j.retrys = retrys /\ j.started = o.started
<1> DEFINE R == [kind : {"CommandAcknowledgeJob"}, cmd : Packet("Command"),
                 expected : SUBSET Agents, stamp : Nat, retrys : Retrys(AckRetrys),
                 started : BOOLEAN]
<1>1. o \in R /\ R \subseteq Job
  BY DEF Job
<1>2. \A robots \in SUBSET Agents : [o EXCEPT !.expected = robots] \in R
  BY <1>1
<1>3. \A retrys \in Retrys(AckRetrys) : [o EXCEPT !.retrys = retrys] \in R
  BY <1>1
<1>4. QED BY <1>1, <1>2, <1>3

LEMMA StartedCommandAcknowledgeJob ==
  ASSUME NEW o \in Job, o.kind = "CommandAcknowledgeJob",
         NEW robots \in SUBSET Agents, NEW retrys \in Retrys(AckRetrys), NEW stamp \in Nat
  PROVE  LET j == [o EXCEPT !.started = TRUE, !.stamp = stamp, !.expected = robots,
                            !.retrys = retrys]
         IN  /\ j \in Job /\ j.kind = o.kind /\ j.cmd = o.cmd /\ j.expected = robots
             /\ j.stamp = stamp /\ j.retrys = retrys /\ j.started = TRUE
<1> DEFINE R == [kind : {"CommandAcknowledgeJob"}, cmd : Packet("Command"),
                 expected : SUBSET Agents, stamp : Nat, retrys : Retrys(AckRetrys),
                 started : BOOLEAN]
<1>1. o \in R /\ R \subseteq Job
  BY DEF Job
<1>2. [o EXCEPT !.started = TRUE, !.stamp = stamp, !.expected = robots, !.retrys = retrys] \in R
  BY <1>1
<1>3. QED BY <1>1, <1>2

LEMMA ResentJob ==
  ASSUME NEW j \in Job, j.kind \in {"CommandJob", "CommandAcknowledgeJob"},
         NEW late \in SUBSET Retryable(j)
  PROVE  /\ late \in SUBSET Agents
         /\ Resent(j, late) \in Job
         /\ Resent(j, late).kind = j.kind
         /\ Resent(j, late).expected = j.expected
         /\ Resent(j, late).stamp = j.stamp
         /\ DOMAIN Resent(j, late).retrys = DOMAIN j.retrys
         /\ j.kind = "CommandJob" => /\ Resent(j, late).msgID = j.msgID
                                     /\ Resent(j, late).val = j.val
         /\ j.kind = "CommandAcknowledgeJob" => /\ Resent(j, late).cmd = j.cmd
                                                /\ Resent(j, late).started = j.started
<1> DEFINE retrys == [q \in DOMAIN j.retrys |->
                        IF q \in late THEN j.retrys[q] - 1 ELSE j.retrys[q]]
<1>1. late \in SUBSET DOMAIN j.retrys /\ \A q \in late : j.retrys[q] > 0
  BY DEF Retryable
<1>2. late \in SUBSET Agents
  BY JobFields DEF Retryable
<1>3. Resent(j, late) = [j EXCEPT !.retrys = retrys] /\ DOMAIN retrys = DOMAIN j.retrys
  BY DEF Resent
<1>4. /\ j.kind = "CommandJob" => retrys \in Retrys(CommandRetrys)
      /\ j.kind = "CommandAcknowledgeJob" => retrys \in Retrys(AckRetrys)
  BY <1>1, JobFields, ResentRetrys
<1> HIDE DEF retrys
<1>5. CASE j.kind = "CommandJob"
  BY <1>2, <1>3, <1>4, <1>5, ChangedCommandJob
<1>6. CASE j.kind = "CommandAcknowledgeJob"
  BY <1>2, <1>3, <1>4, <1>6, ChangedCommandAcknowledgeJob
<1>7. QED BY <1>5, <1>6

\* The resends of a job: packets, jobs and the count stay within their types.
LEMMA ResendType ==
  ASSUME TypeInv, NEW r \in Agents, NEW late \in SUBSET Agents, NEW packets \in SUBSET Message,
         resend(r, late, packets)
  PROVE  resends' \in 0..MaxResends /\ net' \in [Agents -> SUBSET Message]
<1>1. net' = Multicast(net, r, packets) /\ net \in [Agents -> SUBSET Message]
  BY DEF resend, TypeInv, TypeOK
<1>2. QED BY <1>1, ResendsBounded, MulticastPackets

LEMMA ProcessCommandJobType ==
  ASSUME TypeInv, NEW r \in Agents, NEW i \in DOMAIN jobs[r], processCommandJob(r, i)
  PROVE  TypeInv'
<1> DEFINE o == jobs[r][i]
           j == [o EXCEPT !.expected = Unanswered(r, o)]
<1>1. /\ o.kind = "CommandJob" /\ KeepVariable
      /\ UNCHANGED <<clock, activeRobots, shortAcks, commands, dups>>
  BY DEF processCommandJob
<1>2. o \in Job /\ o.expected \in SUBSET Agents
  BY <1>1, ListedJob, JobFields
<1>3. Unanswered(r, o) \in SUBSET Agents
  BY <1>2 DEF Unanswered
<1>4. j \in Job /\ j.kind = "CommandJob"
  BY <1>1, <1>2, <1>3, NewRetrys, ChangedCommandJob
<1>5. /\ j.msgID \in Nat /\ j.val \in AnyValue /\ j.expected \in SUBSET Agents
      /\ j.stamp \in Nat /\ j.retrys \in Retrys(CommandRetrys)
  BY <1>4, JobFields
<1>6. \/ eraseJob(r, i) /\ UNCHANGED <<net, resends>>
      \/ \E late \in SUBSET Retryable(j) :
           /\ resend(r, late, {CaceCommand(r, q, j.msgID, j.val, own[r].strat, own[r].dec,
                                           j.stamp) : q \in late})
           /\ replaceJob(r, i, Resent(j, late))
  BY DEF processCommandJob
<1> HIDE DEF j
<1>7. CASE eraseJob(r, i) /\ UNCHANGED <<net, resends>>
  <2>1. JobsBecome(r, o)
    BY <1>7, ErasedType
  <2>2. TypeOK'
    BY <1>1, <1>7, <2>1 DEF TypeInv, TypeOK, KeepVariable, JobsBecome
  <2>3. HasValues'
    BY <1>1, <2>1, ValuesKept DEF KeepVariable, JobsBecome
  <2>4. QED BY <2>2, <2>3 DEF TypeInv
<1>8. ASSUME NEW late \in SUBSET Retryable(j),
             resend(r, late, {CaceCommand(r, q, j.msgID, j.val, own[r].strat, own[r].dec,
                                          j.stamp) : q \in late}),
             replaceJob(r, i, Resent(j, late))
      PROVE  TypeInv'
  <2> DEFINE packets == {CaceCommand(r, q, j.msgID, j.val, own[r].strat, own[r].dec, j.stamp) :
                           q \in late}
  <2>1. late \in SUBSET Agents /\ Resent(j, late) \in Job /\ Resent(j, late).kind = "CommandJob"
    BY <1>4, ResentJob
  <2>2. packets \in SUBSET Message
    <3>1. own[r].strat \in Strategies /\ own[r].dec \in Nat
      BY DEF TypeInv, TypeOK, Believe
    <3>2. ASSUME NEW q \in late
          PROVE CaceCommand(r, q, j.msgID, j.val, own[r].strat, own[r].dec, j.stamp) \in Message
      BY <1>5, <2>1, <3>1 DEF CaceCommand, Message
    <3>3. QED BY <3>2
  <2>3. resends' \in 0..MaxResends /\ net' \in [Agents -> SUBSET Message]
    BY <1>8, <2>1, <2>2, ResendType
  <2>4. JobsBecome(r, Resent(j, late))
    BY <1>8, <2>1, ReplacedJob DEF TypeInv, TypeOK
  <2>5. TypeOK'
    BY <1>1, <2>3, <2>4 DEF TypeInv, TypeOK, KeepVariable, JobsBecome
  <2>6. HasValues'
    BY <1>1, <2>1, <2>4, ValuesKept DEF KeepVariable, JobsBecome
  <2>7. QED BY <2>5, <2>6 DEF TypeInv
<1>9. QED BY <1>6, <1>7, <1>8

LEMMA AnsweredRobots ==
  ASSUME TypeInv, NEW r \in Agents, NEW id
  PROVE  /\ Answered(r, id) \in SUBSET Agents
         /\ TakeShortAcks(r, id) => shortAcks' \in [Agents -> SUBSET Receipt]
<1>1. shortAcks \in [Agents -> SUBSET Receipt]
  BY DEF TypeInv, TypeOK
<1>2. \A b \in shortAcks[r] : b.from \in Agents
  BY <1>1 DEF Receipt
<1>3. Answered(r, id) \in SUBSET Agents
  BY <1>2 DEF Answered
<1>4. {b \in shortAcks[r] : b.msgID # id} \in SUBSET Receipt
  BY <1>1
<1>5. QED BY <1>1, <1>3, <1>4 DEF TakeShortAcks

LEMMA StartCommandAcknowledgeJobType ==
  ASSUME TypeInv, NEW r \in Agents, NEW i \in DOMAIN jobs[r], startCommandAcknowledgeJob(r, i)
  PROVE  TypeInv'
<1> DEFINE o == jobs[r][i]
           m == o.cmd
           acks == m.level > FireAndForget
           c == IF acks THEN clock[r] + 1 ELSE clock[r]
           retrys == IF acks THEN FullRetrys(o.expected, AckRetrys) ELSE NoRetrys
           remaining == o.expected \ Answered(r, m.msgID)
           j == [o EXCEPT !.started = TRUE, !.stamp = c, !.expected = remaining, !.retrys = retrys]
           packets == IF acks THEN {CaceAcknowledge(r, Broadcast, m.msgID, own'[r].val, c)} ELSE {}
<1>1. /\ o.kind = "CommandAcknowledgeJob" /\ UpdateByCommand(r, m)
      /\ clock' = [clock EXCEPT ![r] = c] /\ net' = Multicast(net, r, packets)
      /\ TakeShortAcks(r, m.msgID) /\ (eraseJob(r, i) \/ replaceJob(r, i, j))
      /\ UNCHANGED <<activeRobots, commands, resends, dups>>
  BY DEF startCommandAcknowledgeJob
<1>2. o \in Job /\ m \in Message /\ m.kind = "Command" /\ o.expected \in SUBSET Agents
  BY <1>1, ListedJob, JobFields
<1>3. c \in Nat /\ clock' \in [Agents -> Nat]
  <2>1. clock[r] \in Nat /\ clock \in [Agents -> Nat]
    BY DEF TypeInv, TypeOK
  <2>2. c \in Nat
    BY <2>1
  <2>3. QED BY <1>1, <2>1, <2>2
<1>4. retrys \in Retrys(AckRetrys) /\ remaining \in SUBSET Agents
  BY <1>2, NewRetrys
<1> HIDE DEF c, retrys, remaining
<1>5. j \in Job
  <2>1. \A robots \in SUBSET Agents, f \in Retrys(AckRetrys), stamp \in Nat :
          [o EXCEPT !.started = TRUE, !.stamp = stamp, !.expected = robots, !.retrys = f] \in Job
    BY <1>1, <1>2, StartedCommandAcknowledgeJob
  <2>2. QED BY <1>3, <1>4, <2>1
<1> HIDE DEF j
<1>6. \E k \in Job : JobsBecome(r, k)
  <2>1. eraseJob(r, i) => JobsBecome(r, o)
    BY ErasedType
  <2>2. replaceJob(r, i, j) => JobsBecome(r, j)
    BY <1>5, ReplacedJob DEF TypeInv, TypeOK
  <2>3. QED BY <1>1, <1>2, <1>5, <2>1, <2>2
<1>7. VariableUpdated(r)
  BY <1>1, <1>2, UpdatedByCommand
<1>8. packets \in SUBSET Message
  <2>1. own'[r].val \in AnyValue
    BY <1>7 DEF VariableUpdated, Valued, Believe
  <2>2. CaceAcknowledge(r, Broadcast, m.msgID, own'[r].val, c) \in Message
    BY <1>2, <1>3, <2>1, MessageFields DEF CaceAcknowledge, Message
  <2>3. QED BY <2>2
<1> HIDE DEF packets
<1>9. net' \in [Agents -> SUBSET Message]
  BY <1>1, <1>8, MulticastPackets DEF TypeInv, TypeOK
<1>10. shortAcks' \in [Agents -> SUBSET Receipt]
  BY <1>1, AnsweredRobots
<1>11. TypeOK'
  BY <1>1, <1>3, <1>6, <1>7, <1>9, <1>10 DEF TypeInv, TypeOK, VariableUpdated, JobsBecome
<1>12. HasValues'
  BY <1>6, <1>7, ValuesAfterUpdate DEF JobsBecome
<1>13. QED BY <1>11, <1>12 DEF TypeInv

LEMMA ProcessCommandAcknowledgeJobType ==
  ASSUME TypeInv, NEW r \in Agents, NEW i \in DOMAIN jobs[r], processCommandAcknowledgeJob(r, i)
  PROVE  TypeInv'
<1> DEFINE o == jobs[r][i]
           id == o.cmd.msgID
           j == [o EXCEPT !.expected = @ \ Answered(r, id)]
           packets(late) == {CaceAcknowledge(r, q, id, own[r].val, j.stamp) : q \in late}
<1>1. /\ o.kind = "CommandAcknowledgeJob" /\ o.started /\ TakeShortAcks(r, id) /\ KeepVariable
      /\ UNCHANGED <<clock, activeRobots, commands, dups>>
  BY DEF processCommandAcknowledgeJob
<1>2. PICK late \in SUBSET Retryable(j) :
        /\ resend(r, late, packets(late))
        /\ eraseJob(r, i) \/ replaceJob(r, i, Resent(j, late))
  BY DEF processCommandAcknowledgeJob
<1>3. o \in Job /\ o.cmd \in Message /\ o.expected \in SUBSET Agents
      /\ o.retrys \in Retrys(AckRetrys) /\ o.stamp \in Nat
  BY <1>1, ListedJob, JobFields
<1>4. j \in Job /\ j.kind = "CommandAcknowledgeJob" /\ j.stamp \in Nat
      /\ j.expected \in SUBSET Agents /\ j.retrys \in Retrys(AckRetrys)
  <2>1. o.expected \ Answered(r, id) \in SUBSET Agents
    BY <1>3
  <2>2. QED BY <1>1, <1>3, <2>1, ChangedCommandAcknowledgeJob
<1>5. existsVariable(r)
  BY <1>1 DEF TypeInv, HasValues
<1> HIDE DEF j
<1>6. late \in SUBSET Agents /\ Resent(j, late) \in Job
  BY <1>4, ResentJob
<1>7. packets(late) \in SUBSET Message
  <2>1. own[r].val \in AnyValue /\ id \in Nat
    BY <1>3, <1>5, MessageFields DEF TypeInv, TypeOK, Believe, existsVariable
  <2>2. ASSUME NEW q \in late
        PROVE  CaceAcknowledge(r, q, id, own[r].val, j.stamp) \in Message
    BY <1>4, <1>6, <2>1 DEF CaceAcknowledge, Message
  <2>3. QED BY <2>2
<1>8. resends' \in 0..MaxResends /\ net' \in [Agents -> SUBSET Message]
  BY <1>2, <1>6, <1>7, ResendType
<1>9. \E k \in Job : JobsBecome(r, k)
  <2>1. eraseJob(r, i) => JobsBecome(r, o)
    BY ErasedType
  <2>2. replaceJob(r, i, Resent(j, late)) => JobsBecome(r, Resent(j, late))
    BY <1>6, ReplacedJob DEF TypeInv, TypeOK
  <2>3. QED BY <1>2, <1>3, <1>6, <2>1, <2>2
<1>10. shortAcks' \in [Agents -> SUBSET Receipt]
  BY <1>1, AnsweredRobots
<1>11. TypeOK'
  BY <1>1, <1>8, <1>9, <1>10 DEF TypeInv, TypeOK, KeepVariable, JobsBecome
<1>12. HasValues'
  BY <1>1, <1>5, <1>9, ValuesKept DEF KeepVariable, JobsBecome
<1>13. QED BY <1>11, <1>12 DEF TypeInv

LEMMA ProcessShortAckJobType ==
  ASSUME TypeInv, NEW r \in Agents, NEW i \in DOMAIN jobs[r], processShortAckJob(r, i)
  PROVE  TypeInv'
<1> DEFINE m == jobs[r][i].ack
           s == CaceShortAck(r, m.from, m.msgID, clock[r] + 1)
<1>1. /\ jobs[r][i].kind = "ShortAckJob" /\ UpdateByAck(r, m) /\ eraseJob(r, i)
      /\ UNCHANGED <<activeRobots, shortAcks, commands, resends, dups>>
      /\ \/ clock' = [clock EXCEPT ![r] = clock[r] + 1] /\ net' = Multicast(net, r, {s})
         \/ UNCHANGED <<clock, net>>
  BY DEF processShortAckJob
<1>2. m \in Message /\ m.kind = "Acknowledge"
  BY <1>1, ListedJob, JobFields
<1>3. VariableUpdated(r)
  BY <1>1, <1>2, UpdatedByAck
<1>4. JobsBecome(r, jobs[r][i])
  BY <1>1, ErasedType
<1>5. clock[r] + 1 \in Nat
  BY DEF TypeInv, TypeOK
<1>6. {s} \in SUBSET Message
  BY <1>2, <1>5, MessageFields DEF CaceShortAck, Message
<1> HIDE DEF s
<1>7. net' \in [Agents -> SUBSET Message]
  <2>1. net \in [Agents -> SUBSET Message]
    BY DEF TypeInv, TypeOK
  <2>2. Multicast(net, r, {s}) \in [Agents -> SUBSET Message]
    BY <1>6, <2>1, MulticastPackets
  <2>3. QED BY <1>1, <2>1, <2>2
<1>8. clock' \in [Agents -> Nat]
  BY <1>1, <1>5 DEF TypeInv, TypeOK
<1>9. TypeOK'
  BY <1>1, <1>3, <1>4, <1>7, <1>8 DEF TypeInv, TypeOK, VariableUpdated, JobsBecome
<1>10. HasValues'
  BY <1>3, <1>4, ValuesAfterUpdate DEF JobsBecome
<1>11. QED BY <1>9, <1>10 DEF TypeInv

-----------------------------------------------------------------------------
(***************************************************************************)
(* What a step leaves alone: packets and jobs of other kinds.              *)
(***************************************************************************)
CommandKinds ==
  {"Command", "Acknowledge", "ShortAck", "CommandJob", "CommandAcknowledgeJob", "ShortAckJob"}

\* No packet of these kinds is new.
PacketsKept(kinds) ==
  \A q \in Agents : \A m \in net'[q] : m.kind \in kinds => m \in net[q]

\* No job of these kinds is new.
JobsKept(kinds) ==
  \A q \in Agents : \A k \in DOMAIN jobs'[q] :
    jobs'[q][k].kind \in kinds => \E l \in DOMAIN jobs[q] : jobs'[q][k] = jobs[q][l]

LuckKept == resends <= resends' /\ dups <= dups'

LEMMA MulticastKeeps ==
  ASSUME NEW kinds, NEW r \in Agents, NEW packets, net' = Multicast(net, r, packets),
         \A m \in packets : m.kind \notin kinds
  PROVE  PacketsKept(kinds)
BY DEF PacketsKept, Multicast

LEMMA ReceiveKeeps ==
  ASSUME NEW kinds, TypeInv, NEW r \in Agents, NEW m, NEW packets, Receive(r, m, packets),
         \A p \in packets : p.kind \notin kinds
  PROVE  PacketsKept(kinds) /\ dups <= dups'
<1>1. net \in [Agents -> SUBSET Message] /\ dups \in Nat
  BY DEF TypeInv, TypeOK
<1>2. CASE net' = Multicast([net EXCEPT ![r] = @ \ {m}], r, packets) /\ UNCHANGED dups
  <2>1. \A q \in Agents : [net EXCEPT ![r] = @ \ {m}][q] \subseteq net[q]
    BY <1>1
  <2>2. \A q \in Agents : net'[q] \subseteq [net EXCEPT ![r] = @ \ {m}][q] \cup packets
    BY <1>2 DEF Multicast
  <2>3. \A q \in Agents : \A p \in net'[q] : p \in net[q] \/ p \in packets
    BY <2>1, <2>2
  <2>4. PacketsKept(kinds)
    BY <2>3 DEF PacketsKept
  <2>5. dups <= dups'
    BY <1>1, <1>2
  <2>6. QED BY <2>4, <2>5
<1>3. CASE dups < MaxDups /\ dups' = dups + 1 /\ net' = Multicast(net, r, packets)
  BY <1>1, <1>3, MulticastKeeps
<1>4. QED BY <1>2, <1>3 DEF Receive

LEMMA AppendKeeps ==
  ASSUME NEW kinds, TypeInv, NEW r \in Agents, NEW j, j.kind \notin kinds, appendJob(r, j)
  PROVE  JobsKept(kinds)
<1>1. PICK S : S = Job \cup {j}
  OBVIOUS
<1>2. jobs \in [Agents -> Seq(Job)] /\ jobs' = [jobs EXCEPT ![r] = Append(jobs[r], j)]
  BY DEF appendJob, TypeInv, TypeOK
<1>3. jobs[r] \in Seq(S) /\ j \in S
  BY <1>1, <1>2, SeqMonotonic
<1>4. /\ Append(jobs[r], j) \in Seq(S) /\ Len(Append(jobs[r], j)) = Len(jobs[r]) + 1
      /\ \A k \in 1..Len(jobs[r]) : Append(jobs[r], j)[k] = jobs[r][k]
      /\ Append(jobs[r], j)[Len(jobs[r]) + 1] = j
  BY <1>3, AppendProperties
<1>5. /\ jobs'[r] = Append(jobs[r], j) /\ \A q \in Agents \ {r} : jobs'[q] = jobs[q]
  BY <1>2
<1>6. /\ DOMAIN jobs[r] = 1..Len(jobs[r]) /\ Len(jobs[r]) \in Nat
      /\ DOMAIN jobs'[r] = 1..(Len(jobs[r]) + 1)
  BY <1>3, <1>4, <1>5, LenProperties
<1>7. \A k \in DOMAIN jobs'[r] : k \in DOMAIN jobs[r] \/ k = Len(jobs[r]) + 1
  BY <1>6
<1>8. \A k \in DOMAIN jobs'[r] :
        jobs'[r][k] = j \/ (k \in DOMAIN jobs[r] /\ jobs'[r][k] = jobs[r][k])
  BY <1>4, <1>5, <1>6, <1>7
<1>9. QED BY <1>5, <1>8 DEF JobsKept

LEMMA ReplaceKeeps ==
  ASSUME NEW kinds, TypeInv, NEW r \in Agents, NEW i, NEW j, j.kind \notin kinds, replaceJob(r, i, j)
  PROVE  JobsKept(kinds)
<1>1. jobs \in [Agents -> Seq(Job)] /\ jobs' = [jobs EXCEPT ![r] = [jobs[r] EXCEPT ![i] = j]]
  BY DEF replaceJob, TypeInv, TypeOK
<1>2. jobs'[r] = [jobs[r] EXCEPT ![i] = j] /\ \A q \in Agents \ {r} : jobs'[q] = jobs[q]
  BY <1>1
<1>3. \A k \in DOMAIN jobs'[r] : k \in DOMAIN jobs[r] /\ (jobs'[r][k] = j \/ jobs'[r][k] = jobs[r][k])
  BY <1>2
<1>4. QED BY <1>2, <1>3 DEF JobsKept

LEMMA EraseKeeps ==
  ASSUME NEW kinds, TypeInv, NEW r \in Agents, NEW i \in DOMAIN jobs[r], eraseJob(r, i)
  PROVE  JobsKept(kinds)
<1>1. jobs \in [Agents -> Seq(Job)]
  BY DEF TypeInv, TypeOK
<1>2. QED BY <1>1, ErasedJob DEF JobsKept

LEMMA ResendKeeps ==
  ASSUME NEW kinds, TypeInv, NEW r \in Agents, NEW late \in SUBSET Agents, NEW packets,
         resend(r, late, packets), \A m \in packets : m.kind \notin kinds
  PROVE  PacketsKept(kinds) /\ resends <= resends'
<1>1. Cardinality(late) \in Nat
  BY FS_Subset, FS_CardinalityType
<1>2. QED BY <1>1, MulticastKeeps DEF resend, TypeInv, TypeOK

\* Kinds of packets and of changed jobs.
LEMMA KindsSent ==
  ASSUME NEW r, NEW to, NEW id, NEW v, NEW level, NEW dec, NEW stamp
  PROVE  /\ CaceCommand(r, to, id, v, level, dec, stamp).kind = "Command"
         /\ CaceAcknowledge(r, to, id, v, stamp).kind = "Acknowledge"
         /\ CaceShortAck(r, to, id, stamp).kind = "ShortAck"
BY DEF CaceCommand, CaceAcknowledge, CaceShortAck

LEMMA KindKept ==
  ASSUME NEW o \in Job
  PROVE  /\ "kind" \in DOMAIN o
         /\ \A X, late : LET j == [o EXCEPT !.expected = X] IN
              j.kind = o.kind /\ Resent(j, late).kind = o.kind
         /\ \A X, a, b, c : [o EXCEPT !.started = a, !.stamp = b, !.expected = X, !.retrys = c].kind = o.kind
<1>1. "kind" \in DOMAIN o
  BY DEF Job
<1>2. QED BY <1>1 DEF Resent

\* The actions of the commands bring packets and jobs of the commands only.
LEMMA CallKeeps ==
  ASSUME TypeInv, NEW kinds, kinds \cap CommandKinds = {}, NEW r \in Agents, Call(r)
  PROVE  PacketsKept(kinds) /\ JobsKept(kinds) /\ LuckKept
<1> USE DEF CommandKinds
<1>1. resends \in Nat /\ dups \in Nat /\ net \in [Agents -> SUBSET Message]
  BY DEF TypeInv, TypeOK
<1>2. ASSUME NEW b, NewCommandJob(r, b), UNCHANGED <<resends, dups>>
      PROVE  PacketsKept(kinds) /\ JobsKept(kinds) /\ LuckKept
  <2>1. PICK j : j.kind = "CommandJob" /\ appendJob(r, j)
    BY <1>2 DEF NewCommandJob, CommandJob
  <2>2. JobsKept(kinds)
    BY <2>1, AppendKeeps
  <2>3. CASE net' = net
    BY <1>1, <1>2, <2>2, <2>3 DEF PacketsKept, LuckKept
  <2>4. CASE \E m : m.kind = "Command" /\ net' = Multicast(net, r, {m})
    <3>1. PICK m : m.kind = "Command" /\ net' = Multicast(net, r, {m})
      BY <2>4
    <3>2. \A p \in {m} : p.kind \notin kinds
      BY <3>1
    <3>3. PacketsKept(kinds)
      BY <3>1, <3>2, MulticastKeeps
    <3>4. QED BY <1>1, <1>2, <2>2, <3>3 DEF LuckKept
  <2>5. PICK m : m = CaceCommand(r, Broadcast, MsgID(r), b.val, b.strat, b.dec, clock[r] + 1)
    OBVIOUS
  <2>6. m.kind = "Command" /\ (net' = net \/ net' = Multicast(net, r, {m}))
    BY <1>2, <2>5, KindsSent DEF NewCommandJob
  <2>7. QED BY <2>3, <2>4, <2>6
<1>3. CASE \E q \in Agents : agentEngangement(r, q)
  BY <1>1, <1>3 DEF agentEngangement, PacketsKept, JobsKept, LuckKept
<1>4. QED BY <1>2, <1>3 DEF Call, distributeValue, distributeVariable

LEMMA HandleKeeps ==
  ASSUME TypeInv, NEW kinds, kinds \cap CommandKinds = {}, NEW r \in Agents, NEW m \in net[r], Handle(r, m)
  PROVE  PacketsKept(kinds) /\ JobsKept(kinds) /\ LuckKept
<1> USE DEF CommandKinds
<1>1. UNCHANGED resends /\ resends \in Nat
  <2>1. resends \in Nat
    BY DEF TypeInv, TypeOK
  <2>2. QED BY <2>1 DEF Handle, Overhear, handleCaceCommand, handleCaceAcknowledge, handleCaceShortAck
<1>2. PICK packets : Receive(r, m, packets)
                     /\ \A p \in packets : p.kind \notin kinds
  <2>1. CASE Overhear(r, m) \/ handleCaceShortAck(r, m)
    BY <2>1 DEF Overhear, handleCaceShortAck
  <2>2. CASE handleCaceCommand(r, m)
    <3>1. PICK p : p = CaceAcknowledge(r, Broadcast, m.msgID, own'[r].val, Seen(clock[r], m.stamp))
      OBVIOUS
    <3>2. Receive(r, m, {}) \/ Receive(r, m, {p})
      BY <2>2, <3>1 DEF handleCaceCommand
    <3>3. \A x \in {p} : x.kind \notin kinds
      BY <3>1 DEF CaceAcknowledge
    <3>4. QED BY <3>2, <3>3
  <2>3. CASE handleCaceAcknowledge(r, m)
    <3>1. PICK p : p = CaceShortAck(r, m.from, m.msgID, Seen(clock[r], m.stamp) + 1)
      OBVIOUS
    <3>2. Receive(r, m, {}) \/ Receive(r, m, {p})
      BY <2>3, <3>1 DEF handleCaceAcknowledge
    <3>3. \A x \in {p} : x.kind \notin kinds
      BY <3>1 DEF CaceShortAck
    <3>4. QED BY <3>2, <3>3
  <2>4. QED BY <2>1, <2>2, <2>3 DEF Handle
<1>3. JobsKept(kinds)
  <2>1. CASE UNCHANGED jobs
    BY <2>1 DEF JobsKept
  <2>2. ASSUME NEW j, j.kind \notin kinds, appendJob(r, j) PROVE JobsKept(kinds)
    BY <2>2, AppendKeeps
  <2>3. CASE handleCaceCommand(r, m)
    <3>1. \E j : j.kind = "CommandAcknowledgeJob" /\ appendJob(r, j)
      BY <2>3 DEF handleCaceCommand, CommandAcknowledgeJob
    <3>2. QED BY <2>2, <3>1
  <2>4. CASE handleCaceAcknowledge(r, m)
    <3>1. UNCHANGED jobs \/ \E j : j.kind = "ShortAckJob" /\ appendJob(r, j)
      BY <2>4 DEF handleCaceAcknowledge, ShortAckJob
    <3>2. QED BY <2>1, <2>2, <3>1
  <2>5. QED BY <2>1, <2>3, <2>4 DEF Handle, Overhear, handleCaceShortAck
<1>4. QED BY <1>1, <1>2, <1>3, ReceiveKeeps DEF LuckKept

LEMMA ProcessKeeps ==
  ASSUME TypeInv, NEW kinds, kinds \cap CommandKinds = {}, NEW r \in Agents, NEW i \in DOMAIN jobs[r], Process(r, i)
  PROVE  PacketsKept(kinds) /\ JobsKept(kinds) /\ LuckKept
<1> USE DEF CommandKinds
<1>a. PICK o : o = jobs[r][i]
  OBVIOUS
<1>1. /\ o \in Job /\ resends \in Nat /\ dups \in Nat /\ dups' = dups
      /\ net \in [Agents -> SUBSET Message]
  <2>1. dups' = dups
    BY DEF Process, processCommandJob, startCommandAcknowledgeJob, processCommandAcknowledgeJob,
       processShortAckJob
  <2>2. resends \in 0..MaxResends /\ dups \in 0..MaxDups /\ net \in [Agents -> SUBSET Message]
    BY DEF TypeInv, TypeOK
  <2>3. QED BY <1>a, <2>1, <2>2, ListedJob
<1>2. eraseJob(r, i) => JobsKept(kinds)
  BY EraseKeeps
<1>3. UNCHANGED <<net, resends>> => PacketsKept(kinds) /\ LuckKept
  BY <1>1 DEF PacketsKept, LuckKept
<1>4. ASSUME NEW late \in SUBSET Agents, NEW packets, resend(r, late, packets),
             \A m \in packets : m.kind \notin kinds
      PROVE  PacketsKept(kinds) /\ LuckKept
  BY <1>1, <1>4, ResendKeeps DEF LuckKept
<1>5. ASSUME NEW X, NEW late, o.kind \notin kinds,
             replaceJob(r, i, Resent([o EXCEPT !.expected = X], late))
      PROVE  JobsKept(kinds)
  BY <1>1, <1>5, KindKept, ReplaceKeeps
<1>6. CASE processCommandJob(r, i)
  <2>1. o.kind = "CommandJob"
    BY <1>6, <1>a DEF processCommandJob
  <2>2. CASE eraseJob(r, i) /\ UNCHANGED <<net, resends>>
    BY <1>2, <1>3, <2>2
  <2>3. ASSUME NEW j, j = [o EXCEPT !.expected = Unanswered(r, o)],
               NEW late \in SUBSET Retryable(j), NEW packets,
               \A m \in packets : m.kind = "Command",
               resend(r, late, packets), replaceJob(r, i, Resent(j, late))
        PROVE  PacketsKept(kinds) /\ JobsKept(kinds) /\ LuckKept
    <3>1. o.expected \in SUBSET Agents
      BY <1>1, <2>1, JobFields
    <3>2. Unanswered(r, o) \in SUBSET Agents
      BY <3>1 DEF Unanswered
    <3>3. j.expected \in SUBSET Agents
      BY <1>1, <2>1, <2>3, <3>2, ChangedCommandJob
    <3>4. late \in SUBSET Agents
      BY <3>3 DEF Retryable
    <3>5. QED BY <1>4, <1>5, <2>1, <2>3, <3>4
  <2>4. QED
    <3>1. PICK j : j = [o EXCEPT !.expected = Unanswered(r, o)]
      OBVIOUS
    <3>2. \/ eraseJob(r, i) /\ UNCHANGED <<net, resends>>
          \/ \E late \in SUBSET Retryable(j) :
               /\ resend(r, late, {CaceCommand(r, q, j.msgID, j.val, own[r].strat, own[r].dec,
                                               j.stamp) : q \in late})
               /\ replaceJob(r, i, Resent(j, late))
      BY <1>6, <1>a, <3>1 DEF processCommandJob
    <3>3. ASSUME NEW late \in SUBSET Retryable(j),
                 resend(r, late, {CaceCommand(r, q, j.msgID, j.val, own[r].strat, own[r].dec,
                                               j.stamp) : q \in late}),
                 replaceJob(r, i, Resent(j, late))
          PROVE  PacketsKept(kinds) /\ JobsKept(kinds) /\ LuckKept
      <4>1. PICK packets : packets = {CaceCommand(r, q, j.msgID, j.val, own[r].strat, own[r].dec,
                                                  j.stamp) : q \in late}
        OBVIOUS
      <4>2. \A m \in packets : m.kind = "Command"
        BY <4>1 DEF CaceCommand
      <4>3. QED BY <2>3, <3>1, <3>3, <4>1, <4>2
    <3>4. QED BY <2>2, <3>2, <3>3
<1>7. CASE startCommandAcknowledgeJob(r, i)
  <2>1. o.kind = "CommandAcknowledgeJob" /\ UNCHANGED resends
    BY <1>7, <1>a DEF startCommandAcknowledgeJob
  <2>2. PICK packets : /\ net' = Multicast(net, r, packets)
                       /\ \A p \in packets : p.kind \notin kinds
    <3>1. PICK p : p = CaceAcknowledge(r, Broadcast, o.cmd.msgID, own'[r].val, clock[r] + 1)
      OBVIOUS
    <3>2. net' = Multicast(net, r, {}) \/ net' = Multicast(net, r, {p})
      BY <1>7, <1>a, <3>1 DEF startCommandAcknowledgeJob
    <3>3. \A x \in {p} : x.kind \notin kinds
      BY <3>1 DEF CaceAcknowledge
    <3>4. QED BY <3>2, <3>3
  <2>3. PacketsKept(kinds) /\ LuckKept
    BY <1>1, <2>1, <2>2, MulticastKeeps DEF LuckKept
  <2>4. eraseJob(r, i)
        \/ \E X, a, b, c : replaceJob(r, i, [o EXCEPT !.started = a, !.stamp = b, !.expected = X,
                                                      !.retrys = c])
    BY <1>7, <1>a DEF startCommandAcknowledgeJob
  <2>5. QED BY <1>1, <1>2, <2>1, <2>3, <2>4, KindKept, ReplaceKeeps
<1>8. CASE processCommandAcknowledgeJob(r, i)
  <2>1. o.kind = "CommandAcknowledgeJob"
    BY <1>8, <1>a DEF processCommandAcknowledgeJob
  <2>2. PICK j : j = [o EXCEPT !.expected = @ \ Answered(r, o.cmd.msgID)]
    OBVIOUS
  <2>3. PICK late \in SUBSET Retryable(j) :
          /\ resend(r, late, {CaceAcknowledge(r, q, o.cmd.msgID, own[r].val, j.stamp) : q \in late})
          /\ eraseJob(r, i) \/ replaceJob(r, i, Resent(j, late))
    BY <1>8, <1>a, <2>2 DEF processCommandAcknowledgeJob
  <2>4. late \in SUBSET Agents
    <3>1. o.expected \ Answered(r, o.cmd.msgID) \in SUBSET Agents
      BY <1>1, <2>1, JobFields
    <3>2. j.expected \in SUBSET Agents
      BY <1>1, <2>1, <2>2, <3>1, ChangedCommandAcknowledgeJob
    <3>3. QED BY <3>2 DEF Retryable
  <2>5. PacketsKept(kinds) /\ LuckKept
    BY <1>4, <2>3, <2>4, KindsSent
  <2>6. QED BY <1>2, <1>5, <2>1, <2>2, <2>3, <2>5
<1>9. CASE processShortAckJob(r, i)
  <2>a. PICK p : p = CaceShortAck(r, o.ack.from, o.ack.msgID, clock[r] + 1)
    OBVIOUS
  <2>1. UNCHANGED resends /\ eraseJob(r, i) /\ (UNCHANGED net \/ net' = Multicast(net, r, {p}))
    BY <1>9, <1>a, <2>a DEF processShortAckJob
  <2>2. \A x \in {p} : x.kind \notin kinds
    BY <2>a DEF CaceShortAck
  <2>3. PacketsKept(kinds)
    BY <1>3, <2>1, <2>2, MulticastKeeps
  <2>4. QED BY <1>1, <1>2, <2>1, <2>3 DEF LuckKept
<1>10. QED BY <1>6, <1>7, <1>8, <1>9 DEF Process

-----------------------------------------------------------------------------
LEMMA TypeInvInit == Init => TypeInv
<1> SUFFICES ASSUME Init PROVE TypeInv
  OBVIOUS
<1>1. \A r \in Agents : Absent(r) \in Believe(Agents)
  BY DEF Absent, Believe, Strategies, DefaultStrategies, NoDistribution
<1>2. TypeOK
  BY <1>1 DEF Init, TypeOK, Others
<1>3. HasValues
  BY DEF Init, HasValues
<1>4. QED BY <1>2, <1>3 DEF TypeInv

LEMMA TypeInvStep == TypeInv /\ [Next]_vars => TypeInv'
<1> SUFFICES ASSUME TypeInv, [Next]_vars PROVE TypeInv'
  OBVIOUS
<1>1. ASSUME NEW r \in Agents, Call(r) PROVE TypeInv'
  BY <1>1, DistributeValueType, DistributeVariableType, AgentEngangementType DEF Call
<1>2. ASSUME NEW r \in Agents, NEW m \in net[r], Handle(r, m) PROVE TypeInv'
  <2>1. m \in Message
    BY DEF TypeInv, TypeOK
  <2>2. QED BY <1>2, <2>1, OverhearType, HandleCaceCommandType, HandleCaceAcknowledgeType,
               HandleCaceShortAckType DEF Handle
<1>3. ASSUME NEW r \in Agents, NEW i \in DOMAIN jobs[r], Process(r, i) PROVE TypeInv'
  BY <1>3, ProcessCommandJobType, StartCommandAcknowledgeJobType,
     ProcessCommandAcknowledgeJobType, ProcessShortAckJobType DEF Process
<1>4. CASE UNCHANGED vars
  BY <1>4 DEF vars, TypeInv, TypeOK, HasValues, existsVariable
<1>5. QED BY <1>1, <1>2, <1>3, <1>4 DEF Next

\* The inductive invariant of the types: whoever has heard of the variable has a value for
\* it, as the jobs and handlers that read it expect.
THEOREM TypeInvCorrect == Spec => []TypeInv
BY TypeInvInit, TypeInvStep, PTL DEF Spec

\* Type correctness: the messages, jobs, believes and counters of every robot stay
\* what the handlers and the jobs expect, for any team and any bounds; in
\* particular no acknowledge is sent by a robot that has no value to send
\* (CommandAcknowledgeJob::process reads the value of a variable it must know).
THEOREM TypeCorrect == Spec => []TypeOK
BY TypeInvCorrect, PTL DEF TypeInv

-----------------------------------------------------------------------------
(***************************************************************************)
(* The inductive invariant of the safety properties.                       *)
(***************************************************************************)
\* With default levels no other strategy ever comes up.
UsedStrategies == IF Levels \subseteq DefaultStrategies THEN DefaultStrategies ELSE Strategies

\* A packet is true of its sender.
TruePacket(m) ==
  /\ m.stamp <= clock[m.from]
  /\ m.kind \in {"Command", "Acknowledge"} => m.val \in held[m.from]
  /\ m.kind = "Response" => m.val = NoValue \/ m.val \in held[m.from]
  /\ m.kind \in {"Command", "Write"} => m.level \in UsedStrategies
  /\ m.kind = "ShortAck" =>
       m.to \in Agents /\ [from |-> m.to, msgID |-> m.msgID] \in noted[m.from]

\* Robot r has taken packet m off the network.
Taken(r, m) == m.from # r /\ TruePacket(m) /\ m.stamp <= clock[r]

\* A job is true of its robot, and each robot struck from its list has answered.
TrueJob(r, j) ==
  /\ j.kind = "CommandJob" =>
       /\ j.stamp <= clock[r]
       /\ j.val \in held[r]
       /\ \A q \in DOMAIN j.retrys \ j.expected :
            \E k \in DOMAIN proposals[r] :
              proposals[r][k].id = q /\ proposals[r][k].age >= j.stamp
  /\ j.kind = "CommandAcknowledgeJob" =>
       /\ j.stamp <= clock[r]
       /\ Taken(r, j.cmd)
       /\ \A q \in DOMAIN j.retrys \ j.expected :
            [from |-> r, msgID |-> j.cmd.msgID] \in noted[q]
  /\ j.kind = "ShortAckJob" => Taken(r, j.ack)
  /\ j.kind = "WriteJob" => j.variable.strat \in UsedStrategies /\ j.variable.val # NoValue
  /\ j.kind = "WriteAckJob" => Taken(r, j.cmd)

TrueProposal(r, b) ==
  /\ b.id # r
  /\ b.age <= clock[r]
  /\ b.age <= clock[b.id]
  /\ b.val \in held[b.id]
  /\ b.strat \in UsedStrategies

TrueVariable(r) ==
  /\ own[r].age <= clock[r]
  /\ own[r].strat \in UsedStrategies
  /\ existsVariable(r) => own[r].val \in held[r]
  /\ ~existsVariable(r) => own[r].age = 0
  /\ \A k \in DOMAIN proposals[r] : TrueProposal(r, proposals[r][k])
  /\ \A k, l \in DOMAIN proposals[r] : proposals[r][k].id = proposals[r][l].id => k = l

TrueNet == \A r \in Agents : \A m \in net[r] : m.from # r /\ TruePacket(m)
TrueJobs == \A r \in Agents : \A i \in DOMAIN jobs[r] : TrueJob(r, jobs[r][i])
TrueVariables == \A r \in Agents : TrueVariable(r)
TrueShortAcks ==
  \A r \in Agents : \A a \in shortAcks[r] : [from |-> r, msgID |-> a.msgID] \in noted[a.from]

SafetyInv == TypeInv /\ TrueNet /\ TrueJobs /\ TrueVariables /\ TrueShortAcks

-----------------------------------------------------------------------------
(***************************************************************************)
(* The past only grows.                                                    *)
(***************************************************************************)
Renewed(old, new) == new = old \/ (new.id = old.id /\ new.age > old.age)

ProposalsGrow(r) ==
  \A k \in DOMAIN proposals[r] :
    k \in DOMAIN proposals'[r] /\ Renewed(proposals[r][k], proposals'[r][k])

Grows ==
  \A r \in Agents :
    /\ clock[r] <= clock'[r]
    /\ held[r] \subseteq held'[r]
    /\ noted[r] \subseteq noted'[r]
    /\ ProposalsGrow(r)

LEMMA StrategiesUsed ==
  /\ UsedStrategies \subseteq Strategies
  /\ Levels \subseteq UsedStrategies
  /\ NoDistribution \in UsedStrategies /\ ThreeWayHandShake \in UsedStrategies
BY DEF UsedStrategies, Strategies, DefaultStrategies

LEMMA PacketStaysTrue ==
  ASSUME TypeInv, TypeInv', Grows, NEW m \in Message, TruePacket(m)
  PROVE  TruePacket(m)'
<1>1. m.from \in Agents /\ m.stamp \in Nat
  BY MessageFields
<1>2. clock[m.from] \in Nat /\ clock'[m.from] \in Nat
  BY <1>1 DEF TypeInv, TypeOK
<1>3. /\ clock[m.from] <= clock'[m.from]
      /\ held[m.from] \subseteq held'[m.from]
      /\ noted[m.from] \subseteq noted'[m.from]
  BY <1>1 DEF Grows
<1>4. m.stamp <= clock'[m.from]
  BY <1>1, <1>2, <1>3 DEF TruePacket
<1>5. QED BY <1>3, <1>4 DEF TruePacket

LEMMA TakenStaysTrue ==
  ASSUME TypeInv, TypeInv', Grows, NEW m \in Message, NEW r \in Agents, Taken(r, m)
  PROVE  Taken(r, m)'
<1>1. m.stamp \in Nat /\ clock[r] \in Nat /\ clock'[r] \in Nat /\ clock[r] <= clock'[r]
  BY MessageFields DEF TypeInv, TypeOK, Grows
<1>2. TruePacket(m)'
  BY PacketStaysTrue DEF Taken
<1>3. m.stamp <= clock'[r]
  BY <1>1 DEF Taken
<1>4. QED BY <1>2, <1>3 DEF Taken

\* A robot that has answered has answered for good.
LEMMA AnswersStay ==
  ASSUME TypeInv, TypeInv', NEW r \in Agents, ProposalsGrow(r), NEW q, NEW stamp \in Nat,
         \E k \in DOMAIN proposals[r] : proposals[r][k].id = q /\ proposals[r][k].age >= stamp
  PROVE  \E k \in DOMAIN proposals'[r] : proposals'[r][k].id = q /\ proposals'[r][k].age >= stamp
<1>1. PICK k \in DOMAIN proposals[r] : proposals[r][k].id = q /\ proposals[r][k].age >= stamp
  OBVIOUS
<1>2. k \in DOMAIN proposals'[r] /\ Renewed(proposals[r][k], proposals'[r][k])
  BY DEF ProposalsGrow
<1>3. proposals[r][k] \in Believe(Agents) /\ proposals'[r][k] \in Believe(Agents)
  BY <1>2, ElementOfSeq, LenProperties DEF TypeInv, TypeOK
<1>4. proposals[r][k].age \in Nat /\ proposals'[r][k].age \in Nat
  BY <1>3 DEF Believe
<1>5. proposals'[r][k].id = q /\ proposals'[r][k].age >= stamp
  BY <1>1, <1>2, <1>4 DEF Renewed
<1>6. QED BY <1>2, <1>5

LEMMA JobStaysTrue ==
  ASSUME TypeInv, TypeInv', Grows, NEW r \in Agents, NEW j \in Job, TrueJob(r, j)
  PROVE  TrueJob(r, j)'
<1>1. clock[r] \in Nat /\ clock'[r] \in Nat /\ clock[r] <= clock'[r] /\ held[r] \subseteq held'[r]
  BY DEF TypeInv, TypeOK, Grows
<1>2. CASE j.kind = "CommandJob"
  <2>1. j.stamp \in Nat
    BY <1>2, JobFields
  <2>2. j.stamp <= clock'[r] /\ j.val \in held'[r]
    BY <1>1, <1>2, <2>1 DEF TrueJob
  <2>3. \A q \in DOMAIN j.retrys \ j.expected :
          \E k \in DOMAIN proposals'[r] :
            proposals'[r][k].id = q /\ proposals'[r][k].age >= j.stamp
    BY <1>2, <2>1, AnswersStay DEF TrueJob, Grows
  <2>4. QED BY <1>2, <2>2, <2>3 DEF TrueJob
<1>3. CASE j.kind = "CommandAcknowledgeJob"
  <2>1. j.stamp \in Nat /\ j.cmd \in Message /\ j.retrys \in Retrys(AckRetrys)
    BY <1>3, JobFields
  <2>2. j.stamp <= clock'[r]
    BY <1>1, <1>3, <2>1 DEF TrueJob
  <2>3. Taken(r, j.cmd)'
    BY <1>3, <2>1, TakenStaysTrue DEF TrueJob
  <2>4. DOMAIN j.retrys \subseteq Agents
    BY <2>1 DEF Retrys
  <2>5. \A q \in DOMAIN j.retrys \ j.expected : [from |-> r, msgID |-> j.cmd.msgID] \in noted'[q]
    BY <1>3, <2>4 DEF TrueJob, Grows
  <2>6. QED BY <1>3, <2>2, <2>3, <2>5 DEF TrueJob
<1>4. CASE j.kind = "ShortAckJob"
  BY <1>4, JobFields, TakenStaysTrue DEF TrueJob
<1>5. CASE j.kind = "WriteAckJob"
  BY <1>5, OtherJobFields, TakenStaysTrue DEF TrueJob
<1>6. CASE j.kind \notin {"CommandJob", "CommandAcknowledgeJob", "ShortAckJob", "WriteAckJob"}
  BY <1>6 DEF TrueJob
<1>7. QED BY <1>2, <1>3, <1>4, <1>5, <1>6

LEMMA ProposalStaysTrue ==
  ASSUME TypeInv, TypeInv', Grows, NEW r \in Agents, NEW b \in Believe(Agents), TrueProposal(r, b)
  PROVE  TrueProposal(r, b)'
<1>1. b.id \in Agents /\ b.age \in Nat
  BY DEF Believe
<1>2. /\ clock[r] \in Nat /\ clock'[r] \in Nat /\ clock[r] <= clock'[r]
      /\ clock[b.id] \in Nat /\ clock'[b.id] \in Nat /\ clock[b.id] <= clock'[b.id]
      /\ held[b.id] \subseteq held'[b.id]
  BY <1>1 DEF TypeInv, TypeOK, Grows
<1>3. b.age <= clock'[r] /\ b.age <= clock'[b.id] /\ b.val \in held'[b.id]
  BY <1>1, <1>2 DEF TrueProposal
<1>4. QED BY <1>3 DEF TrueProposal

LEMMA ListedProposal ==
  ASSUME TypeInv, NEW r \in Agents, NEW k \in DOMAIN proposals[r]
  PROVE  proposals[r][k] \in Believe(Agents)
BY ElementOfSeq, LenProperties DEF TypeInv, TypeOK

LEMMA VariableStaysTrue ==
  ASSUME TypeInv, TypeInv', Grows, NEW r \in Agents, TrueVariable(r),
         own'[r] = own[r], proposals'[r] = proposals[r]
  PROVE  TrueVariable(r)'
<1>1. own[r].age \in Nat /\ clock[r] \in Nat /\ clock'[r] \in Nat /\ clock[r] <= clock'[r]
      /\ held[r] \subseteq held'[r]
  BY DEF TypeInv, TypeOK, Believe, Grows
<1>2. own[r].age <= clock'[r]
  BY <1>1 DEF TrueVariable
<1>3. \A k \in DOMAIN proposals[r] : TrueProposal(r, proposals[r][k])'
  <2> SUFFICES ASSUME NEW k \in DOMAIN proposals[r], NEW b, b = proposals[r][k]
               PROVE  TrueProposal(r, b)'
    BY DEF TrueProposal
  <2>1. b \in Believe(Agents) /\ TrueProposal(r, b)
    BY ListedProposal DEF TrueVariable
  <2>2. QED BY <2>1, ProposalStaysTrue
<1>4. QED BY <1>1, <1>2, <1>3 DEF TrueVariable, TrueProposal, existsVariable

-----------------------------------------------------------------------------
(***************************************************************************)
(* What a step of robot r must show: the packets it sends, the job it adds *)
(* or changes, its own variable and its short acks.                        *)
(***************************************************************************)
LEMMA NetStaysTrue ==
  ASSUME SafetyInv, TypeInv', Grows, NEW r \in Agents, NEW packets, PacketsFrom(r, packets),
         \A m \in packets : m.from = r /\ TruePacket(m)'
  PROVE  TrueNet'
<1> SUFFICES ASSUME NEW q \in Agents, NEW m \in net'[q]
             PROVE  m.from # q /\ TruePacket(m)'
  BY DEF TrueNet, TruePacket
<1>1. CASE m \in net[q]
  <2>1. m \in Message /\ m.from # q /\ TruePacket(m)
    BY <1>1 DEF SafetyInv, TypeInv, TypeOK, TrueNet
  <2>2. QED BY <2>1, PacketStaysTrue DEF SafetyInv
<1>2. CASE q # r /\ m \in packets
  BY <1>2
<1>3. QED BY <1>1, <1>2 DEF PacketsFrom

\* Robot r's list holds nothing but old jobs and true ones.
TrueJobsBecome(r) ==
  \A k \in DOMAIN jobs'[r] :
    \/ \E l \in DOMAIN jobs[r] : jobs'[r][k] = jobs[r][l]
    \/ \E j \in Job : jobs'[r][k] = j /\ TrueJob(r, j)'

LEMMA JobsStayTrue ==
  ASSUME SafetyInv, TypeInv', Grows, NEW r \in Agents, TrueJobsBecome(r),
         \A q \in Agents \ {r} : jobs'[q] = jobs[q]
  PROVE  TrueJobs'
<1> SUFFICES ASSUME NEW q \in Agents, NEW i \in DOMAIN jobs'[q], NEW j, j = jobs'[q][i]
             PROVE  TrueJob(q, j)'
  BY SMTT(30) DEF TrueJobs, TrueJob, Taken, TruePacket
<1>1. ASSUME NEW l \in DOMAIN jobs[q], j = jobs[q][l] PROVE TrueJob(q, j)'
  <2>1. j \in Job /\ TrueJob(q, j)
    BY <1>1, ListedJob DEF SafetyInv, TrueJobs
  <2>2. QED BY <2>1, JobStaysTrue DEF SafetyInv
<1>2. CASE q # r
  BY <1>1, <1>2
<1>3. CASE q = r
  <2>1. \/ \E l \in DOMAIN jobs[q] : j = jobs[q][l]
        \/ \E k \in Job : j = k /\ TrueJob(q, k)'
    BY <1>3 DEF TrueJobsBecome
  <2>2. QED BY <1>1, <2>1
<1>4. QED BY <1>2, <1>3

LEMMA VariablesStayTrue ==
  ASSUME SafetyInv, TypeInv', Grows, NEW r \in Agents, TrueVariable(r)',
         \A q \in Agents \ {r} : own'[q] = own[q] /\ proposals'[q] = proposals[q]
  PROVE  TrueVariables'
<1> SUFFICES ASSUME NEW q \in Agents PROVE TrueVariable(q)'
  BY DEF TrueVariables
<1>1. CASE q # r
  BY <1>1, VariableStaysTrue DEF SafetyInv, TrueVariables
<1>2. QED BY <1>1

LEMMA ShortAcksStayTrue ==
  ASSUME SafetyInv, TypeInv', Grows,
         \A q \in Agents : \A a \in shortAcks'[q] :
           a \in shortAcks[q] \/ [from |-> q, msgID |-> a.msgID] \in noted'[a.from]
  PROVE  TrueShortAcks'
<1> SUFFICES ASSUME NEW q \in Agents, NEW a \in shortAcks'[q], a \in shortAcks[q]
             PROVE  [from |-> q, msgID |-> a.msgID] \in noted'[a.from]
  BY DEF TrueShortAcks
<1>1. a.from \in Agents
  BY DEF SafetyInv, TypeInv, TypeOK, Receipt
<1>2. QED BY <1>1 DEF SafetyInv, TrueShortAcks, Grows

\* An unchanged variable is true as long as the past only grows.
LEMMA KeptVariable ==
  ASSUME SafetyInv, TypeInv', Grows, UNCHANGED <<own, proposals>>
  PROVE  TrueVariables'
BY VariableStaysTrue DEF SafetyInv, TrueVariables

-----------------------------------------------------------------------------
(***************************************************************************)
(* doVariableUpdate with a packet taken off the network.                   *)
(***************************************************************************)
\* The believe b came with packet m.
Brought(m, b) ==
  b.id = m.from /\ b.val = m.val /\ b.age = m.stamp /\ b.strat \in UsedStrategies

BroughtProposals(r, m, props) ==
  \/ /\ Known(r, m)
     /\ DOMAIN props = DOMAIN proposals[r]
     /\ \A k \in DOMAIN proposals[r] :
          IF News(r, m, k) THEN Brought(m, props[k]) ELSE props[k] = proposals[r][k]
  \/ /\ ~Known(r, m)
     /\ \E b : Brought(m, b) /\ props = Append(proposals[r], b)

\* Nothing but used strategies in the variable of r.
UsedVariable(r) ==
  /\ own[r].strat \in UsedStrategies
  /\ \A k \in DOMAIN proposals[r] : proposals[r][k].strat \in UsedStrategies

\* The own believe is not ahead of the clock, and no believe is no age.
DatedBelieve(r) == own[r].age <= clock[r] /\ (~existsVariable(r) => own[r].age = 0)

OneOfEach(r) == \A k, l \in DOMAIN proposals[r] : proposals[r][k].id = proposals[r][l].id => k = l

LEMMA TrueMeansUsed ==
  ASSUME SafetyInv, NEW r \in Agents
  PROVE  UsedVariable(r) /\ OneOfEach(r) /\ DatedBelieve(r)
BY DEF SafetyInv, TrueVariables, TrueVariable, TrueProposal, UsedVariable, OneOfEach, DatedBelieve

LEMMA ProposalsBrought ==
  ASSUME NEW r \in Agents, NEW m \in Message, UsedVariable(r)
  PROVE  /\ m.level \in UsedStrategies => BroughtProposals(r, m, ProposalsAfterCommand(r, m))
         /\ BroughtProposals(r, m, ProposalsAfterAck(r, m))
<1>1. \A strat \in UsedStrategies : \A dec : Brought(m, Heard(m, strat, dec))
  BY DEF Heard, Brought
<1>2. \A k \in DOMAIN proposals[r] : proposals[r][k].strat \in UsedStrategies
  BY DEF UsedVariable
<1>3. own[r].strat \in UsedStrategies /\ ThreeWayHandShake \in UsedStrategies
  BY StrategiesUsed DEF UsedVariable
<1>4. m.level \in UsedStrategies => Brought(m, Heard(m, m.level, m.dec))
  BY <1>1
<1>5. m.level \in UsedStrategies => BroughtProposals(r, m, ProposalsAfterCommand(r, m))
  BY <1>4 DEF BroughtProposals, ProposalsAfterCommand
<1>6. BroughtProposals(r, m, ProposalsAfterAck(r, m))
  <2>1. CASE Known(r, m)
    BY <1>1, <1>2, <2>1 DEF BroughtProposals, ProposalsAfterAck
  <2>2. CASE ~Known(r, m)
    BY <1>1, <1>3, <2>2 DEF BroughtProposals, ProposalsAfterAck
  <2>3. QED BY <2>1, <2>2
<1>7. QED BY <1>5, <1>6

LEMMA RenewedProposals ==
  ASSUME TypeInv, NEW r \in Agents, OneOfEach(r), NEW m \in Message, NEW props \in Seq(Valued),
         BroughtProposals(r, m, props)
  PROVE  /\ \A k \in DOMAIN proposals[r] : k \in DOMAIN props /\ Renewed(proposals[r][k], props[k])
         /\ \A k \in DOMAIN props :
              (k \in DOMAIN proposals[r] /\ props[k] = proposals[r][k]) \/ Brought(m, props[k])
         /\ \A k, l \in DOMAIN props : props[k].id = props[l].id => k = l
<1>1. /\ \A k \in DOMAIN proposals[r] : proposals[r][k].age \in Nat
      /\ m.stamp \in Nat
  BY ListedProposal, MessageFields DEF Believe
<1>2. \A k, l \in DOMAIN proposals[r] : proposals[r][k].id = proposals[r][l].id => k = l
  BY DEF OneOfEach
<1>3. CASE /\ Known(r, m)
           /\ DOMAIN props = DOMAIN proposals[r]
           /\ \A k \in DOMAIN proposals[r] :
                IF News(r, m, k) THEN Brought(m, props[k]) ELSE props[k] = proposals[r][k]
  <2>1. \A k \in DOMAIN proposals[r] : Renewed(proposals[r][k], props[k])
    BY <1>1, <1>3 DEF News, Brought, Renewed
  <2>2. \A k \in DOMAIN proposals[r] : props[k].id = proposals[r][k].id
    BY <2>1 DEF Renewed
  <2>3. \A k, l \in DOMAIN props : props[k].id = props[l].id => k = l
    BY <1>2, <1>3, <2>2
  <2>4. QED BY <1>3, <2>1, <2>3
<1>4. ASSUME ~Known(r, m), NEW b, Brought(m, b), props = Append(proposals[r], b)
      PROVE  /\ \A k \in DOMAIN proposals[r] : k \in DOMAIN props /\ props[k] = proposals[r][k]
             /\ \A k \in DOMAIN props :
                  (k \in DOMAIN proposals[r] /\ props[k] = proposals[r][k]) \/ Brought(m, props[k])
             /\ \A k, l \in DOMAIN props : props[k].id = props[l].id => k = l
  <2> DEFINE s == proposals[r]
             n == Len(s)
  <2>1. s \in Seq(Believe(Agents)) /\ n \in Nat /\ DOMAIN s = 1..n
    BY LenProperties DEF TypeInv, TypeOK
  <2>2. /\ DOMAIN props = 1..(n + 1)
        /\ \A k \in 1..n : props[k] = s[k]
        /\ props[n + 1] = b
    BY <1>4, <2>1
  <2> HIDE DEF n
  <2>3. \A k \in 1..(n + 1) : k \in 1..n \/ k = n + 1
    BY <2>1
  <2>4. \A k \in 1..n : s[k].id # b.id /\ k \in 1..(n + 1)
    BY <1>4, <2>1 DEF Known, Brought
  <2>5. \A k, l \in DOMAIN props : props[k].id = props[l].id => k = l
    <3> SUFFICES ASSUME NEW k \in 1..(n + 1), NEW l \in 1..(n + 1), props[k].id = props[l].id
                 PROVE  k = l
      BY <2>2
    <3>1. CASE k \in 1..n /\ l \in 1..n
      BY <1>2, <2>1, <2>2, <3>1
    <3>2. CASE k = n + 1 /\ l \in 1..n
      BY <2>2, <2>4, <3>2
    <3>3. CASE l = n + 1 /\ k \in 1..n
      BY <2>2, <2>4, <3>3
    <3>4. QED BY <2>3, <3>1, <3>2, <3>3
  <2>6. QED BY <1>4, <2>1, <2>2, <2>3, <2>4, <2>5
<1>5. CASE ~Known(r, m) /\ \E b : Brought(m, b) /\ props = Append(proposals[r], b)
  BY <1>4, <1>5 DEF Renewed
<1>6. QED BY <1>3, <1>5 DEF BroughtProposals

\* acceptProposals leaves the believe it started from, or the value, age and strategy
\* of a proposal; with a default strategy it never goes back to an older one.
LEMMA AcceptedOne ==
  ASSUME NEW b \in Valued, NEW props \in Seq(Valued), NEW a \in AcceptProposals(b, props)
  PROVE  /\ \/ a = b
            \/ \E k \in DOMAIN props :
                 a.val = props[k].val /\ a.age = props[k].age /\ a.strat = props[k].strat
         /\ b.strat \in DefaultStrategies => a.age >= b.age
<1>1. PICK w \in 0..Len(props) :
        IsWinner(b, props, w) /\ a = IF w = 0 THEN b ELSE Update(b, props[w])
  BY DEF AcceptProposals
<1>2. b.age \in Nat
  BY DEF Valued, Believe
<1>3. CASE w = 0
  BY <1>1, <1>2, <1>3
<1>4. CASE w # 0
  <2>1. w \in DOMAIN props /\ props[w] \in Valued
    BY <1>4, ElementOfSeq, LenProperties
  <2>2. a.val = props[w].val /\ a.age = props[w].age /\ a.strat = props[w].strat
    BY <1>1, <1>4 DEF Update, Valued, Believe
  <2>3. ~ Keeps(b.strat, Candidate(b, props, 0), Candidate(b, props, w))
    <3>1. 0 \in 0..(w - 1)
      BY <1>4
    <3>2. QED BY <1>1, <3>1 DEF IsWinner
  <2>4. b.strat \in DefaultStrategies => ~ Newer(b, props[w])
    BY <1>4, <2>3 DEF Keeps, Candidate
  <2>5. props[w].age \in Nat
    BY <2>1 DEF Valued, Believe
  <2>6. b.strat \in DefaultStrategies => a.age >= b.age
    BY <1>2, <2>2, <2>4, <2>5 DEF Newer
  <2>7. QED BY <2>1, <2>2, <2>6
<1>5. QED BY <1>3, <1>4

LEMMA UpdateStaysTrue ==
  ASSUME SafetyInv, TypeInv', NEW r \in Agents, NEW m \in Message,
         m.kind \in {"Command", "Acknowledge"}, m.from # r, TruePacket(m), m.stamp <= clock'[r],
         NEW created \in Valued, created.age <= m.stamp, created.strat \in UsedStrategies,
         NEW props \in Seq(Valued), props # <<>>, BroughtProposals(r, m, props),
         DoVariableUpdate(r, created, props),
         \A q \in Agents : clock[q] <= clock'[q] /\ noted[q] \subseteq noted'[q]
  PROVE  Grows /\ TrueVariable(r)'
<1>1. PICK b \in IF props = proposals[r] THEN {own[r]}
                 ELSE AcceptProposals(OwnBefore(r, created), props) :
        own' = [own EXCEPT ![r] = b] /\ held' = [held EXCEPT ![r] = @ \cup {b.val}]
  BY DEF DoVariableUpdate
<1>2. /\ own \in [Agents -> Believe(Agents)] /\ proposals \in [Agents -> Seq(Believe(Agents))]
      /\ held \in [Agents -> SUBSET (AnyValue \cup {NoValue})]
      /\ clock \in [Agents -> Nat] /\ clock' \in [Agents -> Nat]
  BY DEF SafetyInv, TypeInv, TypeOK
<1>3. /\ own'[r] = b /\ proposals'[r] = props /\ b.val \in held'[r]
      /\ \A q \in Agents : held[q] \subseteq held'[q]
      /\ \A q \in Agents \ {r} : proposals'[q] = proposals[q]
  BY <1>1, <1>2 DEF DoVariableUpdate
<1>4. /\ \A k \in DOMAIN proposals[r] : k \in DOMAIN props /\ Renewed(proposals[r][k], props[k])
      /\ \A k \in DOMAIN props :
           (k \in DOMAIN proposals[r] /\ props[k] = proposals[r][k]) \/ Brought(m, props[k])
      /\ \A k, l \in DOMAIN props : props[k].id = props[l].id => k = l
  BY RenewedProposals, TrueMeansUsed DEF SafetyInv
<1>5. Grows
  <2>1. \A q \in Agents : ProposalsGrow(q)
    BY <1>3, <1>4 DEF ProposalsGrow, Renewed
  <2>2. QED BY <1>3, <2>1 DEF Grows
<1>6. \A k \in DOMAIN props : TrueProposal(r, props[k])'
  <2> SUFFICES ASSUME NEW k \in DOMAIN props, NEW p, p = props[k]
               PROVE  TrueProposal(r, p)'
    BY <1>3 DEF TrueProposal
  <2>1. CASE k \in DOMAIN proposals[r] /\ p = proposals[r][k]
    <3>1. p \in Believe(Agents) /\ TrueProposal(r, p)
      BY <2>1, ListedProposal DEF SafetyInv, TrueVariables, TrueVariable
    <3>2. QED BY <1>5, <3>1, ProposalStaysTrue DEF SafetyInv
  <2>2. CASE Brought(m, p)
    <3>1. TruePacket(m)'
      BY <1>5, PacketStaysTrue DEF SafetyInv
    <3>2. QED BY <2>2, <3>1 DEF Brought, TrueProposal, TruePacket
  <2>3. QED BY <1>4, <2>1, <2>2
<1>7. b.age <= clock'[r] /\ b.strat \in UsedStrategies
  <2>1. own[r].age <= clock'[r] /\ own[r].strat \in UsedStrategies
    <3>1. own[r].age <= clock[r] /\ own[r].age \in Nat
      BY <1>2 DEF SafetyInv, TrueVariables, TrueVariable, Believe
    <3>2. clock[r] <= clock'[r] /\ clock[r] \in Nat /\ clock'[r] \in Nat
      BY <1>2
    <3>3. own[r].strat \in UsedStrategies
      BY DEF SafetyInv, TrueVariables, TrueVariable
    <3>4. QED BY <3>1, <3>2, <3>3
  <2>2. created.age <= clock'[r]
    <3>1. created.age \in Nat /\ m.stamp \in Nat /\ clock'[r] \in Nat
      BY <1>2, MessageFields DEF Valued, Believe
    <3>2. QED BY <3>1
  <2>3. CASE props = proposals[r]
    BY <1>1, <2>1, <2>3
  <2>4. CASE props # proposals[r]
    <3> DEFINE o == OwnBefore(r, created)
    <3>1. o \in Valued /\ o.age <= clock'[r] /\ o.strat \in UsedStrategies
      BY <1>2, <2>1, <2>2 DEF OwnBefore, existsVariable, Valued
    <3>2. b \in AcceptProposals(o, props)
      BY <1>1, <2>4
    <3> HIDE DEF o
    <3>3. \/ b = o
          \/ \E k \in DOMAIN props :
               b.val = props[k].val /\ b.age = props[k].age /\ b.strat = props[k].strat
      BY <3>1, <3>2, AcceptedOne
    <3>4. \A k \in DOMAIN props : props[k].age <= clock'[r] /\ props[k].strat \in UsedStrategies
      BY <1>6 DEF TrueProposal
    <3>5. QED BY <3>1, <3>3, <3>4
  <2>5. QED BY <2>3, <2>4
<1>8. own'[r].val # NoValue
  <2>1. noted' \in [Agents -> SUBSET Receipt]
    BY DEF TypeInv, TypeOK
  <2>2. VariableUpdated(r)
    BY <2>1, UpdatedVariable DEF SafetyInv
  <2>3. QED BY <2>2 DEF VariableUpdated, Valued
<1>9. TrueVariable(r)'
  BY <1>3, <1>4, <1>6, <1>7, <1>8 DEF TrueVariable, TrueProposal, existsVariable
<1>10. QED BY <1>5, <1>9

LEMMA CommandUpdateStaysTrue ==
  ASSUME SafetyInv, TypeInv', NEW r \in Agents, NEW m \in Message, m.kind = "Command",
         m.from # r, TruePacket(m), m.stamp <= clock'[r],
         \A q \in Agents : clock[q] <= clock'[q], UpdateByCommand(r, m)
  PROVE  Grows /\ TrueVariable(r)'
<1> DEFINE props == ProposalsAfterCommand(r, m)
           created == CreatedByCommand(r, m)
<1>1. DoVariableUpdate(r, created, props) /\ \A q \in Agents : noted[q] \subseteq noted'[q]
  BY DEF UpdateByCommand
<1>2. props \in Seq(Valued) /\ props # <<>>
  BY NewProposals DEF SafetyInv
<1>3. BroughtProposals(r, m, props)
  BY ProposalsBrought, TrueMeansUsed DEF TruePacket
<1>4. created \in Valued
  BY CreatedBelieves
<1>5. created.age <= m.stamp /\ created.strat \in UsedStrategies
  BY MessageFields DEF CreatedByCommand, TruePacket
<1> HIDE DEF props, created
<1>6. QED BY <1>1, <1>2, <1>3, <1>4, <1>5, UpdateStaysTrue

LEMMA AckUpdateStaysTrue ==
  ASSUME SafetyInv, TypeInv', NEW r \in Agents, NEW m \in Message, m.kind = "Acknowledge",
         m.from # r, TruePacket(m), m.stamp <= clock'[r],
         \A q \in Agents : clock[q] <= clock'[q], UpdateByAck(r, m)
  PROVE  /\ Grows /\ TrueVariable(r)'
         /\ [from |-> m.from, msgID |-> m.msgID] \in noted'[r]
<1> DEFINE props == ProposalsAfterAck(r, m)
           created == CreatedByAck(r, m)
<1>1. /\ DoVariableUpdate(r, created, props) /\ \A q \in Agents : noted[q] \subseteq noted'[q]
      /\ [from |-> m.from, msgID |-> m.msgID] \in noted'[r]
  BY DEF UpdateByAck, SafetyInv, TypeInv, TypeOK
<1>2. props \in Seq(Valued) /\ props # <<>>
  BY NewProposals DEF SafetyInv
<1>3. BroughtProposals(r, m, props)
  BY ProposalsBrought, TrueMeansUsed
<1>4. created \in Valued
  BY CreatedBelieves
<1>5. created.age <= m.stamp /\ created.strat \in UsedStrategies
  BY MessageFields, StrategiesUsed DEF CreatedByAck
<1> HIDE DEF props, created
<1>6. QED BY <1>1, <1>2, <1>3, <1>4, <1>5, UpdateStaysTrue

\* A step that moves no variable but clocks, forward, lets the past grow.
LEMMA KeptPastGrows ==
  ASSUME KeepVariable, \A q \in Agents : clock[q] <= clock'[q]
  PROVE  Grows
BY DEF KeepVariable, Grows, ProposalsGrow, Renewed

\* The clock of one robot moves to c.
LEMMA ClockMoves ==
  ASSUME TypeInv, NEW r \in Agents, NEW c \in Nat, c >= clock[r],
         clock' = [clock EXCEPT ![r] = c]
  PROVE  clock'[r] = c /\ \A q \in Agents : clock[q] <= clock'[q]
BY DEF TypeInv, TypeOK

\* The clock of a robot that hears a stamp.
LEMMA ClockSees ==
  ASSUME TypeInv, NEW r \in Agents, NEW stamp \in Nat,
         clock' = [clock EXCEPT ![r] = Seen(clock[r], stamp)]
  PROVE  stamp <= clock'[r] /\ \A q \in Agents : clock[q] <= clock'[q]
<1> DEFINE c == Seen(clock[r], stamp)
<1>1. clock[r] \in Nat
  BY DEF TypeInv, TypeOK
<1>2. c \in Nat /\ c >= clock[r] /\ stamp <= c
  BY <1>1, SeenBounds
<1>3. clock' = [clock EXCEPT ![r] = c]
  OBVIOUS
<1> HIDE DEF c
<1>4. QED BY <1>2, <1>3, ClockMoves

\* A packet read off the network.
LEMMA PacketRead ==
  ASSUME SafetyInv, NEW r \in Agents, NEW m \in net[r]
  PROVE  m \in Message /\ m.from # r /\ TruePacket(m)
BY DEF SafetyInv, TypeInv, TypeOK, TrueNet

-----------------------------------------------------------------------------
(***************************************************************************)
(* One lemma for each action.                                              *)
(***************************************************************************)
LEMMA OverhearSafe ==
  ASSUME SafetyInv, TypeInv', NEW r \in Agents, NEW m \in net[r], Overhear(r, m)
  PROVE  SafetyInv' /\ Grows
<1>1. /\ Receive(r, m, {}) /\ KeepVariable /\ clock' = [clock EXCEPT ![r] = Seen(clock[r], m.stamp)]
      /\ UNCHANGED <<jobs, shortAcks>>
  BY DEF Overhear
<1>2. m \in Message /\ m.stamp \in Nat
  BY PacketRead, MessageFields
<1>3. Grows
  BY <1>1, <1>2, ClockSees, KeptPastGrows DEF SafetyInv
<1>4. PacketsFrom(r, {})
  BY <1>1, ReceivedPackets DEF SafetyInv, TypeInv, TypeOK
<1>5. TrueNet'
  BY <1>3, <1>4, NetStaysTrue
<1>6. TrueJobs' /\ TrueShortAcks'
  BY <1>1, <1>3, JobsStayTrue, ShortAcksStayTrue DEF TrueJobsBecome
<1>7. TrueVariables'
  BY <1>1, <1>3, KeptVariable DEF KeepVariable
<1>8. QED BY <1>3, <1>5, <1>6, <1>7 DEF SafetyInv

LEMMA HandleCaceShortAckSafe ==
  ASSUME SafetyInv, TypeInv', NEW r \in Agents, NEW m \in net[r], handleCaceShortAck(r, m)
  PROVE  SafetyInv' /\ Grows
<1>1. /\ Receive(r, m, {}) /\ KeepVariable /\ clock' = [clock EXCEPT ![r] = Seen(clock[r], m.stamp)]
      /\ m.kind = "ShortAck" /\ Addressed(r, m) /\ UNCHANGED jobs
      /\ shortAcks' = [shortAcks EXCEPT ![r] = @ \cup {[from |-> m.from, msgID |-> m.msgID]}]
  BY DEF handleCaceShortAck
<1>2. m \in Message /\ m.stamp \in Nat /\ TruePacket(m)
  BY PacketRead, MessageFields
<1>3. Grows
  BY <1>1, <1>2, ClockSees, KeptPastGrows DEF SafetyInv
<1>4. PacketsFrom(r, {})
  BY <1>1, ReceivedPackets DEF SafetyInv, TypeInv, TypeOK
<1>5. TrueNet'
  BY <1>3, <1>4, NetStaysTrue
<1>6. TrueJobs'
  BY <1>1, <1>3, JobsStayTrue DEF TrueJobsBecome
<1>7. TrueVariables'
  BY <1>1, <1>3, KeptVariable DEF KeepVariable
<1>8. TrueShortAcks'
  <2>1. m.to = r
    BY <1>1, <1>2 DEF TruePacket, Addressed
  <2>2. [from |-> r, msgID |-> m.msgID] \in noted'[m.from]
    BY <1>1, <1>2, <2>1 DEF TruePacket, KeepVariable
  <2> DEFINE new == [from |-> m.from, msgID |-> m.msgID]
  <2>a. shortAcks \in [Agents -> SUBSET Receipt]
    BY DEF SafetyInv, TypeInv, TypeOK
  <2>b. new.from = m.from /\ new.msgID = m.msgID
    OBVIOUS
  <2>c. shortAcks' = [shortAcks EXCEPT ![r] = @ \cup {new}]
    BY <1>1
  <2> HIDE DEF new
  <2>3. \A q \in Agents : \A a \in shortAcks'[q] :
          a \in shortAcks[q] \/ [from |-> q, msgID |-> a.msgID] \in noted'[a.from]
    <3> SUFFICES ASSUME NEW q \in Agents, NEW a \in shortAcks'[q], a \notin shortAcks[q]
                 PROVE  [from |-> q, msgID |-> a.msgID] \in noted'[a.from]
      OBVIOUS
    <3>1. q = r /\ a = new
      BY <2>a, <2>c
    <3>2. QED BY <2>2, <2>b, <3>1
  <2>4. QED BY <1>3, <2>3, ShortAcksStayTrue
<1>9. QED BY <1>3, <1>5, <1>6, <1>7, <1>8 DEF SafetyInv

LEMMA AgentEngangementSafe ==
  ASSUME SafetyInv, TypeInv', NEW r \in Agents, NEW q \in Agents, agentEngangement(r, q)
  PROVE  SafetyInv' /\ Grows
<1>1. KeepVariable /\ UNCHANGED <<clock, jobs, shortAcks, net>>
  BY DEF agentEngangement
<1>2. \A p \in Agents : clock[p] <= clock'[p]
  BY <1>1 DEF SafetyInv, TypeInv, TypeOK
<1>3. Grows
  BY <1>1, <1>2, KeptPastGrows
<1>a. PacketsFrom(r, {})
  BY <1>1 DEF PacketsFrom
<1>4. TrueNet'
  BY <1>3, <1>a, NetStaysTrue
<1>5. TrueJobs' /\ TrueShortAcks'
  BY <1>1, <1>3, JobsStayTrue, ShortAcksStayTrue DEF TrueJobsBecome
<1>6. TrueVariables'
  BY <1>1, <1>3, KeptVariable DEF KeepVariable
<1>7. QED BY <1>3, <1>4, <1>5, <1>6 DEF SafetyInv

LEMMA JobBecomesTrue ==
  ASSUME NEW r \in Agents, NEW j \in Job, JobsBecome(r, j), TrueJob(r, j)'
  PROVE  TrueJobsBecome(r) /\ \A q \in Agents \ {r} : jobs'[q] = jobs[q]
BY Zenon DEF JobsBecome, TrueJobsBecome

\* The command a user's call enqueues, for a believe the robot holds by then.
LEMMA NewCommandJobSafe ==
  ASSUME SafetyInv, TypeInv', NEW r \in Agents, NEW b \in Valued, b.strat \in UsedStrategies,
         b.val \in held'[r], \A q \in Agents : held[q] \subseteq held'[q],
         UNCHANGED <<proposals, noted, shortAcks>>, NewCommandJob(r, b)
  PROVE  /\ Grows /\ TrueNet' /\ TrueJobs' /\ TrueShortAcks'
         /\ clock'[r] >= clock[r]
<1> DEFINE sends == b.strat > NoDistribution
           retrys == IF sends THEN FullRetrys(activeRobots[r], CommandRetrys) ELSE NoRetrys
<1>a. PICK L \in Nat : L = clock[r]
  BY DEF SafetyInv, TypeInv, TypeOK
<1>b. PICK m : m = CaceCommand(r, Broadcast, MsgID(r), b.val, b.strat, b.dec, L + 1)
  OBVIOUS
<1>c. PICK j : j = CommandJob(MsgID(r), b.val, activeRobots[r], L, retrys)
  OBVIOUS
<1>d. MsgID(r) \in Nat
  BY MsgIDType DEF SafetyInv
<1>1. L + 1 \in Nat /\ activeRobots[r] \in SUBSET Agents /\ clock \in [Agents -> Nat]
  BY DEF SafetyInv, TypeInv, TypeOK
<1>2. /\ clock' = [clock EXCEPT ![r] = IF sends THEN L + 1 ELSE L]
      /\ (sends /\ net' = Multicast(net, r, {m})) \/ (~sends /\ net' = net)
      /\ appendJob(r, j)
  BY <1>a, <1>b, <1>c DEF NewCommandJob
<1>3. \A q \in Agents : clock[q] <= clock'[q]
  BY <1>1, <1>2, <1>a
<1>4. clock'[r] >= L /\ (sends => clock'[r] = L + 1)
  BY <1>1, <1>2
<1>5. Grows
  BY <1>3 DEF Grows, ProposalsGrow, Renewed
<1>6. b.val \in AnyValue /\ b.strat \in Strategies /\ b.dec \in Nat
  BY DEF Valued, Believe
<1>7. m \in Message /\ m.from = r /\ m.kind = "Command" /\ m.val = b.val /\ m.level = b.strat
      /\ m.stamp = L + 1
  BY <1>1, <1>6, <1>b, <1>d, NewMessages DEF CaceCommand
<1>8. j \in Job /\ j.kind = "CommandJob" /\ j.stamp = L /\ j.val = b.val
      /\ j.expected = activeRobots[r] /\ j.retrys = retrys
  BY <1>1, <1>6, <1>c, <1>d, NewRetrys, NewJobs DEF CommandJob
<1>9. DOMAIN retrys \ activeRobots[r] = {}
  BY DEF FullRetrys, NoRetrys
<1> HIDE DEF retrys
<1>10. sends => TruePacket(m)'
  BY <1>1, <1>4, <1>7 DEF TruePacket
<1>11. TrueNet'
  <2>1. CASE sends
    <3>a. net \in [Agents -> SUBSET Message] /\ {m} \in SUBSET Message /\ net' = Multicast(net, r, {m})
      BY <1>2, <1>7, <2>1 DEF SafetyInv, TypeInv, TypeOK
    <3>1. PacketsFrom(r, {m})
      BY <3>a, MulticastPackets DEF PacketsFrom
    <3>2. QED BY <1>5, <1>7, <1>10, <2>1, <3>1, NetStaysTrue
  <2>2. CASE ~sends
    <3>1. PacketsFrom(r, {})
      BY <1>2, <2>2 DEF PacketsFrom
    <3>2. QED BY <1>5, <3>1, NetStaysTrue
  <2>3. QED BY <2>1, <2>2
<1>12. TrueJob(r, j)'
  BY <1>4, <1>8, <1>9 DEF TrueJob
<1>13. JobsBecome(r, j)
  BY <1>2, <1>8, AppendedJob DEF SafetyInv, TypeInv, TypeOK
<1>14. TrueJobs'
  BY <1>5, <1>8, <1>12, <1>13, JobBecomesTrue, JobsStayTrue
<1>15. TrueShortAcks'
  BY <1>5, ShortAcksStayTrue
<1>16. QED BY <1>4, <1>5, <1>11, <1>14, <1>15, <1>a

LEMMA DistributeValueSafe ==
  ASSUME SafetyInv, TypeInv', NEW r \in Agents, NEW v \in Values, NEW s \in Levels,
         NEW t \in DecissionTimes, distributeValue(r, v, s, t)
  PROVE  SafetyInv' /\ Grows
<1> DEFINE b == [id |-> r, val |-> v, age |-> clock[r], strat |-> s, dec |-> t]
<1>1. /\ own' = [own EXCEPT ![r] = b] /\ held' = [held EXCEPT ![r] = @ \cup {v}]
      /\ NewCommandJob(r, b) /\ UNCHANGED <<proposals, noted, shortAcks>>
  BY DEF distributeValue
<1>2. b \in Valued /\ b.age = clock[r] /\ b.val = v /\ b.val # NoValue /\ b.strat = s
  BY DEF SafetyInv, TypeInv, TypeOK, Valued, Believe, AnyValue
<1> HIDE DEF b
<1>3. v \in held'[r] /\ own'[r] = b /\ (\A q \in Agents : held[q] \subseteq held'[q])
      /\ \A q \in Agents \ {r} : own'[q] = own[q] /\ proposals'[q] = proposals[q]
  BY <1>1 DEF SafetyInv, TypeInv, TypeOK
<1>4. b.strat \in UsedStrategies
  BY <1>2, StrategiesUsed
<1>5. Grows /\ TrueNet' /\ TrueJobs' /\ TrueShortAcks' /\ clock'[r] >= clock[r]
  BY <1>1, <1>2, <1>3, <1>4, NewCommandJobSafe
<1>6. \A k \in DOMAIN proposals[r] : TrueProposal(r, proposals[r][k])'
  <2> SUFFICES ASSUME NEW k \in DOMAIN proposals[r], NEW p, p = proposals[r][k]
               PROVE  TrueProposal(r, p)'
    BY <1>1 DEF TrueProposal
  <2>1. p \in Believe(Agents) /\ TrueProposal(r, p)
    BY ListedProposal DEF SafetyInv, TrueVariables, TrueVariable
  <2>2. QED BY <1>5, <2>1, ProposalStaysTrue DEF SafetyInv
<1>7. TrueVariable(r)'
  <2>1. own'[r].age <= clock'[r]
    BY <1>2, <1>3, <1>5 DEF SafetyInv, TypeInv, TypeOK
  <2>2. \A k, l \in DOMAIN proposals[r] : proposals[r][k].id = proposals[r][l].id => k = l
    BY DEF SafetyInv, TrueVariables, TrueVariable
  <2>3. QED BY <1>1, <1>2, <1>3, <1>4, <1>6, <2>1, <2>2
           DEF TrueVariable, TrueProposal, existsVariable
<1>8. TrueVariables'
  BY <1>3, <1>5, <1>7, VariablesStayTrue
<1>9. QED BY <1>5, <1>8 DEF SafetyInv

LEMMA DistributeVariableSafe ==
  ASSUME SafetyInv, TypeInv', NEW r \in Agents, distributeVariable(r)
  PROVE  SafetyInv' /\ Grows
<1>1. existsVariable(r) /\ NewCommandJob(r, own[r]) /\ KeepVariable /\ UNCHANGED shortAcks
  BY DEF distributeVariable
<1>2. own[r] \in Valued
  BY <1>1 DEF existsVariable, SafetyInv, TypeInv, TypeOK, Valued
<1>3. own[r].strat \in UsedStrategies /\ own[r].val \in held'[r]
  BY <1>1 DEF SafetyInv, TrueVariables, TrueVariable, KeepVariable
<1>4. Grows /\ TrueNet' /\ TrueJobs' /\ TrueShortAcks'
  BY <1>1, <1>2, <1>3, NewCommandJobSafe DEF KeepVariable
<1>5. TrueVariables'
  BY <1>1, <1>4, KeptVariable DEF KeepVariable
<1>6. QED BY <1>4, <1>5 DEF SafetyInv

LEMMA HandleCaceCommandSafe ==
  ASSUME SafetyInv, TypeInv', NEW r \in Agents, NEW m \in net[r], handleCaceCommand(r, m)
  PROVE  SafetyInv' /\ Grows
<1> DEFINE acks == m.level > FireAndForget
           retrys == IF acks THEN FullRetrys(activeRobots[r], AckRetrys) ELSE NoRetrys
<1>1. m \in Message /\ m.from # r /\ TruePacket(m) /\ m.stamp \in Nat /\ m.msgID \in Nat
  BY PacketRead, MessageFields
<1>a. PICK c : c = Seen(clock[r], m.stamp)
  OBVIOUS
<1>2. /\ m.kind = "Command" /\ clock' = [clock EXCEPT ![r] = c] /\ UNCHANGED shortAcks
  BY <1>a DEF handleCaceCommand
<1>3. m.stamp <= clock'[r] /\ \A q \in Agents : clock[q] <= clock'[q]
  BY <1>1, <1>2, <1>a, ClockSees DEF SafetyInv
<1>4. c \in Nat /\ clock'[r] = c
  BY <1>1, <1>2, <1>a, SeenBounds DEF SafetyInv, TypeInv, TypeOK
<1>5. activeRobots[r] \in SUBSET Agents /\ retrys \in Retrys(AckRetrys)
      /\ NoRetrys \in Retrys(AckRetrys) /\ DOMAIN NoRetrys = {}
      /\ DOMAIN retrys \ activeRobots[r] = {}
  BY NewRetrys DEF SafetyInv, TypeInv, TypeOK, NoRetrys, FullRetrys
<1> HIDE DEF retrys
\* The job of this command, once the variable is as it should be.
<1>6. ASSUME Grows, NEW j, NEW rs \in Retrys(AckRetrys), NEW started \in BOOLEAN,
             j = CommandAcknowledgeJob(m, activeRobots[r], c, rs, started),
             DOMAIN rs \ activeRobots[r] = {}, appendJob(r, j)
      PROVE  TrueJobs'
  <2>1. j \in Job
    BY <1>1, <1>2, <1>4, <1>5, <1>6, NewJobs
  <2>2. j.kind = "CommandAcknowledgeJob" /\ j.stamp = c /\ j.cmd = m
        /\ DOMAIN j.retrys \ j.expected = {}
    BY <1>6 DEF CommandAcknowledgeJob
  <2>3. TruePacket(m)'
    BY <1>1, <1>6, PacketStaysTrue DEF SafetyInv
  <2>4. Taken(r, m)'
    BY <1>1, <1>3, <2>3 DEF Taken
  <2>5. TrueJob(r, j)'
    BY <1>4, <2>2, <2>4 DEF TrueJob
  <2>6. JobsBecome(r, j)
    BY <1>6, <2>1, AppendedJob DEF SafetyInv, TypeInv, TypeOK
  <2>7. QED BY <1>6, <2>1, <2>5, <2>6, JobBecomesTrue, JobsStayTrue
<1>7. CASE r \in SafeStepRobots
  <2>1. /\ Receive(r, m, {}) /\ KeepVariable
        /\ appendJob(r, CommandAcknowledgeJob(m, activeRobots[r], c, NoRetrys, FALSE))
    BY <1>7, <1>a DEF handleCaceCommand
  <2>2. Grows
    BY <1>3, <2>1, KeptPastGrows
  <2>3. TrueJobs'
    BY <1>5, <1>6, <2>1, <2>2
  <2>4. PacketsFrom(r, {})
    BY <2>1, ReceivedPackets DEF SafetyInv, TypeInv, TypeOK
  <2>5. TrueNet' /\ TrueShortAcks'
    BY <1>2, <2>2, <2>4, NetStaysTrue, ShortAcksStayTrue
  <2>6. TrueVariables'
    BY <2>1, <2>2, KeptVariable DEF KeepVariable
  <2>7. QED BY <2>2, <2>3, <2>5, <2>6 DEF SafetyInv
<1>8. CASE r \notin SafeStepRobots
  <2>a. PICK a : a = CaceAcknowledge(r, Broadcast, m.msgID, own'[r].val, c)
    OBVIOUS
  <2>1. /\ UpdateByCommand(r, m) /\ Receive(r, m, IF acks THEN {a} ELSE {})
        /\ appendJob(r, CommandAcknowledgeJob(m, activeRobots[r], c, retrys, TRUE))
    BY <1>8, <1>a, <2>a DEF handleCaceCommand, retrys
  <2>2. Grows /\ TrueVariable(r)'
    BY <1>1, <1>2, <1>3, <2>1, CommandUpdateStaysTrue
  <2>3. VariableUpdated(r)
    BY <1>1, <1>2, <2>1, UpdatedByCommand DEF SafetyInv
  <2>4. own'[r].val \in AnyValue /\ own'[r].val \in held'[r]
    BY <2>2, <2>3 DEF VariableUpdated, Valued, Believe, TrueVariable, existsVariable
  <2>5. a \in Message /\ a.from = r /\ a.kind = "Acknowledge" /\ a.stamp = c /\ a.val = own'[r].val
    BY <1>1, <1>4, <2>4, <2>a DEF CaceAcknowledge, Message
  <2>6. TruePacket(a)'
    BY <1>4, <2>4, <2>5 DEF TruePacket
  <2>7. PICK packets : packets = IF acks THEN {a} ELSE {}
    OBVIOUS
  <2>8. packets \in SUBSET Message /\ \A p \in packets : p.from = r /\ TruePacket(p)'
    <3>1. \A p \in packets : p = a
      BY <2>7
    <3>2. QED BY <2>5, <2>6, <3>1 DEF TruePacket
  <2>9. PacketsFrom(r, packets)
    BY <2>1, <2>7, <2>8, ReceivedPackets DEF SafetyInv, TypeInv, TypeOK
  <2>10. TrueNet' /\ TrueShortAcks'
    BY <1>2, <2>2, <2>8, <2>9, NetStaysTrue, ShortAcksStayTrue
  <2>11. TrueJobs'
    BY <1>5, <1>6, <2>1, <2>2
  <2>12. TrueVariables'
    BY <2>2, <2>3, VariablesStayTrue DEF VariableUpdated
  <2>13. QED BY <2>2, <2>10, <2>11, <2>12 DEF SafetyInv
<1>9. QED BY <1>7, <1>8

\* The short ack that answers acknowledge m, noted by robot r.
LEMMA TrueShortAck ==
  ASSUME TypeInv', NEW r \in Agents, NEW m \in Message, NEW stamp \in Nat, stamp <= clock'[r],
         [from |-> m.from, msgID |-> m.msgID] \in noted'[r],
         NEW p, p = CaceShortAck(r, m.from, m.msgID, stamp)
  PROVE  p \in Message /\ p.from = r /\ TruePacket(p)'
<1>1. m.from \in Agents /\ m.msgID \in Nat
  BY MessageFields
<1>2. p \in Message /\ p.from = r /\ p.kind = "ShortAck" /\ p.to = m.from /\ p.msgID = m.msgID
      /\ p.stamp = stamp
  BY <1>1 DEF CaceShortAck, Message
<1>3. QED BY <1>1, <1>2 DEF TruePacket

LEMMA HandleCaceAcknowledgeSafe ==
  ASSUME SafetyInv, TypeInv', NEW r \in Agents, NEW m \in net[r], handleCaceAcknowledge(r, m)
  PROVE  SafetyInv' /\ Grows
<1>1. m \in Message /\ m.from # r /\ TruePacket(m) /\ m.stamp \in Nat
  BY PacketRead, MessageFields
<1>2. m.kind = "Acknowledge" /\ UNCHANGED shortAcks
  BY DEF handleCaceAcknowledge
<1>a. PICK c : c = Seen(clock[r], m.stamp)
  OBVIOUS
<1>3. c \in Nat /\ clock[r] \in Nat /\ c >= clock[r] /\ m.stamp <= c
  BY <1>1, <1>a, SeenBounds DEF SafetyInv, TypeInv, TypeOK
<1>4. CASE r \in SafeStepRobots
  <2>1. /\ Receive(r, m, {}) /\ KeepVariable /\ appendJob(r, ShortAckJob(m))
        /\ clock' = [clock EXCEPT ![r] = c]
    BY <1>4, <1>a DEF handleCaceAcknowledge
  <2>2. clock'[r] = c /\ \A q \in Agents : clock[q] <= clock'[q]
    BY <1>3, <2>1, ClockMoves DEF SafetyInv
  <2>3. Grows
    BY <2>1, <2>2, KeptPastGrows
  <2>4. PICK j : j = ShortAckJob(m)
    OBVIOUS
  <2>5. j \in Job /\ j.kind = "ShortAckJob" /\ j.ack = m
    BY <1>1, <1>2, <2>4, NewJobs DEF ShortAckJob
  <2>6. TrueJob(r, j)'
    <3>1. TruePacket(m)'
      BY <1>1, <2>3, PacketStaysTrue DEF SafetyInv
    <3>2. QED BY <1>1, <1>3, <2>2, <2>5, <3>1 DEF TrueJob, Taken
  <2>7. JobsBecome(r, j)
    BY <2>1, <2>4, <2>5, AppendedJob DEF SafetyInv, TypeInv, TypeOK
  <2>8. TrueJobs'
    BY <2>3, <2>5, <2>6, <2>7, JobBecomesTrue, JobsStayTrue
  <2>9. PacketsFrom(r, {})
    BY <2>1, ReceivedPackets DEF SafetyInv, TypeInv, TypeOK
  <2>10. TrueNet' /\ TrueShortAcks'
    BY <1>2, <2>3, <2>9, NetStaysTrue, ShortAcksStayTrue
  <2>11. TrueVariables'
    BY <2>1, <2>3, KeptVariable DEF KeepVariable
  <2>12. QED BY <2>3, <2>8, <2>10, <2>11 DEF SafetyInv
<1>5. CASE r \notin SafeStepRobots
  <2>a. PICK p : p = CaceShortAck(r, m.from, m.msgID, c + 1)
    OBVIOUS
  <2>1. /\ UpdateByAck(r, m) /\ UNCHANGED jobs
        /\ \/ clock' = [clock EXCEPT ![r] = c + 1] /\ Receive(r, m, {p})
           \/ clock' = [clock EXCEPT ![r] = c] /\ Receive(r, m, {})
    BY <1>5, <1>a, <2>a DEF handleCaceAcknowledge
  <2>2. c + 1 \in Nat /\ c + 1 >= clock[r] /\ m.stamp <= c + 1
    BY <1>1, <1>3
  <2>3. m.stamp <= clock'[r] /\ \A q \in Agents : clock[q] <= clock'[q]
    BY <1>3, <2>1, <2>2, ClockMoves DEF SafetyInv
  <2>4. Grows /\ TrueVariable(r)' /\ [from |-> m.from, msgID |-> m.msgID] \in noted'[r]
    BY <1>1, <1>2, <2>1, <2>3, AckUpdateStaysTrue
  <2>5. TrueNet'
    <3>1. CASE clock' = [clock EXCEPT ![r] = c + 1] /\ Receive(r, m, {p})
      <4>1. clock'[r] = c + 1
        BY <2>2, <3>1, ClockMoves DEF SafetyInv
      <4>2. p \in Message /\ p.from = r /\ TruePacket(p)'
        BY <1>1, <2>2, <2>4, <2>a, <4>1, TrueShortAck
      <4>3. PacketsFrom(r, {p})
        BY <3>1, <4>2, ReceivedPackets DEF SafetyInv, TypeInv, TypeOK
      <4>4. \A x \in {p} : x.from = r /\ TruePacket(x)'
        BY <4>2 DEF TruePacket
      <4>5. QED BY <2>4, <4>3, <4>4, NetStaysTrue
    <3>2. CASE Receive(r, m, {})
      <4>1. PacketsFrom(r, {})
        BY <3>2, ReceivedPackets DEF SafetyInv, TypeInv, TypeOK
      <4>2. QED BY <2>4, <4>1, NetStaysTrue
    <3>3. QED BY <2>1, <3>1, <3>2
  <2>6. TrueShortAcks' /\ TrueJobs'
    BY <1>2, <2>1, <2>4, JobsStayTrue, ShortAcksStayTrue DEF TrueJobsBecome
  <2>7. VariableUpdated(r)
    BY <1>1, <1>2, <2>1, UpdatedByAck DEF SafetyInv
  <2>8. TrueVariables'
    BY <2>4, <2>7, VariablesStayTrue DEF VariableUpdated
  <2>9. QED BY <2>4, <2>5, <2>6, <2>8 DEF SafetyInv
<1>6. QED BY <1>4, <1>5

\* Erasing a job leaves old jobs only.
LEMMA ErasedJobSafe ==
  ASSUME SafetyInv, TypeInv', Grows, NEW r \in Agents, NEW i \in DOMAIN jobs[r], eraseJob(r, i)
  PROVE  TrueJobs'
<1>1. jobs \in [Agents -> Seq(Job)]
  BY DEF SafetyInv, TypeInv, TypeOK
<1>2. TrueJobsBecome(r) /\ \A q \in Agents \ {r} : jobs'[q] = jobs[q]
  BY <1>1, ErasedJob DEF TrueJobsBecome
<1>3. QED BY <1>2, JobsStayTrue

LEMMA ReplacedJobSafe ==
  ASSUME SafetyInv, TypeInv', Grows, NEW r \in Agents, NEW i \in DOMAIN jobs[r], NEW j \in Job,
         replaceJob(r, i, j), TrueJob(r, j)'
  PROVE  TrueJobs'
<1>1. JobsBecome(r, j)
  BY ReplacedJob DEF SafetyInv, TypeInv, TypeOK
<1>2. QED BY <1>1, JobBecomesTrue, JobsStayTrue

\* Packets a job sends again.
LEMMA ResentPacketsSafe ==
  ASSUME SafetyInv, TypeInv', Grows, NEW r \in Agents, NEW late, NEW packets \in SUBSET Message,
         resend(r, late, packets), \A m \in packets : m.from = r /\ TruePacket(m)'
  PROVE  TrueNet'
<1>1. net' = Multicast(net, r, packets) /\ net \in [Agents -> SUBSET Message]
  BY DEF resend, SafetyInv, TypeInv, TypeOK
<1>2. PacketsFrom(r, packets)
  BY <1>1, MulticastPackets DEF PacketsFrom
<1>3. QED BY <1>2, NetStaysTrue

LEMMA ProcessCommandJobSafe ==
  ASSUME SafetyInv, TypeInv', NEW r \in Agents, NEW i \in DOMAIN jobs[r], processCommandJob(r, i)
  PROVE  SafetyInv' /\ Grows
<1>a. PICK o : o = jobs[r][i]
  OBVIOUS
<1>b. PICK j : j = [o EXCEPT !.expected = Unanswered(r, o)]
  OBVIOUS
<1>1. /\ o.kind = "CommandJob" /\ KeepVariable /\ UNCHANGED <<clock, shortAcks>>
      /\ \/ eraseJob(r, i) /\ UNCHANGED net
         \/ \E late \in SUBSET Retryable(j) :
              /\ resend(r, late, {CaceCommand(r, q, j.msgID, j.val, own[r].strat, own[r].dec,
                                              j.stamp) : q \in late})
              /\ replaceJob(r, i, Resent(j, late))
  BY <1>a, <1>b DEF processCommandJob
<1>2. o \in Job /\ TrueJob(r, o)
  BY <1>a, ListedJob DEF SafetyInv, TrueJobs
<1>3. Grows
  <2>1. \A q \in Agents : clock[q] <= clock'[q]
    BY <1>1 DEF SafetyInv, TypeInv, TypeOK
  <2>2. QED BY <1>1, <2>1, KeptPastGrows
<1>4. TrueShortAcks' /\ TrueVariables'
  BY <1>1, <1>3, ShortAcksStayTrue, KeptVariable DEF KeepVariable
<1>5. CASE eraseJob(r, i) /\ UNCHANGED net
  <2>1. TrueJobs'
    BY <1>3, <1>5, ErasedJobSafe
  <2>2. PacketsFrom(r, {})
    BY <1>5 DEF PacketsFrom
  <2>3. TrueNet'
    BY <1>3, <2>2, NetStaysTrue
  <2>4. QED BY <1>3, <1>4, <2>1, <2>3 DEF SafetyInv
<1>6. ASSUME NEW late \in SUBSET Retryable(j),
             resend(r, late, {CaceCommand(r, q, j.msgID, j.val, own[r].strat, own[r].dec,
                                          j.stamp) : q \in late}),
             replaceJob(r, i, Resent(j, late))
      PROVE  SafetyInv'
  <2>1. Unanswered(r, o) \in SUBSET Agents
    BY <1>1, <1>2, JobFields DEF Unanswered
  <2>2. /\ j \in Job /\ j.kind = "CommandJob" /\ j.val = o.val /\ j.stamp = o.stamp
        /\ j.expected = Unanswered(r, o) /\ j.retrys = o.retrys
    BY <1>1, <1>2, <1>b, <2>1, ChangedCommandJob
  <2>3. PICK k : k = Resent(j, late)
    OBVIOUS
  <2>4. /\ late \in SUBSET Agents /\ k \in Job /\ k.kind = "CommandJob" /\ k.val = o.val
        /\ k.stamp = o.stamp /\ k.expected = Unanswered(r, o) /\ DOMAIN k.retrys = DOMAIN o.retrys
    BY <2>2, <2>3, ResentJob
  <2>5. /\ o.stamp <= clock[r] /\ o.val \in held[r]
        /\ \A q \in DOMAIN o.retrys \ o.expected :
             \E l \in DOMAIN proposals[r] :
               proposals[r][l].id = q /\ proposals[r][l].age >= o.stamp
    BY <1>1, <1>2 DEF TrueJob
  <2>6. TrueJob(r, k)
    <3>1. \A q \in o.expected \ k.expected :
            \E l \in DOMAIN proposals[r] :
              proposals[r][l].id = q /\ proposals[r][l].age >= o.stamp
      BY <2>4 DEF Unanswered
    <3>2. QED BY <2>4, <2>5, <3>1 DEF TrueJob
  <2>7. TrueJobs'
    BY <1>3, <1>6, <2>3, <2>4, <2>6, JobStaysTrue, ReplacedJobSafe DEF SafetyInv
  <2>8. own[r].strat \in UsedStrategies /\ own[r].strat \in Strategies /\ own[r].dec \in Nat
    BY DEF SafetyInv, TypeInv, TypeOK, Believe, TrueVariables, TrueVariable
  <2>9. PICK packets : packets = {CaceCommand(r, q, j.msgID, j.val, own[r].strat, own[r].dec,
                                              j.stamp) : q \in late}
    OBVIOUS
  <2>10. ASSUME NEW m \in packets PROVE m \in Message /\ m.from = r /\ TruePacket(m)'
    <3>1. PICK q \in late : m = CaceCommand(r, q, j.msgID, j.val, own[r].strat, own[r].dec, j.stamp)
      BY <2>9
    <3>2. j.msgID \in Nat /\ j.val \in AnyValue /\ j.stamp \in Nat /\ q \in Agents
      BY <2>2, <2>4, JobFields
    <3>3. m \in Message /\ m.from = r /\ m.kind = "Command" /\ m.stamp = o.stamp /\ m.val = o.val
          /\ m.level = own[r].strat
      BY <2>2, <2>8, <3>1, <3>2 DEF CaceCommand, Message
    <3>4. TruePacket(m)
      BY <2>5, <2>8, <3>3 DEF TruePacket
    <3>5. QED BY <1>3, <3>3, <3>4, PacketStaysTrue DEF SafetyInv
  <2>11. \A m \in packets : m.from = r /\ TruePacket(m)'
    BY <2>10 DEF TruePacket
  <2>12. TrueNet'
    BY <1>3, <1>6, <2>9, <2>10, <2>11, ResentPacketsSafe
  <2>13. QED BY <1>4, <2>7, <2>12 DEF SafetyInv
<1>7. QED BY <1>1, <1>3, <1>5, <1>6

\* The robots of a CommandAcknowledgeJob that have sent a short ack have noted it.
LEMMA AnsweredHaveNoted ==
  ASSUME SafetyInv, NEW r \in Agents, NEW id, NEW q \in Answered(r, id)
  PROVE  q \in Agents /\ [from |-> r, msgID |-> id] \in noted[q]
<1>1. PICK a \in shortAcks[r] : a.msgID = id /\ q = a.from
  BY DEF Answered
<1>2. a.from \in Agents
  BY DEF SafetyInv, TypeInv, TypeOK, Receipt
<1>3. QED BY <1>1, <1>2 DEF SafetyInv, TrueShortAcks

\* Taking short acks out of the list.
LEMMA TakenShortAcks ==
  ASSUME SafetyInv, TypeInv', Grows, NEW r \in Agents, NEW id, TakeShortAcks(r, id)
  PROVE  TrueShortAcks'
<1>1. \A q \in Agents : shortAcks'[q] \subseteq shortAcks[q]
  BY DEF TakeShortAcks, SafetyInv, TypeInv, TypeOK
<1>2. QED BY <1>1, ShortAcksStayTrue

LEMMA ProcessCommandAcknowledgeJobSafe ==
  ASSUME SafetyInv, TypeInv', NEW r \in Agents, NEW i \in DOMAIN jobs[r],
         processCommandAcknowledgeJob(r, i)
  PROVE  SafetyInv' /\ Grows
<1>a. PICK o : o = jobs[r][i]
  OBVIOUS
<1>b. PICK id : id = o.cmd.msgID
  OBVIOUS
<1>c. PICK j : j = [o EXCEPT !.expected = @ \ Answered(r, id)]
  OBVIOUS
<1>1. /\ o.kind = "CommandAcknowledgeJob" /\ o.started /\ TakeShortAcks(r, id) /\ KeepVariable
      /\ UNCHANGED clock
  BY <1>a, <1>b DEF processCommandAcknowledgeJob
<1>2. PICK late \in SUBSET Retryable(j) :
        /\ resend(r, late, {CaceAcknowledge(r, q, id, own[r].val, j.stamp) : q \in late})
        /\ eraseJob(r, i) \/ replaceJob(r, i, Resent(j, late))
  BY <1>a, <1>b, <1>c DEF processCommandAcknowledgeJob
<1>3. o \in Job /\ TrueJob(r, o)
  BY <1>a, ListedJob DEF SafetyInv, TrueJobs
<1>4. Grows
  <2>1. \A q \in Agents : clock[q] <= clock'[q]
    BY <1>1 DEF SafetyInv, TypeInv, TypeOK
  <2>2. QED BY <1>1, <2>1, KeptPastGrows
<1>5. TrueVariables' /\ TrueShortAcks'
  BY <1>1, <1>4, TakenShortAcks, KeptVariable DEF KeepVariable
<1>6. /\ j \in Job /\ j.kind = o.kind /\ j.cmd = o.cmd /\ j.stamp = o.stamp
      /\ j.expected = o.expected \ Answered(r, id) /\ j.retrys = o.retrys
  <2>1. o.expected \ Answered(r, id) \in SUBSET Agents
    BY <1>1, <1>3, JobFields
  <2>2. PICK robots \in SUBSET Agents : robots = o.expected \ Answered(r, id)
    BY <2>1
  <2>3. j = [o EXCEPT !.expected = robots]
    BY <1>c, <2>2
  <2>4. QED BY <1>1, <1>3, <2>2, <2>3, ChangedCommandAcknowledgeJob
<1>7. PICK k : k = Resent(j, late)
  OBVIOUS
<1>8. /\ late \in SUBSET Agents /\ k \in Job /\ k.kind = o.kind /\ k.cmd = o.cmd
      /\ k.stamp = o.stamp /\ k.expected = o.expected \ Answered(r, id)
      /\ DOMAIN k.retrys = DOMAIN o.retrys
  BY <1>1, <1>6, <1>7, ResentJob
<1>9. o.stamp <= clock[r] /\ Taken(r, o.cmd)
      /\ \A q \in DOMAIN o.retrys \ o.expected : [from |-> r, msgID |-> id] \in noted[q]
  BY <1>1, <1>3, <1>b DEF TrueJob
<1>10. TrueJob(r, k)
  <2>1. \A q \in DOMAIN k.retrys \ k.expected : [from |-> r, msgID |-> id] \in noted[q]
    BY <1>8, <1>9, AnsweredHaveNoted
  <2>2. QED BY <1>1, <1>8, <1>9, <1>b, <2>1 DEF TrueJob
<1>11. TrueJobs'
  <2>1. TrueJob(r, k)'
    BY <1>4, <1>8, <1>10, JobStaysTrue DEF SafetyInv
  <2>2. QED BY <1>2, <1>4, <1>7, <1>8, <2>1, ErasedJobSafe, ReplacedJobSafe
<1>12. PICK packets : packets = {CaceAcknowledge(r, q, id, own[r].val, j.stamp) : q \in late}
  OBVIOUS
<1>13. existsVariable(r) /\ own[r].val \in AnyValue /\ own[r].val \in held[r]
  BY <1>1, <1>a DEF SafetyInv, TypeInv, TypeOK, HasValues, existsVariable, Believe,
                    TrueVariables, TrueVariable
<1>14. ASSUME NEW m \in packets PROVE m \in Message /\ m.from = r /\ TruePacket(m)'
  <2>1. PICK q \in late : m = CaceAcknowledge(r, q, id, own[r].val, j.stamp)
    BY <1>12
  <2>2. id \in Nat /\ j.stamp \in Nat /\ q \in Agents
    BY <1>1, <1>3, <1>6, <1>8, <1>b, JobFields, MessageFields
  <2>3. m \in Message /\ m.from = r /\ m.kind = "Acknowledge" /\ m.stamp = o.stamp
        /\ m.val = own[r].val
    BY <1>6, <1>13, <2>1, <2>2 DEF CaceAcknowledge, Message
  <2>4. TruePacket(m)
    BY <1>9, <1>13, <2>3 DEF TruePacket
  <2>5. QED BY <1>4, <2>3, <2>4, PacketStaysTrue DEF SafetyInv
<1>15. \A m \in packets : m.from = r /\ TruePacket(m)'
  BY <1>14 DEF TruePacket
<1>16. TrueNet'
  BY <1>2, <1>4, <1>12, <1>14, <1>15, ResentPacketsSafe
<1>17. QED BY <1>4, <1>5, <1>11, <1>16 DEF SafetyInv

LEMMA StartCommandAcknowledgeJobSafe ==
  ASSUME SafetyInv, TypeInv', NEW r \in Agents, NEW i \in DOMAIN jobs[r],
         startCommandAcknowledgeJob(r, i)
  PROVE  SafetyInv' /\ Grows
<1>a. PICK o : o = jobs[r][i]
  OBVIOUS
<1>b. PICK m : m = o.cmd
  OBVIOUS
<1> DEFINE acks == m.level > FireAndForget
<1>c. PICK c : c = IF acks THEN clock[r] + 1 ELSE clock[r]
  OBVIOUS
<1>d. PICK robots : robots = o.expected \ Answered(r, m.msgID)
  OBVIOUS
<1>e. PICK retrys : retrys = IF acks THEN FullRetrys(o.expected, AckRetrys) ELSE NoRetrys
  OBVIOUS
<1>f. PICK j : j = [o EXCEPT !.started = TRUE, !.stamp = c, !.expected = robots, !.retrys = retrys]
  OBVIOUS
<1>g. PICK a : a = CaceAcknowledge(r, Broadcast, m.msgID, own'[r].val, c)
  OBVIOUS
<1>1. /\ o.kind = "CommandAcknowledgeJob" /\ UpdateByCommand(r, m)
      /\ clock' = [clock EXCEPT ![r] = c] /\ net' = Multicast(net, r, IF acks THEN {a} ELSE {})
      /\ TakeShortAcks(r, m.msgID) /\ (eraseJob(r, i) \/ replaceJob(r, i, j))
  BY <1>a, <1>b, <1>c, <1>d, <1>e, <1>f, <1>g DEF startCommandAcknowledgeJob
<1>2. o \in Job /\ TrueJob(r, o) /\ m \in Message /\ m.kind = "Command" /\ m.msgID \in Nat
      /\ o.expected \in SUBSET Agents
  BY <1>1, <1>a, <1>b, ListedJob, JobFields, MessageFields DEF SafetyInv, TrueJobs
<1>3. m.from # r /\ TruePacket(m) /\ m.stamp <= clock[r]
  BY <1>1, <1>2, <1>b DEF TrueJob, Taken
<1>4. c \in Nat /\ c >= clock[r] /\ clock[r] \in Nat
  BY <1>c DEF SafetyInv, TypeInv, TypeOK
<1>5. clock'[r] = c /\ (\A q \in Agents : clock[q] <= clock'[q]) /\ m.stamp <= clock'[r]
  <2>1. clock'[r] = c /\ \A q \in Agents : clock[q] <= clock'[q]
    BY <1>1, <1>4, ClockMoves DEF SafetyInv
  <2>2. m.stamp \in Nat
    BY <1>2, MessageFields
  <2>3. QED BY <1>3, <1>4, <2>1, <2>2
<1>6. Grows /\ TrueVariable(r)'
  BY <1>1, <1>2, <1>3, <1>5, CommandUpdateStaysTrue
<1>7. VariableUpdated(r)
  BY <1>1, <1>2, UpdatedByCommand DEF SafetyInv
<1>8. TrueVariables' /\ TrueShortAcks'
  BY <1>1, <1>6, <1>7, VariablesStayTrue, TakenShortAcks DEF VariableUpdated
<1>9. TrueNet'
  <2>1. own'[r].val \in AnyValue /\ own'[r].val \in held'[r]
    BY <1>6, <1>7 DEF VariableUpdated, Valued, Believe, TrueVariable, existsVariable
  <2>2. a \in Message /\ a.from = r /\ a.kind = "Acknowledge" /\ a.stamp = c /\ a.val = own'[r].val
    BY <1>2, <1>4, <1>g, <2>1 DEF CaceAcknowledge, Message
  <2>3. TruePacket(a)'
    BY <1>4, <1>5, <2>1, <2>2 DEF TruePacket
  <2>4. PICK packets : packets = IF acks THEN {a} ELSE {}
    OBVIOUS
  <2>5. packets \in SUBSET Message /\ \A p \in packets : p.from = r /\ TruePacket(p)'
    <3>1. \A p \in packets : p = a
      BY <2>4
    <3>2. QED BY <2>2, <2>3, <3>1 DEF TruePacket
  <2>a. net' = Multicast(net, r, packets) /\ net \in [Agents -> SUBSET Message]
    BY <1>1, <2>4 DEF SafetyInv, TypeInv, TypeOK
  <2>6. PacketsFrom(r, packets)
    BY <2>5, <2>a, MulticastPackets DEF PacketsFrom
  <2>7. QED BY <1>6, <2>5, <2>6, NetStaysTrue
<1>10. robots \in SUBSET Agents /\ retrys \in Retrys(AckRetrys)
       /\ \A q \in DOMAIN retrys : q \in o.expected
  BY <1>2, <1>d, <1>e, NewRetrys DEF FullRetrys, NoRetrys
<1>11. /\ j \in Job /\ j.kind = o.kind /\ j.cmd = m /\ j.stamp = c /\ j.expected = robots
       /\ j.retrys = retrys
  <2>1. /\ j \in Job /\ j.kind = o.kind /\ j.cmd = o.cmd /\ j.expected = robots
        /\ j.stamp = c /\ j.retrys = retrys
    <3>1. robots \in SUBSET Agents /\ retrys \in Retrys(AckRetrys) /\ c \in Nat
      BY <1>4, <1>10
    <3>2. o \in Job /\ o.kind = "CommandAcknowledgeJob"
      BY <1>1, <1>2
    <3>3. LET k == [o EXCEPT !.started = TRUE, !.stamp = c, !.expected = robots, !.retrys = retrys]
          IN  /\ k \in Job /\ k.kind = o.kind /\ k.cmd = o.cmd /\ k.expected = robots
              /\ k.stamp = c /\ k.retrys = retrys /\ k.started = TRUE
      BY <3>1, <3>2, StartedCommandAcknowledgeJob, Zenon
    <3>4. QED BY <1>f, <3>3, Zenon
  <2>2. QED BY <1>b, <2>1
<1>12. TrueJob(r, j)'
  <2>1. Taken(r, m)'
    <3>1. TruePacket(m)'
      BY <1>2, <1>3, <1>6, PacketStaysTrue DEF SafetyInv
    <3>2. QED BY <1>3, <1>5, <3>1 DEF Taken
  <2>2. \A q \in DOMAIN retrys \ robots : [from |-> r, msgID |-> m.msgID] \in noted'[q]
    <3> SUFFICES ASSUME NEW q \in DOMAIN retrys \ robots
                 PROVE  [from |-> r, msgID |-> m.msgID] \in noted'[q]
      OBVIOUS
    <3>1. q \in Answered(r, m.msgID)
      BY <1>10, <1>d
    <3>2. q \in Agents /\ [from |-> r, msgID |-> m.msgID] \in noted[q]
      BY <3>1, AnsweredHaveNoted
    <3>3. QED BY <1>6, <3>2 DEF Grows
  <2>3. QED BY <1>1, <1>4, <1>5, <1>11, <2>1, <2>2 DEF TrueJob
<1>13. TrueJobs'
  BY <1>1, <1>6, <1>11, <1>12, ErasedJobSafe, ReplacedJobSafe
<1>14. QED BY <1>6, <1>8, <1>9, <1>13 DEF SafetyInv

LEMMA ProcessShortAckJobSafe ==
  ASSUME SafetyInv, TypeInv', NEW r \in Agents, NEW i \in DOMAIN jobs[r], processShortAckJob(r, i)
  PROVE  SafetyInv' /\ Grows
<1>a. PICK m : m = jobs[r][i].ack
  OBVIOUS
<1>b. PICK c : c = clock[r] + 1
  OBVIOUS
<1>c. PICK p : p = CaceShortAck(r, m.from, m.msgID, c)
  OBVIOUS
<1>1. /\ jobs[r][i].kind = "ShortAckJob" /\ UpdateByAck(r, m) /\ eraseJob(r, i)
      /\ UNCHANGED shortAcks
      /\ \/ clock' = [clock EXCEPT ![r] = c] /\ net' = Multicast(net, r, {p})
         \/ UNCHANGED <<clock, net>>
  BY <1>a, <1>b, <1>c DEF processShortAckJob
<1>2. m \in Message /\ m.kind = "Acknowledge" /\ Taken(r, m)
  BY <1>1, <1>a, ListedJob, JobFields DEF SafetyInv, TrueJobs, TrueJob
<1>3. m.from # r /\ TruePacket(m) /\ m.stamp <= clock[r] /\ m.stamp \in Nat
  BY <1>2, MessageFields DEF Taken
<1>4. c \in Nat /\ clock[r] \in Nat /\ c >= clock[r]
  BY <1>b DEF SafetyInv, TypeInv, TypeOK
<1>5. (\A q \in Agents : clock[q] <= clock'[q]) /\ m.stamp <= clock'[r]
  <2>1. CASE clock' = [clock EXCEPT ![r] = c]
    <3>1. clock'[r] = c /\ \A q \in Agents : clock[q] <= clock'[q]
      BY <1>4, <2>1, ClockMoves DEF SafetyInv
    <3>2. QED BY <1>3, <1>4, <3>1
  <2>2. CASE UNCHANGED clock
    BY <1>3, <2>2 DEF SafetyInv, TypeInv, TypeOK
  <2>3. QED BY <1>1, <2>1, <2>2
<1>6. Grows /\ TrueVariable(r)' /\ [from |-> m.from, msgID |-> m.msgID] \in noted'[r]
  BY <1>1, <1>2, <1>3, <1>5, AckUpdateStaysTrue
<1>7. VariableUpdated(r)
  BY <1>1, <1>2, UpdatedByAck DEF SafetyInv
<1>8. TrueVariables' /\ TrueShortAcks'
  BY <1>1, <1>6, <1>7, VariablesStayTrue, ShortAcksStayTrue DEF VariableUpdated
<1>9. TrueJobs'
  BY <1>1, <1>6, ErasedJobSafe
<1>10. TrueNet'
  <2>1. CASE clock' = [clock EXCEPT ![r] = c] /\ net' = Multicast(net, r, {p})
    <3>1. clock'[r] = c
      BY <1>4, <2>1, ClockMoves DEF SafetyInv
    <3>2. p \in Message /\ p.from = r /\ TruePacket(p)'
      BY <1>2, <1>4, <1>6, <1>c, <3>1, TrueShortAck
    <3>3. net \in [Agents -> SUBSET Message] /\ {p} \in SUBSET Message
      BY <3>2 DEF SafetyInv, TypeInv, TypeOK
    <3>4. PacketsFrom(r, {p})
      BY <2>1, <3>3, MulticastPackets DEF PacketsFrom
    <3>5. \A x \in {p} : x.from = r /\ TruePacket(x)'
      BY <3>2 DEF TruePacket
    <3>6. QED BY <1>6, <3>4, <3>5, NetStaysTrue
  <2>2. CASE UNCHANGED <<clock, net>>
    <3>1. PacketsFrom(r, {})
      BY <2>2 DEF PacketsFrom
    <3>2. QED BY <1>6, <3>1, NetStaysTrue
  <2>3. QED BY <1>1, <2>1, <2>2
<1>11. QED BY <1>6, <1>8, <1>9, <1>10 DEF SafetyInv

-----------------------------------------------------------------------------
LEMMA SafetyInvInit == Init => SafetyInv
<1> SUFFICES ASSUME Init PROVE SafetyInv
  OBVIOUS
<1>1. TypeInv
  BY TypeInvInit
<1>2. TrueNet /\ TrueJobs /\ TrueShortAcks
  BY DEF Init, TrueNet, TrueJobs, TrueShortAcks
<1>3. TrueVariables
  <2> SUFFICES ASSUME NEW r \in Agents PROVE TrueVariable(r)
    BY DEF TrueVariables
  <2>1. own[r] = Absent(r) /\ proposals[r] = <<>> /\ clock[r] = 1
    BY DEF Init
  <2>2. own[r].val = NoValue /\ own[r].age = 0 /\ own[r].strat = NoDistribution
    BY <2>1 DEF Absent
  <2>3. QED BY <2>1, <2>2, StrategiesUsed DEF TrueVariable, existsVariable
<1>4. QED BY <1>1, <1>2, <1>3 DEF SafetyInv

\* The invariant is inductive, and in every step the past only grows.
LEMMA SafetyInvStep == SafetyInv /\ [Next]_vars => SafetyInv' /\ Grows
<1> SUFFICES ASSUME SafetyInv, [Next]_vars PROVE SafetyInv' /\ Grows
  OBVIOUS
<1>1. TypeInv'
  BY TypeInvStep DEF SafetyInv
<1>2. ASSUME NEW r \in Agents, Call(r) PROVE SafetyInv' /\ Grows
  BY <1>1, <1>2, DistributeValueSafe, DistributeVariableSafe, AgentEngangementSafe DEF Call
<1>3. ASSUME NEW r \in Agents, NEW m \in net[r], Handle(r, m) PROVE SafetyInv' /\ Grows
  BY <1>1, <1>3, OverhearSafe, HandleCaceCommandSafe, HandleCaceAcknowledgeSafe,
     HandleCaceShortAckSafe DEF Handle
<1>4. ASSUME NEW r \in Agents, NEW i \in DOMAIN jobs[r], Process(r, i) PROVE SafetyInv' /\ Grows
  BY <1>1, <1>4, ProcessCommandJobSafe, StartCommandAcknowledgeJobSafe,
     ProcessCommandAcknowledgeJobSafe, ProcessShortAckJobSafe DEF Process
<1>5. CASE UNCHANGED vars
  <2>1. Grows
    BY <1>5 DEF vars, Grows, ProposalsGrow, Renewed, SafetyInv, TypeInv, TypeOK
  <2>2. ASSUME NEW r \in Agents PROVE SafetyInv'
    <3>1. PacketsFrom(r, {}) /\ TrueJobsBecome(r)
      BY <1>5 DEF vars, PacketsFrom, TrueJobsBecome
    <3>2. TrueNet'
      BY <1>1, <2>1, <3>1, NetStaysTrue
    <3>3. TrueJobs' /\ TrueShortAcks' /\ TrueVariables'
      BY <1>1, <1>5, <2>1, <3>1, JobsStayTrue, ShortAcksStayTrue, KeptVariable DEF vars
    <3>4. QED BY <1>1, <3>2, <3>3 DEF SafetyInv
  <2>3. ASSUME Agents = {} PROVE SafetyInv'
    BY <1>1, <2>3 DEF SafetyInv, TrueNet, TrueJobs, TrueVariables, TrueShortAcks
  <2>4. QED BY <2>1, <2>2, <2>3
<1>6. QED BY <1>2, <1>3, <1>4, <1>5 DEF Next

\* The inductive invariant of the protocol: whatever is said of a robot is true of
\* its past.
THEOREM SafetyInvCorrect == Spec => []SafetyInv
BY SafetyInvInit, SafetyInvStep, PTL DEF Spec

-----------------------------------------------------------------------------
(***************************************************************************)
(* The properties.                                                         *)
(***************************************************************************)
LEMMA TrueClocks == SafetyInv => ClockDominates
BY DEF SafetyInv, TrueNet, TruePacket, TrueVariables, TrueVariable, TrueProposal, ClockDominates

\* The clock of a robot has reached every stamp it has recorded, and every stamp of
\* its own that is under way or recorded elsewhere (updateLamportTime).
THEOREM ClocksDominate == Spec => []ClockDominates
BY TrueClocks, SafetyInvCorrect, PTL

\* A robot never records two proposals of one robot, nor one of its own
\* (doVariableUpdate), so isAcknowledged counts robots.
THEOREM ProposalsUnique == Spec => []OneProposalPerRobot
<1>1. SafetyInv => OneProposalPerRobot
  BY DEF SafetyInv, TrueVariables, TrueVariable, TrueProposal, OneProposalPerRobot
<1>2. QED BY <1>1, SafetyInvCorrect, PTL

\* A robot struck from the list of a command job has a proposal not older than the job,
\* as long as the job lives.
THEOREM StruckRobotsAnswered == Spec => []StruckHaveAnswered
<1>1. SafetyInv => StruckHaveAnswered
  BY DEF SafetyInv, TrueJobs, TrueJob, StruckHaveAnswered
<1>2. QED BY <1>1, SafetyInvCorrect, PTL

\* Proposals that are as many as the other robots, one for each, are of all of them.
LEMMA EveryOtherRobotProposed ==
  ASSUME SafetyInv, NEW r \in Agents, Len(proposals[r]) >= Cardinality(Others(r)),
         NEW q \in Others(r)
  PROVE  \E k \in DOMAIN proposals[r] : proposals[r][k].id = q
<1> SUFFICES ASSUME \A k \in DOMAIN proposals[r] : proposals[r][k].id # q
             PROVE  FALSE
  OBVIOUS
<1> DEFINE n == Len(proposals[r])
           S == 1..n
           T == Others(r) \ {q}
           f == [k \in S |-> proposals[r][k].id]
<1>1. n \in Nat /\ DOMAIN proposals[r] = S
  BY LenProperties DEF SafetyInv, TypeInv, TypeOK
<1>2. IsFiniteSet(Others(r)) /\ q \in Others(r)
  BY FS_Subset DEF Others
<1>3. IsFiniteSet(T) /\ Cardinality(T) = Cardinality(Others(r)) - 1
      /\ Cardinality(Others(r)) \in Nat
  BY <1>2, FS_RemoveElement, FS_CardinalityType
<1>4. IsFiniteSet(S) /\ Cardinality(S) = n
  BY <1>1, FS_Interval
<1>5. f \in [S -> T]
  <2>1. ASSUME NEW k \in S PROVE proposals[r][k].id \in T
    <3>1. proposals[r][k].id \in Agents /\ proposals[r][k].id # r
      BY <1>1, ListedProposal
         DEF SafetyInv, Believe, TrueVariables, TrueVariable, TrueProposal
    <3>2. QED BY <1>1, <3>1 DEF Others
  <2>2. QED BY <2>1
<1>6. Cardinality(T) < Cardinality(S)
  BY <1>1, <1>3, <1>4
<1>7. \A x, y \in S : f[x] = f[y] => x = y
  BY <1>1 DEF SafetyInv, TrueVariables, TrueVariable
<1> HIDE DEF f, S, T
<1>8. \E x, y \in S : x # y /\ f[x] = f[y]
  BY <1>3, <1>4, <1>5, <1>6, FS_PigeonHole
<1>9. QED BY <1>7, <1>8

LEMMA TrueAgreement == SafetyInv => AgreedMeansHeld
<1>1. ASSUME SafetyInv, NEW r \in Agents, Agreed(r), activeRobots[r] = Others(r), NEW q \in Others(r)
      PROVE  own[r].val \in held[q]
  <2>1. Len(proposals[r]) >= Cardinality(Others(r))
    BY <1>1 DEF Agreed, isAgreed, isAcknowledged
  <2>2. PICK k \in DOMAIN proposals[r] : proposals[r][k].id = q
    BY <1>1, <2>1, EveryOtherRobotProposed
  <2>3. proposals[r][k].val = own[r].val
    BY <1>1, <2>2 DEF Agreed, isAgreed, checkConflict
  <2>4. proposals[r][k].val \in held[q]
    BY <1>1, <2>2 DEF SafetyInv, TrueVariables, TrueVariable, TrueProposal
  <2>5. QED BY <2>3, <2>4
<1>2. QED BY <1>1 DEF AgreedMeansHeld

\* When isAgreed holds in a team a robot has fully engaged, every other robot has
\* had that value as its own believe.
THEOREM AgreementHeld == Spec => []AgreedMeansHeld
BY TrueAgreement, SafetyInvCorrect, PTL

\* A proposal is replaced only by a later one of the same robot, and never lost.
THEOREM ProposalsRenewed == Spec => ProposalsOnlyRenewed
<1>1. SafetyInv /\ [Next]_vars =>
        [\A r \in Agents : \A k \in DOMAIN proposals[r] :
           /\ k \in DOMAIN proposals'[r]
           /\ \/ proposals'[r][k] = proposals[r][k]
              \/ /\ proposals'[r][k].id = proposals[r][k].id
                 /\ proposals'[r][k].age > proposals[r][k].age]_vars
  BY SafetyInvStep DEF Grows, ProposalsGrow, Renewed
<1>2. QED BY <1>1, SafetyInvCorrect, PTL DEF Spec, ProposalsOnlyRenewed

LEMMA ReplacedLength ==
  ASSUME TypeInv, NEW r \in Agents, NEW i \in DOMAIN jobs[r], NEW j \in Job, replaceJob(r, i, j)
  PROVE  Len(jobs'[r]) = Len(jobs[r])
<1>1. jobs \in [Agents -> Seq(Job)] /\ jobs' = [jobs EXCEPT ![r] = [jobs[r] EXCEPT ![i] = j]]
  BY DEF TypeInv, TypeOK, replaceJob
<1>2. jobs'[r] = [jobs[r] EXCEPT ![i] = j]
  BY <1>1
<1>3. i \in 1..Len(jobs[r])
  BY <1>1, LenProperties
<1>4. QED BY <1>1, <1>2, <1>3, ExceptSeq

\* A command is given up only when every robot has answered or retries are used up.
THEOREM CommandsAnswered == Spec => CommandEndsAnswered
<1>1. ASSUME SafetyInv, NEW r \in Agents, NEW i \in DOMAIN jobs[r], processCommandJob(r, i),
             Len(jobs'[r]) < Len(jobs[r]), own[r].strat > FireAndForget,
             NEW q \in DOMAIN jobs[r][i].retrys
      PROVE  \/ jobs[r][i].retrys[q] = 0
             \/ \E k \in DOMAIN proposals[r] :
                  proposals[r][k].id = q /\ proposals[r][k].age >= jobs[r][i].stamp
  <2>a. PICK o : o = jobs[r][i]
    OBVIOUS
  <2>b. PICK j : j = [o EXCEPT !.expected = Unanswered(r, o)]
    OBVIOUS
  <2>1. /\ o.kind = "CommandJob"
        /\ \/ Retryable(j) = {}
           \/ \E late \in SUBSET Retryable(j) : replaceJob(r, i, Resent(j, late))
    BY <1>1, <2>a, <2>b DEF processCommandJob
  <2>2. o \in Job /\ TrueJob(r, o)
    BY <1>1, <2>a, ListedJob DEF SafetyInv, TrueJobs
  <2>3. o.expected \in SUBSET Agents /\ o.retrys \in Retrys(CommandRetrys)
    BY <2>1, <2>2, JobFields
  <2>4. j \in Job /\ j.kind = "CommandJob" /\ j.expected = Unanswered(r, o) /\ j.retrys = o.retrys
    <3>1. Unanswered(r, o) \in SUBSET Agents
      BY <2>3 DEF Unanswered
    <3>2. QED BY <2>1, <2>2, <2>b, <3>1, ChangedCommandJob
  <2>5. Retryable(j) = {}
    <3> SUFFICES ASSUME NEW late \in SUBSET Retryable(j), replaceJob(r, i, Resent(j, late))
                 PROVE  FALSE
      BY <2>1
    <3>1. Resent(j, late) \in Job
      BY <2>4, ResentJob
    <3>2. Len(jobs'[r]) = Len(jobs[r]) /\ Len(jobs[r]) \in Nat
      BY <1>1, <3>1, ReplacedLength, LenProperties DEF SafetyInv, TypeInv, TypeOK
    <3>3. QED BY <1>1, <3>2
  <2>6. o.retrys[q] \in Nat
    BY <1>1, <2>3, <2>a DEF Retrys
  <2>7. ~(q \in Unanswered(r, o) /\ o.retrys[q] > 0)
    BY <1>1, <2>4, <2>5, <2>a DEF Retryable
  <2>8. CASE o.retrys[q] = 0
    BY <2>8, <2>a
  <2>9. CASE q \notin Unanswered(r, o)
    BY <1>1, <2>1, <2>2, <2>9, <2>a DEF Unanswered, TrueJob
  <2>10. QED BY <2>6, <2>7, <2>8, <2>9
<1>2. SafetyInv /\ [Next]_vars =>
        [\A r \in Agents : \A i \in DOMAIN jobs[r] :
           processCommandJob(r, i) /\ Len(jobs'[r]) < Len(jobs[r]) /\ own[r].strat > FireAndForget =>
             \A q \in DOMAIN jobs[r][i].retrys :
               \/ jobs[r][i].retrys[q] = 0
               \/ \E k \in DOMAIN proposals[r] :
                    proposals[r][k].id = q /\ proposals[r][k].age >= jobs[r][i].stamp]_vars
  BY <1>1
<1>3. QED BY <1>2, SafetyInvCorrect, PTL DEF Spec, CommandEndsAnswered

\* A robot a CommandAcknowledgeJob may not send to any more has noted the acknowledge,
\* or its retries are used up.
LEMMA NothingToRetry ==
  ASSUME SafetyInv, NEW r \in Agents, NEW o \in Job, o.kind = "CommandAcknowledgeJob",
         TrueJob(r, o), NEW retrys \in Retrys(AckRetrys), NEW q \in DOMAIN retrys,
         q \in o.expected \/ q \in DOMAIN o.retrys,
         ~(q \in o.expected \ Answered(r, o.cmd.msgID) /\ retrys[q] > 0)
  PROVE  retrys[q] = 0 \/ [from |-> r, msgID |-> o.cmd.msgID] \in noted[q]
<1>1. retrys[q] \in Nat
  <2>1. PICK S \in SUBSET Agents : retrys \in [S -> 0..AckRetrys]
    BY DEF Retrys
  <2>2. retrys[q] \in 0..AckRetrys
    BY <2>1
  <2>3. QED BY <2>2
<1>2. CASE retrys[q] = 0
  BY <1>2
<1>3. CASE q \in Answered(r, o.cmd.msgID)
  BY <1>3, AnsweredHaveNoted
<1>4. CASE q \notin o.expected
  BY <1>4 DEF TrueJob
<1>5. QED BY <1>1, <1>2, <1>3, <1>4

\* An acknowledge of a three way handshake is given up only when every robot has
\* noted it or retries are used up.
THEOREM AcknowledgesNoted == Spec => AcknowledgeEndsNoted
<1>1. ASSUME SafetyInv, NEW r \in Agents, NEW i \in DOMAIN jobs[r],
             startCommandAcknowledgeJob(r, i) \/ processCommandAcknowledgeJob(r, i),
             Len(jobs'[r]) < Len(jobs[r]), jobs[r][i].cmd.level > TwoWayHandShake,
             NEW q \in DOMAIN RetrysLeft(jobs[r][i])
      PROVE  \/ RetrysLeft(jobs[r][i])[q] = 0
             \/ [from |-> r, msgID |-> jobs[r][i].cmd.msgID] \in noted[q]
  <2>a. PICK o : o = jobs[r][i]
    OBVIOUS
  <2>b. PICK id : id = o.cmd.msgID
    OBVIOUS
  <2>c. PICK retrys : retrys = RetrysLeft(o)
    OBVIOUS
  <2>d. PICK robots : robots = o.expected \ Answered(r, id)
    OBVIOUS
  <2>1. o \in Job /\ TrueJob(r, o) /\ o.kind = "CommandAcknowledgeJob"
    BY <1>1, <2>a, ListedJob
       DEF SafetyInv, TrueJobs, startCommandAcknowledgeJob, processCommandAcknowledgeJob
  <2>2. /\ o.expected \in SUBSET Agents /\ robots \in SUBSET Agents
        /\ o.cmd \in Message /\ o.cmd.kind = "Command" /\ o.cmd.level > TwoWayHandShake
        /\ o.retrys \in Retrys(AckRetrys)
    BY <1>1, <2>1, <2>a, <2>d, JobFields
  <2>3. o.cmd.level \in Strategies /\ o.cmd.level > FireAndForget /\ ~(o.cmd.level <= TwoWayHandShake)
    <3>1. o.cmd.level \in Strategies
      BY <2>2, MessageFields
    <3>2. QED BY <2>2, <3>1 DEF Strategies, SetStrategies, ElectionStrategies,
            MostRecentStrategies, LowestIDStrategies, DefaultStrategies, NoDistribution,
            FireAndForget, TwoWayHandShake, ThreeWayHandShake
  <2>4. retrys \in Retrys(AckRetrys) /\ \A p \in DOMAIN retrys : p \in o.expected \/ p \in DOMAIN o.retrys
    BY <2>2, <2>c, NewRetrys DEF RetrysLeft, FullRetrys
  <2>5. \A j \in Job : replaceJob(r, i, j) => FALSE
    <3> SUFFICES ASSUME NEW j \in Job, replaceJob(r, i, j) PROVE FALSE
      OBVIOUS
    <3>1. Len(jobs'[r]) = Len(jobs[r]) /\ Len(jobs[r]) \in Nat
      BY <1>1, ReplacedLength, LenProperties DEF SafetyInv, TypeInv, TypeOK
    <3>2. QED BY <1>1, <3>1
  <2>6. CASE startCommandAcknowledgeJob(r, i)
    <3>1. ~o.started
      BY <2>6, <2>a DEF startCommandAcknowledgeJob
    <3>2. retrys = FullRetrys(o.expected, AckRetrys)
      BY <2>c, <3>1 DEF RetrysLeft
    <3>3. PICK c : c = clock[r] + 1
      OBVIOUS
    <3>4. PICK j : j = [o EXCEPT !.started = TRUE, !.stamp = c, !.expected = robots, !.retrys = retrys]
      OBVIOUS
    <3>5. ~AckDone(j) => replaceJob(r, i, j)
      BY <2>6, <2>3, <2>a, <2>b, <2>d, <3>2, <3>3, <3>4 DEF startCommandAcknowledgeJob
    <3>6. /\ j \in Job /\ j.cmd = o.cmd /\ j.expected = robots /\ j.retrys = retrys
      <4>1. c \in Nat
        BY <1>1, <3>3 DEF SafetyInv, TypeInv, TypeOK
      <4>2. LET k == [o EXCEPT !.started = TRUE, !.stamp = c, !.expected = robots, !.retrys = retrys]
            IN  /\ k \in Job /\ k.kind = o.kind /\ k.cmd = o.cmd /\ k.expected = robots
                /\ k.stamp = c /\ k.retrys = retrys /\ k.started = TRUE
        BY <2>1, <2>2, <2>4, <4>1, StartedCommandAcknowledgeJob, Zenon
      <4>3. QED BY <3>4, <4>2, Zenon
    <3>7. Retryable(j) = {}
      BY <2>3, <2>5, <3>5, <3>6 DEF AckDone
    <3>8. ~(q \in robots /\ retrys[q] > 0)
      BY <1>1, <2>a, <2>c, <3>6, <3>7 DEF Retryable
    <3>9. QED BY <1>1, <2>1, <2>4, <2>a, <2>b, <2>c, <2>d, <3>8, NothingToRetry
  <2>7. CASE processCommandAcknowledgeJob(r, i)
    <3>1. o.started
      BY <2>7, <2>a DEF processCommandAcknowledgeJob
    <3>2. retrys = o.retrys
      BY <2>c, <3>1 DEF RetrysLeft
    <3>3. PICK j : j = [o EXCEPT !.expected = robots]
      OBVIOUS
    <3>4. /\ j \in Job /\ j.kind = o.kind /\ j.cmd = o.cmd /\ j.expected = robots
          /\ j.retrys = retrys
      BY <2>1, <2>2, <3>2, <3>3, ChangedCommandAcknowledgeJob
    <3>5. PICK late \in SUBSET Retryable(j) : ~AckDone(j) => replaceJob(r, i, Resent(j, late))
      <4>1. j = [o EXCEPT !.expected = @ \ Answered(r, id)]
        BY <2>d, <3>3
      <4>2. QED BY <2>7, <2>a, <2>b, <4>1 DEF processCommandAcknowledgeJob
    <3>6. Resent(j, late) \in Job
      BY <2>1, <3>4, <3>5, ResentJob
    <3>7. Retryable(j) = {}
      BY <2>3, <2>5, <3>4, <3>5, <3>6 DEF AckDone
    <3>8. ~(q \in robots /\ retrys[q] > 0)
      BY <1>1, <2>a, <2>c, <3>4, <3>7 DEF Retryable
    <3>9. QED BY <1>1, <2>1, <2>4, <2>a, <2>b, <2>c, <2>d, <3>8, NothingToRetry
  <2>8. QED BY <1>1, <2>6, <2>7
<1>2. SafetyInv /\ [Next]_vars =>
        [\A r \in Agents : \A i \in DOMAIN jobs[r] :
           /\ startCommandAcknowledgeJob(r, i) \/ processCommandAcknowledgeJob(r, i)
           /\ Len(jobs'[r]) < Len(jobs[r])
           /\ jobs[r][i].cmd.level > TwoWayHandShake
           => \A q \in DOMAIN RetrysLeft(jobs[r][i]) :
                \/ RetrysLeft(jobs[r][i])[q] = 0
                \/ [from |-> r, msgID |-> jobs[r][i].cmd.msgID] \in noted[q]]_vars
  BY <1>1
<1>3. QED BY <1>2, SafetyInvCorrect, PTL DEF Spec, AcknowledgeEndsNoted

-----------------------------------------------------------------------------
\* An update leaves no robot with an older believe.
LEMMA OwnNeverOlder ==
  ASSUME TypeInv, NEW r \in Agents, Levels \subseteq DefaultStrategies,
         UsedVariable(r), DatedBelieve(r), NEW created \in Valued, NEW props \in Seq(Valued),
         DoVariableUpdate(r, created, props)
  PROVE  \A q \in Agents : own'[q].age >= own[q].age
<1>1. PICK b \in IF props = proposals[r] THEN {own[r]}
                 ELSE AcceptProposals(OwnBefore(r, created), props) :
        own' = [own EXCEPT ![r] = b]
  BY DEF DoVariableUpdate
<1>2. /\ own \in [Agents -> Believe(Agents)]
      /\ \A q \in Agents : own[q].age \in Nat
  BY DEF TypeInv, TypeOK, Believe
<1>3. own'[r] = b /\ \A q \in Agents \ {r} : own'[q] = own[q]
  BY <1>1, <1>2
<1>4. own[r].strat \in DefaultStrategies /\ (~existsVariable(r) => own[r].age = 0)
  BY DEF UsedVariable, DatedBelieve, UsedStrategies
<1>5. CASE props = proposals[r]
  BY <1>1, <1>2, <1>3, <1>5
<1>6. CASE props # proposals[r]
  <2>1. b \in AcceptProposals(OwnBefore(r, created), props)
    BY <1>1, <1>6
  <2>2. CASE existsVariable(r)
    <3>1. own[r] \in Valued
      BY <1>2, <2>2 DEF existsVariable, Valued
    <3>2. b.age >= own[r].age
      BY <1>4, <2>1, <2>2, <3>1, AcceptedOne DEF OwnBefore
    <3>3. QED BY <1>2, <1>3, <3>2
  <2>3. CASE ~existsVariable(r)
    <3>1. b \in AcceptProposals(created, props)
      BY <2>1, <2>3 DEF OwnBefore
    <3>2. b.age \in Nat
      <4>1. created.age \in Nat /\ \A k \in DOMAIN props : props[k].age \in Nat
        <5>1. \A k \in DOMAIN props : props[k] \in Valued
          BY ElementOfSeq, LenProperties
        <5>2. QED BY <5>1 DEF Valued, Believe
      <4>2. b = created \/ \E k \in DOMAIN props : b.age = props[k].age
        BY <3>1, AcceptedOne
      <4>3. QED BY <4>1, <4>2
    <3>3. QED BY <1>2, <1>3, <1>4, <2>3, <3>2
  <2>4. QED BY <2>2, <2>3
<1>7. QED BY <1>5, <1>6

\* With default strategies no step leaves a robot with an older believe.
LEMMA NextNeverOlder ==
  ASSUME TypeInv, \A r \in Agents : UsedVariable(r) /\ DatedBelieve(r),
         Next, Levels \subseteq DefaultStrategies, NEW q \in Agents
  PROVE  own'[q].age >= own[q].age
<1>a. \A e \in Nat : e >= e
  OBVIOUS
<1>1. /\ own \in [Agents -> Believe(Agents)]
      /\ \A p \in Agents : own[p].age \in Nat
  BY DEF TypeInv, TypeOK, Believe
<1>2. CASE UNCHANGED own
  BY <1>a, <1>1, <1>2
<1>3. PICK r \in Agents :
        \/ Call(r)
        \/ \E m \in net[r] : Handle(r, m)
        \/ \E i \in DOMAIN jobs[r] : Process(r, i)
  BY DEF Next
<1>4. ASSUME NEW m \in Message, m.kind = "Command", UpdateByCommand(r, m)
      PROVE  own'[q].age >= own[q].age
  <2>1. PICK props : props = ProposalsAfterCommand(r, m)
    OBVIOUS
  <2>2. PICK created : created = CreatedByCommand(r, m)
    OBVIOUS
  <2>3. created \in Valued /\ props \in Seq(Valued)
    BY <1>4, <2>1, <2>2, CreatedBelieves, NewProposals
  <2>4. DoVariableUpdate(r, created, props)
    BY <1>4, <2>1, <2>2 DEF UpdateByCommand
  <2>5. QED BY <2>3, <2>4, <1>4, OwnNeverOlder
<1>5. ASSUME NEW m \in Message, m.kind = "Acknowledge", UpdateByAck(r, m)
      PROVE  own'[q].age >= own[q].age
  <2>1. PICK props : props = ProposalsAfterAck(r, m)
    OBVIOUS
  <2>2. PICK created : created = CreatedByAck(r, m)
    OBVIOUS
  <2>3. created \in Valued /\ props \in Seq(Valued)
    BY <1>5, <2>1, <2>2, CreatedBelieves, NewProposals
  <2>4. DoVariableUpdate(r, created, props)
    BY <1>5, <2>1, <2>2 DEF UpdateByAck
  <2>5. QED BY <2>3, <2>4, <1>5, OwnNeverOlder
<1>6. CASE Call(r)
  <2>1. ASSUME NEW v \in Values, NEW s \in Levels, NEW t \in DecissionTimes,
               distributeValue(r, v, s, t)
        PROVE  own'[q].age >= own[q].age
    <3>1. own' = [own EXCEPT ![r] = [id |-> r, val |-> v, age |-> clock[r], strat |-> s, dec |-> t]]
      BY <2>1 DEF distributeValue
    <3>2. own[r].age <= clock[r] /\ clock[r] \in Nat
      BY DEF DatedBelieve, TypeInv, TypeOK
    <3>3. own'[r].age = clock[r] /\ (q # r => own'[q] = own[q])
      BY <1>1, <3>1
    <3>4. CASE q = r
      BY <1>1, <3>2, <3>3, <3>4
    <3>5. CASE q # r
      BY <1>a, <1>1, <3>3, <3>5
    <3>6. QED BY <3>4, <3>5
  <2>2. CASE distributeVariable(r) \/ \E p \in Agents : agentEngangement(r, p)
    BY <1>2, <2>2 DEF distributeVariable, agentEngangement, KeepVariable
  <2>3. QED BY <1>6, <2>1, <2>2 DEF Call
<1>7. ASSUME NEW m \in net[r], Handle(r, m)
      PROVE  own'[q].age >= own[q].age
  <2>1. m \in Message
    BY DEF TypeInv, TypeOK
  <2>2. CASE Overhear(r, m) \/ handleCaceShortAck(r, m)
    BY <1>2, <2>2 DEF Overhear, handleCaceShortAck, KeepVariable
  <2>3. CASE handleCaceCommand(r, m)
    <3>1. KeepVariable \/ (m.kind = "Command" /\ UpdateByCommand(r, m))
      BY <2>3 DEF handleCaceCommand
    <3>2. QED BY <1>2, <1>4, <2>1, <3>1 DEF KeepVariable
  <2>4. CASE handleCaceAcknowledge(r, m)
    <3>1. KeepVariable \/ (m.kind = "Acknowledge" /\ UpdateByAck(r, m))
      BY <2>4 DEF handleCaceAcknowledge
    <3>2. QED BY <1>2, <1>5, <2>1, <3>1 DEF KeepVariable
  <2>5. QED BY <1>7, <2>2, <2>3, <2>4 DEF Handle
<1>8. ASSUME NEW i \in DOMAIN jobs[r], Process(r, i)
      PROVE  own'[q].age >= own[q].age
  <2>a. PICK o : o = jobs[r][i]
    OBVIOUS
  <2>b. o \in Job
    BY <1>8, <2>a, ListedJob
  <2>1. CASE processCommandJob(r, i) \/ processCommandAcknowledgeJob(r, i)
    BY <1>2, <2>1 DEF processCommandJob, processCommandAcknowledgeJob, KeepVariable
  <2>2. CASE startCommandAcknowledgeJob(r, i)
    <3>1. o.kind = "CommandAcknowledgeJob" /\ UpdateByCommand(r, o.cmd)
      BY <2>2, <2>a DEF startCommandAcknowledgeJob
    <3>2. o.cmd \in Message /\ o.cmd.kind = "Command"
      BY <2>b, <3>1, JobFields
    <3>3. QED BY <1>4, <3>1, <3>2
  <2>3. CASE processShortAckJob(r, i)
    <3>1. o.kind = "ShortAckJob" /\ UpdateByAck(r, o.ack)
      BY <2>3, <2>a DEF processShortAckJob
    <3>2. o.ack \in Message /\ o.ack.kind = "Acknowledge"
      BY <2>b, <3>1, JobFields
    <3>3. QED BY <1>5, <3>1, <3>2
  <2>4. QED BY <1>8, <2>1, <2>2, <2>3 DEF Process
<1>9. QED BY <1>3, <1>6, <1>7, <1>8

\* With default strategies the own believe never goes back to an older stamp.
THEOREM BelievesNeverOlder == Spec => BelieveNeverOlder
<1>1. SafetyInv /\ [Next]_vars =>
        [Levels \subseteq DefaultStrategies =>
           \A r \in Agents : own'[r].age >= own[r].age]_vars
  BY NextNeverOlder, TrueMeansUsed DEF SafetyInv
<1>2. QED BY <1>1, SafetyInvCorrect, PTL DEF Spec, BelieveNeverOlder

-----------------------------------------------------------------------------
(***************************************************************************)
(* What waits for a robot.                                                 *)
(***************************************************************************)
\* The commands and acknowledges robot r has not put through doVariableUpdate yet:
\* under way to it, or kept by a job of safeStepMode.
Waiting(r) ==
  {m \in net[r] : Addressed(r, m) /\ m.kind \in {"Command", "Acknowledge"}}
  \cup {jobs[r][i].cmd : i \in {k \in DOMAIN jobs[r] :
          jobs[r][k].kind = "CommandAcknowledgeJob" /\ ~jobs[r][k].started}}
  \cup {jobs[r][i].ack : i \in {k \in DOMAIN jobs[r] : jobs[r][k].kind = "ShortAckJob"}}

LEMMA WaitingFields ==
  ASSUME SafetyInv, NEW r \in Agents, NEW n \in Waiting(r)
  PROVE  /\ n \in Message /\ n.kind \in {"Command", "Acknowledge"}
         /\ n.from \in Others(r) /\ n.stamp \in Nat
<1>1. n \in Message /\ n.kind \in {"Command", "Acknowledge"} /\ n.from # r
  <2>1. CASE n \in net[r] /\ n.kind \in {"Command", "Acknowledge"}
    BY <2>1, PacketRead
  <2>2. ASSUME NEW k \in DOMAIN jobs[r], jobs[r][k].kind = "CommandAcknowledgeJob",
               n = jobs[r][k].cmd
        PROVE  n \in Message /\ n.kind \in {"Command", "Acknowledge"} /\ n.from # r
    <3>1. jobs[r][k] \in Job /\ TrueJob(r, jobs[r][k])
      BY ListedJob DEF SafetyInv, TrueJobs
    <3>2. QED BY <2>2, <3>1, JobFields DEF TrueJob, Taken
  <2>3. ASSUME NEW k \in DOMAIN jobs[r], jobs[r][k].kind = "ShortAckJob", n = jobs[r][k].ack
        PROVE  n \in Message /\ n.kind \in {"Command", "Acknowledge"} /\ n.from # r
    <3>1. jobs[r][k] \in Job /\ TrueJob(r, jobs[r][k])
      BY ListedJob DEF SafetyInv, TrueJobs
    <3>2. QED BY <2>3, <3>1, JobFields DEF TrueJob, Taken
  <2>4. QED BY <2>1, <2>2, <2>3 DEF Waiting
<1>2. QED BY <1>1, MessageFields DEF Others

\* Erasing a job of the list leaves all others in it.
LEMMA RemoveAtOthers ==
  ASSUME NEW S, NEW s \in Seq(S), NEW i \in DOMAIN s, NEW k \in DOMAIN s, k # i
  PROVE  \E l \in DOMAIN RemoveAt(s, i) : RemoveAt(s, i)[l] = s[k]
<1> DEFINE n == Len(s)
           a == SubSeq(s, 1, i - 1)
           b == SubSeq(s, i + 1, n)
           c == a \o b
<1>1. n \in Nat /\ i \in 1..n /\ k \in 1..n
  BY LenProperties
<1>2. /\ a \in Seq(S) /\ Len(a) = i - 1
      /\ \A l \in 1..(i - 1) : a[l] = s[l]
  BY <1>1, SubSeqProperties
<1>3. /\ b \in Seq(S) /\ Len(b) = n - i
      /\ \A l \in 1..(n - i) : b[l] = s[i + l]
  BY <1>1, SubSeqProperties
<1> HIDE DEF n, a, b
<1>. a \in Seq(S) /\ b \in Seq(S)
  BY <1>2, <1>3
<1>c. /\ c \in Seq(S)
      /\ Len(c) = Len(a) + Len(b)
      /\ \A l \in 1..(Len(a) + Len(b)) : c[l] = IF l <= Len(a) THEN a[l] ELSE b[l - Len(a)]
  BY ConcatProperties, Zenon
<1> HIDE DEF c
<1>4. RemoveAt(s, i) = c
  BY DEF RemoveAt, a, b, c, n
<1>5. DOMAIN c = 1..(n - 1) /\ Len(a) + Len(b) = n - 1
  <2>1. Len(a) + Len(b) = n - 1
    BY <1>1, <1>2, <1>3
  <2>2. QED BY <1>c, <2>1, LenProperties
<1>6. CASE k < i
  <2>1. k \in 1..(i - 1) /\ k \in 1..(n - 1) /\ k <= Len(a)
    BY <1>1, <1>2, <1>6
  <2>2. c[k] = s[k]
    BY <1>2, <1>c, <1>5, <2>1
  <2>3. QED BY <1>4, <1>5, <2>1, <2>2
<1>7. CASE k > i
  <2>a. i \in Nat /\ k \in Nat /\ 1 <= i /\ k <= n
    BY <1>1
  <2>b. k - 1 \in 1..(n - 1) /\ k - i \in 1..(n - i) /\ i + (k - i) = k
    BY <1>1, <1>7, <2>a
  <2>c. ~(k - 1 <= i - 1) /\ (k - 1) - (i - 1) = k - i
    BY <1>7, <2>a
  <2>1. /\ k - 1 \in 1..(n - 1) /\ ~(k - 1 <= Len(a)) /\ (k - 1) - Len(a) = k - i
        /\ k - i \in 1..(n - i) /\ i + (k - i) = k
    BY <1>2, <2>b, <2>c
  <2>2. c[k - 1] = b[k - i]
    BY <1>c, <1>5, <2>1
  <2>3. b[k - i] = s[k]
    BY <1>3, <2>1
  <2>4. QED BY <1>4, <1>5, <2>1, <2>2, <2>3
<1>8. QED BY <1>1, <1>6, <1>7

\* Every job of robot r but those in gone stays in its list.
JobsStay(r, gone) ==
  \A q \in Agents : \A i \in DOMAIN jobs[q] :
    \/ \E l \in DOMAIN jobs'[q] : jobs'[q][l] = jobs[q][i]
    \/ q = r /\ jobs[q][i] \in gone

LEMMA AppendStays ==
  ASSUME TypeInv, NEW r \in Agents, NEW j \in Job, appendJob(r, j)
  PROVE  /\ JobsStay(r, {})
         /\ \E l \in DOMAIN jobs'[r] : jobs'[r][l] = j
<1>1. jobs \in [Agents -> Seq(Job)] /\ jobs' = [jobs EXCEPT ![r] = Append(jobs[r], j)]
  BY DEF appendJob, TypeInv, TypeOK
<1>2. /\ Append(jobs[r], j) \in Seq(Job)
      /\ Len(Append(jobs[r], j)) = Len(jobs[r]) + 1
      /\ \A k \in 1..Len(jobs[r]) : Append(jobs[r], j)[k] = jobs[r][k]
      /\ Append(jobs[r], j)[Len(jobs[r]) + 1] = j
  BY <1>1, AppendProperties
<1>3. jobs'[r] = Append(jobs[r], j) /\ \A q \in Agents \ {r} : jobs'[q] = jobs[q]
  BY <1>1
<1>4. /\ DOMAIN jobs[r] = 1..Len(jobs[r]) /\ Len(jobs[r]) \in Nat
      /\ DOMAIN jobs'[r] = 1..(Len(jobs[r]) + 1)
  BY <1>1, <1>2, <1>3, LenProperties
<1>5. \A i \in DOMAIN jobs[r] : i \in DOMAIN jobs'[r] /\ jobs'[r][i] = jobs[r][i]
  BY <1>2, <1>3, <1>4
<1>6. Len(jobs[r]) + 1 \in DOMAIN jobs'[r] /\ jobs'[r][Len(jobs[r]) + 1] = j
  BY <1>2, <1>3, <1>4
<1>7. QED BY <1>3, <1>5, <1>6 DEF JobsStay

LEMMA ReplaceStays ==
  ASSUME TypeInv, NEW r \in Agents, NEW i \in DOMAIN jobs[r], NEW j, replaceJob(r, i, j)
  PROVE  JobsStay(r, {jobs[r][i]})
<1>1. jobs \in [Agents -> Seq(Job)] /\ jobs' = [jobs EXCEPT ![r] = [jobs[r] EXCEPT ![i] = j]]
  BY DEF replaceJob, TypeInv, TypeOK
<1>2. jobs'[r] = [jobs[r] EXCEPT ![i] = j] /\ \A q \in Agents \ {r} : jobs'[q] = jobs[q]
  BY <1>1
<1>3. \A k \in DOMAIN jobs[r] : k \in DOMAIN jobs'[r] /\ (k # i => jobs'[r][k] = jobs[r][k])
  BY <1>2
<1>4. QED BY <1>2, <1>3 DEF JobsStay

LEMMA EraseStays ==
  ASSUME TypeInv, NEW r \in Agents, NEW i \in DOMAIN jobs[r], eraseJob(r, i)
  PROVE  JobsStay(r, {jobs[r][i]})
<1>1. jobs \in [Agents -> Seq(Job)] /\ jobs' = [jobs EXCEPT ![r] = RemoveAt(jobs[r], i)]
  BY DEF eraseJob, TypeInv, TypeOK
<1>2. jobs'[r] = RemoveAt(jobs[r], i) /\ \A q \in Agents \ {r} : jobs'[q] = jobs[q]
  BY <1>1
<1>3. \A k \in DOMAIN jobs[r] : k # i => \E l \in DOMAIN jobs'[r] : jobs'[r][l] = jobs[r][k]
  BY <1>1, <1>2, RemoveAtOthers
<1>4. QED BY <1>2, <1>3 DEF JobsStay

\* Every packet but those of gone, taken by robot r, stays under way.
PacketsStay(r, gone) ==
  \A q \in Agents : \A n \in net[q] : n \in net'[q] \/ (q = r /\ n \in gone)

\* What robot r sends reaches every other robot.
Reaches(r, packets) == \A q \in Others(r) : packets \subseteq net'[q]

LEMMA SendStays ==
  ASSUME TypeInv, NEW r \in Agents, NEW packets, net' = Multicast(net, r, packets)
  PROVE  PacketsStay(r, {}) /\ Reaches(r, packets) /\ PacketsFrom(r, packets)
BY DEF TypeInv, TypeOK, Multicast, PacketsStay, PacketsFrom, Reaches, Others

LEMMA ReceiveStays ==
  ASSUME TypeInv, NEW r \in Agents, NEW m, NEW packets, Receive(r, m, packets)
  PROVE  PacketsStay(r, {m}) /\ Reaches(r, packets) /\ PacketsFrom(r, packets)
<1>1. net \in [Agents -> SUBSET Message]
  BY DEF TypeInv, TypeOK
<1>2. CASE net' = Multicast([net EXCEPT ![r] = @ \ {m}], r, packets)
  <2>1. PICK n : n = [net EXCEPT ![r] = @ \ {m}]
    OBVIOUS
  <2>2. n[r] = net[r] \ {m} /\ \A q \in Agents \ {r} : n[q] = net[q]
    BY <1>1, <2>1
  <2>3. net' = Multicast(n, r, packets)
    BY <1>2, <2>1
  <2>4. net'[r] = net[r] \ {m} /\ \A q \in Agents \ {r} : net'[q] = net[q] \cup packets
    BY <2>2, <2>3 DEF Multicast
  <2>5. QED BY <2>4 DEF PacketsStay, PacketsFrom, Reaches, Others
<1>3. CASE net' = Multicast(net, r, packets)
  BY <1>3, SendStays DEF PacketsStay
<1>4. QED BY <1>2, <1>3 DEF Receive

\* What a job of safeStepMode keeps for its robot.
HeldBack(j, n) ==
  \/ j.kind = "CommandAcknowledgeJob" /\ ~j.started /\ n = j.cmd
  \/ j.kind = "ShortAckJob" /\ n = j.ack

LEMMA NowWaiting ==
  ASSUME NEW q \in Agents, NEW n,
         \/ n \in net'[q] /\ Addressed(q, n) /\ n.kind \in {"Command", "Acknowledge"}
         \/ \E l \in DOMAIN jobs'[q] : HeldBack(jobs'[q][l], n)
  PROVE  n \in Waiting(q)'
BY DEF Waiting, HeldBack, Addressed

LEMMA WaitingStays ==
  ASSUME NEW r \in Agents, NEW packets, NEW gone, PacketsStay(r, packets), JobsStay(r, gone),
         NEW q \in Agents, NEW n \in Waiting(q)
  PROVE  \/ n \in Waiting(q)'
         \/ /\ q = r
            /\ \/ n \in packets /\ n \in net[r] /\ Addressed(r, n)
               \/ \E j \in gone : HeldBack(j, n)
<1>1. CASE n \in net[q] /\ Addressed(q, n) /\ n.kind \in {"Command", "Acknowledge"}
  BY <1>1, NowWaiting DEF PacketsStay
<1>2. ASSUME NEW k \in DOMAIN jobs[q], HeldBack(jobs[q][k], n)
      PROVE  n \in Waiting(q)' \/ (q = r /\ \E j \in gone : HeldBack(j, n))
  <2>1. CASE q = r /\ jobs[q][k] \in gone
    BY <1>2, <2>1
  <2>2. CASE \E l \in DOMAIN jobs'[q] : jobs'[q][l] = jobs[q][k]
    BY <1>2, <2>2, NowWaiting
  <2>3. QED BY <2>1, <2>2 DEF JobsStay
<1>3. \/ n \in net[q] /\ Addressed(q, n) /\ n.kind \in {"Command", "Acknowledge"}
      \/ \E k \in DOMAIN jobs[q] : HeldBack(jobs[q][k], n)
  BY DEF Waiting, HeldBack
<1>4. QED BY <1>1, <1>2, <1>3

\* The sender of a packet has a proposal from the packet's stamp on.
LEMMA SenderProposed ==
  ASSUME TypeInv, NEW r \in Agents, NEW m \in Message, NEW props, BroughtProposals(r, m, props)
  PROVE  \E k \in DOMAIN props : props[k].id = m.from /\ props[k].age >= m.stamp
<1>1. m.stamp \in Nat /\ \A k \in DOMAIN proposals[r] : proposals[r][k].age \in Nat
  BY MessageFields, ListedProposal DEF Believe
<1>2. CASE Known(r, m)
  <2>1. PICK k \in DOMAIN proposals[r] : proposals[r][k].id = m.from
    BY <1>2 DEF Known
  <2>2. CASE News(r, m, k)
    <3>1. k \in DOMAIN props /\ Brought(m, props[k])
      BY <1>2, <2>2 DEF BroughtProposals
    <3>2. QED BY <1>1, <3>1 DEF Brought
  <2>3. CASE ~News(r, m, k)
    <3>1. k \in DOMAIN props /\ props[k] = proposals[r][k]
      BY <1>2, <2>3 DEF BroughtProposals
    <3>2. proposals[r][k].age >= m.stamp
      BY <1>1, <2>1, <2>3 DEF News
    <3>3. QED BY <2>1, <3>1, <3>2
  <2>4. QED BY <2>2, <2>3
<1>3. CASE ~Known(r, m)
  <2>1. PICK b : Brought(m, b) /\ props = Append(proposals[r], b)
    BY <1>3 DEF BroughtProposals
  <2>2. proposals[r] \in Seq(Believe(Agents) \cup {b})
    <3>1. proposals[r] \in Seq(Believe(Agents))
      BY DEF TypeInv, TypeOK
    <3>2. PICK S : S = Believe(Agents) \cup {b}
      OBVIOUS
    <3>3. Believe(Agents) \subseteq S
      BY <3>2
    <3>4. proposals[r] \in Seq(S)
      BY <3>1, <3>3, SeqMonotonic
    <3>5. QED BY <3>2, <3>4
  <2>3. /\ props \in Seq(Believe(Agents) \cup {b})
        /\ Len(props) = Len(proposals[r]) + 1
        /\ props[Len(proposals[r]) + 1] = b
    BY <2>1, <2>2, AppendProperties
  <2>4. Len(proposals[r]) + 1 \in DOMAIN props
    BY <2>2, <2>3, LenProperties
  <2>5. QED BY <1>1, <2>1, <2>3, <2>4 DEF Brought
<1>4. QED BY <1>2, <1>3

LEMMA NothingWaits ==
  ASSUME Quiet, NEW r \in Agents
  PROVE  Waiting(r) = {}
<1>1. net[r] = {} /\ jobs[r] = <<>> /\ DOMAIN jobs[r] = {}
  BY DEF Quiet
<1>2. QED BY <1>1 DEF Waiting
=============================================================================
