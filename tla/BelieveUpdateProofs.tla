------------------------- MODULE BelieveUpdateProofs -------------------------
(***************************************************************************)
(* Believe updates: types, what a notification that is given up has        *)
(* achieved, and the Lamport clocks, for any team, any strategies, and     *)
(* however often robots come late, end and start again.                    *)
(***************************************************************************)
EXTENDS BelieveUpdate, CaceSafetyProofs

USE AgentsAssumption, LevelsAssumption, TimesAssumption, BoundsAssumption, ModesAssumption,
    ValuesAssumption, LongMaxAssumption, UpdatesAssumption

-----------------------------------------------------------------------------
(***************************************************************************)
(* The inductive invariant.                                                *)
(***************************************************************************)
UpdateTypeOK ==
  /\ believeNotifications \in [Agents -> Seq(Packet("Notification"))]
  /\ updates \in 0..MaxUpdates
  /\ restarts \in 0..MaxRestarts
  /\ calm \in BOOLEAN

\* A robot that has no value does not distribute either: no repetition of a
\* notification is sent without a value.
SilentWithoutValue ==
  \A r \in Agents : existsVariable(r) \/ own[r].strat = NoDistribution

\* Each robot struck from the list of a notification has answered.
Struck(r, j) ==
  \A q \in DOMAIN j.retrys \ j.expected :
    \E k \in DOMAIN proposals[r] : proposals[r][k].id = q /\ proposals[r][k].age >= j.stamp

StruckAreNotified ==
  \A r \in Agents : \A i \in DOMAIN jobs[r] :
    jobs[r][i].kind = "BelieveNotificationJob" => Struck(r, jobs[r][i])

UpdateInv == TypeInv /\ UpdateTypeOK /\ SilentWithoutValue /\ StruckAreNotified

-----------------------------------------------------------------------------
(***************************************************************************)
(* Packets and jobs of believe updates.                                    *)
(***************************************************************************)
LEMMA NewNotification ==
  ASSUME NEW r \in Agents, NEW to \in Agents, NEW id \in Nat, NEW b \in Valued, NEW stamp \in Nat
  PROVE  CaceBelieveNotification(r, to, id, b, stamp) \in Message
<1>1. b.val \in AnyValue /\ b.strat \in Strategies /\ b.dec \in Nat
  BY DEF Valued, Believe
<1>2. to \in Nat /\ id \in Nat
  OBVIOUS
<1>3. QED BY <1>1, <1>2 DEF CaceBelieveNotification, Message

\* A repetition is addressed to the number of its message.
LEMMA RepeatedNotification ==
  ASSUME NEW r \in Agents, NEW to \in Nat, NEW q \in Agents, NEW b \in Valued, NEW stamp \in Nat
  PROVE  CaceBelieveNotification(r, to, q, b, stamp) \in Message
<1>1. b.val \in AnyValue /\ b.strat \in Strategies /\ b.dec \in Nat
  BY DEF Valued, Believe
<1>2. q \in Nat
  OBVIOUS
<1>3. QED BY <1>1, <1>2 DEF CaceBelieveNotification, Message

LEMMA NewAcknowledge ==
  ASSUME NEW r \in Agents, NEW to \in Agents, NEW id \in Nat, NEW v \in AnyValue, NEW stamp \in Nat
  PROVE  CaceAcknowledge(r, to, id, v, stamp) \in Message
BY DEF CaceAcknowledge, Message

LEMMA NewBelieveNotificationJob ==
  ASSUME NEW id \in Nat, NEW q \in Agents, NEW stamp \in Nat
  PROVE  \A j : j = BelieveNotificationJob(id, q, stamp) =>
           /\ j \in Job /\ j.kind = "BelieveNotificationJob"
           /\ DOMAIN j.retrys = j.expected /\ j.stamp = stamp
<1>1. FullRetrys({q}, CommandRetrys) \in Retrys(CommandRetrys)
      /\ DOMAIN FullRetrys({q}, CommandRetrys) = {q}
  BY NewRetrys DEF FullRetrys
<1>2. QED BY <1>1 DEF BelieveNotificationJob, Job

LEMMA NewBelieveAcknowledgeJob ==
  ASSUME NEW m \in Packet("Notification"), NEW stamp \in Nat,
         NEW retrys \in Retrys(CommandRetrys), NEW started \in BOOLEAN
  PROVE  \A j : j = BelieveAcknowledgeJob(m, stamp, retrys, started) =>
           j \in Job /\ j.kind = "BelieveAcknowledgeJob"
<1>1. {m.from} \in SUBSET Agents
  BY MessageFields DEF Packet
<1>2. QED BY <1>1 DEF BelieveAcknowledgeJob, Job

LEMMA ChangedBelieveNotificationJob ==
  ASSUME NEW o \in Job, o.kind = "BelieveNotificationJob"
  PROVE  /\ \A robots \in SUBSET Agents : LET j == [o EXCEPT !.expected = robots]
              IN  /\ j \in Job /\ j.kind = o.kind /\ j.msgID = o.msgID
                  /\ j.expected = robots /\ j.stamp = o.stamp /\ j.retrys = o.retrys
         /\ \A retrys \in Retrys(CommandRetrys) : LET j == [o EXCEPT !.retrys = retrys]
              IN  /\ j \in Job /\ j.kind = o.kind /\ j.msgID = o.msgID
                  /\ j.expected = o.expected /\ j.stamp = o.stamp /\ j.retrys = retrys
<1> DEFINE R == [kind : {"BelieveNotificationJob"}, msgID : Nat, expected : SUBSET Agents,
                 stamp : Nat, retrys : Retrys(CommandRetrys)]
<1>1. o \in R /\ R \subseteq Job
  BY DEF Job
<1>2. \A robots \in SUBSET Agents : [o EXCEPT !.expected = robots] \in R
  BY <1>1
<1>3. \A retrys \in Retrys(CommandRetrys) : [o EXCEPT !.retrys = retrys] \in R
  BY <1>1
<1>4. QED BY <1>1, <1>2, <1>3

LEMMA ChangedBelieveAcknowledgeJob ==
  ASSUME NEW o \in Job, o.kind = "BelieveAcknowledgeJob"
  PROVE  /\ \A robots \in SUBSET Agents : LET j == [o EXCEPT !.expected = robots]
              IN  /\ j \in Job /\ j.kind = o.kind /\ j.notification = o.notification
                  /\ j.expected = robots /\ j.stamp = o.stamp /\ j.retrys = o.retrys
         /\ \A retrys \in Retrys(CommandRetrys) : LET j == [o EXCEPT !.retrys = retrys]
              IN  /\ j \in Job /\ j.kind = o.kind /\ j.notification = o.notification
                  /\ j.stamp = o.stamp
<1> DEFINE R == [kind : {"BelieveAcknowledgeJob"}, notification : Packet("Notification"),
                 expected : SUBSET Agents, stamp : Nat, retrys : Retrys(CommandRetrys),
                 started : BOOLEAN]
<1>1. o \in R /\ R \subseteq Job
  BY DEF Job
<1>2. \A robots \in SUBSET Agents : LET j == [o EXCEPT !.expected = robots]
        IN  /\ j \in Job /\ j.kind = o.kind /\ j.notification = o.notification
            /\ j.expected = robots /\ j.stamp = o.stamp /\ j.retrys = o.retrys
  BY <1>1
<1>3. \A retrys \in Retrys(CommandRetrys) : LET j == [o EXCEPT !.retrys = retrys]
        IN  /\ j \in Job /\ j.kind = o.kind /\ j.notification = o.notification
            /\ j.stamp = o.stamp
  BY <1>1
<1>4. QED BY <1>2, <1>3

\* Job o after its first process().
StartedJob(o, stamp, retrys, robots) ==
  [o EXCEPT !.started = TRUE, !.stamp = stamp, !.retrys = retrys, !.expected = robots]

LEMMA StartedBelieveAcknowledgeJob ==
  ASSUME NEW o \in Job, o.kind = "BelieveAcknowledgeJob",
         NEW robots \in SUBSET Agents, NEW stamp \in Nat, NEW retrys \in Retrys(CommandRetrys)
  PROVE  /\ StartedJob(o, stamp, retrys, robots) \in Job
         /\ StartedJob(o, stamp, retrys, robots).kind = o.kind
         /\ StartedJob(o, stamp, retrys, robots).notification = o.notification
         /\ StartedJob(o, stamp, retrys, robots).stamp = stamp
<1> DEFINE R == [kind : {"BelieveAcknowledgeJob"}, notification : Packet("Notification"),
                 expected : SUBSET Agents, stamp : Nat, retrys : Retrys(CommandRetrys),
                 started : BOOLEAN]
<1>1. o \in R /\ R \subseteq Job
  BY DEF Job
<1>2. StartedJob(o, stamp, retrys, robots) \in R
  BY <1>1 DEF StartedJob
<1>3. StartedJob(o, stamp, retrys, robots).stamp = stamp
      /\ StartedJob(o, stamp, retrys, robots).notification = o.notification
  BY <1>1 DEF StartedJob
<1>4. QED BY <1>1, <1>2, <1>3

LEMMA ResentBelieveJob ==
  ASSUME NEW j \in Job, j.kind \in {"BelieveNotificationJob", "BelieveAcknowledgeJob"},
         NEW late \in SUBSET Retryable(j)
  PROVE  /\ late \in SUBSET Agents
         /\ Resent(j, late) \in Job
         /\ Resent(j, late).kind = j.kind
         /\ Resent(j, late).stamp = j.stamp
         /\ j.kind = "BelieveNotificationJob" =>
              /\ Resent(j, late).expected = j.expected
              /\ DOMAIN Resent(j, late).retrys = DOMAIN j.retrys
         /\ j.kind = "BelieveAcknowledgeJob" => Resent(j, late).notification = j.notification
<1> DEFINE retrys == [q \in DOMAIN j.retrys |->
                        IF q \in late THEN j.retrys[q] - 1 ELSE j.retrys[q]]
<1>1. late \in SUBSET DOMAIN j.retrys /\ \A q \in late : j.retrys[q] > 0
  BY DEF Retryable
<1>2. j.expected \in SUBSET Agents /\ j.retrys \in Retrys(CommandRetrys)
  BY OtherJobFields
<1>3. late \in SUBSET Agents
  BY <1>2 DEF Retryable
<1>4. Resent(j, late) = [j EXCEPT !.retrys = retrys] /\ DOMAIN retrys = DOMAIN j.retrys
  BY DEF Resent
<1>5. retrys \in Retrys(CommandRetrys)
  BY <1>1, <1>2, ResentRetrys
<1> HIDE DEF retrys
<1>6. CASE j.kind = "BelieveNotificationJob"
  BY <1>3, <1>4, <1>5, <1>6, ChangedBelieveNotificationJob
<1>7. CASE j.kind = "BelieveAcknowledgeJob"
  <2>1. \A x \in Retrys(CommandRetrys) : LET k == [j EXCEPT !.retrys = x]
          IN  /\ k \in Job /\ k.kind = j.kind /\ k.notification = j.notification
              /\ k.stamp = j.stamp
    BY <1>7, ChangedBelieveAcknowledgeJob, Zenon
  <2>2. /\ Resent(j, late) \in Job /\ Resent(j, late).kind = j.kind
        /\ Resent(j, late).notification = j.notification /\ Resent(j, late).stamp = j.stamp
    BY <1>4, <1>5, <2>1
  <2>3. QED BY <1>3, <1>7, <2>2
<1>8. QED BY <1>6, <1>7

\* doVariableUpdate of a notification.
LEMMA UpdatedByNotification ==
  ASSUME TypeInv, NEW r \in Agents, NEW m \in Packet("Notification"), UpdateByNotification(r, m)
  PROVE  VariableUpdated(r)
<1>1. m \in Message /\ m.kind = "Notification"
  BY DEF Packet
<1>2. noted' \in [Agents -> SUBSET Receipt]
  BY DEF UpdateByNotification, TypeInv, TypeOK
<1>3. CreatedByNotification(r, m) \in Valued
  BY <1>1, MessageFields DEF CreatedByNotification, Valued, Believe, AnyValue
<1>4. ProposalsAfterCommand(r, m) \in Seq(Valued) /\ ProposalsAfterCommand(r, m) # <<>>
  BY <1>1, NewProposals
<1>5. QED BY <1>2, <1>3, <1>4, UpdatedVariable DEF UpdateByNotification

-----------------------------------------------------------------------------
(***************************************************************************)
(* What a step must show.                                                  *)
(***************************************************************************)
\* No robot's proposals get older or fewer, and none loses its value.
StoreGrows ==
  \A q \in Agents : ProposalsGrow(q) /\ (own'[q] = own[q] \/ own'[q].val # NoValue)

LEMMA RenewedByUpdate ==
  ASSUME TypeInv, NEW r \in Agents, NEW m \in Message, NEW props,
         props = ProposalsAfterCommand(r, m) \/ props = ProposalsAfterAck(r, m),
         proposals' = [proposals EXCEPT ![r] = props]
  PROVE  \A q \in Agents : ProposalsGrow(q)
<1> DEFINE s == proposals[r]
<1>1. proposals \in [Agents -> Seq(Believe(Agents))] /\ m.stamp \in Nat
  BY MessageFields DEF TypeInv, TypeOK
<1>2. s \in Seq(Believe(Agents)) /\ DOMAIN s = 1..Len(s)
  BY <1>1, LenProperties
<1>3. \A k \in DOMAIN s : s[k].age \in Nat
  <2>1. \A k \in DOMAIN s : s[k] \in Believe(Agents)
    BY <1>2, ElementOfSeq
  <2>2. QED BY <2>1 DEF Believe
<1>4. \A k \in DOMAIN s : k \in DOMAIN props /\ Renewed(s[k], props[k])
  <2>1. CASE Known(r, m)
    <3>1. /\ DOMAIN props = DOMAIN s
          /\ \A k \in DOMAIN s : props[k] = s[k] \/ (News(r, m, k) /\ props[k].id = m.from
                                                                 /\ props[k].age = m.stamp)
      BY <2>1 DEF ProposalsAfterCommand, ProposalsAfterAck, Heard
    <3>2. QED BY <1>1, <1>3, <3>1 DEF Renewed, News
  <2>2. CASE ~Known(r, m)
    <3>1. PICK b : props = Append(s, b)
      BY <2>2 DEF ProposalsAfterCommand, ProposalsAfterAck
    <3>2. PICK S : S = Believe(Agents) \cup {b}
      OBVIOUS
    <3>3. s \in Seq(S) /\ b \in S
      BY <1>2, <3>2, SeqMonotonic
    <3>4. /\ props \in Seq(S) /\ Len(props) = Len(s) + 1 /\ Len(s) \in Nat
          /\ \A k \in 1..Len(s) : props[k] = s[k]
      BY <3>1, <3>3, AppendProperties, LenProperties
    <3>5. DOMAIN props = 1..(Len(s) + 1)
      BY <3>4, LenProperties
    <3>6. QED BY <1>2, <3>4, <3>5 DEF Renewed
  <2>3. QED BY <2>1, <2>2
<1>5. QED BY <1>1, <1>4 DEF ProposalsGrow, Renewed

LEMMA KeptGrows == KeepVariable => StoreGrows
BY DEF KeepVariable, StoreGrows, ProposalsGrow, Renewed

LEMMA UpdatedGrows ==
  ASSUME TypeInv, NEW r \in Agents, VariableUpdated(r), \A q \in Agents : ProposalsGrow(q)
  PROVE  StoreGrows
<1>1. own'[r].val # NoValue /\ \A q \in Agents \ {r} : own'[q] = own[q]
  BY DEF VariableUpdated, Valued
<1>2. QED BY <1>1 DEF StoreGrows

\* A step that changes the store so, and brings no notification job but with all
\* robots still on its list, keeps the invariant.
LEMMA StepKeeps ==
  ASSUME UpdateInv, TypeInv', UpdateTypeOK', StoreGrows,
         \A q \in Agents : \A k \in DOMAIN jobs'[q] :
           jobs'[q][k].kind = "BelieveNotificationJob" =>
             \/ \E l \in DOMAIN jobs[q] : jobs'[q][k] = jobs[q][l]
             \/ \E j : jobs'[q][k] = j /\ Struck(q, j)'
  PROVE  UpdateInv'
<1>1. SilentWithoutValue'
  BY DEF UpdateInv, SilentWithoutValue, StoreGrows, existsVariable
<1>2. ASSUME NEW q \in Agents, NEW j \in Job, j.kind = "BelieveNotificationJob", Struck(q, j)
      PROVE  Struck(q, j)'
  <2>1. j.stamp \in Nat
    BY <1>2, OtherJobFields
  <2>2. TypeInv /\ ProposalsGrow(q)
    BY DEF UpdateInv, StoreGrows
  <2>3. \A x : (\E k \in DOMAIN proposals[q] : proposals[q][k].id = x /\ proposals[q][k].age >= j.stamp)
          => \E k \in DOMAIN proposals'[q] : proposals'[q][k].id = x /\ proposals'[q][k].age >= j.stamp
    BY <2>1, <2>2, AnswersStay
  <2>4. QED BY <1>2, <2>3 DEF Struck
<1>3. ASSUME NEW q \in Agents, NEW k \in DOMAIN jobs'[q], NEW j, j = jobs'[q][k],
             j.kind = "BelieveNotificationJob"
      PROVE  Struck(q, j)'
  <2>1. CASE \E l \in DOMAIN jobs[q] : j = jobs[q][l]
    <3>1. PICK l \in DOMAIN jobs[q] : j = jobs[q][l]
      BY <2>1
    <3>2. j \in Job /\ Struck(q, j)
      BY <1>3, <3>1, ListedJob DEF UpdateInv, StruckAreNotified
    <3>3. QED BY <1>2, <1>3, <3>2
  <2>2. CASE \E x : j = x /\ Struck(q, x)'
    BY <2>2
  <2>3. QED BY <1>3, <2>1, <2>2
<1>4. StruckAreNotified'
  BY <1>3 DEF StruckAreNotified
<1>5. QED BY <1>1, <1>4 DEF UpdateInv

LEMMA QuietStepKeeps ==
  ASSUME UpdateInv, TypeInv', UpdateTypeOK', StoreGrows, JobsKept({"BelieveNotificationJob"})
  PROVE  UpdateInv'
BY StepKeeps DEF JobsKept

-----------------------------------------------------------------------------
(***************************************************************************)
(* The steps of the command protocol.                                      *)
(***************************************************************************)
LEMMA CommandStoreGrows ==
  ASSUME TypeInv, NEW r \in Agents, NEW m \in Message, m.kind = "Command", UpdateByCommand(r, m)
  PROVE  StoreGrows
BY UpdatedByCommand, UpdatedGrows, RenewedByUpdate DEF UpdateByCommand, DoVariableUpdate

LEMMA AckStoreGrows ==
  ASSUME TypeInv, NEW r \in Agents, NEW m \in Message, m.kind = "Acknowledge", UpdateByAck(r, m)
  PROVE  StoreGrows
BY UpdatedByAck, UpdatedGrows, RenewedByUpdate DEF UpdateByAck, DoVariableUpdate

LEMMA NextStoreGrows ==
  ASSUME TypeInv, Next
  PROVE  StoreGrows
<1>1. ASSUME NEW r \in Agents, Call(r) PROVE StoreGrows
  <2>1. ASSUME NEW v \in Values, NEW s \in Levels, NEW t \in DecissionTimes,
               distributeValue(r, v, s, t)
        PROVE  StoreGrows
    <3>1. /\ own' = [own EXCEPT ![r] = [id |-> r, val |-> v, age |-> clock[r], strat |-> s, dec |-> t]]
          /\ UNCHANGED proposals
      BY <2>1 DEF distributeValue
    <3>2. own'[r].val # NoValue /\ \A q \in Agents \ {r} : own'[q] = own[q]
      BY <3>1 DEF TypeInv, TypeOK
    <3>3. QED BY <3>1, <3>2 DEF StoreGrows, ProposalsGrow, Renewed
  <2>2. QED BY <1>1, <2>1, KeptGrows DEF Call, distributeVariable, agentEngangement
<1>2. ASSUME NEW r \in Agents, NEW m \in net[r], Handle(r, m) PROVE StoreGrows
  <2>1. m \in Message
    BY DEF TypeInv, TypeOK
  <2>2. KeepVariable \/ (m.kind = "Command" /\ UpdateByCommand(r, m))
          \/ (m.kind = "Acknowledge" /\ UpdateByAck(r, m))
    BY <1>2 DEF Handle, Overhear, handleCaceCommand, handleCaceAcknowledge, handleCaceShortAck
  <2>3. QED BY <2>1, <2>2, KeptGrows, CommandStoreGrows, AckStoreGrows
<1>3. ASSUME NEW r \in Agents, NEW i \in DOMAIN jobs[r], Process(r, i) PROVE StoreGrows
  <2>1. PICK o \in Job : o = jobs[r][i]
    BY ListedJob
  <2>2. \/ KeepVariable
        \/ o.kind = "CommandAcknowledgeJob" /\ UpdateByCommand(r, o.cmd)
        \/ o.kind = "ShortAckJob" /\ UpdateByAck(r, o.ack)
    BY <1>3, <2>1 DEF Process, processCommandJob, startCommandAcknowledgeJob,
       processCommandAcknowledgeJob, processShortAckJob
  <2>3. QED BY <2>2, KeptGrows, CommandStoreGrows, AckStoreGrows, JobFields
<1>4. QED BY <1>1, <1>2, <1>3 DEF Next

LEMMA NextUpdateInv ==
  ASSUME UpdateInv, UpdateTypeOK', Next
  PROVE  UpdateInv'
<1>1. TypeInv
  BY DEF UpdateInv
<1>2. TypeInv' /\ StoreGrows
  BY <1>1, TypeInvStep, NextStoreGrows
<1>3. PICK kinds : kinds = {"BelieveNotificationJob"}
  OBVIOUS
<1>4. kinds \cap CommandKinds = {}
  BY <1>3 DEF CommandKinds
<1>5. JobsKept(kinds)
  BY <1>1, <1>4, CallKeeps, HandleKeeps, ProcessKeeps DEF Next
<1>6. QED BY <1>2, <1>3, <1>5, QuietStepKeeps

-----------------------------------------------------------------------------
(***************************************************************************)
(* One lemma for each action of believe updates.                           *)
(***************************************************************************)
\* Message ids and clocks of the k-th notification.
LEMMA NotificationNumbers ==
  ASSUME TypeInv, NEW r \in Agents, NEW k \in Nat \ {0}
  PROVE  /\ clock[r] + k - 1 \in Nat /\ clock[r] + k - 1 + 1 \in Nat
         /\ ((clock[r] + k - 1 + 100) * r) % 65536 \in Nat
<1>1. clock[r] \in Nat /\ r \in Nat
  BY DEF TypeInv, TypeOK
<1>2. clock[r] + k - 1 \in Nat
  BY <1>1
<1>3. (clock[r] + k - 1 + 100) * r \in Nat
  BY <1>1, <1>2
<1>4. QED BY <1>2, <1>3

\* The packets and the jobs of the notifications to the robots of s.
LEMMA SentNotifications ==
  ASSUME UpdateInv, NEW r \in Agents, NEW s \in Seq(Agents), s # <<>> => existsVariable(r),
         sendBelieveUpdates(r, s)
  PROVE  /\ net' \in [Agents -> SUBSET Message]
         /\ jobs' \in [Agents -> Seq(Job)]
         /\ \A q \in Agents \ {r} : jobs'[q] = jobs[q]
         /\ \A k \in DOMAIN jobs'[r] :
              \/ \E l \in DOMAIN jobs[r] : jobs'[r][k] = jobs[r][l]
              \/ \E j, l : /\ jobs'[r][k] = j /\ j.kind = "BelieveNotificationJob"
                          /\ DOMAIN j.retrys = j.expected
                          /\ l \in 1..Len(s) /\ j.stamp = clock[r] + l - 1
<1> DEFINE L(k) == clock[r] + k - 1
           id(k) == ((L(k) + 100) * r) % 65536
           new == [k \in DOMAIN s |-> BelieveNotificationJob(id(k), s[k], L(k))]
           packets == {CaceBelieveNotification(r, s[k], id(k), own[r], L(k) + 1) : k \in DOMAIN s}
<1>1. net' = Multicast(net, r, packets) /\ jobs' = [jobs EXCEPT ![r] = @ \o new]
  BY DEF sendBelieveUpdates
<1>2. TypeInv /\ Len(s) \in Nat /\ DOMAIN s = 1..Len(s)
  BY LenProperties DEF UpdateInv
<1>3. jobs \in [Agents -> Seq(Job)] /\ net \in [Agents -> SUBSET Message]
  BY <1>2 DEF TypeInv, TypeOK
<1>4. ASSUME NEW k \in DOMAIN s
      PROVE  s[k] \in Agents /\ L(k) \in Nat /\ L(k) + 1 \in Nat /\ id(k) \in Nat
             /\ own[r] \in Valued
  <2>1. s[k] \in Agents /\ k \in Nat \ {0}
    BY <1>2, ElementOfSeq
  <2>2. s # <<>>
    BY <1>2, <2>1
  <2>3. own[r] \in Valued
    BY <1>2, <2>2 DEF TypeInv, TypeOK, Valued, existsVariable
  <2>4. QED BY <1>2, <2>1, <2>3, NotificationNumbers
<1>a. \A k \in DOMAIN s : L(k) = clock[r] + k - 1
  OBVIOUS
<1> HIDE DEF L, id
<1>5. packets \in SUBSET Message
  <2>1. ASSUME NEW k \in DOMAIN s
        PROVE  CaceBelieveNotification(r, s[k], id(k), own[r], L(k) + 1) \in Message
    <3>1. s[k] \in Agents /\ id(k) \in Nat /\ own[r] \in Valued /\ L(k) + 1 \in Nat
      BY <1>4
    <3>2. QED BY <3>1, NewNotification
  <2>2. QED BY <2>1
<1>6. \A k \in DOMAIN s : /\ new[k] \in Job /\ new[k].kind = "BelieveNotificationJob"
                          /\ DOMAIN new[k].retrys = new[k].expected /\ new[k].stamp = L(k)
  <2> SUFFICES ASSUME NEW k \in DOMAIN s
               PROVE  /\ new[k] \in Job /\ new[k].kind = "BelieveNotificationJob"
                      /\ DOMAIN new[k].retrys = new[k].expected /\ new[k].stamp = L(k)
    OBVIOUS
  <2>1. PICK j : j = BelieveNotificationJob(id(k), s[k], L(k))
    OBVIOUS
  <2>2. new[k] = j
    BY <2>1
  <2>3. j \in Job /\ j.kind = "BelieveNotificationJob" /\ DOMAIN j.retrys = j.expected
        /\ j.stamp = L(k)
    <3>1. s[k] \in Agents /\ id(k) \in Nat /\ L(k) \in Nat
      BY <1>4
    <3>2. \A i, n \in Nat, q \in Agents : j = BelieveNotificationJob(i, q, n) =>
            /\ j \in Job /\ j.kind = "BelieveNotificationJob"
            /\ DOMAIN j.retrys = j.expected /\ j.stamp = n
      BY NewBelieveNotificationJob
    <3>3. QED BY <2>1, <3>1, <3>2
  <2>4. QED BY <2>2, <2>3
<1>7. DOMAIN new = 1..Len(s) /\ new = [k \in 1..Len(s) |-> new[k]]
  BY <1>2
<1> HIDE DEF packets, new
<1>8. new \in Seq(Job)
  BY <1>2, <1>6, <1>7, SeqDef
<1>9. Len(new) = Len(s)
  BY <1>2, <1>7, <1>8, LenProperties
<1>10. /\ jobs[r] \o new \in Seq(Job)
       /\ \A k \in DOMAIN (jobs[r] \o new) :
            \/ \E l \in DOMAIN jobs[r] : (jobs[r] \o new)[k] = jobs[r][l]
            \/ \E l \in DOMAIN s : (jobs[r] \o new)[k] = new[l]
  <2>1. PICK old : old = jobs[r]
    OBVIOUS
  <2>2. PICK all : all = old \o new
    OBVIOUS
  <2>3. old \in Seq(Job)
    BY <1>3, <2>1
  <2>4. /\ all \in Seq(Job) /\ Len(all) = Len(old) + Len(new)
        /\ \A k \in 1..Len(old) + Len(new) : all[k] = IF k <= Len(old) THEN old[k] ELSE new[k - Len(old)]
    BY <1>8, <2>2, <2>3, ConcatProperties
  <2>5. /\ DOMAIN old = 1..Len(old) /\ Len(old) \in Nat
        /\ DOMAIN all = 1..(Len(old) + Len(new))
    BY <2>3, <2>4, LenProperties
  <2>6. ASSUME NEW k \in DOMAIN all
        PROVE  \/ \E l \in DOMAIN old : all[k] = old[l]
               \/ \E l \in DOMAIN s : all[k] = new[l]
    <3>1. CASE k <= Len(old)
      BY <2>4, <2>5, <3>1
    <3>2. CASE ~(k <= Len(old))
      <4>1. k - Len(old) \in DOMAIN s
        BY <1>2, <1>9, <2>5, <3>2
      <4>2. QED BY <2>4, <2>5, <3>2, <4>1
    <3>3. QED BY <3>1, <3>2
  <2>7. QED BY <2>1, <2>2, <2>4, <2>6
<1>11. /\ jobs' \in [Agents -> Seq(Job)]
       /\ \A q \in Agents \ {r} : jobs'[q] = jobs[q]
       /\ \A k \in DOMAIN jobs'[r] :
            \/ \E l \in DOMAIN jobs[r] : jobs'[r][k] = jobs[r][l]
            \/ \E l \in DOMAIN s : jobs'[r][k] = new[l]
  BY <1>1, <1>3, <1>10
<1>12. net' \in [Agents -> SUBSET Message]
  BY <1>1, <1>3, <1>5, MulticastPackets
<1>13. QED BY <1>2, <1>6, <1>11, <1>12, <1>a

LEMMA SendBelieveUpdatesInv ==
  ASSUME UpdateInv, NEW r \in Agents, NEW s \in Seq(Agents), s # <<>> => existsVariable(r),
         sendBelieveUpdates(r, s), activeRobots' \in [Agents -> SUBSET Agents],
         UNCHANGED restarts, calm' \in BOOLEAN
  PROVE  UpdateInv'
<1>1. /\ updates < MaxUpdates /\ updates' = updates + 1
      /\ clock' = [clock EXCEPT ![r] = @ + Len(s)]
      /\ KeepVariable
      /\ UNCHANGED <<shortAcks, commands, resends, dups, believeNotifications>>
  BY DEF sendBelieveUpdates
<1>2. TypeInv /\ UpdateTypeOK /\ Len(s) \in Nat
  BY LenProperties DEF UpdateInv
<1>3. /\ net' \in [Agents -> SUBSET Message] /\ jobs' \in [Agents -> Seq(Job)]
      /\ \A q \in Agents \ {r} : jobs'[q] = jobs[q]
      /\ \A k \in DOMAIN jobs'[r] :
           \/ \E l \in DOMAIN jobs[r] : jobs'[r][k] = jobs[r][l]
           \/ \E j : /\ jobs'[r][k] = j /\ j.kind = "BelieveNotificationJob"
                    /\ DOMAIN j.retrys = j.expected
  <2>1. \A k \in DOMAIN jobs'[r] :
          \/ \E l \in DOMAIN jobs[r] : jobs'[r][k] = jobs[r][l]
          \/ \E j, l : /\ jobs'[r][k] = j /\ j.kind = "BelieveNotificationJob"
                      /\ DOMAIN j.retrys = j.expected
                      /\ l \in 1..Len(s) /\ j.stamp = clock[r] + l - 1
    BY SentNotifications, Zenon
  <2>2. /\ net' \in [Agents -> SUBSET Message] /\ jobs' \in [Agents -> Seq(Job)]
        /\ \A q \in Agents \ {r} : jobs'[q] = jobs[q]
    BY SentNotifications
  <2>3. QED BY <2>1, <2>2, Zenon
<1>4. TypeOK'
  <2>1. clock' \in [Agents -> Nat]
    BY <1>1, <1>2 DEF TypeInv, TypeOK
  <2>2. QED BY <1>1, <1>2, <1>3, <2>1 DEF TypeInv, TypeOK, KeepVariable
<1>5. HasValues'
  <2>1. \A k \in DOMAIN jobs'[r] :
          \/ jobs'[r][k].kind = "CommandAcknowledgeJob" /\ jobs'[r][k].started => existsVariable(r)
          \/ \E l \in DOMAIN jobs[r] : jobs'[r][k] = jobs[r][l]
    BY <1>3
  <2>2. QED BY <1>1, <1>2, <1>3, <2>1, ValuesKept DEF KeepVariable
<1>6. TypeInv'
  BY <1>4, <1>5 DEF TypeInv
<1>7. UpdateTypeOK'
  BY <1>1, <1>2 DEF UpdateTypeOK
<1>8. \A j : DOMAIN j.retrys = j.expected => Struck(r, j)'
  BY DEF Struck
<1>9. \A q \in Agents : \A k \in DOMAIN jobs'[q] :
        \/ \E l \in DOMAIN jobs[q] : jobs'[q][k] = jobs[q][l]
        \/ \E j : jobs'[q][k] = j /\ Struck(q, j)'
  <2>1. \A k \in DOMAIN jobs'[r] :
          \/ \E l \in DOMAIN jobs[r] : jobs'[r][k] = jobs[r][l]
          \/ \E j : jobs'[r][k] = j /\ Struck(r, j)'
    BY <1>3, <1>8
  <2>2. \A q \in Agents \ {r} : \A k \in DOMAIN jobs'[q] :
          \E l \in DOMAIN jobs[q] : jobs'[q][k] = jobs[q][l]
    BY <1>3
  <2>3. QED BY <2>1, <2>2
<1>10. StoreGrows
  BY <1>1, KeptGrows
<1>11. QED BY <1>6, <1>7, <1>9, <1>10, StepKeeps

\* The robots that are notified, and that there is something to tell them.
LEMMA NotifiedRobots ==
  ASSUME UpdateInv, NEW r \in Agents,
         (\E q \in Agents : agentEngangementAndUpdate(r, q)) \/ changeScopeAndRestoreConsistency(r)
  PROVE  /\ \E s \in Seq(Agents) : (s # <<>> => existsVariable(r)) /\ sendBelieveUpdates(r, s)
         /\ activeRobots' \in [Agents -> SUBSET Agents]
<1>1. ASSUME NEW q \in Agents, agentEngangementAndUpdate(r, q)
      PROVE  /\ \E s \in Seq(Agents) : (s # <<>> => existsVariable(r)) /\ sendBelieveUpdates(r, s)
             /\ activeRobots' \in [Agents -> SUBSET Agents]
  <2>1. PICK s : s = (IF NeedsUpdate(r, q) THEN <<q>> ELSE <<>>)
    OBVIOUS
  <2>2. sendBelieveUpdates(r, s) /\ activeRobots' = [activeRobots EXCEPT ![r] = @ \cup {q}]
    BY <1>1, <2>1 DEF agentEngangementAndUpdate
  <2>3. s \in Seq(Agents) /\ (s # <<>> => existsVariable(r))
    BY <2>1 DEF NeedsUpdate
  <2>4. activeRobots' \in [Agents -> SUBSET Agents]
    BY <2>2 DEF UpdateInv, TypeInv, TypeOK
  <2>5. QED BY <2>2, <2>3, <2>4
<1>2. ASSUME changeScopeAndRestoreConsistency(r)
      PROVE  /\ \E s \in Seq(Agents) : (s # <<>> => existsVariable(r)) /\ sendBelieveUpdates(r, s)
             /\ activeRobots' \in [Agents -> SUBSET Agents]
  <2> DEFINE S == {q \in activeRobots[r] : NeedsUpdate(r, q)}
  <2>1. PICK s \in SetToSeqs(S) : sendBelieveUpdates(r, s)
    BY <1>2 DEF changeScopeAndRestoreConsistency
  <2>2. activeRobots[r] \in SUBSET Agents /\ UNCHANGED activeRobots
        /\ activeRobots \in [Agents -> SUBSET Agents]
    BY <1>2 DEF changeScopeAndRestoreConsistency, UpdateInv, TypeInv, TypeOK
  <2>3. S \in SUBSET Agents /\ \A q \in S : existsVariable(r)
    BY <2>2 DEF NeedsUpdate
  <2> HIDE DEF S
  <2>4. Cardinality(S) \in Nat
    BY <2>3, FS_Subset, FS_CardinalityType
  <2>5. s \in [1..Cardinality(S) -> S]
    BY DEF SetToSeqs
  <2>6. s \in Seq(S)
    BY <2>4, <2>5, SeqDef
  <2>7. s \in Seq(Agents)
    BY <2>3, <2>6, SeqMonotonic
  <2>8. s # <<>> => existsVariable(r)
    <3> SUFFICES ASSUME s # <<>> PROVE existsVariable(r)
      OBVIOUS
    <3>1. Len(s) \in Nat \ {0}
      BY <2>6, EmptySeq
    <3>2. s[1] \in S
      BY <2>6, <3>1, ElementOfSeq
    <3>3. QED BY <2>3, <3>2
  <2>9. QED BY <2>1, <2>2, <2>7, <2>8
<1>3. QED BY <1>1, <1>2

LEMMA NotifyInv ==
  ASSUME UpdateInv, NEW r \in Agents,
         (\E q \in Agents : agentEngangementAndUpdate(r, q)) \/ changeScopeAndRestoreConsistency(r),
         UNCHANGED restarts, calm' \in BOOLEAN
  PROVE  UpdateInv'
BY NotifiedRobots, SendBelieveUpdatesInv

LEMMA HandleCaceBelieveNotificationInv ==
  ASSUME UpdateInv, NEW r \in Agents, NEW m \in net[r], handleCaceBelieveNotification(r, m),
         UNCHANGED restarts, calm' \in BOOLEAN
  PROVE  UpdateInv'
<1>1. /\ m.kind = "Notification" /\ Receive(r, m, {}) /\ KeepVariable
      /\ clock' = [clock EXCEPT ![r] = Seen(clock[r], m.stamp)]
      /\ believeNotifications' = [believeNotifications EXCEPT ![r] = Append(believeNotifications[r], m)]
      /\ UNCHANGED <<activeRobots, jobs, shortAcks, commands, resends, updates>>
  BY DEF handleCaceBelieveNotification
<1>2. TypeInv /\ UpdateTypeOK
  BY DEF UpdateInv
<1>3. m \in Message /\ net' \in [Agents -> SUBSET Message] /\ dups' \in 0..MaxDups
  BY <1>1, <1>2, ReceivedPackets DEF TypeInv, TypeOK
<1>4. clock' \in [Agents -> Nat]
  BY <1>1, <1>2, <1>3, MessageFields, SeenBounds DEF TypeInv, TypeOK
<1>5. TypeInv'
  <2>1. TypeOK'
    BY <1>1, <1>2, <1>3, <1>4 DEF TypeInv, TypeOK, KeepVariable
  <2>2. HasValues'
    BY <1>1, <1>2 DEF TypeInv, HasValues, existsVariable, KeepVariable
  <2>3. QED BY <2>1, <2>2 DEF TypeInv
<1>6. UpdateTypeOK'
  <2>1. m \in Packet("Notification")
    BY <1>1, <1>3 DEF Packet
  <2>2. believeNotifications[r] \in Seq(Packet("Notification"))
    BY <1>2 DEF UpdateTypeOK
  <2>3. PICK s : s = Append(believeNotifications[r], m)
    OBVIOUS
  <2>4. s \in Seq(Packet("Notification"))
    BY <2>1, <2>2, <2>3, AppendProperties
  <2>5. believeNotifications' \in [Agents -> Seq(Packet("Notification"))]
    BY <1>1, <1>2, <2>3, <2>4 DEF UpdateTypeOK
  <2>6. QED BY <1>1, <1>2, <2>5 DEF UpdateTypeOK
<1>7. JobsKept({"BelieveNotificationJob"})
  BY <1>1 DEF JobsKept
<1>8. QED BY <1>1, <1>5, <1>6, <1>7, KeptGrows, QuietStepKeeps

\* The answer to a notification.
LEMMA AnsweredNotification ==
  ASSUME TypeInv, NEW r \in Agents, NEW m \in Packet("Notification"), NEW c \in Nat,
         AnswerNotification(r, m, c)
  PROVE  /\ VariableUpdated(r) /\ StoreGrows
         /\ clock' \in [Agents -> Nat] /\ net' \in [Agents -> SUBSET Message]
<1>1. m \in Message /\ m.kind = "Notification" /\ m.from \in Agents /\ m.msgID \in Nat
  BY MessageFields DEF Packet
<1>2. /\ UpdateByNotification(r, m) /\ clock' = [clock EXCEPT ![r] = c]
      /\ net' = Multicast(net, r,
           IF m.level > FireAndForget THEN {CaceAcknowledge(r, m.from, m.msgID, own'[r].val, c)} ELSE {})
  BY DEF AnswerNotification
<1>3. VariableUpdated(r)
  BY <1>2, UpdatedByNotification
<1>4. StoreGrows
  <2>1. \A q \in Agents : ProposalsGrow(q)
    BY <1>1, <1>2, RenewedByUpdate DEF UpdateByNotification, DoVariableUpdate
  <2>2. QED BY <1>3, <2>1, UpdatedGrows
<1>5. PICK v : v = own'[r].val
  OBVIOUS
<1>6. v \in AnyValue
  BY <1>3, <1>5 DEF VariableUpdated, Valued, Believe
<1>7. CaceAcknowledge(r, m.from, m.msgID, v, c) \in Message
  BY <1>1, <1>6, NewAcknowledge
<1>8. PICK packets : packets = IF m.level > FireAndForget
                               THEN {CaceAcknowledge(r, m.from, m.msgID, v, c)} ELSE {}
  OBVIOUS
<1>9. packets \in SUBSET Message /\ net' = Multicast(net, r, packets)
  BY <1>2, <1>5, <1>7, <1>8
<1>10. net' \in [Agents -> SUBSET Message]
  BY <1>9, MulticastPackets DEF TypeInv, TypeOK
<1>11. clock' \in [Agents -> Nat]
  BY <1>2 DEF TypeInv, TypeOK
<1>12. QED BY <1>3, <1>4, <1>10, <1>11

LEMMA TickedType ==
  ASSUME TypeInv, NEW r \in Agents, NEW m \in Packet("Notification")
  PROVE  /\ clock[r] \in Nat /\ Ticked(r, m) \in Nat
         /\ NotificationRetrys(m) \in Retrys(CommandRetrys) /\ NoRetrys \in Retrys(CommandRetrys)
<1>1. {m.from} \in SUBSET Agents
  BY MessageFields DEF Packet
<1>2. clock[r] \in Nat
  BY DEF TypeInv, TypeOK
<1>3. QED BY <1>1, <1>2, NewRetrys DEF Ticked, NotificationRetrys

LEMMA TakeNotificationInv ==
  ASSUME UpdateInv, NEW r \in Agents, takeNotification(r), UNCHANGED restarts, calm' \in BOOLEAN
  PROVE  UpdateInv'
<1>1. TypeInv /\ UpdateTypeOK
  BY DEF UpdateInv
<1>2. PICK m : m = Head(believeNotifications[r])
  OBVIOUS
<1>3. /\ believeNotifications[r] # <<>>
      /\ believeNotifications' = [believeNotifications EXCEPT ![r] = Tail(believeNotifications[r])]
      /\ UNCHANGED <<activeRobots, shortAcks, commands, resends, dups, updates>>
  BY DEF takeNotification
<1>4. m \in Packet("Notification") /\ Tail(believeNotifications[r]) \in Seq(Packet("Notification"))
  <2>1. believeNotifications[r] \in Seq(Packet("Notification"))
    BY <1>1 DEF UpdateTypeOK
  <2>2. QED BY <1>2, <1>3, <2>1, HeadTailProperties
<1>5. UpdateTypeOK'
  BY <1>1, <1>3, <1>4 DEF UpdateTypeOK
<1>6. /\ clock[r] \in Nat /\ Ticked(r, m) \in Nat
      /\ NotificationRetrys(m) \in Retrys(CommandRetrys) /\ NoRetrys \in Retrys(CommandRetrys)
  BY <1>1, <1>4, TickedType
<1>7. CASE r \in SafeStepRobots
  <2>1. PICK j : j = BelieveAcknowledgeJob(m, clock[r], NoRetrys, FALSE)
    OBVIOUS
  <2>2. appendJob(r, j) /\ KeepVariable /\ UNCHANGED <<clock, net>>
    BY <1>2, <1>7, <2>1 DEF takeNotification
  <2>3. j \in Job /\ j.kind = "BelieveAcknowledgeJob"
    BY <1>4, <1>6, <2>1, NewBelieveAcknowledgeJob
  <2>4. JobsBecome(r, j)
    BY <1>1, <2>2, <2>3, AppendedJob DEF TypeInv, TypeOK
  <2>5. TypeOK'
    BY <1>1, <1>3, <2>2, <2>4 DEF TypeInv, TypeOK, KeepVariable, JobsBecome
  <2>6. HasValues'
    BY <1>1, <2>2, <2>3, <2>4, ValuesKept DEF KeepVariable, JobsBecome
  <2>7. j.kind \notin {"BelieveNotificationJob"}
    BY <2>3
  <2>8. JobsKept({"BelieveNotificationJob"})
    BY <1>1, <2>2, <2>7, AppendKeeps
  <2>9. QED BY <1>5, <2>2, <2>5, <2>6, <2>8, KeptGrows, QuietStepKeeps DEF TypeInv
<1>8. CASE r \notin SafeStepRobots
  <2>1. PICK j : j = BelieveAcknowledgeJob(m, clock[r], NotificationRetrys(m), TRUE)
    OBVIOUS
  <2>2. appendJob(r, j) /\ AnswerNotification(r, m, Ticked(r, m))
    BY <1>2, <1>8, <2>1 DEF takeNotification
  <2>3. j \in Job /\ j.kind = "BelieveAcknowledgeJob"
    BY <1>4, <1>6, <2>1, NewBelieveAcknowledgeJob
  <2>4. JobsBecome(r, j)
    BY <1>1, <2>2, <2>3, AppendedJob DEF TypeInv, TypeOK
  <2>5. /\ VariableUpdated(r) /\ StoreGrows
        /\ clock' \in [Agents -> Nat] /\ net' \in [Agents -> SUBSET Message]
    BY <1>1, <1>4, <1>6, <2>2, AnsweredNotification
  <2>6. TypeOK'
    BY <1>1, <1>3, <2>4, <2>5 DEF TypeInv, TypeOK, VariableUpdated, JobsBecome
  <2>7. HasValues'
    BY <1>1, <2>4, <2>5, ValuesAfterUpdate DEF JobsBecome
  <2>8. j.kind \notin {"BelieveNotificationJob"}
    BY <2>3
  <2>9. JobsKept({"BelieveNotificationJob"})
    BY <1>1, <2>2, <2>8, AppendKeeps
  <2>10. QED BY <1>5, <2>5, <2>6, <2>7, <2>9, QuietStepKeeps DEF TypeInv
<1>9. QED BY <1>7, <1>8

LEMMA ProcessBelieveNotificationJobInv ==
  ASSUME UpdateInv, NEW r \in Agents, NEW i \in DOMAIN jobs[r], processBelieveNotificationJob(r, i),
         UNCHANGED restarts, calm' \in BOOLEAN
  PROVE  UpdateInv'
<1>a. PICK o : o = jobs[r][i]
  OBVIOUS
<1>b. PICK j : j = [o EXCEPT !.expected = Unanswered(r, o)]
  OBVIOUS
<1>1. /\ o.kind = "BelieveNotificationJob" /\ KeepVariable
      /\ UNCHANGED <<clock, activeRobots, shortAcks, commands, dups, updateVars>>
  BY <1>a DEF processBelieveNotificationJob
<1>2. PICK late \in SUBSET Retryable(j) :
        /\ late # {} => own[r].strat > FireAndForget
        /\ resend(r, late, {CaceBelieveNotification(r, j.msgID, q, own[r], j.stamp) : q \in late})
        /\ eraseJob(r, i) \/ replaceJob(r, i, Resent(j, late))
  BY <1>a, <1>b DEF processBelieveNotificationJob
<1>3. TypeInv /\ UpdateTypeOK /\ SilentWithoutValue
  BY DEF UpdateInv
<1>4. o \in Job /\ Struck(r, o)
  BY <1>1, <1>a, <1>3, ListedJob DEF UpdateInv, StruckAreNotified
<1>5. o.expected \in SUBSET Agents /\ o.retrys \in Retrys(CommandRetrys)
  BY <1>1, <1>4, OtherJobFields
<1>6. /\ j \in Job /\ j.kind = "BelieveNotificationJob" /\ j.expected = Unanswered(r, o)
      /\ j.stamp = o.stamp /\ j.retrys = o.retrys /\ j.msgID \in Nat /\ j.stamp \in Nat
  <2>1. Unanswered(r, o) \in SUBSET Agents
    BY <1>5 DEF Unanswered
  <2>2. /\ j \in Job /\ j.kind = "BelieveNotificationJob" /\ j.expected = Unanswered(r, o)
        /\ j.stamp = o.stamp /\ j.retrys = o.retrys
    BY <1>1, <1>4, <1>b, <2>1, ChangedBelieveNotificationJob
  <2>3. QED BY <2>2, OtherJobFields
<1>7. PICK n : n = Resent(j, late)
  OBVIOUS
<1>8. /\ late \in SUBSET Agents /\ n \in Job /\ n.kind = "BelieveNotificationJob"
      /\ n.expected = j.expected /\ n.stamp = j.stamp /\ DOMAIN n.retrys = DOMAIN j.retrys
  BY <1>6, <1>7, ResentBelieveJob
<1>9. Struck(r, n)'
  <2>1. UNCHANGED proposals
    BY <1>1 DEF KeepVariable
  <2>2. Struck(r, n)
    BY <1>4, <1>6, <1>8 DEF Struck, Unanswered
  <2>3. QED BY <2>1, <2>2 DEF Struck
<1>10. PICK packets : packets = {CaceBelieveNotification(r, j.msgID, q, own[r], j.stamp) : q \in late}
  OBVIOUS
<1>11. packets \in SUBSET Message
  <2>1. ASSUME NEW q \in late
        PROVE  CaceBelieveNotification(r, j.msgID, q, own[r], j.stamp) \in Message
    <3>1. own[r].strat # NoDistribution
      BY <1>2 DEF FireAndForget, NoDistribution
    <3>2. own[r] \in Valued
      BY <1>3, <3>1 DEF SilentWithoutValue, existsVariable, TypeInv, TypeOK, Valued
    <3>3. q \in Agents
      BY <1>8
    <3>4. QED BY <1>6, <3>2, <3>3, RepeatedNotification
  <2>2. QED BY <1>10, <2>1
<1>12. resends' \in 0..MaxResends /\ net' \in [Agents -> SUBSET Message]
  BY <1>2, <1>3, <1>8, <1>10, <1>11, ResendType
<1>13. \E x \in Job : x.kind = "BelieveNotificationJob" /\ Struck(r, x)' /\ JobsBecome(r, x)
  <2>1. CASE eraseJob(r, i)
    <3>1. JobsBecome(r, o)
      BY <1>3, <1>a, <2>1, ErasedType
    <3>2. Struck(r, o)'
      BY <1>1, <1>4 DEF Struck, KeepVariable
    <3>3. QED BY <1>1, <1>4, <3>1, <3>2
  <2>2. CASE replaceJob(r, i, n)
    <3>1. JobsBecome(r, n)
      BY <1>3, <1>8, <2>2, ReplacedJob DEF TypeInv, TypeOK
    <3>2. QED BY <1>8, <1>9, <3>1
  <2>3. QED BY <1>2, <1>7, <2>1, <2>2
<1>14. PICK x \in Job : x.kind = "BelieveNotificationJob" /\ Struck(r, x)' /\ JobsBecome(r, x)
  BY <1>13
<1>15. TypeOK'
  BY <1>1, <1>3, <1>12, <1>14 DEF TypeInv, TypeOK, KeepVariable, JobsBecome
<1>16. HasValues'
  BY <1>1, <1>3, <1>14, ValuesKept DEF KeepVariable, JobsBecome
<1>17. UpdateTypeOK'
  BY <1>1, <1>3 DEF UpdateTypeOK, updateVars
<1>18. \A q \in Agents : \A k \in DOMAIN jobs'[q] :
         \/ \E l \in DOMAIN jobs[q] : jobs'[q][k] = jobs[q][l]
         \/ \E y : jobs'[q][k] = y /\ Struck(q, y)'
  <2>1. \A k \in DOMAIN jobs'[r] :
          \/ \E l \in DOMAIN jobs[r] : jobs'[r][k] = jobs[r][l]
          \/ \E y : jobs'[r][k] = y /\ Struck(r, y)'
    BY <1>14 DEF JobsBecome
  <2>2. \A q \in Agents \ {r} : \A k \in DOMAIN jobs'[q] :
          \E l \in DOMAIN jobs[q] : jobs'[q][k] = jobs[q][l]
    BY <1>14 DEF JobsBecome
  <2>3. QED BY <2>1, <2>2
<1>19. StoreGrows
  BY <1>1, KeptGrows
<1>20. TypeInv'
  BY <1>15, <1>16 DEF TypeInv
<1>21. QED BY <1>17, <1>18, <1>19, <1>20, StepKeeps

LEMMA StartBelieveAcknowledgeJobInv ==
  ASSUME UpdateInv, NEW r \in Agents, NEW i \in DOMAIN jobs[r], startBelieveAcknowledgeJob(r, i),
         UNCHANGED restarts, calm' \in BOOLEAN
  PROVE  UpdateInv'
<1>a. PICK o : o = jobs[r][i]
  OBVIOUS
<1>b. PICK m : m = o.notification
  OBVIOUS
<1>c. PICK j : j = [o EXCEPT !.started = TRUE, !.stamp = Ticked(r, m),
                             !.retrys = NotificationRetrys(m),
                             !.expected = o.expected \ Answered(r, m.msgID)]
  OBVIOUS
<1>1. /\ o.kind = "BelieveAcknowledgeJob" /\ AnswerNotification(r, m, Ticked(r, m))
      /\ TakeShortAcks(r, m.msgID) /\ (eraseJob(r, i) \/ replaceJob(r, i, j))
      /\ UNCHANGED <<activeRobots, commands, resends, dups, updateVars>>
  BY <1>a, <1>b, <1>c DEF startBelieveAcknowledgeJob
<1>2. TypeInv /\ UpdateTypeOK
  BY DEF UpdateInv
<1>3. o \in Job /\ m \in Packet("Notification") /\ o.expected \in SUBSET Agents
  BY <1>1, <1>2, <1>a, <1>b, ListedJob, OtherJobFields DEF Packet
<1>4. Ticked(r, m) \in Nat /\ NotificationRetrys(m) \in Retrys(CommandRetrys)
  BY <1>2, <1>3, TickedType
<1>5. j \in Job /\ j.kind = "BelieveAcknowledgeJob"
  <2>1. j = StartedJob(o, Ticked(r, m), NotificationRetrys(m),
                       o.expected \ Answered(r, m.msgID))
    BY <1>c DEF StartedJob
  <2>2. o.expected \ Answered(r, m.msgID) \in SUBSET Agents
    BY <1>3
  <2>3. QED BY <1>1, <1>3, <1>4, <2>1, <2>2, StartedBelieveAcknowledgeJob
<1>6. /\ VariableUpdated(r) /\ StoreGrows
      /\ clock' \in [Agents -> Nat] /\ net' \in [Agents -> SUBSET Message]
  BY <1>1, <1>2, <1>3, <1>4, AnsweredNotification
<1>7. PICK x \in Job : JobsBecome(r, x)
  <2>1. eraseJob(r, i) => JobsBecome(r, o)
    BY <1>2, <1>a, ErasedType
  <2>2. replaceJob(r, i, j) => JobsBecome(r, j)
    BY <1>2, <1>5, ReplacedJob DEF TypeInv, TypeOK
  <2>3. QED BY <1>1, <1>3, <1>5, <2>1, <2>2
<1>8. shortAcks' \in [Agents -> SUBSET Receipt]
  BY <1>1, <1>2, AnsweredRobots
<1>9. TypeOK'
  BY <1>1, <1>2, <1>6, <1>7, <1>8 DEF TypeInv, TypeOK, VariableUpdated, JobsBecome
<1>10. HasValues'
  BY <1>2, <1>6, <1>7, ValuesAfterUpdate DEF JobsBecome
<1>11. JobsKept({"BelieveNotificationJob"})
  <2>1. j.kind \notin {"BelieveNotificationJob"}
    BY <1>5
  <2>2. QED BY <1>1, <1>2, <2>1, EraseKeeps, ReplaceKeeps
<1>12. UpdateTypeOK'
  BY <1>1, <1>2 DEF UpdateTypeOK, updateVars
<1>13. TypeInv'
  BY <1>9, <1>10 DEF TypeInv
<1>14. QED BY <1>6, <1>11, <1>12, <1>13, QuietStepKeeps

LEMMA ProcessBelieveAcknowledgeJobInv ==
  ASSUME UpdateInv, NEW r \in Agents, NEW i \in DOMAIN jobs[r], processBelieveAcknowledgeJob(r, i),
         UNCHANGED restarts, calm' \in BOOLEAN
  PROVE  UpdateInv'
<1>a. PICK o : o = jobs[r][i]
  OBVIOUS
<1>b. PICK m : m = o.notification
  OBVIOUS
<1>c. PICK j : j = [o EXCEPT !.expected = o.expected \ Answered(r, m.msgID)]
  OBVIOUS
<1>1. /\ o.kind = "BelieveAcknowledgeJob" /\ TakeShortAcks(r, m.msgID) /\ KeepVariable
      /\ UNCHANGED <<clock, activeRobots, commands, dups, updateVars>>
  BY <1>a, <1>b DEF processBelieveAcknowledgeJob
<1>2. PICK late \in SUBSET Retryable(j) :
        /\ resend(r, late, {CaceAcknowledge(r, q, m.msgID, m.val, j.stamp) : q \in late})
        /\ eraseJob(r, i) \/ replaceJob(r, i, Resent(j, late))
  BY <1>a, <1>b, <1>c DEF processBelieveAcknowledgeJob
<1>3. TypeInv /\ UpdateTypeOK
  BY DEF UpdateInv
<1>4. /\ o \in Job /\ m \in Message /\ m.msgID \in Nat /\ m.val \in AnyValue
      /\ o.expected \in SUBSET Agents /\ o.stamp \in Nat
  <2>1. o \in Job
    BY <1>3, <1>a, ListedJob
  <2>2. m \in Message /\ m.kind = "Notification" /\ o.expected \in SUBSET Agents /\ o.stamp \in Nat
    BY <1>1, <1>b, <2>1, OtherJobFields
  <2>3. QED BY <2>1, <2>2, MessageFields
<1>5. j \in Job /\ j.kind = "BelieveAcknowledgeJob" /\ j.stamp \in Nat
  <2>1. o.expected \ Answered(r, m.msgID) \in SUBSET Agents
    BY <1>4
  <2>2. QED BY <1>1, <1>4, <1>c, <2>1, ChangedBelieveAcknowledgeJob
<1>6. PICK n : n = Resent(j, late)
  OBVIOUS
<1>7. late \in SUBSET Agents /\ n \in Job /\ n.kind = "BelieveAcknowledgeJob"
  BY <1>5, <1>6, ResentBelieveJob
<1>8. PICK packets : packets = {CaceAcknowledge(r, q, m.msgID, m.val, j.stamp) : q \in late}
  OBVIOUS
<1>9. packets \in SUBSET Message
  BY <1>4, <1>5, <1>7, <1>8, NewAcknowledge
<1>10. resends' \in 0..MaxResends /\ net' \in [Agents -> SUBSET Message]
  BY <1>2, <1>3, <1>7, <1>8, <1>9, ResendType
<1>11. PICK x \in Job : x.kind = "BelieveAcknowledgeJob" /\ JobsBecome(r, x)
  <2>1. eraseJob(r, i) => JobsBecome(r, o)
    BY <1>3, <1>a, ErasedType
  <2>2. replaceJob(r, i, n) => JobsBecome(r, n)
    BY <1>3, <1>7, ReplacedJob DEF TypeInv, TypeOK
  <2>3. QED BY <1>1, <1>2, <1>4, <1>6, <1>7, <2>1, <2>2
<1>12. shortAcks' \in [Agents -> SUBSET Receipt]
  BY <1>1, <1>3, AnsweredRobots
<1>13. TypeOK'
  BY <1>1, <1>3, <1>10, <1>11, <1>12 DEF TypeInv, TypeOK, KeepVariable, JobsBecome
<1>14. HasValues'
  BY <1>1, <1>3, <1>11, ValuesKept DEF KeepVariable, JobsBecome
<1>15. JobsKept({"BelieveNotificationJob"})
  <2>1. n.kind \notin {"BelieveNotificationJob"}
    BY <1>7
  <2>2. QED BY <1>2, <1>3, <1>6, <2>1, EraseKeeps, ReplaceKeeps
<1>16. UpdateTypeOK' /\ StoreGrows
  BY <1>1, <1>3, KeptGrows DEF UpdateTypeOK, updateVars
<1>17. TypeInv'
  BY <1>13, <1>14 DEF TypeInv
<1>18. QED BY <1>15, <1>16, <1>17, QuietStepKeeps

LEMMA StartLateInv ==
  ASSUME UpdateInv, NEW r \in Agents, startLate(r), UNCHANGED restarts, calm' \in BOOLEAN
  PROVE  UpdateInv'
<1>1. TypeOK'
  BY DEF startLate, UpdateInv, TypeInv, TypeOK, KeepVariable, updateVars
<1>2. HasValues'
  BY DEF startLate, UpdateInv, TypeInv, HasValues, existsVariable, KeepVariable
<1>3. UpdateTypeOK' /\ StoreGrows /\ JobsKept({"BelieveNotificationJob"})
  BY KeptGrows DEF startLate, UpdateInv, UpdateTypeOK, JobsKept, updateVars
<1>4. TypeInv'
  BY <1>1, <1>2 DEF TypeInv
<1>5. QED BY <1>3, <1>4, QuietStepKeeps

\* A robot that starts again has an empty store and nothing to do.
LEMMA RestartInv ==
  ASSUME UpdateInv, NEW r \in Agents, restart(r), calm' \in BOOLEAN
  PROVE  UpdateInv'
<1>1. TypeInv /\ UpdateTypeOK
  BY DEF UpdateInv
<1>2. /\ own' = [own EXCEPT ![r] = Absent(r)] /\ proposals' = [proposals EXCEPT ![r] = <<>>]
      /\ jobs' = [jobs EXCEPT ![r] = <<>>]
  BY DEF restart
<1>3. Absent(r) \in Believe(Agents) /\ Absent(r).strat = NoDistribution
  BY DEF Absent, Believe, Strategies, DefaultStrategies, NoDistribution
<1>4. /\ own'[r] = Absent(r) /\ proposals'[r] = <<>> /\ jobs'[r] = <<>>
      /\ \A q \in Agents \ {r} : /\ own'[q] = own[q] /\ proposals'[q] = proposals[q]
                                /\ jobs'[q] = jobs[q]
  BY <1>1, <1>2 DEF TypeInv, TypeOK
<1>5. TypeOK'
  <2>1. own' \in [Agents -> Believe(Agents)]
    BY <1>1, <1>2, <1>3 DEF TypeInv, TypeOK
  <2>2. proposals' \in [Agents -> Seq(Believe(Agents))] /\ jobs' \in [Agents -> Seq(Job)]
    BY <1>1, <1>2 DEF TypeInv, TypeOK
  <2>3. QED BY <1>1, <2>1, <2>2 DEF TypeInv, TypeOK, restart
<1>6. HasValues'
  <2>1. ASSUME NEW q \in Agents \ {r}
        PROVE  (/\ \A k \in DOMAIN proposals[q] : proposals[q][k].val # NoValue
                /\ proposals[q] # <<>> => existsVariable(q)
                /\ \A i \in DOMAIN jobs[q] :
                     jobs[q][i].kind = "CommandAcknowledgeJob" /\ jobs[q][i].started
                       => existsVariable(q))'
    BY <1>1, <1>4 DEF TypeInv, HasValues, existsVariable
  <2>2. QED BY <1>4, <2>1 DEF HasValues
<1>7. UpdateTypeOK'
  BY <1>1 DEF restart, UpdateTypeOK
<1>8. SilentWithoutValue'
  BY <1>3, <1>4 DEF SilentWithoutValue, existsVariable, UpdateInv
<1>9. StruckAreNotified'
  <2>1. ASSUME NEW q \in Agents \ {r}, NEW k \in DOMAIN jobs[q],
               jobs[q][k].kind = "BelieveNotificationJob", NEW j, j = jobs[q][k]
        PROVE  Struck(q, j)'
    BY <1>4, <2>1 DEF UpdateInv, StruckAreNotified, Struck
  <2>2. QED BY <1>4, <2>1 DEF StruckAreNotified
<1>10. QED BY <1>5, <1>6, <1>7, <1>8, <1>9 DEF UpdateInv, TypeInv

-----------------------------------------------------------------------------
LEMMA UpdateInvInit == UpdateInit => UpdateInv
<1> SUFFICES ASSUME UpdateInit PROVE UpdateInv
  OBVIOUS
<1>1. TypeInv
  BY TypeInvInit DEF UpdateInit
<1>2. UpdateTypeOK
  BY DEF UpdateInit, UpdateTypeOK
<1>3. SilentWithoutValue /\ StruckAreNotified
  BY DEF UpdateInit, Init, SilentWithoutValue, StruckAreNotified, Absent
<1>4. QED BY <1>1, <1>2, <1>3 DEF UpdateInv

LEMMA UpdateInvStep == UpdateInv /\ [UpdateNext]_allVars => UpdateInv'
<1> SUFFICES ASSUME UpdateInv, [UpdateNext]_allVars PROVE UpdateInv'
  OBVIOUS
<1>1. CASE UNCHANGED allVars
  <2>1. UNCHANGED vars /\ UNCHANGED <<believeNotifications, updates, restarts, calm>>
    BY <1>1 DEF allVars, updateVars
  <2>2. TypeInv'
    BY <2>1, TypeInvStep DEF UpdateInv
  <2>3. UpdateTypeOK' /\ StoreGrows /\ JobsKept({"BelieveNotificationJob"})
    BY <2>1, KeptGrows DEF UpdateInv, UpdateTypeOK, JobsKept, KeepVariable, vars
  <2>4. QED BY <2>2, <2>3, QuietStepKeeps
<1>2. CASE UpdateNext
  <2>1. calm' \in BOOLEAN /\ UpdateStep
    BY <1>2 DEF UpdateNext, UpdateInv, UpdateTypeOK
  <2>2. CASE Next /\ UNCHANGED <<updateVars, restarts>>
    <3>1. UpdateTypeOK'
      BY <2>1, <2>2 DEF UpdateInv, UpdateTypeOK, updateVars
    <3>2. QED BY <2>2, <3>1, NextUpdateInv
  <2>3. ASSUME NEW r \in Agents, UNCHANGED restarts,
               \/ \E q \in Agents : agentEngangementAndUpdate(r, q)
               \/ changeScopeAndRestoreConsistency(r)
               \/ \E m \in net[r] : handleCaceBelieveNotification(r, m)
               \/ takeNotification(r)
               \/ \E i \in DOMAIN jobs[r] : ProcessUpdate(r, i)
               \/ startLate(r)
        PROVE  UpdateInv'
    BY <2>1, <2>3, NotifyInv, HandleCaceBelieveNotificationInv,
       TakeNotificationInv, ProcessBelieveNotificationJobInv, StartBelieveAcknowledgeJobInv,
       ProcessBelieveAcknowledgeJobInv, StartLateInv DEF ProcessUpdate
  <2>4. QED BY <2>1, <2>2, <2>3, RestartInv DEF UpdateStep
<1>3. QED BY <1>1, <1>2

\* The inductive invariant holds in every state of UpdateSpec.
THEOREM UpdateInvCorrect == UpdateSpec => []UpdateInv
BY UpdateInvInit, UpdateInvStep, PTL DEF UpdateSpec

-----------------------------------------------------------------------------
\* Type correctness, with believe updates, robots that come late and robots that start
\* again: what a robot takes for a notification is one, and nobody answers one or
\* repeats one without a value to send (BelieveNotificationJob::process and
\* BelieveAcknowledgeJob::process read the value of the variable they look up).
THEOREM UpdateTypeCorrect == UpdateSpec => [](TypeOK /\ UpdateTypeOK)
<1>1. UpdateInv => TypeOK /\ UpdateTypeOK
  BY DEF UpdateInv, TypeInv
<1>2. QED BY <1>1, UpdateInvCorrect, PTL

LEMMA DistributingStrategies == \A s \in Strategies : s <= NoDistribution => s = NoDistribution
BY DEF Strategies, SetStrategies, ElectionStrategies, MostRecentStrategies, LowestIDStrategies,
       DefaultStrategies, NoDistribution, FireAndForget, TwoWayHandShake, ThreeWayHandShake

\* What BelieveNotificationJob::process looks at when it gives up.
LEMMA GivenUpNotification ==
  ASSUME UpdateInv, NEW r \in Agents, NEW i \in DOMAIN jobs[r], processBelieveNotificationJob(r, i),
         Len(jobs'[r]) < Len(jobs[r]), own[r].strat # NoDistribution,
         NEW q \in DOMAIN jobs[r][i].retrys
  PROVE  \/ own[r].strat > FireAndForget /\ jobs[r][i].retrys[q] = 0
         \/ \E k \in DOMAIN proposals[r] :
              proposals[r][k].id = q /\ proposals[r][k].age >= jobs[r][i].stamp
<1>a. PICK o : o = jobs[r][i]
  OBVIOUS
<1>b. PICK j : j = [o EXCEPT !.expected = Unanswered(r, o)]
  OBVIOUS
<1>1. /\ o.kind = "BelieveNotificationJob"
      /\ \/ j.expected = {}
         \/ own[r].strat > FireAndForget /\ Retryable(j) = {}
         \/ own[r].strat <= NoDistribution
         \/ \E late \in SUBSET Retryable(j) : replaceJob(r, i, Resent(j, late))
  BY <1>a, <1>b DEF processBelieveNotificationJob
<1>2. TypeInv /\ o \in Job /\ Struck(r, o)
  BY <1>1, <1>a, ListedJob DEF UpdateInv, StruckAreNotified
<1>3. o.expected \in SUBSET Agents /\ o.retrys \in Retrys(CommandRetrys)
  BY <1>1, <1>2, OtherJobFields
<1>4. j \in Job /\ j.kind = "BelieveNotificationJob" /\ j.expected = Unanswered(r, o)
      /\ j.retrys = o.retrys
  <2>1. Unanswered(r, o) \in SUBSET Agents
    BY <1>3 DEF Unanswered
  <2>2. \A robots \in SUBSET Agents : LET x == [o EXCEPT !.expected = robots]
          IN  /\ x \in Job /\ x.kind = o.kind /\ x.msgID = o.msgID
              /\ x.expected = robots /\ x.stamp = o.stamp /\ x.retrys = o.retrys
    BY <1>1, <1>2, ChangedBelieveNotificationJob, Zenon
  <2>3. QED BY <1>1, <1>b, <2>1, <2>2
<1>5. \A late \in SUBSET Retryable(j) : ~replaceJob(r, i, Resent(j, late))
  <2> SUFFICES ASSUME NEW late \in SUBSET Retryable(j), replaceJob(r, i, Resent(j, late))
               PROVE  FALSE
    OBVIOUS
  <2>1. Resent(j, late) \in Job
    BY <1>4, ResentBelieveJob
  <2>2. Len(jobs'[r]) = Len(jobs[r]) /\ Len(jobs[r]) \in Nat
    BY <1>2, <2>1, ReplacedLength, LenProperties DEF TypeInv, TypeOK
  <2>3. QED BY <2>2
<1>6. ~(own[r].strat <= NoDistribution)
  <2>1. own[r].strat \in Strategies
    BY <1>2 DEF TypeInv, TypeOK, Believe
  <2>2. QED BY <2>1, DistributingStrategies
<1>7. o.retrys[q] \in Nat
  <2>1. PICK f : f = o.retrys
    OBVIOUS
  <2>2. q \in DOMAIN f /\ f \in Retrys(CommandRetrys)
    BY <1>3, <1>a, <2>1
  <2>3. PICK S \in SUBSET Agents : f \in [S -> 0..CommandRetrys]
    BY <2>2 DEF Retrys
  <2>4. f[q] \in 0..CommandRetrys
    BY <2>2, <2>3
  <2>5. QED BY <2>1, <2>4
<1>8. CASE q \notin Unanswered(r, o)
  <2>1. CASE q \in o.expected
    BY <1>8, <1>a, <2>1 DEF Unanswered
  <2>2. CASE q \notin o.expected
    BY <1>2, <1>a, <2>2 DEF Struck
  <2>3. QED BY <2>1, <2>2
<1>9. CASE q \in Unanswered(r, o)
  <2>1. own[r].strat > FireAndForget /\ Retryable(j) = {}
    BY <1>1, <1>4, <1>5, <1>6, <1>9
  <2>2. ~(o.retrys[q] > 0)
    BY <1>4, <1>9, <1>a, <2>1 DEF Retryable
  <2>3. QED BY <1>7, <1>a, <2>1, <2>2
<1>10. QED BY <1>8, <1>9

\* A notification is given up only when the robot it is for has a proposal not older
\* than the job, when its repetitions are used up, or when the variable is not
\* distributed any more: however often robots start again, whatever is lost or
\* comes twice, and whatever the strategy becomes meanwhile.
THEOREM NotificationsAnswered == UpdateSpec => NotificationEndsAnswered
<1>1. UpdateInv /\ [UpdateNext]_allVars =>
        [\A r \in Agents : \A i \in DOMAIN jobs[r] :
           processBelieveNotificationJob(r, i) /\ Len(jobs'[r]) < Len(jobs[r])
             /\ own[r].strat # NoDistribution =>
             \A q \in DOMAIN jobs[r][i].retrys :
               \/ own[r].strat > FireAndForget /\ jobs[r][i].retrys[q] = 0
               \/ \E k \in DOMAIN proposals[r] :
                    proposals[r][k].id = q /\ proposals[r][k].age >= jobs[r][i].stamp]_allVars
  BY GivenUpNotification
<1>2. QED BY <1>1, UpdateInvCorrect, PTL DEF UpdateSpec, NotificationEndsAnswered

-----------------------------------------------------------------------------
(***************************************************************************)
(* The Lamport clocks, and what a robot that starts again with its clock   *)
(* at 1 leaves of them.  The inductive invariant speaks of the stamps of   *)
(* all packets, jobs and believes.  What a robot keeps is not newer than   *)
(* its own clock, whoever starts again; what it has sent is not newer than *)
(* its clock as long as no robot has started again.                        *)
(***************************************************************************)
Stamped(m) ==
  /\ restarts = 0 => m.stamp <= clock[m.from]
  /\ m.kind \in {"Command", "Notification"} => m.level \in UsedStrategies

\* Robot r has received packet m, and its clock knows.
Came(r, m) == m.from # r /\ Stamped(m) /\ m.stamp <= clock[r]

StampedKinds ==
  {"CommandJob", "CommandAcknowledgeJob", "BelieveNotificationJob", "BelieveAcknowledgeJob"}

StampedJob(r, j) ==
  /\ j.kind \in StampedKinds => j.stamp <= clock[r]
  /\ j.kind = "CommandAcknowledgeJob" => Came(r, j.cmd)
  /\ j.kind = "BelieveAcknowledgeJob" => Came(r, j.notification)
  /\ j.kind = "ShortAckJob" => Came(r, j.ack)

StampedProposal(r, b) ==
  /\ b.id # r
  /\ b.age <= clock[r]
  /\ restarts = 0 => b.age <= clock[b.id]
  /\ b.strat \in UsedStrategies

StampedVariable(r) ==
  /\ own[r].age <= clock[r]
  /\ own[r].strat \in UsedStrategies
  /\ ~existsVariable(r) => own[r].age = 0
  /\ \A k \in DOMAIN proposals[r] : StampedProposal(r, proposals[r][k])
  /\ OneOfEach(r)

StampedNet == \A r \in Agents : \A m \in net[r] : m.from # r /\ Stamped(m)
StampedJobs == \A r \in Agents : \A i \in DOMAIN jobs[r] : StampedJob(r, jobs[r][i])
StampedNotifications ==
  \A r \in Agents : \A i \in DOMAIN believeNotifications[r] : Came(r, believeNotifications[r][i])
StampedVariables == \A r \in Agents : StampedVariable(r)

StampInv == UpdateInv /\ StampedNet /\ StampedJobs /\ StampedNotifications /\ StampedVariables

-----------------------------------------------------------------------------
(***************************************************************************)
(* What a clock that does not go back has reached, it has reached for      *)
(* good.                                                                   *)
(***************************************************************************)
\* Before the first restart no clock goes back.
Passes == restarts' = 0 => restarts = 0 /\ \A p \in Agents : clock[p] <= clock'[p]

LEMMA ClocksAreNumbers ==
  ASSUME UpdateInv, UpdateInv', NEW p \in Agents
  PROVE  clock[p] \in Nat /\ clock'[p] \in Nat
BY DEF UpdateInv, TypeInv, TypeOK

LEMMA PacketStaysStamped ==
  ASSUME UpdateInv, UpdateInv', Passes, NEW m \in Message, Stamped(m)
  PROVE  Stamped(m)'
<1>1. m.from \in Agents /\ m.stamp \in Nat
  BY MessageFields
<1>2. clock[m.from] \in Nat /\ clock'[m.from] \in Nat
  BY <1>1, ClocksAreNumbers
<1>3. ASSUME restarts' = 0 PROVE m.stamp <= clock'[m.from]
  <2>1. restarts = 0 /\ clock[m.from] <= clock'[m.from]
    BY <1>1, <1>3 DEF Passes
  <2>2. m.stamp <= clock[m.from]
    BY <2>1 DEF Stamped
  <2>3. QED BY <1>1, <1>2, <2>1, <2>2
<1>4. QED BY <1>3 DEF Stamped

LEMMA CameStays ==
  ASSUME UpdateInv, UpdateInv', Passes, NEW r \in Agents, clock[r] <= clock'[r],
         NEW m \in Message, Came(r, m)
  PROVE  Came(r, m)'
<1>1. Stamped(m)'
  BY PacketStaysStamped DEF Came
<1>2. m.stamp <= clock'[r]
  BY ClocksAreNumbers, MessageFields DEF Came
<1>3. QED BY <1>1, <1>2 DEF Came

LEMMA JobStaysStamped ==
  ASSUME UpdateInv, UpdateInv', Passes, NEW r \in Agents, clock[r] <= clock'[r],
         NEW j \in Job, StampedJob(r, j)
  PROVE  StampedJob(r, j)'
<1>1. j.kind \in StampedKinds => j.stamp <= clock'[r]
  <2>1. j.kind \in StampedKinds => j.stamp \in Nat
    BY JobFields, OtherJobFields DEF StampedKinds
  <2>2. clock[r] \in Nat /\ clock'[r] \in Nat
    BY ClocksAreNumbers
  <2>3. QED BY <2>1, <2>2 DEF StampedJob
<1>2. j.kind = "CommandAcknowledgeJob" => Came(r, j.cmd)'
  BY JobFields, CameStays DEF StampedJob
<1>3. j.kind = "BelieveAcknowledgeJob" => Came(r, j.notification)'
  BY OtherJobFields, CameStays DEF StampedJob
<1>4. j.kind = "ShortAckJob" => Came(r, j.ack)'
  BY JobFields, CameStays DEF StampedJob
<1>5. QED BY <1>1, <1>2, <1>3, <1>4 DEF StampedJob

LEMMA ProposalStaysStamped ==
  ASSUME UpdateInv, UpdateInv', Passes, NEW r \in Agents, clock[r] <= clock'[r],
         NEW b \in Believe(Agents), StampedProposal(r, b)
  PROVE  StampedProposal(r, b)'
<1>1. b.id \in Agents /\ b.age \in Nat
  BY DEF Believe
<1>2. /\ clock[r] \in Nat /\ clock'[r] \in Nat
      /\ clock[b.id] \in Nat /\ clock'[b.id] \in Nat
  BY <1>1, ClocksAreNumbers
<1>3. b.age <= clock'[r]
  BY <1>1, <1>2 DEF StampedProposal
<1>4. ASSUME restarts' = 0 PROVE b.age <= clock'[b.id]
  <2>1. restarts = 0 /\ clock[b.id] <= clock'[b.id]
    BY <1>1, <1>4 DEF Passes
  <2>2. b.age <= clock[b.id]
    BY <2>1 DEF StampedProposal
  <2>3. QED BY <1>1, <1>2, <2>1, <2>2
<1>5. QED BY <1>3, <1>4 DEF StampedProposal

LEMMA VariableStaysStamped ==
  ASSUME UpdateInv, UpdateInv', Passes, NEW r \in Agents, clock[r] <= clock'[r],
         StampedVariable(r), own'[r] = own[r], proposals'[r] = proposals[r]
  PROVE  StampedVariable(r)'
<1>1. own[r].age \in Nat
  BY DEF UpdateInv, TypeInv, TypeOK, Believe
<1>2. own[r].age <= clock'[r]
  BY <1>1, ClocksAreNumbers DEF StampedVariable
<1>3. \A k \in DOMAIN proposals[r] : StampedProposal(r, proposals[r][k])'
  <2> SUFFICES ASSUME NEW k \in DOMAIN proposals[r], NEW b, b = proposals[r][k]
               PROVE  StampedProposal(r, b)'
    BY DEF StampedProposal
  <2>1. b \in Believe(Agents) /\ StampedProposal(r, b)
    BY ListedProposal DEF StampedVariable, UpdateInv
  <2>2. QED BY <2>1, ProposalStaysStamped
<1>4. OneOfEach(r)'
  BY DEF StampedVariable, OneOfEach
<1>5. QED BY <1>2, <1>3, <1>4 DEF StampedVariable, StampedProposal, existsVariable

\* A notification that waits.
LEMMA WaitingNotification ==
  ASSUME UpdateInv, NEW r \in Agents, NEW i \in DOMAIN believeNotifications[r]
  PROVE  believeNotifications[r][i] \in Message
<1>1. believeNotifications[r] \in Seq(Packet("Notification"))
  BY DEF UpdateInv, UpdateTypeOK
<1>2. believeNotifications[r][i] \in Packet("Notification")
  BY <1>1, ElementOfSeq, LenProperties
<1>3. QED BY <1>2 DEF Packet

-----------------------------------------------------------------------------
(***************************************************************************)
(* What a step of robot r must show: the packets it sends, the jobs and    *)
(* notifications it keeps, its own variable.                               *)
(***************************************************************************)
\* The packets robot r sends.
Sent(r, m) == m.from = r /\ Stamped(m)

PacketsSent(r) == \A q \in Agents : \A m \in net'[q] : m \in net[q] \/ (q # r /\ Sent(r, m)')

\* Robot r's lists hold nothing but what they held and what is stamped.
JobsTaken(r) ==
  \A k \in DOMAIN jobs'[r] :
    \/ \E l \in DOMAIN jobs[r] : jobs'[r][k] = jobs[r][l]
    \/ \E j : jobs'[r][k] = j /\ StampedJob(r, j)'

NotificationsTaken(r) ==
  \A k \in DOMAIN believeNotifications'[r] :
    \/ \E l \in DOMAIN believeNotifications[r] :
         believeNotifications'[r][k] = believeNotifications[r][l]
    \/ \E m : believeNotifications'[r][k] = m /\ Came(r, m)'

\* Robot q does nothing.
Rests(q) ==
  UNCHANGED <<clock[q], own[q], proposals[q], jobs[q], believeNotifications[q]>>

\* Robot r's clock moves, forward, and no other robot does anything.
Moves(r) ==
  /\ UNCHANGED restarts
  /\ clock[r] <= clock'[r]
  /\ \A q \in Agents \ {r} : Rests(q)

LEMMA ClocksPass ==
  ASSUME UpdateInv, NEW r \in Agents, UNCHANGED restarts, clock[r] <= clock'[r],
         \A q \in Agents \ {r} : clock'[q] = clock[q]
  PROVE  Passes /\ \A q \in Agents : clock[q] <= clock'[q]
<1>1. \A q \in Agents : clock[q] \in Nat
  BY DEF UpdateInv, TypeInv, TypeOK
<1>2. \A q \in Agents : clock[q] <= clock'[q]
  BY <1>1
<1>3. QED BY <1>2 DEF Passes

LEMMA NetStaysStamped ==
  ASSUME StampInv, UpdateInv', Passes, NEW r \in Agents, PacketsSent(r)
  PROVE  StampedNet'
<1> SUFFICES ASSUME NEW q \in Agents, NEW m \in net'[q]
             PROVE  m.from # q /\ Stamped(m)'
  BY DEF StampedNet, Stamped
<1>1. CASE m \in net[q]
  <2>1. m \in Message /\ m.from # q /\ Stamped(m)
    BY <1>1 DEF StampInv, StampedNet, UpdateInv, TypeInv, TypeOK
  <2>2. QED BY <2>1, PacketStaysStamped DEF StampInv
<1>2. CASE q # r /\ Sent(r, m)'
  BY <1>2 DEF Sent
<1>3. QED BY <1>1, <1>2 DEF PacketsSent

LEMMA JobsStayStamped ==
  ASSUME StampInv, UpdateInv', Passes, NEW q \in Agents, clock[q] <= clock'[q], JobsTaken(q)
  PROVE  \A i \in DOMAIN jobs'[q] : \A j : j = jobs'[q][i] => StampedJob(q, j)'
<1> SUFFICES ASSUME NEW i \in DOMAIN jobs'[q], NEW j, j = jobs'[q][i]
             PROVE  StampedJob(q, j)'
  OBVIOUS
<1>1. ASSUME NEW l \in DOMAIN jobs[q], j = jobs[q][l] PROVE StampedJob(q, j)'
  <2>1. j \in Job /\ StampedJob(q, j)
    BY <1>1, ListedJob DEF StampInv, StampedJobs, UpdateInv
  <2>2. QED BY <2>1, JobStaysStamped DEF StampInv
<1>2. QED BY <1>1 DEF JobsTaken

LEMMA NotificationsStayStamped ==
  ASSUME StampInv, UpdateInv', Passes, NEW q \in Agents, clock[q] <= clock'[q],
         NotificationsTaken(q)
  PROVE  \A i \in DOMAIN believeNotifications'[q] : \A m :
           m = believeNotifications'[q][i] => Came(q, m)'
<1> SUFFICES ASSUME NEW i \in DOMAIN believeNotifications'[q], NEW m,
                    m = believeNotifications'[q][i]
             PROVE  Came(q, m)'
  OBVIOUS
<1>1. ASSUME NEW l \in DOMAIN believeNotifications[q], m = believeNotifications[q][l]
      PROVE  Came(q, m)'
  <2>1. m \in Message /\ Came(q, m)
    BY <1>1, WaitingNotification DEF StampInv, StampedNotifications
  <2>2. QED BY <2>1, CameStays DEF StampInv
<1>2. QED BY <1>1 DEF NotificationsTaken

\* A robot that does nothing keeps what it has.
LEMMA RestingRobot ==
  ASSUME StampInv, UpdateInv', Passes, NEW q \in Agents, Rests(q)
  PROVE  /\ clock[q] <= clock'[q] /\ JobsTaken(q) /\ NotificationsTaken(q)
         /\ StampedVariable(q)'
<1>1. clock[q] <= clock'[q]
  BY ClocksAreNumbers DEF StampInv, Rests
<1>2. StampedVariable(q)'
  BY <1>1, VariableStaysStamped DEF StampInv, StampedVariables, Rests
<1>3. QED BY <1>1, <1>2 DEF JobsTaken, NotificationsTaken, Rests

\* The parts of the invariant, robot by robot.
LEMMA RobotsStamped ==
  ASSUME UpdateInv', StampedNet',
         \A q \in Agents :
           /\ \A i \in DOMAIN jobs'[q] : \A j : j = jobs'[q][i] => StampedJob(q, j)'
           /\ \A i \in DOMAIN believeNotifications'[q] : \A m :
                m = believeNotifications'[q][i] => Came(q, m)'
           /\ StampedVariable(q)'
  PROVE  StampInv'
<1>1. StampedJobs'
  BY SMTT(30) DEF StampedJobs, StampedJob, Came, Stamped
<1>2. StampedNotifications'
  BY SMTT(30) DEF StampedNotifications, Came, Stamped
<1>3. StampedVariables'
  BY DEF StampedVariables
<1>4. QED BY <1>1, <1>2, <1>3 DEF StampInv

LEMMA StampStep ==
  ASSUME StampInv, UpdateInv', NEW r \in Agents, Moves(r), PacketsSent(r), JobsTaken(r),
         NotificationsTaken(r), StampedVariable(r)'
  PROVE  StampInv'
<1>1. Passes /\ clock[r] <= clock'[r]
  BY ClocksPass DEF StampInv, Moves, Rests
<1>2. StampedNet'
  BY <1>1, NetStaysStamped
<1>3. ASSUME NEW q \in Agents
      PROVE  /\ clock[q] <= clock'[q] /\ JobsTaken(q) /\ NotificationsTaken(q)
             /\ StampedVariable(q)'
  BY <1>1, RestingRobot DEF Moves
<1>4. ASSUME NEW q \in Agents
      PROVE  /\ \A i \in DOMAIN jobs'[q] : \A j : j = jobs'[q][i] => StampedJob(q, j)'
             /\ \A i \in DOMAIN believeNotifications'[q] : \A m :
                  m = believeNotifications'[q][i] => Came(q, m)'
  BY <1>1, <1>3, JobsStayStamped, NotificationsStayStamped
<1>5. QED BY <1>2, <1>3, <1>4, RobotsStamped

-----------------------------------------------------------------------------
(***************************************************************************)
(* doVariableUpdate with a packet that came.                               *)
(***************************************************************************)
LEMMA StampedMeansUsed ==
  ASSUME StampInv, NEW r \in Agents
  PROVE  UsedVariable(r) /\ OneOfEach(r) /\ DatedBelieve(r)
BY DEF StampInv, StampedVariables, StampedVariable, StampedProposal, UsedVariable, DatedBelieve

LEMMA UpdateStaysStamped ==
  ASSUME StampInv, UpdateInv', Passes, NEW r \in Agents, clock[r] <= clock'[r],
         NEW m \in Message, m.from # r, Stamped(m), m.stamp <= clock'[r],
         NEW created \in Valued, created.age <= m.stamp, created.strat \in UsedStrategies,
         NEW props \in Seq(Valued), props # <<>>, BroughtProposals(r, m, props),
         DoVariableUpdate(r, created, props)
  PROVE  StampedVariable(r)'
<1>a. UpdateInv /\ TypeInv /\ TypeInv'
  BY DEF StampInv, UpdateInv
<1>1. PICK b \in IF props = proposals[r] THEN {own[r]}
                 ELSE AcceptProposals(OwnBefore(r, created), props) :
        own' = [own EXCEPT ![r] = b]
  BY DEF DoVariableUpdate
<1>2. /\ own \in [Agents -> Believe(Agents)] /\ proposals \in [Agents -> Seq(Believe(Agents))]
      /\ clock[r] \in Nat /\ clock'[r] \in Nat /\ m.stamp \in Nat
  BY <1>a, MessageFields DEF TypeInv, TypeOK
<1>3. own'[r] = b /\ proposals'[r] = props
  BY <1>1, <1>2 DEF DoVariableUpdate
<1>4. /\ \A k \in DOMAIN props :
           (k \in DOMAIN proposals[r] /\ props[k] = proposals[r][k]) \/ Brought(m, props[k])
      /\ \A k, l \in DOMAIN props : props[k].id = props[l].id => k = l
  BY <1>a, RenewedProposals, StampedMeansUsed
<1>5. \A k \in DOMAIN props : StampedProposal(r, props[k])'
  <2> SUFFICES ASSUME NEW k \in DOMAIN props, NEW p, p = props[k]
               PROVE  StampedProposal(r, p)'
    BY <1>3 DEF StampedProposal
  <2>1. CASE k \in DOMAIN proposals[r] /\ p = proposals[r][k]
    <3>1. p \in Believe(Agents) /\ StampedProposal(r, p)
      BY <1>a, <2>1, ListedProposal DEF StampInv, StampedVariables, StampedVariable
    <3>2. QED BY <1>a, <3>1, ProposalStaysStamped
  <2>2. CASE Brought(m, p)
    <3>1. Stamped(m)'
      BY <1>a, PacketStaysStamped
    <3>2. QED BY <2>2, <3>1 DEF Brought, StampedProposal, Stamped
  <2>3. QED BY <1>4, <2>1, <2>2
<1>6. b.age <= clock'[r] /\ b.strat \in UsedStrategies
  <2>1. own[r].age <= clock'[r] /\ own[r].strat \in UsedStrategies
    <3>1. own[r].age <= clock[r] /\ own[r].age \in Nat /\ own[r].strat \in UsedStrategies
      BY <1>2 DEF StampInv, StampedVariables, StampedVariable, Believe
    <3>2. QED BY <1>2, <3>1
  <2>2. created.age <= clock'[r]
    <3>1. created.age \in Nat
      BY DEF Valued, Believe
    <3>2. QED BY <1>2, <3>1
  <2>3. CASE props = proposals[r]
    BY <1>1, <2>1, <2>3
  <2>4. CASE props # proposals[r]
    <3> DEFINE o == OwnBefore(r, created)
    <3>1. o \in Valued /\ o.age <= clock'[r] /\ o.strat \in UsedStrategies
      BY <1>2, <2>1, <2>2 DEF OwnBefore, existsVariable, Valued
    <3>2. b \in AcceptProposals(o, props)
      BY <1>1, <2>4
    <3> HIDE DEF o
    <3>3. \/ b = o
          \/ \E k \in DOMAIN props :
               b.val = props[k].val /\ b.age = props[k].age /\ b.strat = props[k].strat
      BY <3>1, <3>2, AcceptedOne
    <3>4. \A k \in DOMAIN props : props[k].age <= clock'[r] /\ props[k].strat \in UsedStrategies
      BY <1>5 DEF StampedProposal
    <3>5. QED BY <3>1, <3>3, <3>4
  <2>5. QED BY <2>3, <2>4
<1>7. own'[r].val # NoValue
  <2>1. noted' \in [Agents -> SUBSET Receipt]
    BY <1>a DEF TypeInv, TypeOK
  <2>2. VariableUpdated(r)
    BY <1>a, <2>1, UpdatedVariable
  <2>3. QED BY <2>2 DEF VariableUpdated, Valued
<1>8. OneOfEach(r)'
  BY <1>3, <1>4 DEF OneOfEach
<1>9. QED BY <1>3, <1>5, <1>6, <1>7, <1>8 DEF StampedVariable, StampedProposal, existsVariable

\* A packet robot r takes, when its clock knows.
Takes(r, m) == m \in Message /\ m.from # r /\ Stamped(m) /\ m.stamp <= clock'[r]

LEMMA CommandStaysStamped ==
  ASSUME StampInv, UpdateInv', Passes, NEW r \in Agents, clock[r] <= clock'[r],
         NEW m, Takes(r, m), m.kind = "Command", UpdateByCommand(r, m)
  PROVE  StampedVariable(r)'
<1> DEFINE props == ProposalsAfterCommand(r, m)
           created == CreatedByCommand(r, m)
<1>1. /\ DoVariableUpdate(r, created, props) /\ m \in Message /\ m.level \in UsedStrategies
      /\ m.from # r /\ Stamped(m) /\ m.stamp <= clock'[r]
  BY DEF UpdateByCommand, Takes, Stamped
<1>2. props \in Seq(Valued) /\ props # <<>>
  BY <1>1, NewProposals DEF StampInv, UpdateInv
<1>3. BroughtProposals(r, m, props)
  BY <1>1, ProposalsBrought, StampedMeansUsed
<1>4. created \in Valued
  BY <1>1, CreatedBelieves
<1>5. created.age <= m.stamp /\ created.strat \in UsedStrategies
  BY <1>1, MessageFields DEF CreatedByCommand
<1> HIDE DEF props, created
<1>6. QED BY <1>1, <1>2, <1>3, <1>4, <1>5, UpdateStaysStamped

LEMMA AckStaysStamped ==
  ASSUME StampInv, UpdateInv', Passes, NEW r \in Agents, clock[r] <= clock'[r],
         NEW m, Takes(r, m), m.kind = "Acknowledge", UpdateByAck(r, m)
  PROVE  StampedVariable(r)'
<1> DEFINE props == ProposalsAfterAck(r, m)
           created == CreatedByAck(r, m)
<1>1. /\ DoVariableUpdate(r, created, props) /\ m \in Message
      /\ m.from # r /\ Stamped(m) /\ m.stamp <= clock'[r]
  BY DEF UpdateByAck, Takes
<1>2. props \in Seq(Valued) /\ props # <<>>
  BY <1>1, NewProposals DEF StampInv, UpdateInv
<1>3. BroughtProposals(r, m, props)
  BY <1>1, ProposalsBrought, StampedMeansUsed
<1>4. created \in Valued
  BY <1>1, CreatedBelieves
<1>5. created.age <= m.stamp /\ created.strat \in UsedStrategies
  BY <1>1, MessageFields, StrategiesUsed DEF CreatedByAck
<1> HIDE DEF props, created
<1>6. QED BY <1>1, <1>2, <1>3, <1>4, <1>5, UpdateStaysStamped

\* What a robot creates when it is told.
LEMMA CreatedByNotificationType ==
  ASSUME NEW r \in Agents, NEW m \in Message, m.kind = "Notification"
  PROVE  CreatedByNotification(r, m) \in Valued
BY MessageFields DEF CreatedByNotification, Valued, Believe, AnyValue

LEMMA NotificationStaysStamped ==
  ASSUME StampInv, UpdateInv', Passes, NEW r \in Agents, clock[r] <= clock'[r],
         NEW m, Takes(r, m), m.kind = "Notification", UpdateByNotification(r, m)
  PROVE  StampedVariable(r)'
<1> DEFINE props == ProposalsAfterCommand(r, m)
           created == CreatedByNotification(r, m)
<1>1. /\ DoVariableUpdate(r, created, props) /\ m \in Message /\ m.level \in UsedStrategies
      /\ m.from # r /\ Stamped(m) /\ m.stamp <= clock'[r]
  BY DEF UpdateByNotification, Takes, Stamped
<1>2. props \in Seq(Valued) /\ props # <<>>
  BY <1>1, NewProposals DEF StampInv, UpdateInv
<1>3. BroughtProposals(r, m, props)
  BY <1>1, ProposalsBrought, StampedMeansUsed
<1>4. created \in Valued
  BY <1>1, CreatedByNotificationType
<1>5. created.age <= m.stamp /\ created.strat \in UsedStrategies
  BY <1>1, MessageFields DEF CreatedByNotification
<1> HIDE DEF props, created
<1>6. QED BY <1>1, <1>2, <1>3, <1>4, <1>5, UpdateStaysStamped

-----------------------------------------------------------------------------
(***************************************************************************)
(* The parts of a step.                                                    *)
(***************************************************************************)
\* Only the clock of robot r moves, forward.
Ahead(r) == clock[r] <= clock'[r] /\ \A q \in Agents \ {r} : clock'[q] = clock[q]

StoreOf(r) == \A q \in Agents \ {r} : own'[q] = own[q] /\ proposals'[q] = proposals[q]

JobsOf(r) == JobsTaken(r) /\ \A q \in Agents \ {r} : jobs'[q] = jobs[q]

LEMMA CommandStep ==
  ASSUME StampInv, UpdateInv', NEW r \in Agents, UNCHANGED <<updateVars, restarts>>,
         Ahead(r), PacketsSent(r), JobsOf(r), StoreOf(r), StampedVariable(r)'
  PROVE  StampInv'
<1>1. UNCHANGED <<believeNotifications, restarts>>
  BY DEF updateVars
<1>2. Moves(r) /\ NotificationsTaken(r) /\ JobsTaken(r)
  BY <1>1 DEF Moves, Rests, NotificationsTaken, Ahead, JobsOf, StoreOf
<1>3. QED BY <1>2, StampStep

LEMMA AheadPasses ==
  ASSUME StampInv, NEW r \in Agents, UNCHANGED restarts, Ahead(r)
  PROVE  Passes /\ clock[r] <= clock'[r]
BY ClocksPass DEF StampInv, Ahead

LEMMA ClockAhead ==
  ASSUME StampInv, NEW r \in Agents, NEW c \in Nat, c >= clock[r],
         clock' = [clock EXCEPT ![r] = c]
  PROVE  Ahead(r) /\ clock'[r] = c
BY DEF StampInv, UpdateInv, TypeInv, TypeOK, Ahead

LEMMA ClockKept ==
  ASSUME StampInv, NEW r \in Agents, UNCHANGED clock
  PROVE  Ahead(r) /\ clock[r] \in Nat
<1>1. clock[r] \in Nat
  BY DEF StampInv, UpdateInv, TypeInv, TypeOK
<1>2. QED BY <1>1 DEF Ahead

\* A packet read off the network, by a robot whose clock takes its stamp.
LEMMA PacketTaken ==
  ASSUME StampInv, NEW r \in Agents, NEW m \in net[r], NEW c \in Nat, c >= Seen(clock[r], m.stamp),
         clock' = [clock EXCEPT ![r] = c]
  PROVE  /\ Ahead(r) /\ clock'[r] = c /\ Takes(r, m)
         /\ m.stamp \in Nat /\ Seen(clock[r], m.stamp) \in Nat
<1>1. m \in Message /\ m.from # r /\ Stamped(m) /\ clock[r] \in Nat
  BY DEF StampInv, StampedNet, UpdateInv, TypeInv, TypeOK
<1>2. m.stamp \in Nat
  BY <1>1, MessageFields
<1>3. /\ Seen(clock[r], m.stamp) \in Nat /\ Seen(clock[r], m.stamp) >= clock[r]
      /\ Seen(clock[r], m.stamp) >= m.stamp
  BY <1>1, <1>2, SeenBounds
<1>4. c >= clock[r] /\ c >= m.stamp
  BY <1>1, <1>2, <1>3
<1>5. Ahead(r) /\ clock'[r] = c
  BY <1>4, ClockAhead
<1>6. QED BY <1>1, <1>2, <1>3, <1>4, <1>5 DEF Takes

\* A packet taken has come once the step is done.
LEMMA TakenHasCome ==
  ASSUME StampInv, UpdateInv', NEW r \in Agents, UNCHANGED restarts, Ahead(r), NEW m, Takes(r, m)
  PROVE  Came(r, m)'
<1>1. Passes
  BY AheadPasses
<1>2. Stamped(m)'
  BY <1>1, PacketStaysStamped DEF Takes, StampInv
<1>3. QED BY <1>2 DEF Takes, Came

\* A packet or a job that is there is a job or packet of the type, and stamped.
LEMMA VariableKept ==
  ASSUME StampInv, UpdateInv', NEW r \in Agents, UNCHANGED restarts, Ahead(r), KeepVariable
  PROVE  StoreOf(r) /\ StampedVariable(r)'
<1>1. Passes /\ clock[r] <= clock'[r]
  BY AheadPasses
<1>2. StampedVariable(r) /\ own'[r] = own[r] /\ proposals'[r] = proposals[r]
  BY DEF KeepVariable, StampInv, StampedVariables
<1>3. QED BY <1>1, <1>2, VariableStaysStamped DEF KeepVariable, StampInv, StoreOf

LEMMA UpdateOfOne ==
  ASSUME NEW r \in Agents, NEW created, NEW props, DoVariableUpdate(r, created, props), StampInv
  PROVE  StoreOf(r)
<1>1. PICK b : own' = [own EXCEPT ![r] = b] /\ proposals' = [proposals EXCEPT ![r] = props]
  BY DEF DoVariableUpdate
<1>2. QED BY <1>1 DEF StampInv, UpdateInv, TypeInv, TypeOK, StoreOf

LEMMA PacketsStamped ==
  ASSUME NEW r \in Agents, NEW packets, PacketsFrom(r, packets), \A m \in packets : Sent(r, m)'
  PROVE  PacketsSent(r)
BY DEF PacketsFrom, PacketsSent, Sent, Stamped

LEMMA MulticastSent ==
  ASSUME StampInv, NEW r \in Agents, NEW packets, net' = Multicast(net, r, packets),
         \A p \in packets : Sent(r, p)'
  PROVE  PacketsSent(r)
<1>1. PacketsFrom(r, packets)
  BY DEF PacketsFrom, Multicast
<1>2. QED BY <1>1, PacketsStamped

LEMMA ReceivedSent ==
  ASSUME StampInv, NEW r \in Agents, NEW m, NEW packets, Receive(r, m, packets),
         \A p \in packets : Sent(r, p)'
  PROVE  PacketsSent(r)
<1>1. net \in [Agents -> SUBSET Message]
  BY DEF StampInv, UpdateInv, TypeInv, TypeOK
<1>2. PacketsFrom(r, packets)
  BY <1>1 DEF Receive, Multicast, PacketsFrom
<1>3. QED BY <1>2, PacketsStamped

\* Packets a robot makes with a stamp its clock has reached.
LEMMA NewPacketSent ==
  ASSUME NEW r \in Agents, NEW to, NEW id, NEW v, NEW stamp, stamp <= clock'[r], NEW m,
         \/ m = CaceAcknowledge(r, to, id, v, stamp)
         \/ m = CaceShortAck(r, to, id, stamp)
         \/ \E level \in UsedStrategies, dec \in Nat :
              m = CaceCommand(r, to, id, v, level, dec, stamp)
         \/ \E b : b.strat \in UsedStrategies /\ m = CaceBelieveNotification(r, to, id, b, stamp)
  PROVE  Sent(r, m)'
<1>1. /\ m.from = r /\ m.stamp = stamp
      /\ m.kind \in {"Command", "Notification"} => m.level \in UsedStrategies
  BY DEF CaceAcknowledge, CaceShortAck, CaceCommand, CaceBelieveNotification
<1>2. QED BY <1>1 DEF Sent, Stamped

LEMMA JobTaken ==
  ASSUME NEW r \in Agents, NEW j, JobsBecome(r, j), StampedJob(r, j)'
  PROVE  JobsOf(r)
BY Zenon DEF JobsBecome, JobsOf, JobsTaken

LEMMA JobsKeptStamped == \A r \in Agents : UNCHANGED jobs => JobsOf(r)
BY DEF JobsOf, JobsTaken

-----------------------------------------------------------------------------
(***************************************************************************)
(* One lemma for each action of the command protocol.                      *)
(***************************************************************************)
LEMMA HeardOnly ==
  ASSUME StampInv, UpdateInv', UNCHANGED <<updateVars, restarts>>,
         NEW r \in Agents, NEW m \in net[r], Overhear(r, m) \/ handleCaceShortAck(r, m)
  PROVE  StampInv'
<1>1. /\ Receive(r, m, {}) /\ KeepVariable /\ UNCHANGED jobs
      /\ clock' = [clock EXCEPT ![r] = Seen(clock[r], m.stamp)]
  BY DEF Overhear, handleCaceShortAck
<1>2. PICK c : c = Seen(clock[r], m.stamp)
  OBVIOUS
<1>3. c \in Nat /\ c >= Seen(clock[r], m.stamp)
  <2>1. clock[r] \in Nat /\ m.stamp \in Nat
    BY MessageFields DEF StampInv, UpdateInv, TypeInv, TypeOK
  <2>2. Seen(clock[r], m.stamp) \in Nat
    BY <2>1, SeenBounds
  <2>3. QED BY <1>2, <2>2
<1>4. Ahead(r)
  BY <1>1, <1>2, <1>3, PacketTaken
<1>5. PacketsSent(r)
  BY <1>1, ReceivedSent
<1>6. StoreOf(r) /\ StampedVariable(r)'
  BY <1>1, <1>4, VariableKept
<1>7. QED BY <1>1, <1>4, <1>5, <1>6, JobsKeptStamped, CommandStep

LEMMA AgentEngangementStamped ==
  ASSUME StampInv, UpdateInv', UNCHANGED <<updateVars, restarts>>,
         NEW r \in Agents, NEW q \in Agents, agentEngangement(r, q)
  PROVE  StampInv'
<1>1. KeepVariable /\ UNCHANGED <<clock, jobs, net>>
  BY DEF agentEngangement
<1>2. Ahead(r)
  BY <1>1, ClockKept
<1>3. PacketsSent(r)
  BY <1>1 DEF PacketsSent, Sent, Stamped
<1>4. StoreOf(r) /\ StampedVariable(r)'
  BY <1>1, <1>2, VariableKept
<1>5. QED BY <1>1, <1>2, <1>3, <1>4, JobsKeptStamped, CommandStep

LEMMA NewCommandJobStamped ==
  ASSUME StampInv, UpdateInv', NEW r \in Agents, NEW b \in Valued, b.strat \in UsedStrategies,
         NewCommandJob(r, b)
  PROVE  Ahead(r) /\ PacketsSent(r) /\ JobsOf(r)
<1> DEFINE sends == b.strat > NoDistribution
           retrys == IF sends THEN FullRetrys(activeRobots[r], CommandRetrys) ELSE NoRetrys
<1>a. PICK L \in Nat : L = clock[r]
  BY DEF StampInv, UpdateInv, TypeInv, TypeOK
<1>b. PICK m : m = CaceCommand(r, Broadcast, MsgID(r), b.val, b.strat, b.dec, L + 1)
  OBVIOUS
<1>c. PICK j : j = CommandJob(MsgID(r), b.val, activeRobots[r], L, retrys)
  OBVIOUS
<1>1. /\ \/ sends /\ clock' = [clock EXCEPT ![r] = L + 1] /\ net' = Multicast(net, r, {m})
         \/ ~sends /\ clock' = [clock EXCEPT ![r] = L] /\ net' = net
      /\ appendJob(r, j)
  BY <1>a, <1>b, <1>c DEF NewCommandJob
<1>2. L + 1 \in Nat /\ L + 1 >= clock[r] /\ L >= clock[r]
  BY <1>a
<1>3. /\ Ahead(r) /\ clock'[r] >= L
      /\ sends => clock'[r] = L + 1
  <2>1. clock' = [clock EXCEPT ![r] = L + 1] => Ahead(r) /\ clock'[r] = L + 1
    BY <1>2, ClockAhead
  <2>2. clock' = [clock EXCEPT ![r] = L] => Ahead(r) /\ clock'[r] = L
    BY <1>2, ClockAhead
  <2>3. QED BY <1>1, <2>1, <2>2
<1>4. PacketsSent(r)
  <2>1. CASE sends
    <3>1. L + 1 <= clock'[r] /\ b.dec \in Nat
      BY <1>2, <1>3, <2>1 DEF Valued, Believe
    <3>2. Sent(r, m)'
      BY <1>b, <3>1, NewPacketSent
    <3>3. \A p \in {m} : Sent(r, p)'
      BY <3>2 DEF Sent, Stamped
    <3>4. QED BY <1>1, <2>1, <3>3, MulticastSent
  <2>2. CASE ~sends
    BY <1>1, <2>2 DEF PacketsSent, Sent, Stamped
  <2>3. QED BY <2>1, <2>2
<1>5. JobsOf(r)
  <2>1. j \in Job
    <3>1. activeRobots[r] \in SUBSET Agents /\ MsgID(r) \in Nat /\ b.val \in AnyValue
      BY MsgIDType DEF StampInv, UpdateInv, TypeInv, TypeOK, Valued, Believe
    <3>2. retrys \in Retrys(CommandRetrys)
      BY <3>1, NewRetrys
    <3> HIDE DEF retrys
    <3>3. QED BY <1>c, <3>1, <3>2, NewJobs
  <2>2. j.kind = "CommandJob" /\ j.stamp = L
    BY <1>c DEF CommandJob
  <2>3. StampedJob(r, j)'
    BY <1>3, <2>2 DEF StampedJob
  <2>4. JobsBecome(r, j)
    BY <1>1, <2>1, AppendedJob DEF StampInv, UpdateInv, TypeInv, TypeOK
  <2>5. QED BY <2>3, <2>4, JobTaken
<1>6. QED BY <1>3, <1>4, <1>5

LEMMA DistributeValueStamped ==
  ASSUME StampInv, UpdateInv', UNCHANGED <<updateVars, restarts>>, NEW r \in Agents,
         NEW v \in Values, NEW s \in Levels, NEW t \in DecissionTimes, distributeValue(r, v, s, t)
  PROVE  StampInv'
<1>1. PICK b : b = [id |-> r, val |-> v, age |-> clock[r], strat |-> s, dec |-> t]
  OBVIOUS
<1>2. own' = [own EXCEPT ![r] = b] /\ NewCommandJob(r, b) /\ UNCHANGED proposals
  BY <1>1 DEF distributeValue
<1>3. b \in Valued /\ b.age = clock[r] /\ b.val # NoValue /\ b.strat \in UsedStrategies
  BY <1>1, StrategiesUsed DEF StampInv, UpdateInv, TypeInv, TypeOK, Valued, Believe, AnyValue
<1>4. Ahead(r) /\ PacketsSent(r) /\ JobsOf(r)
  BY <1>2, <1>3, NewCommandJobStamped
<1>5. own'[r] = b /\ StoreOf(r)
  BY <1>2 DEF StampInv, UpdateInv, TypeInv, TypeOK, StoreOf
<1>6. StampedVariable(r)'
  <2>1. Passes /\ clock[r] <= clock'[r]
    BY <1>4, AheadPasses
  <2>2. \A k \in DOMAIN proposals[r] : StampedProposal(r, proposals[r][k])'
    <3> SUFFICES ASSUME NEW k \in DOMAIN proposals[r], NEW p, p = proposals[r][k]
                 PROVE  StampedProposal(r, p)'
      BY <1>2 DEF StampedProposal
    <3>1. p \in Believe(Agents) /\ StampedProposal(r, p)
      BY ListedProposal DEF StampInv, StampedVariables, StampedVariable, UpdateInv
    <3>2. QED BY <2>1, <3>1, ProposalStaysStamped DEF StampInv
  <2>3. own'[r].age <= clock'[r]
    BY <1>3, <1>5, <2>1
  <2>4. OneOfEach(r)'
    BY <1>2 DEF OneOfEach, StampInv, StampedVariables, StampedVariable
  <2>5. QED BY <1>2, <1>3, <1>5, <2>2, <2>3, <2>4
           DEF StampedVariable, StampedProposal, existsVariable
<1>7. QED BY <1>4, <1>5, <1>6, CommandStep

LEMMA DistributeVariableStamped ==
  ASSUME StampInv, UpdateInv', UNCHANGED <<updateVars, restarts>>, NEW r \in Agents,
         distributeVariable(r)
  PROVE  StampInv'
<1>1. existsVariable(r) /\ NewCommandJob(r, own[r]) /\ KeepVariable
  BY DEF distributeVariable
<1>2. own[r] \in Valued
  BY <1>1 DEF existsVariable, StampInv, UpdateInv, TypeInv, TypeOK, Valued
<1>3. own[r].strat \in UsedStrategies
  BY DEF StampInv, StampedVariables, StampedVariable
<1>4. Ahead(r) /\ PacketsSent(r) /\ JobsOf(r)
  BY <1>1, <1>2, <1>3, NewCommandJobStamped
<1>5. StoreOf(r) /\ StampedVariable(r)'
  BY <1>1, <1>4, VariableKept
<1>6. QED BY <1>4, <1>5, CommandStep

\* A packet taken, the clock after it: the parts of a handler.
LEMMA HandlerClock ==
  ASSUME StampInv, NEW r \in Agents, NEW m \in net[r], NEW c, c = Seen(clock[r], m.stamp)
  PROVE  c \in Nat /\ c >= Seen(clock[r], m.stamp) /\ c + 1 \in Nat
         /\ c + 1 >= Seen(clock[r], m.stamp)
<1>1. clock[r] \in Nat /\ m.stamp \in Nat
  BY MessageFields DEF StampInv, UpdateInv, TypeInv, TypeOK
<1>2. c \in Nat
  BY <1>1, SeenBounds
<1>3. QED BY <1>2

\* The job a robot makes of a command it has taken.
LEMMA AcknowledgeJobTaken ==
  ASSUME StampInv, UpdateInv', NEW r \in Agents, UNCHANGED restarts, Ahead(r),
         NEW m, Takes(r, m), m.kind = "Command", NEW c \in Nat, c <= clock'[r],
         NEW retrys \in Retrys(AckRetrys), NEW started \in BOOLEAN,
         appendJob(r, CommandAcknowledgeJob(m, activeRobots[r], c, retrys, started))
  PROVE  JobsOf(r)
<1>1. PICK j : j = CommandAcknowledgeJob(m, activeRobots[r], c, retrys, started)
  OBVIOUS
<1>2. activeRobots[r] \in SUBSET Agents /\ m \in Message
  BY DEF StampInv, UpdateInv, TypeInv, TypeOK, Takes
<1>3. j \in Job
  BY <1>1, <1>2, NewJobs
<1>4. j.kind = "CommandAcknowledgeJob" /\ j.stamp = c /\ j.cmd = m
  BY <1>1 DEF CommandAcknowledgeJob
<1>5. Came(r, m)'
  BY TakenHasCome
<1>6. StampedJob(r, j)'
  BY <1>4, <1>5 DEF StampedJob
<1>7. JobsBecome(r, j)
  BY <1>1, <1>3, AppendedJob DEF StampInv, UpdateInv, TypeInv, TypeOK
<1>8. QED BY <1>6, <1>7, JobTaken

LEMMA HandleCaceCommandStamped ==
  ASSUME StampInv, UpdateInv', UNCHANGED <<updateVars, restarts>>,
         NEW r \in Agents, NEW m \in net[r], handleCaceCommand(r, m)
  PROVE  StampInv'
<1> DEFINE acks == m.level > FireAndForget
           retrys == IF acks THEN FullRetrys(activeRobots[r], AckRetrys) ELSE NoRetrys
<1>a. PICK c : c = Seen(clock[r], m.stamp)
  OBVIOUS
<1>1. m.kind = "Command" /\ clock' = [clock EXCEPT ![r] = c]
  BY <1>a DEF handleCaceCommand
<1>2. c \in Nat /\ Ahead(r) /\ clock'[r] = c /\ Takes(r, m)
  <2>1. c \in Nat /\ c >= Seen(clock[r], m.stamp)
    BY <1>a, HandlerClock
  <2>2. QED BY <1>1, <2>1, PacketTaken
<1>3. retrys \in Retrys(AckRetrys) /\ NoRetrys \in Retrys(AckRetrys)
  <2>1. activeRobots[r] \in SUBSET Agents
    BY DEF StampInv, UpdateInv, TypeInv, TypeOK
  <2>2. QED BY <2>1, NewRetrys
<1> HIDE DEF retrys
<1>4. c <= clock'[r]
  BY <1>2
<1>5. CASE r \in SafeStepRobots
  <2>1. /\ Receive(r, m, {}) /\ KeepVariable
        /\ appendJob(r, CommandAcknowledgeJob(m, activeRobots[r], c, NoRetrys, FALSE))
    BY <1>5, <1>a DEF handleCaceCommand
  <2>2. PacketsSent(r)
    BY <2>1, ReceivedSent
  <2>3. StoreOf(r) /\ StampedVariable(r)'
    BY <1>2, <2>1, VariableKept
  <2>4. JobsOf(r)
    BY <1>1, <1>2, <1>3, <1>4, <2>1, AcknowledgeJobTaken
  <2>5. QED BY <1>2, <2>2, <2>3, <2>4, CommandStep
<1>6. CASE r \notin SafeStepRobots
  <2>a. PICK packets : packets = IF acks THEN {CaceAcknowledge(r, Broadcast, m.msgID, own'[r].val, c)}
                                 ELSE {}
    OBVIOUS
  <2>1. /\ UpdateByCommand(r, m) /\ Receive(r, m, packets)
        /\ appendJob(r, CommandAcknowledgeJob(m, activeRobots[r], c, retrys, TRUE))
    BY <1>6, <1>a, <2>a DEF handleCaceCommand, retrys
  <2>2. \A p \in packets : Sent(r, p)'
    <3>1. \A p \in packets : p = CaceAcknowledge(r, Broadcast, m.msgID, own'[r].val, c)
      BY <2>a
    <3>2. ASSUME NEW p, p = CaceAcknowledge(r, Broadcast, m.msgID, own'[r].val, c)
          PROVE  Sent(r, p)'
      BY <1>4, <3>2, NewPacketSent
    <3>3. QED BY <3>1, <3>2 DEF Sent, Stamped
  <2>3. PacketsSent(r)
    BY <2>1, <2>2, ReceivedSent
  <2>4. JobsOf(r)
    BY <1>1, <1>2, <1>3, <1>4, <2>1, AcknowledgeJobTaken
  <2>5. Passes /\ clock[r] <= clock'[r]
    BY <1>2, AheadPasses
  <2>6. StampedVariable(r)'
    BY <1>1, <1>2, <2>1, <2>5, CommandStaysStamped
  <2>7. StoreOf(r)
    BY <2>1, UpdateOfOne DEF UpdateByCommand
  <2>8. QED BY <1>2, <2>3, <2>4, <2>6, <2>7, CommandStep
<1>7. QED BY <1>5, <1>6

LEMMA HandleCaceAcknowledgeStamped ==
  ASSUME StampInv, UpdateInv', UNCHANGED <<updateVars, restarts>>,
         NEW r \in Agents, NEW m \in net[r], handleCaceAcknowledge(r, m)
  PROVE  StampInv'
<1>a. PICK c : c = Seen(clock[r], m.stamp)
  OBVIOUS
<1>1. m.kind = "Acknowledge"
  BY DEF handleCaceAcknowledge
<1>2. c \in Nat /\ c + 1 \in Nat
  BY <1>a, HandlerClock
<1>3. /\ clock' = [clock EXCEPT ![r] = c] => Ahead(r) /\ clock'[r] = c /\ Takes(r, m)
      /\ clock' = [clock EXCEPT ![r] = c + 1] => Ahead(r) /\ clock'[r] = c + 1 /\ Takes(r, m)
  <2>1. /\ c \in Nat /\ c >= Seen(clock[r], m.stamp)
        /\ c + 1 \in Nat /\ c + 1 >= Seen(clock[r], m.stamp)
    BY <1>a, HandlerClock
  <2>2. PICK d : d = c + 1
    OBVIOUS
  <2>3. d \in Nat /\ d >= Seen(clock[r], m.stamp)
    BY <2>1, <2>2
  <2>4. clock' = [clock EXCEPT ![r] = c] => Ahead(r) /\ clock'[r] = c /\ Takes(r, m)
    BY <2>1, PacketTaken
  <2>5. clock' = [clock EXCEPT ![r] = d] => Ahead(r) /\ clock'[r] = d /\ Takes(r, m)
    BY <2>3, PacketTaken
  <2>6. QED BY <2>2, <2>4, <2>5
<1>4. CASE r \in SafeStepRobots
  <2>1. /\ Receive(r, m, {}) /\ KeepVariable /\ appendJob(r, ShortAckJob(m))
        /\ clock' = [clock EXCEPT ![r] = c]
    BY <1>4, <1>a DEF handleCaceAcknowledge
  <2>2. Ahead(r) /\ Takes(r, m)
    BY <1>3, <2>1
  <2>3. PacketsSent(r)
    BY <2>1, ReceivedSent
  <2>4. StoreOf(r) /\ StampedVariable(r)'
    BY <2>1, <2>2, VariableKept
  <2>5. JobsOf(r)
    <3>1. PICK j : j = ShortAckJob(m)
      OBVIOUS
    <3>2. j \in Job
      BY <1>1, <2>2, <3>1, NewJobs DEF Takes
    <3>3. j.kind = "ShortAckJob" /\ j.ack = m
      BY <3>1 DEF ShortAckJob
    <3>4. Came(r, m)'
      BY <2>2, TakenHasCome
    <3>5. StampedJob(r, j)'
      BY <3>3, <3>4 DEF StampedJob, StampedKinds
    <3>6. JobsBecome(r, j)
      BY <2>1, <3>1, <3>2, AppendedJob DEF StampInv, UpdateInv, TypeInv, TypeOK
    <3>7. QED BY <3>5, <3>6, JobTaken
  <2>6. QED BY <2>2, <2>3, <2>4, <2>5, CommandStep
<1>5. CASE r \notin SafeStepRobots
  <2>a. PICK p : p = CaceShortAck(r, m.from, m.msgID, c + 1)
    OBVIOUS
  <2>1. /\ UpdateByAck(r, m) /\ UNCHANGED jobs
        /\ \/ clock' = [clock EXCEPT ![r] = c + 1] /\ Receive(r, m, {p})
           \/ clock' = [clock EXCEPT ![r] = c] /\ Receive(r, m, {})
    BY <1>5, <1>a, <2>a DEF handleCaceAcknowledge
  <2>2. Ahead(r) /\ Takes(r, m)
    BY <1>3, <2>1
  <2>3. PacketsSent(r)
    <3>1. CASE clock' = [clock EXCEPT ![r] = c + 1] /\ Receive(r, m, {p})
      <4>1. c + 1 <= clock'[r]
        BY <1>2, <1>3, <3>1
      <4>2. Sent(r, p)'
        BY <2>a, <4>1, NewPacketSent
      <4>3. \A x \in {p} : Sent(r, x)'
        BY <4>2 DEF Sent, Stamped
      <4>4. QED BY <3>1, <4>3, ReceivedSent
    <3>2. CASE Receive(r, m, {})
      BY <3>2, ReceivedSent
    <3>3. QED BY <2>1, <3>1, <3>2
  <2>4. Passes /\ clock[r] <= clock'[r]
    BY <2>2, AheadPasses
  <2>5. StampedVariable(r)'
    BY <1>1, <2>1, <2>2, <2>4, AckStaysStamped
  <2>6. StoreOf(r)
    BY <2>1, UpdateOfOne DEF UpdateByAck
  <2>7. QED BY <2>1, <2>2, <2>3, <2>5, <2>6, JobsKeptStamped, CommandStep
<1>6. QED BY <1>4, <1>5

\* What a job that is processed leaves.
LEMMA ErasedTaken ==
  ASSUME StampInv, NEW r \in Agents, NEW i \in DOMAIN jobs[r], eraseJob(r, i)
  PROVE  JobsOf(r)
<1>1. jobs \in [Agents -> Seq(Job)]
  BY DEF StampInv, UpdateInv, TypeInv, TypeOK
<1>2. QED BY <1>1, ErasedJob DEF JobsOf, JobsTaken

LEMMA ReplacedTaken ==
  ASSUME StampInv, NEW r \in Agents, NEW i \in DOMAIN jobs[r], NEW j \in Job,
         replaceJob(r, i, j), StampedJob(r, j)'
  PROVE  JobsOf(r)
<1>1. JobsBecome(r, j)
  BY ReplacedJob DEF StampInv, UpdateInv, TypeInv, TypeOK
<1>2. QED BY <1>1, JobTaken

LEMMA ResentSent ==
  ASSUME StampInv, NEW r \in Agents, NEW late, NEW packets, resend(r, late, packets),
         \A p \in packets : Sent(r, p)'
  PROVE  PacketsSent(r)
BY MulticastSent DEF resend

\* A job that sends what it sent again keeps its stamp and what it answers.
LEMMA SameJobStamped ==
  ASSUME StampInv, UpdateInv', NEW r \in Agents, UNCHANGED restarts, Ahead(r),
         NEW i \in DOMAIN jobs[r], NEW k \in Job,
         k.kind = jobs[r][i].kind, k.kind \in StampedKinds, k.stamp = jobs[r][i].stamp,
         k.kind = "CommandAcknowledgeJob" => k.cmd = jobs[r][i].cmd,
         k.kind = "BelieveAcknowledgeJob" => k.notification = jobs[r][i].notification
  PROVE  StampedJob(r, k)'
<1>1. Passes /\ clock[r] <= clock'[r]
  BY AheadPasses
<1>2. StampedJob(r, jobs[r][i])
  BY DEF StampInv, StampedJobs
<1>3. StampedJob(r, k)
  BY <1>2 DEF StampedJob, StampedKinds
<1>4. QED BY <1>1, <1>3, JobStaysStamped DEF StampInv

LEMMA ProcessCommandJobStamped ==
  ASSUME StampInv, UpdateInv', UNCHANGED <<updateVars, restarts>>,
         NEW r \in Agents, NEW i \in DOMAIN jobs[r], processCommandJob(r, i)
  PROVE  StampInv'
<1>a. PICK o : o = jobs[r][i]
  OBVIOUS
<1>b. PICK j : j = [o EXCEPT !.expected = Unanswered(r, o)]
  OBVIOUS
<1>1. /\ o.kind = "CommandJob" /\ KeepVariable /\ UNCHANGED clock
      /\ \/ eraseJob(r, i) /\ UNCHANGED net
         \/ \E late \in SUBSET Retryable(j) :
              /\ resend(r, late, {CaceCommand(r, q, j.msgID, j.val, own[r].strat, own[r].dec,
                                              j.stamp) : q \in late})
              /\ replaceJob(r, i, Resent(j, late))
  BY <1>a, <1>b DEF processCommandJob
<1>2. o \in Job /\ StampedJob(r, o)
  BY <1>a, ListedJob DEF StampInv, StampedJobs, UpdateInv
<1>3. Ahead(r) /\ clock'[r] = clock[r]
  BY <1>1, ClockKept
<1>4. StoreOf(r) /\ StampedVariable(r)'
  BY <1>1, <1>3, VariableKept
<1>5. CASE eraseJob(r, i) /\ UNCHANGED net
  <2>1. PacketsSent(r)
    BY <1>5 DEF PacketsSent, Sent, Stamped
  <2>2. QED BY <1>3, <1>4, <1>5, <2>1, ErasedTaken, CommandStep
<1>6. ASSUME NEW late \in SUBSET Retryable(j),
             resend(r, late, {CaceCommand(r, q, j.msgID, j.val, own[r].strat, own[r].dec,
                                          j.stamp) : q \in late}),
             replaceJob(r, i, Resent(j, late))
      PROVE  StampInv'
  <2>1. Unanswered(r, o) \in SUBSET Agents
    BY <1>1, <1>2, JobFields DEF Unanswered
  <2>2. j \in Job /\ j.kind = "CommandJob" /\ j.stamp = o.stamp
    BY <1>1, <1>2, <1>b, <2>1, ChangedCommandJob
  <2>3. PICK k : k = Resent(j, late)
    OBVIOUS
  <2>4. k \in Job /\ k.kind = "CommandJob" /\ k.stamp = o.stamp
    BY <2>2, <2>3, ResentJob
  <2>5. StampedJob(r, k)'
    BY <1>1, <1>3, <1>a, <2>4, SameJobStamped DEF StampedKinds
  <2>6. JobsOf(r)
    BY <1>6, <2>3, <2>4, <2>5, ReplacedTaken
  <2>7. PICK packets : packets = {CaceCommand(r, q, j.msgID, j.val, own[r].strat, own[r].dec,
                                              j.stamp) : q \in late}
    OBVIOUS
  <2>8. j.stamp <= clock'[r] /\ own[r].strat \in UsedStrategies /\ own[r].dec \in Nat
    BY <1>1, <1>2, <1>3, <2>2
       DEF StampedJob, StampedKinds, StampInv, StampedVariables, StampedVariable, UpdateInv, TypeInv,
           TypeOK, Believe
  <2>9. ASSUME NEW p \in packets PROVE Sent(r, p)'
    <3>1. PICK q \in late : p = CaceCommand(r, q, j.msgID, j.val, own[r].strat, own[r].dec, j.stamp)
      BY <2>7
    <3>2. QED BY <2>8, <3>1, NewPacketSent
  <2>10. \A p \in packets : Sent(r, p)'
    BY <2>9 DEF Sent, Stamped
  <2>11. PacketsSent(r)
    BY <1>6, <2>7, <2>10, ResentSent
  <2>12. QED BY <1>3, <1>4, <2>6, <2>11, CommandStep
<1>7. QED BY <1>1, <1>5, <1>6

LEMMA ProcessCommandAcknowledgeJobStamped ==
  ASSUME StampInv, UpdateInv', UNCHANGED <<updateVars, restarts>>,
         NEW r \in Agents, NEW i \in DOMAIN jobs[r], processCommandAcknowledgeJob(r, i)
  PROVE  StampInv'
<1>a. PICK o : o = jobs[r][i]
  OBVIOUS
<1>b. PICK id : id = o.cmd.msgID
  OBVIOUS
<1>c. PICK j : j = [o EXCEPT !.expected = @ \ Answered(r, id)]
  OBVIOUS
<1>1. o.kind = "CommandAcknowledgeJob" /\ KeepVariable /\ UNCHANGED clock
  BY <1>a, <1>b DEF processCommandAcknowledgeJob
<1>2. PICK late \in SUBSET Retryable(j) :
        /\ resend(r, late, {CaceAcknowledge(r, q, id, own[r].val, j.stamp) : q \in late})
        /\ eraseJob(r, i) \/ replaceJob(r, i, Resent(j, late))
  BY <1>a, <1>b, <1>c DEF processCommandAcknowledgeJob
<1>3. o \in Job /\ StampedJob(r, o)
  BY <1>a, ListedJob DEF StampInv, StampedJobs, UpdateInv
<1>4. Ahead(r) /\ clock'[r] = clock[r]
  BY <1>1, ClockKept
<1>5. StoreOf(r) /\ StampedVariable(r)'
  BY <1>1, <1>4, VariableKept
<1>6. j \in Job /\ j.kind = "CommandAcknowledgeJob" /\ j.cmd = o.cmd /\ j.stamp = o.stamp
  <2>1. PICK robots \in SUBSET Agents : robots = o.expected \ Answered(r, id)
    BY <1>1, <1>3, JobFields
  <2>2. j = [o EXCEPT !.expected = robots]
    BY <1>c, <2>1
  <2>3. QED BY <1>1, <1>3, <2>1, <2>2, ChangedCommandAcknowledgeJob
<1>7. PICK k : k = Resent(j, late)
  OBVIOUS
<1>8. k \in Job /\ k.kind = "CommandAcknowledgeJob" /\ k.cmd = o.cmd /\ k.stamp = o.stamp
  BY <1>6, <1>7, ResentJob
<1>9. StampedJob(r, k)'
  BY <1>1, <1>4, <1>a, <1>8, SameJobStamped DEF StampedKinds
<1>10. JobsOf(r)
  BY <1>2, <1>7, <1>8, <1>9, ErasedTaken, ReplacedTaken
<1>11. j.stamp <= clock'[r]
  BY <1>1, <1>3, <1>4, <1>6 DEF StampedJob, StampedKinds
<1>12. PICK packets : packets = {CaceAcknowledge(r, q, id, own[r].val, j.stamp) : q \in late}
  OBVIOUS
<1>13. ASSUME NEW p \in packets PROVE Sent(r, p)'
  <2>1. PICK q \in late : p = CaceAcknowledge(r, q, id, own[r].val, j.stamp)
    BY <1>12
  <2>2. QED BY <1>11, <2>1, NewPacketSent
<1>14. \A p \in packets : Sent(r, p)'
  BY <1>13 DEF Sent, Stamped
<1>15. PacketsSent(r)
  BY <1>2, <1>12, <1>14, ResentSent
<1>16. QED BY <1>4, <1>5, <1>10, <1>15, CommandStep

\* What has come can be taken.
LEMMA CameTakes ==
  ASSUME StampInv, UpdateInv', NEW r \in Agents, Ahead(r), NEW m \in Message, Came(r, m)
  PROVE  Takes(r, m)
<1>1. /\ m.stamp \in Nat /\ clock[r] \in Nat /\ clock'[r] \in Nat
      /\ m.stamp <= clock[r] /\ clock[r] <= clock'[r]
  BY MessageFields, ClocksAreNumbers DEF Came, Ahead, StampInv
<1>2. m.stamp <= clock'[r]
  BY <1>1
<1>3. QED BY <1>2 DEF Takes, Came

\* The clock of a robot that may tick once.
LEMMA TicksAhead ==
  ASSUME StampInv, NEW r \in Agents, NEW c, c = clock[r] \/ c = clock[r] + 1,
         clock' = [clock EXCEPT ![r] = c]
  PROVE  c \in Nat /\ Ahead(r) /\ clock'[r] = c
<1>1. clock[r] \in Nat
  BY DEF StampInv, UpdateInv, TypeInv, TypeOK
<1>2. c \in Nat /\ c >= clock[r]
  BY <1>1
<1>3. QED BY <1>2, ClockAhead

LEMMA StartCommandAcknowledgeJobStamped ==
  ASSUME StampInv, UpdateInv', UNCHANGED <<updateVars, restarts>>,
         NEW r \in Agents, NEW i \in DOMAIN jobs[r], startCommandAcknowledgeJob(r, i)
  PROVE  StampInv'
<1>a. PICK o : o = jobs[r][i]
  OBVIOUS
<1>b. PICK m : m = o.cmd
  OBVIOUS
<1> DEFINE acks == m.level > FireAndForget
<1>c. PICK c : c = IF acks THEN clock[r] + 1 ELSE clock[r]
  OBVIOUS
<1>d. PICK robots : robots = o.expected \ Answered(r, m.msgID)
  OBVIOUS
<1>e. PICK retrys : retrys = IF acks THEN FullRetrys(o.expected, AckRetrys) ELSE NoRetrys
  OBVIOUS
<1>f. PICK j : j = [o EXCEPT !.started = TRUE, !.stamp = c, !.expected = robots, !.retrys = retrys]
  OBVIOUS
<1>g. PICK packets : packets = IF acks THEN {CaceAcknowledge(r, Broadcast, m.msgID, own'[r].val, c)}
                               ELSE {}
  OBVIOUS
<1>1. /\ o.kind = "CommandAcknowledgeJob" /\ UpdateByCommand(r, m)
      /\ clock' = [clock EXCEPT ![r] = c] /\ net' = Multicast(net, r, packets)
      /\ (eraseJob(r, i) \/ replaceJob(r, i, j))
  BY <1>a, <1>b, <1>c, <1>d, <1>e, <1>f, <1>g DEF startCommandAcknowledgeJob
<1>2. o \in Job /\ m \in Message /\ m.kind = "Command" /\ o.expected \in SUBSET Agents
  BY <1>1, <1>a, <1>b, ListedJob, JobFields DEF StampInv, UpdateInv
<1>3. Came(r, m)
  BY <1>1, <1>a, <1>b DEF StampInv, StampedJobs, StampedJob
<1>4. c \in Nat /\ Ahead(r) /\ clock'[r] = c
  BY <1>1, <1>c, TicksAhead
<1>5. Takes(r, m)
  BY <1>2, <1>3, <1>4, CameTakes
<1>6. c <= clock'[r]
  BY <1>4
<1>7. PacketsSent(r)
  <2>1. ASSUME NEW p, p = CaceAcknowledge(r, Broadcast, m.msgID, own'[r].val, c)
        PROVE  Sent(r, p)'
    BY <1>6, <2>1, NewPacketSent
  <2>2. \A p \in packets : Sent(r, p)'
    BY <1>g, <2>1 DEF Sent, Stamped
  <2>3. QED BY <1>1, <2>2, MulticastSent
<1>8. JobsOf(r)
  <2>1. robots \in SUBSET Agents /\ retrys \in Retrys(AckRetrys)
    BY <1>2, <1>d, <1>e, NewRetrys
  <2>2. LET k == [o EXCEPT !.started = TRUE, !.stamp = c, !.expected = robots, !.retrys = retrys]
        IN  /\ k \in Job /\ k.kind = o.kind /\ k.cmd = o.cmd /\ k.expected = robots
            /\ k.stamp = c /\ k.retrys = retrys /\ k.started = TRUE
    BY <1>1, <1>2, <1>4, <2>1, StartedCommandAcknowledgeJob, Zenon
  <2>3. j \in Job /\ j.kind = o.kind /\ j.cmd = o.cmd /\ j.stamp = c
    BY <1>f, <2>2, Zenon
  <2>4. Came(r, m)'
    BY <1>4, <1>5, TakenHasCome
  <2>5. StampedJob(r, j)'
    BY <1>1, <1>6, <1>b, <2>3, <2>4 DEF StampedJob
  <2>6. QED BY <1>1, <2>3, <2>5, ErasedTaken, ReplacedTaken
<1>9. StampedVariable(r)'
  <2>1. Passes /\ clock[r] <= clock'[r]
    BY <1>4, AheadPasses
  <2>2. QED BY <1>1, <1>2, <1>5, <2>1, CommandStaysStamped
<1>10. StoreOf(r)
  BY <1>1, UpdateOfOne DEF UpdateByCommand
<1>11. QED BY <1>4, <1>7, <1>8, <1>9, <1>10, CommandStep

LEMMA ProcessShortAckJobStamped ==
  ASSUME StampInv, UpdateInv', UNCHANGED <<updateVars, restarts>>,
         NEW r \in Agents, NEW i \in DOMAIN jobs[r], processShortAckJob(r, i)
  PROVE  StampInv'
<1>a. PICK m : m = jobs[r][i].ack
  OBVIOUS
<1>b. PICK c : c = clock[r] + 1
  OBVIOUS
<1>c. PICK p : p = CaceShortAck(r, m.from, m.msgID, c)
  OBVIOUS
<1>1. /\ jobs[r][i].kind = "ShortAckJob" /\ UpdateByAck(r, m) /\ eraseJob(r, i)
      /\ \/ clock' = [clock EXCEPT ![r] = c] /\ net' = Multicast(net, r, {p})
         \/ UNCHANGED <<clock, net>>
  BY <1>a, <1>b, <1>c DEF processShortAckJob
<1>2. m \in Message /\ m.kind = "Acknowledge" /\ Came(r, m)
  BY <1>1, <1>a, ListedJob, JobFields DEF StampInv, StampedJobs, StampedJob, UpdateInv
<1>3. /\ clock' = [clock EXCEPT ![r] = c] => Ahead(r) /\ c \in Nat /\ clock'[r] = c
      /\ UNCHANGED clock => Ahead(r)
  BY <1>b, TicksAhead, ClockKept
<1>4. Ahead(r)
  BY <1>1, <1>3
<1>5. Takes(r, m)
  BY <1>2, <1>4, CameTakes
<1>6. PacketsSent(r)
  <2>1. CASE clock' = [clock EXCEPT ![r] = c] /\ net' = Multicast(net, r, {p})
    <3>1. c <= clock'[r]
      BY <1>3, <2>1
    <3>2. Sent(r, p)'
      BY <1>c, <3>1, NewPacketSent
    <3>3. \A x \in {p} : Sent(r, x)'
      BY <3>2 DEF Sent, Stamped
    <3>4. QED BY <2>1, <3>3, MulticastSent
  <2>2. CASE UNCHANGED <<clock, net>>
    BY <2>2 DEF PacketsSent, Sent, Stamped
  <2>3. QED BY <1>1, <2>1, <2>2
<1>7. JobsOf(r)
  BY <1>1, ErasedTaken
<1>8. StampedVariable(r)'
  <2>1. Passes /\ clock[r] <= clock'[r]
    BY <1>4, AheadPasses
  <2>2. QED BY <1>1, <1>2, <1>5, <2>1, AckStaysStamped
<1>9. StoreOf(r)
  BY <1>1, UpdateOfOne DEF UpdateByAck
<1>10. QED BY <1>4, <1>6, <1>7, <1>8, <1>9, CommandStep

\* Every step of the command protocol.
LEMMA NextStamped ==
  ASSUME StampInv, UpdateInv', Next, UNCHANGED <<updateVars, restarts>>
  PROVE  StampInv'
<1>1. PICK r \in Agents :
        \/ Call(r)
        \/ \E m \in net[r] : Handle(r, m)
        \/ \E i \in DOMAIN jobs[r] : Process(r, i)
  BY DEF Next
<1>2. CASE Call(r)
  BY <1>2, DistributeValueStamped, DistributeVariableStamped, AgentEngangementStamped DEF Call
<1>3. ASSUME NEW m \in net[r], Handle(r, m) PROVE StampInv'
  BY <1>3, HeardOnly, HandleCaceCommandStamped, HandleCaceAcknowledgeStamped DEF Handle
<1>4. ASSUME NEW i \in DOMAIN jobs[r], Process(r, i) PROVE StampInv'
  BY <1>4, ProcessCommandJobStamped, StartCommandAcknowledgeJobStamped,
     ProcessCommandAcknowledgeJobStamped, ProcessShortAckJobStamped DEF Process
<1>5. QED BY <1>1, <1>2, <1>3, <1>4

-----------------------------------------------------------------------------
(***************************************************************************)
(* One lemma for each action of believe updates.                           *)
(***************************************************************************)
LEMMA NotificationStep ==
  ASSUME StampInv, UpdateInv', NEW r \in Agents, UNCHANGED restarts, Ahead(r), PacketsSent(r),
         JobsOf(r), StoreOf(r), StampedVariable(r)', NotificationsTaken(r),
         \A q \in Agents \ {r} : believeNotifications'[q] = believeNotifications[q]
  PROVE  StampInv'
<1>1. Moves(r) /\ JobsTaken(r)
  BY DEF Moves, Rests, Ahead, JobsOf, StoreOf
<1>2. QED BY <1>1, StampStep

LEMMA NotificationsKept ==
  \A r \in Agents : UNCHANGED believeNotifications =>
    /\ NotificationsTaken(r)
    /\ \A q \in Agents \ {r} : believeNotifications'[q] = believeNotifications[q]
BY DEF NotificationsTaken

LEMMA SendBelieveUpdatesStamped ==
  ASSUME StampInv, UpdateInv', UNCHANGED restarts, NEW r \in Agents, NEW s \in Seq(Agents),
         s # <<>> => existsVariable(r), sendBelieveUpdates(r, s)
  PROVE  StampInv'
<1>1. KeepVariable /\ UNCHANGED believeNotifications
  BY DEF sendBelieveUpdates
<1>2. clock[r] \in Nat /\ Len(s) \in Nat /\ DOMAIN s = 1..Len(s)
  BY LenProperties DEF StampInv, UpdateInv, TypeInv, TypeOK
<1>3. Ahead(r) /\ clock'[r] = clock[r] + Len(s)
  <2>1. PICK c : c = clock[r] + Len(s)
    OBVIOUS
  <2>2. c \in Nat /\ c >= clock[r] /\ clock' = [clock EXCEPT ![r] = c]
    BY <1>2, <2>1 DEF sendBelieveUpdates
  <2>3. QED BY <2>1, <2>2, ClockAhead
<1>4. StoreOf(r) /\ StampedVariable(r)'
  BY <1>1, <1>3, VariableKept
<1>5. JobsOf(r)
  <2>1. /\ \A q \in Agents \ {r} : jobs'[q] = jobs[q]
        /\ \A k \in DOMAIN jobs'[r] :
             \/ \E l \in DOMAIN jobs[r] : jobs'[r][k] = jobs[r][l]
             \/ \E j, l : /\ jobs'[r][k] = j /\ j.kind = "BelieveNotificationJob"
                         /\ DOMAIN j.retrys = j.expected
                         /\ l \in 1..Len(s) /\ j.stamp = clock[r] + l - 1
    BY SentNotifications, Zenon DEF StampInv
  <2>2. ASSUME NEW j, NEW l \in 1..Len(s), j.kind = "BelieveNotificationJob",
               j.stamp = clock[r] + l - 1
        PROVE  StampedJob(r, j)'
    <3>1. j.stamp <= clock'[r]
      BY <1>2, <1>3, <2>2
    <3>2. QED BY <2>2, <3>1 DEF StampedJob
  <2>3. JobsTaken(r)
    <3> SUFFICES ASSUME NEW k \in DOMAIN jobs'[r], NEW j, NEW l, jobs'[r][k] = j,
                        j.kind = "BelieveNotificationJob", l \in 1..Len(s),
                        j.stamp = clock[r] + l - 1
                 PROVE  \E x : jobs'[r][k] = x /\ StampedJob(r, x)'
      BY <2>1, Zenon DEF JobsTaken
    <3>1. StampedJob(r, j)'
      BY <2>2
    <3>2. QED BY <3>1, Zenon
  <2>4. QED BY <2>1, <2>3 DEF JobsOf
<1>6. PacketsSent(r)
  <2> DEFINE id(k) == ((clock[r] + k - 1 + 100) * r) % 65536
             packets == {CaceBelieveNotification(r, s[k], id(k), own[r], clock[r] + k - 1 + 1)
                           : k \in DOMAIN s}
  <2>1. net' = Multicast(net, r, packets)
    BY DEF sendBelieveUpdates
  <2> HIDE DEF id
  <2>2. own[r].strat \in UsedStrategies
    BY DEF StampInv, StampedVariables, StampedVariable
  <2>3. ASSUME NEW k \in DOMAIN s, NEW p,
               p = CaceBelieveNotification(r, s[k], id(k), own[r], clock[r] + k - 1 + 1)
        PROVE  Sent(r, p)'
    <3>1. PICK L : L = clock[r] + k - 1 + 1
      OBVIOUS
    <3>2. L <= clock'[r]
      BY <1>2, <1>3, <3>1
    <3>3. p = CaceBelieveNotification(r, s[k], id(k), own[r], L)
      BY <2>3, <3>1
    <3>4. PICK b : b = own[r]
      OBVIOUS
    <3>5. b.strat \in UsedStrategies /\ p = CaceBelieveNotification(r, s[k], id(k), b, L)
      BY <2>2, <3>3, <3>4
    <3>6. QED BY <3>2, <3>5, NewPacketSent
  <2>4. \A p \in packets : Sent(r, p)'
    BY <2>3 DEF Sent, Stamped
  <2> HIDE DEF packets
  <2>5. QED BY <2>1, <2>4, MulticastSent
<1>7. QED BY <1>1, <1>3, <1>4, <1>5, <1>6, NotificationsKept, NotificationStep

LEMMA NotifyStamped ==
  ASSUME StampInv, UpdateInv', UNCHANGED restarts, NEW r \in Agents,
         (\E q \in Agents : agentEngangementAndUpdate(r, q)) \/ changeScopeAndRestoreConsistency(r)
  PROVE  StampInv'
BY NotifiedRobots, SendBelieveUpdatesStamped DEF StampInv

LEMMA HandleCaceBelieveNotificationStamped ==
  ASSUME StampInv, UpdateInv', UNCHANGED restarts, NEW r \in Agents, NEW m \in net[r],
         handleCaceBelieveNotification(r, m)
  PROVE  StampInv'
<1>a. PICK c : c = Seen(clock[r], m.stamp)
  OBVIOUS
<1>1. /\ m.kind = "Notification" /\ Receive(r, m, {}) /\ KeepVariable /\ UNCHANGED jobs
      /\ clock' = [clock EXCEPT ![r] = c]
      /\ believeNotifications' = [believeNotifications EXCEPT ![r] = Append(believeNotifications[r], m)]
  BY <1>a DEF handleCaceBelieveNotification
<1>2. c \in Nat /\ c >= Seen(clock[r], m.stamp)
  BY <1>a, HandlerClock
<1>3. Ahead(r) /\ Takes(r, m)
  BY <1>1, <1>2, PacketTaken
<1>4. Came(r, m)'
  BY <1>3, TakenHasCome
<1>5. PacketsSent(r)
  BY <1>1, ReceivedSent
<1>6. StoreOf(r) /\ StampedVariable(r)'
  BY <1>1, <1>3, VariableKept
<1>7. believeNotifications \in [Agents -> Seq(Packet("Notification"))]
      /\ m \in Packet("Notification")
  BY <1>1, <1>3 DEF StampInv, UpdateInv, UpdateTypeOK, Packet, Takes
<1>8. NotificationsTaken(r)
  <2>1. PICK old : old = believeNotifications[r]
    OBVIOUS
  <2>2. PICK s : s = Append(old, m)
    OBVIOUS
  <2>3. believeNotifications'[r] = s /\ old \in Seq(Packet("Notification"))
    BY <1>1, <1>7, <2>1, <2>2
  <2>4. /\ s \in Seq(Packet("Notification")) /\ Len(s) = Len(old) + 1 /\ Len(old) \in Nat
        /\ \A k \in 1..Len(old) : s[k] = old[k]
        /\ s[Len(old) + 1] = m
    BY <1>7, <2>2, <2>3, AppendProperties, LenProperties
  <2>5. DOMAIN s = 1..(Len(old) + 1) /\ DOMAIN old = 1..Len(old)
    BY <2>3, <2>4, LenProperties
  <2>6. ASSUME NEW k \in DOMAIN s, k # Len(old) + 1 PROVE k \in DOMAIN old /\ s[k] = old[k]
    BY <2>4, <2>5, <2>6
  <2>7. \A k \in DOMAIN s : s[k] = m \/ \E l \in DOMAIN old : s[k] = old[l]
    BY <2>4, <2>6
  <2>8. QED BY <1>4, <2>1, <2>3, <2>7, Zenon DEF NotificationsTaken
<1>9. \A q \in Agents \ {r} : believeNotifications'[q] = believeNotifications[q]
  BY <1>1, <1>7
<1>10. QED BY <1>1, <1>3, <1>5, <1>6, <1>8, <1>9, JobsKeptStamped, NotificationStep

\* The answer to a notification that has come.
LEMMA AnswerStamped ==
  ASSUME StampInv, UpdateInv', UNCHANGED restarts, NEW r \in Agents,
         NEW m \in Packet("Notification"), Came(r, m), AnswerNotification(r, m, Ticked(r, m))
  PROVE  /\ Ahead(r) /\ PacketsSent(r) /\ StoreOf(r) /\ StampedVariable(r)' /\ Came(r, m)'
         /\ clock[r] <= clock'[r] /\ Ticked(r, m) <= clock'[r]
<1>a. PICK c : c = Ticked(r, m)
  OBVIOUS
<1>b. PICK packets : packets = IF m.level > FireAndForget
                               THEN {CaceAcknowledge(r, m.from, m.msgID, own'[r].val, c)} ELSE {}
  OBVIOUS
<1>1. /\ UpdateByNotification(r, m) /\ clock' = [clock EXCEPT ![r] = c]
      /\ net' = Multicast(net, r, packets)
  BY <1>a, <1>b DEF AnswerNotification
<1>2. m \in Message /\ m.kind = "Notification"
  BY DEF Packet
<1>3. c \in Nat /\ Ahead(r) /\ clock'[r] = c
  <2>1. c = clock[r] \/ c = clock[r] + 1
    BY <1>a DEF Ticked
  <2>2. QED BY <1>1, <2>1, TicksAhead
<1>4. Takes(r, m) /\ c <= clock'[r]
  BY <1>2, <1>3, CameTakes
<1>5. Came(r, m)'
  BY <1>3, <1>4, TakenHasCome
<1>6. Passes /\ clock[r] <= clock'[r]
  BY <1>3, AheadPasses
<1>7. StampedVariable(r)'
  BY <1>1, <1>2, <1>4, <1>6, NotificationStaysStamped
<1>8. StoreOf(r)
  BY <1>1, UpdateOfOne DEF UpdateByNotification
<1>9. PacketsSent(r)
  <2>1. ASSUME NEW p, p = CaceAcknowledge(r, m.from, m.msgID, own'[r].val, c)
        PROVE  Sent(r, p)'
    BY <1>4, <2>1, NewPacketSent
  <2>2. \A p \in packets : Sent(r, p)'
    BY <1>b, <2>1 DEF Sent, Stamped
  <2>3. QED BY <1>1, <2>2, MulticastSent
<1>10. QED BY <1>3, <1>4, <1>5, <1>6, <1>7, <1>8, <1>9, <1>a

LEMMA TakeNotificationStamped ==
  ASSUME StampInv, UpdateInv', UNCHANGED restarts, NEW r \in Agents, takeNotification(r)
  PROVE  StampInv'
<1>a. PICK m : m = Head(believeNotifications[r])
  OBVIOUS
<1>b. PICK old : old = believeNotifications[r]
  OBVIOUS
<1>1. /\ old # <<>>
      /\ believeNotifications' = [believeNotifications EXCEPT ![r] = Tail(old)]
  BY <1>b DEF takeNotification
<1>2. /\ believeNotifications \in [Agents -> Seq(Packet("Notification"))] /\ TypeInv
      /\ old \in Seq(Packet("Notification"))
  BY <1>b DEF StampInv, UpdateInv, UpdateTypeOK
<1>3. /\ m = old[1] /\ 1 \in DOMAIN old /\ m \in Packet("Notification")
      /\ Tail(old) \in Seq(Packet("Notification"))
      /\ \A k \in DOMAIN Tail(old) : k + 1 \in DOMAIN old /\ Tail(old)[k] = old[k + 1]
  <2>1. Len(old) \in Nat \ {0} /\ DOMAIN old = 1..Len(old)
    BY <1>1, <1>2, EmptySeq, LenProperties
  <2>2. /\ Tail(old) \in Seq(Packet("Notification")) /\ Len(Tail(old)) = Len(old) - 1
        /\ \A k \in 1..Len(Tail(old)) : Tail(old)[k] = old[k + 1]
        /\ Head(old) \in Packet("Notification") /\ Head(old) = old[1]
    BY <1>1, <1>2, HeadTailProperties
  <2>3. DOMAIN Tail(old) = 1..(Len(old) - 1)
    BY <2>2, LenProperties
  <2>4. QED BY <1>a, <1>b, <2>1, <2>2, <2>3
<1>4. Came(r, m) /\ m \in Message
  BY <1>3, <1>b DEF StampInv, StampedNotifications, Packet
<1>5. NotificationsTaken(r) /\ \A q \in Agents \ {r} : believeNotifications'[q] = believeNotifications[q]
  <2>1. PICK rest : rest = Tail(old)
    OBVIOUS
  <2>2. believeNotifications'[r] = rest
    BY <1>1, <1>2, <2>1
  <2>3. \A k \in DOMAIN rest : \E l \in DOMAIN old : rest[k] = old[l]
    BY <1>3, <2>1
  <2>4. NotificationsTaken(r)
    BY <1>b, <2>2, <2>3, Zenon DEF NotificationsTaken
  <2>5. QED BY <1>1, <1>2, <2>4
\* The job of this notification, once the rest is as it should be.
<1>6. ASSUME NEW retrys \in Retrys(CommandRetrys), NEW started \in BOOLEAN,
             Came(r, m)', clock[r] <= clock'[r],
             appendJob(r, BelieveAcknowledgeJob(m, clock[r], retrys, started))
      PROVE  JobsOf(r)
  <2>1. PICK j : j = BelieveAcknowledgeJob(m, clock[r], retrys, started)
    OBVIOUS
  <2>2. j \in Job
    <3>1. clock[r] \in Nat
      BY <1>2 DEF TypeInv, TypeOK
    <3>2. QED BY <1>3, <2>1, <3>1, NewBelieveAcknowledgeJob
  <2>3. j.kind = "BelieveAcknowledgeJob" /\ j.stamp = clock[r] /\ j.notification = m
    BY <2>1 DEF BelieveAcknowledgeJob
  <2>4. StampedJob(r, j)'
    BY <1>6, <2>3 DEF StampedJob
  <2>5. JobsBecome(r, j)
    BY <1>2, <1>6, <2>1, <2>2, AppendedJob DEF TypeInv, TypeOK
  <2>6. QED BY <2>4, <2>5, JobTaken
<1>7. NotificationRetrys(m) \in Retrys(CommandRetrys) /\ NoRetrys \in Retrys(CommandRetrys)
  BY <1>2, <1>3, TickedType
<1>8. CASE r \in SafeStepRobots
  <2>1. /\ appendJob(r, BelieveAcknowledgeJob(m, clock[r], NoRetrys, FALSE))
        /\ KeepVariable /\ UNCHANGED <<clock, net>>
    BY <1>8, <1>a DEF takeNotification
  <2>2. Ahead(r)
    BY <2>1, ClockKept
  <2>3. Came(r, m)' /\ clock[r] <= clock'[r]
    BY <1>4, <2>2, CameTakes, TakenHasCome, AheadPasses
  <2>4. StoreOf(r) /\ StampedVariable(r)'
    BY <2>1, <2>2, VariableKept
  <2>5. PacketsSent(r)
    BY <2>1 DEF PacketsSent, Sent, Stamped
  <2>6. JobsOf(r)
    BY <1>6, <1>7, <2>1, <2>3
  <2>7. QED BY <1>5, <2>2, <2>4, <2>5, <2>6, NotificationStep
<1>9. CASE r \notin SafeStepRobots
  <2>1. /\ AnswerNotification(r, m, Ticked(r, m))
        /\ appendJob(r, BelieveAcknowledgeJob(m, clock[r], NotificationRetrys(m), TRUE))
    BY <1>9, <1>a DEF takeNotification
  <2>2. /\ Ahead(r) /\ PacketsSent(r) /\ StoreOf(r) /\ StampedVariable(r)' /\ Came(r, m)'
        /\ clock[r] <= clock'[r]
    BY <1>3, <1>4, <2>1, AnswerStamped
  <2>3. JobsOf(r)
    BY <1>6, <1>7, <2>1, <2>2
  <2>4. QED BY <1>5, <2>2, <2>3, NotificationStep
<1>10. QED BY <1>8, <1>9

LEMMA ProcessBelieveNotificationJobStamped ==
  ASSUME StampInv, UpdateInv', UNCHANGED restarts, NEW r \in Agents, NEW i \in DOMAIN jobs[r],
         processBelieveNotificationJob(r, i)
  PROVE  StampInv'
<1>a. PICK o : o = jobs[r][i]
  OBVIOUS
<1>b. PICK j : j = [o EXCEPT !.expected = Unanswered(r, o)]
  OBVIOUS
<1>1. o.kind = "BelieveNotificationJob" /\ KeepVariable /\ UNCHANGED <<clock, believeNotifications>>
  BY <1>a DEF processBelieveNotificationJob, updateVars
<1>2. PICK late \in SUBSET Retryable(j) :
        /\ resend(r, late, {CaceBelieveNotification(r, j.msgID, q, own[r], j.stamp) : q \in late})
        /\ eraseJob(r, i) \/ replaceJob(r, i, Resent(j, late))
  BY <1>a, <1>b DEF processBelieveNotificationJob
<1>3. o \in Job /\ StampedJob(r, o)
  BY <1>a, ListedJob DEF StampInv, StampedJobs, UpdateInv
<1>4. Ahead(r) /\ clock'[r] = clock[r]
  BY <1>1, ClockKept
<1>5. StoreOf(r) /\ StampedVariable(r)'
  BY <1>1, <1>4, VariableKept
<1>6. j \in Job /\ j.kind = "BelieveNotificationJob" /\ j.stamp = o.stamp
  <2>1. Unanswered(r, o) \in SUBSET Agents
    BY <1>1, <1>3, OtherJobFields DEF Unanswered
  <2>2. QED BY <1>1, <1>3, <1>b, <2>1, ChangedBelieveNotificationJob
<1>7. PICK k : k = Resent(j, late)
  OBVIOUS
<1>8. k \in Job /\ k.kind = "BelieveNotificationJob" /\ k.stamp = o.stamp
  BY <1>6, <1>7, ResentBelieveJob
<1>9. StampedJob(r, k)'
  BY <1>1, <1>4, <1>a, <1>8, SameJobStamped DEF StampedKinds
<1>10. JobsOf(r)
  BY <1>2, <1>7, <1>8, <1>9, ErasedTaken, ReplacedTaken
<1>11. PICK b : b = own[r]
  OBVIOUS
<1>12. j.stamp <= clock'[r] /\ b.strat \in UsedStrategies
  BY <1>1, <1>3, <1>4, <1>6, <1>11
     DEF StampedJob, StampedKinds, StampInv, StampedVariables, StampedVariable
<1>13. PICK packets : packets = {CaceBelieveNotification(r, j.msgID, q, b, j.stamp) : q \in late}
  OBVIOUS
<1>14. ASSUME NEW p \in packets PROVE Sent(r, p)'
  <2>1. PICK q \in late : p = CaceBelieveNotification(r, j.msgID, q, b, j.stamp)
    BY <1>13
  <2>2. QED BY <1>12, <2>1, NewPacketSent
<1>15. \A p \in packets : Sent(r, p)'
  BY <1>14 DEF Sent, Stamped
<1>16. PacketsSent(r)
  BY <1>2, <1>11, <1>13, <1>15, ResentSent
<1>17. QED BY <1>1, <1>4, <1>5, <1>10, <1>16, NotificationsKept, NotificationStep

LEMMA StartBelieveAcknowledgeJobStamped ==
  ASSUME StampInv, UpdateInv', UNCHANGED restarts, NEW r \in Agents, NEW i \in DOMAIN jobs[r],
         startBelieveAcknowledgeJob(r, i)
  PROVE  StampInv'
<1>a. PICK o : o = jobs[r][i]
  OBVIOUS
<1>b. PICK m : m = o.notification
  OBVIOUS
<1>c. PICK j : j = [o EXCEPT !.started = TRUE, !.stamp = Ticked(r, m),
                             !.retrys = NotificationRetrys(m),
                             !.expected = o.expected \ Answered(r, m.msgID)]
  OBVIOUS
<1>1. /\ o.kind = "BelieveAcknowledgeJob" /\ AnswerNotification(r, m, Ticked(r, m))
      /\ (eraseJob(r, i) \/ replaceJob(r, i, j)) /\ UNCHANGED believeNotifications
  BY <1>a, <1>b, <1>c DEF startBelieveAcknowledgeJob, updateVars
<1>2. TypeInv
  BY DEF StampInv, UpdateInv
<1>3. o \in Job /\ m \in Packet("Notification") /\ o.expected \in SUBSET Agents
  BY <1>1, <1>2, <1>a, <1>b, ListedJob, OtherJobFields DEF Packet
<1>4. Came(r, m)
  BY <1>1, <1>a, <1>b DEF StampInv, StampedJobs, StampedJob
<1>5. /\ Ahead(r) /\ PacketsSent(r) /\ StoreOf(r) /\ StampedVariable(r)' /\ Came(r, m)'
      /\ Ticked(r, m) <= clock'[r]
  BY <1>1, <1>3, <1>4, AnswerStamped
<1>6. j \in Job /\ j.kind = "BelieveAcknowledgeJob" /\ j.notification = m /\ j.stamp = Ticked(r, m)
  <2>1. j = StartedJob(o, Ticked(r, m), NotificationRetrys(m),
                       o.expected \ Answered(r, m.msgID))
    BY <1>c DEF StartedJob
  <2>2. /\ o.expected \ Answered(r, m.msgID) \in SUBSET Agents /\ Ticked(r, m) \in Nat
        /\ NotificationRetrys(m) \in Retrys(CommandRetrys)
    BY <1>2, <1>3, TickedType
  <2>3. QED BY <1>1, <1>3, <1>b, <2>1, <2>2, StartedBelieveAcknowledgeJob
<1>7. StampedJob(r, j)'
  BY <1>5, <1>6 DEF StampedJob
<1>8. JobsOf(r)
  BY <1>1, <1>6, <1>7, ErasedTaken, ReplacedTaken
<1>9. QED BY <1>1, <1>5, <1>8, NotificationsKept, NotificationStep

LEMMA ProcessBelieveAcknowledgeJobStamped ==
  ASSUME StampInv, UpdateInv', UNCHANGED restarts, NEW r \in Agents, NEW i \in DOMAIN jobs[r],
         processBelieveAcknowledgeJob(r, i)
  PROVE  StampInv'
<1>a. PICK o : o = jobs[r][i]
  OBVIOUS
<1>b. PICK m : m = o.notification
  OBVIOUS
<1>c. PICK j : j = [o EXCEPT !.expected = o.expected \ Answered(r, m.msgID)]
  OBVIOUS
<1>1. o.kind = "BelieveAcknowledgeJob" /\ KeepVariable /\ UNCHANGED <<clock, believeNotifications>>
  BY <1>a, <1>b DEF processBelieveAcknowledgeJob, updateVars
<1>2. PICK late \in SUBSET Retryable(j) :
        /\ resend(r, late, {CaceAcknowledge(r, q, m.msgID, m.val, j.stamp) : q \in late})
        /\ eraseJob(r, i) \/ replaceJob(r, i, Resent(j, late))
  BY <1>a, <1>b, <1>c DEF processBelieveAcknowledgeJob
<1>3. o \in Job /\ StampedJob(r, o)
  BY <1>a, ListedJob DEF StampInv, StampedJobs, UpdateInv
<1>4. Ahead(r) /\ clock'[r] = clock[r]
  BY <1>1, ClockKept
<1>5. StoreOf(r) /\ StampedVariable(r)'
  BY <1>1, <1>4, VariableKept
<1>6. j \in Job /\ j.kind = "BelieveAcknowledgeJob" /\ j.stamp = o.stamp /\ j.notification = o.notification
  <2>1. o.expected \ Answered(r, m.msgID) \in SUBSET Agents
    BY <1>1, <1>3, OtherJobFields
  <2>2. QED BY <1>1, <1>3, <1>c, <2>1, ChangedBelieveAcknowledgeJob
<1>7. PICK k : k = Resent(j, late)
  OBVIOUS
<1>8. /\ k \in Job /\ k.kind = "BelieveAcknowledgeJob" /\ k.stamp = o.stamp
      /\ k.notification = o.notification
  BY <1>6, <1>7, ResentBelieveJob
<1>9. StampedJob(r, k)'
  BY <1>1, <1>4, <1>a, <1>8, SameJobStamped DEF StampedKinds
<1>10. JobsOf(r)
  BY <1>2, <1>7, <1>8, <1>9, ErasedTaken, ReplacedTaken
<1>11. j.stamp <= clock'[r]
  BY <1>1, <1>3, <1>4, <1>6 DEF StampedJob, StampedKinds
<1>12. PICK packets : packets = {CaceAcknowledge(r, q, m.msgID, m.val, j.stamp) : q \in late}
  OBVIOUS
<1>13. ASSUME NEW p \in packets PROVE Sent(r, p)'
  <2>1. PICK q \in late : p = CaceAcknowledge(r, q, m.msgID, m.val, j.stamp)
    BY <1>12
  <2>2. QED BY <1>11, <2>1, NewPacketSent
<1>14. \A p \in packets : Sent(r, p)'
  BY <1>13 DEF Sent, Stamped
<1>15. PacketsSent(r)
  BY <1>2, <1>12, <1>14, ResentSent
<1>16. QED BY <1>1, <1>4, <1>5, <1>10, <1>15, NotificationsKept, NotificationStep

LEMMA StartLateStamped ==
  ASSUME StampInv, UpdateInv', UNCHANGED restarts, NEW r \in Agents, startLate(r)
  PROVE  StampInv'
<1>1. /\ net' = [net EXCEPT ![r] = {}] /\ KeepVariable
      /\ UNCHANGED <<clock, jobs, believeNotifications>>
  BY DEF startLate, updateVars
<1>2. Ahead(r)
  BY <1>1, ClockKept
<1>3. StoreOf(r) /\ StampedVariable(r)'
  BY <1>1, <1>2, VariableKept
<1>4. PacketsSent(r)
  BY <1>1 DEF PacketsSent, StampInv, UpdateInv, TypeInv, TypeOK
<1>5. QED BY <1>1, <1>2, <1>3, <1>4, JobsKeptStamped, NotificationsKept, NotificationStep

\* A robot that starts again keeps nothing, and the others nothing of what its clock
\* said of its packets.
LEMMA RestartStamped ==
  ASSUME StampInv, UpdateInv', NEW r \in Agents, restart(r)
  PROVE  StampInv'
<1>1. /\ restarts' = restarts + 1 /\ clock' = [clock EXCEPT ![r] = 1]
      /\ own' = [own EXCEPT ![r] = Absent(r)] /\ proposals' = [proposals EXCEPT ![r] = <<>>]
      /\ jobs' = [jobs EXCEPT ![r] = <<>>] /\ net' = [net EXCEPT ![r] = {}]
      /\ believeNotifications' = [believeNotifications EXCEPT ![r] = <<>>]
  BY DEF restart
<1>2. /\ restarts \in Nat /\ clock \in [Agents -> Nat] /\ own \in [Agents -> Believe(Agents)]
      /\ proposals \in [Agents -> Seq(Believe(Agents))] /\ jobs \in [Agents -> Seq(Job)]
      /\ net \in [Agents -> SUBSET Message]
      /\ believeNotifications \in [Agents -> Seq(Packet("Notification"))]
  <2>1. TypeOK /\ UpdateTypeOK
    BY DEF StampInv, UpdateInv, TypeInv
  <2>2. restarts \in Nat /\ believeNotifications \in [Agents -> Seq(Packet("Notification"))]
    BY <2>1 DEF UpdateTypeOK
  <2>3. QED BY <2>1, <2>2 DEF TypeOK
<1>3. Passes
  <2>1. restarts' # 0
    BY <1>1, <1>2
  <2>2. QED BY <2>1 DEF Passes
<1>4. PacketsSent(r)
  BY <1>1, <1>2 DEF PacketsSent
<1>5. StampedNet'
  BY <1>3, <1>4, NetStaysStamped
<1>6. /\ jobs'[r] = <<>> /\ believeNotifications'[r] = <<>> /\ proposals'[r] = <<>>
      /\ own'[r] = Absent(r) /\ clock'[r] = 1
  BY <1>1, <1>2
<1>7. StampedVariable(r)'
  <2>1. Absent(r).age = 0 /\ Absent(r).strat = NoDistribution
    BY DEF Absent
  <2>2. NoDistribution \in UsedStrategies
    BY StrategiesUsed DEF UsedStrategies
  <2>3. OneOfEach(r)'
    BY <1>6 DEF OneOfEach
  <2>4. \A k \in DOMAIN proposals'[r] : StampedProposal(r, proposals[r][k])'
    BY <1>6
  <2>5. QED BY <1>6, <2>1, <2>2, <2>3, <2>4 DEF StampedVariable
<1>8. \A q \in Agents \ {r} : Rests(q)
  BY <1>1, <1>2 DEF Rests
<1>9. ASSUME NEW q \in Agents
      PROVE  /\ \A i \in DOMAIN jobs'[q] : \A j : j = jobs'[q][i] => StampedJob(q, j)'
             /\ \A i \in DOMAIN believeNotifications'[q] : \A m :
                  m = believeNotifications'[q][i] => Came(q, m)'
             /\ StampedVariable(q)'
  <2>1. CASE q = r
    BY <1>6, <1>7, <2>1
  <2>2. CASE q # r
    <3>1. /\ clock[q] <= clock'[q] /\ JobsTaken(q) /\ NotificationsTaken(q)
          /\ StampedVariable(q)'
      BY <1>3, <1>8, <2>2, RestingRobot
    <3>2. QED BY <1>3, <3>1, JobsStayStamped, NotificationsStayStamped
  <2>3. QED BY <2>1, <2>2
<1>10. QED BY <1>5, <1>9, RobotsStamped

-----------------------------------------------------------------------------
LEMMA StampInvInit == UpdateInit => StampInv
<1> SUFFICES ASSUME UpdateInit PROVE StampInv
  OBVIOUS
<1>1. UpdateInv
  BY UpdateInvInit
<1>2. /\ clock = [r \in Agents |-> 1] /\ own = [r \in Agents |-> Absent(r)]
      /\ proposals = [r \in Agents |-> <<>>] /\ jobs = [r \in Agents |-> <<>>]
      /\ net = [r \in Agents |-> {}] /\ believeNotifications = [r \in Agents |-> <<>>]
  BY DEF UpdateInit, Init
<1>3. StampedNet /\ StampedJobs /\ StampedNotifications
  BY <1>2 DEF StampedNet, StampedJobs, StampedNotifications
<1>4. ASSUME NEW r \in Agents PROVE StampedVariable(r)
  <2>1. own[r].age = 0 /\ own[r].strat = NoDistribution /\ clock[r] = 1 /\ proposals[r] = <<>>
    BY <1>2 DEF Absent
  <2>2. QED BY <2>1, StrategiesUsed DEF StampedVariable, OneOfEach
<1>5. QED BY <1>1, <1>3, <1>4 DEF StampInv, StampedVariables

LEMMA UpdateStepStamped ==
  ASSUME StampInv, UpdateInv', UpdateStep
  PROVE  StampInv'
<1>1. CASE Next /\ UNCHANGED <<activeRobots, updateVars, restarts>>
  BY <1>1, NextStamped
<1>2. CASE \E r \in Agents : restart(r)
  BY <1>2, RestartStamped
<1>3. ASSUME NEW r \in Agents, UNCHANGED restarts,
             \/ \E q \in Agents : agentEngangementAndUpdate(r, q)
             \/ changeScopeAndRestoreConsistency(r)
             \/ \E m \in net[r] : handleCaceBelieveNotification(r, m)
             \/ takeNotification(r)
             \/ \E i \in DOMAIN jobs[r] : ProcessUpdate(r, i)
             \/ startLate(r)
      PROVE  StampInv'
  BY <1>3, NotifyStamped, HandleCaceBelieveNotificationStamped, TakeNotificationStamped,
     ProcessBelieveNotificationJobStamped, StartBelieveAcknowledgeJobStamped,
     ProcessBelieveAcknowledgeJobStamped, StartLateStamped DEF ProcessUpdate
<1>4. QED BY <1>1, <1>2, <1>3 DEF UpdateStep

LEMMA StampInvStep == StampInv /\ [UpdateNext]_allVars => StampInv'
<1> SUFFICES ASSUME StampInv, [UpdateNext]_allVars PROVE StampInv'
  OBVIOUS
<1>1. UpdateInv'
  BY UpdateInvStep DEF StampInv
<1>2. CASE UNCHANGED allVars
  <2>1. UNCHANGED <<clock, own, proposals, jobs, net, believeNotifications, restarts>>
    BY <1>2 DEF allVars, vars, updateVars
  <2>2. Passes
    BY <2>1, ClocksAreNumbers, <1>1 DEF Passes, StampInv
  <2>3. \A q \in Agents : Rests(q) /\ PacketsSent(q)
    BY <2>1 DEF Rests, PacketsSent
  <2>4. ASSUME NEW r \in Agents
        PROVE  StampedNet'
    BY <1>1, <2>2, <2>3, NetStaysStamped
  <2>5. StampedNet'
    BY <2>4 DEF StampedNet
  <2>6. ASSUME NEW q \in Agents
        PROVE  /\ \A i \in DOMAIN jobs'[q] : \A j : j = jobs'[q][i] => StampedJob(q, j)'
               /\ \A i \in DOMAIN believeNotifications'[q] : \A m :
                    m = believeNotifications'[q][i] => Came(q, m)'
               /\ StampedVariable(q)'
    BY <1>1, <2>2, <2>3, RestingRobot, JobsStayStamped, NotificationsStayStamped
  <2>7. QED BY <1>1, <2>5, <2>6, RobotsStamped
<1>3. CASE UpdateNext
  BY <1>1, <1>3, UpdateStepStamped DEF UpdateNext
<1>4. QED BY <1>2, <1>3

\* The inductive invariant, with any number of restarts: what a robot keeps is not
\* newer than its clock, and until the first restart neither is what it has sent.
THEOREM StampInvCorrect == UpdateSpec => []StampInv
BY StampInvInit, StampInvStep, PTL DEF UpdateSpec

-----------------------------------------------------------------------------
\* Until the first restart the clock of a robot has reached every stamp it has sent or
\* recorded and every stamp recorded of it, notifications included.
THEOREM UpdateClocksDominate == UpdateSpec => []ClockDominatesAtFirst
<1>1. StampInv => ClockDominatesAtFirst
  BY DEF StampInv, StampedNet, StampedVariables, StampedVariable, StampedProposal, Stamped,
         ClockDominates, ClockDominatesAtFirst
<1>2. QED BY <1>1, StampInvCorrect, PTL

\* Whoever starts again, nothing a robot keeps is stamped later than its own clock: its
\* believe, its proposals and the notifications that wait.
THEOREM RecordsStayDominated == UpdateSpec => []RecordsDominated
<1>1. StampInv => RecordsDominated
  BY DEF StampInv, StampedVariables, StampedVariable, StampedProposal, StampedNotifications, Came,
         RecordsDominated
<1>2. QED BY <1>1, StampInvCorrect, PTL

\* A robot never has two proposals of one robot, nor one of its own, though robots
\* start again with old clocks and are told what they said before.
THEOREM UpdateProposalsUnique == UpdateSpec => []OneProposalPerRobot
<1>1. StampInv => OneProposalPerRobot
  BY DEF StampInv, StampedVariables, StampedVariable, StampedProposal, OneOfEach,
         OneProposalPerRobot
<1>2. QED BY <1>1, StampInvCorrect, PTL

-----------------------------------------------------------------------------
\* An answer to a notification leaves no robot with an older believe.
LEMMA AnswerNeverOlder ==
  ASSUME StampInv, Levels \subseteq DefaultStrategies, NEW r \in Agents, NEW m \in Message,
         m.kind = "Notification", UpdateByNotification(r, m)
  PROVE  \A q \in Agents : own'[q].age >= own[q].age
<1>1. PICK props : props = ProposalsAfterCommand(r, m)
  OBVIOUS
<1>2. PICK created : created = CreatedByNotification(r, m)
  OBVIOUS
<1>3. created \in Valued /\ props \in Seq(Valued)
  BY <1>1, <1>2, CreatedByNotificationType, NewProposals DEF StampInv, UpdateInv
<1>4. DoVariableUpdate(r, created, props)
  BY <1>1, <1>2 DEF UpdateByNotification
<1>5. UsedVariable(r) /\ DatedBelieve(r) /\ TypeInv
  BY StampedMeansUsed DEF StampInv, UpdateInv
<1>6. QED BY <1>3, <1>4, <1>5, OwnNeverOlder

\* With default strategies no step but a restart leaves a robot with an older believe.
LEMMA StepNeverOlder ==
  ASSUME StampInv, UpdateStep, Levels \subseteq DefaultStrategies, NEW q \in Agents
  PROVE  own'[q].age >= own[q].age \/ restart(q)
<1>a. \A e \in Nat : e >= e
  OBVIOUS
<1>1. own \in [Agents -> Believe(Agents)] /\ own[q].age \in Nat
  BY DEF StampInv, UpdateInv, TypeInv, TypeOK, Believe
<1>2. CASE KeepVariable
  BY <1>a, <1>1, <1>2 DEF KeepVariable
<1>3. CASE Next
  BY <1>3, NextNeverOlder, StampedMeansUsed DEF StampInv, UpdateInv
<1>4. ASSUME NEW r \in Agents, restart(r) PROVE own'[q].age >= own[q].age \/ restart(q)
  <2>1. CASE q = r
    BY <1>4, <2>1
  <2>2. CASE q # r
    <3>1. own' = [own EXCEPT ![r] = Absent(r)]
      BY <1>4 DEF restart
    <3>2. own'[q] = own[q]
      BY <1>1, <2>2, <3>1
    <3>3. QED BY <1>a, <1>1, <3>2
  <2>3. QED BY <2>1, <2>2
<1>5. ASSUME NEW r \in Agents, takeNotification(r) PROVE own'[q].age >= own[q].age
  <2>1. PICK m : m = Head(believeNotifications[r])
    OBVIOUS
  <2>2. believeNotifications[r] # <<>> /\ (KeepVariable \/ UpdateByNotification(r, m))
    BY <1>5, <2>1 DEF takeNotification, AnswerNotification
  <2>3. m \in Packet("Notification")
    BY <2>1, <2>2, HeadTailProperties DEF StampInv, UpdateInv, UpdateTypeOK
  <2>4. m \in Message /\ m.kind = "Notification"
    BY <2>3 DEF Packet
  <2>5. QED BY <1>a, <1>1, <2>2, <2>4, AnswerNeverOlder DEF KeepVariable
<1>6. ASSUME NEW r \in Agents, NEW i \in DOMAIN jobs[r], ProcessUpdate(r, i)
      PROVE  own'[q].age >= own[q].age
  <2>1. CASE startBelieveAcknowledgeJob(r, i)
    <3>1. PICK o : o = jobs[r][i]
      OBVIOUS
    <3>2. o.kind = "BelieveAcknowledgeJob" /\ UpdateByNotification(r, o.notification)
      BY <2>1, <3>1 DEF startBelieveAcknowledgeJob, AnswerNotification
    <3>3. o \in Job
      BY <3>1, ListedJob DEF StampInv, UpdateInv
    <3>4. o.notification \in Message /\ o.notification.kind = "Notification"
      BY <3>2, <3>3, OtherJobFields
    <3>5. QED BY <3>2, <3>4, AnswerNeverOlder
  <2>2. CASE KeepVariable
    BY <1>a, <1>1, <2>2 DEF KeepVariable
  <2>3. QED BY <1>6, <2>1, <2>2
           DEF ProcessUpdate, processBelieveNotificationJob, processBelieveAcknowledgeJob
<1>7. ASSUME NEW r \in Agents, NEW p \in Agents, agentEngangementAndUpdate(r, p) PROVE KeepVariable
  BY <1>7 DEF agentEngangementAndUpdate, sendBelieveUpdates
<1>8. ASSUME NEW r \in Agents, changeScopeAndRestoreConsistency(r) PROVE KeepVariable
  BY <1>8 DEF changeScopeAndRestoreConsistency, sendBelieveUpdates
<1>9. ASSUME NEW r \in Agents, NEW m \in net[r], handleCaceBelieveNotification(r, m)
      PROVE  KeepVariable
  BY <1>9 DEF handleCaceBelieveNotification
<1>10. ASSUME NEW r \in Agents, startLate(r) PROVE KeepVariable
  BY <1>10 DEF startLate
<1>11. QED BY <1>2, <1>3, <1>4, <1>5, <1>6, <1>7, <1>8, <1>9, <1>10 DEF UpdateStep

\* With default strategies only a robot that starts again loses its believe for an
\* older one; what it is told afterwards takes nothing back, nor does what the others
\* are told of it.
THEOREM RestartsRollBack == UpdateSpec => OnlyRestartsRollBack
<1>1. StampInv /\ [UpdateNext]_allVars =>
        [Levels \subseteq DefaultStrategies =>
           \A r \in Agents : own'[r].age < own[r].age => restart(r)]_allVars
  <2> SUFFICES ASSUME StampInv, UpdateNext, Levels \subseteq DefaultStrategies, NEW r \in Agents,
                      own'[r].age < own[r].age
               PROVE  restart(r)
    OBVIOUS
  <2>1. own'[r].age >= own[r].age \/ restart(r)
    BY StepNeverOlder DEF UpdateNext
  <2>2. own'[r].age \in Nat /\ own[r].age \in Nat
    <3>1. UpdateInv'
      BY UpdateInvStep DEF StampInv
    <3>2. QED BY <3>1 DEF StampInv, UpdateInv, TypeInv, TypeOK, Believe
  <2>3. QED BY <2>1, <2>2
<1>2. QED BY <1>1, StampInvCorrect, PTL DEF UpdateSpec, OnlyRestartsRollBack
=============================================================================
