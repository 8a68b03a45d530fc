---------------------------- MODULE BelieveUpdate ----------------------------
(***************************************************************************)
(* Restoring the believes of a robot that joins or comes back: a robot     *)
(* that engages another one, or changes its scope, notifies it of the      *)
(* variable, and the other answers with an acknowledge as it would answer  *)
(* a command.  Notifications and commands share the proposals, the clock,  *)
(* the job list and the channels of acknowledges and short acks, so the    *)
(* module extends the command protocol with the actions that notify.       *)
(*                                                                         *)
(* Notifications wait in believeNotifications until the timer thread takes *)
(* them (Cace::step).  It takes them one by one: between two of them the   *)
(* handlers of the other threads run.                                      *)
(***************************************************************************)
EXTENDS CaceProtocol

CONSTANTS
  MaxUpdates,  \* bound: calls that send believe updates
  MaxRestarts, \* bound: robots that end and start again
  MaxJobs      \* bound: jobs of a robot the fairness speaks of

ASSUME UpdatesAssumption == MaxUpdates \in Nat /\ MaxRestarts \in Nat /\ MaxJobs \in Nat

VARIABLES
  believeNotifications, \* CaceCommunication::believeNotifications
  updates,              \* number of calls that sent believe updates
  restarts,             \* number of robots that started again
  calm                  \* history: no call was made before the one before it was over

updateVars == <<believeNotifications, updates>>

allVars == <<vars, updateVars, restarts, calm>>

CaceBelieveNotification(r, to, id, b, stamp) ==
  [kind |-> "Notification", from |-> r, to |-> to, msgID |-> id, val |-> b.val,
   level |-> b.strat, dec |-> b.dec, stamp |-> stamp]

BelieveNotificationJob(id, q, stamp) ==
  [kind |-> "BelieveNotificationJob", msgID |-> id, expected |-> {q}, stamp |-> stamp,
   retrys |-> FullRetrys({q}, CommandRetrys)]

BelieveAcknowledgeJob(m, stamp, retrys, started) ==
  [kind |-> "BelieveAcknowledgeJob", notification |-> m, expected |-> {m.from},
   stamp |-> stamp, retrys |-> retrys, started |-> started]

-----------------------------------------------------------------------------
(***************************************************************************)
(* Calls of the user that notify other robots.                             *)
(***************************************************************************)
lastKnownUpdateTime(r, q) ==
  LET known == {k \in DOMAIN proposals[r] : proposals[r][k].id = q} IN
  IF known = {} THEN 0 ELSE proposals[r][Min(known)].age

\* FAULT: two way variables are left out.
NeedsUpdate_ThreeWayOnly(r, q) ==
  /\ existsVariable(r)
  /\ lastKnownUpdateTime(r, q) < own[r].age
  /\ own[r].strat > TwoWayHandShake

NeedsUpdate(r, q) ==
  /\ existsVariable(r)
  /\ lastKnownUpdateTime(r, q) < own[r].age
  /\ own[r].strat > FireAndForget

\* FAULT: packets are stamped one tick ahead of the clock.
sendBelieveUpdates_Ahead(r, s) ==
  LET L(k) == clock[r] + k
      id(k) == ((L(k) + 100) * r) % 65536
  IN /\ updates < MaxUpdates
     /\ updates' = updates + 1
     /\ clock' = [clock EXCEPT ![r] = @ + Len(s)]
     /\ net' = Multicast(net, r, {CaceBelieveNotification(r, s[k], id(k), own[r], L(k) + 1)
                                    : k \in DOMAIN s})
     /\ jobs' = [jobs EXCEPT ![r] =
                   @ \o [k \in DOMAIN s |-> BelieveNotificationJob(id(k), s[k], L(k))]]
     /\ KeepVariable
     /\ UNCHANGED <<shortAcks, commands, resends, dups, believeNotifications>>

\* sendBelieveUpdates to the robots of sequence s: one job and one tick for each.
\* The job keeps the clock before its tick, the packet carries the one after.
sendBelieveUpdates(r, s) ==
  LET L(k) == clock[r] + k - 1
      id(k) == ((L(k) + 100) * r) % 65536
  IN /\ updates < MaxUpdates
     /\ updates' = updates + 1
     /\ clock' = [clock EXCEPT ![r] = @ + Len(s)]
     /\ net' = Multicast(net, r, {CaceBelieveNotification(r, s[k], id(k), own[r], L(k) + 1)
                                    : k \in DOMAIN s})
     /\ jobs' = [jobs EXCEPT ![r] =
                   @ \o [k \in DOMAIN s |-> BelieveNotificationJob(id(k), s[k], L(k))]]
     /\ KeepVariable
     /\ UNCHANGED <<shortAcks, commands, resends, dups, believeNotifications>>

\* agentEngangement(q, TRUE)
agentEngangementAndUpdate(r, q) ==
  /\ q \in Others(r) \ activeRobots[r]
  /\ activeRobots' = [activeRobots EXCEPT ![r] = @ \cup {q}]
  /\ sendBelieveUpdates(r, IF NeedsUpdate(r, q) THEN <<q>> ELSE <<>>)

\* The order is that of the vector activeRobots, which the set does not keep.
changeScopeAndRestoreConsistency(r) ==
  /\ \E s \in SetToSeqs({q \in activeRobots[r] : NeedsUpdate(r, q)}) : sendBelieveUpdates(r, s)
  /\ UNCHANGED activeRobots

-----------------------------------------------------------------------------
handleCaceBelieveNotification(r, m) ==
  /\ m.kind = "Notification"
  /\ Addressed(r, m)
  /\ Receive(r, m, {})
  /\ clock' = [clock EXCEPT ![r] = Seen(@, m.stamp)]
  /\ believeNotifications' = [believeNotifications EXCEPT ![r] = Append(@, m)]
  /\ KeepVariable
  /\ UNCHANGED <<activeRobots, jobs, shortAcks, commands, resends, updates>>

\* FAULT: the variable is created without a value.
CreatedByNotification_NoValue(r, m) ==
  [id |-> r, val |-> NoValue, age |-> m.stamp, strat |-> m.level, dec |-> m.dec]

\* doVariableUpdate of BelieveAcknowledgeJob: as for a command, but a robot that does
\* not know the variable starts from the value it was told even in an election.
CreatedByNotification(r, m) ==
  [id |-> r, val |-> m.val, age |-> m.stamp, strat |-> m.level, dec |-> m.dec]

\* FAULT: the believe is overwritten with what the robot was told.
UpdateByNotification_Overwrites(r, m) ==
  /\ proposals' = [proposals EXCEPT ![r] = ProposalsAfterCommand(r, m)]
  /\ own' = [own EXCEPT ![r] = CreatedByNotification(r, m)]
  /\ held' = [held EXCEPT ![r] = @ \cup {m.val}]
  /\ UNCHANGED noted

UpdateByNotification(r, m) ==
  /\ DoVariableUpdate(r, CreatedByNotification(r, m), ProposalsAfterCommand(r, m))
  /\ UNCHANGED noted

\* The update and the acknowledge, to the notifier only; c is the clock it ticks to.
AnswerNotification(r, m, c) ==
  /\ UpdateByNotification(r, m)
  /\ clock' = [clock EXCEPT ![r] = c]
  /\ net' = Multicast(net, r,
       IF m.level > FireAndForget THEN {CaceAcknowledge(r, m.from, m.msgID, own'[r].val, c)} ELSE {})

Ticked(r, m) == IF m.level > FireAndForget THEN clock[r] + 1 ELSE clock[r]

NotificationRetrys(m) ==
  IF m.level > FireAndForget THEN FullRetrys({m.from}, CommandRetrys) ELSE NoRetrys

\* Cace::step makes a job of a notification.  Without safeStepMode its constructor
\* answers; the job keeps the clock from before the tick of its acknowledge.
takeNotification(r) ==
  LET m == Head(believeNotifications[r]) IN
  /\ believeNotifications[r] # <<>>
  /\ believeNotifications' = [believeNotifications EXCEPT ![r] = Tail(@)]
  /\ \/ /\ r \in SafeStepRobots
        /\ appendJob(r, BelieveAcknowledgeJob(m, clock[r], NoRetrys, FALSE))
        /\ KeepVariable
        /\ UNCHANGED <<clock, net>>
     \/ /\ r \notin SafeStepRobots
        /\ AnswerNotification(r, m, Ticked(r, m))
        /\ appendJob(r, BelieveAcknowledgeJob(m, clock[r], NotificationRetrys(m), TRUE))
  /\ UNCHANGED <<activeRobots, shortAcks, commands, resends, dups, updates>>

-----------------------------------------------------------------------------
(***************************************************************************)
(* process() of the i-th job.                                              *)
(***************************************************************************)
\* A repetition is sent with receiver and message id exchanged: its receiver is the
\* number of the message.
processBelieveNotificationJob(r, i) ==
  LET j == [jobs[r][i] EXCEPT !.expected = Unanswered(r, jobs[r][i])]
      acked == own[r].strat > FireAndForget
      done == \/ j.expected = {}
              \/ acked /\ Retryable(j) = {}
              \/ own[r].strat <= NoDistribution
  IN /\ jobs[r][i].kind = "BelieveNotificationJob"
     /\ \E late \in IF acked THEN SUBSET Retryable(j) ELSE {{}} :
          /\ resend(r, late, {CaceBelieveNotification(r, j.msgID, q, own[r], j.stamp) : q \in late})
          /\ IF done THEN eraseJob(r, i) ELSE replaceJob(r, i, Resent(j, late))
     /\ KeepVariable
     /\ UNCHANGED <<clock, activeRobots, shortAcks, commands, dups, updateVars>>

BelieveAckDone(j) ==
  j.expected = {} \/ (j.notification.level > FireAndForget /\ Retryable(j) = {})

\* In safeStepMode the first process() does the update and sends the acknowledge.
startBelieveAcknowledgeJob(r, i) ==
  LET m == jobs[r][i].notification
      j == [jobs[r][i] EXCEPT !.started = TRUE, !.stamp = Ticked(r, m),
              !.retrys = NotificationRetrys(m), !.expected = @ \ Answered(r, m.msgID)]
  IN /\ jobs[r][i].kind = "BelieveAcknowledgeJob"
     /\ ~jobs[r][i].started
     /\ AnswerNotification(r, m, Ticked(r, m))
     /\ TakeShortAcks(r, m.msgID)
     /\ IF BelieveAckDone(j) THEN eraseJob(r, i) ELSE replaceJob(r, i, j)
     /\ UNCHANGED <<activeRobots, commands, resends, dups, updateVars>>

\* A repeated acknowledge carries the value of the notification.
processBelieveAcknowledgeJob(r, i) ==
  LET m == jobs[r][i].notification
      j == [jobs[r][i] EXCEPT !.expected = @ \ Answered(r, m.msgID)]
  IN /\ jobs[r][i].kind = "BelieveAcknowledgeJob"
     /\ jobs[r][i].started
     /\ TakeShortAcks(r, m.msgID)
     /\ \E late \in IF m.level > FireAndForget THEN SUBSET Retryable(j) ELSE {{}} :
          /\ resend(r, late, {CaceAcknowledge(r, q, m.msgID, m.val, j.stamp) : q \in late})
          /\ IF BelieveAckDone(j) THEN eraseJob(r, i) ELSE replaceJob(r, i, Resent(j, late))
     /\ KeepVariable
     /\ UNCHANGED <<clock, activeRobots, commands, dups, updateVars>>

-----------------------------------------------------------------------------
(***************************************************************************)
(* Robots that come late and robots that start again.                      *)
(***************************************************************************)
\* Robot r was not running yet, so nobody has engaged it, and has missed all that was
\* sent to it.
startLate(r) ==
  /\ clock[r] = 1
  /\ \A q \in Agents : r \notin activeRobots[q]
  /\ ~existsVariable(r)
  /\ net[r] # {}
  /\ net' = [net EXCEPT ![r] = {}]
  /\ KeepVariable
  /\ UNCHANGED <<clock, activeRobots, jobs, shortAcks, commands, resends, dups, updateVars>>

\* Robot r ends and starts again: nothing of its state is kept, its clock starts
\* from 1, and what is under way to it is missed.
restart(r) ==
  /\ restarts < MaxRestarts
  /\ restarts' = restarts + 1
  /\ clock' = [clock EXCEPT ![r] = 1]
  /\ activeRobots' = [activeRobots EXCEPT ![r] = {}]
  /\ own' = [own EXCEPT ![r] = Absent(r)]
  /\ proposals' = [proposals EXCEPT ![r] = <<>>]
  /\ jobs' = [jobs EXCEPT ![r] = <<>>]
  /\ shortAcks' = [shortAcks EXCEPT ![r] = {}]
  /\ net' = [net EXCEPT ![r] = {}]
  /\ believeNotifications' = [believeNotifications EXCEPT ![r] = <<>>]
  /\ UNCHANGED <<commands, resends, dups, held, noted, updates>>

-----------------------------------------------------------------------------
UpdateInit ==
  /\ Init
  /\ believeNotifications = [r \in Agents |-> <<>>]
  /\ updates = 0
  /\ restarts = 0
  /\ calm = TRUE

ProcessUpdate(r, i) ==
  \/ processBelieveNotificationJob(r, i)
  \/ startBelieveAcknowledgeJob(r, i)
  \/ processBelieveAcknowledgeJob(r, i)

\* No job is left, no packet is under way and no notification waits.
UpdateQuiet == Quiet /\ \A r \in Agents : believeNotifications[r] = <<>>

Calls == <<commands, updates, restarts>>

\* Here every engagement sends believe updates: those that do not are in Next.
UpdateStep ==
  \/ Next /\ UNCHANGED <<activeRobots, updateVars, restarts>>
  \/ \E r \in Agents : restart(r)
  \/ /\ UNCHANGED restarts
     /\ \E r \in Agents :
          \/ \E q \in Agents : agentEngangementAndUpdate(r, q)
          \/ changeScopeAndRestoreConsistency(r)
          \/ \E m \in net[r] : handleCaceBelieveNotification(r, m)
          \/ takeNotification(r)
          \/ \E i \in DOMAIN jobs[r] : ProcessUpdate(r, i)
          \/ startLate(r)

\* calm stays TRUE as long as each call is made when everything the calls before it
\* caused is over.
UpdateNext ==
  /\ UpdateStep
  /\ calm' = (calm /\ (UNCHANGED Calls \/ UpdateQuiet))

UpdateSpec == UpdateInit /\ [][UpdateNext]_allVars

\* In every step the timer thread takes the notifications and processes each job of
\* the list, and time passes.
UpdateFairness ==
  \A r \in Agents :
    /\ WF_<<vars, updateVars>>(takeNotification(r))
    /\ \A i \in 1..MaxJobs :
         WF_<<vars, updateVars>>(/\ i \in DOMAIN jobs[r]
                                 /\ (Process(r, i) /\ UNCHANGED updateVars) \/ ProcessUpdate(r, i))

FairUpdateSpec == UpdateSpec /\ UpdateFairness

-----------------------------------------------------------------------------
(***************************************************************************)
(* Safety and liveness.                                                    *)
(***************************************************************************)
\* cace.h: "If sendBelieveUpdates is true the agents database will be restored":
\* when all is over, a robot that another one engaged with believe updates holds
\* what that robot holds, though it may have missed every command.  Not so a robot
\* that has started again, as long as the other keeps a proposal of it from before
\* that is new enough: then nothing is sent to it.  And not when the robot that missed
\* a command sends one of its own more than once: its stamps can then be as old as what
\* the others have, and two robots may swap their values; that both have one remains.
\* Calls that do not wait for each other may end otherwise, and fire-and-forget
\* variables are not restored.
EngagedAreRestored ==
  calm /\ UpdateQuiet =>
    \A r \in Agents : \A q \in activeRobots[r] :
      own[r].strat > FireAndForget =>
        \/ own[q].val = own[r].val
        \/ restarts > 0 /\ lastKnownUpdateTime(r, q) >= own[r].age
        \/ resends > 0 /\ commands > 1 /\ existsVariable(q)

\* BelieveNotificationJob::process: a notification is given up only when the robot it
\* is for has a proposal not older than the job, when all repetitions were sent, or
\* when the variable is no longer distributed.
NotificationEndsAnswered ==
  [][\A r \in Agents : \A i \in DOMAIN jobs[r] :
       processBelieveNotificationJob(r, i) /\ Len(jobs'[r]) < Len(jobs[r])
         /\ own[r].strat # NoDistribution =>
         \A q \in DOMAIN jobs[r][i].retrys :
           \/ own[r].strat > FireAndForget /\ jobs[r][i].retrys[q] = 0
           \/ \E k \in DOMAIN proposals[r] :
                proposals[r][k].id = q /\ proposals[r][k].age >= jobs[r][i].stamp]_allVars

\* Until a robot starts again, a notification, too, is within the clock of its sender:
\* ClockDominates holds though robots are told of believes they had no part in.
ClockDominatesAtFirst == restarts = 0 => ClockDominates

\* Nothing a robot keeps is stamped later than its own clock, though others may have
\* started again with their clocks at 1: what it distributes next is at least as new
\* as all it knows, and a notification it has taken in does not outrun it
\* (TimeManager::updateLamportTime in every handler).
RecordsDominated ==
  \A r \in Agents :
    /\ own[r].age <= clock[r]
    /\ \A k \in DOMAIN proposals[r] : proposals[r][k].age <= clock[r]
    /\ \A i \in DOMAIN believeNotifications[r] : believeNotifications[r][i].stamp <= clock[r]

\* With the default accept strategy only a robot that starts again loses its believe
\* for an older one: a notification, however late it comes and whoever started again
\* before, does not (doVariableUpdate of BelieveAcknowledgeJob accepts proposals, it
\* does not overwrite).
OnlyRestartsRollBack ==
  [][Levels \subseteq DefaultStrategies =>
       \A r \in Agents : own'[r].age < own[r].age => restart(r)]_allVars

\* A bound for TLC: a packet is sent again, or a robot starts again, but not both.
OneFault == resends + restarts <= 1

\* The default strategies only compare values for equality.
ValueSymmetry == Permutations(Values)
=============================================================================
