---------------------------- MODULE RemoteAccess ----------------------------
(***************************************************************************)
(* Access to the variable in another robot's store: requests and their     *)
(* responses, and writes.  Both share the clock, the job list, the store   *)
(* and the short acks with the commands of CaceProtocol.                   *)
(*                                                                         *)
(* A robot asks the network, goes on, and looks later whether something    *)
(* has come into its list of responses: nothing ties a response to the     *)
(* request it answers but the name of the variable.                        *)
(***************************************************************************)
EXTENDS CaceProtocol

CONSTANTS
  MaxRequests, \* bound: calls of requestVariable
  MaxWrites    \* bound: calls of writeVariable

ASSUME RemoteAssumption == MaxRequests \in Nat /\ MaxWrites \in Nat

VARIABLES
  responses, \* CVariableStore::responses, and as history the request each answers
  requests,  \* number of calls of requestVariable
  writes,    \* number of calls of writeVariable
  asked      \* history: the message id of the robot's last request

remoteVars == <<responses, requests, writes, asked>>

allVars == <<vars, remoteVars>>

\* A request tells no time: stamp 0 moves no clock.
CaceVariableRequest(r, to, id) ==
  [kind |-> "Request", from |-> r, to |-> to, msgID |-> id, stamp |-> 0]

CaceResponse(r, to, id, b, stamp) ==
  [kind |-> "Response", from |-> r, to |-> to, msgID |-> id, val |-> b.val,
   level |-> b.strat, dec |-> b.dec, stamp |-> stamp]

CaceWrite(r, to, id, b, stamp) ==
  [kind |-> "Write", from |-> r, to |-> to, msgID |-> id, val |-> b.val,
   level |-> b.strat, dec |-> b.dec, stamp |-> stamp]

RequestJob(id, q) ==
  [kind |-> "RequestJob", msgID |-> id, expected |-> {q}, retrys |-> FullRetrys({q}, CommandRetrys)]

WriteJob(id, q, b) ==
  [kind |-> "WriteJob", msgID |-> id, variable |-> b, expected |-> {q},
   retrys |-> FullRetrys({q}, CommandRetrys)]

WriteAckJob(m) == [kind |-> "WriteAckJob", cmd |-> m]

tick(r) == clock' = [clock EXCEPT ![r] = @ + 1]

-----------------------------------------------------------------------------
(***************************************************************************)
(* Calls of the user.                                                      *)
(***************************************************************************)
\* FAULT: old responses are kept.
deleteResponse_Nothing(s) == s

\* The loop erases the element at its index and then steps over the next one, so of
\* the responses of one name every second is kept.
deleteResponse(s) == [k \in 1..(Len(s) \div 2) |-> s[2 * k]]

requestVariable(r, q) ==
  /\ requests < MaxRequests
  /\ requests' = requests + 1
  /\ asked' = [asked EXCEPT ![r] = MsgID(r)]
  /\ responses' = [responses EXCEPT ![r] = deleteResponse(@)]
  /\ tick(r)
  /\ net' = Multicast(net, r, {CaceVariableRequest(r, q, MsgID(r))})
  /\ appendJob(r, RequestJob(MsgID(r), q))
  /\ KeepVariable
  /\ UNCHANGED <<activeRobots, shortAcks, commands, resends, dups, writes>>

\* Takes the first response.
getRequestedVariable(r) ==
  /\ responses[r] # <<>>
  /\ responses' = [responses EXCEPT ![r] = Tail(@)]
  /\ UNCHANGED <<vars, requests, writes, asked>>

\* The user writes a variable of its own making, not the one in its store.
writeVariable(r, q, v, s, t) ==
  LET b == [id |-> r, val |-> v, age |-> clock[r], strat |-> s, dec |-> t] IN
  /\ writes < MaxWrites
  /\ writes' = writes + 1
  /\ tick(r)
  /\ net' = Multicast(net, r, {CaceWrite(r, q, MsgID(r), b, clock[r] + 1)})
  /\ appendJob(r, WriteJob(MsgID(r), q, b))
  /\ KeepVariable
  /\ UNCHANGED <<activeRobots, shortAcks, commands, resends, dups, responses, requests, asked>>

-----------------------------------------------------------------------------
(***************************************************************************)
(* Handlers.                                                               *)
(***************************************************************************)
\* A robot answers with its own believe, blank when it does not know the variable.
\* The response goes out with the present time, not with the age of the believe.
handleCaceVariableRequest(r, m) ==
  /\ m.kind = "Request"
  /\ Addressed(r, m)
  /\ tick(r)
  /\ Receive(r, m, {CaceResponse(r, m.from, m.msgID, own[r], clock[r] + 1)})
  /\ KeepVariable
  /\ UNCHANGED <<activeRobots, jobs, shortAcks, commands, resends, remoteVars>>

\* FAULT: a response is as old as its receiver's clock.
Response_OwnTime(r, m) == [Heard(m, m.level, m.dec) EXCEPT !.age = Seen(clock[r], m.stamp)]

Response(r, m) == Heard(m, m.level, m.dec)

handleCaceResponse(r, m) ==
  /\ m.kind = "Response"
  /\ Addressed(r, m)
  /\ Receive(r, m, {})
  /\ clock' = [clock EXCEPT ![r] = Seen(@, m.stamp)]
  /\ responses' = [responses EXCEPT ![r] = Append(@,
       [believe |-> Response(r, m), request |-> m.msgID])]
  /\ KeepVariable
  /\ UNCHANGED <<activeRobots, jobs, shortAcks, commands, resends, requests, writes, asked>>

\* doVariableUpdate of WriteAckJob: the own believe becomes the one written, whatever
\* its age; proposals are neither kept for the writer nor looked at.
Written(r, m) == [id |-> r, val |-> m.val, age |-> m.stamp, strat |-> m.level, dec |-> m.dec]

UpdateByWrite(r, m) ==
  /\ own' = [own EXCEPT ![r] = Written(r, m)]
  /\ held' = [held EXCEPT ![r] = @ \cup {m.val}]
  /\ noted' = [noted EXCEPT ![r] = @ \cup {[from |-> m.from, msgID |-> m.msgID]}]
  /\ UNCHANGED proposals

\* sendCaceWriteAck sends a short ack: it goes to the list of short acks, and the
\* list of write acks that WriteJob reads stays empty for good.
CaceWriteAck(r, m, stamp) == CaceShortAck(r, m.from, m.msgID, stamp)

\* FAULT: the clock ignores the stamp of a write.
ClockAtWrite_Ignored(r, m) == clock[r]

ClockAtWrite(r, m) == Seen(clock[r], m.stamp)

\* Without safeStepMode the WriteAckJob does its work here and its process() only
\* removes it: that job is left out.
handleCaceWrite(r, m) ==
  LET c == ClockAtWrite(r, m) IN
  /\ m.kind = "Write"
  /\ Addressed(r, m)
  /\ \/ /\ r \in SafeStepRobots
        /\ Receive(r, m, {})
        /\ clock' = [clock EXCEPT ![r] = c]
        /\ appendJob(r, WriteAckJob(m))
        /\ KeepVariable
     \/ /\ r \notin SafeStepRobots
        /\ UpdateByWrite(r, m)
        /\ clock' = [clock EXCEPT ![r] = c + 1]
        /\ Receive(r, m, {CaceWriteAck(r, m, c + 1)})
        /\ UNCHANGED jobs
  /\ UNCHANGED <<activeRobots, shortAcks, commands, resends, remoteVars>>

-----------------------------------------------------------------------------
(***************************************************************************)
(* process() of the i-th job.                                              *)
(***************************************************************************)
\* Each packet a job sends again is one more tick.
ResendLater(r, i, packet) ==
  LET j == jobs[r][i] IN
  /\ Retryable(j) # {}
  /\ resend(r, Retryable(j), {packet})
  /\ tick(r)
  /\ replaceJob(r, i, Resent(j, Retryable(j)))

GiveUp(r, i) ==
  /\ eraseJob(r, i)
  /\ UNCHANGED <<clock, net, resends>>

\* Any response of the variable ends the job.
processRequestJob(r, i) ==
  LET j == jobs[r][i] IN
  /\ j.kind = "RequestJob"
  /\ \/ (responses[r] # <<>> \/ Retryable(j) = {}) /\ GiveUp(r, i)
     \/ /\ responses[r] = <<>>
        /\ \E q \in j.expected : ResendLater(r, i, CaceVariableRequest(r, q, j.msgID))
  /\ KeepVariable
  /\ UNCHANGED <<activeRobots, shortAcks, commands, dups, remoteVars>>

\* No acknowledge ends the job.  A repeated write is stamped with the present time.
processWriteJob(r, i) ==
  LET j == jobs[r][i] IN
  /\ j.kind = "WriteJob"
  /\ \/ Retryable(j) = {} /\ GiveUp(r, i)
     \/ \E q \in j.expected : ResendLater(r, i, CaceWrite(r, q, j.msgID, j.variable, clock[r] + 1))
  /\ KeepVariable
  /\ UNCHANGED <<activeRobots, shortAcks, commands, dups, remoteVars>>

\* In safeStepMode.
processWriteAckJob(r, i) ==
  LET m == jobs[r][i].cmd IN
  /\ jobs[r][i].kind = "WriteAckJob"
  /\ UpdateByWrite(r, m)
  /\ tick(r)
  /\ net' = Multicast(net, r, {CaceWriteAck(r, m, clock[r] + 1)})
  /\ eraseJob(r, i)
  /\ UNCHANGED <<activeRobots, shortAcks, commands, resends, dups, remoteVars>>

-----------------------------------------------------------------------------
RemoteInit ==
  /\ Init
  /\ responses = [r \in Agents |-> <<>>]
  /\ requests = 0
  /\ writes = 0
  /\ asked = [r \in Agents |-> 0]

RemoteCall(r) ==
  \/ \E q \in Others(r) :
       \/ requestVariable(r, q)
       \/ \E v \in Values, s \in Levels, t \in DecissionTimes : writeVariable(r, q, v, s, t)
  \/ getRequestedVariable(r)

RemoteHandle(r, m) ==
  \/ handleCaceVariableRequest(r, m)
  \/ handleCaceResponse(r, m)
  \/ handleCaceWrite(r, m)

ProcessRemote(r, i) ==
  \/ processRequestJob(r, i)
  \/ processWriteJob(r, i)
  \/ processWriteAckJob(r, i)

RemoteNext ==
  \/ Next /\ UNCHANGED remoteVars
  \/ \E r \in Agents :
       \/ RemoteCall(r)
       \/ \E m \in net[r] : RemoteHandle(r, m)
       \/ \E i \in DOMAIN jobs[r] : ProcessRemote(r, i)

RemoteSpec == RemoteInit /\ [][RemoteNext]_allVars

\* Users that distribute or request when everything that was done before is over;
\* writes come at any time.
PatientNext == RemoteNext /\ (<<requests, commands>>' # <<requests, commands>> => Quiet)
PatientSpec == RemoteInit /\ [][PatientNext]_allVars

\* The same, as long as nothing was sent again or came twice before the last request.
LuckyNext == PatientNext /\ (requests' # requests => resends = 0 /\ dups = 0)
LuckySpec == RemoteInit /\ [][LuckyNext]_allVars

-----------------------------------------------------------------------------
(***************************************************************************)
(* Safety.                                                                 *)
(***************************************************************************)
\* caceSpace.h: "Checks whether a response to a request is available": what a robot
\* finds in its list of responses answers its last request.  Responses carry no
\* message id into the list, so this rests on requestVariable clearing the list and
\* on nothing old being under way.
ResponsesAnswerLast ==
  \A r \in Agents : \A k \in DOMAIN responses[r] : responses[r][k].request = asked[r]

\* handleCaceVariableRequest, handleCaceResponse: a response that has a value is
\* something the robot it comes from has held as its own believe, by a command, a
\* write or its own user; and its stamp is one that robot's clock has reached.
ResponsesWereHeld ==
  \A r \in Agents : \A k \in DOMAIN responses[r] :
    LET b == responses[r][k].believe IN
    /\ b.val = NoValue \/ b.val \in held[b.id]
    /\ b.age <= clock[b.id]

Writing(r) ==
  \/ \E m \in net[r] : handleCaceWrite(r, m)
  \/ \E i \in DOMAIN jobs[r] : processWriteAckJob(r, i)

\* WriteAckJob::doVariableUpdate: with the default accept strategy nothing but the
\* arrival of a write takes a robot back to an older believe: the believe a write has
\* put into the store is defended against old packets like any other.
OnlyWritesRollBack ==
  [][Levels \subseteq DefaultStrategies =>
       \A r \in Agents : own'[r].age < own[r].age => Writing(r)]_allVars
=============================================================================
