----------------------------- MODULE CaceThreads -----------------------------
(***************************************************************************)
(* The threads of one robot, at the grain of their locks and of the data   *)
(* they touch: each multicast channel calls its handler on a thread of its *)
(* own, the timer thread runs Cace::step, and the user calls from another. *)
(* CaceProtocol takes each of these calls for one step; this module shows  *)
(* what that rests on.                                                     *)
(*                                                                         *)
(* A call is the sequence of instructions it goes through: locking and     *)
(* unlocking a mutex, and reading and writing a datum.  One variable is in *)
(* the store; what is written counts only for its list of proposals.       *)
(* Mutexes inside which nothing else is locked and that guard only their   *)
(* own datum in every use (of values, of the blacklist, of responses, of   *)
(* the models of the time manager) are left out.                           *)
(***************************************************************************)
EXTENDS Naturals, Sequences

CONSTANTS
  Robots,   \* senders of packets
  MaxCalls  \* bound: calls made

ASSUME CallsAssumption == MaxCalls \in Nat

Threads == {"command", "acknowledge", "shortAck", "notification", "timer", "user"}
Mutexes == {"jobMutex", "storeMutex", "ackMutex", "sackMutex", "wackMutex", "notMutex"}
Nobody == "nobody"

VARIABLES
  safeStepMode, \* Cace::safeStepMode
  code,         \* what is left of the call of each thread, <<>> when it is in none
  holder,       \* the thread that holds a mutex
  proposals,    \* the robots of ConsensusVariable::proposals, in order
  found,        \* the local variable of doVariableUpdate, for each thread
  calls,        \* number of calls made
  engaged       \* history: the user has engaged a robot with believe updates

vars == <<safeStepMode, code, holder, proposals, found, calls, engaged>>

-----------------------------------------------------------------------------
(***************************************************************************)
(* Instructions and the calls made of them.                                *)
(***************************************************************************)
Lock(m) == <<[op |-> "lock", on |-> m]>>
Unlock(m) == <<[op |-> "unlock", on |-> m]>>
Reads(x) == <<[op |-> "read", on |-> x]>>
Writes(x) == <<[op |-> "write", on |-> x]>>
Scan(q) == <<[op |-> "read", on |-> "proposals", robot |-> q]>>
AppendProposal(q) == <<[op |-> "write", on |-> "proposals", robot |-> q]>>

Guarded(m, body) == Lock(m) \o body \o Unlock(m)

updateLamportTime == Reads("lamportTime") \o Writes("lamportTime")
tick == Reads("lamportTime") \o Writes("lamportTime")

\* FAULT: the job list is extended without its mutex.
appendJob_Unlocked == Writes("jobs")

appendJob == Guarded("jobMutex", Writes("jobs"))

getVariable == Guarded("storeMutex", Reads("store"))

\* acceptProposals reads the proposals and writes the own believe.
doVariableUpdate(q) ==
  getVariable \o Scan(q) \o AppendProposal(q) \o Reads("proposals") \o Writes("believe")

\* FAULT: the mode is not looked at.
Now_Always(safe, body) == body

\* What the constructor of a job does, unless process() is to do it in safeStepMode.
Now(safe, body) == IF safe THEN <<>> ELSE body

handleCaceCommand(safe, q) ==
  updateLamportTime \o Reads("activeRobots") \o Now(safe, doVariableUpdate(q)) \o appendJob

handleCaceAcknowledge(safe, q) ==
  updateLamportTime
    \o Guarded("ackMutex", Now(safe, doVariableUpdate(q) \o tick) \o appendJob)

handleCaceShortAck == updateLamportTime \o Guarded("sackMutex", Writes("shortAcks"))

handleCaceBelieveNotification ==
  updateLamportTime \o Guarded("notMutex", Writes("believeNotifications"))

\* process() of the kinds of jobs; "none" when the list is empty.
Jobs == {"none", "CommandJob", "CommandAcknowledgeJob", "ShortAckJob", "BelieveNotificationJob"}

Process(safe, job, q) ==
  LET update == IF safe THEN doVariableUpdate(q) \o tick ELSE <<>> IN
  CASE job = "none" -> <<>>
    [] job \in {"CommandJob", "BelieveNotificationJob"} -> Reads("proposals")
    [] job = "ShortAckJob" -> update
    [] job = "CommandAcknowledgeJob" -> update \o Guarded("wackMutex", Writes("shortAcks"))

takeNotification(safe, q) == Now(safe, doVariableUpdate(q) \o tick) \o appendJob

invalidate == Guarded("storeMutex", Reads("store") \o Writes("believe"))

\* FAULT: variables are invalidated before the job list is released.
processAndInvalidate_Nested(safe, job, q) ==
  Guarded("jobMutex", Writes("jobs") \o Process(safe, job, q) \o invalidate)

\* processJobs holds the mutex of the list all the while.
processAndInvalidate(safe, job, q) ==
  Guarded("jobMutex", Writes("jobs") \o Process(safe, job, q)) \o invalidate

step(safe, job, q, notified) ==
  Guarded("notMutex", Writes("believeNotifications"))
    \o (IF notified THEN takeNotification(safe, q) ELSE <<>>)
    \o processAndInvalidate(safe, job, q)

distributeValue ==
  getVariable \o Writes("believe") \o Reads("activeRobots") \o tick \o appendJob

\* sendBelieveUpdates appends jobs while it goes through the store.
agentEngangementAndUpdate ==
  Writes("activeRobots") \o Guarded("storeMutex", Reads("proposals") \o tick \o appendJob)

-----------------------------------------------------------------------------
Init ==
  /\ safeStepMode \in BOOLEAN
  /\ code = [t \in Threads |-> <<>>]
  /\ holder = [m \in Mutexes |-> Nobody]
  /\ proposals = <<>>
  /\ found = [t \in Threads |-> FALSE]
  /\ calls = 0
  /\ engaged = FALSE

Enter(t, c) ==
  /\ code[t] = <<>>
  /\ calls < MaxCalls
  /\ calls' = calls + 1
  /\ code' = [code EXCEPT ![t] = c]
  /\ UNCHANGED <<safeStepMode, holder, proposals, found>>

EnterHandler ==
  /\ \/ \E q \in Robots : Enter("command", handleCaceCommand(safeStepMode, q))
     \/ \E q \in Robots : Enter("acknowledge", handleCaceAcknowledge(safeStepMode, q))
     \/ Enter("shortAck", handleCaceShortAck)
     \/ Enter("notification", handleCaceBelieveNotification)
  /\ UNCHANGED engaged

EnterStep ==
  /\ \E job \in Jobs, q \in Robots, notified \in BOOLEAN :
       Enter("timer", step(safeStepMode, job, q, notified))
  /\ UNCHANGED engaged

EnterCall ==
  \/ Enter("user", distributeValue) /\ UNCHANGED engaged
  \/ Enter("user", agentEngangementAndUpdate) /\ engaged' = TRUE

\* The instruction thread t is about to do.
At(t, op) == code[t] # <<>> /\ Head(code[t]).op = op

Advance(t) == code' = [code EXCEPT ![t] = Tail(@)]

DoLock(t) ==
  /\ At(t, "lock")
  /\ holder[Head(code[t]).on] = Nobody
  /\ holder' = [holder EXCEPT ![Head(code[t]).on] = t]
  /\ UNCHANGED <<proposals, found>>

DoUnlock(t) ==
  /\ At(t, "unlock")
  /\ holder' = [holder EXCEPT ![Head(code[t]).on] = Nobody]
  /\ UNCHANGED <<proposals, found>>

Listed(q) == \E k \in DOMAIN proposals : proposals[k] = q

DoRead(t) ==
  LET i == Head(code[t]) IN
  /\ At(t, "read")
  /\ found' = IF "robot" \in DOMAIN i THEN [found EXCEPT ![t] = Listed(i.robot)] ELSE found
  /\ UNCHANGED <<holder, proposals>>

DoWrite(t) ==
  LET i == Head(code[t]) IN
  /\ At(t, "write")
  /\ proposals' = IF "robot" \in DOMAIN i /\ ~found[t] THEN Append(proposals, i.robot) ELSE proposals
  /\ UNCHANGED <<holder, found>>

Run(t) ==
  /\ DoLock(t) \/ DoUnlock(t) \/ DoRead(t) \/ DoWrite(t)
  /\ Advance(t)
  /\ UNCHANGED <<safeStepMode, calls, engaged>>

Next ==
  \/ EnterHandler
  \/ EnterStep
  \/ EnterCall
  \/ \E t \in Threads : Run(t)

Spec == Init /\ [][Next]_vars

\* A thread that can go on does so in the end.
FairSpec == Spec /\ \A t \in Threads : WF_vars(Run(t))

-----------------------------------------------------------------------------
(***************************************************************************)
(* Safety and liveness.                                                    *)
(***************************************************************************)
\* Two threads are about to touch datum x and one of them is about to write it.
Race(x) ==
  \E t, u \in Threads :
    /\ t # u
    /\ At(t, "write") /\ Head(code[t]).on = x
    /\ At(u, "write") \/ At(u, "read")
    /\ Head(code[u]).on = x

\* CommunicationWorker, CVariableStore, getCaceBelieveNotifications: whatever the
\* threads do, the job list, the store and the list of notifications are touched by
\* one thread at a time.
ListsAreGuarded == \A x \in {"jobs", "store", "believeNotifications"} : ~Race(x)

\* "List of all Robots' proposals": one for each robot, whichever threads find out
\* about the robot together.
OneProposalOfEach ==
  \A k, l \in DOMAIN proposals : proposals[k] = proposals[l] => k = l

\* safeStepMode: it is so when only the timer thread updates variables.
SafeStepKeepsOneProposal == safeStepMode => OneProposalOfEach

\* Nobody waits forever: every call returns.  Only in safeStepMode, where jobs go into
\* the store while the job list is locked, a call that sends believe updates, which
\* appends jobs while the store is locked, may block them both for good.
CallsReturn ==
  <>[](\/ \A t \in Threads : code[t] = <<>>
       \/ safeStepMode /\ engaged)
=============================================================================
