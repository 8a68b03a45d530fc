------------------------------ MODULE CaceMutex ------------------------------
(***************************************************************************)
(* The distributed mutex: a variable that holds the id of the robot that   *)
(* owns the critical section, distributed with the three way handshake of  *)
(* CaceProtocol.  A robot that finds it free and its believe acknowledged  *)
(* claims it by distributing its own id, and owns it once it sees that all *)
(* proposals name it.                                                      *)
(*                                                                         *)
(* Free stands for the values that are not positive: 0, which the          *)
(* constructor sets, and -1, which v distributes.  The argument robots is  *)
(* the default, activeRobots.                                              *)
(***************************************************************************)
EXTENDS CaceProtocol

CONSTANT Strict \* CaceMutex::strict

Free == 0

\* The mutex is always distributed with the three way handshake.
ASSUME MutexAssumption ==
  Strict \in BOOLEAN /\ Values = Agents \cup {Free} /\ Levels = {ThreeWayHandShake}

MutexVariable(r) ==
  [id |-> r, val |-> Free, age |-> 1, strat |-> ThreeWayHandShake, dec |-> 1]

-----------------------------------------------------------------------------
isFree(r) ==
  /\ own[r].val = Free
  /\ \A k \in DOMAIN proposals[r] :
       Strict \/ proposals[r][k].id \in activeRobots[r] => proposals[r][k].val = Free

\* FAULT: the robot expects a proposal of itself, too.
isOwner_CountsItself(r, q) ==
  /\ own[r].val = q
  /\ Len(proposals[r]) > Cardinality(activeRobots[r])
  /\ \A k \in DOMAIN proposals[r] : proposals[r][k].val = q

\* Without strict the code looks up the value of a proposal among the robots, not the
\* robot it comes from: a proposal that names nobody is counted for the owner.
isOwner(r, q) ==
  /\ own[r].val = q
  /\ Len(proposals[r]) >= Cardinality(activeRobots[r])
  /\ \A k \in DOMAIN proposals[r] :
       \/ proposals[r][k].val = q
       \/ ~Strict /\ proposals[r][k].val \notin activeRobots[r]

distributeMutex(r, v) == \E t \in DecissionTimes : distributeValue(r, v, ThreeWayHandShake, t)

\* FAULT: the mutex is claimed whether it is free or not.
pNoBlock_Anyway(r) ==
  /\ isAcknowledged(own[r], proposals[r], activeRobots[r])
  /\ distributeMutex(r, r)

\* pNoBlock claims the mutex and returns FALSE, whatever it finds: it returns TRUE only
\* to the owner of a mutex that is free, and that is nobody.  So p, which calls it as
\* long as it returns TRUE, is one call of it.
pNoBlock(r) ==
  /\ isFree(r)
  /\ isAcknowledged(own[r], proposals[r], activeRobots[r])
  /\ distributeMutex(r, r)

v(r) ==
  /\ own[r].val = r
  /\ distributeMutex(r, Free)

-----------------------------------------------------------------------------
\* Every robot has put its mutex into its store (addVariable without distribution).
MutexInit ==
  /\ clock = [r \in Agents |-> 1]
  /\ activeRobots = [r \in Agents |-> Others(r)]
  /\ own = [r \in Agents |-> MutexVariable(r)]
  /\ proposals = [r \in Agents |-> <<>>]
  /\ jobs = [r \in Agents |-> <<>>]
  /\ shortAcks = [r \in Agents |-> {}]
  /\ net = [r \in Agents |-> {}]
  /\ commands = 0
  /\ resends = 0
  /\ dups = 0
  /\ held = [r \in Agents |-> {Free}]
  /\ noted = [r \in Agents |-> {}]

\* distributeVariable makes the mutex known to the team.
MutexNext ==
  \E r \in Agents :
    \/ pNoBlock(r)
    \/ v(r)
    \/ distributeVariable(r)
    \/ \E m \in net[r] : Handle(r, m)
    \/ \E i \in DOMAIN jobs[r] : Process(r, i)

MutexSpec == MutexInit /\ [][MutexNext]_vars

\* Users that call one at a time, when everything the call before caused is over.
MutexSequentialSpec == MutexInit /\ [][MutexNext /\ (commands' # commands => Quiet)]_vars

-----------------------------------------------------------------------------
(***************************************************************************)
(* Safety.                                                                 *)
(***************************************************************************)
\* CaceMutex.cpp: "check whether "we" already "own" the cs": two robots never own the
\* critical section together.
MutualExclusion ==
  \A r, q \in Agents : isOwner(r, r) /\ isOwner(q, q) => r = q

\* Under sequential use nobody takes the critical section from its owner: it is the
\* owner's own call of v that ends its ownership.
OwnerKeepsSection ==
  [][\A r \in Agents :
       isOwner(r, r) /\ ~isOwner(r, r)' => own'[r].val = Free /\ commands' # commands]_vars

\* Under sequential use a mutex is not lost: when all is quiet it is owned by the robot
\* it names, or, when it is free and has been distributed, some robot can claim it.
MutexIsUsable ==
  Quiet /\ commands > 0 =>
    \/ \E r \in Agents : isOwner(r, r)
    \/ \E r \in Agents : isFree(r) /\ isAcknowledged(own[r], proposals[r], activeRobots[r])
=============================================================================
