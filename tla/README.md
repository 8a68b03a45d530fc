# A TLA+ specification of cace

`cace` ("carpe noctem cassel consensus engine", `src/cace/`) lets the robots of
a team agree on shared variables over UDP multicast. Every robot keeps its own
replica of each variable: what the robot itself believes, and the *proposals*,
i.e. what it has heard the others believe. There is no leader, no quorum and no
persistence. How much is promised depends on the *accept strategy* of the
variable: nothing is sent, fire and forget, two way handshake (command,
acknowledge), three way handshake (command, acknowledge, short acknowledge).
The strategy also selects the function that resolves conflicts.

This directory models the distribution of a variable, checks it with TLC on
small teams, and proves facts about it with TLAPS for teams of any size.

## 1. Inventory

### Components of `src/cace`

| Component | State it keeps | Operations | Talks to |
|---|---|---|---|
| `ConsensusVariable` (`src/cace/src/variables/ConsensusVariable.cpp`) | own believe (value, Lamport age, strategy, decision time, validity), vector of proposals | `update`, `acceptProposals` with five accept functions, `isAcknowledged`, `checkConflict`, `isAgreed` | read and written by jobs, handlers and the user, mostly without a lock |
| `CVariableStore` | map name -> variable, list of responses | `getVariable`, `addVariable`, `getResponse`, `deleteResponse`, `invalidate` (expiry), `sendBelieveUpdates` | own mutex, taken by jobs, by the user and by the timer |
| `CaceSpace` | - | the user's calls: `distributeValue`, `distributeVariable`, `requestVariable`, `writeVariable`, `getProbability` | store, worker |
| `CommunicationWorker` | list of jobs, robots to remove | `appendJob`, `processJobs`, `clearJobs`, `getNewestVariableJob` | `jobMutex`, held while jobs run |
| Jobs (`src/communication/jobs/`) | message id, robots still expected to answer, retries left for each (`JobStateEntity`) | constructor (may send at once), `process()` (answers, resends, end) | store, communication |
| `CaceCommunication` and `CaceCommunicationMultiCast` | one list for each kind of message that waits for a job (short acks, write acks, notifications, responses) | one handler for each kind of packet, one `sendCace...` for each kind | handlers run on one thread for each channel |
| `Cace` | active robots, `safeStepMode`, quiet mode | `step` (timer thread), `agentEngangement`, `agentDisengangement`, `changeScope` | everything |
| `TimeManager`, `AgentTimeData`, `AgentCommunicationModel` | Lamport time, estimates of clock offset, delay and loss for each robot | `updateLamportTime`, `addTimeMessage`, `getDistributedTime` | handlers and sends |
| `CaceMutex` | a variable with the lowest id or default strategy | `p`, `pNoBlock`, `isFree`, `isOwner`, `v` | distributes values |
| `Election`, `TaskSet` | typed values of a variable | `getWinner`, conversions | - |

Around it: `alica_cace_proxy` (adapter for the planner ALICA), its tests,
`caceMonitor` (display), `flooding_test` (load generator),
`multicast_test_bridge` (generated relay), `paxostest` (a copy of libpaxos used
to compare measurements; cace never calls it). `PROJECT.json` lists every
component with what is modelled of it.

### How they interact

A user calls `distributeValue(name, value, strategy, time)`. The store's
variable is overwritten, and a `CommandJob` is created, which sends a
`CaceCommand` to everybody at once. The handler of a receiver updates its
proposals (`doVariableUpdate`), resolves conflicts (`acceptProposals`), answers
with a `CaceAcknowledge` *to everybody* and leaves a `CommandAcknowledgeJob`
that repeats the acknowledge to those that do not answer it. The handler of an
acknowledge updates the proposals the same way and, in a three way handshake,
sends a `CaceShortAck`. With `safeStepMode` the handlers only enqueue jobs, and
the timer thread does all of this in `process()`. Each packet carries a Lamport
stamp that moves the clock of every robot that hears it.

### What is hard

* *Concurrency.* One thread for each multicast channel, the timer thread and
  the user's threads work on the same variables. Commands of several robots, and
  quick commands of one, cross each other's acknowledges.
* *Delivery.* UDP multicast loses, repeats and reorders. Jobs resend with the
  stamp they were made with.
* *Bookkeeping by count and by time.* `isAcknowledged` counts proposals and
  compares ages; equal ages are not news; short acks are matched by message id.
* *Retries.* A job ends when everybody answered or when retries are used up;
  what "answered" means differs from job to job.

### What makes each component correct

* `ConsensusVariable`: the loop of `acceptProposals` picks a maximum of the
  order of the strategy, whatever the order of the vector.
* Command protocol: at most one proposal for each other robot, only ever renewed
  by later believes; no believe goes back in Lamport time; agreement is never
  claimed with a robot that never took part; an acknowledge is given up only when
  noted by those it is for; all jobs end; one command at a time converges.
* `TimeManager`: the clock dominates every stamp recorded or sent.
* Believe updates: an engaged robot ends up with the believe of the robot that engages
  it, also after a crash; a notification is given up only when answered or used up.
* Requests: a response answers the last request, carries a value the responder has held
  and a time its clock has reached. Writes: only their arrival rolls a believe back.
* `CaceMutex`: at most one owner, who keeps the section until its own `v`; the mutex
  stays claimable. `Election`: the winner bids highest, and a vote is the voter's own.
* Threads: every list is touched by one thread at a time, and every call returns.

## 2. Modules

```
ConsensusVariable            believes, accept functions, isAgreed (operators)
  AcceptLoop                 the loop of acceptProposals, one proposal a step
    MCAcceptLoop             its instance for TLC
    AcceptLoopProofs         what the loop computes, for every vector
  CaceProtocol               the command protocol of a whole team
    CaceSafetyProofs         types, the safety and action properties, for every team
      CaceRefinementProofs   the refinement, for every team
    CaceRefinement           CaceProtocol implements BelieveBoard
    BelieveUpdate            believe notifications, late starts, crashes
      BelieveUpdateProofs    notifications, clocks and believes through restarts, for every team
    RemoteAccess             requests, responses, remote writes
      RemoteAccessProofs     requests, responses and writes, for every team
    CaceMutex                the distributed mutex over the protocol
      CaceMutexProofs        convergence and ownership under sequential use, for every team
    Election                 the winner of an election over the protocol
      ElectionProofs         winners and votes: two robots, and any team under a condition
BelieveBoard                 what a variable promises, without messages
CaceThreads                  threads, locks and unlocked data of one robot
  CaceThreadsProofs          locks and proposals, for any number of calls
```

Of the modules with proofs, those that name no other above them extend what they are listed under;
`RemoteAccessProofs`, `BelieveUpdateProofs`, `CaceMutexProofs` and `ElectionProofs` extend `CaceSafetyProofs` as well.

Apart from `MCAcceptLoop`, which builds its vectors of proposals, the modules need no MC
module: their constants are plain sets and numbers given in the `.cfg` files.

**ConsensusVariable** holds the data and the pure functions. A believe is a
record `id, val, age, strat, dec`. `Keeps(s, gt, lt)` is the accept function
that strategy `s` selects. `IsWinner` describes what the loop of
`acceptProposals` ends with, and `AcceptProposals` the own believe after it.

**AcceptLoop** is that loop, step by step: it is the bridge from the code to the
declarative `IsWinner` used by the protocol.

**CaceProtocol** models one variable of a team. Its state, robot by robot:

| Variable | In the code |
|---|---|
| `clock` | `TimeManager::lamportTime` |
| `activeRobots` | `Cace::activeRobots` |
| `own`, `proposals` | the variable in the `CVariableStore`; `own[r].val = NoValue`: not in the store |
| `jobs` | `CommunicationWorker::jobs` with each job's `agentList`, `stateList` and stamp |
| `shortAcks` | `CaceCommunication::shortAcks` |
| `net` | packets under way to the robot |
| `commands`, `resends`, `dups` | counters that bound the model |
| `held`, `noted` | history, read only by properties |

| Action | In the code |
|---|---|
| `distributeValue`, `distributeVariable`, `agentEngangement` | the user's calls |
| `handleCaceCommand`, `handleCaceAcknowledge`, `handleCaceShortAck`, `Overhear` | handlers, for packets addressed to the robot and to others |
| `processCommandJob`, `startCommandAcknowledgeJob`, `processCommandAcknowledgeJob`, `processShortAckJob` | `process()` of the jobs |

**BelieveBoard** is the abstract specification of a variable with default strategies:
a versioned believe for each robot, written by its own user or adopted from a value
another robot has really had, never going back. **CaceRefinement** maps the protocol to
it: a believe is `own[r].val`, its version `own[r].age`, the values a robot has
had are `held`. Everything else (packets, jobs, clocks, acknowledges) is a stutter.

**BelieveUpdate** adds `believeNotifications` (the list of that name) to the protocol:

| Action | In the code |
|---|---|
| `agentEngangementAndUpdate`, `changeScopeAndRestoreConsistency` | `Cace` calls that end in `CVariableStore::sendBelieveUpdates` |
| `handleCaceBelieveNotification` | the handler, which only puts the notification in the list |
| `takeNotification` | the loop of `Cace::step` over the list: constructor of `BelieveAcknowledgeJob` |
| `processBelieveNotificationJob`, `startBelieveAcknowledgeJob`, `processBelieveAcknowledgeJob` | `process()` of the jobs |
| `startLate`, `restart` | a robot whose process starts after others have sent, or ends and starts again with nothing but its id |

The repetition of a notification exchanges receiver and message id
(`BelieveNotificationJob.cpp:99`): in the model, too, it is sent to the robot
whose id is the message's number, and so to nobody.

**RemoteAccess** adds `responses` (`CVariableStore::responses`): `requestVariable`,
`getRequestedVariable`, `writeVariable`, the three handlers, and `process()` of request, write
and write acknowledge jobs. `deleteResponse` is the code's loop with its result: it steps
over the element after each one it erases. A write acknowledge is a short ack, as in
`CaceCommunication.cpp:395`; the list of write acknowledges that `WriteJob` reads is never filled.

**CaceMutex** runs `p`/`pNoBlock`, `v`, `isFree`, `isOwner` over the whole protocol, strict and
not. `pNoBlock` returns TRUE to no robot, so `p`, which repeats it while it is TRUE, is
one call of it.

**Election** is `getWinner` over the protocol with the election strategies, values being bets.

**CaceThreads** takes one robot apart into its threads (one for each multicast channel, the
timer, the user). A call is the sequence of locks, unlocks, reads and writes
that the source goes through, and each of them is a step. It shows what the other modules rest on
when they take a call for one step, and where they should not.

Operators named `..._Something` before a definition, commented `FAULT`, are
faulty variants of it. They are used by nothing here: substituted for the
definition, each makes a property fail, which shows that the property depends on
the code it is about.

### Decisions of abstraction

* *One variable.* Other variables only move the clock. Every decision of the
  protocol is per variable except for the Lamport clock and message ids; the
  clock ticks of other traffic are not modelled.
* *Steps.* Outside `CaceThreads`, a handler, one `process()`, one call of the user is one
  atomic step. Jobs of a robot are processed in any order,
  which includes the order of the list.
* *Stamps.* The parameter `lamportTime` of the jobs' constructors shadows the
  member of the time manager: a `CommandJob` keeps the stamp from before the tick
  of its own packet. `NewCommandJob` models this: `stamp |-> L`, sent with `L + 1`,
  while resends use `L`.
* *`ShortAckJob` and `WriteAckJob` without `safeStepMode`.* Their constructors do everything
  and their `process()` only ends them, so they are not put in the list.
* *Short acks* are a set: equal entries are indistinguishable and are removed
  together.
* *Message ids* are `(lamportTime + 100) * ownID` cut to 16 bits, as unsigned
  numbers (the code has signed ones; the correspondence is one to one).
* *Blacklist.* A robot drops its own packets. Blacklisting others is message loss.
* *Network.* A packet need never be taken (loss), any packet under way can be
  next (reordering), and up to `MaxDups` times a packet stays after it was taken.
* *Mutex.* The two values that name nobody, 0 and -1, are one.
* *Left out:* types and names of values, validity time, arrival time, statistics,
  notification callbacks, the estimate of distributed time (`DecissionTimes` is
  any set of numbers).
* `remainingRetrys` of `AbstractCommunicationJob` is the sum of the retries of
  the expected robots whenever it is read after being computed. The
  removal of silent robots that follows the end of a job does nothing in the code
  (`agentDisengangement`, `src/cace/src/cace.cpp:346`, has an empty body), so
  neither does it here.

## 3. Runs

Bounds: `MaxCommands` (calls that distribute), `MaxResends` (packets sent
again by jobs), `MaxDups` (packets delivered twice), `MaxUpdates` (calls that send believe
updates), `MaxRestarts`, `MaxRequests`, `MaxWrites`, `MaxCalls` (calls that threads make).
Loss needs no bound. In `believe_update` the constraint `OneFault` says that a
packet is sent again or a robot starts again, not both; both together are too many states for a run. With one retry for commands
and one for acknowledges each job can use its last retry and go on without. Ids order the
robots in the default strategy, so no symmetry of robots is used; values are interchangeable there (`ValueSymmetry` in `believe_update`).

| Run | Instance | What it shows |
|---|---|---|
| `accept_loop` | all vectors of up to 3 proposals of 2 robots (so with duplicates), with and without value | the loop finds the winner of its order; nothing older and nothing empty is accepted |
| `two_commands` | 2 robots, 2 commands, 1 resend | clocks dominate; agreement means held; no believe goes back; both jobs end for a reason; the protocol implements `BelieveBoard` |
| `mixed` | 2 robots that engage at any time, one in `safeStepMode`, 2 commands of any mix of no distribution, election, lowest id, most recent | one proposal for each other robot, only ever renewed, under every conflict rule; clocks; acknowledges end for a reason; elections are won by the highest bet |
| `mutex` | 2 robots, 4 calls of `pNoBlock`, `v` or `distributeVariable` one at a time, 1 resend, 1 duplicate | the team converges after each call, the mutex is never lost, nobody takes it from its owner |
| `believe_update` | 2 robots, 2 commands of 2 values, 1 notification, late start, 1 resend or 1 crash and restart | an engaged robot is restored though it missed commands; clocks dominate until the restart, and what robots keep is stamped within their own clocks after it; one proposal for each other robot; only the crash takes a believe back; notifications end for a reason |
| `believe_fair` | 2 robots, one in `safeStepMode`, 1 command, 1 notification, 1 crash and restart | the same with crashes; every job ends |
| `remote_access` | 2 robots, one in `safeStepMode`, 2 requests, 1 write, 1 command, 1 resend | responses are true and answer the last request; only writes roll back; agreement still means held |
| `threads` | 3 calls of 6 threads, both step modes | the job list, the store and the notifications are touched by one thread at a time; in `safeStepMode` a robot never gets two proposals; every call returns |

Two quick commands are the smallest case in which commands cross each other's
acknowledges. A claim, a release and the claim of another robot, after the distribution
that makes the mutex known, are four commands. `MaxResends = 5` in `believe_fair` is more than the
jobs of that instance can repeat, so the bound never stops a job. `MaxJobs = 4` limits the places of a
list for which fairness is assumed; a list can be longer for a while, and the jobs behind the fourth place get
their turn when one before them ends, which assumes less than the code does. Two requests are the smallest case in which a
response may answer the wrong one, and three calls the smallest in which two handlers meet the timer thread.
What needs a third robot (bystanders, overheard short acks, teams that change under a
job) is not run for the command protocol: its safety properties are proved for teams of any size
in section 4, and so are most of those of the modules on top of it. Checked for two robots only:
`EngagedAreRestored` and `JobsFinish`; `MutexIsUsable` is checked and proved for two, and so is `ElectedHasHighestBet` where
elections are acknowledged. `election_violated` has three robots, the smallest team in which an acknowledge comes
before the command.

`CHECK_DEADLOCK FALSE` is set throughout since users may stop, all jobs end, and loops and calls end.

Conditions of the properties that matter for reading the runs:

* `EngagedAreRestored` is about calls made when the ones before are over (`calm`), with
  any interleaving and loss in between. It does not hold for a robot that restarted while
  the other keeps a proposal of its former life that is new enough: then
  `sendBelieveUpdates` passes it over (`CVariableStore.cpp:131`). Nor does it hold when a robot that missed the command of
  another one distributes a value of its own and repeats the command. Its clock was never moved by the command it missed, so its
  stamps are as old as what the other has, and the other's believe survives. The command and its repetition
  are then answered with two values, and each robot ends up with what the other had before: that both have *some* value is what
  remains in that case. Without repetitions (`resends = 0`) the values are equal.
* `ResponsesAnswerLast` is checked, and proved, under `LuckySpec`: users request when all is quiet, and
  nothing was sent again and nothing came twice before the last request. With a repeated request (`PatientSpec`) two responses
  come, `deleteResponse` leaves one of them, and the next
  request finds the answer to the one before.
* `CallsReturn` leaves out one case. In `safeStepMode` with believe updates the timer thread
  holds `jobMutex` and waits for the store's mutex, while the thread that engages a robot holds the
  store's mutex and waits for `jobMutex`: both wait for good.
* `SafeStepKeepsOneProposal`: without `safeStepMode` the handlers of the command and of the acknowledge
  channel can both append a proposal of the same robot (`OneProposalOfEach` fails), since the list
  has no lock. The proofs that count proposals take a handler for one step and
  so are about the code as far as handlers of one robot do not overlap.
* `shortAcks` is extended under `sackMutex` and emptied under `wackMutex`, and
  `lamportTime` has no lock: neither is among the data of `ListsAreGuarded`.
* In `mutex` calls are sequential. Concurrent claims: see below. With three robots
  `MutexIsUsable` fails even sequentially, since acknowledges that overtake the command
  leave a robot with a proposal older than its believe. Only a mutex that is free can get lost that way; one
  that names a robot is owned by it in any team (`NamedRobotOwns`).
* `SequentialUseConverges` is about the three way handshake. With the two way handshake one repetition is enough to
  break it: an acknowledge that is sent again carries the stamp its job was made with, nothing has moved the other
  clocks past the age it is recorded with, and the command of the next call can then be as old as what it is to replace.
  It is also about what happens when nothing gets lost: `Quiet` asks that every packet has arrived.
* `ElectedHasHighestBet` fails with three robots, in which a robot that learns of the election from an acknowledge takes
  over the bet of another one without telling anybody (`election_violated`). That is the only way: as long as it does not happen the
  property holds in any team (`ElectedHighestIfKnown`), and it cannot happen with two robots or without acknowledges
  (`ElectedHighest`). `mixed` also has users that distribute the variable with other strategies in between, two calls in all. The theorems are about
  elections alone: a robot that has the variable with another strategy takes over the first bet it hears of as its vote. Without
  acknowledges it tells nobody, and when the other robot then bids less (a third call) that one does not know of it.

### Disagreements with the documentation

Four runs are expected to fail.

* `agreed_violated` (`AgreedMeansEqual`, `ConsensusVariable.h:79-80`). One robot distributes twice in quick
  succession. The acknowledge of the first command, stamped after the second
  command's own stamp, reverts the writer's believe to the first value. The other
  robot adopts the second, and its acknowledge has the same stamp as the one
  already recorded, so it is ignored. Nothing was lost, nothing is under way, the
  believes differ, and `isAgreed` is TRUE for good.
* `resent_ack_violated` (`AgreedMeansHeld`, the same lines). A robot that is notified and keeps a newer
  believe of its own acknowledges with that believe, but the repetition of the acknowledge carries the value
  of the notification. The notifier then sees agreement on a value the other never had.
  Commands repeat the right value, and `two_commands` and the theorem `AgreementHeld` show that the same property holds for them.
* `mutex_violated` (`MutualExclusion`, `CaceMutex.cpp:67,140`). Without `strict`, `isOwner` looks up the
  *value* of a proposal among the robots, where `isFree` looks up the robot it comes from. A proposal that says
  "free" counts for the owner, and two robots that claim the mutex together both own it. Under sequential use nobody
  ever does, strict or not (theorem `ExclusiveInSequence`): the race of the claims is what it takes.
* `election_violated` (`VotesAreOwn`, the test `ElectionConflictHandling2`, `systemTests.cpp:521-522`). A robot
  that hears an acknowledge before the command creates the variable with the acknowledger's bet as
  its own vote and keeps it when the command arrives.

### Fairness

`FairUpdateSpec` assumes weak fairness of taking a waiting notification and of processing each job of
a robot's list. The timer thread calls `Cace::step` on a fixed period, which takes all notifications
and runs `processJobs` through the whole list, so each is done again and again; a job
that is not answered can change as soon as its resend timer has run out, and timers run out
because time passes. `FairSpec` of `CaceThreads` assumes that a thread that can go on does so in the
end; a thread that waits for a mutex is only owed it when the mutex stays free, so nothing is assumed
of the order in which locks are granted. Nothing is assumed of the network or of the users.

## 4. Proofs

`AcceptLoopProofs` (for every set of believes and every length of the vector):

* `TypeCorrect`: the loop stays inside the vector.
* `LoopWinner`: the loop ends with the candidate `IsWinner` describes. The
  inductive invariant is `WinnerSoFar`, the same statement for the proposals compared
  so far. It needs transitivity of each accept function on believes with a value:
  without a value "keeps" is no order, which is why `LoopFindsWinner` assumes
  values (the protocol never records a proposal without one).
* `NewestWins`: with the default strategy no candidate is newer than the winner.
* `NonEmptyWins`: with the other strategies a proposal without a value never wins, also in vectors where
  "keeps" is no order: the accept function refuses it when the loop comes to it.

`CaceSafetyProofs` begins with the types (for every finite team, strategies, retries and bounds):

* `TypeCorrect`: `TypeOK` is an invariant of `Spec`. It is not inductive alone:
  `AcceptProposals` copies the value of a proposal into the own believe, so one
  has to know that proposals carry values; and the bound on resends needs
  the sets of retries to be finite. The inductive invariant `TypeInv` adds
  `HasValues`. The proof has one lemma for each action, under it one for each idea the
  actions share (what `Multicast` adds, what a job list contains after an
  insertion, replacement or removal, what `DoVariableUpdate` leaves behind).

and goes on with the past of the robots (for every finite team, mix of strategies and step modes, retries,
losses, repetitions and reorderings):

The properties of section 3 compare what one robot stores with what another one did,
perhaps long ago, and none of them is inductive: what a packet says has to be followed
from the sender through the network, the job that repeats it and the proposal that records
it. `SafetyInv` does this with one idea: *whatever speaks of a robot is true of that
robot's past.* `TruePacket`, `TrueJob`, `TrueProposal` and `TrueShortAcks` say so of a
packet under way, a job, a proposal and a short ack. The past of a robot is its clock,
the values it has held, the acknowledges it has noted and the proposals it has recorded;
`Grows` says that a step only adds to it. So the proof of a step has two
halves: what was true stays true because the past grows (`PacketStaysTrue`,
`TakenStaysTrue`, `JobStaysTrue`, `ProposalStaysTrue`), whichever robot moved; and what
the step itself creates is true (one lemma `...Safe` for each action).
`SafetyInvStep` proves `SafetyInv' /\ Grows` from `SafetyInv /\ [Next]_vars`.

| Theorem | Property | Argument beyond `SafetyInv` |
|---|---|---|
| `ClocksDominate` | `ClockDominates` | a part of it |
| `ProposalsUnique` | `OneProposalPerRobot` | a part of it |
| `StruckRobotsAnswered` | `StruckHaveAnswered` | a part of `TrueJob` |
| `AgreementHeld` | `AgreedMeansHeld` | as many proposals as other robots, each of another one of them: by the pigeonhole principle each other robot has one, it equals the own value, and it is true |
| `ProposalsRenewed` | `ProposalsOnlyRenewed` | `Grows` |
| `CommandsAnswered` | `CommandEndsAnswered` | a job that ends has no robot left that is unanswered and has a retry |
| `AcknowledgesNoted` | `AcknowledgeEndsNoted` | the same, with the short acks in the list being true |
| `BelievesNeverOlder` | `BelieveNeverOlder` | with default levels no other strategy ever comes up (`UsedStrategies`), and then `AcceptedOne`: the accept function keeps what is newer |

`CaceRefinementProofs`: `BoardImplemented`, i.e. `Spec => ImplementsBoard`. Initial states map to initial
states. For steps, the lemma of each action says what happened to the stores: either `own`
and `held` are unchanged (a stutter), or one robot wrote (`Write`), or one robot's
`DoVariableUpdate` left a believe that is the old one, or that of a proposal that came up, whose value its
sender has held (`TrueProposal`) and which the default order does not put before the old one (`Adopt`).

`RemoteAccessProofs` (for every finite team and the same freedom; writes come at any time):

A request, a response or a write adds packets and jobs of its own to the protocol and, with a write, one more way
to change the own believe. `RemoteInv` is `SafetyInv` with the types of the new variables and
`ResponsesWereHeld`. `SafetyInv` already says of responses and writes under way that they are true of their sender;
the proof adds that each step of this module keeps that (`KeepingStepSafe` for those that leave the variable
alone, `WritingStepSafe` for a write, which no proposal notices), so the theorems of the protocol survive it.

| Theorem | Property | Argument beyond `RemoteInv` |
|---|---|---|
| `RemoteClocksDominate` | `ClockDominates` | a part of it |
| `RemoteAgreementHeld` | `AgreedMeansHeld` | as in `AgreementHeld` |
| `ResponsesHeld` | `ResponsesWereHeld` | a part of it |
| `OnlyWritesGoBack` | `OnlyWritesRollBack` | steps of the protocol do not go back (`NextNeverOlder`), and of the new ones only those of a write change the store |
| `ResponsesAreOfLastRequest` | `ResponsesAnswerLast` | `LuckyInv`, below |

`LuckyInv` adds two facts. `Current`: whatever asks or answers (a request or a response under way, a job that
repeats a request, a response in the list) carries the id of the last request; a new request keeps this because
nothing of the old one is left when all is quiet and the list is cleared. It is not enough: `deleteResponse`
steps over every second element and so would leave one of two old responses. `OneAnswer` says that there never
are two as long as nothing was sent again or came twice: a request, its response under way and the response in the
list are one after the other, never together.

`BelieveUpdateProofs` (for every finite team, strategies, retries, late starts and restarts): `UpdateTypeCorrect`, and

| Theorem | Property | Argument |
|---|---|---|
| `NotificationsAnswered` | `NotificationEndsAnswered` | `UpdateInv`, below |

A notification job has at its end no robot left that is unanswered and has a retry; that the robots struck before
have answered is an invariant, `StruckAreNotified`. It survives every step because proposals are only
renewed, and a restart because it takes jobs and proposals together. Its proof needs types, and these need
`SilentWithoutValue`: a job repeats a notification with the believe it finds, which must have a value; the
strategy of a robot without one does not distribute.

The same module, on the clocks (for any number of restarts):

| Theorem | Property | Argument beyond `StampInv` |
|---|---|---|
| `UpdateClocksDominate` | `ClockDominatesAtFirst` | a part of it |
| `RecordsStayDominated` | `RecordsDominated` | a part of it |
| `UpdateProposalsUnique` | `OneProposalPerRobot` | a part of it |
| `RestartsRollBack` | `OnlyRestartsRollBack` | each step of the protocol, and each answer to a notification, lets `DoVariableUpdate` choose among believes of the default strategies, of which `AcceptedOne` keeps the newer |

A robot that crashes loses its clock, and with it what `SafetyInv` rests on: its packets, jobs of others and proposals
of it are stamped later than its clock shows. `ClockDominates` can be false from then on, in the model as in the code, and
is no part of an invariant for all times. `StampInv` says what is left: what a robot *keeps* is not newer than its own
clock, always, since a handler sets the clock by the packet before it records anything; what a robot has *sent*, or others
record of it, is not newer than its clock until the first restart. `Came` is the fact that connects the two: a job
keeps the packet it answers, so the stamp of that packet is within the clock of the robot that holds the job, whatever became of
the sender. The invariant also carries the strategies in use (`UsedStrategies`: with default levels no other strategy comes up), which `RestartsRollBack` needs, and that no packet comes from its receiver, which `OneOfEach` (no proposal
twice, none of the robot itself) needs. The proof has one lemma for each action; `Passes` (if no robot has
restarted yet, no clock went back) is what all of them share, a restart included, and by it what was stamped stays stamped.
This is what a team needs after a crash: the robot that comes
back distributes with stamps above all it has been told. What it was *not* told is another matter, and
`EngagedAreRestored` names the case.

`CaceMutexProofs` (for every finite team, strict or not, with any retries, repetitions, duplicates and step modes; calls
come one at a time, when all is quiet):

| Theorem | Property | Argument beyond `MutexInv` |
|---|---|---|
| `MutexConverges` | `SequentialUseConverges` | when nothing waits for anybody, nobody is behind |
| `NamedRobotOwns` | `NamedRobotIsOwner`: when all is quiet, the robot a mutex names owns it | each robot has heard of each other one in this round, so the owner counts as many proposals as there are other robots (pigeonhole), all with its id |
| `MutexStaysUsable` (one or two robots) | `MutexIsUsable` | the case of an owner as above; a free mutex can be claimed by the robot whose proposals are as new as its believe, and of two robots there is one |
| `ExclusiveInSequence` | `MutualExclusion` | at every moment the robots' own values are that of the round, except those of robots that are behind, and none of these holds its own id |
| `OwnersKeepSection` | `OwnerKeepsSection` | a call needs quiet, then the owner alone can pass the guards; every other step brings the value of the round |

Convergence is a fact about quiet states, but the invariant has to hold in every state on the way there. `Round(L, u)`
describes one call and what it causes, by its value `u` and a stamp `L` later than the age of everything kept before. Whatever is
under way or held back by a job brings `u`, stamped from `L` on. A robot has `u`, or is `Behind`: it has nothing of
the round yet and the command waits for it, in the network or in a job of `safeStepMode` (`Waiting`).
`HearsOf` relates all pairs: a robot has a proposal of the round from each other one, or something of that other one waits
for it, or that other one has the command waiting and will acknowledge it to everybody. When nothing
waits, only the first case is left, for each pair.
That is one round. The next one needs its `L`: the clock of the robot that calls has to be *past* every age kept anywhere,
for `doVariableUpdate` passes over what is as old as what it has. An acknowledge takes all others' clocks
only *to* the age it is recorded with. It is the short ack that takes them past it, since its sender ticks first;
`AgesHeard` follows this: every clock is past an age, or a packet with a later stamp is on its way to
the robot, or the acknowledge waits somewhere and its short ack is still to come. Here the two way
handshake fails (section 3). The steps have one lemma each for the round (`...InRound`) and the ages;
`RoundGoesOn` puts together what they have in common, and a call starts the next round (`MutexCallStarts`).

`ElectionProofs` (for any mix of the election strategies, any number of bids, retries, repetitions, duplicates and step modes):

| Theorem | Property | For |
|---|---|---|
| `ElectedHighest` | `ElectedHasHighestBet` | two robots; any team if elections are fire-and-forget |
| `VotesOwn` | `VotesAreOwn` | the same |
| `ElectedHighestIfKnown` | `ElectedHasHighestBet` | any team, under `KnownBeforeAnswered` |
| `VotesOwnIfKnown` | `VotesAreOwn` | any team, under `KnownBeforeAnswered` |

In an election a robot keeps its own vote whatever it hears (`AcceptElection`), so votes change only by bids. A bid carries the
clock as its age and goes out with the tick after it. `ElectionInv` follows what is said of votes from there. `Speaks`: what is
stamped after the last bid of a robot brings the vote that robot has now. This is true of each command and acknowledge
under way, of each job that will send one or holds one back, and of each proposal recorded; a new bid keeps it since its age is not less
than any stamp of its robot so far (`SafetyInv`). `AllVotesHeard` relates all pairs: a robot has recorded something that late of another
one, or it waits for it, or that one has never bid. What waits is recorded when it is taken, or passed over for something later (`SenderProposed`). So when all is
quiet every vote a robot counts is the vote its robot has now, and every bet is counted (`QuietVotes`). There is a first highest one among
them since they are finitely many (`BestExists`, by the well-founded order of finite sets), and `getWinner` finds it. The invariant is inductive
as long as nobody creates the variable by `ShortAckJob::doVariableUpdate`, which is what `KnownBeforeAnswered`
says: the state it excludes is the one `election_violated` runs into. `ElectionInv` itself says that an acknowledge comes from a robot to which another one that has the
variable sent a command. In a team of two that other one is who the acknowledge comes to (`TwoRobotsKnow`), and a strategy that is not acknowledged has none (`UnacknowledgedKnow`), so there the
condition is proved.

`CaceThreadsProofs` (for any set of robots, both step modes and any number of calls):

| Theorem | Property | Argument |
|---|---|---|
| `ListsGuarded` | `ListsAreGuarded` | `AllCareful`, below |
| `SafeStepCorrect` | `SafeStepKeepsOneProposal` | `OneUpdater`, below |

Why a list is safe is a fact about the text of the calls: each access stands behind a lock of its mutex with no
unlock in between, in the same call. `AllCareful` carries this through the execution: for each access a thread has
still to make, the lock is either still to come in the code that is left, or was done and the thread holds the
mutex. A thread that is about to touch a list has nothing in front of the access, so it holds the mutex, and so
no other does. That each call has this form is proved of its parts (`SoundAtoms`, `SoundSection`), and put together
by lemmas on concatenation. `OneUpdater` is about text, too: in `safeStepMode` only the timer thread looks for
proposals and appends them, each append next after the search for the same robot; so what the search
found is still so when it appends.

All the proofs use only the assumptions on constants stated in the modules: finite sets of
robots that are positive numbers, natural bounds, a value distinct from "no value"; for the mutex, that its values are the
robots' ids and "free", and that it is distributed with the three way handshake (`MutexAssumption`), as `CaceMutex.cpp` does; for elections,
that bets are numbers and 0 stands for no bet (`BetsAssumption`). What a theorem assumes beyond that (a team of two, election strategies only,
`KnownBeforeAnswered`) stands in its statement.

Model-checked only:

* `JobsFinish` and `CallsReturn`: the provers have neither fairness nor ENABLED.
* `EngagedAreRestored`: it is about two robots. With three, the partner of a robot that crashed may have its value from
  the third robot and no proposal of the one that crashed: nobody engages that one again, so it is not restored, and
  the clause about proposals of a former life does not cover it.
* `ElectedHasHighestBet` where an election is mixed with calls of other strategies (run `mixed`; section 3).
* `AgreedMeansHeld` of believe updates is neither: it is false there (`resent_ack_violated`).
* The four disagreements, which are counterexamples.

## 5. Not modelled

* *Time messages and the estimators* (`AgentTimeData`, `AgentCommunicationModel`). The only call that sends
  time messages is commented out (`src/cace/src/cace.cpp:162`), so the estimates of clock offset, delay and loss
  have no data; what they would compute is floating point statistics. With them go
  `getProbabilityForBelieveConsistency` and `getNewestVariableJob`, which feed on them.
* *Expiry.* Believes have no validity time in the models.
* *Quiet mode, scopes as paths, the ROS transport*: a filter of packets, a name prefix, and another
  transport for the same handlers.
* *Sockets, serialisation, display, the ALICA proxy, generated relay and load generator*: I/O and glue
  around the protocol; nothing in them keeps state of the protocol.
* *`paxostest`*: a copy of libpaxos with a vendored gtest (30 000 of the
  repository's 48 000 lines of implementation are the latter). cace neither links nor calls it. The share of the whole
  repository's lines that the models cover is small for that reason; of the
  components that carry cace's own logic, all but the ones above are covered.

## 6. Plan

Done: the accept loop, the command protocol with its safety proofs, its
abstract specification and refinement, believe updates with crashes, remote access, the mutex with its
convergence, elections with their proofs, threads.

Left, in this order:

1. `EngagedAreRestored` as a theorem for two robots: the rounds of `CaceMutexProofs` for notifications.
2. Expiry of a believe while it is distributed (`CVariableStore::invalidate`).
3. The ring buffers and indices of `AgentTimeData`, if the call at `cace.cpp:162` comes back.
