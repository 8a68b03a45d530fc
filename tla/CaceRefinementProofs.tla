------------------------ MODULE CaceRefinementProofs ------------------------
(***************************************************************************)
(* The command protocol implements the BelieveBoard, for any team and any  *)
(* bounds, as long as users distribute with default accept strategies.     *)
(*                                                                         *)
(* Every step of the protocol is a Write, an Adopt or a stutter of the     *)
(* board.  The inductive invariant of CaceSafetyProofs is needed for       *)
(* Adopt: it says that the value of a packet or of a proposal really was   *)
(* the sender's.                                                           *)
(***************************************************************************)
EXTENDS CaceRefinement, CaceSafetyProofs

USE AgentsAssumption, LevelsAssumption, TimesAssumption, BoundsAssumption, ModesAssumption,
    ValuesAssumption, LongMaxAssumption

\* The variable of robot r becomes b, and nothing else of the stores changes.
BecomesBelieve(r, b) ==
  /\ b \in Valued
  /\ own' = [own EXCEPT ![r] = b]
  /\ held' = [held EXCEPT ![r] = @ \cup {b.val}]

Written(r) == \E b \in Valued : BecomesBelieve(r, b) /\ b.val \in Values /\ b.age >= own[r].age

Adopted(r, q) ==
  \E b \in Valued :
    /\ BecomesBelieve(r, b)
    /\ b.val \in held[q]
    /\ ~existsVariable(r) \/ b.age > own[r].age \/ (b.age = own[r].age /\ q > r)

\* Believes and values had, seen as the board sees them.
LEMMA BoardBelieve ==
  ASSUME TypeInv, NEW r \in Agents, NEW b \in Valued, BecomesBelieve(r, b)
  PROVE  /\ [q \in Agents |-> own'[q].val]
              = [[q \in Agents |-> own[q].val] EXCEPT ![r] = b.val]
         /\ [q \in Agents |-> own'[q].age]
              = [[q \in Agents |-> own[q].age] EXCEPT ![r] = b.age]
         /\ [q \in Agents |-> held'[q] \ {NoValue}]
              = [[q \in Agents |-> held[q] \ {NoValue}]
                   EXCEPT ![r] = @ \cup {b.val}]
         /\ own'[r] = b
<1>1. own \in [Agents -> Believe(Agents)]
      /\ held \in [Agents -> SUBSET (AnyValue \cup {NoValue})]
  BY DEF TypeInv, TypeOK
<1>2. \A q \in Agents : own'[q] = IF q = r THEN b ELSE own[q]
  BY <1>1 DEF BecomesBelieve
<1>3. \A q \in Agents : held'[q] = IF q = r THEN held[q] \cup {b.val} ELSE held[q]
  BY <1>1 DEF BecomesBelieve
<1>4. b.val # NoValue
  BY DEF Valued
<1>5. QED BY <1>2, <1>3, <1>4

LEMMA WrittenBoard ==
  ASSUME TypeInv, NEW r \in Agents, Written(r)
  PROVE  Board!Write(r)
<1>1. PICK b \in Valued : BecomesBelieve(r, b) /\ b.val \in Values /\ b.age >= own[r].age
  BY DEF Written
<1>2. b.age \in Nat
  BY DEF Valued, Believe
<1>3. QED BY <1>1, <1>2, BoardBelieve DEF Board!Write, Board!Believes

LEMMA AdoptedBoard ==
  ASSUME TypeInv, NEW r \in Agents, NEW q \in Agents, Adopted(r, q)
  PROVE  Board!Adopt(r, q)
<1>1. PICK b \in Valued :
        /\ BecomesBelieve(r, b)
        /\ b.val \in held[q]
        /\ ~existsVariable(r) \/ b.age > own[r].age \/ (b.age = own[r].age /\ q > r)
  BY DEF Adopted
<1>2. b.age \in Nat /\ b.val # NoValue
  BY DEF Valued, Believe
<1>3. QED BY <1>1, <1>2, BoardBelieve DEF Board!Adopt, Board!Believes, existsVariable

\* A proposal that a default strategy accepts is newer, or as new and of a higher id.
LEMMA AcceptedNewer ==
  ASSUME NEW b \in Valued, NEW props \in Seq(Valued), NEW a \in AcceptProposals(b, props),
         b.strat \in DefaultStrategies
  PROVE  \/ a = b
         \/ \E k \in DOMAIN props :
              /\ a.val = props[k].val
              /\ a.age > b.age \/ (a.age = b.age /\ props[k].id >= b.id)
<1>1. PICK w \in 0..Len(props) :
        IsWinner(b, props, w) /\ a = IF w = 0 THEN b ELSE Update(b, props[w])
  BY DEF AcceptProposals
<1>2. CASE w = 0
  BY <1>1, <1>2
<1>3. CASE w # 0
  <2>1. w \in DOMAIN props /\ props[w] \in Valued
    BY <1>3, ElementOfSeq, LenProperties
  <2>2. a.val = props[w].val /\ a.age = props[w].age
    BY <1>1, <1>3 DEF Update, Valued, Believe
  <2>3. ~ Keeps(b.strat, Candidate(b, props, 0), Candidate(b, props, w))
    <3>1. 0 \in 0..(w - 1)
      BY <1>3
    <3>2. QED BY <1>1, <3>1 DEF IsWinner
  <2>4. ~ Newer(b, props[w])
    BY <1>3, <2>3 DEF Keeps, Candidate
  <2>5. /\ props[w].age \in Nat /\ b.age \in Nat
        /\ props[w].id \in Nat /\ b.id \in Nat
    BY <2>1 DEF Valued, Believe
  <2>6. a.age > b.age \/ (a.age = b.age /\ props[w].id >= b.id)
    BY <2>2, <2>4, <2>5 DEF Newer
  <2>7. QED BY <2>1, <2>2, <2>6
<1>4. QED BY <1>2, <1>3

\* The robot id of a variable in the store is the robot's own.
OwnIds == \A r \in Agents : own[r].id = r

\* doVariableUpdate leaves a robot with its believe or with one it adopts.
LEMMA UpdateAdopts ==
  ASSUME SafetyInv, SafetyInv', OwnIds, Levels \subseteq DefaultStrategies,
         NEW r \in Agents, NEW m \in Message, m.from # r, m.val \in held[m.from],
         NEW created \in Valued, created.val = m.val, created.strat \in DefaultStrategies,
         NEW props \in Seq(Valued), DoVariableUpdate(r, created, props)
  PROVE  \/ \A q \in Agents : /\ own'[q] = own[q]
                             /\ held'[q] \ {NoValue} = held[q] \ {NoValue}
         \/ \E q \in Agents \ {r} : Adopted(r, q)
<1>1. PICK b \in IF props = proposals[r] THEN {own[r]}
                 ELSE AcceptProposals(OwnBefore(r, created), props) :
        own' = [own EXCEPT ![r] = b] /\ held' = [held EXCEPT ![r] = @ \cup {b.val}]
  BY DEF DoVariableUpdate
<1>2. /\ own \in [Agents -> Believe(Agents)] /\ proposals \in [Agents -> Seq(Believe(Agents))]
      /\ held \in [Agents -> SUBSET (AnyValue \cup {NoValue})]
  BY DEF SafetyInv, TypeInv, TypeOK
<1>3. /\ \A q \in Agents \ {r} : own'[q] = own[q] /\ held'[q] = held[q]
      /\ own'[r] = b /\ held'[r] = held[r] \cup {b.val}
      /\ proposals'[r] = props
  BY <1>1, <1>2 DEF DoVariableUpdate
<1>4. CASE b = own[r]
  <2>1. b.val = NoValue \/ b.val \in held[r]
    BY <1>4 DEF SafetyInv, TrueVariables, TrueVariable, existsVariable
  <2>2. QED BY <1>3, <1>4, <2>1
<1>5. CASE b # own[r]
  <2> DEFINE o == OwnBefore(r, created)
  <2>1. b \in AcceptProposals(o, props)
    BY <1>1, <1>5
  <2>2. o \in Valued /\ o.strat \in DefaultStrategies
    BY <1>2 DEF OwnBefore, existsVariable, Valued, SafetyInv, TrueVariables, TrueVariable,
       UsedStrategies
  <2>3. existsVariable(r) => o = own[r] /\ o.id = r
    BY DEF OwnBefore, OwnIds
  <2>4. ~existsVariable(r) => o = created
    BY DEF OwnBefore
  <2> HIDE DEF o
  <2>5. b \in Valued
    BY <2>1, <2>2, AcceptedBelieve
  <2>6. BecomesBelieve(r, b)
    BY <1>1, <2>5 DEF BecomesBelieve
  <2>7. \A k \in DOMAIN props :
          /\ props[k].id \in Agents \ {r}
          /\ props[k].val \in held[props[k].id]
    <3>1. SUFFICES ASSUME NEW k \in DOMAIN props
                   PROVE  props[k].id \in Agents \ {r} /\ props[k].val \in held[props[k].id]
      OBVIOUS
    <3>2. TrueProposal(r, proposals[r][k])'
      BY <1>3 DEF SafetyInv, TrueVariables, TrueVariable
    <3>3. proposals'[r][k] = props[k]
      BY <1>3
    <3>4. props[k].id # r /\ props[k].val \in held'[props[k].id]
      BY <3>2, <3>3 DEF TrueProposal
    <3>5. props[k].id \in Agents
      <4>1. props[k] \in Valued
        BY ElementOfSeq, LenProperties
      <4>2. QED BY <4>1 DEF Valued, Believe
    <3>6. QED BY <1>3, <3>4, <3>5
  <2>8. CASE b = o
    <3>1. ~existsVariable(r) /\ b = created
      BY <1>5, <2>3, <2>4, <2>8
    <3>2. Adopted(r, m.from) /\ m.from \in Agents
      BY <2>5, <2>6, <3>1, MessageFields DEF Adopted
    <3>3. QED BY <3>2
  <2>9. CASE b # o
    <3>1. PICK k \in DOMAIN props :
            /\ b.val = props[k].val
            /\ b.age > o.age \/ (b.age = o.age /\ props[k].id >= o.id)
      BY <2>1, <2>2, <2>9, AcceptedNewer
    <3>2. PICK q : q = props[k].id
      OBVIOUS
    <3>3. q \in Agents \ {r} /\ b.val \in held[q]
      BY <2>7, <3>1, <3>2
    <3>4. existsVariable(r) => b.age > own[r].age \/ (b.age = own[r].age /\ q > r)
      <4>1. q \in Nat /\ r \in Nat /\ q # r
        BY <3>3
      <4>2. QED BY <2>3, <3>1, <3>2, <4>1
    <3>5. QED BY <2>5, <2>6, <3>3, <3>4 DEF Adopted
  <2>10. QED BY <2>8, <2>9
<1>6. QED BY <1>4, <1>5
LEMMA UpdateKeepsIds ==
  ASSUME TypeInv, OwnIds, NEW r \in Agents, NEW created \in Valued, created.id = r,
         NEW props \in Seq(Valued), DoVariableUpdate(r, created, props)
  PROVE  OwnIds'
<1>1. PICK b \in IF props = proposals[r] THEN {own[r]}
                 ELSE AcceptProposals(OwnBefore(r, created), props) :
        own' = [own EXCEPT ![r] = b]
  BY DEF DoVariableUpdate
<1>2. own \in [Agents -> Believe(Agents)]
  BY DEF TypeInv, TypeOK
<1>3. OwnBefore(r, created).id = r /\ OwnBefore(r, created) \in Believe(Agents)
  BY <1>2 DEF OwnBefore, OwnIds, Valued
<1>4. b.id = r
  <2> DEFINE o == OwnBefore(r, created)
  <2>1. b = own[r] \/ b = o \/ \E k \in DOMAIN props : b = Update(o, props[k])
    <3>1. b = own[r] \/ b \in AcceptProposals(o, props)
      BY <1>1
    <3> HIDE DEF o
    <3>2. ASSUME b \in AcceptProposals(o, props)
          PROVE  b = o \/ \E k \in DOMAIN props : b = Update(o, props[k])
      <4>1. PICK w \in 0..Len(props) : b = IF w = 0 THEN o ELSE Update(o, props[w])
        BY <3>2 DEF AcceptProposals
      <4>2. w = 0 \/ w \in DOMAIN props
        BY LenProperties
      <4>3. QED BY <4>1, <4>2
    <3>3. QED BY <3>1, <3>2
  <2> HIDE DEF o
  <2>2. \A k \in DOMAIN props : Update(o, props[k]).id = o.id
    BY <1>3 DEF Update, Believe, o
  <2>3. o.id = r
    BY <1>3 DEF o
  <2>4. QED BY <2>1, <2>2, <2>3 DEF OwnIds
<1>5. \A q \in Agents : own'[q] = IF q = r THEN b ELSE own[q]
  BY <1>1, <1>2
<1>6. QED BY <1>4, <1>5 DEF OwnIds

-----------------------------------------------------------------------------
\* What a step is to the board.
BoardStep ==
  \/ \A q \in Agents : /\ own'[q] = own[q]
                      /\ held'[q] \ {NoValue} = held[q] \ {NoValue}
  \/ \E r \in Agents : Written(r) \/ \E q \in Agents \ {r} : Adopted(r, q)

LEMMA CommandBoardStep ==
  ASSUME SafetyInv, SafetyInv', OwnIds, Levels \subseteq DefaultStrategies,
         NEW r \in Agents, NEW m \in Message, m.kind = "Command", m.from # r, TruePacket(m),
         UpdateByCommand(r, m)
  PROVE  OwnIds' /\ BoardStep
<1>1. PICK props : props = ProposalsAfterCommand(r, m)
  OBVIOUS
<1>2. PICK created : created = CreatedByCommand(r, m)
  OBVIOUS
<1>3. created \in Valued /\ props \in Seq(Valued)
  BY <1>1, <1>2, CreatedBelieves, NewProposals DEF SafetyInv
<1>4. DoVariableUpdate(r, created, props)
  BY <1>1, <1>2 DEF UpdateByCommand
<1>5. m.level \in DefaultStrategies /\ m.val \in held[m.from]
  BY DEF TruePacket, UsedStrategies
<1>6. m.level \notin ElectionStrategies
  BY <1>5 DEF DefaultStrategies, ElectionStrategies, NoDistribution, FireAndForget,
     TwoWayHandShake, ThreeWayHandShake
<1>7. created.val = m.val /\ created.strat \in DefaultStrategies /\ created.id = r
  BY <1>2, <1>5, <1>6 DEF CreatedByCommand
<1>8. OwnIds'
  BY <1>3, <1>4, <1>7, UpdateKeepsIds DEF SafetyInv
<1>9. QED BY <1>3, <1>4, <1>5, <1>7, <1>8, UpdateAdopts DEF BoardStep

LEMMA AckBoardStep ==
  ASSUME SafetyInv, SafetyInv', OwnIds, Levels \subseteq DefaultStrategies,
         NEW r \in Agents, NEW m \in Message, m.kind = "Acknowledge", m.from # r, TruePacket(m),
         UpdateByAck(r, m)
  PROVE  OwnIds' /\ BoardStep
<1>1. PICK props : props = ProposalsAfterAck(r, m)
  OBVIOUS
<1>2. PICK created : created = CreatedByAck(r, m)
  OBVIOUS
<1>3. created \in Valued /\ props \in Seq(Valued)
  BY <1>1, <1>2, CreatedBelieves, NewProposals DEF SafetyInv
<1>4. DoVariableUpdate(r, created, props)
  BY <1>1, <1>2 DEF UpdateByAck
<1>5. m.val \in held[m.from]
  BY DEF TruePacket
<1>6. created.val = m.val /\ created.strat \in DefaultStrategies /\ created.id = r
  BY <1>2 DEF CreatedByAck, DefaultStrategies
<1>7. OwnIds'
  BY <1>3, <1>4, <1>6, UpdateKeepsIds DEF SafetyInv
<1>8. QED BY <1>3, <1>4, <1>5, <1>6, <1>7, UpdateAdopts DEF BoardStep

LEMMA CallBoardStep ==
  ASSUME SafetyInv, SafetyInv', OwnIds, NEW r \in Agents, Call(r)
  PROVE  OwnIds' /\ BoardStep
<1>1. /\ own \in [Agents -> Believe(Agents)] /\ own[r].age <= clock[r] /\ clock[r] \in Nat
      /\ \A q \in Agents : own[q].age \in Nat
  BY DEF SafetyInv, TypeInv, TypeOK, TrueVariables, TrueVariable, Believe
<1>2. ASSUME NEW v \in Values, NEW s \in Levels, NEW t \in DecissionTimes,
             distributeValue(r, v, s, t)
      PROVE  OwnIds' /\ BoardStep
  <2>1. PICK b : b = [id |-> r, val |-> v, age |-> clock[r], strat |-> s, dec |-> t]
    OBVIOUS
  <2>2. own' = [own EXCEPT ![r] = b] /\ held' = [held EXCEPT ![r] = @ \cup {b.val}]
    BY <1>2, <2>1 DEF distributeValue
  <2>3. own'[r] = b /\ own' \in [Agents -> Believe(Agents)]
    BY <1>1, <2>2 DEF SafetyInv, TypeInv, TypeOK
  <2>4. b \in Valued
    BY <2>1, <2>3 DEF Valued
  <2>5. b.age >= own[r].age /\ b.val \in Values /\ b.id = r
    BY <1>1, <2>1
  <2>6. Written(r)
    BY <2>2, <2>4, <2>5 DEF Written, BecomesBelieve
  <2>7. \A q \in Agents : own'[q] = IF q = r THEN b ELSE own[q]
    BY <1>1, <2>2
  <2>8. QED BY <2>5, <2>6, <2>7 DEF BoardStep, OwnIds
<1>3. CASE distributeVariable(r) \/ \E p \in Agents : agentEngangement(r, p)
  BY <1>3 DEF distributeVariable, agentEngangement, KeepVariable, BoardStep, OwnIds
<1>4. QED BY <1>2, <1>3 DEF Call

LEMMA StepIsBoardStep ==
  ASSUME SafetyInv, SafetyInv', OwnIds, Levels \subseteq DefaultStrategies, Next
  PROVE  OwnIds' /\ BoardStep
<1>1. CASE KeepVariable
  BY <1>1 DEF KeepVariable, OwnIds, BoardStep
<1>2. PICK r \in Agents :
        \/ Call(r)
        \/ \E m \in net[r] : Handle(r, m)
        \/ \E i \in DOMAIN jobs[r] : Process(r, i)
  BY DEF Next
<1>3. ASSUME NEW m \in net[r], Handle(r, m)
      PROVE  OwnIds' /\ BoardStep
  <2>1. m \in Message /\ m.from # r /\ TruePacket(m)
    BY DEF SafetyInv, TrueNet, TypeInv, TypeOK
  <2>2. \/ KeepVariable
        \/ m.kind = "Command" /\ UpdateByCommand(r, m)
        \/ m.kind = "Acknowledge" /\ UpdateByAck(r, m)
    BY <1>3 DEF Handle, Overhear, handleCaceShortAck, handleCaceCommand, handleCaceAcknowledge
  <2>3. QED BY <1>1, <2>1, <2>2, CommandBoardStep, AckBoardStep
<1>4. ASSUME NEW i \in DOMAIN jobs[r], Process(r, i)
      PROVE  OwnIds' /\ BoardStep
  <2>1. PICK o : o = jobs[r][i]
    OBVIOUS
  <2>2. o \in Job /\ TrueJob(r, o)
    BY <2>1, ListedJob DEF SafetyInv, TrueJobs
  <2>3. \/ KeepVariable
        \/ o.kind = "CommandAcknowledgeJob" /\ UpdateByCommand(r, o.cmd)
        \/ o.kind = "ShortAckJob" /\ UpdateByAck(r, o.ack)
    BY <1>4, <2>1 DEF Process, processCommandJob, processCommandAcknowledgeJob,
       startCommandAcknowledgeJob, processShortAckJob
  <2>4. CASE o.kind = "CommandAcknowledgeJob" /\ UpdateByCommand(r, o.cmd)
    <3>1. o.cmd \in Message /\ o.cmd.kind = "Command" /\ Taken(r, o.cmd)
      BY <2>2, <2>4, JobFields DEF TrueJob
    <3>2. QED BY <2>4, <3>1, CommandBoardStep DEF Taken
  <2>5. CASE o.kind = "ShortAckJob" /\ UpdateByAck(r, o.ack)
    <3>1. o.ack \in Message /\ o.ack.kind = "Acknowledge" /\ Taken(r, o.ack)
      BY <2>2, <2>5, JobFields DEF TrueJob
    <3>2. QED BY <2>5, <3>1, AckBoardStep DEF Taken
  <2>6. QED BY <1>1, <2>3, <2>4, <2>5
<1>5. QED BY <1>2, <1>3, <1>4, CallBoardStep

\* With default accept strategies the stores of a team of any size, under any loss,
\* repetition and reordering of packets, are a BelieveBoard.
THEOREM BoardImplemented ==
  ASSUME Levels \subseteq DefaultStrategies
  PROVE  Spec => ImplementsBoard
<1>1. Init => OwnIds /\ Board!Init
  BY DEF Init, OwnIds, Absent, Board!Init
<1>2. SafetyInv /\ SafetyInv' /\ OwnIds /\ [Next]_vars
        => OwnIds' /\ [Board!Next]_(Board!boardVars)
  <2>1. SUFFICES ASSUME SafetyInv, SafetyInv', OwnIds, [Next]_vars
                 PROVE  OwnIds' /\ [Board!Next]_(Board!boardVars)
    OBVIOUS
  <2>2. CASE UNCHANGED vars
    BY <2>1, <2>2 DEF vars, OwnIds, Board!boardVars
  <2>3. CASE Next
    <3>1. OwnIds' /\ BoardStep
      BY <2>1, <2>3, StepIsBoardStep
    <3>2. BoardStep => [Board!Next]_(Board!boardVars)
      <4>1. ASSUME NEW r \in Agents, Written(r)
            PROVE  Board!Next
        BY <2>1, <4>1, WrittenBoard DEF SafetyInv, Board!Next
      <4>2. ASSUME NEW r \in Agents, NEW q \in Agents \ {r}, Adopted(r, q)
            PROVE  Board!Next
        BY <2>1, <4>2, AdoptedBoard DEF SafetyInv, Board!Next
      <4>3. ASSUME \A q \in Agents : /\ own'[q] = own[q]
                                   /\ held'[q] \ {NoValue} = held[q] \ {NoValue}
            PROVE  UNCHANGED Board!boardVars
        BY <4>3 DEF Board!boardVars
      <4>4. QED BY <4>1, <4>2, <4>3 DEF BoardStep
    <3>3. QED BY <3>1, <3>2
  <2>4. QED BY <2>1, <2>2, <2>3
<1>3. QED BY <1>1, <1>2, SafetyInvCorrect, PTL DEF Spec, ImplementsBoard, Board!Spec
=============================================================================
