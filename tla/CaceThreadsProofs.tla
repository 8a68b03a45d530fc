-------------------------- MODULE CaceThreadsProofs --------------------------
(***************************************************************************)
(* Proofs about the threads of one robot, for any robots and any number of *)
(* calls.  What makes a list safe is a fact about the text of the calls:   *)
(* each access stands behind a lock of its mutex with no unlock between.   *)
(* The invariant carries this fact through the execution, where the lock   *)
(* in front may have been done already and show only in holder.            *)
(***************************************************************************)
EXTENDS CaceThreads, SequenceTheorems, TLAPS

Data ==
  {"lamportTime", "jobs", "store", "proposals", "believe", "believeNotifications",
   "activeRobots", "shortAcks"}
Ops == {"lock", "unlock", "read", "write"}

Instruction ==
  [op : Ops, on : Mutexes \cup Data] \cup
  [op : Ops, on : Mutexes \cup Data, robot : Robots]

\* The lists CallsReturn and the protocol module take for granted, and their mutexes.
GuardOf(x) ==
  CASE x = "jobs" -> "jobMutex"
    [] x = "store" -> "storeMutex"
    [] x = "believeNotifications" -> "notMutex"
Lists == {"jobs", "store", "believeNotifications"}

Locks(i, m) == i.op = "lock" /\ i.on = m
Unlocks(i, m) == i.op = "unlock" /\ i.on = m
Accesses(i, x) == i.op \in {"read", "write"} /\ i.on = x

\* Instruction i of c stands behind a lock of m of the same call.
Behind(c, i, m) ==
  \E j \in 1..(i - 1) : Locks(c[j], m) /\ \A k \in (j + 1)..(i - 1) : ~Unlocks(c[k], m)

\* What may be done only by the thread that holds the mutex of x.
Needs(i, x) == Accesses(i, x) \/ Unlocks(i, GuardOf(x))

\* The text of a call is careful with x.
Careful(c, x) == \A i \in 1..Len(c) : Needs(c[i], x) => Behind(c, i, GuardOf(x))

Sound(c) == c \in Seq(Instruction) /\ \A x \in Lists : Careful(c, x)

\* No instruction of c unlocks m.
KeepsLocked(c, m) == c \in Seq({i \in Instruction : ~Unlocks(i, m)})

\* Thread t is in the middle of a section of mutex m that goes on to instruction i.
Holding(t, i, m) == holder[m] = t /\ \A k \in 1..(i - 1) : ~Unlocks(code[t][k], m)

ThreadCareful(t, x) ==
  \A i \in 1..Len(code[t]) :
    Needs(code[t][i], x) => Holding(t, i, GuardOf(x)) \/ Behind(code[t], i, GuardOf(x))

AllCareful == \A t \in Threads, x \in Lists : ThreadCareful(t, x)

-----------------------------------------------------------------------------
\* In safeStepMode proposals are looked for and appended by the timer thread only,
\* and each append follows on the search for the same robot.
IsScan(i) == i.op = "read" /\ "robot" \in DOMAIN i
IsAppend(i) == i.op = "write" /\ "robot" \in DOMAIN i
Looks(i) == IsScan(i) \/ IsAppend(i)

Plain(c) == c \in Seq({i \in Instruction : ~Looks(i)})

Follows(c, i) == i > 1 /\ IsScan(c[i - 1]) /\ c[i - 1].robot = c[i].robot

Paired(c) == \A i \in 1..Len(c) : IsAppend(c[i]) => Follows(c, i)

OnlyTimerLooks == \A t \in Threads \ {"timer"} : Plain(code[t])

TimerLooksFirst ==
  \A i \in 1..Len(code["timer"]) :
    IsAppend(code["timer"][i]) =>
      \/ Follows(code["timer"], i)
      \/ i = 1 /\ found["timer"] = Listed(code["timer"][i].robot)

OneUpdater ==
  safeStepMode => OnlyTimerLooks /\ TimerLooksFirst /\ OneProposalOfEach

-----------------------------------------------------------------------------
TypeOK ==
  /\ safeStepMode \in BOOLEAN
  /\ code \in [Threads -> Seq(Instruction)]
  /\ holder \in [Mutexes -> Threads \cup {Nobody}]
  /\ proposals \in Seq(Robots)
  /\ found \in [Threads -> BOOLEAN]
  /\ calls \in 0..MaxCalls
  /\ engaged \in BOOLEAN

-----------------------------------------------------------------------------
(***************************************************************************)
(* The text of the calls.                                                  *)
(***************************************************************************)
LEMMA Joined ==
  ASSUME NEW a \in Seq(Instruction), NEW b \in Seq(Instruction)
  PROVE  /\ a \o b \in Seq(Instruction)
         /\ Len(a) \in Nat /\ Len(b) \in Nat
         /\ Len(a \o b) = Len(a) + Len(b)
         /\ \A i \in 1..Len(a) : (a \o b)[i] = a[i]
         /\ \A i \in 1..Len(b) : (a \o b)[Len(a) + i] = b[i]
  BY ConcatProperties

\* A call made of careful calls is careful.
LEMMA CarefulJoined ==
  ASSUME NEW a \in Seq(Instruction), NEW b \in Seq(Instruction), NEW x,
         Careful(a, x), Careful(b, x)
  PROVE  Careful(a \o b, x)
<1> DEFINE m == GuardOf(x)
           c == a \o b
<1> SUFFICES ASSUME NEW i \in 1..Len(c), Needs(c[i], x)
             PROVE  Behind(c, i, m)
  BY DEF Careful
<1>1. CASE i <= Len(a)
  <2>1. i \in 1..Len(a) /\ c[i] = a[i]
    BY <1>1, Joined
  <2>2. PICK j \in 1..(i - 1) :
          Locks(a[j], m) /\ \A k \in (j + 1)..(i - 1) : ~Unlocks(a[k], m)
    BY <2>1 DEF Careful, Behind
  <2>3. \A k \in 1..(i - 1) : c[k] = a[k]
    BY <2>1, Joined
  <2>4. \A k \in (j + 1)..(i - 1) : k \in 1..(i - 1)
    BY <2>1, Joined
  <2>5. QED BY <2>2, <2>3, <2>4 DEF Behind
<1>2. CASE i > Len(a)
  <2> DEFINE n == i - Len(a)
  <2>1. n \in 1..Len(b) /\ i = Len(a) + n /\ c[i] = b[n] /\ i \in Nat
    BY <1>2, Joined
  <2>2. PICK j \in 1..(n - 1) :
          Locks(b[j], m) /\ \A k \in (j + 1)..(n - 1) : ~Unlocks(b[k], m)
    BY <2>1 DEF Careful, Behind
  <2>3. Len(a) + j \in 1..(i - 1) /\ c[Len(a) + j] = b[j]
    BY <2>1, <2>2, Joined
  <2>4. ASSUME NEW k \in (Len(a) + j + 1)..(i - 1) PROVE ~Unlocks(c[k], m)
    <3>1. k - Len(a) \in (j + 1)..(n - 1) /\ k - Len(a) \in 1..Len(b)
          /\ k = Len(a) + (k - Len(a))
      BY <2>1, <2>2, Joined
    <3>2. c[k] = b[k - Len(a)]
      BY <3>1, Joined
    <3>3. QED BY <2>2, <3>1, <3>2
  <2>5. QED BY <2>2, <2>3, <2>4 DEF Behind
<1>3. QED BY <1>1, <1>2, Joined

\* A call that never touches a list is careful with it.
LEMMA CarefulWithout ==
  ASSUME NEW c, NEW x, \A i \in 1..Len(c) : ~Needs(c[i], x)
  PROVE  Careful(c, x)
  BY DEF Careful

LEMMA AtomTypes ==
  /\ \A m \in Mutexes : Lock(m) \in Seq(Instruction) /\ Unlock(m) \in Seq(Instruction)
  /\ \A x \in Data : Reads(x) \in Seq(Instruction) /\ Writes(x) \in Seq(Instruction)
  /\ \A q \in Robots : Scan(q) \in Seq(Instruction) /\ AppendProposal(q) \in Seq(Instruction)
<1>1. \A i \in Instruction : <<i>> \in Seq(Instruction)
  OBVIOUS
<1>2. \A o \in Ops, d \in Mutexes \cup Data : [op |-> o, on |-> d] \in Instruction
  BY DEF Instruction
<1>3. \A o \in Ops, d \in Mutexes \cup Data, q \in Robots :
        [op |-> o, on |-> d, robot |-> q] \in Instruction
  BY DEF Instruction
<1>4. "proposals" \in Data
  BY DEF Data
<1>5. "lock" \in Ops /\ "unlock" \in Ops /\ "read" \in Ops /\ "write" \in Ops
  BY DEF Ops
<1>6. QED BY <1>1, <1>2, <1>3, <1>4, <1>5
        DEF Lock, Unlock, Reads, Writes, Scan, AppendProposal

\* A section of the mutex of x, in which the mutex stays locked, is careful with x
\* whatever it does with x.
LEMMA SectionCareful ==
  ASSUME NEW x \in Lists, NEW body, KeepsLocked(body, GuardOf(x))
  PROVE  Careful(Guarded(GuardOf(x), body), x)
<1> DEFINE m == GuardOf(x)
           c == Guarded(m, body)
<1>1. body \in Seq(Instruction) /\ Len(body) \in Nat
      /\ \A k \in 1..Len(body) : ~Unlocks(body[k], m)
  BY DEF KeepsLocked
<1>2. m \in Mutexes
  BY DEF Lists, GuardOf, Mutexes
<1> HIDE DEF m
<1>3. Lock(m) \in Seq(Instruction) /\ Unlock(m) \in Seq(Instruction)
      /\ Len(Lock(m)) = 1 /\ Len(Unlock(m)) = 1
      /\ Lock(m)[1] = [op |-> "lock", on |-> m]
  BY <1>2, AtomTypes DEF Lock, Unlock
<1>4. Lock(m) \o body \in Seq(Instruction) /\ Len(Lock(m) \o body) = 1 + Len(body)
      /\ (Lock(m) \o body)[1] = Lock(m)[1]
      /\ \A k \in 1..Len(body) : (Lock(m) \o body)[1 + k] = body[k]
  <2>1. \A k \in 1..Len(body) : (Lock(m) \o body)[Len(Lock(m)) + k] = body[k]
    BY <1>1, <1>3, Joined, Zenon
  <2>2. /\ Lock(m) \o body \in Seq(Instruction)
        /\ Len(Lock(m) \o body) = Len(Lock(m)) + Len(body)
        /\ \A k \in 1..Len(Lock(m)) : (Lock(m) \o body)[k] = Lock(m)[k]
    BY <1>1, <1>3, Joined, Zenon
  <2>3. QED BY <1>3, <2>1, <2>2
<1>5. /\ Len(c) = Len(body) + 2
      /\ c[1] = [op |-> "lock", on |-> m]
      /\ \A k \in 1..Len(body) : c[1 + k] = body[k]
  <2>1. /\ Len((Lock(m) \o body) \o Unlock(m)) = Len(body) + 2
        /\ \A k \in 1..(1 + Len(body)) :
             ((Lock(m) \o body) \o Unlock(m))[k] = (Lock(m) \o body)[k]
    BY <1>1, <1>3, <1>4, Joined
  <2>2. c = (Lock(m) \o body) \o Unlock(m)
    BY DEF Guarded
  <2>3. \A k \in 1..Len(body) : 1 + k \in 1..(1 + Len(body))
    BY <1>1
  <2>4. QED BY <1>1, <1>3, <1>4, <2>1, <2>2, <2>3
<1> HIDE DEF c
<1>6. ASSUME NEW i \in 1..Len(c), i # 1 PROVE Behind(c, i, m)
  <2>1. ASSUME NEW k \in 2..(i - 1) PROVE ~Unlocks(c[k], m)
    <3>1. k - 1 \in 1..Len(body) /\ k = 1 + (k - 1)
      BY <1>1, <1>5, <1>6
    <3>2. c[k] = body[k - 1]
      BY <1>5, <3>1
    <3>3. QED BY <1>1, <3>1, <3>2
  <2>2. 1 \in 1..(i - 1) /\ Locks(c[1], m) /\ 1 + 1 = 2
    BY <1>1, <1>5, <1>6 DEF Locks
  <2>3. QED BY <2>1, <2>2 DEF Behind
<1>7. ~Needs(c[1], x)
  BY <1>5 DEF Needs, Accesses, Unlocks
<1>8. QED BY <1>6, <1>7 DEF Careful, m, c

LEMMA GuardsDiffer ==
  ASSUME NEW x \in Lists, NEW y \in Lists, x # y
  PROVE  GuardOf(x) # GuardOf(y)
  BY DEF Lists, GuardOf

LEMMA SoundJoined ==
  ASSUME NEW a, NEW b, Sound(a), Sound(b)
  PROVE  Sound(a \o b)
<1>1. a \in Seq(Instruction) /\ b \in Seq(Instruction)
  BY DEF Sound
<1>2. a \o b \in Seq(Instruction)
  BY <1>1
<1>3. \A x \in Lists : Careful(a \o b, x)
  BY <1>1, CarefulJoined DEF Sound
<1>4. QED BY <1>2, <1>3 DEF Sound

\* Instructions that touch no list and unlock none.
LEMMA SoundAtoms ==
  /\ Sound(<<>>)
  /\ \A d \in Data \ Lists : Sound(Reads(d)) /\ Sound(Writes(d))
  /\ \A q \in Robots : Sound(Scan(q)) /\ Sound(AppendProposal(q))
<1>1. Sound(<<>>)
  BY DEF Sound, Careful
<1>2. ASSUME NEW d \in Data \ Lists PROVE Sound(Reads(d)) /\ Sound(Writes(d))
  <2>1. Reads(d) \in Seq(Instruction) /\ Writes(d) \in Seq(Instruction)
    BY AtomTypes
  <2>2. \A x \in Lists : Careful(Reads(d), x) /\ Careful(Writes(d), x)
    BY DEF Careful, Needs, Accesses, Unlocks, Reads, Writes
  <2>3. QED BY <2>1, <2>2 DEF Sound
<1>3. ASSUME NEW q \in Robots PROVE Sound(Scan(q)) /\ Sound(AppendProposal(q))
  <2>1. Scan(q) \in Seq(Instruction) /\ AppendProposal(q) \in Seq(Instruction)
    BY AtomTypes
  <2>2. \A x \in Lists : Careful(Scan(q), x) /\ Careful(AppendProposal(q), x)
    BY DEF Careful, Needs, Accesses, Unlocks, Scan, AppendProposal, Lists
  <2>3. QED BY <2>1, <2>2 DEF Sound
<1>4. QED BY <1>1, <1>2, <1>3

\* A section may do anything with the list its mutex guards, as long as it keeps the
\* mutex; with the others it is as careful as its body.
LEMMA SoundSection ==
  ASSUME NEW m \in Mutexes, NEW body \in Seq(Instruction),
         \A x \in Lists : IF m = GuardOf(x) THEN KeepsLocked(body, m) ELSE Careful(body, x)
  PROVE  Sound(Guarded(m, body))
<1>1. Lock(m) \in Seq(Instruction) /\ Unlock(m) \in Seq(Instruction)
  BY AtomTypes
<1>2. Guarded(m, body) \in Seq(Instruction)
  BY <1>1 DEF Guarded
<1>3. ASSUME NEW x \in Lists PROVE Careful(Guarded(m, body), x)
  <2>1. CASE m = GuardOf(x)
    BY <2>1, SectionCareful
  <2>2. CASE m # GuardOf(x)
    <3>1. Careful(Lock(m), x) /\ Careful(Unlock(m), x)
      BY <2>2 DEF Careful, Needs, Accesses, Unlocks, Lock, Unlock
    <3>2. Careful(body, x)
      BY <2>2
    <3>3. Lock(m) \o body \in Seq(Instruction) /\ Careful(Lock(m) \o body, x)
      BY <1>1, <3>1, <3>2, CarefulJoined
    <3>4. Careful((Lock(m) \o body) \o Unlock(m), x)
      BY <1>1, <3>1, <3>3, CarefulJoined
    <3>5. QED BY <3>4 DEF Guarded
  <2>3. QED BY <2>1, <2>2
<1>4. QED BY <1>2, <1>3 DEF Sound

-----------------------------------------------------------------------------
LEMMA PairedJoined ==
  ASSUME NEW a \in Seq(Instruction), NEW b \in Seq(Instruction), Paired(a), Paired(b)
  PROVE  Paired(a \o b)
<1> DEFINE c == a \o b
<1> SUFFICES ASSUME NEW i \in 1..Len(c), IsAppend(c[i])
             PROVE  Follows(c, i)
  BY DEF Paired
<1>1. CASE i <= Len(a)
  <2>1. i \in 1..Len(a) /\ c[i] = a[i]
    BY <1>1, Joined
  <2>2. Follows(a, i)
    BY <2>1 DEF Paired
  <2>3. c[i - 1] = a[i - 1]
    BY <2>1, <2>2, Joined DEF Follows
  <2>4. QED BY <2>1, <2>2, <2>3 DEF Follows
<1>2. CASE i > Len(a)
  <2> DEFINE n == i - Len(a)
  <2>1. n \in 1..Len(b) /\ i = Len(a) + n /\ c[i] = b[n] /\ i \in Nat
    BY <1>2, Joined
  <2>2. Follows(b, n)
    BY <2>1 DEF Paired
  <2>3. n - 1 \in 1..Len(b) /\ i - 1 = Len(a) + (n - 1) /\ i > 1
    BY <2>1, <2>2, Joined DEF Follows
  <2>4. c[i - 1] = b[n - 1]
    BY <2>3, Joined
  <2>5. QED BY <2>1, <2>2, <2>3, <2>4 DEF Follows
<1>3. QED BY <1>1, <1>2, Joined

LEMMA PlainPaired ==
  ASSUME NEW c, Plain(c)
  PROVE  c \in Seq(Instruction) /\ Paired(c)
  BY DEF Plain, Paired, Looks

LEMMA PlainJoined ==
  ASSUME NEW a, NEW b, Plain(a), Plain(b)
  PROVE  Plain(a \o b)
  BY DEF Plain

LEMMA LockedJoined ==
  ASSUME NEW m, NEW a, NEW b, KeepsLocked(a, m), KeepsLocked(b, m)
  PROVE  KeepsLocked(a \o b, m)
  BY DEF KeepsLocked

\* What one instruction is.
LEMMA PlainAtoms ==
  /\ Plain(<<>>)
  /\ \A d \in Data : Plain(Reads(d)) /\ Plain(Writes(d))
  /\ \A m \in Mutexes : Plain(Lock(m)) /\ Plain(Unlock(m))
<1>1. Plain(<<>>)
  BY DEF Plain
<1>2. ASSUME NEW d \in Data PROVE Plain(Reads(d)) /\ Plain(Writes(d))
  <2> DEFINE i == [op |-> "read", on |-> d]
             j == [op |-> "write", on |-> d]
  <2>1. i \in Instruction /\ j \in Instruction
    BY DEF Instruction, Ops
  <2>2. ~Looks(i) /\ ~Looks(j)
    BY DEF Looks, IsScan, IsAppend
  <2>3. QED BY <2>1, <2>2 DEF Plain, Reads, Writes
<1>3. ASSUME NEW m \in Mutexes PROVE Plain(Lock(m)) /\ Plain(Unlock(m))
  <2> DEFINE i == [op |-> "lock", on |-> m]
             j == [op |-> "unlock", on |-> m]
  <2>1. i \in Instruction /\ j \in Instruction
    BY DEF Instruction, Ops
  <2>2. ~Looks(i) /\ ~Looks(j)
    BY DEF Looks, IsScan, IsAppend
  <2>3. QED BY <2>1, <2>2 DEF Plain, Lock, Unlock
<1>4. QED BY <1>1, <1>2, <1>3

LEMMA LockedAtoms ==
  ASSUME NEW m
  PROVE  /\ KeepsLocked(<<>>, m)
         /\ \A d \in Data : KeepsLocked(Reads(d), m) /\ KeepsLocked(Writes(d), m)
         /\ \A n \in Mutexes : KeepsLocked(Lock(n), m) /\ (n # m => KeepsLocked(Unlock(n), m))
         /\ \A q \in Robots : KeepsLocked(Scan(q), m) /\ KeepsLocked(AppendProposal(q), m)
<1>1. KeepsLocked(<<>>, m)
  BY DEF KeepsLocked
<1>2. \A i \in Instruction : ~Unlocks(i, m) => KeepsLocked(<<i>>, m)
  BY DEF KeepsLocked
<1>3. ASSUME NEW o \in Ops, NEW d \in Mutexes \cup Data, o = "unlock" => d # m
      PROVE  KeepsLocked(<<[op |-> o, on |-> d]>>, m)
  <2>1. [op |-> o, on |-> d] \in Instruction /\ ~Unlocks([op |-> o, on |-> d], m)
    BY <1>3 DEF Instruction, Unlocks
  <2>2. QED BY <1>2, <2>1
<1>4. ASSUME NEW o \in {"read", "write"}, NEW q \in Robots
      PROVE  KeepsLocked(<<[op |-> o, on |-> "proposals", robot |-> q]>>, m)
  <2> DEFINE i == [op |-> o, on |-> "proposals", robot |-> q]
  <2>1. i \in Instruction /\ ~Unlocks(i, m)
    BY <1>4 DEF Instruction, Unlocks, Ops, Data
  <2>2. QED BY <1>2, <2>1
<1>5. "lock" \in Ops /\ "unlock" \in Ops /\ "read" \in Ops /\ "write" \in Ops
  BY DEF Ops
<1>6. QED BY <1>1, <1>3, <1>4, <1>5 DEF Reads, Writes, Lock, Unlock, Scan, AppendProposal

-----------------------------------------------------------------------------
(***************************************************************************)
(* The calls, from the inside out.                                         *)
(***************************************************************************)
LEMMA DataNames ==
  /\ \A d \in {"lamportTime", "proposals", "believe", "activeRobots", "shortAcks"} :
       d \in Data \ Lists
  /\ Lists \subseteq Data
  /\ \A x \in Lists : GuardOf(x) \in {"jobMutex", "storeMutex", "notMutex"}
  /\ GuardOf("jobs") = "jobMutex" /\ GuardOf("store") = "storeMutex"
  /\ GuardOf("believeNotifications") = "notMutex"
  BY DEF Data, Lists, GuardOf

\* A section of a mutex that guards none of the lists.
LEMMA SoundOtherSection ==
  ASSUME NEW m \in {"ackMutex", "sackMutex", "wackMutex"}, NEW body, Sound(body)
  PROVE  Sound(Guarded(m, body))
<1>1. m \in Mutexes /\ \A x \in Lists : m # GuardOf(x)
  BY DEF Mutexes, Lists, GuardOf
<1>2. QED BY <1>1, SoundSection DEF Sound

LEMMA PlainSection ==
  ASSUME NEW m \in Mutexes, NEW body, Plain(body)
  PROVE  Plain(Guarded(m, body))
  BY PlainAtoms, PlainJoined DEF Guarded

LEMMA LockedSection ==
  ASSUME NEW n, NEW m \in Mutexes, m # n, NEW body, KeepsLocked(body, n)
  PROVE  KeepsLocked(Guarded(m, body), n)
  BY LockedAtoms, LockedJoined DEF Guarded

LEMMA ClockCalls ==
  /\ Sound(updateLamportTime) /\ Plain(updateLamportTime)
  /\ Sound(tick) /\ Plain(tick)
  /\ \A m : KeepsLocked(tick, m)
<1>1. "lamportTime" \in Data /\ "lamportTime" \in Data \ Lists
  BY DataNames
<1>2. Sound(Reads("lamportTime") \o Writes("lamportTime"))
  BY <1>1, SoundAtoms, SoundJoined
<1>3. Plain(Reads("lamportTime") \o Writes("lamportTime"))
  BY <1>1, PlainAtoms, PlainJoined
<1>4. \A m : KeepsLocked(Reads("lamportTime") \o Writes("lamportTime"), m)
  BY <1>1, LockedAtoms, LockedJoined
<1>5. QED BY <1>2, <1>3, <1>4 DEF updateLamportTime, tick

LEMMA appendJobCall ==
  /\ Sound(appendJob) /\ Plain(appendJob)
  /\ KeepsLocked(appendJob, "storeMutex")
<1>1. "jobs" \in Data /\ "jobMutex" \in Mutexes /\ GuardOf("jobs") = "jobMutex"
  BY DataNames DEF Mutexes, Lists
<1>2. Writes("jobs") \in Seq(Instruction) /\ \A m : KeepsLocked(Writes("jobs"), m)
  BY <1>1, AtomTypes, LockedAtoms
<1>3. \A x \in Lists : x # "jobs" => Careful(Writes("jobs"), x)
  BY DEF Careful, Needs, Accesses, Unlocks, Writes
<1>4. \A x \in Lists : x # "jobs" => GuardOf(x) # "jobMutex"
  BY DEF Lists, GuardOf
<1>5. Sound(appendJob)
  BY <1>1, <1>2, <1>3, <1>4, SoundSection DEF appendJob
<1>6. Plain(appendJob)
  BY <1>1, PlainAtoms, PlainSection DEF appendJob
<1>7. KeepsLocked(appendJob, "storeMutex")
  BY <1>1, <1>2, LockedSection DEF appendJob
<1>8. QED BY <1>5, <1>6, <1>7

LEMMA getVariableCall ==
  /\ Sound(getVariable) /\ Plain(getVariable)
  /\ KeepsLocked(getVariable, "jobMutex")
<1>1. "store" \in Data /\ "storeMutex" \in Mutexes /\ GuardOf("store") = "storeMutex"
  BY DataNames DEF Mutexes, Lists
<1>2. Reads("store") \in Seq(Instruction) /\ \A m : KeepsLocked(Reads("store"), m)
  BY <1>1, AtomTypes, LockedAtoms
<1>3. \A x \in Lists : x # "store" => Careful(Reads("store"), x)
  BY DEF Careful, Needs, Accesses, Unlocks, Reads
<1>4. \A x \in Lists : x # "store" => GuardOf(x) # "storeMutex"
  BY DEF Lists, GuardOf
<1>5. Sound(getVariable)
  BY <1>1, <1>2, <1>3, <1>4, SoundSection DEF getVariable
<1>6. Plain(getVariable)
  BY <1>1, PlainAtoms, PlainSection DEF getVariable
<1>7. KeepsLocked(getVariable, "jobMutex")
  BY <1>1, <1>2, LockedSection DEF getVariable
<1>8. QED BY <1>5, <1>6, <1>7

\* invalidate writes believes only, under the mutex of the store.
LEMMA invalidateCall == Sound(invalidate) /\ Plain(invalidate)
<1> DEFINE body == Reads("store") \o Writes("believe")
<1>1. "store" \in Data /\ "storeMutex" \in Mutexes /\ GuardOf("store") = "storeMutex"
  BY DataNames DEF Mutexes, Lists
<1>2. "believe" \in Data /\ "believe" \in Data \ Lists
  BY DataNames
<1>3. body \in Seq(Instruction) /\ KeepsLocked(body, "storeMutex")
  <2>1. Reads("store") \in Seq(Instruction) /\ Writes("believe") \in Seq(Instruction)
    BY <1>1, <1>2, AtomTypes
  <2>2. KeepsLocked(Reads("store"), "storeMutex") /\ KeepsLocked(Writes("believe"), "storeMutex")
    BY <1>1, <1>2, LockedAtoms
  <2>3. QED BY <2>1, <2>2, LockedJoined
<1>4. ASSUME NEW x \in Lists, x # "store" PROVE Careful(body, x)
  <2>1. Careful(Reads("store"), x)
    BY <1>4 DEF Careful, Needs, Accesses, Unlocks, Reads
  <2>2. Careful(Writes("believe"), x)
    BY <1>2, SoundAtoms DEF Sound
  <2>3. QED BY <1>1, <1>2, <2>1, <2>2, AtomTypes, CarefulJoined
<1>5. \A x \in Lists : x # "store" => GuardOf(x) # "storeMutex"
  BY DEF Lists, GuardOf
<1>6. Sound(Guarded("storeMutex", body))
  BY <1>1, <1>3, <1>4, <1>5, SoundSection
<1>7. Plain(Guarded("storeMutex", body))
  BY <1>1, <1>2, PlainAtoms, PlainJoined, PlainSection
<1>8. QED BY <1>6, <1>7 DEF invalidate

\* An append may follow on what ends with the search for the same robot.
LEMMA PairedSearch ==
  ASSUME NEW c \in Seq(Instruction), Paired(c), NEW q \in Robots
  PROVE  /\ c \o Scan(q) \o AppendProposal(q) \in Seq(Instruction)
         /\ Paired(c \o Scan(q) \o AppendProposal(q))
<1> DEFINE d == c \o Scan(q)
           e == d \o AppendProposal(q)
<1>1. Scan(q) \in Seq(Instruction) /\ AppendProposal(q) \in Seq(Instruction)
  BY AtomTypes
<1>2. /\ Len(Scan(q)) = 1 /\ Len(AppendProposal(q)) = 1
      /\ Scan(q)[1] = [op |-> "read", on |-> "proposals", robot |-> q]
      /\ AppendProposal(q)[1] = [op |-> "write", on |-> "proposals", robot |-> q]
  BY DEF Scan, AppendProposal
<1>3. Paired(Scan(q))
  BY <1>2 DEF Paired, IsAppend
<1>4. /\ d \in Seq(Instruction) /\ Paired(d) /\ Len(d) \in Nat /\ Len(d) >= 1
      /\ d[Len(d)] = Scan(q)[1]
  <2>1. d \in Seq(Instruction) /\ Len(d) = Len(c) + 1 /\ Len(c) \in Nat
    BY <1>1, <1>2, Joined
  <2>2. \A i \in 1..Len(Scan(q)) : d[Len(c) + i] = Scan(q)[i]
    BY <1>1, Joined
  <2>3. d[Len(c) + 1] = Scan(q)[1]
    <3> HIDE DEF d
    <3>1. 1 \in 1..Len(Scan(q))
      BY <1>2
    <3>2. QED BY <2>2, <3>1
  <2>4. Paired(d)
    BY <1>1, <1>3, PairedJoined
  <2>5. QED BY <2>1, <2>3, <2>4
<1> HIDE DEF d
<1>5. /\ e \in Seq(Instruction) /\ Len(e) = Len(d) + 1
      /\ \A i \in 1..Len(d) : e[i] = d[i]
      /\ e[Len(d) + 1] = AppendProposal(q)[1]
  <2>1. /\ e \in Seq(Instruction) /\ Len(e) = Len(d) + Len(AppendProposal(q))
        /\ \A i \in 1..Len(d) : e[i] = d[i]
        /\ \A i \in 1..Len(AppendProposal(q)) : e[Len(d) + i] = AppendProposal(q)[i]
    BY <1>1, <1>4, Joined
  <2>2. QED BY <1>2, <2>1
<1> HIDE DEF e
<1>6. ASSUME NEW i \in 1..Len(e), IsAppend(e[i]) PROVE Follows(e, i)
  <2>1. CASE i = Len(d) + 1
    <3>1. i - 1 = Len(d) /\ i > 1 /\ e[i - 1] = Scan(q)[1]
      BY <1>4, <1>5, <2>1
    <3>2. QED BY <1>2, <1>5, <2>1, <3>1 DEF Follows, IsScan
  <2>2. CASE i \in 1..Len(d)
    <3>1. Follows(d, i)
      BY <1>4, <1>5, <1>6, <2>2 DEF Paired
    <3>2. e[i - 1] = d[i - 1] /\ e[i] = d[i]
      <4>1. i \in 1..Len(e) /\ Len(d) \in Nat /\ i - 1 \in 1..Len(d)
        BY <1>4, <1>6, <2>2, <3>1 DEF Follows
      <4>2. QED BY <1>5, <2>2, <4>1
    <3>3. QED BY <3>1, <3>2 DEF Follows
  <2>3. QED BY <1>4, <1>5, <2>1, <2>2
<1>7. QED BY <1>5, <1>6 DEF Paired, e, d

\* doVariableUpdate: the search for the robot stands right in front of the append.
LEMMA doVariableUpdateCall ==
  ASSUME NEW q \in Robots
  PROVE  /\ Sound(doVariableUpdate(q)) /\ Paired(doVariableUpdate(q))
         /\ KeepsLocked(doVariableUpdate(q), "jobMutex")
<1>1. "proposals" \in Data /\ "proposals" \in Data \ Lists
      /\ "believe" \in Data /\ "believe" \in Data \ Lists
  BY DataNames
<1>2. Sound(doVariableUpdate(q))
  BY <1>1, SoundAtoms, getVariableCall, SoundJoined DEF doVariableUpdate
<1>3. KeepsLocked(doVariableUpdate(q), "jobMutex")
  BY <1>1, LockedAtoms, getVariableCall, LockedJoined DEF doVariableUpdate
<1>4. Paired(doVariableUpdate(q))
  <2> DEFINE c == getVariable \o Scan(q) \o AppendProposal(q)
  <2>1. getVariable \in Seq(Instruction) /\ Paired(getVariable)
    BY getVariableCall, PlainPaired
  <2>2. c \in Seq(Instruction) /\ Paired(c)
    BY <2>1, PairedSearch
  <2>3. /\ Reads("proposals") \in Seq(Instruction) /\ Paired(Reads("proposals"))
        /\ Writes("believe") \in Seq(Instruction) /\ Paired(Writes("believe"))
    BY <1>1, PlainAtoms, PlainPaired
  <2> HIDE DEF c
  <2>4. c \o Reads("proposals") \in Seq(Instruction) /\ Paired(c \o Reads("proposals"))
    BY <2>2, <2>3, Joined, PairedJoined
  <2>5. Paired((c \o Reads("proposals")) \o Writes("believe"))
    BY <2>3, <2>4, PairedJoined
  <2>6. QED BY <2>5 DEF doVariableUpdate, c
<1>5. QED BY <1>2, <1>3, <1>4

\* What the constructor of an acknowledge, short ack or notification job does.
LEMMA NowUpdate ==
  ASSUME NEW safe \in BOOLEAN, NEW q \in Robots
  PROVE  /\ Sound(Now(safe, doVariableUpdate(q) \o tick))
         /\ Sound(Now(safe, doVariableUpdate(q)))
         /\ safe => /\ Plain(Now(safe, doVariableUpdate(q) \o tick))
                    /\ Plain(Now(safe, doVariableUpdate(q)))
<1>1. Sound(doVariableUpdate(q) \o tick)
  BY doVariableUpdateCall, ClockCalls, SoundJoined
<1>2. QED BY <1>1, doVariableUpdateCall, SoundAtoms, PlainAtoms DEF Now

LEMMA HandlerCalls ==
  ASSUME NEW safe \in BOOLEAN, NEW q \in Robots
  PROVE  /\ Sound(handleCaceCommand(safe, q))
         /\ Sound(handleCaceAcknowledge(safe, q))
         /\ safe => Plain(handleCaceCommand(safe, q)) /\ Plain(handleCaceAcknowledge(safe, q))
<1> DEFINE update == Now(safe, doVariableUpdate(q))
           ticked == Now(safe, doVariableUpdate(q) \o tick)
<1>1. "activeRobots" \in Data /\ "activeRobots" \in Data \ Lists /\ "ackMutex" \in Mutexes
  BY DataNames DEF Mutexes
<1>2. Sound(update) /\ Sound(ticked) /\ (safe => Plain(update) /\ Plain(ticked))
  BY NowUpdate
<1> HIDE DEF update, ticked
<1>3. Sound(updateLamportTime \o Reads("activeRobots") \o update \o appendJob)
  BY <1>1, <1>2, ClockCalls, SoundAtoms, appendJobCall, SoundJoined
<1>4. Sound(updateLamportTime \o Guarded("ackMutex", ticked \o appendJob))
  BY <1>2, ClockCalls, appendJobCall, SoundJoined, SoundOtherSection
<1>5. safe => Plain(updateLamportTime \o Reads("activeRobots") \o update \o appendJob)
  BY <1>1, <1>2, ClockCalls, PlainAtoms, appendJobCall, PlainJoined
<1>6. safe => Plain(updateLamportTime \o Guarded("ackMutex", ticked \o appendJob))
  BY <1>1, <1>2, ClockCalls, appendJobCall, PlainJoined, PlainSection
<1>7. QED BY <1>3, <1>4, <1>5, <1>6 DEF handleCaceCommand, handleCaceAcknowledge, update, ticked

\* The list of notifications is only touched in a section of its own.
LEMMA notifiedSection ==
  /\ Sound(Guarded("notMutex", Writes("believeNotifications")))
  /\ Plain(Guarded("notMutex", Writes("believeNotifications")))
<1> DEFINE body == Writes("believeNotifications")
<1>1. "believeNotifications" \in Data /\ "notMutex" \in Mutexes
      /\ GuardOf("believeNotifications") = "notMutex"
  BY DataNames DEF Mutexes, Lists
<1>2. body \in Seq(Instruction) /\ KeepsLocked(body, "notMutex")
  BY <1>1, AtomTypes, LockedAtoms
<1>3. \A x \in Lists : x # "believeNotifications" => Careful(body, x)
  BY DEF Careful, Needs, Accesses, Unlocks, Writes
<1>4. \A x \in Lists : x # "believeNotifications" => GuardOf(x) # "notMutex"
  BY DEF Lists, GuardOf
<1>5. Sound(Guarded("notMutex", body))
  BY <1>1, <1>2, <1>3, <1>4, SoundSection
<1>6. Plain(Guarded("notMutex", body))
  BY <1>1, PlainAtoms, PlainSection
<1>7. QED BY <1>5, <1>6

LEMMA ListHandlerCalls ==
  /\ Sound(handleCaceShortAck) /\ Plain(handleCaceShortAck)
  /\ Sound(handleCaceBelieveNotification) /\ Plain(handleCaceBelieveNotification)
<1>1. "shortAcks" \in Data /\ "shortAcks" \in Data \ Lists /\ "sackMutex" \in Mutexes
  BY DataNames DEF Mutexes
<1>2. Sound(handleCaceShortAck)
  BY <1>1, SoundAtoms, SoundOtherSection, ClockCalls, SoundJoined DEF handleCaceShortAck
<1>3. Plain(handleCaceShortAck)
  BY <1>1, PlainAtoms, PlainSection, ClockCalls, PlainJoined DEF handleCaceShortAck
<1>4. QED BY <1>2, <1>3, notifiedSection, ClockCalls, SoundJoined, PlainJoined
        DEF handleCaceBelieveNotification

\* process() of a job keeps the mutex of the list locked.
LEMMA ProcessCall ==
  ASSUME NEW safe \in BOOLEAN, NEW job \in Jobs, NEW q \in Robots
  PROVE  /\ Sound(Process(safe, job, q)) /\ Paired(Process(safe, job, q))
         /\ KeepsLocked(Process(safe, job, q), "jobMutex")
<1> DEFINE update == IF safe THEN doVariableUpdate(q) \o tick ELSE <<>>
           struck == Guarded("wackMutex", Writes("shortAcks"))
           Fits(c) == Sound(c) /\ Paired(c) /\ KeepsLocked(c, "jobMutex")
<1>1. "proposals" \in Data /\ "proposals" \in Data \ Lists
      /\ "shortAcks" \in Data /\ "shortAcks" \in Data \ Lists
      /\ "wackMutex" \in Mutexes /\ "wackMutex" # "jobMutex"
  BY DataNames DEF Mutexes
<1>2. Fits(<<>>) /\ Fits(Reads("proposals"))
  BY <1>1, SoundAtoms, PlainAtoms, PlainPaired, LockedAtoms
<1>3. \A a, b : Fits(a) /\ Fits(b) => Fits(a \o b)
  BY SoundJoined, PairedJoined, LockedJoined DEF Sound
<1>4. Fits(tick)
  BY ClockCalls, PlainPaired
<1>5. Fits(doVariableUpdate(q))
  BY doVariableUpdateCall
<1>6. Fits(struck)
  <2>1. Sound(Writes("shortAcks")) /\ Plain(Writes("shortAcks"))
        /\ KeepsLocked(Writes("shortAcks"), "jobMutex")
    BY <1>1, SoundAtoms, PlainAtoms, LockedAtoms
  <2>2. QED BY <1>1, <2>1, SoundOtherSection, PlainSection, PlainPaired, LockedSection
<1> HIDE DEF Fits, struck
<1>7. Fits(update)
  BY <1>2, <1>3, <1>4, <1>5
<1> HIDE DEF update
<1>8. Process(safe, job, q) \in {<<>>, Reads("proposals"), update, update \o struck}
  BY DEF Process, Jobs, update, struck
<1>9. Fits(Process(safe, job, q))
  BY <1>2, <1>3, <1>6, <1>7, <1>8
<1>10. QED BY <1>9 DEF Fits

\* processJobs goes through the list under its mutex, and calls process() there.
LEMMA processAndInvalidateCall ==
  ASSUME NEW safe \in BOOLEAN, NEW job \in Jobs, NEW q \in Robots
  PROVE  /\ Sound(processAndInvalidate(safe, job, q))
         /\ Paired(processAndInvalidate(safe, job, q))
<1> DEFINE process == Process(safe, job, q)
           body == Writes("jobs") \o process
           section == Guarded("jobMutex", body)
<1>1. "jobs" \in Data /\ "jobMutex" \in Mutexes /\ GuardOf("jobs") = "jobMutex"
  BY DataNames DEF Mutexes, Lists
<1>2. Sound(process) /\ Paired(process) /\ KeepsLocked(process, "jobMutex")
  BY ProcessCall
<1> HIDE DEF process
<1>3. Writes("jobs") \in Seq(Instruction) /\ KeepsLocked(Writes("jobs"), "jobMutex")
      /\ Plain(Writes("jobs"))
  BY <1>1, AtomTypes, LockedAtoms, PlainAtoms
<1>4. process \in Seq(Instruction)
  BY <1>2 DEF Sound
<1>5. body \in Seq(Instruction) /\ KeepsLocked(body, "jobMutex") /\ Paired(body)
  BY <1>2, <1>3, <1>4, Joined, LockedJoined, PairedJoined, PlainPaired
<1>6. ASSUME NEW x \in Lists, x # "jobs" PROVE Careful(body, x)
  <2>1. Careful(Writes("jobs"), x)
    BY <1>6 DEF Careful, Needs, Accesses, Unlocks, Writes
  <2>2. QED BY <1>2, <1>3, <1>4, <2>1, CarefulJoined DEF Sound
<1>7. \A x \in Lists : x # "jobs" => GuardOf(x) # "jobMutex"
  BY DEF Lists, GuardOf
<1> HIDE DEF body
<1>8. Sound(section)
  BY <1>1, <1>5, <1>6, <1>7, SoundSection
<1>9. Paired(section)
  <2>1. /\ Lock("jobMutex") \in Seq(Instruction) /\ Paired(Lock("jobMutex"))
        /\ Unlock("jobMutex") \in Seq(Instruction) /\ Paired(Unlock("jobMutex"))
    BY <1>1, PlainAtoms, PlainPaired
  <2>2. Lock("jobMutex") \o body \in Seq(Instruction) /\ Paired(Lock("jobMutex") \o body)
    BY <1>5, <2>1, Joined, PairedJoined
  <2>3. Paired((Lock("jobMutex") \o body) \o Unlock("jobMutex"))
    BY <2>1, <2>2, PairedJoined
  <2>4. QED BY <2>3 DEF Guarded
<1> HIDE DEF section
<1>10. Sound(section \o invalidate)
  BY <1>8, invalidateCall, SoundJoined
<1>11. Paired(section \o invalidate)
  BY <1>8, <1>9, invalidateCall, PlainPaired, PairedJoined DEF Sound
<1>12. QED BY <1>10, <1>11 DEF processAndInvalidate, section, body, process

LEMMA stepCall ==
  ASSUME NEW safe \in BOOLEAN, NEW job \in Jobs, NEW q \in Robots, NEW notified \in BOOLEAN
  PROVE  /\ Sound(step(safe, job, q, notified))
         /\ safe => Paired(step(safe, job, q, notified))
<1> DEFINE take == IF notified THEN takeNotification(safe, q) ELSE <<>>
           first == Guarded("notMutex", Writes("believeNotifications"))
           last == processAndInvalidate(safe, job, q)
<1>1. Sound(takeNotification(safe, q)) /\ (safe => Plain(takeNotification(safe, q)))
  <2> DEFINE ticked == Now(safe, doVariableUpdate(q) \o tick)
  <2>1. Sound(ticked) /\ (safe => Plain(ticked))
    BY NowUpdate
  <2> HIDE DEF ticked
  <2>2. Sound(ticked \o appendJob) /\ (safe => Plain(ticked \o appendJob))
    BY <2>1, appendJobCall, SoundJoined, PlainJoined
  <2>3. QED BY <2>2 DEF takeNotification, ticked
<1>2. Sound(take) /\ (safe => Plain(take))
  BY <1>1, SoundAtoms, PlainAtoms
<1>3. Sound(first) /\ Plain(first)
  BY notifiedSection
<1>4. Sound(last) /\ Paired(last)
  BY processAndInvalidateCall
<1> HIDE DEF take, first, last
<1>5. Sound(first \o take) /\ Sound((first \o take) \o last)
  BY <1>2, <1>3, <1>4, SoundJoined
<1>6. ASSUME safe PROVE Paired((first \o take) \o last)
  <2>1. first \o take \in Seq(Instruction) /\ Paired(first \o take)
    BY <1>2, <1>3, <1>6, PlainJoined, PlainPaired
  <2>2. last \in Seq(Instruction)
    BY <1>4 DEF Sound
  <2>3. QED BY <1>4, <2>1, <2>2, PairedJoined
<1>7. QED BY <1>5, <1>6 DEF step, take, first, last

LEMMA UserCalls ==
  /\ Sound(distributeValue) /\ Plain(distributeValue)
  /\ Sound(agentEngangementAndUpdate) /\ Plain(agentEngangementAndUpdate)
<1>1. /\ "believe" \in Data /\ "believe" \in Data \ Lists
      /\ "activeRobots" \in Data /\ "activeRobots" \in Data \ Lists
      /\ "proposals" \in Data /\ "proposals" \in Data \ Lists
      /\ "storeMutex" \in Mutexes /\ GuardOf("store") = "storeMutex"
  BY DataNames DEF Mutexes
<1>2. Sound(distributeValue)
  BY <1>1, SoundAtoms, getVariableCall, ClockCalls, appendJobCall, SoundJoined DEF distributeValue
<1>3. Plain(distributeValue)
  BY <1>1, PlainAtoms, getVariableCall, ClockCalls, appendJobCall, PlainJoined DEF distributeValue
<1> DEFINE body == Reads("proposals") \o tick \o appendJob
<1>4. Sound(body) /\ Plain(body)
  BY <1>1, SoundAtoms, PlainAtoms, ClockCalls, appendJobCall, SoundJoined, PlainJoined
<1>5. KeepsLocked(body, "storeMutex")
  BY <1>1, LockedAtoms, ClockCalls, appendJobCall, LockedJoined
<1> HIDE DEF body
<1>6. Sound(Guarded("storeMutex", body))
  <2>1. \A x \in Lists : IF "storeMutex" = GuardOf(x) THEN KeepsLocked(body, "storeMutex")
                          ELSE Careful(body, x)
    BY <1>4, <1>5 DEF Sound
  <2>2. body \in Seq(Instruction)
    BY <1>4 DEF Sound
  <2>3. QED BY <1>1, <2>1, <2>2, SoundSection
<1>7. Plain(Guarded("storeMutex", body))
  BY <1>1, <1>4, PlainSection
<1>8. /\ Sound(Writes("activeRobots") \o Guarded("storeMutex", body))
      /\ Plain(Writes("activeRobots") \o Guarded("storeMutex", body))
  BY <1>1, <1>6, <1>7, SoundAtoms, PlainAtoms, SoundJoined, PlainJoined
<1>9. QED BY <1>2, <1>3, <1>8 DEF agentEngangementAndUpdate, body

-----------------------------------------------------------------------------
(***************************************************************************)
(* The execution.                                                          *)
(***************************************************************************)
\* Every call starts careful, and in safeStepMode only that of the timer looks.
Fresh(safe, t, c) ==
  /\ Sound(c)
  /\ safe => IF t = "timer" THEN Paired(c) ELSE Plain(c)

LEMMA EnterFresh ==
  ASSUME TypeOK, EnterHandler \/ EnterStep \/ EnterCall
  PROVE  \E t \in Threads : \E c : Enter(t, c) /\ Fresh(safeStepMode, t, c)
<1> DEFINE safe == safeStepMode
<1>1. safe \in BOOLEAN
  BY DEF TypeOK
<1>2. "command" \in Threads /\ "acknowledge" \in Threads /\ "shortAck" \in Threads
      /\ "notification" \in Threads /\ "timer" \in Threads /\ "user" \in Threads
  BY DEF Threads
<1>3. CASE EnterHandler
  <2>1. CASE \E q \in Robots : Enter("command", handleCaceCommand(safe, q))
    BY <1>1, <1>2, <2>1, HandlerCalls DEF Fresh
  <2>2. CASE \E q \in Robots : Enter("acknowledge", handleCaceAcknowledge(safe, q))
    BY <1>1, <1>2, <2>2, HandlerCalls DEF Fresh
  <2>3. CASE Enter("shortAck", handleCaceShortAck)
    BY <1>2, <2>3, ListHandlerCalls DEF Fresh
  <2>4. CASE Enter("notification", handleCaceBelieveNotification)
    BY <1>2, <2>4, ListHandlerCalls DEF Fresh
  <2>5. QED BY <1>3, <2>1, <2>2, <2>3, <2>4 DEF EnterHandler
<1>4. CASE EnterStep
  <2>1. PICK job \in Jobs, q \in Robots, notified \in BOOLEAN :
          Enter("timer", step(safe, job, q, notified))
    BY <1>4 DEF EnterStep
  <2>2. QED BY <1>1, <1>2, <2>1, stepCall DEF Fresh
<1>5. CASE EnterCall
  BY <1>2, <1>5, UserCalls DEF EnterCall, Fresh
<1>6. QED BY <1>3, <1>4, <1>5

\* What an instruction leaves of the calls.
LEMMA RunAdvances ==
  ASSUME TypeOK, NEW t \in Threads, Run(t)
  PROVE  /\ code[t] \in Seq(Instruction) /\ Len(code[t]) \in Nat /\ Len(code[t]) >= 1
         /\ Head(code[t]) = code[t][1] /\ code[t][1] \in Instruction
         /\ code' \in [Threads -> Seq(Instruction)]
         /\ Len(code'[t]) = Len(code[t]) - 1
         /\ \A i \in 1..Len(code'[t]) : code'[t][i] = code[t][i + 1]
         /\ \A u \in Threads \ {t} : code'[u] = code[u]
         /\ UNCHANGED <<safeStepMode, calls, engaged>>
<1>1. code[t] # <<>> /\ code' = [code EXCEPT ![t] = Tail(code[t])]
  BY DEF Run, Advance, DoLock, DoUnlock, DoRead, DoWrite, At, TypeOK
<1>2. code \in [Threads -> Seq(Instruction)] /\ code[t] \in Seq(Instruction)
  BY DEF TypeOK
<1>3. /\ Tail(code[t]) \in Seq(Instruction) /\ Len(Tail(code[t])) = Len(code[t]) - 1
      /\ \A i \in 1..Len(Tail(code[t])) : Tail(code[t])[i] = code[t][i + 1]
      /\ Head(code[t]) = code[t][1] /\ code[t][1] \in Instruction
      /\ Len(code[t]) \in Nat /\ Len(code[t]) >= 1
  BY <1>1, <1>2, HeadTailProperties
<1>4. code'[t] = Tail(code[t]) /\ \A u \in Threads \ {t} : code'[u] = code[u]
  BY <1>1, <1>2
<1>5. code' \in [Threads -> Seq(Instruction)]
  BY <1>1, <1>2, <1>3
<1>6. QED BY <1>2, <1>3, <1>4, <1>5 DEF Run

\* A thread that is in no call takes up a new one.
LEMMA EnterBegins ==
  ASSUME TypeOK, NEW t \in Threads, NEW c, Enter(t, c), c \in Seq(Instruction)
  PROVE  /\ code[t] = <<>> /\ code' \in [Threads -> Seq(Instruction)] /\ code'[t] = c
         /\ \A u \in Threads \ {t} : code'[u] = code[u]
         /\ calls' \in 0..MaxCalls
         /\ UNCHANGED <<safeStepMode, holder, proposals, found>>
  BY CallsAssumption DEF Enter, TypeOK

LEMMA RunType ==
  ASSUME TypeOK, NEW t \in Threads, Run(t)
  PROVE  TypeOK'
<1> DEFINE i == Head(code[t])
<1>1. i \in Instruction /\ code' \in [Threads -> Seq(Instruction)]
      /\ UNCHANGED <<safeStepMode, calls, engaged>>
  BY RunAdvances
<1>2. /\ holder \in [Mutexes -> Threads \cup {Nobody}] /\ proposals \in Seq(Robots)
      /\ found \in [Threads -> BOOLEAN]
  BY DEF TypeOK
<1>3. /\ holder' \in [Mutexes -> Threads \cup {Nobody}] /\ proposals' \in Seq(Robots)
      /\ found' \in [Threads -> BOOLEAN]
  <2>1. CASE DoLock(t)
    BY <1>2, <2>1 DEF DoLock
  <2>2. CASE DoUnlock(t)
    BY <1>2, <2>2 DEF DoUnlock
  <2>3. CASE DoRead(t)
    <3>1. \A q : Listed(q) \in BOOLEAN
      BY DEF Listed
    <3>2. QED BY <1>2, <2>3, <3>1 DEF DoRead
  <2>4. CASE DoWrite(t)
    <3>1. "robot" \in DOMAIN i => i.robot \in Robots
      BY <1>1 DEF Instruction
    <3>2. QED BY <1>2, <2>4, <3>1 DEF DoWrite
  <2>5. QED BY <2>1, <2>2, <2>3, <2>4 DEF Run
<1>4. QED BY <1>1, <1>3 DEF TypeOK

\* The threads, their calls and the mutexes are what they seem.
THEOREM TypeCorrect == Spec => []TypeOK
<1>1. Init => TypeOK
  <2> SUFFICES ASSUME Init PROVE TypeOK
    OBVIOUS
  <2>1. code \in [Threads -> Seq(Instruction)] /\ proposals \in Seq(Robots)
    BY DEF Init
  <2>2. holder \in [Mutexes -> Threads \cup {Nobody}] /\ found \in [Threads -> BOOLEAN]
    BY DEF Init
  <2>3. calls \in 0..MaxCalls
    BY CallsAssumption DEF Init
  <2>4. QED BY <2>1, <2>2, <2>3 DEF Init, TypeOK
<1>2. TypeOK /\ [Next]_vars => TypeOK'
  <2> SUFFICES ASSUME TypeOK, [Next]_vars PROVE TypeOK'
    OBVIOUS
  <2>1. CASE EnterHandler \/ EnterStep \/ EnterCall
    <3>1. PICK t \in Threads : \E c : Enter(t, c) /\ Fresh(safeStepMode, t, c)
      BY <2>1, EnterFresh
    <3>1c. PICK c : Enter(t, c) /\ Fresh(safeStepMode, t, c)
      BY <3>1
    <3>2. c \in Seq(Instruction)
      BY <3>1c DEF Fresh, Sound
    <3>3. engaged' \in BOOLEAN
      BY <2>1 DEF EnterHandler, EnterStep, EnterCall, TypeOK
    <3>4. QED BY <3>1c, <3>2, <3>3, EnterBegins DEF TypeOK
  <2>2. ASSUME NEW t \in Threads, Run(t) PROVE TypeOK'
    BY <2>2, RunType
  <2>3. CASE UNCHANGED vars
    BY <2>3 DEF TypeOK, vars
  <2>4. QED BY <2>1, <2>2, <2>3 DEF Next
<1>3. QED BY <1>1, <1>2, PTL DEF Spec

-----------------------------------------------------------------------------
\* Only the thread that unlocks or locks m changes its holder: a lock makes it the
\* thread's, and nobody else's; an unlock takes it from the thread that held it.
LEMMA MutexStep ==
  ASSUME TypeOK, AllCareful, NEW x \in Lists, NEW t \in Threads, Run(t)
  PROVE  LET m == GuardOf(x) IN
         /\ Locks(code[t][1], m) => holder[m] = Nobody /\ holder'[m] = t
         /\ Unlocks(code[t][1], m) => holder[m] = t /\ holder'[m] = Nobody
         /\ ~Locks(code[t][1], m) /\ ~Unlocks(code[t][1], m) => holder'[m] = holder[m]
<1> DEFINE m == GuardOf(x)
           i == code[t][1]
<1>1. m \in Mutexes /\ holder \in [Mutexes -> Threads \cup {Nobody}]
  BY DataNames DEF TypeOK, Mutexes
<1>2. Head(code[t]) = i /\ Len(code[t]) >= 1 /\ Len(code[t]) \in Nat
  BY RunAdvances
<1>3. Unlocks(i, m) => holder[m] = t
  <2> SUFFICES ASSUME Unlocks(i, m) PROVE holder[m] = t
    OBVIOUS
  <2>1. Needs(i, x) /\ 1 \in 1..Len(code[t])
    BY <1>2 DEF Needs
  <2>2. Holding(t, 1, m) \/ Behind(code[t], 1, m)
    BY <2>1 DEF AllCareful, ThreadCareful
  <2>3. ~Behind(code[t], 1, m)
    BY DEF Behind
  <2>4. QED BY <2>2, <2>3 DEF Holding
<1> HIDE DEF m
<1>4. \/ i.op = "lock" /\ holder[i.on] = Nobody /\ holder' = [holder EXCEPT ![i.on] = t]
      \/ i.op = "unlock" /\ holder' = [holder EXCEPT ![i.on] = Nobody]
      \/ i.op \notin {"lock", "unlock"} /\ holder' = holder
  BY <1>2 DEF Run, DoLock, DoUnlock, DoRead, DoWrite, At
<1>5. QED BY <1>1, <1>3, <1>4 DEF Locks, Unlocks, m

LEMMA CarefulStep ==
  ASSUME TypeOK, AllCareful, NEW t \in Threads, Run(t), TypeOK'
  PROVE  AllCareful'
<1> SUFFICES ASSUME NEW u \in Threads, NEW x \in Lists, NEW i \in 1..Len(code'[u]),
                    Needs(code'[u][i], x)
             PROVE  Holding(u, i, GuardOf(x))' \/ Behind(code'[u], i, GuardOf(x))
  BY DEF AllCareful, ThreadCareful
<1> DEFINE m == GuardOf(x)
<1>1. /\ Locks(code[t][1], m) => holder[m] = Nobody /\ holder'[m] = t
      /\ Unlocks(code[t][1], m) => holder[m] = t /\ holder'[m] = Nobody
      /\ ~Locks(code[t][1], m) /\ ~Unlocks(code[t][1], m) => holder'[m] = holder[m]
  BY MutexStep
<1>2. Nobody \notin Threads
  BY DEF Nobody, Threads
<1> HIDE DEF m
<1>3. CASE u # t
  <2>1. code'[u] = code[u]
    BY <1>3, RunAdvances
  <2>2. Holding(u, i, m) \/ Behind(code[u], i, m)
    BY <2>1 DEF AllCareful, ThreadCareful, m
  <2>3. CASE Holding(u, i, m)
    <3>1. holder'[m] = u
      BY <1>1, <1>2, <1>3, <2>3 DEF Holding
    <3>2. QED BY <2>1, <2>3, <3>1 DEF Holding, m
  <2>4. CASE Behind(code[u], i, m)
    BY <2>1, <2>4 DEF m
  <2>5. QED BY <2>2, <2>3, <2>4
<1>4. CASE u = t
  <2> DEFINE c == code[t]
             d == code'[t]
  <2>1. /\ Len(c) \in Nat /\ Len(d) = Len(c) - 1
        /\ \A k \in 1..Len(d) : d[k] = c[k + 1]
    BY RunAdvances
  <2> HIDE DEF c, d
  <2>2. i \in 1..Len(d) /\ i + 1 \in 1..Len(c) /\ d[i] = c[i + 1]
    BY <1>4, <2>1 DEF d
  <2>3. Holding(t, i + 1, m) \/ Behind(c, i + 1, m)
    BY <1>4, <2>2 DEF AllCareful, ThreadCareful, m, c, d
  <2>4. ASSUME holder'[m] = t, \A k \in 2..i : ~Unlocks(c[k], m) PROVE Holding(t, i, m)'
    <3>1. \A k \in 1..(i - 1) : ~Unlocks(d[k], m)
      <4> SUFFICES ASSUME NEW k \in 1..(i - 1) PROVE ~Unlocks(d[k], m)
        OBVIOUS
      <4>1. k \in 1..Len(d) /\ k + 1 \in 2..i
        BY <2>2
      <4>2. QED BY <2>1, <2>4, <4>1
    <3>2. QED BY <2>4, <3>1 DEF Holding, d, m
  <2>5. CASE Holding(t, i + 1, m)
    <3>1. holder[m] = t /\ \A k \in 1..i : ~Unlocks(c[k], m)
      BY <2>2, <2>5 DEF Holding, c
    <3>2. ~Unlocks(c[1], m) /\ ~Locks(c[1], m)
      BY <1>1, <1>2, <2>2, <3>1 DEF c
    <3>3. holder'[m] = t
      BY <1>1, <3>1, <3>2 DEF c
    <3>4. QED BY <1>4, <2>4, <3>1, <3>3 DEF m
  <2>6. CASE Behind(c, i + 1, m)
    <3>1. PICK j \in 1..i : Locks(c[j], m) /\ \A k \in (j + 1)..i : ~Unlocks(c[k], m)
      <4>1. (i + 1) - 1 = i
        BY <2>2
      <4>2. QED BY <2>6, <4>1, Zenon DEF Behind
    <3>2. CASE j = 1
      <4>1. holder'[m] = t
        BY <1>1, <3>1, <3>2 DEF c
      <4>2. QED BY <1>4, <2>4, <3>1, <3>2, <4>1 DEF m
    <3>3. CASE j # 1
      <4>1. j - 1 \in 1..(i - 1) /\ j - 1 \in 1..Len(d) /\ d[j - 1] = c[j]
        BY <2>1, <2>2, <3>1, <3>3
      <4>2. ASSUME NEW k \in j..(i - 1) PROVE ~Unlocks(d[k], m)
        <5>1. k \in 1..Len(d) /\ k + 1 \in (j + 1)..i
          BY <2>2, <3>1
        <5>2. QED BY <2>1, <3>1, <5>1
      <4>3. Behind(d, i, m)
        <5>1. (j - 1) + 1 = j
          BY <3>1
        <5>2. QED BY <3>1, <4>1, <4>2, <5>1 DEF Behind
      <4>4. QED BY <1>4, <4>3 DEF d, m
    <3>4. QED BY <3>2, <3>3
  <2>7. QED BY <2>3, <2>5, <2>6
<1>5. QED BY <1>3, <1>4

\* The inductive invariant: every access a thread has still to make stands behind a
\* lock of its mutex, one the thread has done already or one it has still to do.
THEOREM CarefulCorrect == Spec => []AllCareful
<1>1. Init => AllCareful
  BY DEF Init, AllCareful, ThreadCareful
<1>2. TypeOK /\ TypeOK' /\ AllCareful /\ [Next]_vars => AllCareful'
  <2> SUFFICES ASSUME TypeOK, TypeOK', AllCareful, [Next]_vars PROVE AllCareful'
    OBVIOUS
  <2>1. CASE EnterHandler \/ EnterStep \/ EnterCall
    <3>1. PICK t \in Threads : \E c : Enter(t, c) /\ Fresh(safeStepMode, t, c)
      BY <2>1, EnterFresh
    <3>1c. PICK c : Enter(t, c) /\ Fresh(safeStepMode, t, c)
      BY <3>1
    <3>2. c \in Seq(Instruction) /\ \A x \in Lists : Careful(c, x)
      BY <3>1c DEF Fresh, Sound
    <3>3. /\ code'[t] = c /\ holder' = holder
          /\ \A u \in Threads \ {t} : code'[u] = code[u]
      BY <3>1c, <3>2, EnterBegins
    <3>4. ASSUME NEW u \in Threads, NEW x \in Lists PROVE ThreadCareful(u, x)'
      <4>1. CASE u = t
        BY <3>2, <3>3, <4>1 DEF ThreadCareful, Careful
      <4>2. CASE u # t
        BY <3>3, <4>2 DEF AllCareful, ThreadCareful, Holding
      <4>3. QED BY <4>1, <4>2
    <3>5. QED BY <3>4 DEF AllCareful
  <2>2. ASSUME NEW t \in Threads, Run(t) PROVE AllCareful'
    BY <2>2, CarefulStep
  <2>3. CASE UNCHANGED vars
    BY <2>3 DEF AllCareful, ThreadCareful, Holding, vars
  <2>4. QED BY <2>1, <2>2, <2>3 DEF Next
<1>3. QED BY <1>1, <1>2, TypeCorrect, PTL DEF Spec

\* CommunicationWorker, CVariableStore, getCaceBelieveNotifications: two threads that
\* are about to touch one list would both hold its mutex.
THEOREM ListsGuarded == Spec => []ListsAreGuarded
<1>1. TypeOK /\ AllCareful => ListsAreGuarded
  <2> SUFFICES ASSUME TypeOK, AllCareful, NEW x \in Lists, NEW t \in Threads, NEW u \in Threads,
                      t # u, At(t, "write"), Head(code[t]).on = x,
                      At(u, "write") \/ At(u, "read"), Head(code[u]).on = x
               PROVE  FALSE
    BY DEF ListsAreGuarded, Race, Lists
  <2>1. ASSUME NEW s \in Threads, At(s, "write") \/ At(s, "read"), Head(code[s]).on = x
        PROVE  holder[GuardOf(x)] = s
    <3>1. code[s] \in Seq(Instruction) /\ code[s] # <<>>
      BY <2>1 DEF TypeOK, At
    <3>2. 1 \in 1..Len(code[s]) /\ Head(code[s]) = code[s][1]
      BY <3>1, HeadTailProperties
    <3>3. Needs(code[s][1], x)
      BY <2>1, <3>2 DEF Needs, Accesses, At
    <3>4. ~Behind(code[s], 1, GuardOf(x))
      BY DEF Behind
    <3>5. QED BY <3>2, <3>3, <3>4 DEF AllCareful, ThreadCareful, Holding
  <2>2. QED BY <2>1
<1>2. QED BY <1>1, TypeCorrect, CarefulCorrect, PTL

-----------------------------------------------------------------------------
\* The append of the timer thread changes the list of proposals by one robot that is
\* not in it; no other thread changes it.
LEMMA OneUpdaterStep ==
  ASSUME TypeOK, OneUpdater, NEW t \in Threads, Run(t), TypeOK'
  PROVE  OneUpdater'
<1> SUFFICES ASSUME safeStepMode PROVE OnlyTimerLooks' /\ TimerLooksFirst' /\ OneProposalOfEach'
  BY RunAdvances DEF OneUpdater
<1> DEFINE i == code[t][1]
           timer == code["timer"]
<1>1. OnlyTimerLooks /\ TimerLooksFirst /\ OneProposalOfEach
  BY DEF OneUpdater
<1>2. /\ Head(code[t]) = i /\ i \in Instruction /\ Len(code[t]) >= 1
      /\ code[t] \in Seq(Instruction) /\ Len(code[t]) \in Nat
      /\ Len(code'[t]) = Len(code[t]) - 1 /\ code'[t] \in Seq(Instruction)
      /\ \A k \in 1..Len(code'[t]) : code'[t][k] = code[t][k + 1]
      /\ \A u \in Threads \ {t} : code'[u] = code[u]
  BY RunAdvances
<1>3. "timer" \in Threads
  BY DEF Threads
<1>4. OnlyTimerLooks'
  <2> SUFFICES ASSUME NEW u \in Threads \ {"timer"} PROVE Plain(code'[u])
    BY DEF OnlyTimerLooks
  <2>1. CASE u # t
    BY <1>1, <1>2, <2>1 DEF OnlyTimerLooks
  <2>2. CASE u = t
    <3>1. code[t] # <<>> /\ code'[t] = Tail(code[t])
      BY DEF Run, Advance, DoLock, DoUnlock, DoRead, DoWrite, At, TypeOK
    <3>2. Plain(code[t])
      BY <1>1, <2>2 DEF OnlyTimerLooks
    <3>3. QED BY <2>2, <3>1, <3>2, HeadTailProperties DEF Plain
  <2>3. QED BY <2>1, <2>2
<1>5. CASE t # "timer"
  <2>1. ~IsScan(i) /\ ~IsAppend(i)
    <3>1. Plain(code[t]) /\ 1 \in 1..Len(code[t])
      BY <1>1, <1>2, <1>5 DEF OnlyTimerLooks
    <3>2. QED BY <3>1 DEF Plain, Looks
  <2>2. proposals' = proposals /\ found' = found
    BY <1>2, <2>1 DEF Run, DoLock, DoUnlock, DoRead, DoWrite, At, IsScan, IsAppend
  <2>3. code'["timer"] = timer
    BY <1>2, <1>3, <1>5
  <2>4. TimerLooksFirst'
    BY <1>1, <2>2, <2>3 DEF TimerLooksFirst, Listed
  <2>5. OneProposalOfEach'
    BY <1>1, <2>2 DEF OneProposalOfEach
  <2>6. QED BY <1>4, <2>4, <2>5
<1>6. CASE t = "timer"
  <2>1. /\ IsScan(i) => found'["timer"] = Listed(i.robot) /\ proposals' = proposals
        /\ IsAppend(i) => proposals' = IF found["timer"] THEN proposals
                                                         ELSE Append(proposals, i.robot)
        /\ ~IsAppend(i) => proposals' = proposals
    BY <1>2, <1>6 DEF Run, DoLock, DoUnlock, DoRead, DoWrite, At, IsScan, IsAppend, TypeOK
  <2>2. OneProposalOfEach'
    <3>1. CASE ~IsAppend(i) \/ found["timer"]
      BY <1>1, <2>1, <3>1 DEF OneProposalOfEach
    <3>2. CASE IsAppend(i) /\ ~found["timer"]
      <4>1. ~Listed(i.robot)
        <5>1. 1 \in 1..Len(timer) /\ ~Follows(timer, 1)
          BY <1>2, <1>6 DEF Follows
        <5>2. QED BY <1>1, <1>6, <3>2, <5>1 DEF TimerLooksFirst, TypeOK
      <4>2. i.robot \in Robots
        BY <1>2, <3>2 DEF Instruction, IsAppend
      <4>3. proposals \in Seq(Robots) /\ proposals' = Append(proposals, i.robot)
        BY <2>1, <3>2 DEF TypeOK
      <4>4. /\ Len(proposals') = Len(proposals) + 1 /\ Len(proposals) \in Nat
            /\ \A k \in 1..Len(proposals) : proposals'[k] = proposals[k] /\ proposals[k] # i.robot
            /\ proposals'[Len(proposals) + 1] = i.robot
            /\ DOMAIN proposals = 1..Len(proposals) /\ DOMAIN proposals' = 1..Len(proposals')
        BY <4>1, <4>2, <4>3, AppendProperties DEF Listed
      <4>5. QED BY <1>1, <4>4 DEF OneProposalOfEach
    <3>3. QED BY <3>1, <3>2
  <2>3. TimerLooksFirst'
    <3> DEFINE d == code'["timer"]
    <3> SUFFICES ASSUME NEW k \in 1..Len(d), IsAppend(d[k])
                 PROVE  \/ Follows(d, k)
                        \/ /\ k = 1
                           /\ found'["timer"] = \E n \in DOMAIN proposals' : proposals'[n] = d[k].robot
      BY DEF TimerLooksFirst, Listed
    <3>1. k \in Nat /\ k + 1 \in 1..Len(timer) /\ d[k] = timer[k + 1] /\ k + 1 # 1
      BY <1>2, <1>6
    <3>2. Follows(timer, k + 1)
      BY <1>1, <3>1 DEF TimerLooksFirst
    <3>3. IsScan(timer[k]) /\ timer[k].robot = d[k].robot
      <4>1. (k + 1) - 1 = k
        BY <3>1
      <4>2. QED BY <3>1, <3>2, <4>1 DEF Follows
    <3>4. CASE k = 1
      <4>1. i = timer[1] /\ IsScan(i) /\ i.robot = d[k].robot
        BY <1>6, <3>3, <3>4
      <4>2. found'["timer"] = Listed(d[k].robot) /\ proposals' = proposals
        BY <2>1, <4>1
      <4>3. QED BY <3>4, <4>2 DEF Listed
    <3>5. CASE k # 1
      <4>1. k - 1 \in 1..Len(d) /\ d[k - 1] = timer[k] /\ k > 1
        <5>1. k - 1 \in 1..Len(d) /\ (k - 1) + 1 = k
          BY <3>1, <3>5
        <5>2. d[k - 1] = timer[(k - 1) + 1]
          BY <1>2, <1>6, <5>1
        <5>3. QED BY <3>1, <3>5, <5>1, <5>2
      <4>2. QED BY <3>3, <4>1 DEF Follows
    <3>6. QED BY <3>4, <3>5
  <2>4. QED BY <1>4, <2>2, <2>3
<1>7. QED BY <1>5, <1>6

\* safeStepMode: the vector of proposals never holds two of one robot, because the
\* timer thread alone looks for the robot and appends it, one after the other.
THEOREM SafeStepCorrect == Spec => []SafeStepKeepsOneProposal
<1>1. Init => OneUpdater
  <2> SUFFICES ASSUME Init PROVE OnlyTimerLooks /\ TimerLooksFirst /\ OneProposalOfEach
    BY DEF OneUpdater
  <2>1. \A t \in Threads : code[t] = <<>>
    BY DEF Init
  <2>2. OnlyTimerLooks
    BY <2>1, PlainAtoms DEF OnlyTimerLooks
  <2>3. QED BY <2>1, <2>2 DEF Init, TimerLooksFirst, OneProposalOfEach, Threads
<1>2. TypeOK /\ TypeOK' /\ OneUpdater /\ [Next]_vars => OneUpdater'
  <2> SUFFICES ASSUME TypeOK, TypeOK', OneUpdater, [Next]_vars PROVE OneUpdater'
    OBVIOUS
  <2>1. CASE EnterHandler \/ EnterStep \/ EnterCall
    <3>1. PICK t \in Threads : \E c : Enter(t, c) /\ Fresh(safeStepMode, t, c)
      BY <2>1, EnterFresh
    <3>1c. PICK c : Enter(t, c) /\ Fresh(safeStepMode, t, c)
      BY <3>1
    <3>2. c \in Seq(Instruction)
      BY <3>1c DEF Fresh, Sound
    <3>3. /\ code'[t] = c /\ UNCHANGED <<safeStepMode, proposals, found>>
          /\ \A u \in Threads \ {t} : code'[u] = code[u]
      BY <3>1c, <3>2, EnterBegins
    <3> SUFFICES ASSUME safeStepMode
                 PROVE  OnlyTimerLooks' /\ TimerLooksFirst' /\ OneProposalOfEach'
      BY <3>3 DEF OneUpdater
    <3>4. OnlyTimerLooks /\ TimerLooksFirst /\ OneProposalOfEach
      BY DEF OneUpdater
    <3>5. OneProposalOfEach'
      BY <3>3, <3>4 DEF OneProposalOfEach
    <3>6. CASE t = "timer"
      <4>1. Paired(c)
        BY <3>1c, <3>6 DEF Fresh
      <4>2. OnlyTimerLooks'
        BY <3>3, <3>4, <3>6 DEF OnlyTimerLooks
      <4>3. TimerLooksFirst'
        BY <3>3, <3>6, <4>1 DEF TimerLooksFirst, Paired
      <4>4. QED BY <3>5, <4>2, <4>3
    <3>7. CASE t # "timer"
      <4>1. Plain(c)
        BY <3>1c, <3>7 DEF Fresh
      <4>2. OnlyTimerLooks'
        BY <3>3, <3>4, <4>1 DEF OnlyTimerLooks
      <4>3. code'["timer"] = code["timer"]
        BY <3>3, <3>7 DEF Threads
      <4>4. TimerLooksFirst'
        BY <3>3, <3>4, <4>3 DEF TimerLooksFirst, Listed
      <4>5. QED BY <3>5, <4>2, <4>4
    <3>8. QED BY <3>6, <3>7
  <2>2. ASSUME NEW t \in Threads, Run(t) PROVE OneUpdater'
    BY <2>2, OneUpdaterStep
  <2>3. CASE UNCHANGED vars
    BY <2>3 DEF OneUpdater, OnlyTimerLooks, TimerLooksFirst, OneProposalOfEach, Listed, vars
  <2>4. QED BY <2>1, <2>2, <2>3 DEF Next
<1>3. OneUpdater => SafeStepKeepsOneProposal
  BY DEF OneUpdater, SafeStepKeepsOneProposal
<1>4. QED BY <1>1, <1>2, <1>3, TypeCorrect, PTL DEF Spec
=============================================================================
