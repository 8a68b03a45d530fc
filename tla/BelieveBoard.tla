---------------------------- MODULE BelieveBoard ----------------------------
(***************************************************************************)
(* What cace promises of one variable with default accept strategies,      *)
(* without clocks, messages or jobs: every robot has a versioned believe   *)
(* that changes in two ways only.  Its own user writes it, or the robot    *)
(* adopts the value of another robot that really had it.  No believe ever  *)
(* goes back to an older version, a version is replaced by an equal one    *)
(* only in favour of a robot with a higher id, and a step changes the      *)
(* believe of at most one robot.                                           *)
(***************************************************************************)
EXTENDS Naturals

CONSTANTS Robots, Writable, Nothing

VARIABLES val, age, had  \* the value and version of each robot; the values it has had

boardVars == <<val, age, had>>

Init ==
  /\ val = [r \in Robots |-> Nothing]
  /\ age = [r \in Robots |-> 0]
  /\ had = [r \in Robots |-> {}]

\* Robot r believes v now.
Believes(r, v) ==
  /\ val' = [val EXCEPT ![r] = v]
  /\ age' = [age EXCEPT ![r] = age'[r]]
  /\ age'[r] \in Nat
  /\ had' = [had EXCEPT ![r] = @ \cup {v}]

Write(r) ==
  /\ Believes(r, val'[r])
  /\ val'[r] \in Writable
  /\ age'[r] >= age[r]

Adopt(r, q) ==
  /\ Believes(r, val'[r])
  /\ val'[r] \in had[q]
  /\ val[r] = Nothing \/ age'[r] > age[r] \/ (age'[r] = age[r] /\ q > r)

Next ==
  \E r \in Robots : Write(r) \/ \E q \in Robots \ {r} : Adopt(r, q)

Spec == Init /\ [][Next]_boardVars
=============================================================================
