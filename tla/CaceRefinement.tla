--------------------------- MODULE CaceRefinement ---------------------------
(***************************************************************************)
(* The command protocol implements the BelieveBoard.                       *)
(***************************************************************************)
EXTENDS CaceProtocol

Board == INSTANCE BelieveBoard WITH
           Robots <- Agents,
           Writable <- Values,
           Nothing <- NoValue,
           val <- [r \in Agents |-> own[r].val],
           age <- [r \in Agents |-> own[r].age],
           had <- [r \in Agents |-> held[r] \ {NoValue}]

\* With default accept strategies the stores of the robots are a BelieveBoard: what
\* acceptProposals makes of commands, acknowledges and repetitions, in whatever
\* order they come, is a value its sender really had, and never an older one.
ImplementsBoard == Board!Spec
=============================================================================
