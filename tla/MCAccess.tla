------------------------------ MODULE MCAccess ------------------------------
(***************************************************************************)
(* One owner: the withdrawal of another principal's grant is Withdraw({}), *)
(* and a stream the owner has left fills the biot's group before its next  *)
(* one.  The runs bound how much goes wrong together.                      *)
(***************************************************************************)
EXTENDS Access

CONSTANTS o1, MaxDisturbances

\* The first connection has ended on one of its sides.
LinkLost == made > 1 \/ (made = 1 /\ (node.conn # 1 \/ (~hello /\ server.conn # 1)))

\* Withdrawals, dead request processes, proofs that ended and lost connections.
\* No fair step adds one, so the bound takes nothing from fairness.
Disturbances ==
  (revision - 1) + lost + Cardinality({o \in Owners : proof[o] # "valid"})
    + (IF LinkLost THEN 1 ELSE 0)

\* A withdrawal, or the end of a proof.  No fair step makes either.
OneRightEnds == revision = 1 \/ \A o \in Owners : proof[o] = "valid"

MCAccessNext == AccessNext /\ Disturbances' <= MaxDisturbances /\ OneRightEnds'
MCAccessSpec == AccessInit /\ [][MCAccessNext]_accessVars /\ AccessFairness
=============================================================================
