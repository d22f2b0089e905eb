----------------------------- MODULE MCDelivery -----------------------------
(***************************************************************************)
(* One biot and one node.  The biots of a node share the connection, the   *)
(* snapshot and nothing else, so the interleavings that matter are those   *)
(* of one biot's commands, controller and reports with connections that    *)
(* come and go.                                                            *)
(***************************************************************************)
EXTENDS Delivery

CONSTANTS b1, e1

MCNameOf == [b \in Biots |-> "name"]
MCStop == [kind : {"stop"}, env : {NoEnv}]
MCDestroy == [kind : {"destroy"}, env : {NoEnv}]
MCStopDestroy == [kind : {"stop", "destroy"}, env : {NoEnv}]
MCStartStopDestroy == [kind : {"start", "stop", "destroy"}, env : {NoEnv}]

-----------------------------------------------------------------------------
(* Bounds on what happens together.                                        *)

\* A crash or an abandoned node.  The first command after the abandonment is the last.
MCCrashOrAbandon ==
  node.status = "abandoned" => faults.crashes = 0 /\ biot[b1].revision <= 1

\* A crash or a second revision, next to a failure.
MCCrashOrRevision == faults.crashes = 0 \/ biot[b1].revision <= 1

\* A second revision or a lost connection.  No fair step loses a connection or makes a revision,
\* so the bound takes nothing from fairness.
MCLost ==
  \/ made > 1
  \/ made = 1 /\ (agent.conn # 1 \/ 1 \notin {server.conn} \cup hellos \cup claiming)
MCRevisionOrLoss == MCLost => biot[b1].revision <= 1

MCLiveSpec ==
  /\ DeliveryInit /\ [][DeliveryNext /\ MCRevisionOrLoss']_deliveryVars
  /\ DeliveryFairness
=============================================================================
