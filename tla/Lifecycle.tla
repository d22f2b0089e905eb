------------------------------ MODULE Lifecycle ------------------------------
(***************************************************************************)
(* The server's lifecycle rows for the biots of one node: Biot.Server.     *)
(* Biots, Nodes and the observation half of Reports.  Every action is one  *)
(* immediate transaction, which SQLite runs alone.                         *)
(*                                                                         *)
(* Commands that answer an error or :unchanged write nothing and are not   *)
(* actions.  Actors are authorized owners; a caller's expected revision is *)
(* a guard, so a stale caller is one whose command is not taken.           *)
(***************************************************************************)
EXTENDS Desired, FiniteSets

CONSTANTS Biots,          \* biot ids the clients choose from
          NameOf,         \* the name each id's creation command carries
          InitialStates,  \* the initial states creations ask for
          ChangesAsked,   \* the changes clients ask for
          StatusesAsked,  \* what the enrollment file can say of the node
          Capacities,     \* the max_biots the enrollment file can hold
          ReportsHeard,   \* the reports a node may send
          MaxRevision     \* bound: desired revisions of one biot

ASSUME LifecycleConstants ==
         /\ IsFiniteSet(Biots)
         /\ ChangesAsked \subseteq Changes
         /\ InitialStates \subseteq {"running", "stopped"}
         /\ StatusesAsked \subseteq {"enabled", "disabled", "retired", "abandoned", "omitted"}
         /\ Capacities \subseteq Nat /\ Capacities # {}
         /\ ReportsHeard \subseteq Reports
         /\ MaxRevision \in Nat \ {0}

VARIABLES
  biot,     \* biot rows: desired values, revision 0 before creation
  ops,      \* operation rows, by biot and target revision
  obs,      \* the latest stored observation of each biot
  node,     \* the node row: [status, max]
  orphans   \* the orphaned allocations of the node's latest report

lifecycleVars == <<biot, ops, obs, node, orphans>>

Revisions == 1..MaxRevision
Statuses == {"enabled", "disabled", "retired", "abandoned"}
Live == {"pending", "working"}
Terminal == {"succeeded", "failed", "superseded"}
Operations == [kind : Kinds, outcome : Live \cup Terminal]
NoOp == [kind |-> "none", outcome |-> "none"]
NoReport == [revision |-> 0, env |-> NoEnv, container |-> "unknown",
             data |-> "unknown", failure |-> "none"]

NotCreated == [revision |-> 0, state |-> "stopped", env |-> NoEnv]

Created(b) == biot[b].revision > 0

LifecycleInit ==
  /\ biot = [b \in Biots |-> NotCreated]
  /\ ops = [b \in Biots |-> [r \in Revisions |-> NoOp]]
  /\ obs = [b \in Biots |-> NoReport]
  /\ \E m \in Capacities : node = [status |-> "enabled", max |-> m]
  /\ orphans = {}

-----------------------------------------------------------------------------
(* Capacity.counts/2: a destroyed biot holds its place until its latest    *)
(* observation says the node holds no allocation for it.                   *)
Holds(b) == Created(b) /\ (biot[b].state # "destroyed" \/ obs[b] = NoReport
                             \/ obs[b].data # "no_allocation")
Room == Cardinality({b \in Biots : Holds(b)}) < node.max

NameAvailable(b) ==
  \A c \in Biots : Created(c) /\ NameOf[c] = NameOf[b] => biot[c].state = "destroyed"

\* Biots.create/3.
Create(b, initial, env) ==
  /\ ~Created(b)
  /\ node.status = "enabled"
  /\ Room
  /\ NameAvailable(b)
  /\ biot' = [biot EXCEPT ![b] = [revision |-> 1, state |-> initial, env |-> env]]
  /\ ops' = [ops EXCEPT ![b][1] = [kind |-> "create", outcome |-> "pending"]]
  /\ UNCHANGED <<obs, node, orphans>>

\* Mutant of Recorded: older operations are left waiting.
RecordedWithoutSuperseding(rows, target, operation) == [rows EXCEPT ![target] = operation]

\* A new operation row, and every older one that still waited.
Recorded(rows, target, operation) ==
  [r \in Revisions |->
     IF r = target THEN operation
     ELSE IF r < target /\ rows[r].outcome \in Live
            THEN [rows[r] EXCEPT !.outcome = "superseded"]
     ELSE rows[r]]

\* Mutant of NewOutcome: a destruction is left to wait for an abandoned node.
AlwaysPending == "pending"

\* Biots.fail_for_abandoned_node: nobody is left to carry out what an abandoned node is asked.
NewOutcome == IF node.status = "abandoned" THEN "failed" ELSE "pending"

\* The writes every lifecycle change shares.  Only a destruction is accepted
\* on an abandoned node, and its operation fails at once.
Change(b, change) ==
  /\ Created(b) /\ Changed(biot[b], change)
  /\ biot[b].revision < MaxRevision
  /\ LET desired == Transition(biot[b], change)
     IN  /\ biot' = [biot EXCEPT ![b] = desired]
         /\ ops' = [ops EXCEPT ![b] =
                      Recorded(@, desired.revision,
                               [kind |-> change.kind, outcome |-> NewOutcome])]
  /\ UNCHANGED <<obs, node, orphans>>

\* Biots.start/3, stop/3 and update_environment/4.
ChangeLifecycle(b, expected, change) ==
  /\ change.kind # "destroy"
  /\ node.status # "abandoned"
  /\ biot[b].revision = expected
  /\ Change(b, change)

DestroyChange == [kind |-> "destroy", env |-> NoEnv]

\* Biots.destroy/2 takes no expected revision and no node precondition.
Destroy(b) == DestroyChange \in ChangesAsked /\ Change(b, DestroyChange)

-----------------------------------------------------------------------------
\* Mutant of FailOperations: an operation that has ended is failed too.
FailAllOperations(rows) ==
  [r \in Revisions |-> IF rows[r] = NoOp THEN NoOp ELSE [rows[r] EXCEPT !.outcome = "failed"]]

\* {:fail_operations, node_id}.
FailOperations(rows) ==
  [r \in Revisions |->
     IF rows[r].outcome \in Live THEN [rows[r] EXCEPT !.outcome = "failed"] ELSE rows[r]]

\* Whether retirement is blocked: an assigned biot whose allocation the latest
\* observation does not deny, or a reported orphan.
MayHoldAllocations ==
  \/ \E b \in Biots : Created(b) /\ (obs[b] = NoReport \/ obs[b].data # "no_allocation")
  \/ orphans # {}

\* Nodes.reload/0 with a registration of this node.
Enroll(status, max) ==
  /\ node.status \in {"retired", "abandoned"} => [status |-> status, max |-> max] = node
  /\ status = "retired" /\ node.status # "retired" => ~MayHoldAllocations
  /\ node' = [status |-> status, max |-> max]
  /\ ops' = IF status = "abandoned" /\ node.status # "abandoned"
              THEN [b \in Biots |-> FailOperations(ops[b])]
              ELSE ops
  /\ UNCHANGED <<biot, obs, orphans>>

\* Nodes.reload/0 with an enrollment file that omits this node.
Omit ==
  /\ "omitted" \in StatusesAsked
  /\ node.status = "enabled"
  /\ node' = [node EXCEPT !.status = "disabled"]
  /\ UNCHANGED <<biot, ops, obs, orphans>>

-----------------------------------------------------------------------------
OperationOutcome(b, report) ==
  LET operation == ops[b][report.revision]
  IN  IF operation = NoOp \/ operation.outcome \in Terminal THEN "no_change"
      ELSE Decide(operation.kind, report.revision, biot[b], report)

\* Reports.observation/4 for a current connection: a report ahead of the
\* desired revision is ignored; any other replaces the stored observation.
Observe(b, report) ==
  /\ Created(b)
  /\ report.revision \in 1..biot[b].revision
  /\ obs' = [obs EXCEPT ![b] = report]
  /\ LET outcome == OperationOutcome(b, report)
     IN  ops' = IF outcome \in {"succeeded", "failed"}
                  THEN [ops EXCEPT ![b][report.revision].outcome = outcome]
                  ELSE ops
  /\ UNCHANGED <<biot, node, orphans>>

\* Reports.node_observation/3 for a current connection.
ObserveNode(os) ==
  /\ orphans' = os
  /\ UNCHANGED <<biot, ops, obs, node>>

Command ==
  \/ \E b \in Biots, initial \in InitialStates, env \in Envs : Create(b, initial, env)
  \/ \E b \in Biots, expected \in Revisions, change \in ChangesAsked :
       ChangeLifecycle(b, expected, change)
  \/ \E b \in Biots : Destroy(b)

\* A node may report anything it can inspect, at any revision and in any order;
\* what it really inspects is Delivery's business.
Hear ==
  \/ \E b \in Biots, report \in ReportsHeard : Observe(b, report)
  \/ \E os \in SUBSET Biots : ObserveNode(os)

Reload == Omit \/ \E status \in StatusesAsked \cap Statuses, max \in Capacities : Enroll(status, max)

LifecycleNext == Command \/ Reload \/ Hear

LifecycleSpec == LifecycleInit /\ [][LifecycleNext]_lifecycleVars

-----------------------------------------------------------------------------
\* Every row keeps its type.
LifecycleTypeOK ==
  /\ biot \in [Biots -> [revision : 0..MaxRevision, state : DesiredStates,
                       env : Envs \cup {NoEnv}]]
  /\ ops \in [Biots -> [Revisions -> Operations \cup {NoOp}]]
  /\ obs \in [Biots -> Reports]
  /\ node \in [status : Statuses, max : Nat]
  /\ orphans \subseteq Biots

\* biots.ex:257-265: at most one operation of a biot waits for the node, and it
\* is the one that targets the revision in force; a newer command supersedes
\* the older ones whatever reports arrived in between.
OneLiveOperation ==
  \A b \in Biots, r \in Revisions : ops[b][r].outcome \in Live => r = biot[b].revision

\* nodes.ex:164-180 and biots.ex:394-398: nothing waits for an abandoned node,
\* neither what it had been asked before nor what is asked of it afterwards.
NothingAwaitsAbandonedNode ==
  node.status = "abandoned" =>
    \A b \in Biots, r \in Revisions : ops[b][r].outcome \notin Live

\* reports.ex:268-270: an operation that has ended stays as it ended, whatever
\* is reported, asked or enrolled later.
EndedOperationsStay ==
  [][\A b \in Biots, r \in Revisions :
       ops[b][r].outcome \in Terminal => ops'[b][r] = ops[b][r]]_ops
=============================================================================
