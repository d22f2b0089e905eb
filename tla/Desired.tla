------------------------------- MODULE Desired -------------------------------
(***************************************************************************)
(* The pure rules of the server's lifecycle: how a change moves a biot's   *)
(* desired state (Biot.Protocol.Desired) and what a node report says about *)
(* the operation that waits for it (Biot.Server.Operations.Completion).    *)
(***************************************************************************)
EXTENDS Naturals

CONSTANTS Envs,    \* environment ids
          NoEnv    \* "no environment installed" in a report

ASSUME NoEnvIsNoEnvironment == NoEnv \notin Envs

DesiredStates == {"running", "stopped", "destroyed"}

\* What ExecutionChange asks for.  An update names the new environment.
Changes == [kind : {"start", "stop", "destroy"}, env : {NoEnv}]
           \cup [kind : {"update_environment"}, env : Envs]

Kinds == {"create", "start", "stop", "update_environment", "destroy"}

\* Desired.transition/2 answers {:changed, _} exactly for these.
Changed(d, change) ==
  /\ d.state # "destroyed"
  /\ change.kind = "start" => d.state = "stopped"
  /\ change.kind = "stop" => d.state = "running"

NewState(change, state) ==
  CASE change.kind = "start" -> "running"
    [] change.kind = "stop" -> "stopped"
    [] change.kind = "destroy" -> "destroyed"
    [] change.kind = "update_environment" -> state

Transition(d, change) ==
  [revision |-> d.revision + 1,
   state    |-> NewState(change, d.state),
   env      |-> IF change.kind = "update_environment" THEN change.env ELSE d.env]

-----------------------------------------------------------------------------
(* An execution report: the revision the node accepted, the installed      *)
(* environment, the container, the working data, and the retry policy of   *)
(* the failure the node recorded for that revision.                        *)

ContainerStates == {"absent", "starting", "running", "exited", "unknown"}
DataStates == {"no_allocation", "unknown", "uninitialized", "present", "lost"}
RetryPolicies == {"none", "automatic", "after_change", "operator"}

Reports == [revision : Nat, env : Envs \cup {NoEnv}, container : ContainerStates,
            data : DataStates, failure : RetryPolicies]

RunningWithEnvironment(d, report) ==
  report.env = d.env /\ report.container = "running"

\* The evidence each kind of operation completes on.
Completed(kind, d, report) ==
  CASE kind \in {"create", "update_environment"} /\ d.state = "running"
         -> RunningWithEnvironment(d, report)
    [] kind \in {"create", "update_environment"} /\ d.state = "stopped"
         -> report.env = d.env /\ report.container = "absent"
    [] kind = "start" -> RunningWithEnvironment(d, report)
    [] kind = "stop" -> report.container = "absent"
    [] kind = "destroy" -> report.container = "absent" /\ report.data = "no_allocation"
    [] OTHER -> FALSE

\* Completion.decide/4: a failure recorded for the target wins, and only a
\* report on the desired revision completes anything.
Decide(kind, target, d, report) ==
  IF report.revision = target /\ report.failure # "none" THEN "failed"
  ELSE IF d.revision = target /\ Completed(kind, d, report) THEN "succeeded"
  ELSE "pending"
=============================================================================
