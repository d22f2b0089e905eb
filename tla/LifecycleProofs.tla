-------------------------- MODULE LifecycleProofs --------------------------
(***************************************************************************)
(* The server's operation rows, for every set of biots, environments,      *)
(* changes and reports and every bound on revisions.                       *)
(***************************************************************************)
EXTENDS Lifecycle, TLAPS

\* No operation targets a revision that the biot has not reached.
NoFutureOperations ==
  \A b \in Biots, r \in Revisions : r > biot[b].revision => ops[b][r] = NoOp

LifecycleInv ==
  LifecycleTypeOK /\ OneLiveOperation /\ NothingAwaitsAbandonedNode /\ NoFutureOperations

-----------------------------------------------------------------------------
\* A transition keeps a desired value a desired value and adds one revision.
LEMMA TransitionType ==
  ASSUME NEW d \in [revision : 0..MaxRevision, state : DesiredStates, env : Envs \cup {NoEnv}],
         NEW change \in Changes, d.revision < MaxRevision
  PROVE  /\ Transition(d, change) \in [revision : 0..MaxRevision, state : DesiredStates,
                                       env : Envs \cup {NoEnv}]
         /\ Transition(d, change).revision = d.revision + 1
<1>1. NewState(change, d.state) \in DesiredStates
  BY DEF NewState, DesiredStates, Changes
<1> QED
  BY <1>1, LifecycleConstants DEF Transition, Changes

\* Recording an operation leaves it and nothing older than it waiting.
LEMMA RecordedRows ==
  ASSUME NEW rows \in [Revisions -> Operations \cup {NoOp}], NEW target \in Revisions,
         NEW operation \in Operations
  PROVE  /\ Recorded(rows, target, operation) \in [Revisions -> Operations \cup {NoOp}]
         /\ Recorded(rows, target, operation)[target] = operation
         /\ \A r \in Revisions :
              Recorded(rows, target, operation)[r].outcome \in Live =>
                r = target \/ (r > target /\ rows[r].outcome \in Live)
         /\ \A r \in Revisions :
              r # target /\ (r > target \/ rows[r].outcome \notin Live) =>
                Recorded(rows, target, operation)[r] = rows[r]
<1> DEFINE new == Recorded(rows, target, operation)
<1> USE DEF Revisions
<1>1. \A r \in Revisions : new[r] \in Operations \cup {NoOp}
  BY DEF Recorded, Operations, Terminal, Live, NoOp
<1>2. \A r \in Revisions : new[r].outcome \in Live =>
        r = target \/ (r > target /\ rows[r].outcome \in Live)
  BY LifecycleConstants DEF Recorded, Operations, Terminal, Live, NoOp
<1>3. \A r \in Revisions :
        r # target /\ (r > target \/ rows[r].outcome \notin Live) => new[r] = rows[r]
  BY LifecycleConstants DEF Recorded
<1> QED
  BY <1>1, <1>2, <1>3 DEF Recorded

\* What an operation ends with is never "waiting".
LEMMA OutcomeOfWaiting ==
  ASSUME NEW b \in Biots, NEW report,
         OperationOutcome(b, report) \in {"succeeded", "failed"}
  PROVE  /\ ops[b][report.revision] # NoOp
         /\ ops[b][report.revision].outcome \notin Terminal
  BY DEF OperationOutcome

-----------------------------------------------------------------------------
\* Creating a biot opens its first operation.
LEMMA CreateKeepsInv ==
  ASSUME LifecycleInv, NEW b \in Biots, NEW initial \in {"running", "stopped"},
         NEW env \in Envs, Create(b, initial, env)
  PROVE  LifecycleInv'
<1> USE LifecycleConstants DEF LifecycleInv, LifecycleTypeOK, Create, Revisions
<1>1. biot' \in [Biots -> [revision : 0..MaxRevision, state : DesiredStates,
                           env : Envs \cup {NoEnv}]]
  BY DEF DesiredStates
<1>2. [kind |-> "create", outcome |-> "pending"] \in Operations
  BY DEF Operations, Kinds, Live
<1>3. ops' \in [Biots -> [Revisions -> Operations \cup {NoOp}]]
  BY <1>2
<1>4. OneLiveOperation'
  BY DEF OneLiveOperation, Created, Live
<1>5. NothingAwaitsAbandonedNode'
  BY DEF NothingAwaitsAbandonedNode
<1>6. NoFutureOperations'
  <2> SUFFICES ASSUME NEW c \in Biots, NEW r \in Revisions, r > biot'[c].revision
               PROVE  ops'[c][r] = NoOp
    BY DEF NoFutureOperations
  <2>1. r > biot[c].revision /\ ops'[c][r] = ops[c][r]
    BY DEF Created
  <2> QED
    BY <2>1 DEF NoFutureOperations
<1> QED
  BY <1>1, <1>3, <1>4, <1>5, <1>6

\* A lifecycle change supersedes what waited and opens one operation, which
\* fails at once on an abandoned node.
LEMMA ChangeKeepsInv ==
  ASSUME LifecycleInv, NEW b \in Biots, NEW change \in Changes, Change(b, change)
  PROVE  LifecycleInv'
<1> USE LifecycleConstants
<1> DEFINE desired == Transition(biot[b], change)
           outcome == NewOutcome
           operation == [kind |-> change.kind, outcome |-> outcome]
<1>1. /\ desired \in [revision : 0..MaxRevision, state : DesiredStates, env : Envs \cup {NoEnv}]
      /\ desired.revision = biot[b].revision + 1
  <2>1. biot[b] \in [revision : 0..MaxRevision, state : DesiredStates, env : Envs \cup {NoEnv}]
    BY DEF LifecycleInv, LifecycleTypeOK
  <2>2. biot[b].revision < MaxRevision
    BY DEF Change
  <2> QED
    BY <2>1, <2>2, TransitionType
<1>2. /\ biot' = [biot EXCEPT ![b] = desired]
      /\ ops' = [ops EXCEPT ![b] = Recorded(ops[b], desired.revision, operation)]
      /\ UNCHANGED <<obs, node, orphans>>
  BY DEF Change
<1>3. desired.revision \in Revisions
  BY <1>1 DEF LifecycleInv, LifecycleTypeOK, Revisions
<1>4. operation \in Operations
  BY DEF NewOutcome, Operations, Kinds, Live, Terminal, Changes
<1>5. ops[b] \in [Revisions -> Operations \cup {NoOp}]
  BY DEF LifecycleInv, LifecycleTypeOK
<1> HIDE DEF desired, operation
<1>6. /\ Recorded(ops[b], desired.revision, operation) \in [Revisions -> Operations \cup {NoOp}]
      /\ Recorded(ops[b], desired.revision, operation)[desired.revision] = operation
      /\ \A r \in Revisions :
           Recorded(ops[b], desired.revision, operation)[r].outcome \in Live =>
             r = desired.revision \/ (r > desired.revision /\ ops[b][r].outcome \in Live)
      /\ \A r \in Revisions :
           r # desired.revision /\ (r > desired.revision \/ ops[b][r].outcome \notin Live) =>
             Recorded(ops[b], desired.revision, operation)[r] = ops[b][r]
  BY <1>3, <1>4, <1>5, RecordedRows
<1>7. \A r \in Revisions : ops'[b][r].outcome \in Live => r = desired.revision
  BY <1>1, <1>2, <1>6 DEF LifecycleInv, LifecycleTypeOK, OneLiveOperation, Revisions
<1>8. LifecycleTypeOK'
  BY <1>1, <1>2, <1>6 DEF LifecycleInv, LifecycleTypeOK
<1>9. OneLiveOperation'
  BY <1>2, <1>7 DEF LifecycleInv, LifecycleTypeOK, OneLiveOperation
<1>10. NothingAwaitsAbandonedNode'
  <2> SUFFICES ASSUME node'.status = "abandoned", NEW c \in Biots, NEW r \in Revisions,
                      ops'[c][r].outcome \in Live
               PROVE  FALSE
    BY DEF NothingAwaitsAbandonedNode
  <2>1. node.status = "abandoned"
    BY <1>2
  <2>2. CASE c # b
    BY <1>2, <2>1, <2>2 DEF LifecycleInv, LifecycleTypeOK, NothingAwaitsAbandonedNode
  <2>3. CASE c = b
    <3>1. r = desired.revision /\ ops'[b][r] = operation
      BY <1>2, <1>6, <1>7, <2>3 DEF LifecycleInv, LifecycleTypeOK
    <3>2. operation.outcome = "failed"
      BY <2>1 DEF operation, NewOutcome
    <3> QED
      BY <2>3, <3>1, <3>2 DEF Live
  <2> QED
    BY <2>2, <2>3
<1>11. NoFutureOperations'
  <2> SUFFICES ASSUME NEW c \in Biots, NEW r \in Revisions, r > biot'[c].revision
               PROVE  ops'[c][r] = NoOp
    BY DEF NoFutureOperations
  <2>1. biot[c].revision \in Nat /\ r \in Nat
    BY DEF LifecycleInv, LifecycleTypeOK, Revisions
  <2>2. CASE c # b
    BY <1>2, <2>2 DEF LifecycleInv, LifecycleTypeOK, NoFutureOperations
  <2>3. CASE c = b
    <3>1. r > desired.revision
      BY <1>2, <2>3 DEF LifecycleInv, LifecycleTypeOK
    <3>2. r > biot[c].revision /\ r # desired.revision
      BY <1>1, <2>1, <2>3, <3>1
    <3>3. ops'[c][r] = ops[c][r]
      BY <1>2, <1>6, <2>3, <3>1, <3>2 DEF LifecycleInv, LifecycleTypeOK
    <3> QED
      BY <3>2, <3>3 DEF LifecycleInv, NoFutureOperations
  <2> QED
    BY <2>2, <2>3
<1> QED
  BY <1>8, <1>9, <1>10, <1>11 DEF LifecycleInv

\* An enrollment only ends operations.
LEMMA ReloadKeepsInv ==
  ASSUME LifecycleInv, Reload
  PROVE  LifecycleInv'
<1> USE LifecycleConstants
<1>1. CASE Omit
  BY <1>1 DEF Omit, LifecycleInv, LifecycleTypeOK, OneLiveOperation,
              NothingAwaitsAbandonedNode, NoFutureOperations, Statuses
<1>2. ASSUME NEW status \in StatusesAsked \cap Statuses, NEW max \in Capacities, Enroll(status, max)
      PROVE  LifecycleInv'
  <2>1. \A b \in Biots : ops[b] \in [Revisions -> Operations \cup {NoOp}]
    BY DEF LifecycleInv, LifecycleTypeOK
  <2>2. \A b \in Biots :
          /\ FailOperations(ops[b]) \in [Revisions -> Operations \cup {NoOp}]
          /\ \A r \in Revisions : FailOperations(ops[b])[r].outcome \notin Live
    BY <2>1 DEF FailOperations, Operations, Live, Terminal, NoOp
  <2>3. ops' \in [Biots -> [Revisions -> Operations \cup {NoOp}]]
    BY <1>2, <2>1, <2>2 DEF Enroll, LifecycleInv, LifecycleTypeOK
  <2>4. LifecycleTypeOK'
    BY <1>2, <2>3 DEF Enroll, LifecycleInv, LifecycleTypeOK, Statuses
  <2>5. OneLiveOperation'
    BY <1>2, <2>2 DEF Enroll, LifecycleInv, OneLiveOperation
  <2>6. NothingAwaitsAbandonedNode'
    BY <1>2, <2>2 DEF Enroll, LifecycleInv, NothingAwaitsAbandonedNode
  <2>7. NoFutureOperations'
    BY <1>2 DEF Enroll, FailOperations, LifecycleInv, NoFutureOperations, NoOp, Live
  <2> QED
    BY <2>4, <2>5, <2>6, <2>7 DEF LifecycleInv
<1> QED
  BY <1>1, <1>2 DEF Reload

\* A report only ends the operation of its own revision.
LEMMA ObserveKeepsInv ==
  ASSUME LifecycleInv, NEW b \in Biots, NEW report \in Reports, Observe(b, report)
  PROVE  LifecycleInv'
<1> USE LifecycleConstants
<1> DEFINE outcome == OperationOutcome(b, report)
<1>1. report.revision \in Revisions
  BY DEF Observe, LifecycleInv, LifecycleTypeOK, Revisions
<1>2. CASE outcome \in {"succeeded", "failed"}
  <2>1. ops' = [ops EXCEPT ![b][report.revision].outcome = outcome]
    BY <1>2 DEF Observe
  <2>2. ops[b][report.revision] \in Operations
    BY <1>1, <1>2, OutcomeOfWaiting DEF LifecycleInv, LifecycleTypeOK
  <2>3. [ops[b][report.revision] EXCEPT !.outcome = outcome] \in Operations
    BY <1>2, <2>2 DEF Operations, Terminal
  <2>4. LifecycleTypeOK'
    BY <1>1, <2>1, <2>3 DEF Observe, LifecycleInv, LifecycleTypeOK
  <2>5. \A c \in Biots, r \in Revisions :
          ops'[c][r].outcome \in Live => ops'[c][r] = ops[c][r]
    BY <1>1, <1>2, <2>1, <2>2 DEF LifecycleInv, LifecycleTypeOK, Live, Operations
  <2>6. OneLiveOperation' /\ NothingAwaitsAbandonedNode'
    <3>1. biot' = biot /\ node' = node
      BY DEF Observe
    <3>2. OneLiveOperation /\ NothingAwaitsAbandonedNode
      BY DEF LifecycleInv
    <3> QED
      BY <2>5, <3>1, <3>2 DEF OneLiveOperation, NothingAwaitsAbandonedNode
  <2>7. NoFutureOperations'
    <3> SUFFICES ASSUME NEW c \in Biots, NEW r \in Revisions, r > biot'[c].revision
                 PROVE  ops'[c][r] = NoOp
      BY DEF NoFutureOperations
    <3>1. r > biot[c].revision /\ ops[c][r] = NoOp
      BY DEF Observe, LifecycleInv, NoFutureOperations
    <3>2. c # b \/ r # report.revision
      BY <1>2, <3>1, OutcomeOfWaiting
    <3> QED
      BY <1>1, <2>1, <3>1, <3>2 DEF LifecycleInv, LifecycleTypeOK
  <2> QED
    BY <2>4, <2>6, <2>7 DEF LifecycleInv
<1>3. CASE outcome \notin {"succeeded", "failed"}
  BY <1>3 DEF Observe, LifecycleInv, LifecycleTypeOK, OneLiveOperation,
              NothingAwaitsAbandonedNode, NoFutureOperations
<1> QED
  BY <1>2, <1>3

\* Every step of the server's lifecycle keeps the invariant.
LEMMA LifecycleStep == LifecycleInv /\ [LifecycleNext]_lifecycleVars => LifecycleInv'
<1> SUFFICES ASSUME LifecycleInv, [LifecycleNext]_lifecycleVars PROVE LifecycleInv'
  OBVIOUS
<1>1. CASE Command
  <2>1. DestroyChange \in Changes
    BY DEF Changes, DestroyChange
  <2>2. ASSUME NEW b \in Biots, Destroy(b) PROVE LifecycleInv'
    BY <2>1, <2>2, ChangeKeepsInv DEF Destroy
  <2>3. ASSUME NEW b \in Biots, NEW expected \in Revisions, NEW change \in ChangesAsked,
               ChangeLifecycle(b, expected, change)
        PROVE  LifecycleInv'
    BY <2>3, ChangeKeepsInv, LifecycleConstants DEF ChangeLifecycle
  <2>4. ASSUME NEW b \in Biots, NEW initial \in InitialStates, NEW env \in Envs,
               Create(b, initial, env)
        PROVE  LifecycleInv'
    BY <2>4, CreateKeepsInv, LifecycleConstants
  <2> QED
    BY <1>1, <2>2, <2>3, <2>4 DEF Command
<1>2. CASE Reload
  BY <1>2, ReloadKeepsInv
<1>3. CASE Hear
  <2>1. ASSUME NEW os \in SUBSET Biots, ObserveNode(os) PROVE LifecycleInv'
    BY <2>1 DEF ObserveNode, LifecycleInv, LifecycleTypeOK, OneLiveOperation,
                NothingAwaitsAbandonedNode, NoFutureOperations
  <2> QED
    BY <1>3, <2>1, ObserveKeepsInv, LifecycleConstants DEF Hear
<1>4. CASE UNCHANGED lifecycleVars
  BY <1>4 DEF lifecycleVars, LifecycleInv, LifecycleTypeOK, OneLiveOperation,
              NothingAwaitsAbandonedNode, NoFutureOperations
<1> QED
  BY <1>1, <1>2, <1>3, <1>4 DEF LifecycleNext

\* The server starts with no rows.
LEMMA LifecycleStart == LifecycleInit => LifecycleInv
<1> SUFFICES ASSUME LifecycleInit PROVE LifecycleInv
  OBVIOUS
<1> USE LifecycleConstants DEF LifecycleInit
<1>1. biot \in [Biots -> [revision : 0..MaxRevision, state : DesiredStates,
                          env : Envs \cup {NoEnv}]]
  BY DEF NotCreated, DesiredStates
<1>2. ops \in [Biots -> [Revisions -> Operations \cup {NoOp}]]
  OBVIOUS
<1>3. obs \in [Biots -> Reports]
  BY DEF NoReport, Reports, ContainerStates, DataStates, RetryPolicies
<1>4. node \in [status : Statuses, max : Nat]
  BY DEF Statuses
<1>5. OneLiveOperation /\ NothingAwaitsAbandonedNode /\ NoFutureOperations
  BY DEF OneLiveOperation, NothingAwaitsAbandonedNode, NoFutureOperations, NoOp, Live
<1> QED
  BY <1>1, <1>2, <1>3, <1>4, <1>5 DEF LifecycleInv, LifecycleTypeOK

-----------------------------------------------------------------------------
\* What a step may do to the operations that have ended.
EndedStay ==
  \A b \in Biots, r \in Revisions : ops[b][r].outcome \in Terminal => ops'[b][r] = ops[b][r]

\* A change writes a row that did not exist and touches only rows that wait.
LEMMA ChangeKeepsEnded ==
  ASSUME LifecycleInv, NEW b \in Biots, NEW change \in Changes, Change(b, change)
  PROVE  EndedStay
<1> USE LifecycleConstants
<1> DEFINE target == biot[b].revision + 1
           operation == [kind |-> change.kind, outcome |-> NewOutcome]
<1>1. ops' = [ops EXCEPT ![b] = Recorded(ops[b], target, operation)]
  BY DEF Change, Transition
<1>2. target \in Revisions
  BY DEF Change, LifecycleInv, LifecycleTypeOK, Revisions
<1>3. ops[b][target] = NoOp
  BY <1>2 DEF LifecycleInv, LifecycleTypeOK, NoFutureOperations
<1>4. operation \in Operations
  BY DEF NewOutcome, Operations, Kinds, Live, Terminal, Changes
<1>5. ops[b] \in [Revisions -> Operations \cup {NoOp}]
  BY DEF LifecycleInv, LifecycleTypeOK
<1> HIDE DEF target, operation
<1>6. \A r \in Revisions :
        r # target /\ ops[b][r].outcome \notin Live =>
          Recorded(ops[b], target, operation)[r] = ops[b][r]
  BY <1>2, <1>4, <1>5, RecordedRows
<1>7. \A r \in Revisions :
        ops[b][r].outcome \in Terminal => r # target /\ ops[b][r].outcome \notin Live
  BY <1>3 DEF NoOp, Terminal, Live
<1> QED
  BY <1>1, <1>6, <1>7 DEF EndedStay, LifecycleInv, LifecycleTypeOK

\* A creation writes a row that did not exist.
LEMMA CreateKeepsEnded ==
  ASSUME LifecycleInv, NEW b \in Biots, NEW initial, NEW env, Create(b, initial, env)
  PROVE  EndedStay
<1>1. ops[b][1] = NoOp
  BY LifecycleConstants
     DEF Create, Created, LifecycleInv, LifecycleTypeOK, NoFutureOperations, Revisions
<1> QED
  BY <1>1, LifecycleConstants DEF Create, EndedStay, LifecycleInv, LifecycleTypeOK, NoOp, Terminal

\* An enrollment touches only rows that wait.
LEMMA ReloadKeepsEnded ==
  ASSUME LifecycleInv, Reload
  PROVE  EndedStay
  BY LifecycleConstants DEF Reload, Omit, Enroll, FailOperations, EndedStay, Terminal, Live

\* Whatever is reported, only a row that waits is written.
LEMMA ObserveKeepsEnded ==
  ASSUME LifecycleInv, NEW b \in Biots, NEW report, Observe(b, report)
  PROVE  EndedStay
<1>1. report.revision \in Revisions
  BY LifecycleConstants DEF Observe, LifecycleInv, LifecycleTypeOK, Revisions
<1>2. CASE OperationOutcome(b, report) \in {"succeeded", "failed"}
  <2>1. ops[b][report.revision].outcome \notin Terminal
    BY <1>2, OutcomeOfWaiting
  <2> QED
    BY <1>1, <1>2, <2>1 DEF Observe, EndedStay, LifecycleInv, LifecycleTypeOK
<1>3. CASE OperationOutcome(b, report) \notin {"succeeded", "failed"}
  BY <1>3 DEF Observe, EndedStay
<1> QED
  BY <1>2, <1>3

\* Every step leaves the operations that have ended alone.
LEMMA EndedStep == LifecycleInv /\ LifecycleNext => EndedStay
<1> SUFFICES ASSUME LifecycleInv, LifecycleNext PROVE EndedStay
  OBVIOUS
<1>1. ASSUME NEW b \in Biots, NEW expected \in Revisions, NEW change \in ChangesAsked,
             ChangeLifecycle(b, expected, change)
      PROVE  EndedStay
  BY <1>1, ChangeKeepsEnded, LifecycleConstants DEF ChangeLifecycle
<1>2. ASSUME NEW b \in Biots, Destroy(b)
      PROVE  EndedStay
  BY <1>2, ChangeKeepsEnded, LifecycleConstants DEF Destroy, Changes, DestroyChange
<1>3. ASSUME NEW os \in SUBSET Biots, ObserveNode(os)
      PROVE  EndedStay
  BY <1>3 DEF ObserveNode, EndedStay
<1> QED
  BY <1>1, <1>2, <1>3, CreateKeepsEnded, ReloadKeepsEnded, ObserveKeepsEnded
     DEF LifecycleNext, Command, Hear

-----------------------------------------------------------------------------
\* Every row keeps its type: in particular desired revisions and operation rows
\* stay within the revisions that were handed out.
THEOREM LifecycleTypeTheorem == LifecycleSpec => []LifecycleTypeOK
<1>1. LifecycleInv => LifecycleTypeOK
  BY DEF LifecycleInv
<1> QED
  BY <1>1, LifecycleStart, LifecycleStep, PTL DEF LifecycleSpec

\* biots.ex:257-265: at most one operation of a biot waits for the node, and it
\* targets the revision in force.
THEOREM OneLiveOperationTheorem == LifecycleSpec => []OneLiveOperation
<1>1. LifecycleInv => OneLiveOperation
  BY DEF LifecycleInv
<1> QED
  BY <1>1, LifecycleStart, LifecycleStep, PTL DEF LifecycleSpec

\* nodes.ex:164-180, biots.ex:394-398: nothing waits for an abandoned node.
THEOREM AbandonedTheorem == LifecycleSpec => []NothingAwaitsAbandonedNode
<1>1. LifecycleInv => NothingAwaitsAbandonedNode
  BY DEF LifecycleInv
<1> QED
  BY <1>1, LifecycleStart, LifecycleStep, PTL DEF LifecycleSpec

\* reports.ex:268-270, biots.ex:257-265, nodes.ex:164-180: an operation that has
\* ended stays as it ended.
THEOREM EndedTheorem == LifecycleSpec => EndedOperationsStay
<1>1. LifecycleInv /\ [LifecycleNext]_lifecycleVars
        => [\A b \in Biots, r \in Revisions :
              ops[b][r].outcome \in Terminal => ops'[b][r] = ops[b][r]]_ops
  BY EndedStep DEF EndedStay, lifecycleVars
<1> QED
  BY <1>1, LifecycleStart, LifecycleStep, PTL DEF LifecycleSpec, EndedOperationsStay
=============================================================================
