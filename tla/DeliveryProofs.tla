--------------------------- MODULE DeliveryProofs ---------------------------
(***************************************************************************)
(* The control connection and the controllers, for every set of biots,     *)
(* environments and changes, and every bound on revisions, connections,    *)
(* messages, failures and crashes.                                         *)
(*                                                                         *)
(* LinkInv: the types, and that the two ends agree on which connection is  *)
(* whose and what may be on its way (InStep).  ValueInv: a revision names  *)
(* one desired value wherever it is held.  ForwardInv: revisions only go   *)
(* round forwards, from the rows over the link to the journal and back in  *)
(* the reports, so that an observation that the server takes for current   *)
(* is (AcceptedIsTruthful).  StrayInv: an effect that outlives its         *)
(* controller is of a biot that has ended.  OwedInv: a backoff that is due *)
(* has a controller to serve it.  And every step of the two ends is one    *)
(* of Lifecycle, for some report (ImplementsRows).                         *)
(***************************************************************************)
EXTENDS Delivery, LifecycleProofs, SequenceTheorems, FiniteSetTheorems

-----------------------------------------------------------------------------
(* What the variables hold.                                                *)

Specs == [revision : Nat, state : DesiredStates, env : Envs \cup {NoEnv}]
Retries == [failure : RetryPolicies, due : BOOLEAN]
Phases == {"none", "recovering", "idle", "running", "cancelling", "backing_off"}
HostActions == {"none", "retire", "release_environment", "remove_data", "release_allocation",
                "allocate", "initialize", "prepare", "install", "start", "settled"}
Controllers ==
  [phase : Phases, spec : Specs, action : HostActions, at : Nat, retry : Retries]
Hosts == [data : {"no_allocation", "uninitialized", "present"}, prepared : BOOLEAN,
          env : Envs \cup {NoEnv}, container : {"absent", "running"}]

Servers == [conn : Nat, phase : {"none", "snapshot", "synchronizing", "ready"},
            todo : SUBSET Biots, items : [Biots -> Specs]]
Agents == [conn : Nat, phase : {"down", "handshake", "synchronizing", "ready"},
           announce : BOOLEAN]

DownMessages == [type : {"connected", "reject"}]
                \cup [type : {"snapshot"}, specs : [Biots -> Specs]]
                \cup [type : {"desired"}, biot : Biots, spec : Specs]
UpMessages == [type : {"synchronized"}]
              \cup [type : {"observation"}, biot : Biots, report : Reports]
              \cup [type : {"node_observation"}, orphans : SUBSET Biots]

LinkTypeOK ==
  /\ server \in Servers /\ agent \in Agents
  /\ made \in Nat /\ hellos \subseteq Nat /\ claiming \subseteq Nat
  /\ down \in Seq(DownMessages) /\ up \in Seq(UpMessages)

NodeTypeOK ==
  /\ intent \in [Biots -> Specs] /\ retry \in [Biots -> Retries]
  /\ receipt \in [Biots -> Reports] /\ outbox \in [Biots -> Reports]
  /\ host \in [Biots -> Hosts]
  /\ ctl \in [Biots -> Controllers] /\ stray \in [Biots -> Controllers]

DeliveryTypeOK == LifecycleInv /\ LinkTypeOK /\ NodeTypeOK

-----------------------------------------------------------------------------
(* The connection.                                                         *)

Linked == agent.conn = server.conn

\* Connections are numbered as they are made.  One that the server has not
\* registered is not the registered one, and its node still waits.
Numbered ==
  /\ agent.conn <= made /\ server.conn <= made
  /\ hellos \cap claiming = {}
  /\ \A c \in hellos \cup claiming :
       /\ c \in 1..made /\ c # server.conn
       /\ agent.conn = c => agent.phase = "handshake" /\ down = <<>>
  /\ agent.phase = "down" <=> agent.conn = 0
  /\ server.phase = "none" <=> server.conn = 0
  /\ server.conn = 0 => up = <<>>

\* What can be in flight to a node that is in each phase, also when the server
\* has forgotten its connection.
InFlight ==
  /\ agent.phase = "down" => down = <<>>
  /\ agent.phase = "handshake" =>
       \/ down = <<>>
       \/ Len(down) = 1 /\ down[1].type \in {"connected", "reject"}
       \/ Len(down) = 2 /\ down[1].type = "connected" /\ down[2].type = "snapshot"
  /\ agent.phase = "synchronizing" =>
       down = <<>> \/ (Len(down) = 1 /\ down[1].type = "snapshot")
  /\ agent.phase = "ready" => \A i \in DOMAIN down : down[i].type = "desired"

\* How far two ends of one connection can be apart, and what is between them.
InStep ==
  Linked =>
    /\ server.phase = "none" => agent.phase = "down"
    /\ server.phase = "snapshot" =>
         /\ up = <<>>
         /\ \/ agent.phase = "handshake" /\ Len(down) = 1 /\ down[1].type = "connected"
            \/ agent.phase = "synchronizing" /\ down = <<>>
    /\ server.phase = "synchronizing" =>
         \/ agent.phase = "handshake" /\ Len(down) = 2 /\ up = <<>>
         \/ agent.phase = "synchronizing" /\ Len(down) = 1 /\ up = <<>>
         \/ /\ agent.phase = "ready" /\ down = <<>>
            /\ up # <<>> /\ up[1].type = "synchronized"
            /\ \A i \in DOMAIN up : i # 1 => up[i].type # "synchronized"
    /\ server.phase = "ready" =>
         agent.phase = "ready" /\ \A i \in DOMAIN up : up[i].type # "synchronized"

ConnectionInv == Numbered /\ InFlight /\ InStep

-----------------------------------------------------------------------------
(* The specifications of a biot.                                           *)

\* Every desired value of biot `b` that somebody holds or is being sent.
SpecsHeld(b) == {NoIntent, biot[b], intent[b], ctl[b].spec, server.items[b]}

SpecsSent(b) ==
  {down[i].specs[b] : i \in {j \in DOMAIN down : down[j].type = "snapshot"}}
  \cup {down[i].spec : i \in {j \in DOMAIN down : down[j].type = "desired" /\ down[j].biot = b}}

SpecsOf(b) == SpecsHeld(b) \cup SpecsSent(b)

\* A revision names one desired value, and the row of the server has the last.
OneValuePerRevision ==
  \A b \in Biots : \A s, t \in SpecsOf(b) :
    s.revision <= biot[b].revision /\ (s.revision = t.revision => s = t)

\* Message i of `down` is about biot `b`.
About(i, b) ==
  down[i].type = "snapshot" \/ (down[i].type = "desired" /\ down[i].biot = b)

SentRevision(i, b) ==
  IF down[i].type = "snapshot" THEN down[i].specs[b].revision ELSE down[i].spec.revision

\* A biot's journal is never behind what controllers know of it or report.
Reported(b) ==
  /\ ctl[b].spec.revision <= intent[b].revision
  /\ outbox[b].revision <= intent[b].revision
  /\ receipt[b].revision <= intent[b].revision
  /\ obs[b].revision <= intent[b].revision
  /\ \A i \in DOMAIN up : up[i].type = "observation" /\ up[i].biot = b =>
       up[i].report.revision <= intent[b].revision

\* It is never ahead of what it is being sent, nor is a message of a later one.
Queued(b) ==
  \A i \in DOMAIN down : About(i, b) =>
    /\ intent[b].revision <= SentRevision(i, b)
    /\ \A j \in DOMAIN down : i < j /\ About(j, b) => SentRevision(i, b) <= SentRevision(j, b)

\* Nor is it ahead of the snapshot its connection is collecting.
Collected(b) ==
  Linked /\ server.phase = "snapshot" =>
    b \in server.todo \/ intent[b].revision <= server.items[b].revision

\* A destroyed biot is the exception: once the node has let go of it, a snapshot
\* may omit it and its journal then forgets the revision it had.
Forward(b) == Reported(b) /\ Queued(b) /\ Collected(b)

ForwardInv == \A b \in Biots : biot[b].state # "destroyed" => Forward(b)

-----------------------------------------------------------------------------
(* What controllers do to a host.                                          *)

\* Nothing is installed where nothing is prepared.
HostInv == \A b \in Biots : ~host[b].prepared => host[b].env = NoEnv

\* What the node holds of biot `b` and can still be sent on this connection.
SpecsComing(b) ==
  {intent[b]} \cup SpecsSent(b) \cup IF Linked THEN {server.items[b]} ELSE {}

\* The biot is destroyed, and the node will hear of nothing else.
Ended(b) ==
  /\ biot[b].state = "destroyed"
  /\ \A s \in SpecsComing(b) : s = NoIntent \/ s.state = "destroyed"

\* Only what was created is sent by itself, and a snapshot under way is the
\* only one there is.
SendingInv ==
  /\ \A b \in toWake \cap Biots : Created(b)
  /\ \A i \in DOMAIN down : down[i].type = "desired" => down[i].spec.revision > 0
  /\ server.phase # "snapshot" => server.items = NoSpecs

\* An effect outlives its controller only once the biot is destroyed.
Strays(b) ==
  /\ ctl[b].phase # "none" => ctl[b].spec.revision > 0
  /\ intent[b] = NoIntent /\ ctl[b].phase # "none" => Ended(b)
  /\ stray[b] # NoController =>
       Ended(b) /\ (ctl[b].phase = "none" \/ ctl[b].spec.state = "destroyed")

StrayInv == \A b \in Biots : Strays(b)

\* A controller that serves the record `record`, or has nothing left to do.
Serves(c, record, h, revision) ==
  /\ c.spec.revision = revision
  /\ c.retry = record
  /\ \/ c.phase \in {"backing_off", "recovering"}
     \/ /\ c.phase = "idle" /\ NextAction(c.spec, h) = "settled"
        /\ c.spec.state # "destroyed"

\* A backoff the journal owes is one the controller of that revision serves or
\* will serve; only a biot that has nothing left to do never serves it.
Owed(b) ==
  retry[b].due =>
    /\ retry[b].failure = "automatic"
    /\ ctl[b].phase # "none" => Serves(ctl[b], retry[b], host[b], intent[b].revision)

OwedInv == \A b \in Biots : Owed(b)

-----------------------------------------------------------------------------
(* Sequences of messages.                                                  *)

\* What is sent for every biot of a set is a sequence of those messages.
LEMMA OnePerBiot ==
  ASSUME NEW T \in SUBSET Biots, NEW S, NEW f \in [T -> S], S = {f[b] : b \in T}
  PROVE  SetToSeq(S) \in Seq(S)
<1>1. f \in Surjection(T, S)
  BY DEF Surjection
<1>2. IsFiniteSet(T)
  BY LifecycleConstants, FS_Subset
<1>3. IsFiniteSet(S)
  BY <1>1, <1>2, FS_Surjection
<1>4. Cardinality(S) \in Nat /\ ExistsBijection(1..Cardinality(S), S)
  BY <1>3, FS_CardinalityType
<1>5. \E g \in [1..Cardinality(S) -> S] : IsInjective(g)
  BY <1>4 DEF ExistsBijection, Bijection, Injection, IsInjective
<1>6. SetToSeq(S) \in [1..Cardinality(S) -> S]
  BY <1>5 DEF SetToSeq
<1> QED
  BY <1>4, <1>6

\* A sweep sends desired messages only.
LEMMA SweptMessages ==
  ASSUME NEW bs \in SUBSET Biots
  PROVE  SetToSeq({DesiredMessage(b) : b \in bs}) \in Seq({DesiredMessage(b) : b \in bs})
<1> DEFINE S == {DesiredMessage(b) : b \in bs}
           f == [b \in bs |-> DesiredMessage(b)]
<1>1. f \in [bs -> S] /\ S = {f[b] : b \in bs}
  OBVIOUS
<1> HIDE DEF f, S
<1>2. SetToSeq(S) \in Seq(S)
  BY <1>1, OnePerBiot
<1> QED
  BY <1>2 DEF S

\* A drain sends observations only.
LEMMA DrainedMessages ==
  ASSUME NEW rows
  PROVE  LET T == {c \in Biots : rows[c] # NoReport}
             S == {Observation(b, rows[b]) : b \in T}
         IN  SetToSeq(S) \in Seq(S)
<1> DEFINE T == {c \in Biots : rows[c] # NoReport}
           S == {Observation(b, rows[b]) : b \in T}
           f == [b \in T |-> Observation(b, rows[b])]
<1>1. f \in [T -> S] /\ S = {f[b] : b \in T}
  OBVIOUS
<1>2. T \in SUBSET Biots
  OBVIOUS
<1> HIDE DEF f, S, T
<1>3. SetToSeq(S) \in Seq(S)
  BY <1>1, <1>2, OnePerBiot
<1> QED
  BY <1>3 DEF S, T

-----------------------------------------------------------------------------
(* The rules of a controller.                                              *)

\* Reconcile names an action of its list or says that nothing is left to do.
LEMMA NextActionType ==
  ASSUME NEW spec, NEW h
  PROVE  NextAction(spec, h) \in HostActions \ {"none"}
  BY DEF NextAction, HostActions

\* A destroyed biot has nothing left to do exactly when the node holds nothing.
LEMMA SettledDestruction ==
  ASSUME NEW spec \in Specs, NEW h \in Hosts, spec.state = "destroyed",
         NextAction(spec, h) = "settled", ~h.prepared => h.env = NoEnv
  PROVE  h = Clean
  BY DEF NextAction, Hosts, Clean

\* An effect leaves a host, with nothing installed where nothing is prepared.
LEMMA EffectType ==
  ASSUME NEW c \in Controllers, NEW h \in Hosts
  PROVE  /\ Effect(c, h) \in Hosts
         /\ (~h.prepared => h.env = NoEnv) =>
              (~Effect(c, h).prepared => Effect(c, h).env = NoEnv)
<1>1. \/ Effect(c, h) = h
      \/ Effect(c, h) = [h EXCEPT !.container = "absent"]
      \/ Effect(c, h) = [h EXCEPT !.prepared = FALSE, !.env = NoEnv]
      \/ \E data \in {"no_allocation", "uninitialized", "present"} :
           Effect(c, h) = [h EXCEPT !.data = data]
      \/ Effect(c, h) = [h EXCEPT !.prepared = TRUE]
      \/ h.prepared /\ Effect(c, h) = [h EXCEPT !.env = c.spec.env]
      \/ Effect(c, h) = [h EXCEPT !.container = "running"]
  BY Zenon DEF Effect
<1>2. c.spec.env \in Envs \cup {NoEnv}
  BY DEF Controllers, Specs
<1> QED
  BY <1>1, <1>2 DEF Hosts

\* The three answers of decide/3.
LEMMA DecidedCases ==
  ASSUME NEW c, NEW h
  PROVE  \/ Finished(c, h) /\ Decided(c, h) = NoController
         \/ /\ ~Finished(c, h) /\ c.phase = "running"
            /\ Decided(c, h) \in {c, [c EXCEPT !.phase = "cancelling"]}
         \/ /\ ~Finished(c, h) /\ Starts(c, h)
            /\ Decided(c, h) = [c EXCEPT !.phase = "running", !.action = NextAction(c.spec, h),
                                         !.at = c.spec.revision, !.retry.due = FALSE]
         \/ ~Finished(c, h) /\ ~Starts(c, h) /\ Decided(c, h) = c
<1>1. Finished(c, h) \/ Starts(c, h) => c.phase = "idle"
  BY DEF Finished, Settles, Starts, Ready
<1>2. Starts(c, h) => ~Finished(c, h)
  BY DEF Finished, Settles, Starts
<1> QED
  BY <1>1, <1>2, Zenon DEF Decided

\* A controller that starts its next action.
StartedAction(a, h) ==
  [a EXCEPT !.phase = "running", !.action = NextAction(a.spec, h),
            !.at = a.spec.revision, !.retry.due = FALSE]

\* What Inspect leaves of biot `b`, by what decide/3 answers.
InspectEnds(b, a, h) ==
  /\ Finished(a, h)
  /\ ctl' = [ctl EXCEPT ![b] = NoController]
  /\ receipt' \in {receipt, [receipt EXCEPT ![b] = Report(a, h)]}
  /\ retry' = [retry EXCEPT ![b] = NoRetry]

InspectStarts(b, a, h, record) ==
  /\ ~Finished(a, h) /\ Starts(a, h)
  /\ receipt' = receipt
  /\ ctl' = [ctl EXCEPT ![b] = StartedAction(a, h)]
  /\ retry' = [retry EXCEPT ![b] = [record EXCEPT !.due = FALSE]]

InspectStays(b, a, h, record) ==
  /\ ~Finished(a, h) /\ ~Starts(a, h)
  /\ receipt' = receipt
  /\ \/ ctl' = [ctl EXCEPT ![b] = a]
     \/ a.phase = "running" /\ ctl' = [ctl EXCEPT ![b] = [a EXCEPT !.phase = "cancelling"]]
  /\ retry' = [retry EXCEPT ![b] = record]

\* Inspect reports and decides; the controller ends only when it has finished,
\* and then leaves no effect behind.
LEMMA InspectOutcome ==
  ASSUME NodeTypeOK, NEW b \in Biots, NEW a \in Controllers, NEW h \in Hosts,
         NEW record \in Retries, Inspect(b, a, h, record)
  PROVE  /\ stray' = stray
         /\ outbox' = [outbox EXCEPT ![b] = Report(a, h)]
         /\ \/ InspectEnds(b, a, h)
            \/ InspectStarts(b, a, h, record)
            \/ InspectStays(b, a, h, record)
<1>1. Finished(a, h) \/ Starts(a, h) => a.phase = "idle"
  BY DEF Finished, Settles, Starts, Ready
<1>2. Starts(a, h) => ~Finished(a, h)
  BY DEF Finished, Settles, Starts
<1>3. /\ outbox' = [outbox EXCEPT ![b] = Report(a, h)]
      /\ ctl' = [ctl EXCEPT ![b] = Decided(a, h)]
      /\ receipt' = IF Finished(a, h) /\ intent[b] # NoIntent
                      THEN [receipt EXCEPT ![b] = Report(a, h)] ELSE receipt
      /\ retry' = [retry EXCEPT ![b] = IF Finished(a, h) THEN NoRetry
                                       ELSE IF Starts(a, h) THEN [record EXCEPT !.due = FALSE]
                                       ELSE record]
      /\ stray' = IF Decided(a, h) = NoController THEN LeftBehind(b, a) ELSE stray
  BY DEF Inspect
<1>4. stray' = stray
  <2>1. CASE Decided(a, h) # NoController
    BY <1>3, <2>1
  <2>2. CASE Decided(a, h) = NoController
    <3>1. a.phase \notin {"running", "cancelling"}
      <4>1. \/ Finished(a, h)
            \/ a.phase = "running" /\ Decided(a, h) \in {a, [a EXCEPT !.phase = "cancelling"]}
            \/ Starts(a, h)
            \/ Decided(a, h) = a
        BY DecidedCases, Zenon
      <4>2. CASE a.phase = "running" /\ Decided(a, h) \in {a, [a EXCEPT !.phase = "cancelling"]}
        BY <2>2, <4>2 DEF NoController, Controllers
      <4> QED
        BY <1>1, <2>2, <4>1, <4>2 DEF NoController
    <3> QED
      BY <1>3, <2>2, <3>1 DEF LeftBehind
  <2> QED
    BY <2>1, <2>2
<1>5. CASE Finished(a, h)
  <2>1. Decided(a, h) = NoController
    BY <1>5, DecidedCases
  <2> QED
    BY <1>3, <1>4, <1>5, <2>1 DEF InspectEnds
<1>6. CASE Starts(a, h)
  <2>1. Decided(a, h) = StartedAction(a, h)
    BY <1>1, <1>2, <1>6, DecidedCases, Zenon DEF StartedAction
  <2> QED
    BY <1>2, <1>3, <1>4, <1>6, <2>1, Zenon DEF InspectStarts
<1>7. CASE ~Finished(a, h) /\ ~Starts(a, h)
  <2>1. \/ Decided(a, h) = a
        \/ a.phase = "running" /\ Decided(a, h) = [a EXCEPT !.phase = "cancelling"]
    BY <1>7, DecidedCases
  <2> QED
    BY <1>3, <1>4, <1>7, <2>1 DEF InspectStays
<1> QED
  BY <1>5, <1>6, <1>7

\* A reload either ends a controller whose intent is gone, or inspects with one
\* that follows the intent.
LEMMA ReloadOutcome ==
  ASSUME NodeTypeOK, NEW b \in Biots, NEW c \in Controllers, NEW h \in Hosts,
         NEW record \in Retries, ReloadIntent(b, c, h, record)
  PROVE  \/ /\ intent[b] = NoIntent
            /\ ctl' = [ctl EXCEPT ![b] = NoController]
            /\ stray' \in {stray, [stray EXCEPT ![b] = c]}
            /\ UNCHANGED <<outbox, receipt, retry>>
         \/ /\ intent[b] # NoIntent
            /\ \E a \in Controllers :
                 /\ \/ a = c /\ c.spec.revision = intent[b].revision
                    \/ /\ c.spec.revision # intent[b].revision
                       /\ a.spec = intent[b] /\ a.retry = record
                       /\ a.phase \in {c.phase, "idle"}
                       /\ c.phase \in {"recovering", "running", "cancelling"} => a.phase = c.phase
                       /\ c.phase \notin {"recovering", "running", "cancelling"} => a.phase = "idle"
                 /\ Inspect(b, a, h, record)
<1>1. CASE intent[b] = NoIntent
  BY <1>1 DEF ReloadIntent, LeftBehind
<1>2. CASE intent[b] # NoIntent
  <2> DEFINE a == Accept(c, intent[b], record)
  <2>1. Inspect(b, a, h, record)
    BY <1>2 DEF ReloadIntent
  <2>2. CASE c.spec.revision = intent[b].revision
    <3>1. a = c
      BY <2>2 DEF Accept
    <3> QED
      BY <1>2, <2>1, <2>2, <3>1
  <2>3. CASE c.spec.revision # intent[b].revision
    <3>1. a = [c EXCEPT !.spec = intent[b], !.retry = record,
                        !.phase = IF @ \in {"recovering", "running", "cancelling"} THEN @ ELSE "idle"]
      BY <2>3 DEF Accept
    <3>2. intent[b] \in Specs
      BY DEF NodeTypeOK
    <3>3. /\ a \in Controllers
          /\ a.spec = intent[b] /\ a.retry = record
          /\ a.phase \in {c.phase, "idle"}
          /\ c.phase \in {"recovering", "running", "cancelling"} => a.phase = c.phase
          /\ c.phase \notin {"recovering", "running", "cancelling"} => a.phase = "idle"
      BY <3>1, <3>2 DEF Controllers, Phases
    <3> HIDE DEF a
    <3> QED
      BY <1>2, <2>1, <2>3, <3>3
  <2> QED
    BY <2>2, <2>3
<1> QED
  BY <1>1, <1>2

\* What the steps of a controller have in common: one biot, one inspection of
\* what the host then is, by a controller of the same specification.
LEMMA ControllerMoves ==
  ASSUME NodeTypeOK, NEW b \in Biots, ControllerNext(b)
  PROVE  /\ UNCHANGED <<controlUnchanged, intent>>
         /\ host' \in {host, [host EXCEPT ![b] = Effect(ctl[b], host[b])],
                       [host EXCEPT ![b] = Effect(stray[b], host[b])]}
         /\ \/ /\ UNCHANGED <<outbox, ctl, journalVars>>
               /\ stray' \in {stray, [stray EXCEPT ![b] = NoController]}
            \/ /\ UNCHANGED <<outbox, journalVars, stray>>
               /\ ctl[b].phase # "none"
               /\ \E phase \in {"recovering", "backing_off"} : ctl' = [ctl EXCEPT ![b].phase = phase]
            \/ /\ ctl[b].phase # "none"
               /\ \E c \in Controllers, record \in Retries :
                    /\ c.spec = ctl[b].spec /\ c.phase # "none"
                    /\ ReloadIntent(b, c, host'[b], record) \/ Inspect(b, c, host'[b], record)
<1>1. /\ ctl[b] \in Controllers /\ retry[b] \in Retries
      /\ host[b] \in Hosts /\ Effect(ctl[b], host[b]) \in Hosts
      /\ NoRetry \in Retries
  BY EffectType DEF NodeTypeOK, NoRetry, Retries, RetryPolicies
<1> DEFINE Same == \E c \in Controllers, record \in Retries :
                     /\ c.spec = ctl[b].spec /\ c.phase # "none"
                     /\ ReloadIntent(b, c, host'[b], record) \/ Inspect(b, c, host'[b], record)
<1>2. CASE HandleIntentChanged(b)
  <2>1. UNCHANGED <<controlUnchanged, intent, host>>
    BY <1>2 DEF HandleIntentChanged
  <2>2. CASE ctl[b].phase = "none"
    <3>1. UNCHANGED <<outbox, ctl, receipt, retry, stray>>
      BY <1>2, <2>2 DEF HandleIntentChanged
    <3> QED
      BY <2>1, <3>1 DEF journalVars
  <2>3. CASE ctl[b].phase # "none"
    <3>1. ReloadIntent(b, ctl[b], host'[b], retry[b])
      BY <1>2, <2>1, <2>3 DEF HandleIntentChanged
    <3>2. Same
      BY <1>1, <2>3, <3>1
    <3> QED
      BY <2>1, <2>3, <3>2
  <2> QED
    BY <2>2, <2>3
<1>3. CASE Recovered(b)
  <2>1. UNCHANGED <<controlUnchanged, intent, host>> /\ ctl[b].phase = "recovering"
    BY <1>3 DEF Recovered
  <2>2. CASE ctl[b].retry.due
    <3>1. /\ ctl' = [ctl EXCEPT ![b].phase = "backing_off"]
          /\ UNCHANGED <<outbox, receipt, retry, stray>>
      BY <1>3, <2>2 DEF Recovered
    <3> QED
      BY <2>1, <3>1 DEF journalVars
  <2>3. CASE ~ctl[b].retry.due
    <3> DEFINE c == [ctl[b] EXCEPT !.phase = "idle"]
    <3>1. c \in Controllers /\ c.spec = ctl[b].spec /\ c.phase # "none"
      BY <1>1 DEF Controllers, Phases
    <3>2. ReloadIntent(b, c, host'[b], retry[b])
      BY <1>3, <2>1, <2>3 DEF Recovered
    <3> HIDE DEF c
    <3>3. Same
      BY <1>1, <3>1, <3>2
    <3> QED
      BY <2>1, <3>3
  <2> QED
    BY <2>2, <2>3
<1>4. CASE RetryLater(b)
  <2> DEFINE c == [ctl[b] EXCEPT !.phase = "idle"]
  <2>1. UNCHANGED <<controlUnchanged, intent, host>> /\ ctl[b].phase = "backing_off"
    BY <1>4 DEF RetryLater
  <2>2. c \in Controllers /\ c.spec = ctl[b].spec /\ c.phase # "none"
    BY <1>1 DEF Controllers, Phases
  <2>3. Converge(b, c, host'[b])
    BY <1>4, <2>1 DEF RetryLater
  <2>4. ReloadIntent(b, c, host'[b], retry[b]) \/ Inspect(b, c, host'[b], retry[b])
    BY <2>3 DEF Converge
  <2> HIDE DEF c
  <2>5. Same
    BY <1>1, <2>2, <2>4
  <2> QED
    BY <2>1, <2>5
<1>5. CASE ObserveAgain(b)
  <2>1. UNCHANGED <<controlUnchanged, intent, host>> /\ ctl[b].phase = "idle"
    BY <1>5 DEF ObserveAgain, Settles, Ready
  <2>2. Converge(b, ctl[b], host'[b])
    BY <1>5, <2>1 DEF ObserveAgain
  <2>3. ReloadIntent(b, ctl[b], host'[b], retry[b]) \/ Inspect(b, ctl[b], host'[b], retry[b])
    BY <2>2 DEF Converge
  <2>4. Same
    BY <1>1, <2>1, <2>3
  <2> QED
    BY <2>1, <2>4
<1>6. ASSUME NEW record \in Retries
      PROVE  /\ Recording(b, record) \in Controllers
             /\ Recording(b, record).spec = ctl[b].spec /\ Recording(b, record).phase = "idle"
             /\ [Recording(b, record) EXCEPT !.phase = "backing_off"] \in Controllers
             /\ Journalled(b, record) \in Retries
  BY <1>1 DEF Recording, Journalled, Controllers, Phases
<1>7. CASE Succeed(b)
  <2>1. /\ UNCHANGED <<controlUnchanged, intent>> /\ ctl[b].phase = "running"
        /\ host' = [host EXCEPT ![b] = Effect(ctl[b], host[b])]
        /\ ReloadIntent(b, Recording(b, NoRetry), Effect(ctl[b], host[b]), Journalled(b, NoRetry))
    BY <1>7 DEF Succeed
  <2>2. host'[b] = Effect(ctl[b], host[b])
    BY <2>1 DEF NodeTypeOK
  <2>3. Same
    BY <1>1, <1>6, <2>1, <2>2
  <2> QED
    BY <2>1, <2>3
<1>8. CASE \E policy \in {"automatic", "after_change"} : Fail(b, policy)
  <2>1. PICK policy \in {"automatic", "after_change"} : Fail(b, policy)
    BY <1>8
  <2> DEFINE record == [failure |-> policy, due |-> policy = "automatic"]
  <2>2. record \in Retries
    BY DEF Retries, RetryPolicies
  <2>3. /\ UNCHANGED <<controlUnchanged, intent, host>> /\ ctl[b].phase = "running"
        /\ ReloadIntent(b, IF Counts(b, ctl[b]) /\ record.due
                             THEN [Recording(b, record) EXCEPT !.phase = "backing_off"]
                             ELSE Recording(b, record),
                        host[b], Journalled(b, record))
    BY <2>1 DEF Fail
  <2> HIDE DEF record
  <2>4. \/ ReloadIntent(b, [Recording(b, record) EXCEPT !.phase = "backing_off"], host'[b],
                        Journalled(b, record))
        \/ ReloadIntent(b, Recording(b, record), host'[b], Journalled(b, record))
    BY <2>3
  <2>5. [Recording(b, record) EXCEPT !.phase = "backing_off"].spec = ctl[b].spec
    BY <1>6, <2>2 DEF Controllers
  <2>6. [Recording(b, record) EXCEPT !.phase = "backing_off"].phase # "none"
    BY <1>6, <2>2 DEF Controllers
  <2>7. Same
    BY <1>6, <2>2, <2>4, <2>5, <2>6
  <2> QED
    BY <2>3, <2>7
<1>9. CASE EndCancelled(b)
  <2>1. /\ ctl[b].phase = "cancelling" /\ UNCHANGED <<controlUnchanged, journalVars, outbox, stray>>
        /\ host' \in {host, [host EXCEPT ![b] = Effect(ctl[b], host[b])]}
        /\ ctl' = [ctl EXCEPT ![b].phase = "recovering"]
    BY <1>9 DEF EndCancelled, NodeTypeOK
  <2> QED
    BY <2>1 DEF journalVars
<1>10. CASE EndStray(b)
  <2>1. /\ UNCHANGED <<controlUnchanged, journalVars, outbox, ctl>>
        /\ host' \in {host, [host EXCEPT ![b] = Effect(stray[b], host[b])]}
        /\ stray' = [stray EXCEPT ![b] = NoController]
    BY <1>10 DEF EndStray, NodeTypeOK
  <2> QED
    BY <2>1 DEF journalVars
<1> QED
  BY <1>2, <1>3, <1>4, <1>5, <1>7, <1>8, <1>9, <1>10 DEF ControllerNext

-----------------------------------------------------------------------------
(* Types.                                                                  *)

\* The head of a queue and what is behind it.
LEMMA Behead ==
  ASSUME NEW S, NEW q \in Seq(S), q # <<>>
  PROVE  /\ Head(q) = q[1] /\ 1 \in DOMAIN q /\ q[1] \in S
         /\ Tail(q) \in Seq(S) /\ Len(Tail(q)) = Len(q) - 1
         /\ \A i \in DOMAIN Tail(q) : i + 1 \in DOMAIN q /\ Tail(q)[i] = q[i + 1]
<1>1. Len(q) \in Nat /\ Len(q) > 0 /\ DOMAIN q = 1..Len(q)
  BY EmptySeq, LenProperties
<1>2. Tail(q) \in Seq(S) /\ Len(Tail(q)) = Len(q) - 1
  BY HeadTailProperties
<1>3. \A i \in 1..Len(Tail(q)) : Tail(q)[i] = q[i + 1]
  BY HeadTailProperties
<1>4. DOMAIN Tail(q) = 1..Len(Tail(q))
  BY <1>2, LenProperties
<1>5. Head(q) = q[1]
  BY <1>1
<1>6. q[1] \in S
  BY <1>1, ElementOfSeq
<1> QED
  BY <1>1, <1>2, <1>3, <1>4, <1>5, <1>6

\* A message of each type carries what its handler reads.
LEMMA DownTypes ==
  ASSUME NEW m \in DownMessages
  PROVE  /\ m.type \in {"connected", "reject", "snapshot", "desired"}
         /\ m.type = "snapshot" => m.specs \in [Biots -> Specs]
         /\ m.type = "desired" => m.biot \in Biots /\ m.spec \in Specs
  BY DEF DownMessages

\* What a message to the server carries.
LEMMA UpTypes ==
  ASSUME NEW m \in UpMessages
  PROVE  /\ m.type \in {"synchronized", "observation", "node_observation"}
         /\ m.type = "observation" => m.biot \in Biots /\ m.report \in Reports
         /\ m.type = "node_observation" => m.orphans \in SUBSET Biots
  BY DEF UpMessages

\* The values that stand for nothing are of the types they stand in.
LEMMA NothingTypes ==
  /\ NoIntent \in Specs /\ NoRetry \in Retries /\ NoReport \in Reports
  /\ Clean \in Hosts /\ NoController \in Controllers /\ NoSpecs \in [Biots -> Specs]
  /\ NoConnection \in Servers /\ Disconnected \in Agents
<1>1. NoIntent \in Specs
  BY DEF NoIntent, NotCreated, Specs, DesiredStates
<1>2. NoRetry \in Retries
  BY DEF NoRetry, Retries, RetryPolicies
<1>3. NoReport \in Reports
  BY DEF NoReport, Reports, ContainerStates, DataStates, RetryPolicies
<1>4. Clean \in Hosts
  BY DEF Clean, Hosts
<1>5. NoController \in Controllers
  BY <1>1, <1>2 DEF NoController, Controllers, Phases, HostActions
<1>6. NoSpecs \in [Biots -> Specs]
  BY <1>1 DEF NoSpecs
<1>7. NoConnection \in Servers
  BY <1>6 DEF NoConnection, Servers
<1>8. Disconnected \in Agents
  BY DEF Disconnected, Agents
<1> QED
  BY <1>1, <1>2, <1>3, <1>4, <1>5, <1>6, <1>7, <1>8

\* What a controller reports is a report.
LEMMA ReportType ==
  ASSUME NEW c \in Controllers, NEW h \in Hosts
  PROVE  Report(c, h) \in Reports /\ Report(c, h).revision = c.spec.revision
         /\ Report(c, h).failure = c.retry.failure
<1>1. c.spec \in Specs /\ c.retry \in Retries
  BY DEF Controllers
<1>2. c.spec.revision \in Nat /\ c.retry.failure \in RetryPolicies
  BY <1>1 DEF Specs, Retries
<1> QED
  BY <1>2 DEF Report, Reports, Hosts, ContainerStates, DataStates

\* biot_controller.ex: an inspection puts reports, retries and controllers where they belong.
LEMMA InspectTypes ==
  ASSUME NodeTypeOK, NEW b \in Biots, NEW a \in Controllers, NEW h \in Hosts,
         NEW record \in Retries, Inspect(b, a, h, record)
  PROVE  /\ outbox' \in [Biots -> Reports] /\ receipt' \in [Biots -> Reports]
         /\ retry' \in [Biots -> Retries]
         /\ ctl' \in [Biots -> Controllers] /\ stray' \in [Biots -> Controllers]
<1>1. Report(a, h) \in Reports
  BY ReportType
<1>2. NextAction(a.spec, h) \in HostActions
  BY NextActionType
<1>3. StartedAction(a, h) \in Controllers /\ [a EXCEPT !.phase = "cancelling"] \in Controllers
  BY <1>2 DEF StartedAction, Controllers, Specs, Retries, Phases
<1>4. [record EXCEPT !.due = FALSE] \in Retries
  BY DEF Retries
<1>5. /\ outbox' = [outbox EXCEPT ![b] = Report(a, h)] /\ stray' = stray
      /\ InspectEnds(b, a, h) \/ InspectStarts(b, a, h, record) \/ InspectStays(b, a, h, record)
  BY InspectOutcome
<1>6. outbox' \in [Biots -> Reports] /\ stray' \in [Biots -> Controllers]
  BY <1>1, <1>5 DEF NodeTypeOK
<1>7. CASE InspectEnds(b, a, h)
  BY <1>1, <1>6, <1>7, NothingTypes DEF InspectEnds, NodeTypeOK
<1>8. CASE InspectStarts(b, a, h, record)
  BY <1>3, <1>4, <1>6, <1>8 DEF InspectStarts, NodeTypeOK
<1>9. CASE InspectStays(b, a, h, record)
  BY <1>3, <1>6, <1>9 DEF InspectStays, NodeTypeOK
<1> QED
  BY <1>5, <1>7, <1>8, <1>9

\* biot_controller.ex: so does the reload of an intent.
LEMMA ReloadTypes ==
  ASSUME NodeTypeOK, NEW b \in Biots, NEW c \in Controllers, NEW h \in Hosts,
         NEW record \in Retries, ReloadIntent(b, c, h, record)
  PROVE  /\ outbox' \in [Biots -> Reports] /\ receipt' \in [Biots -> Reports]
         /\ retry' \in [Biots -> Retries]
         /\ ctl' \in [Biots -> Controllers] /\ stray' \in [Biots -> Controllers]
<1>1. CASE /\ intent[b] = NoIntent
           /\ ctl' = [ctl EXCEPT ![b] = NoController]
           /\ stray' \in {stray, [stray EXCEPT ![b] = c]}
           /\ UNCHANGED <<outbox, receipt, retry>>
  BY <1>1, NothingTypes DEF NodeTypeOK
<1>2. ASSUME NEW a \in Controllers, Inspect(b, a, h, record)
      PROVE  /\ outbox' \in [Biots -> Reports] /\ receipt' \in [Biots -> Reports]
             /\ retry' \in [Biots -> Retries]
             /\ ctl' \in [Biots -> Controllers] /\ stray' \in [Biots -> Controllers]
  BY <1>2, InspectTypes
<1> QED
  BY <1>1, <1>2, ReloadOutcome

\* biot_controller.ex: a step of a controller keeps the types of its node.
LEMMA ControllerTypes ==
  ASSUME NodeTypeOK, NEW b \in Biots, ControllerNext(b)
  PROVE  NodeTypeOK'
<1>1. host' \in [Biots -> Hosts]
  <2>1. Effect(ctl[b], host[b]) \in Hosts /\ Effect(stray[b], host[b]) \in Hosts
    BY EffectType DEF NodeTypeOK
  <2> QED
    BY <2>1, ControllerMoves DEF NodeTypeOK
<1>2. intent' = intent
  BY ControllerMoves
<1>3. CASE /\ UNCHANGED <<outbox, ctl, journalVars>>
           /\ stray' \in {stray, [stray EXCEPT ![b] = NoController]}
  BY <1>1, <1>3, NothingTypes DEF NodeTypeOK, journalVars
<1>4. CASE /\ UNCHANGED <<outbox, journalVars, stray>>
           /\ \E phase \in {"recovering", "backing_off"} : ctl' = [ctl EXCEPT ![b].phase = phase]
  <2>1. \A c \in Controllers, phase \in Phases : [c EXCEPT !.phase = phase] \in Controllers
    BY DEF Controllers
  <2>2. PICK phase \in Phases : ctl' = [ctl EXCEPT ![b] = [ctl[b] EXCEPT !.phase = phase]]
    BY <1>4 DEF Phases
  <2>3. ctl' \in [Biots -> Controllers]
    BY <2>1, <2>2 DEF NodeTypeOK
  <2> QED
    BY <1>1, <1>4, <2>3 DEF NodeTypeOK, journalVars
<1>5. ASSUME NEW c \in Controllers, NEW record \in Retries,
             ReloadIntent(b, c, host'[b], record) \/ Inspect(b, c, host'[b], record)
      PROVE  NodeTypeOK'
  <2>1. host'[b] \in Hosts
    BY <1>1
  <2>2. /\ outbox' \in [Biots -> Reports] /\ receipt' \in [Biots -> Reports]
        /\ retry' \in [Biots -> Retries]
        /\ ctl' \in [Biots -> Controllers] /\ stray' \in [Biots -> Controllers]
    BY <1>5, <2>1, ReloadTypes, InspectTypes
  <2> QED
    BY <1>1, <1>2, <2>2 DEF NodeTypeOK
<1> QED
  BY <1>3, <1>4, <1>5, ControllerMoves

\* The steps that leave the node's own state alone.
NodeStateStays == UNCHANGED <<journalVars, controllerVars, host>>

\* connection.ex: what the server does alone leaves the node as it is.
LEMMA ServerLeavesNode ==
  ServerNext => NodeStateStays
  BY DEF ServerNext, Request, LoseWake, BuildItem, HandleWake, Sweep, Authenticate, RejectHello,
         DropHello, ClaimNode, ReloadNodes, SendSnapshot, HandleSynchronized, HandleObservation,
         HandleNodeObservation, ServerCloses, ServerLosesLink, ServerCrashes, EndConnection,
         NodeStateStays, nodeVars

\* Controllers that are told of their intents are still controllers.
LEMMA AnnouncedTypes ==
  ASSUME NodeTypeOK, intent' \in [Biots -> Specs], retry' \in [Biots -> Retries],
         NEW bs, AnnounceIntents(bs)
  PROVE  ctl' \in [Biots -> Controllers]
<1>1. \A b \in Biots : Started(intent'[b], retry'[b]) \in Controllers
  BY NothingTypes DEF Started, Controllers, Phases
<1> QED
  BY <1>1 DEF AnnounceIntents, NodeTypeOK

\* A node begins with the types it keeps.
LEMMA NodeTypeStart == DeliveryInit => NodeTypeOK
  BY NothingTypes DEF DeliveryInit, NodeTypeOK

\* Every step keeps the types of the node.
LEMMA NodeTypeStep ==
  LinkTypeOK /\ NodeTypeOK /\ [DeliveryNext]_deliveryVars => NodeTypeOK'
<1> SUFFICES ASSUME LinkTypeOK, NodeTypeOK, [DeliveryNext]_deliveryVars
             PROVE  NodeTypeOK'
  OBVIOUS
<1>1. ASSUME NodeStateStays PROVE NodeTypeOK'
  BY <1>1 DEF NodeTypeOK, NodeStateStays, journalVars, controllerVars
<1>2. CASE UNCHANGED deliveryVars
  BY <1>1, <1>2 DEF deliveryVars, nodeVars, NodeStateStays
<1>3. CASE ServerNext
  BY <1>1, <1>3, ServerLeavesNode
<1>4. CASE Dial \/ HandleConnected \/ NodeDisconnects \/ NodeLosesLink
  <2>1. NodeStateStays
    BY <1>4 DEF Dial, HandleConnected, NodeDisconnects, NodeLosesLink, Disconnect, NodeStateStays
  <2> QED
    BY <1>1, <2>1
<1>5. CASE CommitSnapshot
  <2>1. down # <<>> /\ down \in Seq(DownMessages) /\ Head(down).type = "snapshot"
    BY <1>5 DEF CommitSnapshot, LinkTypeOK
  <2>2. intent' \in [Biots -> Specs]
    BY <1>5, <2>1, Behead, DownTypes DEF CommitSnapshot
  <2>3. retry' \in [Biots -> Retries] /\ receipt' \in [Biots -> Reports]
    BY <1>5, NothingTypes DEF CommitSnapshot, NodeTypeOK
  <2>4. ctl' \in [Biots -> Controllers]
    BY <1>5, <2>2, <2>3, AnnouncedTypes DEF CommitSnapshot
  <2>5. UNCHANGED <<outbox, stray, host>>
    BY <1>5 DEF CommitSnapshot
  <2> QED
    BY <2>2, <2>3, <2>4, <2>5 DEF NodeTypeOK
<1>6. CASE HandleDesired
  <2>1. /\ down # <<>> /\ down \in Seq(DownMessages) /\ Head(down).type = "desired"
        /\ intent' = [intent EXCEPT ![Head(down).biot] = Head(down).spec]
        /\ retry' \in {retry, [retry EXCEPT ![Head(down).biot] = NoRetry]}
        /\ receipt' = receipt
        /\ outbox' \in {outbox, [outbox EXCEPT ![Head(down).biot] = receipt[Head(down).biot]]}
        /\ AnnounceIntents({Head(down).biot})
        /\ UNCHANGED <<stray, host>>
    BY <1>6 DEF HandleDesired, LinkTypeOK
  <2>2. Head(down).biot \in Biots /\ Head(down).spec \in Specs
    BY <2>1, Behead, DownTypes
  <2>3. intent' \in [Biots -> Specs] /\ retry' \in [Biots -> Retries]
    BY <2>1, <2>2, NothingTypes DEF NodeTypeOK
  <2>4. ctl' \in [Biots -> Controllers]
    BY <2>1, <2>3, AnnouncedTypes
  <2>5. outbox' \in [Biots -> Reports]
    BY <2>1, <2>2 DEF NodeTypeOK
  <2> QED
    BY <2>1, <2>3, <2>4, <2>5 DEF NodeTypeOK
<1>7. CASE Drain \/ Announce
  <2>1. /\ outbox' = [b \in Biots |-> NoReport]
        /\ UNCHANGED <<journalVars, ctl, stray, host>>
    BY <1>7 DEF Drain, Announce, SendReports
  <2> QED
    BY <2>1, NothingTypes DEF NodeTypeOK, journalVars
<1>8. CASE NodeCrashes
  <2>1. /\ outbox' = [b \in Biots |-> NoReport] /\ stray' = [b \in Biots |-> NoController]
        /\ UNCHANGED <<intent, receipt, retry>>
        /\ ctl' = [b \in Biots |-> IF intent[b] # NoIntent /\ receipt[b] = NoReport
                                     THEN Started(intent[b], retry[b]) ELSE NoController]
    BY <1>8 DEF NodeCrashes, journalVars
  <2>2. \A b \in Biots : Started(intent[b], retry[b]) \in Controllers
    BY NothingTypes DEF Started, Controllers, Phases, NodeTypeOK
  <2>3. ctl' \in [Biots -> Controllers]
    BY <2>1, <2>2, NothingTypes
  <2>4. PICK done \in SUBSET Biots :
          host' = [b \in Biots |->
                     IF b \notin done THEN host[b]
                     ELSE IF ctl[b].phase \in {"running", "cancelling"} THEN Effect(ctl[b], host[b])
                     ELSE Effect(stray[b], host[b])]
    BY <1>8 DEF NodeCrashes
  <2>5. \A b \in Biots : Effect(ctl[b], host[b]) \in Hosts /\ Effect(stray[b], host[b]) \in Hosts
    BY EffectType DEF NodeTypeOK
  <2>6. host' \in [Biots -> Hosts]
    BY <2>4, <2>5 DEF NodeTypeOK
  <2> QED
    BY <2>1, <2>3, <2>6, NothingTypes DEF NodeTypeOK
<1>9. CASE \E b \in Biots : ControllerNext(b)
  BY <1>9, ControllerTypes
<1> QED
  BY <1>2, <1>3, <1>4, <1>5, <1>6, <1>7, <1>8, <1>9 DEF DeliveryNext, NodeNext

-----------------------------------------------------------------------------
(* The server's rows.                                                      *)

\* The steps that touch no row.
LEMMA RowsStay ==
  ASSUME DeliveryNext,
         ~(\E b \in Biots : Request(b)), ~ReloadNodes, ~HandleObservation, ~HandleNodeObservation
  PROVE  UNCHANGED lifecycleVars
<1>1. CASE ServerNext
  BY <1>1 DEF ServerNext, LoseWake, BuildItem, HandleWake, Sweep, Authenticate, RejectHello,
              DropHello, ClaimNode, SendSnapshot, HandleSynchronized, ServerCloses,
              ServerLosesLink, ServerCrashes, EndConnection
<1>2. CASE Dial \/ HandleConnected \/ CommitSnapshot \/ HandleDesired \/ Drain \/ Announce
             \/ NodeDisconnects \/ NodeLosesLink \/ NodeCrashes
  BY <1>2 DEF Dial, HandleConnected, CommitSnapshot, HandleDesired, Drain, Announce,
              NodeDisconnects, NodeLosesLink, Disconnect, NodeCrashes
<1>3. ASSUME NEW b \in Biots, ControllerNext(b)
      PROVE  UNCHANGED lifecycleVars
  BY <1>3 DEF ControllerNext, HandleIntentChanged, Recovered, RetryLater, ObserveAgain, Succeed,
              Fail, EndCancelled, EndStray, controlUnchanged
<1> QED
  BY <1>1, <1>2, <1>3 DEF DeliveryNext, NodeNext

\* A row moves by a command, to its next revision, and never after it is destroyed.
RowsMove ==
  \A b \in Biots :
    biot'[b] = biot[b] \/ /\ biot[b].state # "destroyed" \/ biot[b].revision = 0
                          /\ biot'[b].revision = biot[b].revision + 1

\* A command writes the row of one biot and no observation.
LEMMA CommandMoves ==
  ASSUME LifecycleInv, NEW b \in Biots, Request(b)
  PROVE  /\ LifecycleInv' /\ RowsMove
         /\ Created(b)'
         /\ \A c \in Biots \ {b} : biot'[c] = biot[c]
         /\ obs' = obs
<1>1. ASSUME NEW change \in Changes, Change(b, change)
      PROVE  /\ LifecycleInv' /\ RowsMove
             /\ Created(b)'
             /\ \A c \in Biots \ {b} : biot'[c] = biot[c]
             /\ obs' = obs
  <2>1. LifecycleInv'
    BY <1>1, ChangeKeepsInv
  <2>2. biot[b] \in [revision : 0..MaxRevision, state : DesiredStates, env : Envs \cup {NoEnv}]
    BY DEF LifecycleInv, LifecycleTypeOK
  <2>3. /\ biot' = [biot EXCEPT ![b] = Transition(biot[b], change)]
        /\ obs' = obs /\ biot[b].revision < MaxRevision /\ biot[b].state # "destroyed"
    BY <1>1 DEF Change, Changed
  <2>4. Transition(biot[b], change).revision = biot[b].revision + 1
    BY DEF Transition
  <2> HIDE DEF Transition
  <2> QED
    BY <2>1, <2>2, <2>3, <2>4 DEF RowsMove, Created, LifecycleInv, LifecycleTypeOK
<1>2. ASSUME NEW initial \in InitialStates, NEW env \in Envs, Create(b, initial, env)
      PROVE  /\ LifecycleInv' /\ RowsMove
             /\ Created(b)'
             /\ \A c \in Biots \ {b} : biot'[c] = biot[c]
             /\ obs' = obs
  <2>1. LifecycleInv'
    BY <1>2, CreateKeepsInv, LifecycleConstants
  <2>2. biot[b] \in [revision : 0..MaxRevision, state : DesiredStates, env : Envs \cup {NoEnv}]
    BY DEF LifecycleInv, LifecycleTypeOK
  <2>3. /\ biot' = [biot EXCEPT ![b] = [revision |-> 1, state |-> initial, env |-> env]]
        /\ obs' = obs /\ biot[b].revision = 0
    BY <1>2, <2>2 DEF Create, Created
  <2> QED
    BY <2>1, <2>3 DEF RowsMove, Created, LifecycleInv, LifecycleTypeOK
<1>3. DestroyChange \in Changes
  BY DEF Changes, DestroyChange
<1> QED
  BY <1>1, <1>2, <1>3, LifecycleConstants DEF Request, ChangeLifecycle, Destroy

\* Every step keeps the rows' own invariant and moves a row at most to its next
\* revision.
LEMMA RowsStep ==
  ASSUME LifecycleInv, LinkTypeOK, [DeliveryNext]_deliveryVars
  PROVE  LifecycleInv' /\ RowsMove
<1>1. ASSUME UNCHANGED lifecycleVars PROVE LifecycleInv' /\ RowsMove
  <2>1. LifecycleInv'
    BY <1>1, LifecycleStep
  <2> QED
    BY <1>1, <2>1 DEF lifecycleVars, RowsMove
<1>2. CASE UNCHANGED deliveryVars
  BY <1>1, <1>2 DEF deliveryVars
<1>3. CASE \E b \in Biots : Request(b)
  BY <1>3, CommandMoves
<1>4. CASE ReloadNodes
  <2>1. Reload
    BY <1>4 DEF ReloadNodes
  <2>2. biot' = biot
    BY <2>1 DEF Reload, Omit, Enroll
  <2> QED
    BY <2>1, <2>2, ReloadKeepsInv DEF RowsMove
<1>5. CASE HandleObservation
  <2>1. up # <<>> /\ up \in Seq(UpMessages) /\ Head(up).type = "observation"
    BY <1>5 DEF HandleObservation, LinkTypeOK
  <2>2. Head(up).biot \in Biots /\ Head(up).report \in Reports
    BY <2>1, Behead, UpTypes
  <2>3. Observe(Head(up).biot, Head(up).report) \/ UNCHANGED lifecycleVars
    BY <1>5 DEF HandleObservation
  <2>4. biot' = biot
    BY <2>3 DEF Observe, lifecycleVars
  <2> QED
    BY <1>1, <2>2, <2>3, <2>4, ObserveKeepsInv DEF RowsMove
<1>6. CASE HandleNodeObservation
  <2>1. up # <<>> /\ up \in Seq(UpMessages) /\ Head(up).type = "node_observation"
    BY <1>6 DEF HandleNodeObservation, LinkTypeOK
  <2>2. Head(up).orphans \in SUBSET Biots
    BY <2>1, Behead, UpTypes
  <2>3. ObserveNode(Head(up).orphans)
    BY <1>6 DEF HandleNodeObservation
  <2> QED
    BY <2>2, <2>3 DEF ObserveNode, LifecycleInv, LifecycleTypeOK, OneLiveOperation,
                      NothingAwaitsAbandonedNode, NoFutureOperations, RowsMove
<1> QED
  BY <1>1, <1>2, <1>3, <1>4, <1>5, <1>6, RowsStay

\* The desired value of a biot is a specification.
LEMMA RowsAreSpecs ==
  ASSUME LifecycleInv
  PROVE  biot \in [Biots -> Specs] /\ obs \in [Biots -> Reports]
  BY LifecycleConstants DEF LifecycleInv, LifecycleTypeOK, Specs

-----------------------------------------------------------------------------
(* The types of the link.                                                  *)

\* What the server and the node put on a link.
LEMMA SentTypes ==
  ASSUME LifecycleInv, LinkTypeOK, NodeTypeOK
  PROVE  /\ \A b \in Biots : DesiredMessage(b) \in DownMessages
         /\ \A bs \in SUBSET Biots :
              SetToSeq({DesiredMessage(b) : b \in bs}) \in Seq(DownMessages)
         /\ [type |-> "snapshot", specs |-> server.items] \in DownMessages
         /\ \A t \in {"connected", "reject"} : [type |-> t] \in DownMessages
         /\ [type |-> "synchronized"] \in UpMessages
         /\ [type |-> "node_observation", orphans |-> Orphans] \in UpMessages
<1>1. \A b \in Biots : DesiredMessage(b) \in DownMessages
  BY RowsAreSpecs DEF DesiredMessage, DownMessages
<1>2. ASSUME NEW bs \in SUBSET Biots
      PROVE  SetToSeq({DesiredMessage(b) : b \in bs}) \in Seq(DownMessages)
  <2>1. {DesiredMessage(b) : b \in bs} \in SUBSET DownMessages
    BY <1>1
  <2>2. SetToSeq({DesiredMessage(b) : b \in bs}) \in Seq({DesiredMessage(b) : b \in bs})
    BY SweptMessages
  <2> DEFINE S == {DesiredMessage(b) : b \in bs}
  <2> HIDE DEF S
  <2>3. SetToSeq(S) \in Seq(DownMessages)
    BY <2>1, <2>2 DEF S
  <2> QED
    BY <2>3 DEF S
<1>3. server.items \in [Biots -> Specs]
  BY DEF LinkTypeOK, Servers
<1> QED
  BY <1>1, <1>2, <1>3 DEF DownMessages, UpMessages, Orphans

\* A drain puts observations of stored reports on the link, whatever follows.
LEMMA DrainTypes ==
  ASSUME LinkTypeOK, NEW rows \in [Biots -> Reports],
         NEW extra \in {<<>>, <<[type |-> "node_observation", orphans |-> Orphans]>>},
         SendReports(rows, extra)
  PROVE  \E sent \in Seq(UpMessages) :
           /\ up' = ToServer(sent)
           /\ \A i \in DOMAIN sent :
                \/ sent[i].type = "node_observation"
                \/ \E b \in Biots : rows[b] # NoReport /\ sent[i] = Observation(b, rows[b])
<1> DEFINE T == {c \in Biots : rows[c] # NoReport}
           S == {Observation(b, rows[b]) : b \in T}
           q == SetToSeq(S)
<1>1. \A b \in Biots : Observation(b, rows[b]) \in UpMessages
  BY DEF Observation, UpMessages
<1>2. S \in SUBSET UpMessages
  BY <1>1
<1>3. q \in Seq(S)
  BY DrainedMessages
<1>4. up' = ToServer(q \o extra)
  BY DEF SendReports
<1>5. extra \in Seq(UpMessages) /\ \A i \in DOMAIN extra : extra[i].type = "node_observation"
  <2> DEFINE m == [type |-> "node_observation", orphans |-> Orphans]
  <2>1. m \in UpMessages /\ m.type = "node_observation" /\ extra \in {<<>>, <<m>>}
    BY DEF UpMessages, Orphans
  <2> HIDE DEF m
  <2>2. CASE extra = <<>>
    BY <2>2
  <2>3. CASE extra = <<m>>
    BY <2>1, <2>3
  <2> QED
    BY <2>1, <2>2, <2>3
<1>6. \A m \in S : \E b \in Biots : rows[b] # NoReport /\ m = Observation(b, rows[b])
  OBVIOUS
<1> HIDE DEF q, S
<1>7. q \in Seq(UpMessages)
  BY <1>2, <1>3
<1>8. q \o extra \in Seq(UpMessages)
  BY <1>5, <1>7, ConcatProperties
<1>9. ASSUME NEW i \in DOMAIN (q \o extra)
      PROVE  \/ (q \o extra)[i].type = "node_observation"
             \/ \E b \in Biots : rows[b] # NoReport /\ (q \o extra)[i] = Observation(b, rows[b])
  <2>1. \/ i \in 1..Len(q) /\ (q \o extra)[i] = q[i]
        \/ i - Len(q) \in DOMAIN extra /\ (q \o extra)[i] = extra[i - Len(q)]
    BY <1>5, <1>7, ConcatProperties, LenProperties
  <2>2. \A j \in 1..Len(q) : q[j] \in S
    BY <1>3, ElementOfSeq
  <2> QED
    BY <1>5, <1>6, <2>1, <2>2
<1> QED
  BY <1>4, <1>8, <1>9

\* The state of the link that no controller touches.
LinkStays == UNCHANGED <<server, agent, linkVars>>

\* The link begins with the types it keeps.
LEMMA LinkTypeStart == DeliveryInit => LinkTypeOK
  BY NothingTypes DEF DeliveryInit, LinkTypeOK

\* Every message that is put on the link is of its types.
LEMMA LinkTypeStep ==
  LifecycleInv /\ LinkTypeOK /\ NodeTypeOK /\ [DeliveryNext]_deliveryVars => LinkTypeOK'
<1> SUFFICES ASSUME LifecycleInv, LinkTypeOK, NodeTypeOK, [DeliveryNext]_deliveryVars
             PROVE  LinkTypeOK'
  OBVIOUS
<1> DEFINE Ends == server' \in Servers /\ agent' \in Agents
           Counts3 == made' \in Nat /\ hellos' \subseteq Nat /\ claiming' \subseteq Nat
           Down == down' \in Seq(DownMessages)
           Up == up' \in Seq(UpMessages)
<1>1. ASSUME LinkStays PROVE LinkTypeOK'
  BY <1>1 DEF LinkStays, linkVars, LinkTypeOK
<1>2. CASE UNCHANGED deliveryVars
  BY <1>1, <1>2 DEF deliveryVars, LinkStays, serverVars, nodeVars
<1>3. CASE ReloadNodes \/ \E b \in Biots : Request(b) \/ LoseWake(b)
  BY <1>1, <1>3 DEF Request, LoseWake, ReloadNodes, nodeVars, LinkStays
<1>4. ASSUME NEW b \in Biots, ControllerNext(b) PROVE LinkTypeOK'
  BY <1>1, <1>4, ControllerMoves DEF controlUnchanged, serverVars, LinkStays
<1>5. ASSUME NEW q \in Seq(DownMessages) PROVE ToNode(q) \in Seq(DownMessages)
  BY ConcatProperties DEF ToNode, LinkTypeOK
<1>6. ASSUME NEW q \in Seq(UpMessages) PROVE ToServer(q) \in Seq(UpMessages)
  BY ConcatProperties DEF ToServer, LinkTypeOK
<1>7. ASSUME NEW c \in 1..MaxConnections, Authenticate(c) \/ RejectHello(c) \/ DropHello(c)
      PROVE  LinkTypeOK'
  <2>1. Ends /\ Counts3 /\ Up
    BY <1>7, DeliveryConstants DEF Authenticate, RejectHello, DropHello, serverVars, nodeVars, LinkTypeOK
  <2>2. down' \in {down, <<[type |-> "reject"]>>}
    BY <1>7 DEF Authenticate, RejectHello, DropHello
  <2>3. <<[type |-> "reject"]>> \in Seq(DownMessages)
    BY SentTypes
  <2> QED
    BY <2>1, <2>2, <2>3 DEF LinkTypeOK
<1>8. ASSUME NEW c \in 1..MaxConnections, ClaimNode(c)
      PROVE  LinkTypeOK'
  <2>1. server' = [conn |-> c, phase |-> "snapshot",
                   todo |-> {b \in Biots : Included(b)}, items |-> NoSpecs]
    BY <1>8 DEF ClaimNode
  <2>2. server' \in Servers
    BY <2>1, NothingTypes, DeliveryConstants DEF Servers
  <2>3. /\ agent' = agent /\ Counts3 /\ up' = <<>>
        /\ down' \in {down, <<[type |-> "connected"]>>}
    BY <1>8 DEF ClaimNode, nodeVars, LinkTypeOK
  <2>4. <<[type |-> "connected"]>> \in Seq(DownMessages)
    BY SentTypes
  <2>5. down' \in Seq(DownMessages)
    BY <2>3, <2>4, Zenon DEF LinkTypeOK
  <2> HIDE DEF Ends
  <2> QED
    BY <2>2, <2>3, <2>5 DEF LinkTypeOK
<1>9. ASSUME NEW b \in Biots, BuildItem(b)
      PROVE  LinkTypeOK'
  <2>1. server' = [server EXCEPT !.todo = @ \ {b}, !.items = [@ EXCEPT ![b] = biot[b]]]
    BY <1>9 DEF BuildItem
  <2>2. server' \in Servers
    BY <2>1, RowsAreSpecs DEF Servers, LinkTypeOK
  <2> QED
    BY <1>9, <2>2 DEF BuildItem, linkVars, nodeVars, LinkTypeOK
<1>10. CASE SendSnapshot
  <2> DEFINE m == [type |-> "snapshot", specs |-> server.items]
  <2>1. down' = ToNode(<<m>>) /\ m \in DownMessages
    BY <1>10, SentTypes DEF SendSnapshot
  <2> HIDE DEF m
  <2>2. down' \in Seq(DownMessages)
    <3>1. <<m>> \in Seq(DownMessages)
      BY <2>1
    <3> QED
      BY <1>5, <2>1, <3>1
  <2>3. server' \in Servers
    BY <1>10, NothingTypes DEF SendSnapshot, Servers, LinkTypeOK
  <2> QED
    BY <1>10, <2>2, <2>3 DEF SendSnapshot, nodeVars, LinkTypeOK
<1>11. ASSUME NEW b \in Biots, HandleWake(b) PROVE LinkTypeOK'
  <2> DEFINE m == DesiredMessage(b)
  <2>1. down' \in {down, ToNode(<<m>>)} /\ m \in DownMessages
    BY <1>11, SentTypes DEF HandleWake
  <2> HIDE DEF m
  <2>2. down' \in Seq(DownMessages)
    <3>1. <<m>> \in Seq(DownMessages)
      BY <2>1
    <3> QED
      BY <1>5, <2>1, <3>1 DEF LinkTypeOK
  <2> QED
    BY <1>11, <2>2 DEF HandleWake, nodeVars, LinkTypeOK
<1>12. ASSUME NEW bs \in SUBSET Biots, Sweep(bs) PROVE LinkTypeOK'
  <2>1. down' \in Seq(DownMessages)
    BY <1>5, <1>12, SentTypes DEF Sweep
  <2> QED
    BY <1>12, <2>1 DEF Sweep, serverVars, nodeVars, LinkTypeOK
<1>13. ASSUME up # <<>> PROVE Tail(up) \in Seq(UpMessages)
  BY <1>13, Behead DEF LinkTypeOK
<1>14. ASSUME down # <<>> PROVE Tail(down) \in Seq(DownMessages)
  BY <1>14, Behead DEF LinkTypeOK
<1>15. CASE HandleSynchronized
  BY <1>13, <1>15 DEF HandleSynchronized, nodeVars, LinkTypeOK, Servers
<1>16. CASE HandleObservation \/ HandleNodeObservation
  BY <1>13, <1>16 DEF HandleObservation, HandleNodeObservation, serverVars, nodeVars, LinkTypeOK
<1>17. CASE ServerCloses \/ ServerLosesLink \/ ServerCrashes
  <2>1. /\ server' = NoConnection /\ up' = <<>> /\ agent' = agent /\ down' = down /\ made' = made
        /\ hellos' \in {hellos, {}} /\ claiming' \in {claiming, {}}
    BY <1>17 DEF ServerCloses, ServerLosesLink, ServerCrashes, EndConnection, nodeVars
  <2> QED
    BY <2>1, NothingTypes DEF LinkTypeOK
<1>18. CASE Dial
  <2>1. /\ made' = made + 1 /\ hellos' = hellos \cup {made + 1} /\ down' = <<>>
        /\ agent' = [Disconnected EXCEPT !.conn = made + 1, !.phase = "handshake"]
        /\ UNCHANGED <<server, claiming, up>>
    BY <1>18 DEF Dial, serverVars
  <2>2. agent' = [conn |-> made + 1, phase |-> "handshake", announce |-> FALSE]
    BY <2>1 DEF Disconnected
  <2>3. agent' \in Agents
    BY <2>2 DEF LinkTypeOK, Agents
  <2> QED
    BY <2>1, <2>3 DEF LinkTypeOK
<1>19. CASE HandleConnected
  BY <1>14, <1>19 DEF HandleConnected, serverVars, LinkTypeOK, Agents
<1>20. CASE CommitSnapshot
  <2>1. down' \in Seq(DownMessages) /\ agent' \in Agents
    BY <1>14, <1>20 DEF CommitSnapshot, LinkTypeOK, Agents
  <2>2. up' \in Seq(UpMessages)
    <3> DEFINE m == [type |-> "synchronized"]
    <3>1. up' = ToServer(<<m>>) /\ m \in UpMessages
      BY <1>20, SentTypes DEF CommitSnapshot
    <3> HIDE DEF m
    <3>2. <<m>> \in Seq(UpMessages)
      BY <3>1
    <3> QED
      BY <1>6, <3>1, <3>2
  <2> QED
    BY <1>20, <2>1, <2>2 DEF CommitSnapshot, serverVars, LinkTypeOK
<1>21. CASE HandleDesired
  BY <1>14, <1>21 DEF HandleDesired, serverVars, LinkTypeOK
<1>22. CASE Drain
  <2>1. SendReports(outbox, <<>>) /\ outbox \in [Biots -> Reports]
    BY <1>22 DEF Drain, NodeTypeOK
  <2>2. up' \in Seq(UpMessages)
    BY <1>6, <2>1, DrainTypes
  <2> QED
    BY <1>22, <2>2 DEF Drain, serverVars, LinkTypeOK
<1>23. CASE Announce
  <2> DEFINE rows == [b \in Biots |-> IF receipt[b] # NoReport THEN receipt[b] ELSE outbox[b]]
  <2>1. /\ SendReports(rows, <<[type |-> "node_observation", orphans |-> Orphans]>>)
        /\ rows \in [Biots -> Reports]
    BY <1>23 DEF Announce, NodeTypeOK
  <2> HIDE DEF rows
  <2>2. up' \in Seq(UpMessages)
    BY <1>6, <2>1, DrainTypes
  <2> QED
    BY <1>23, <2>2 DEF Announce, serverVars, LinkTypeOK, Agents
<1>24. CASE NodeDisconnects \/ NodeLosesLink \/ NodeCrashes
  <2>1. /\ agent' = Disconnected /\ down' = <<>>
        /\ UNCHANGED <<server, up, made, hellos, claiming>>
    BY <1>24 DEF NodeDisconnects, NodeLosesLink, NodeCrashes, Disconnect, serverVars
  <2> QED
    BY <2>1, NothingTypes DEF LinkTypeOK
<1> QED
  BY <1>2, <1>3, <1>4, <1>7, <1>8, <1>9, <1>10, <1>11, <1>12, <1>15, <1>16, <1>17, <1>18, <1>19,
     <1>20, <1>21, <1>22, <1>23, <1>24 DEF DeliveryNext, ServerNext, NodeNext

-----------------------------------------------------------------------------
(* The connection: what two ends that can differ still agree on.           *)

\* What two queues are one after the other.
LEMMA Appended ==
  ASSUME NEW S, NEW q \in Seq(S), NEW r \in Seq(S)
  PROVE  /\ q \o r \in Seq(S) /\ Len(q \o r) = Len(q) + Len(r)
         /\ \A i \in DOMAIN q : i \in DOMAIN (q \o r) /\ (q \o r)[i] = q[i]
         /\ \A i \in DOMAIN (q \o r) :
              \/ i \in DOMAIN q /\ (q \o r)[i] = q[i]
              \/ i \notin DOMAIN q /\ i - Len(q) \in DOMAIN r /\ (q \o r)[i] = r[i - Len(q)]
<1>1. q \o r \in Seq(S) /\ Len(q \o r) = Len(q) + Len(r)
  BY ConcatProperties
<1>2. \A i \in 1..Len(q) + Len(r) :
        (q \o r)[i] = IF i <= Len(q) THEN q[i] ELSE r[i - Len(q)]
  BY ConcatProperties
<1>3. /\ DOMAIN q = 1..Len(q) /\ DOMAIN r = 1..Len(r) /\ DOMAIN (q \o r) = 1..Len(q) + Len(r)
      /\ Len(q) \in Nat /\ Len(r) \in Nat
  BY <1>1, LenProperties
<1> QED
  BY <1>1, <1>2, <1>3

\* One message more.
LEMMA AppendedOne ==
  ASSUME NEW S, NEW q \in Seq(S), NEW m \in S
  PROVE  /\ q \o <<m>> \in Seq(S) /\ Len(q \o <<m>>) = Len(q) + 1
         /\ (q \o <<m>>)[Len(q) + 1] = m
         /\ \A i \in DOMAIN q : (q \o <<m>>)[i] = q[i]
         /\ \A i \in DOMAIN (q \o <<m>>) :
              \/ i \in DOMAIN q /\ (q \o <<m>>)[i] = q[i]
              \/ i = Len(q) + 1 /\ (q \o <<m>>)[i] = m
<1>1. <<m>> \in Seq(S) /\ Len(<<m>>) = 1 /\ <<m>>[1] = m /\ DOMAIN <<m>> = {1}
  OBVIOUS
<1>2. q \o <<m>> \in Seq(S) /\ Len(q \o <<m>>) = Len(q) + 1
  BY <1>1, ConcatProperties
<1>3. \A i \in 1..Len(q) + 1 : (q \o <<m>>)[i] = IF i <= Len(q) THEN q[i] ELSE <<m>>[i - Len(q)]
  BY <1>1, ConcatProperties
<1>4. DOMAIN q = 1..Len(q) /\ Len(q) \in Nat /\ DOMAIN (q \o <<m>>) = 1..Len(q) + 1
  BY <1>2, LenProperties
<1> QED
  BY <1>1, <1>2, <1>3, <1>4

\* The handlers of the server's end.
LEMMA ServerConnectionStep ==
  ASSUME LifecycleInv, LinkTypeOK, NodeTypeOK, ConnectionInv, ServerNext
  PROVE  ConnectionInv'
<1> USE DEF ConnectionInv
<1>t. /\ server.conn \in Nat /\ agent.conn \in Nat /\ made \in Nat
      /\ agent.phase \in {"down", "handshake", "synchronizing", "ready"}
      /\ server.phase \in {"none", "snapshot", "synchronizing", "ready"}
  BY DEF LinkTypeOK, Servers, Agents
<1>1. ASSUME LinkStays PROVE ConnectionInv'
  BY <1>1 DEF LinkStays, linkVars, Numbered, InFlight, InStep, Linked
<1>2. CASE ReloadNodes \/ \E b \in Biots : Request(b) \/ LoseWake(b)
  BY <1>1, <1>2 DEF Request, LoseWake, ReloadNodes, nodeVars, LinkStays
<1>3. ASSUME NEW c \in 1..MaxConnections, Authenticate(c)
      PROVE  ConnectionInv'
  <2>1. /\ hellos' \cup claiming' = hellos \cup claiming /\ hellos' \cap claiming' = {}
        /\ UNCHANGED <<server, agent, made, down, up>>
    BY <1>3 DEF Authenticate, serverVars, nodeVars, Numbered
  <2> QED
    BY <2>1 DEF Numbered, InFlight, InStep, Linked
<1>4. ASSUME NEW c \in 1..MaxConnections, RejectHello(c)
      PROVE  ConnectionInv'
  <2>1. /\ c \in hellos /\ hellos' = hellos \ {c}
        /\ UNCHANGED <<server, agent, made, claiming, up>>
        /\ down' = IF agent.conn = c THEN <<[type |-> "reject"]>> ELSE down
    BY <1>4 DEF RejectHello, serverVars, nodeVars
  <2>2. c # server.conn
    BY <2>1 DEF Numbered
  <2>3. CASE agent.conn # c
    BY <2>1, <2>3 DEF Numbered, InFlight, InStep, Linked
  <2>4. CASE agent.conn = c
    <3>1. agent.phase = "handshake" /\ ~Linked /\ c \notin hellos' \cup claiming'
      BY <2>1, <2>2, <2>4 DEF Numbered, Linked
    <3> DEFINE m == [type |-> "reject"]
    <3>2. down' = <<m>> /\ m.type = "reject"
      BY <2>1, <2>4
    <3> HIDE DEF m
    <3>3. Len(down') = 1 /\ down'[1].type = "reject"
      BY <3>2
    <3> QED
      BY <2>1, <2>4, <3>1, <3>3 DEF Numbered, InFlight, InStep, Linked
  <2> QED
    BY <2>3, <2>4
<1>5. ASSUME NEW c \in 1..MaxConnections, DropHello(c)
      PROVE  ConnectionInv'
  BY <1>5 DEF DropHello, serverVars, nodeVars, Numbered, InFlight, InStep, Linked
<1>6. ASSUME NEW c \in 1..MaxConnections, ClaimNode(c)
      PROVE  ConnectionInv'
  <2>1. /\ c \in claiming /\ claiming' = claiming \ {c} /\ up' = <<>>
        /\ server'.conn = c /\ server'.phase = "snapshot"
        /\ UNCHANGED <<agent, made, hellos>>
        /\ down' = IF agent.conn = c THEN <<[type |-> "connected"]>> ELSE down
    BY <1>6 DEF ClaimNode, nodeVars
  <2>2. /\ c \in 1..made /\ c \notin hellos' \cup claiming'
        /\ agent.conn = c => agent.phase = "handshake" /\ down = <<>>
    BY <2>1 DEF Numbered
  <2>3. CASE agent.conn # c
    BY <1>t, <2>1, <2>2, <2>3 DEF Numbered, InFlight, InStep, Linked
  <2>4. CASE agent.conn = c
    <3> DEFINE m == [type |-> "connected"]
    <3>1. down' = <<m>> /\ m.type = "connected"
      BY <2>1, <2>4
    <3> HIDE DEF m
    <3>2. Len(down') = 1 /\ down'[1].type = "connected"
      BY <3>1
    <3> QED
      BY <1>t, <2>1, <2>2, <2>4, <3>2 DEF Numbered, InFlight, InStep, Linked
  <2> QED
    BY <2>3, <2>4
<1>7. ASSUME NEW b \in Biots, BuildItem(b)
      PROVE  ConnectionInv'
  <2>1. /\ server'.conn = server.conn /\ server'.phase = server.phase
        /\ UNCHANGED <<agent, linkVars>>
    BY <1>7 DEF BuildItem, nodeVars, LinkTypeOK, Servers
  <2> QED
    BY <2>1 DEF linkVars, Numbered, InFlight, InStep, Linked
<1>8. CASE SendSnapshot
  <2> DEFINE m == [type |-> "snapshot", specs |-> server.items]
  <2>1. /\ down' = ToNode(<<m>>) /\ m \in DownMessages /\ m.type = "snapshot"
        /\ server.phase = "snapshot" /\ server'.phase = "synchronizing"
        /\ server'.conn = server.conn
        /\ UNCHANGED <<agent, made, hellos, claiming, up>>
    BY <1>8, SentTypes DEF SendSnapshot, nodeVars, LinkTypeOK, Servers
  <2> HIDE DEF m
  <2>2. CASE ~Linked
    BY <2>1, <2>2 DEF ToNode, Numbered, InFlight, InStep, Linked
  <2>3. CASE Linked
    <3>1. down' = down \o <<m>> /\ down \in Seq(DownMessages)
      BY <2>1, <2>3 DEF ToNode, Linked, LinkTypeOK
    <3>2. /\ Len(down') = Len(down) + 1 /\ down'[Len(down) + 1] = m
          /\ \A i \in DOMAIN down : down'[i] = down[i]
          /\ Len(down) \in Nat /\ DOMAIN down = 1..Len(down) /\ (down = <<>> <=> Len(down) = 0)
      BY <2>1, <3>1, AppendedOne, LenProperties, EmptySeq
    <3>3. \/ agent.phase = "handshake" /\ Len(down) = 1 /\ down[1].type = "connected"
          \/ agent.phase = "synchronizing" /\ Len(down) = 0
      BY <2>1, <2>3, <3>2 DEF InStep
    <3>4. up = <<>>
      BY <2>1, <2>3 DEF InStep
    <3>5. Numbered'
      <4>1. agent.conn \notin hellos \cup claiming
        BY <2>3 DEF Numbered, Linked
      <4> QED
        BY <2>1, <4>1 DEF Numbered
    <3>6. CASE agent.phase = "handshake" /\ Len(down) = 1 /\ down[1].type = "connected"
      <4>1. Len(down') = 2 /\ down'[1].type = "connected" /\ down'[2].type = "snapshot"
        BY <2>1, <3>2, <3>6
      <4> QED
        <5>1. agent' = agent /\ up' = <<>> /\ server'.phase = "synchronizing"
          BY <2>1, <3>4
        <5>2. InFlight'
          BY <3>6, <4>1, <5>1 DEF InFlight
        <5>3. InStep'
          BY <3>6, <4>1, <5>1 DEF InStep
        <5> QED
          BY <3>5, <5>2, <5>3
    <3>7. CASE agent.phase = "synchronizing" /\ Len(down) = 0
      <4>1. Len(down') = 1 /\ down'[1].type = "snapshot"
        BY <2>1, <3>2, <3>7
      <4> QED
        <5>1. agent' = agent /\ up' = <<>> /\ server'.phase = "synchronizing"
          BY <2>1, <3>4
        <5>2. InFlight'
          BY <3>7, <4>1, <5>1 DEF InFlight
        <5>3. InStep'
          BY <3>7, <4>1, <5>1 DEF InStep
        <5> QED
          BY <3>5, <5>2, <5>3
    <3> QED
      BY <3>3, <3>6, <3>7
  <2> QED
    BY <2>2, <2>3
<1>9. ASSUME NEW q \in Seq(DownMessages), \A i \in DOMAIN q : q[i].type = "desired",
             server.phase = "ready", down' = ToNode(q),
             UNCHANGED <<server, agent, made, hellos, claiming, up>>
      PROVE  ConnectionInv'
  <2>1. CASE ~Linked
    BY <1>9, <2>1 DEF ToNode, Numbered, InFlight, InStep, Linked
  <2>2. CASE Linked
    <3>1. agent.phase = "ready" /\ down' = down \o q /\ down \in Seq(DownMessages)
      BY <1>9, <2>2 DEF InStep, Linked, ToNode, LinkTypeOK
    <3>2. \A i \in DOMAIN down' : down'[i].type = "desired"
      <4>1. \A i \in DOMAIN down : down[i].type = "desired"
        BY <3>1 DEF InFlight
      <4>2. \A i \in DOMAIN down' :
              \/ i \in DOMAIN down /\ down'[i] = down[i]
              \/ i - Len(down) \in DOMAIN q /\ down'[i] = q[i - Len(down)]
        BY <3>1, Appended
      <4> QED
        BY <1>9, <4>1, <4>2
    <3> QED
      BY <1>9, <2>2, <3>1, <3>2 DEF Numbered, InFlight, InStep, Linked
  <2> QED
    BY <2>1, <2>2
<1>10. ASSUME NEW b \in Biots, HandleWake(b) PROVE ConnectionInv'
  <2> DEFINE m == DesiredMessage(b)
  <2>1. m \in DownMessages /\ m.type = "desired"
    BY SentTypes DEF DesiredMessage
  <2>2. /\ down' = IF server.phase = "ready" THEN ToNode(<<m>>) ELSE down
        /\ UNCHANGED <<server, agent, made, hellos, claiming, up>>
    BY <1>10 DEF HandleWake, nodeVars
  <2> HIDE DEF m
  <2>3. <<m>> \in Seq(DownMessages) /\ \A i \in DOMAIN <<m>> : <<m>>[i].type = "desired"
    BY <2>1
  <2>4. CASE server.phase = "ready"
    BY <1>9, <2>2, <2>3, <2>4
  <2>5. CASE server.phase # "ready"
    BY <1>1, <2>2, <2>5 DEF LinkStays, linkVars
  <2> QED
    BY <2>4, <2>5
<1>11. ASSUME NEW bs \in SUBSET Biots, Sweep(bs) PROVE ConnectionInv'
  <2> DEFINE S == {DesiredMessage(b) : b \in bs}
             q == SetToSeq(S)
  <2>1. q \in Seq(DownMessages) /\ q \in Seq(S)
    BY SentTypes, SweptMessages
  <2>2. \A m \in S : m.type = "desired"
    BY DEF DesiredMessage
  <2>3. down' = ToNode(q) /\ server.phase = "ready"
        /\ UNCHANGED <<server, agent, made, hellos, claiming, up>>
    BY <1>11 DEF Sweep, serverVars, nodeVars
  <2> HIDE DEF S, q
  <2>4. \A i \in DOMAIN q : q[i].type = "desired"
    BY <2>1, <2>2, ElementOfSeq, LenProperties
  <2> QED
    BY <1>9, <2>1, <2>3, <2>4
<1>12. ASSUME up # <<>>
       PROVE  /\ 1 \in DOMAIN up /\ Head(up) = up[1]
              /\ \A i \in DOMAIN Tail(up) : i + 1 \in DOMAIN up /\ i + 1 # 1 /\ Tail(up)[i] = up[i + 1]
  <2>1. up \in Seq(UpMessages)
    BY DEF LinkTypeOK
  <2>2. DOMAIN Tail(up) \subseteq Nat \ {0}
    BY <1>12, <2>1, Behead, LenProperties
  <2> QED
    BY <1>12, <2>1, <2>2, Behead
<1>13. CASE HandleSynchronized
  <2>1. /\ up # <<>> /\ server.phase = "synchronizing" /\ up' = Tail(up)
        /\ server'.phase = "ready" /\ server'.conn = server.conn
        /\ UNCHANGED <<agent, made, hellos, claiming, down>>
    BY <1>13 DEF HandleSynchronized, nodeVars, LinkTypeOK, Servers
  <2>2. server.conn # 0
    BY <2>1 DEF Numbered
  <2>3. Linked => agent.phase = "ready" /\ \A i \in DOMAIN up : i # 1 => up[i].type # "synchronized"
    BY <2>1 DEF InStep
  <2> QED
    BY <1>12, <2>1, <2>2, <2>3 DEF Numbered, InFlight, InStep, Linked
<1>14. CASE HandleObservation \/ HandleNodeObservation
  <2>1. /\ up # <<>> /\ server.phase = "ready" /\ up' = Tail(up)
        /\ UNCHANGED <<server, agent, made, hellos, claiming, down>>
    BY <1>14 DEF HandleObservation, HandleNodeObservation, serverVars, nodeVars
  <2>2. server.conn # 0
    BY <2>1 DEF Numbered
  <2> QED
    BY <1>12, <2>1, <2>2 DEF Numbered, InFlight, InStep, Linked
<1>15. CASE ServerCloses \/ ServerLosesLink \/ ServerCrashes
  <2>1. /\ server'.conn = 0 /\ server'.phase = "none"
        /\ up' = <<>> /\ agent' = agent /\ down' = down /\ made' = made
        /\ hellos' \in {hellos, {}} /\ claiming' \in {claiming, {}}
    BY <1>15 DEF ServerCloses, ServerLosesLink, ServerCrashes, EndConnection, nodeVars, NoConnection
  <2> QED
    BY <1>t, <2>1 DEF Numbered, InFlight, InStep, Linked
<1> QED
  BY <1>2, <1>3, <1>4, <1>5, <1>6, <1>7, <1>8, <1>10, <1>11, <1>13, <1>14, <1>15 DEF ServerNext

\* The handlers of the node's end.
LEMMA NodeConnectionStep ==
  ASSUME LinkTypeOK, NodeTypeOK, ConnectionInv, NodeNext
  PROVE  ConnectionInv'
<1> USE DEF ConnectionInv
<1>t. /\ server.conn \in Nat /\ agent.conn \in Nat /\ made \in Nat
      /\ agent.phase \in {"down", "handshake", "synchronizing", "ready"}
      /\ server.phase \in {"none", "snapshot", "synchronizing", "ready"}
      /\ down \in Seq(DownMessages) /\ up \in Seq(UpMessages)
  BY DEF LinkTypeOK, Servers, Agents
<1>1. ASSUME LinkStays PROVE ConnectionInv'
  BY <1>1 DEF LinkStays, linkVars, Numbered, InFlight, InStep, Linked
<1>2. ASSUME NEW b \in Biots, ControllerNext(b) PROVE ConnectionInv'
  BY <1>1, <1>2, ControllerMoves DEF controlUnchanged, serverVars, LinkStays
<1>3. ASSUME down # <<>>
      PROVE  /\ Head(down) = down[1] /\ Len(down) \in Nat /\ Len(down) > 0
             /\ Tail(down) \in Seq(DownMessages)
             /\ Len(Tail(down)) = Len(down) - 1
             /\ \A i \in DOMAIN Tail(down) : i + 1 \in DOMAIN down /\ Tail(down)[i] = down[i + 1]
             /\ Len(down) = 1 => Tail(down) = <<>>
             /\ Len(down) = 2 => Tail(down)[1] = down[2]
  <2>1. /\ Head(down) = down[1] /\ Tail(down) \in Seq(DownMessages)
        /\ Len(Tail(down)) = Len(down) - 1
        /\ \A i \in DOMAIN Tail(down) : i + 1 \in DOMAIN down /\ Tail(down)[i] = down[i + 1]
    BY <1>t, <1>3, Behead
  <2>2. Len(down) \in Nat /\ Len(down) > 0
    BY <1>t, <1>3, LenProperties, EmptySeq
  <2>3. DOMAIN Tail(down) = 1..Len(Tail(down))
    BY <2>1, LenProperties
  <2>4. Len(Tail(down)) = 0 => Tail(down) = <<>>
    BY <2>1, EmptySeq
  <2> QED
    BY <2>1, <2>2, <2>3, <2>4
<1>4. CASE Dial
  <2>1. /\ agent.phase = "down" /\ made' = made + 1 /\ hellos' = hellos \cup {made + 1}
        /\ agent'.conn = made + 1 /\ agent'.phase = "handshake" /\ down' = <<>>
        /\ UNCHANGED <<server, claiming, up>>
    BY <1>4 DEF Dial, serverVars, Disconnected
  <2> QED
    BY <1>t, <2>1 DEF Numbered, InFlight, InStep, Linked
<1>5. CASE HandleConnected
  <2>1. /\ down # <<>> /\ down[1].type = "connected" /\ down' = Tail(down)
        /\ agent.phase = "handshake" /\ agent'.phase = "synchronizing" /\ agent'.conn = agent.conn
        /\ UNCHANGED <<server, made, hellos, claiming, up>>
    BY <1>3, <1>5 DEF HandleConnected, serverVars, LinkTypeOK, Agents
  <2>2. Numbered'
    BY <2>1 DEF Numbered
  <2>3. CASE Len(down) = 1
    <3>1. down' = <<>> /\ Len(down') = 0
      BY <1>3, <2>1, <2>3
    <3>2. Linked => server.phase = "snapshot" /\ up = <<>>
      BY <1>t, <2>1, <2>3 DEF InStep
    <3>3. InFlight'
      BY <2>1, <3>1 DEF InFlight
    <3>4. InStep'
      BY <2>1, <3>1, <3>2 DEF InStep, Linked
    <3> QED
      BY <2>2, <3>3, <3>4
  <2>4. CASE Len(down) = 2 /\ down[2].type = "snapshot"
    <3>5. Tail(down)[1] = down[2] /\ Len(Tail(down)) = Len(down) - 1
      BY <1>3, <2>1, <2>4
    <3>1. Len(down') = 1 /\ down'[1].type = "snapshot"
      BY <2>1, <2>4, <3>5
    <3>2. Linked => server.phase = "synchronizing" /\ up = <<>>
      BY <1>t, <2>1, <2>4 DEF InStep
    <3>3. InFlight'
      BY <2>1, <3>1 DEF InFlight
    <3>4. InStep'
      BY <2>1, <3>1, <3>2 DEF InStep, Linked
    <3> QED
      BY <2>2, <3>3, <3>4
  <2>5. Len(down) = 1 \/ (Len(down) = 2 /\ down[2].type = "snapshot")
    BY <2>1 DEF InFlight
  <2> QED
    BY <2>3, <2>4, <2>5
<1>6. CASE CommitSnapshot
  <2> DEFINE m == [type |-> "synchronized"]
  <2>1. /\ down # <<>> /\ down' = Tail(down) /\ up' = ToServer(<<m>>) /\ m.type = "synchronized"
        /\ agent.phase = "synchronizing" /\ agent'.phase = "ready" /\ agent'.conn = agent.conn
        /\ UNCHANGED <<server, made, hellos, claiming>>
    BY <1>6 DEF CommitSnapshot, serverVars, LinkTypeOK, Agents
  <2>2. m \in UpMessages
    BY DEF UpMessages
  <2> HIDE DEF m
  <2>3. Len(down) = 1 /\ down' = <<>>
    BY <1>3, <2>1 DEF InFlight
  <2>4. DOMAIN down' = {}
    BY <2>3
  <2>5. CASE ~Linked
    <3>1. up' = up
      BY <2>1, <2>5 DEF ToServer, Linked
    <3> QED
      BY <2>1, <2>3, <2>4, <2>5, <3>1 DEF Numbered, InFlight, InStep, Linked
  <2>6. CASE Linked
    <3>1. server.phase = "synchronizing" /\ up = <<>>
      BY <1>t, <2>1, <2>3, <2>6 DEF InStep
    <3>2. up' = <<m>>
      BY <2>1, <2>2, <2>6, <3>1 DEF ToServer, Linked
    <3>3. up' # <<>> /\ up'[1].type = "synchronized" /\ DOMAIN up' = {1}
      BY <2>1, <3>2
    <3>4. InFlight' /\ InStep'
      BY <2>1, <2>3, <2>4, <3>1, <3>3 DEF InFlight, InStep
    <3>5. Numbered'
      BY <1>t, <2>1, <2>6, <3>1 DEF Numbered, Linked
    <3> QED
      BY <3>4, <3>5
  <2> QED
    BY <2>5, <2>6
<1>7. CASE HandleDesired
  <2>1. /\ down # <<>> /\ down' = Tail(down) /\ agent.phase = "ready"
        /\ UNCHANGED <<server, agent, made, hellos, claiming, up>>
    BY <1>7 DEF HandleDesired, serverVars
  <2>2. Linked /\ server.phase = "synchronizing" => down = <<>>
    BY <2>1 DEF InStep
  <2> QED
    BY <1>3, <2>1, <2>2 DEF Numbered, InFlight, InStep, Linked
<1>8. ASSUME NEW rows \in [Biots -> Reports],
             NEW extra \in {<<>>, <<[type |-> "node_observation", orphans |-> Orphans]>>},
             SendReports(rows, extra), agent.phase = "ready",
             agent'.phase = "ready", agent'.conn = agent.conn,
             UNCHANGED <<server, made, hellos, claiming, down>>
      PROVE  ConnectionInv'
  <2>1. PICK sent \in Seq(UpMessages) :
          /\ up' = ToServer(sent)
          /\ \A i \in DOMAIN sent :
               \/ sent[i].type = "node_observation"
               \/ \E b \in Biots : rows[b] # NoReport /\ sent[i] = Observation(b, rows[b])
    BY <1>8, DrainTypes
  <2>2. \A i \in DOMAIN sent : sent[i].type # "synchronized"
    BY <2>1 DEF Observation
  <2>3. CASE ~Linked
    BY <1>8, <2>1, <2>3 DEF ToServer, Numbered, InFlight, InStep, Linked
  <2>4. CASE Linked
    <3>1. up' = up \o sent /\ Len(up) \in Nat /\ DOMAIN up = 1..Len(up)
      BY <1>t, <2>1, <2>4, LenProperties DEF ToServer, Linked
    <3>2. \A i \in DOMAIN up : i \in DOMAIN up' /\ up'[i] = up[i]
      BY <1>t, <3>1, Appended
    <3>3. \A i \in DOMAIN up' :
            \/ i \in DOMAIN up /\ up'[i] = up[i]
            \/ i \notin DOMAIN up /\ up'[i].type # "synchronized"
      BY <1>t, <2>2, <3>1, Appended
    <3>4. InFlight' /\ Numbered'
      BY <1>t, <1>8, <2>4 DEF InFlight, Numbered, Linked
    <3>5. CASE server.phase = "synchronizing"
      <4>1. /\ down = <<>> /\ up # <<>> /\ up[1].type = "synchronized"
            /\ \A i \in DOMAIN up : i # 1 => up[i].type # "synchronized"
        BY <1>8, <2>4, <3>5 DEF InStep
      <4>2. 1 \in DOMAIN up
        BY <1>t, <4>1, Behead
      <4>3. up' # <<>> /\ up'[1].type = "synchronized"
        BY <3>2, <4>1, <4>2
      <4>4. \A i \in DOMAIN up' : i # 1 => up'[i].type # "synchronized"
        BY <3>3, <4>1
      <4>5. InStep'
        BY <1>8, <3>5, <4>1, <4>3, <4>4 DEF InStep
      <4> QED
        BY <3>4, <4>5
    <3>6. CASE server.phase = "ready"
      <4>1. \A i \in DOMAIN up' : up'[i].type # "synchronized"
        BY <2>4, <3>3, <3>6 DEF InStep
      <4>2. InStep'
        BY <1>8, <3>6, <4>1 DEF InStep
      <4> QED
        BY <3>4, <4>2
    <3> QED
      BY <1>t, <1>8, <2>4, <3>5, <3>6 DEF InStep
  <2> QED
    BY <2>3, <2>4
<1>9. CASE Drain
  <2>1. /\ SendReports(outbox, <<>>) /\ outbox \in [Biots -> Reports]
        /\ agent.phase = "ready" /\ UNCHANGED <<server, agent, made, hellos, claiming, down>>
    BY <1>9 DEF Drain, NodeTypeOK, serverVars
  <2> QED
    BY <1>8, <2>1
<1>10. CASE Announce
  <2> DEFINE rows == [b \in Biots |-> IF receipt[b] # NoReport THEN receipt[b] ELSE outbox[b]]
  <2>1. /\ SendReports(rows, <<[type |-> "node_observation", orphans |-> Orphans]>>)
        /\ rows \in [Biots -> Reports]
        /\ agent.phase = "ready" /\ agent'.phase = "ready" /\ agent'.conn = agent.conn
        /\ UNCHANGED <<server, made, hellos, claiming, down>>
    BY <1>10 DEF Announce, NodeTypeOK, serverVars, LinkTypeOK, Agents
  <2> HIDE DEF rows
  <2> QED
    BY <1>8, <2>1
<1>11. CASE NodeDisconnects \/ NodeLosesLink \/ NodeCrashes
  <2>1. /\ agent'.conn = 0 /\ agent'.phase = "down" /\ down' = <<>>
        /\ UNCHANGED <<server, up, made, hellos, claiming>>
    BY <1>11 DEF NodeDisconnects, NodeLosesLink, NodeCrashes, Disconnect, serverVars, Disconnected
  <2> QED
    BY <1>t, <2>1 DEF Numbered, InFlight, InStep, Linked
<1> QED
  BY <1>2, <1>4, <1>5, <1>6, <1>7, <1>9, <1>10, <1>11 DEF NodeNext

\* Before the first connection the two ends agree.
LEMMA ConnectionStart == DeliveryInit => ConnectionInv
  BY DEF DeliveryInit, ConnectionInv, Numbered, InFlight, InStep, Linked, NoConnection, Disconnected

\* What every step keeps: the types and the agreement of the two ends.
LinkInv == DeliveryTypeOK /\ ConnectionInv

\* The server, the link and the node begin in the invariant.
LEMMA LinkStart == DeliveryInit => LinkInv
  BY LifecycleStart, LinkTypeStart, NodeTypeStart, ConnectionStart
     DEF LinkInv, DeliveryTypeOK, DeliveryInit

\* Every step keeps the types and the agreement of the two ends.
LEMMA LinkStep == LinkInv /\ [DeliveryNext]_deliveryVars => LinkInv'
<1> SUFFICES ASSUME LinkInv, [DeliveryNext]_deliveryVars PROVE LinkInv'
  OBVIOUS
<1>1. LifecycleInv /\ LinkTypeOK /\ NodeTypeOK /\ ConnectionInv
  BY DEF LinkInv, DeliveryTypeOK
<1>2. LifecycleInv' /\ LinkTypeOK' /\ NodeTypeOK'
  BY <1>1, RowsStep, LinkTypeStep, NodeTypeStep
<1>3. ConnectionInv'
  <2>1. CASE UNCHANGED deliveryVars
    BY <1>1, <2>1 DEF deliveryVars, serverVars, linkVars, nodeVars,
                      ConnectionInv, Numbered, InFlight, InStep, Linked
  <2> QED
    BY <1>1, <2>1, ServerConnectionStep, NodeConnectionStep DEF DeliveryNext
<1> QED
  BY <1>2, <1>3 DEF LinkInv, DeliveryTypeOK

\* Every variable keeps its type and the two ends of a connection never differ
\* by more than what is in flight between them.
THEOREM LinkTheorem == DeliverySpec => []LinkInv
  BY LinkStart, LinkStep, PTL DEF DeliverySpec

\* connection.ex (server) 563 and connection.ex (node) 472: neither end closes a
\* connection because a message of the other came in the wrong phase.
THEOREM ProtocolTheorem == DeliverySpec => []NoProtocolError
<1>1. LinkInv => NoProtocolError
  <2> SUFFICES ASSUME LinkInv, Linked PROVE ~UnexpectedByServer /\ ~UnexpectedByNode
    BY DEF NoProtocolError, Linked
  <2>1. /\ LinkTypeOK /\ Numbered /\ InFlight /\ InStep
    BY DEF LinkInv, DeliveryTypeOK, ConnectionInv
  <2>2. /\ down \in Seq(DownMessages) /\ up \in Seq(UpMessages)
        /\ agent.phase \in {"down", "handshake", "synchronizing", "ready"}
        /\ server.phase \in {"none", "snapshot", "synchronizing", "ready"}
    BY <2>1 DEF LinkTypeOK, Servers, Agents
  <2>3. ASSUME down # <<>> PROVE agent.phase = Expected(Head(down).type)
    <3>1. Head(down) = down[1] /\ 1 \in DOMAIN down
      BY <2>2, <2>3, Behead
    <3>2. \/ agent.phase = "handshake" /\ Head(down).type \in {"connected", "reject"}
          \/ agent.phase = "synchronizing" /\ Head(down).type = "snapshot"
          \/ agent.phase = "ready" /\ Head(down).type = "desired"
      BY <2>1, <2>2, <2>3, <3>1 DEF InFlight
    <3> QED
      BY <3>2, Zenon DEF Expected
  <2>4. ASSUME up # <<>>
        PROVE  server.phase = IF Head(up).type = "synchronized" THEN "synchronizing" ELSE "ready"
    <3>1. Head(up) = up[1] /\ 1 \in DOMAIN up
      BY <2>2, <2>4, Behead
    <3> QED
      BY <2>1, <2>2, <2>4, <3>1 DEF InStep, Numbered
  <2> QED
    BY <2>3, <2>4 DEF UnexpectedByServer, UnexpectedByNode
<1> QED
  BY <1>1, LinkTheorem, PTL

-----------------------------------------------------------------------------
(* What is put on the link, and where desired values come from.            *)

\* What a wake or a sweep may send.
Sendable(c) == c \in toWake \/ Included(c)

\* What a step can do to the messages on their way to the node.
DownMoves ==
  \/ down' \in {down, <<>>}
  \/ /\ down = <<>> /\ down' \in Seq(DownMessages)
     /\ Len(down') = 1 /\ down'[1].type \in {"connected", "reject"}
  \/ down # <<>> /\ down' = Tail(down)
  \/ /\ Linked /\ server.phase = "snapshot" /\ server.todo = {}
     /\ down' = down \o <<[type |-> "snapshot", specs |-> server.items]>>
  \/ /\ Linked /\ server.phase = "ready"
     /\ \E q \in Seq(DownMessages) :
          /\ down' = down \o q
          /\ \A i \in DOMAIN q : \E c \in Biots : Sendable(c) /\ q[i] = DesiredMessage(c)

\* connection.ex: what a step may do to the messages on their way to the node.
LEMMA DownStep ==
  ASSUME LinkInv, [DeliveryNext]_deliveryVars
  PROVE  DownMoves
<1>0. /\ LifecycleInv /\ LinkTypeOK /\ NodeTypeOK /\ Numbered /\ InFlight /\ InStep
      /\ LinkTypeOK' /\ down' \in Seq(DownMessages)
  BY LinkStep DEF LinkInv, DeliveryTypeOK, ConnectionInv, LinkTypeOK
<1>1. ASSUME down' \in {down, <<>>} PROVE DownMoves
  BY <1>1 DEF DownMoves
<1>2. CASE UNCHANGED deliveryVars \/ ReloadNodes \/ \E b \in Biots : Request(b) \/ LoseWake(b) \/ BuildItem(b)
  <2>1. down' = down
    BY <1>2 DEF deliveryVars, linkVars, Request, LoseWake, BuildItem, ReloadNodes
  <2> QED
    BY <1>1, <2>1
<1>3. ASSUME NEW c \in 1..MaxConnections, Authenticate(c) \/ DropHello(c) PROVE DownMoves
  BY <1>1, <1>3 DEF Authenticate, DropHello
<1>4. ASSUME NEW c \in 1..MaxConnections, RejectHello(c) \/ ClaimNode(c)
      PROVE  DownMoves
  <2>1. CASE agent.conn # c
    BY <1>1, <1>4, <2>1 DEF RejectHello, ClaimNode
  <2>2. CASE agent.conn = c
    <3>1. c \in hellos \cup claiming
      BY <1>4 DEF RejectHello, ClaimNode
    <3>2. down = <<>>
      BY <1>0, <2>2, <3>1 DEF Numbered
    <3>3. \E type \in {"connected", "reject"} : down' = <<[type |-> type]>>
      BY <1>4, <2>2 DEF RejectHello, ClaimNode
    <3>4. PICK type \in {"connected", "reject"} : down' = <<[type |-> type]>>
      BY <3>3
    <3> DEFINE m == [type |-> type]
    <3>5. m.type \in {"connected", "reject"} /\ down' = <<m>>
      BY <3>4
    <3> HIDE DEF m
    <3>6. Len(down') = 1 /\ down'[1].type \in {"connected", "reject"}
      BY <3>5
    <3> QED
      BY <1>0, <3>2, <3>6 DEF DownMoves
  <2> QED
    BY <2>1, <2>2
<1>5. CASE SendSnapshot
  <2>1. CASE ~Linked
    BY <1>1, <1>5, <2>1 DEF SendSnapshot, ToNode, Linked
  <2>2. CASE Linked
    BY <1>5, <2>2 DEF SendSnapshot, ToNode, Linked, DownMoves
  <2> QED
    BY <2>1, <2>2
<1>6. ASSUME NEW q \in Seq(DownMessages), \A i \in DOMAIN q : \E c \in Biots : Sendable(c) /\ q[i] = DesiredMessage(c),
             server.phase = "ready", down' = ToNode(q)
      PROVE  DownMoves
  <2>1. CASE ~Linked
    BY <1>1, <1>6, <2>1 DEF ToNode, Linked
  <2>2. CASE Linked
    <3>1. down' = down \o q
      BY <1>6, <2>2 DEF ToNode, Linked
    <3> QED
      BY <1>6, <2>2, <3>1 DEF DownMoves
  <2> QED
    BY <2>1, <2>2
<1>7. ASSUME NEW b \in Biots, HandleWake(b) PROVE DownMoves
  <2> DEFINE m == DesiredMessage(b)
  <2>1. m \in DownMessages
    BY <1>0, SentTypes
  <2>5. server.phase = "ready" => \E c \in Biots : Sendable(c) /\ m = DesiredMessage(c)
    BY <1>7 DEF HandleWake, Sendable
  <2>2. down' = IF server.phase = "ready" THEN ToNode(<<m>>) ELSE down
    BY <1>7 DEF HandleWake
  <2> HIDE DEF m
  <2>3. <<m>> \in Seq(DownMessages) /\ \A i \in DOMAIN <<m>> : <<m>>[i] = m
    BY <2>1
  <2>4. server.phase = "ready" =>
          \A i \in DOMAIN <<m>> : \E c \in Biots : Sendable(c) /\ <<m>>[i] = DesiredMessage(c)
    BY <2>3, <2>5
  <2> QED
    BY <1>1, <1>6, <2>2, <2>3, <2>4
<1>8. ASSUME NEW bs \in SUBSET Biots, Sweep(bs) PROVE DownMoves
  <2> DEFINE S == {DesiredMessage(b) : b \in bs}
             q == SetToSeq(S)
  <2>1. q \in Seq(DownMessages) /\ q \in Seq(S)
    BY <1>0, SentTypes, SweptMessages
  <2>2. \A m \in S : \E c \in Biots : Sendable(c) /\ m = DesiredMessage(c)
    BY <1>8 DEF Sweep, Sendable
  <2>3. down' = ToNode(q) /\ server.phase = "ready"
    BY <1>8 DEF Sweep
  <2> HIDE DEF S, q
  <2>4. \A i \in DOMAIN q : \E c \in Biots : Sendable(c) /\ q[i] = DesiredMessage(c)
    BY <2>1, <2>2, ElementOfSeq, LenProperties
  <2> QED
    BY <1>6, <2>1, <2>3, <2>4
<1>9. CASE HandleSynchronized \/ HandleObservation \/ HandleNodeObservation
             \/ ServerCloses \/ ServerLosesLink \/ ServerCrashes
  BY <1>1, <1>9 DEF HandleSynchronized, HandleObservation, HandleNodeObservation, ServerCloses,
                    ServerLosesLink, ServerCrashes, EndConnection
<1>10. CASE Dial \/ Drain \/ Announce \/ NodeDisconnects \/ NodeLosesLink \/ NodeCrashes
  BY <1>1, <1>10 DEF Dial, Drain, Announce, NodeDisconnects, NodeLosesLink, Disconnect, NodeCrashes
<1>11. CASE HandleConnected \/ CommitSnapshot \/ HandleDesired
  BY <1>11 DEF HandleConnected, CommitSnapshot, HandleDesired, DownMoves
<1>12. ASSUME NEW b \in Biots, ControllerNext(b) PROVE DownMoves
  BY <1>0, <1>1, <1>12, ControllerMoves DEF controlUnchanged, linkVars
<1> QED
  BY <1>2, <1>3, <1>4, <1>5, <1>7, <1>8, <1>9, <1>10, <1>11, <1>12
     DEF DeliveryNext, ServerNext, NodeNext

\* Whatever is on its way was on its way before, or comes from the server's row
\* or from the snapshot it has just sent.
LEMMA SentStep ==
  ASSUME LinkInv, [DeliveryNext]_deliveryVars
  PROVE  \A i \in DOMAIN down' :
           \/ \E j \in DOMAIN down : down'[i] = down[j]
           \/ down'[i].type \in {"connected", "reject"}
           \/ down'[i] = [type |-> "snapshot", specs |-> server.items]
           \/ \E c \in Biots : Sendable(c) /\ down'[i] = DesiredMessage(c)
<1>1. down \in Seq(DownMessages) /\ LifecycleInv /\ LinkTypeOK /\ NodeTypeOK
  BY DEF LinkInv, DeliveryTypeOK, LinkTypeOK
<1> SUFFICES ASSUME NEW i \in DOMAIN down'
             PROVE  \/ \E j \in DOMAIN down : down'[i] = down[j]
                    \/ down'[i].type \in {"connected", "reject"}
                    \/ down'[i] = [type |-> "snapshot", specs |-> server.items]
                    \/ \E c \in Biots : Sendable(c) /\ down'[i] = DesiredMessage(c)
  OBVIOUS
<1>2. CASE down' \in {down, <<>>}
  <2>1. down' # <<>>
    OBVIOUS
  <2> QED
    BY <1>2, <2>1
<1>3. CASE /\ down' \in Seq(DownMessages)
           /\ Len(down') = 1 /\ down'[1].type \in {"connected", "reject"}
  BY <1>3, LenProperties
<1>4. CASE down # <<>> /\ down' = Tail(down)
  BY <1>1, <1>4, Behead
<1>5. CASE down' = down \o <<[type |-> "snapshot", specs |-> server.items]>>
  <2> DEFINE m == [type |-> "snapshot", specs |-> server.items]
  <2>1. m \in DownMessages /\ down' = down \o <<m>>
    BY <1>1, <1>5, SentTypes
  <2> HIDE DEF m
  <2>2. (\E j \in DOMAIN down : down'[i] = down[j]) \/ down'[i] = m
    BY <1>1, <2>1, AppendedOne
  <2> QED
    BY <2>2 DEF m
<1>6. ASSUME NEW q \in Seq(DownMessages), down' = down \o q,
             \A k \in DOMAIN q : \E c \in Biots : Sendable(c) /\ q[k] = DesiredMessage(c)
      PROVE  (\E j \in DOMAIN down : down'[i] = down[j])
               \/ \E c \in Biots : Sendable(c) /\ down'[i] = DesiredMessage(c)
  BY <1>1, <1>6, Appended
<1> QED
  BY <1>2, <1>3, <1>4, <1>5, <1>6, DownStep DEF DownMoves

\* A controller works for its own specification or for the journal's, and what
\* it reports is a report on one of them.
LEMMA ControllerSpecs ==
  ASSUME NodeTypeOK, NEW c \in Biots, ControllerNext(c), NEW b \in Biots
  PROVE  /\ ctl'[b].spec \in {NoIntent, ctl[b].spec, intent[b]}
         /\ outbox'[b] # outbox[b] =>
              outbox'[b].revision \in {ctl[b].spec.revision, intent[b].revision}
         /\ receipt'[b] # receipt[b] =>
              receipt'[b].revision \in {ctl[b].spec.revision, intent[b].revision}
<1> DEFINE Goal == /\ ctl'[b].spec \in {NoIntent, ctl[b].spec, intent[b]}
                   /\ outbox'[b] # outbox[b] =>
                        outbox'[b].revision \in {ctl[b].spec.revision, intent[b].revision}
                   /\ receipt'[b] # receipt[b] =>
                        receipt'[b].revision \in {ctl[b].spec.revision, intent[b].revision}
<1>1. ASSUME UNCHANGED <<outbox, ctl, journalVars>>
      PROVE  Goal
  BY <1>1 DEF journalVars
<1>2. ASSUME UNCHANGED <<outbox, journalVars, stray>>,
             \E phase \in {"recovering", "backing_off"} : ctl' = [ctl EXCEPT ![c].phase = phase]
      PROVE  Goal
  <2>1. UNCHANGED <<outbox, receipt>>
    BY <1>2 DEF journalVars
  <2>2. PICK phase \in {"recovering", "backing_off"} : ctl' = [ctl EXCEPT ![c] = [ctl[c] EXCEPT !.phase = phase]]
    BY <1>2
  <2>3. [ctl[c] EXCEPT !.phase = phase].spec = ctl[c].spec
    BY DEF NodeTypeOK, Controllers
  <2>4. ctl'[b].spec = ctl[b].spec
    BY <2>2, <2>3 DEF NodeTypeOK
  <2> QED
    BY <2>1, <2>4
<1>3. ASSUME NEW a \in Controllers, a.spec \in {ctl[c].spec, intent[c]}, NEW h \in Hosts,
             NEW record \in Retries, Inspect(c, a, h, record)
      PROVE  Goal
  <2>1. Report(a, h).revision = a.spec.revision
    BY ReportType
  <2>2. /\ outbox' = [outbox EXCEPT ![c] = Report(a, h)]
        /\ InspectEnds(c, a, h) \/ InspectStarts(c, a, h, record) \/ InspectStays(c, a, h, record)
    BY <1>3, InspectOutcome
  <2>3. receipt' \in {receipt, [receipt EXCEPT ![c] = Report(a, h)]}
    BY <2>2 DEF InspectEnds, InspectStarts, InspectStays
  <2>4. \/ ctl' = [ctl EXCEPT ![c] = NoController]
        \/ ctl' = [ctl EXCEPT ![c] = StartedAction(a, h)]
        \/ ctl' = [ctl EXCEPT ![c] = a]
        \/ ctl' = [ctl EXCEPT ![c] = [a EXCEPT !.phase = "cancelling"]]
    BY <2>2 DEF InspectEnds, InspectStarts, InspectStays
  <2>5. ctl'[b].spec \in {NoIntent, ctl[b].spec, intent[b]}
    <3>1. NoController.spec = NoIntent
      BY DEF NoController
    <3>2. StartedAction(a, h).spec = a.spec
      BY DEF StartedAction, Controllers
    <3>3. [a EXCEPT !.phase = "cancelling"].spec = a.spec
      BY DEF Controllers
    <3>5. CASE ctl' = [ctl EXCEPT ![c] = NoController]
      BY <3>1, <1>3, <3>5 DEF NodeTypeOK
    <3>6. CASE ctl' = [ctl EXCEPT ![c] = StartedAction(a, h)]
      BY <3>2, <1>3, <3>6 DEF NodeTypeOK
    <3>7. CASE ctl' = [ctl EXCEPT ![c] = a]
      BY <1>3, <3>7 DEF NodeTypeOK
    <3>8. CASE ctl' = [ctl EXCEPT ![c] = [a EXCEPT !.phase = "cancelling"]]
      BY <3>3, <1>3, <3>8 DEF NodeTypeOK
    <3> QED
      BY <2>4, <3>5, <3>6, <3>7, <3>8
  <2> QED
    BY <1>3, <2>1, <2>2, <2>3, <2>5 DEF NodeTypeOK
<1>4. ASSUME NEW x \in Controllers, x.spec = ctl[c].spec, NEW h \in Hosts, NEW record \in Retries,
             ReloadIntent(c, x, h, record)
      PROVE  Goal
  <2>1. CASE /\ ctl' = [ctl EXCEPT ![c] = NoController]
             /\ UNCHANGED <<outbox, receipt, retry>>
    BY <2>1 DEF NodeTypeOK, NoController
  <2>2. ASSUME NEW a \in Controllers, Inspect(c, a, h, record), a = x \/ a.spec = intent[c]
        PROVE  Goal
    BY <1>3, <1>4, <2>2
  <2> HIDE DEF Goal
  <2> QED
    BY <1>4, <2>1, <2>2, ReloadOutcome
<1>5. host'[c] \in Hosts
  BY ControllerTypes DEF NodeTypeOK
<1> HIDE DEF Goal
<1>6. Goal
  <2>1. ASSUME NEW x \in Controllers, NEW record \in Retries, x.spec = ctl[c].spec,
               ReloadIntent(c, x, host'[c], record) \/ Inspect(c, x, host'[c], record)
        PROVE  Goal
    BY <1>3, <1>4, <1>5, <2>1
  <2>2. \/ UNCHANGED <<outbox, ctl, journalVars>>
        \/ /\ UNCHANGED <<outbox, journalVars, stray>>
           /\ \E phase \in {"recovering", "backing_off"} : ctl' = [ctl EXCEPT ![c].phase = phase]
        \/ \E x \in Controllers, record \in Retries :
             /\ x.spec = ctl[c].spec
             /\ ReloadIntent(c, x, host'[c], record) \/ Inspect(c, x, host'[c], record)
    BY ControllerMoves
  <2> QED
    BY <1>1, <1>2, <2>1, <2>2, Zenon
<1> QED
  BY <1>6 DEF Goal

\* A controller is announced with the journal's intent.
LEMMA AnnouncedSpecs ==
  ASSUME NodeTypeOK, NEW bs, AnnounceIntents(bs), NEW b \in Biots
  PROVE  ctl'[b].spec \in {ctl[b].spec, intent'[b]}
  BY DEF AnnounceIntents, Started, NoController

\* No step invents a desired value: what is held or sent is what was held or
\* sent before, or the row as the step leaves it.
LEMMA SpecsStep ==
  ASSUME LinkInv, [DeliveryNext]_deliveryVars, NEW b \in Biots
  PROVE  SpecsOf(b)' \subseteq SpecsOf(b) \cup {biot'[b]}
<1>0. /\ LifecycleInv /\ LinkTypeOK /\ NodeTypeOK
      /\ down \in Seq(DownMessages) /\ server \in Servers
  BY DEF LinkInv, DeliveryTypeOK, LinkTypeOK
<1>1. SpecsSent(b)' \subseteq SpecsOf(b)
  <2> SUFFICES ASSUME NEW i \in DOMAIN down',
                      down'[i].type = "snapshot" \/ (down'[i].type = "desired" /\ down'[i].biot = b)
               PROVE  (IF down'[i].type = "snapshot" THEN down'[i].specs[b] ELSE down'[i].spec)
                        \in SpecsOf(b)
    BY DEF SpecsSent
  <2>1. ASSUME NEW j \in DOMAIN down, down'[i] = down[j]
        PROVE  (IF down'[i].type = "snapshot" THEN down'[i].specs[b] ELSE down'[i].spec)
                        \in SpecsOf(b)
    BY <2>1 DEF SpecsOf, SpecsSent
  <2>2. CASE down'[i] = [type |-> "snapshot", specs |-> server.items]
    BY <2>2 DEF SpecsOf, SpecsHeld
  <2>3. ASSUME NEW c \in Biots, down'[i] = DesiredMessage(c)
        PROVE  (IF down'[i].type = "snapshot" THEN down'[i].specs[b] ELSE down'[i].spec)
                        \in SpecsOf(b)
    <3>1. down'[i].type = "desired" /\ down'[i].biot = c /\ down'[i].spec = biot[c]
      BY <2>3 DEF DesiredMessage
    <3> QED
      BY <3>1 DEF SpecsOf, SpecsHeld
  <2> QED
    BY <2>1, <2>2, <2>3, SentStep
<1>2. intent'[b] \in SpecsOf(b)
  <2>1. CASE CommitSnapshot
    <3>1. down # <<>> /\ intent' = Head(down).specs /\ Head(down).type = "snapshot"
      BY <2>1 DEF CommitSnapshot
    <3>2. 1 \in DOMAIN down /\ Head(down) = down[1]
      BY <1>0, <3>1, Behead
    <3> QED
      BY <3>1, <3>2 DEF SpecsOf, SpecsSent
  <2>2. CASE HandleDesired
    <3>1. /\ down # <<>> /\ Head(down).type = "desired"
          /\ intent' = [intent EXCEPT ![Head(down).biot] = Head(down).spec]
      BY <2>2 DEF HandleDesired
    <3>2. 1 \in DOMAIN down /\ Head(down) = down[1]
      BY <1>0, <3>1, Behead
    <3>3. intent'[b] = intent[b] \/ (Head(down).biot = b /\ intent'[b] = Head(down).spec)
      BY <1>0, <3>1 DEF NodeTypeOK
    <3> QED
      BY <3>1, <3>2, <3>3 DEF SpecsOf, SpecsSent, SpecsHeld
  <2>3. CASE ~CommitSnapshot /\ ~HandleDesired
    <3>1. intent' = intent
      <4>1. ASSUME NEW c \in Biots, ControllerNext(c) PROVE intent' = intent
        BY <1>0, <4>1, ControllerMoves
      <4>2. CASE ServerNext \/ UNCHANGED deliveryVars
        BY <4>2, ServerLeavesNode DEF deliveryVars, nodeVars, journalVars, NodeStateStays
      <4>3. CASE Dial \/ HandleConnected \/ Drain \/ Announce \/ NodeDisconnects \/ NodeLosesLink
                   \/ NodeCrashes
        BY <4>3 DEF Dial, HandleConnected, Drain, Announce, NodeDisconnects, NodeLosesLink,
                    Disconnect, NodeCrashes, journalVars
      <4> QED
        BY <2>3, <4>1, <4>2, <4>3 DEF DeliveryNext, NodeNext
    <3> QED
      BY <3>1 DEF SpecsOf, SpecsHeld
  <2> QED
    BY <2>1, <2>2, <2>3
<1>3. ctl'[b].spec \in SpecsOf(b)
  <2>0. {NoIntent, intent[b], ctl[b].spec, intent'[b]} \subseteq SpecsOf(b)
    BY <1>2 DEF SpecsOf, SpecsHeld
  <2>1. ASSUME NEW c \in Biots, ControllerNext(c) PROVE ctl'[b].spec \in SpecsOf(b)
    BY <1>0, <2>0, <2>1, ControllerSpecs
  <2>2. CASE CommitSnapshot \/ HandleDesired
    BY <1>0, <2>0, <2>2, AnnouncedSpecs DEF CommitSnapshot, HandleDesired
  <2>3. CASE NodeCrashes
    <3>1. ctl'[b] \in {Started(intent[b], retry[b]), NoController}
      BY <2>3 DEF NodeCrashes
    <3>2. ctl'[b].spec \in {intent[b], NoIntent}
      <4>1. Started(intent[b], retry[b]).spec = intent[b] /\ NoController.spec = NoIntent
        BY DEF Started, NoController
      <4> QED
        BY <3>1, <4>1
    <3> QED
      BY <2>0, <3>2
  <2>4. CASE ServerNext \/ UNCHANGED deliveryVars
    <3>1. ctl' = ctl
      BY <2>4, ServerLeavesNode DEF deliveryVars, nodeVars, controllerVars, NodeStateStays
    <3> QED
      BY <2>0, <3>1
  <2>5. CASE Dial \/ HandleConnected \/ Drain \/ Announce \/ NodeDisconnects \/ NodeLosesLink
    <3>1. ctl' = ctl
      BY <2>5 DEF Dial, HandleConnected, Drain, Announce, NodeDisconnects, NodeLosesLink,
                  Disconnect, controllerVars
    <3> QED
      BY <2>0, <3>1
  <2> QED
    BY <2>1, <2>2, <2>3, <2>4, <2>5 DEF DeliveryNext, NodeNext
<1>4. server'.items[b] \in SpecsOf(b)
  <2>0. {NoIntent, biot[b], server.items[b]} \subseteq SpecsOf(b)
    BY DEF SpecsOf, SpecsHeld
  <2>1. ASSUME NEW c \in Biots, BuildItem(c) PROVE server'.items[b] \in {biot[b], server.items[b]}
    BY <1>0, <2>1 DEF BuildItem, Servers
  <2>2. CASE \E c \in 1..MaxConnections : ClaimNode(c)
    BY <2>0, <2>2 DEF ClaimNode, NoSpecs
  <2>3. CASE SendSnapshot \/ HandleSynchronized
    <3>1. server'.items \in {NoSpecs, server.items}
      BY <1>0, <2>3 DEF SendSnapshot, HandleSynchronized, Servers
    <3> QED
      BY <2>0, <3>1 DEF NoSpecs
  <2>4. CASE ServerCloses \/ ServerLosesLink \/ ServerCrashes
    BY <2>0, <2>4 DEF ServerCloses, ServerLosesLink, ServerCrashes, EndConnection, NoConnection, NoSpecs
  <2>5. CASE NodeNext \/ UNCHANGED deliveryVars
    <3>1. ASSUME NEW c \in Biots, ControllerNext(c) PROVE server' = server
      BY <1>0, <3>1, ControllerMoves DEF controlUnchanged, serverVars
    <3>2. server' = server
      BY <2>5, <3>1 DEF NodeNext, Dial, HandleConnected, CommitSnapshot, HandleDesired, Drain,
                        Announce, NodeDisconnects, NodeLosesLink, Disconnect, NodeCrashes,
                        deliveryVars, serverVars
    <3> QED
      BY <2>0, <3>2
  <2>6. ASSUME NEW c, Authenticate(c) \/ RejectHello(c) \/ DropHello(c) \/ Request(c) \/ LoseWake(c)
                      \/ HandleWake(c) \/ Sweep(c) \/ ReloadNodes \/ HandleObservation
                      \/ HandleNodeObservation
        PROVE  server' = server
    BY <2>6 DEF Authenticate, RejectHello, DropHello, Request, LoseWake, HandleWake, Sweep,
                ReloadNodes, HandleObservation, HandleNodeObservation, serverVars
  <2> QED
    BY <2>0, <2>1, <2>2, <2>3, <2>4, <2>5, <2>6 DEF DeliveryNext, ServerNext
<1> QED
  BY <1>1, <1>2, <1>3, <1>4 DEF SpecsOf, SpecsHeld

\* Whatever somebody holds or is sent is a specification.
LEMMA SpecsAreSpecs ==
  ASSUME LinkInv, NEW b \in Biots
  PROVE  SpecsOf(b) \subseteq Specs
<1>0. /\ LifecycleInv /\ NodeTypeOK /\ down \in Seq(DownMessages) /\ server \in Servers
  BY DEF LinkInv, DeliveryTypeOK, LinkTypeOK
<1>1. SpecsSent(b) \subseteq Specs
  <2>1. \A i \in DOMAIN down : down[i] \in DownMessages
    BY <1>0, ElementOfSeq, LenProperties
  <2> QED
    BY <2>1, DownTypes DEF SpecsSent
<1>2. SpecsHeld(b) \subseteq Specs
  BY <1>0, RowsAreSpecs, NothingTypes DEF SpecsHeld, NodeTypeOK, Controllers, Servers
<1> QED
  BY <1>1, <1>2 DEF SpecsOf

\* Before a biot is created, nothing of it is held anywhere.
LEMMA OneValueStart == DeliveryInit => OneValuePerRevision
  BY DEF DeliveryInit, LifecycleInit, OneValuePerRevision, SpecsOf, SpecsHeld, SpecsSent, NoIntent,
         NotCreated, NoController, NoConnection, NoSpecs

\* connection.ex, journal.ex: a step copies desired values, or makes one of a new revision.
LEMMA OneValueStep ==
  LinkInv /\ OneValuePerRevision /\ [DeliveryNext]_deliveryVars => OneValuePerRevision'
<1> SUFFICES ASSUME LinkInv, OneValuePerRevision, [DeliveryNext]_deliveryVars, NEW b \in Biots,
                    NEW s \in SpecsOf(b)', NEW t \in SpecsOf(b)'
             PROVE  s.revision <= biot'[b].revision /\ (s.revision = t.revision => s = t)
  BY DEF OneValuePerRevision
<1>1. s \in SpecsOf(b) \cup {biot'[b]} /\ t \in SpecsOf(b) \cup {biot'[b]} /\ biot[b] \in SpecsOf(b)
  BY SpecsStep DEF SpecsOf, SpecsHeld
<1>2. \A x, y \in SpecsOf(b) : x.revision <= biot[b].revision /\ (x.revision = y.revision => x = y)
  BY DEF OneValuePerRevision
<1>3. \A x \in SpecsOf(b) : x.revision \in Nat
  BY SpecsAreSpecs DEF Specs
<1>4. biot'[b] = biot[b] \/ biot'[b].revision = biot[b].revision + 1
  BY RowsStep DEF RowsMove, LinkInv, DeliveryTypeOK
<1> QED
  BY <1>1, <1>2, <1>3, <1>4

\* Two values of one revision that somebody holds are the same.
LEMMA SameRevision ==
  ASSUME OneValuePerRevision, NEW b \in Biots, ctl[b].spec.revision = intent[b].revision
  PROVE  ctl[b].spec = intent[b]
  BY DEF OneValuePerRevision, SpecsOf, SpecsHeld

\* A reload leaves no controller, or one of the journal's revision.
LEMMA ReloadFollows ==
  ASSUME NodeTypeOK, OneValuePerRevision, NEW b \in Biots, NEW c \in Controllers, NEW h \in Hosts,
         NEW record \in Retries, c.spec = ctl[b].spec, ReloadIntent(b, c, h, record)
  PROVE  ctl'[b].phase # "running" \/ ctl'[b].spec = intent[b]
<1>1. CASE ctl' = [ctl EXCEPT ![b] = NoController]
  BY <1>1 DEF NoController, NodeTypeOK
<1>2. ASSUME NEW a \in Controllers, a.spec = intent[b], Inspect(b, a, h, record)
      PROVE  ctl'[b].phase # "running" \/ ctl'[b].spec = intent[b]
  <2>1. InspectEnds(b, a, h) \/ InspectStarts(b, a, h, record) \/ InspectStays(b, a, h, record)
    BY <1>2, InspectOutcome
  <2>2. StartedAction(a, h).spec = a.spec /\ [a EXCEPT !.phase = "cancelling"].spec = a.spec
    BY DEF StartedAction, Controllers
  <2>3. CASE InspectEnds(b, a, h)
    BY <1>1, <2>3 DEF InspectEnds
  <2>4. CASE InspectStarts(b, a, h, record)
    BY <1>2, <2>2, <2>4 DEF InspectStarts, NodeTypeOK
  <2>5. CASE InspectStays(b, a, h, record)
    BY <1>2, <2>2, <2>5 DEF InspectStays, NodeTypeOK
  <2> QED
    BY <2>1, <2>3, <2>4, <2>5
<1>3. c.spec.revision = intent[b].revision => c.spec = intent[b]
  BY SameRevision
<1>4. \/ ctl' = [ctl EXCEPT ![b] = NoController]
      \/ \E a \in Controllers :
           /\ a.spec = intent[b] \/ (a = c /\ c.spec.revision = intent[b].revision)
           /\ Inspect(b, a, h, record)
  BY ReloadOutcome
<1> QED
  BY <1>1, <1>2, <1>3, <1>4

\* A controller that runs an action runs it for the journal's intent, or ran it
\* before.
LEMMA ControllerFollows ==
  ASSUME NodeTypeOK, OneValuePerRevision, NEW b \in Biots, ControllerNext(b)
  PROVE  ctl'[b].phase # "running" \/ ctl'[b].spec = intent[b] \/ ctl'[b] = ctl[b]
<1> DEFINE Goal == ctl'[b].phase # "running" \/ ctl'[b].spec = intent[b] \/ ctl'[b] = ctl[b]
<1>1. /\ ctl[b] \in Controllers /\ retry[b] \in Retries /\ host[b] \in Hosts
      /\ Effect(ctl[b], host[b]) \in Hosts /\ NoRetry \in Retries
      /\ [ctl[b] EXCEPT !.phase = "idle"] \in Controllers
      /\ [ctl[b] EXCEPT !.phase = "idle"].spec = ctl[b].spec
      /\ [ctl[b] EXCEPT !.phase = "idle"].phase = "idle"
  BY EffectType, NothingTypes DEF NodeTypeOK, Controllers, Phases
<1>2. ASSUME NEW c \in Controllers, NEW h \in Hosts, NEW record \in Retries,
             c.spec = ctl[b].spec, ReloadIntent(b, c, h, record)
      PROVE  Goal
  BY <1>2, ReloadFollows
<1>3. ASSUME NEW c \in Controllers, NEW h \in Hosts, c.spec = ctl[b].spec, c.phase = "idle",
             Converge(b, c, h)
      PROVE  Goal
  <2>1. CASE ReloadIntent(b, c, h, retry[b])
    BY <1>1, <1>2, <1>3, <2>1
  <2>2. CASE /\ Starts(c, h) => c.spec.revision = intent[b].revision
             /\ Inspect(b, c, h, retry[b])
    <3>1. InspectEnds(b, c, h) \/ InspectStarts(b, c, h, retry[b]) \/ InspectStays(b, c, h, retry[b])
      BY <1>1, <2>2, InspectOutcome
    <3>2. CASE InspectEnds(b, c, h)
      BY <3>2 DEF InspectEnds, NodeTypeOK, NoController
    <3>3. CASE InspectStarts(b, c, h, retry[b])
      <4>1. c.spec = intent[b]
        BY <1>3, <2>2, <3>3, SameRevision DEF InspectStarts
      <4>2. StartedAction(c, h).spec = c.spec
        BY DEF StartedAction, Controllers
      <4> QED
        BY <3>3, <4>1, <4>2 DEF InspectStarts, NodeTypeOK
    <3>4. CASE InspectStays(b, c, h, retry[b])
      BY <1>3, <3>4 DEF InspectStays, NodeTypeOK
    <3> QED
      BY <3>1, <3>2, <3>3, <3>4
  <2> QED
    BY <1>3, <2>1, <2>2 DEF Converge
<1>4. CASE HandleIntentChanged(b)
  BY <1>1, <1>2, <1>4 DEF HandleIntentChanged
<1>5. CASE Recovered(b)
  <2>1. CASE ctl' = [ctl EXCEPT ![b].phase = "backing_off"]
    BY <1>1, <2>1 DEF NodeTypeOK, Controllers
  <2>2. CASE ReloadIntent(b, [ctl[b] EXCEPT !.phase = "idle"], host[b], retry[b])
    BY <1>1, <1>2, <2>2
  <2> QED
    BY <1>5, <2>1, <2>2 DEF Recovered
<1>6. CASE RetryLater(b)
  BY <1>1, <1>3, <1>6 DEF RetryLater
<1>7. CASE ObserveAgain(b)
  BY <1>1, <1>3, <1>7 DEF ObserveAgain, Settles, Ready
<1>8. CASE Succeed(b) \/ \E policy \in {"automatic", "after_change"} : Fail(b, policy)
  <2>1. \E c \in Controllers, h \in Hosts, record \in Retries :
          c.spec = ctl[b].spec /\ ReloadIntent(b, c, h, record)
    <3>1. ASSUME NEW record \in Retries
          PROVE  /\ Recording(b, record) \in Controllers
                 /\ Recording(b, record).spec = ctl[b].spec
                 /\ [Recording(b, record) EXCEPT !.phase = "backing_off"] \in Controllers
                 /\ [Recording(b, record) EXCEPT !.phase = "backing_off"].spec = ctl[b].spec
                 /\ Journalled(b, record) \in Retries
      BY <1>1 DEF Recording, Journalled, Controllers, Phases
    <3>2. CASE Succeed(b)
      BY <1>1, <3>1, <3>2 DEF Succeed
    <3>3. ASSUME NEW policy \in {"automatic", "after_change"}, Fail(b, policy)
          PROVE  \E c \in Controllers, h \in Hosts, record \in Retries :
                   c.spec = ctl[b].spec /\ ReloadIntent(b, c, h, record)
      <4> DEFINE record == [failure |-> policy, due |-> policy = "automatic"]
      <4>1. record \in Retries
        BY DEF Retries, RetryPolicies
      <4>2. \/ ReloadIntent(b, [Recording(b, record) EXCEPT !.phase = "backing_off"], host[b],
                            Journalled(b, record))
            \/ ReloadIntent(b, Recording(b, record), host[b], Journalled(b, record))
        BY <3>3 DEF Fail
      <4> HIDE DEF record
      <4> QED
        BY <1>1, <3>1, <4>1, <4>2
    <3> QED
      BY <1>8, <3>2, <3>3
  <2> QED
    BY <1>2, <2>1
<1>9. CASE EndCancelled(b)
  BY <1>1, <1>9 DEF EndCancelled, NodeTypeOK, Controllers
<1>10. CASE EndStray(b)
  BY <1>10 DEF EndStray
<1> QED
  BY <1>4, <1>5, <1>6, <1>7, <1>8, <1>9, <1>10 DEF ControllerNext

\* A step of one controller leaves every other biot alone.
LEMMA ControllerLocal ==
  ASSUME NodeTypeOK, NEW b \in Biots, ControllerNext(b), NEW c \in Biots, c # b
  PROVE  /\ ctl'[c] = ctl[c] /\ retry'[c] = retry[c] /\ receipt'[c] = receipt[c]
         /\ outbox'[c] = outbox[c] /\ stray'[c] = stray[c] /\ host'[c] = host[c]
<1> DEFINE Goal == /\ ctl'[c] = ctl[c] /\ retry'[c] = retry[c] /\ receipt'[c] = receipt[c]
                   /\ outbox'[c] = outbox[c] /\ stray'[c] = stray[c]
<1>1. host'[c] = host[c] /\ host'[b] \in Hosts
  BY ControllerMoves, ControllerTypes DEF NodeTypeOK
<1>2. ASSUME NEW a \in Controllers, NEW h \in Hosts, NEW record \in Retries, Inspect(b, a, h, record)
      PROVE  Goal
  <2>1. /\ stray' = stray /\ outbox' = [outbox EXCEPT ![b] = Report(a, h)]
        /\ InspectEnds(b, a, h) \/ InspectStarts(b, a, h, record) \/ InspectStays(b, a, h, record)
    BY <1>2, InspectOutcome
  <2> QED
    BY <2>1 DEF InspectEnds, InspectStarts, InspectStays, NodeTypeOK
<1>3. ASSUME NEW x \in Controllers, NEW h \in Hosts, NEW record \in Retries,
             ReloadIntent(b, x, h, record)
      PROVE  Goal
  <2>1. CASE /\ ctl' = [ctl EXCEPT ![b] = NoController]
             /\ stray' \in {stray, [stray EXCEPT ![b] = x]}
             /\ UNCHANGED <<outbox, receipt, retry>>
    BY <2>1 DEF NodeTypeOK
  <2> HIDE DEF Goal
  <2> QED
    BY <1>2, <1>3, <2>1, ReloadOutcome DEF Goal
<1>4. ASSUME UNCHANGED <<outbox, ctl, journalVars>>,
             stray' \in {stray, [stray EXCEPT ![b] = NoController]}
      PROVE  Goal
  BY <1>4 DEF journalVars, NodeTypeOK
<1>5. ASSUME UNCHANGED <<outbox, journalVars, stray>>, NEW phase, ctl' = [ctl EXCEPT ![b].phase = phase]
      PROVE  Goal
  BY <1>5 DEF journalVars, NodeTypeOK
<1> HIDE DEF Goal
<1>6. Goal
  BY <1>1, <1>2, <1>3, <1>4, <1>5, ControllerMoves
<1> QED
  BY <1>1, <1>6 DEF Goal

-----------------------------------------------------------------------------
(* Controllers and the journal.                                            *)

\* A step of the node's connection or of the server starts no action.
LEMMA OthersStartNothing ==
  ASSUME NodeTypeOK, DeliveryNext, ~(\E c \in Biots : ControllerNext(c)), NEW b \in Biots
  PROVE  ctl'[b] = ctl[b] \/ ctl'[b].phase \in {"none", "recovering"}
<1>1. CASE ServerNext
  BY <1>1, ServerLeavesNode DEF NodeStateStays, controllerVars
<1>2. CASE Dial \/ HandleConnected \/ Drain \/ Announce \/ NodeDisconnects \/ NodeLosesLink
  BY <1>2 DEF Dial, HandleConnected, Drain, Announce, NodeDisconnects, NodeLosesLink, Disconnect,
              controllerVars
<1>3. CASE CommitSnapshot \/ HandleDesired
  BY <1>3 DEF CommitSnapshot, HandleDesired, AnnounceIntents, Started, NoController
<1>4. CASE NodeCrashes
  <2>1. ctl'[b] \in {Started(intent[b], retry[b]), NoController}
    BY <1>4 DEF NodeCrashes
  <2>2. Started(intent[b], retry[b]).phase = "recovering" /\ NoController.phase = "none"
    BY DEF Started, NoController
  <2> QED
    BY <2>1, <2>2
<1> QED
  BY <1>1, <1>2, <1>3, <1>4 DEF DeliveryNext, NodeNext

\* The steps of the link and of the rows keep every invariant below.
ValueInv == LinkInv /\ OneValuePerRevision

\* The server and the node begin with one value per revision.
LEMMA ValueStart == DeliveryInit => ValueInv
  BY LinkStart, OneValueStart DEF ValueInv

\* Every step keeps the link and one value per revision.
LEMMA ValueStep == ValueInv /\ [DeliveryNext]_deliveryVars => ValueInv'
  BY LinkStep, OneValueStep DEF ValueInv

\* A revision names one desired value, wherever it is held or on its way.
THEOREM OneValueTheorem == DeliverySpec => []OneValuePerRevision
<1>1. ValueInv => OneValuePerRevision
  BY DEF ValueInv
<1> QED
  BY <1>1, ValueStart, ValueStep, PTL DEF DeliverySpec

\* biot_controller.ex 348-382 and journal.ex 424-443: an action never starts for
\* an intent that the journal has already replaced.
THEOREM JournalTheorem == DeliverySpec => ActionsFollowJournal
<1>1. ValueInv /\ [DeliveryNext]_deliveryVars
        => [\A b \in Biots :
              ctl'[b].phase = "running" /\ ctl[b].phase # "running" => ctl'[b].spec = intent[b]]_ctl
  <2> SUFFICES ASSUME ValueInv, DeliveryNext, NEW b \in Biots,
                      ctl'[b].phase = "running", ctl[b].phase # "running"
               PROVE  ctl'[b].spec = intent[b]
    BY DEF deliveryVars, nodeVars, controllerVars
  <2>1. NodeTypeOK /\ OneValuePerRevision
    BY DEF ValueInv, LinkInv, DeliveryTypeOK
  <2>2. CASE ~(\E c \in Biots : ControllerNext(c))
    BY <2>1, <2>2, OthersStartNothing
  <2>3. CASE \E c \in Biots : ControllerNext(c)
    BY <2>1, <2>3, ControllerFollows, ControllerLocal
  <2> QED
    BY <2>2, <2>3
<1> QED
  BY <1>1, ValueStart, ValueStep, PTL DEF DeliverySpec, ActionsFollowJournal

\* A handler writes the failure it is given, the one that stands, or none.
LEMMA HandlerFailures ==
  ASSUME NodeTypeOK, NEW b \in Biots, NEW c \in Controllers, NEW h \in Hosts, NEW record \in Retries,
         ReloadIntent(b, c, h, record) \/ Inspect(b, c, h, record)
  PROVE  retry'[b].failure \in {"none", retry[b].failure, record.failure}
<1>1. ASSUME NEW a \in Controllers, Inspect(b, a, h, record)
      PROVE  retry'[b].failure \in {"none", retry[b].failure, record.failure}
  <2>1. InspectEnds(b, a, h) \/ InspectStarts(b, a, h, record) \/ InspectStays(b, a, h, record)
    BY <1>1, InspectOutcome
  <2>2. /\ NoRetry.failure = "none"
        /\ [record EXCEPT !.due = FALSE].failure = record.failure
    BY DEF NoRetry, Retries
  <2> QED
    BY <2>1, <2>2 DEF InspectEnds, InspectStarts, InspectStays, NodeTypeOK
<1> QED
  BY <1>1, ReloadOutcome

\* A failure that the journal did not hold is one the controller's own effect
\* had, under the revision the journal holds.
LEMMA ControllerBlames ==
  ASSUME NodeTypeOK, NEW b \in Biots, ControllerNext(b),
         retry'[b].failure \notin {"none", retry[b].failure}
  PROVE  ctl[b].at = intent[b].revision
<1>1. /\ ctl[b] \in Controllers /\ retry[b] \in Retries /\ host[b] \in Hosts
      /\ Effect(ctl[b], host[b]) \in Hosts /\ NoRetry \in Retries
      /\ [ctl[b] EXCEPT !.phase = "idle"] \in Controllers
  BY EffectType, NothingTypes DEF NodeTypeOK, Controllers, Phases
<1>2. ASSUME NEW c \in Controllers, NEW h \in Hosts,
             ReloadIntent(b, c, h, retry[b]) \/ Inspect(b, c, h, retry[b])
      PROVE  FALSE
  BY <1>1, <1>2, HandlerFailures
<1>3. ASSUME NEW c \in Controllers, NEW h \in Hosts, Converge(b, c, h)
      PROVE  FALSE
  BY <1>2, <1>3 DEF Converge
<1>4. retry' # retry
  OBVIOUS
<1>5. CASE HandleIntentChanged(b)
  BY <1>1, <1>2, <1>4, <1>5 DEF HandleIntentChanged
<1>6. CASE Recovered(b)
  BY <1>1, <1>2, <1>4, <1>6 DEF Recovered
<1>7. CASE RetryLater(b) \/ ObserveAgain(b)
  BY <1>1, <1>3, <1>7 DEF RetryLater, ObserveAgain
<1>8. ASSUME NEW record \in Retries
      PROVE  /\ Recording(b, record) \in Controllers
             /\ [Recording(b, record) EXCEPT !.phase = "backing_off"] \in Controllers
             /\ Journalled(b, record) \in Retries
  BY <1>1 DEF Recording, Journalled, Controllers, Phases
<1>9. CASE Succeed(b)
  <2>1. ReloadIntent(b, Recording(b, NoRetry), Effect(ctl[b], host[b]), Journalled(b, NoRetry))
    BY <1>9 DEF Succeed
  <2>2. Journalled(b, NoRetry).failure \in {"none", retry[b].failure}
    BY DEF Journalled, NoRetry
  <2> QED
    BY <1>1, <1>8, <2>1, <2>2, HandlerFailures
<1>10. ASSUME NEW policy \in {"automatic", "after_change"}, Fail(b, policy)
       PROVE  ctl[b].at = intent[b].revision
  <2> DEFINE record == [failure |-> policy, due |-> policy = "automatic"]
  <2>1. record \in Retries
    BY DEF Retries, RetryPolicies
  <2>2. \/ ReloadIntent(b, [Recording(b, record) EXCEPT !.phase = "backing_off"], host[b],
                        Journalled(b, record))
        \/ ReloadIntent(b, Recording(b, record), host[b], Journalled(b, record))
    BY <1>10 DEF Fail
  <2> HIDE DEF record
  <2>3. retry'[b].failure \in {"none", retry[b].failure, Journalled(b, record).failure}
    BY <1>1, <1>8, <2>1, <2>2, HandlerFailures
  <2>4. Counts(b, ctl[b])
    BY <2>3 DEF Journalled
  <2> QED
    BY <2>4 DEF Counts
<1>11. CASE EndCancelled(b) \/ EndStray(b)
  BY <1>4, <1>11 DEF EndCancelled, EndStray, journalVars
<1> QED
  BY <1>5, <1>6, <1>7, <1>9, <1>10, <1>11 DEF ControllerNext

\* biot_controller.ex 664-674: a failure is recorded against the revision whose
\* effect failed.
THEOREM BlameTheorem == DeliverySpec => FailureBlamesItsRevision
<1>1. LinkInv /\ [DeliveryNext]_deliveryVars
        => [\A b \in Biots :
              retry'[b].failure \notin {"none", retry[b].failure}
                => ctl[b].at = intent[b].revision]_retry
  <2> SUFFICES ASSUME LinkInv, DeliveryNext, NEW b \in Biots,
                      retry'[b].failure \notin {"none", retry[b].failure}
               PROVE  ctl[b].at = intent[b].revision
    BY DEF deliveryVars, nodeVars, journalVars
  <2>1. NodeTypeOK /\ down \in Seq(DownMessages)
    BY DEF LinkInv, DeliveryTypeOK, LinkTypeOK
  <2>2. ASSUME NEW c \in Biots, ControllerNext(c) PROVE ctl[b].at = intent[b].revision
    <3>1. c = b
      BY <2>1, <2>2, ControllerLocal
    <3> QED
      BY <2>1, <2>2, <3>1, ControllerBlames
  <2>3. CASE ServerNext \/ Dial \/ HandleConnected \/ Drain \/ Announce \/ NodeDisconnects
               \/ NodeLosesLink \/ NodeCrashes
    <3>1. retry' = retry
      BY <2>3, ServerLeavesNode
         DEF NodeStateStays, Dial, HandleConnected, Drain, Announce, NodeDisconnects,
             NodeLosesLink, Disconnect, NodeCrashes, journalVars
    <3> QED
      BY <3>1
  <2>4. CASE CommitSnapshot \/ HandleDesired
    <3>1. retry'[b] \in {retry[b], NoRetry}
      BY <2>1, <2>4 DEF CommitSnapshot, HandleDesired, NodeTypeOK
    <3> QED
      BY <3>1 DEF NoRetry
  <2> QED
    BY <2>2, <2>3, <2>4 DEF DeliveryNext, NodeNext
<1> QED
  BY <1>1, LinkStart, LinkStep, PTL DEF DeliverySpec, FailureBlamesItsRevision

\* An effect, and a crash in the middle of effects, never leave an environment
\* installed where nothing is prepared.
LEMMA HostStep ==
  NodeTypeOK /\ HostInv /\ [DeliveryNext]_deliveryVars => HostInv'
<1> SUFFICES ASSUME NodeTypeOK, HostInv, [DeliveryNext]_deliveryVars PROVE HostInv'
  OBVIOUS
<1>1. \A b \in Biots, c \in Controllers :
        ~Effect(c, host[b]).prepared => Effect(c, host[b]).env = NoEnv
  BY EffectType DEF NodeTypeOK, HostInv
<1>2. \A b \in Biots : ctl[b] \in Controllers /\ stray[b] \in Controllers
  BY DEF NodeTypeOK
<1>3. ASSUME host' = host PROVE HostInv'
  BY <1>3 DEF HostInv
<1>4. ASSUME NEW b \in Biots, ControllerNext(b) PROVE HostInv'
  <2>1. host' \in {host, [host EXCEPT ![b] = Effect(ctl[b], host[b])],
                   [host EXCEPT ![b] = Effect(stray[b], host[b])]}
    BY <1>4, ControllerMoves
  <2> QED
    BY <1>1, <1>2, <2>1 DEF HostInv, NodeTypeOK
<1>5. CASE NodeCrashes
  <2>1. \A b \in Biots : host'[b] \in {host[b], Effect(ctl[b], host[b]), Effect(stray[b], host[b])}
    BY <1>5 DEF NodeCrashes
  <2> QED
    BY <1>1, <1>2, <2>1 DEF HostInv
<1>6. CASE ServerNext \/ UNCHANGED deliveryVars
  <2>1. host' = host
    BY <1>6, ServerLeavesNode DEF NodeStateStays, deliveryVars, nodeVars
  <2> QED
    BY <1>3, <2>1
<1>7. CASE Dial \/ HandleConnected \/ CommitSnapshot \/ HandleDesired \/ Drain \/ Announce
             \/ NodeDisconnects \/ NodeLosesLink
  BY <1>3, <1>7 DEF Dial, HandleConnected, CommitSnapshot, HandleDesired, Drain, Announce,
                    NodeDisconnects, NodeLosesLink, Disconnect
<1> QED
  BY <1>4, <1>5, <1>6, <1>7 DEF DeliveryNext, NodeNext

\* biot_controller.ex 517-523: the receipt of a destruction is written when the
\* node holds nothing of the biot, and by a controller that leaves no effect.
THEOREM ReceiptTheorem == DeliverySpec => ReceiptIsLast
<1>1. DeliveryInit => HostInv
  BY DEF DeliveryInit, HostInv, Clean
<1>2. LinkInv /\ HostInv /\ [DeliveryNext]_deliveryVars => HostInv'
  BY HostStep DEF LinkInv, DeliveryTypeOK
<1>3. LinkInv /\ HostInv /\ [DeliveryNext]_deliveryVars
        => [\A b \in Biots : receipt'[b] \notin {receipt[b], NoReport} =>
                               host'[b] = Clean /\ stray'[b] = stray[b]]_receipt
  <2> SUFFICES ASSUME LinkInv, HostInv, DeliveryNext, NEW b \in Biots,
                      receipt'[b] \notin {receipt[b], NoReport}
               PROVE  host'[b] = Clean /\ stray'[b] = stray[b]
    BY DEF deliveryVars, nodeVars, journalVars
  <2>1. NodeTypeOK /\ HostInv'
    BY <1>2 DEF LinkInv, DeliveryTypeOK
  <2>2. CASE ServerNext \/ Dial \/ HandleConnected \/ HandleDesired \/ Drain \/ Announce
               \/ NodeDisconnects \/ NodeLosesLink \/ NodeCrashes
    <3>1. receipt' = receipt
      BY <2>2, ServerLeavesNode
         DEF NodeStateStays, Dial, HandleConnected, HandleDesired, Drain, Announce,
             NodeDisconnects, NodeLosesLink, Disconnect, NodeCrashes, journalVars
    <3> QED
      BY <3>1
  <2>3. CASE CommitSnapshot
    BY <2>3 DEF CommitSnapshot
  <2>4. ASSUME NEW c \in Biots, ControllerNext(c)
        PROVE  host'[b] = Clean /\ stray'[b] = stray[b]
    <3>1. c = b
      BY <2>1, <2>4, ControllerLocal
    <3>2. host'[b] \in Hosts /\ (~host'[b].prepared => host'[b].env = NoEnv)
      BY <2>1, <2>4, ControllerTypes DEF NodeTypeOK, HostInv
    <3>3. ASSUME NEW a \in Controllers, NEW record \in Retries, Inspect(b, a, host'[b], record)
          PROVE  host'[b] = Clean /\ stray'[b] = stray[b]
      <4>1. stray' = stray /\ InspectEnds(b, a, host'[b])
        BY <2>1, <3>2, <3>3, InspectOutcome DEF InspectStarts, InspectStays
      <4>2. NextAction(a.spec, host'[b]) = "settled" /\ a.spec.state = "destroyed"
        BY <4>1 DEF InspectEnds, Finished, Settles
      <4>3. a.spec \in Specs
        BY DEF Controllers
      <4> QED
        BY <3>2, <4>1, <4>2, <4>3, SettledDestruction
    <3>4. ASSUME NEW x \in Controllers, NEW record \in Retries, ReloadIntent(b, x, host'[b], record)
          PROVE  host'[b] = Clean /\ stray'[b] = stray[b]
      BY <2>1, <3>2, <3>3, <3>4, ReloadOutcome
    <3>5. \E x \in Controllers, record \in Retries :
            ReloadIntent(b, x, host'[b], record) \/ Inspect(b, x, host'[b], record)
      <4>1. receipt' # receipt
        OBVIOUS
      <4> QED
        BY <2>1, <2>4, <3>1, <4>1, ControllerMoves DEF journalVars
    <3> QED
      BY <3>3, <3>4, <3>5
  <2> QED
    BY <2>2, <2>3, <2>4 DEF DeliveryNext, NodeNext
<1> QED
  BY <1>1, <1>2, <1>3, LinkStart, LinkStep, PTL DEF DeliverySpec, ReceiptIsLast


-----------------------------------------------------------------------------
(* A biot that is not destroyed only moves forward.                        *)

\* The journal changes when a message of the server says so.
IntentMoves(b) ==
  \/ intent'[b] = intent[b]
  \/ /\ down # <<>> /\ down' = Tail(down) /\ About(1, b)
     /\ intent'[b] \in SpecsSent(b) /\ intent'[b].revision = SentRevision(1, b)
     /\ UNCHANGED <<server, agent.conn>>

\* A snapshot replaces every intent and a desired message one.
LEMMA IntentStep ==
  ASSUME LinkInv, [DeliveryNext]_deliveryVars, NEW b \in Biots
  PROVE  IntentMoves(b)
<1>0. /\ LifecycleInv /\ LinkTypeOK /\ NodeTypeOK /\ agent \in Agents
      /\ down \in Seq(DownMessages)
  BY DEF LinkInv, DeliveryTypeOK, LinkTypeOK
<1>1. CASE CommitSnapshot
  <2>1. /\ down # <<>> /\ intent' = Head(down).specs /\ Head(down).type = "snapshot"
        /\ down' = Tail(down) /\ server' = server /\ agent'.conn = agent.conn
    BY <1>0, <1>1 DEF CommitSnapshot, serverVars, Agents
  <2>2. Head(down) = down[1] /\ 1 \in DOMAIN down
    BY <1>0, <2>1, Behead
  <2>3. intent'[b] \in SpecsSent(b)
    BY <2>1, <2>2 DEF SpecsSent
  <2> QED
    BY <2>1, <2>2, <2>3 DEF IntentMoves, About, SentRevision
<1>2. CASE HandleDesired
  <2>1. /\ down # <<>> /\ Head(down).type = "desired"
        /\ intent' = [intent EXCEPT ![Head(down).biot] = Head(down).spec]
        /\ down' = Tail(down) /\ server' = server /\ agent' = agent
    BY <1>2 DEF HandleDesired, serverVars
  <2>2. Head(down) = down[1] /\ 1 \in DOMAIN down
    BY <1>0, <2>1, Behead
  <2>3. intent'[b] = intent[b] \/ (Head(down).biot = b /\ intent'[b] = Head(down).spec)
    BY <1>0, <2>1 DEF NodeTypeOK
  <2>4. Head(down).biot = b => Head(down).spec \in SpecsSent(b)
    BY <2>1, <2>2 DEF SpecsSent
  <2> QED
    BY <2>1, <2>2, <2>3, <2>4 DEF IntentMoves, About, SentRevision
<1>3. CASE ~CommitSnapshot /\ ~HandleDesired
  <2> SUFFICES intent' = intent
    BY DEF IntentMoves
  <2>1. ASSUME NEW c \in Biots, ControllerNext(c) PROVE intent' = intent
    BY <1>0, <2>1, ControllerMoves
  <2>2. CASE ServerNext \/ UNCHANGED deliveryVars
    BY <2>2, ServerLeavesNode DEF deliveryVars, nodeVars, journalVars, NodeStateStays
  <2>3. CASE Dial \/ HandleConnected \/ Drain \/ Announce \/ NodeDisconnects \/ NodeLosesLink
               \/ NodeCrashes
    BY <2>3 DEF Dial, HandleConnected, Drain, Announce, NodeDisconnects, NodeLosesLink,
                Disconnect, NodeCrashes, journalVars
  <2> QED
    BY <1>3, <2>1, <2>2, <2>3 DEF DeliveryNext, NodeNext
<1> QED
  BY <1>1, <1>2, <1>3

\* What is sent never goes back, and the journal follows it.
LEMMA QueuedStep ==
  ASSUME ValueInv, [DeliveryNext]_deliveryVars, NEW b \in Biots, Queued(b), Collected(b)
  PROVE  Queued(b)' /\ intent[b].revision <= intent'[b].revision
<1>0. /\ LifecycleInv /\ NodeTypeOK /\ Numbered /\ InFlight /\ InStep
      /\ down \in Seq(DownMessages) /\ server \in Servers /\ down' \in Seq(DownMessages)
      /\ intent[b].revision \in Nat /\ intent'[b].revision \in Nat /\ LinkInv
      /\ biot[b].revision \in Nat
  <2>1. LinkInv /\ LinkInv'
    BY ValueStep DEF ValueInv
  <2>2. intent[b] \in Specs /\ intent'[b] \in Specs /\ biot[b] \in Specs
    BY <2>1, RowsAreSpecs DEF LinkInv, DeliveryTypeOK, NodeTypeOK
  <2> QED
    BY <2>1, <2>2 DEF LinkInv, DeliveryTypeOK, LinkTypeOK, ConnectionInv, Specs
<1>1. ASSUME NEW i \in DOMAIN down, About(i, b)
      PROVE  SentRevision(i, b) \in Nat /\ SentRevision(i, b) <= biot[b].revision
  <2>1. (IF down[i].type = "snapshot" THEN down[i].specs[b] ELSE down[i].spec) \in SpecsSent(b)
    BY <1>1 DEF About, SpecsSent
  <2>2. SpecsSent(b) \subseteq SpecsOf(b) /\ SpecsOf(b) \subseteq Specs
    BY <1>0, SpecsAreSpecs DEF SpecsOf
  <2>3. \A s \in SpecsOf(b) : s.revision \in Nat /\ s.revision <= biot[b].revision
    BY <2>2 DEF ValueInv, OneValuePerRevision, Specs
  <2> QED
    BY <2>1, <2>2, <2>3 DEF SentRevision
<1>2. intent[b].revision <= biot[b].revision
  BY DEF ValueInv, OneValuePerRevision, SpecsOf, SpecsHeld
<1>3. ASSUME down # <<>>, down' = Tail(down)
      PROVE  \A i \in DOMAIN down' :
               /\ i + 1 \in DOMAIN down /\ 1 \in DOMAIN down
               /\ i \in Nat /\ i > 0
               /\ About(i, b)' <=> About(i + 1, b)
               /\ SentRevision(i, b)' = SentRevision(i + 1, b)
  <2>1. \A i \in DOMAIN down' : i + 1 \in DOMAIN down /\ down'[i] = down[i + 1] /\ i \in 1..Len(down')
    BY <1>0, <1>3, Behead, LenProperties
  <2>2. 1 \in DOMAIN down
    BY <1>0, <1>3, Behead
  <2> QED
    BY <2>1, <2>2 DEF About, SentRevision
<1>4. CASE /\ down # <<>> /\ down' = Tail(down) /\ About(1, b)
           /\ intent'[b].revision = SentRevision(1, b)
  <2>1. 1 \in DOMAIN down
    BY <1>0, <1>4, Behead
  <2>2. intent[b].revision <= intent'[b].revision
    BY <1>4, <2>1 DEF Queued
  <2>3. Queued(b)'
    <3> SUFFICES ASSUME NEW i \in DOMAIN down', About(i, b)'
                 PROVE  /\ intent'[b].revision <= SentRevision(i, b)'
                        /\ \A j \in DOMAIN down' : i < j /\ About(j, b)' =>
                             SentRevision(i, b)' <= SentRevision(j, b)'
      BY DEF Queued
    <3>1. intent'[b].revision <= SentRevision(i, b)'
      BY <1>3, <1>4, <2>1 DEF Queued
    <3>2. ASSUME NEW j \in DOMAIN down', i < j, About(j, b)'
          PROVE  SentRevision(i, b)' <= SentRevision(j, b)'
      BY <1>3, <1>4, <3>2 DEF Queued
    <3> QED
      BY <3>1, <3>2
  <2> QED
    BY <2>2, <2>3
<1>5. CASE intent'[b] = intent[b]
  <2> SUFFICES ASSUME NEW i \in DOMAIN down', About(i, b)'
               PROVE  /\ intent[b].revision <= SentRevision(i, b)'
                      /\ \A j \in DOMAIN down' : i < j /\ About(j, b)' =>
                           SentRevision(i, b)' <= SentRevision(j, b)'
    BY <1>0, <1>5 DEF Queued
  <2>1. CASE down' \in {down, <<>>}
    BY <2>1 DEF Queued, About, SentRevision
  <2>2. CASE down = <<>> /\ Len(down') = 1 /\ down'[1].type \in {"connected", "reject"}
    <3>1. i = 1
      BY <1>0, <2>2, LenProperties
    <3> QED
      BY <2>2, <3>1 DEF About
  <2>3. CASE down # <<>> /\ down' = Tail(down)
    <3>1. intent[b].revision <= SentRevision(i, b)'
      BY <1>3, <2>3 DEF Queued
    <3>2. ASSUME NEW j \in DOMAIN down', i < j, About(j, b)'
          PROVE  SentRevision(i, b)' <= SentRevision(j, b)'
      BY <1>3, <2>3, <3>2 DEF Queued
    <3> QED
      BY <3>1, <3>2
  <2>4. CASE /\ Linked /\ server.phase = "snapshot" /\ server.todo = {}
             /\ down' = down \o <<[type |-> "snapshot", specs |-> server.items]>>
    <3> DEFINE m == [type |-> "snapshot", specs |-> server.items]
    <3>1. m \in DownMessages /\ down' = down \o <<m>> /\ m.type = "snapshot" /\ m.specs = server.items
      BY <1>0, <2>4, SentTypes DEF LinkInv, DeliveryTypeOK
    <3> HIDE DEF m
    <3>2. \A k \in DOMAIN down : ~About(k, b)
      <4>1. down = <<>> \/ (Len(down) = 1 /\ down[1].type = "connected")
        BY <1>0, <2>4 DEF InStep
      <4> QED
        BY <1>0, <4>1, LenProperties DEF About
    <3>3. \A k \in DOMAIN down' :
            \/ k \in DOMAIN down /\ down'[k] = down[k]
            \/ k = Len(down) + 1 /\ down'[k] = m
      BY <1>0, <3>1, AppendedOne
    <3>4. \A k \in DOMAIN down' : About(k, b)' => k = Len(down) + 1 /\ down'[k] = m
      BY <3>2, <3>3 DEF About
    <3>5. SentRevision(i, b)' = server.items[b].revision
      BY <3>1, <3>4 DEF SentRevision
    <3>6. intent[b].revision <= server.items[b].revision
      BY <2>4 DEF Collected
    <3>7. Len(down) \in Nat
      BY <1>0, LenProperties
    <3> QED
      BY <3>4, <3>5, <3>6, <3>7
  <2>5. ASSUME NEW q \in Seq(DownMessages), down' = down \o q,
               \A k \in DOMAIN q : \E c \in Biots : q[k] = DesiredMessage(c)
        PROVE  /\ intent[b].revision <= SentRevision(i, b)'
               /\ \A j \in DOMAIN down' : i < j /\ About(j, b)' =>
                    SentRevision(i, b)' <= SentRevision(j, b)'
    <3>1. \A k \in DOMAIN down' :
            \/ k \in DOMAIN down /\ down'[k] = down[k]
            \/ k \notin DOMAIN down /\ \E c \in Biots : down'[k] = DesiredMessage(c)
      BY <1>0, <2>5, Appended
    <3>2. \A k \in DOMAIN down' : About(k, b)' =>
            \/ k \in DOMAIN down /\ About(k, b) /\ SentRevision(k, b)' = SentRevision(k, b)
            \/ k \notin DOMAIN down /\ SentRevision(k, b)' = biot[b].revision
      BY <3>1 DEF About, SentRevision, DesiredMessage
    <3>3. intent[b].revision <= SentRevision(i, b)'
      BY <1>2, <3>2 DEF Queued
    <3>4. ASSUME NEW j \in DOMAIN down', i < j, About(j, b)'
          PROVE  SentRevision(i, b)' <= SentRevision(j, b)'
      <4>1. DOMAIN down = 1..Len(down) /\ DOMAIN down' = 1..Len(down') /\ Len(down) \in Nat
        BY <1>0, LenProperties
      <4>2. j \in DOMAIN down => i \in DOMAIN down
        BY <3>4, <4>1
      <4>3. CASE j \in DOMAIN down
        BY <3>2, <3>4, <4>2, <4>3 DEF Queued
      <4>4. CASE j \notin DOMAIN down
        BY <1>0, <1>1, <3>2, <3>4, <4>4
      <4> QED
        BY <4>3, <4>4
    <3> QED
      BY <3>3, <3>4
  <2> QED
    BY <1>0, <2>1, <2>2, <2>3, <2>4, <2>5, DownStep DEF DownMoves
<1> QED
  BY <1>0, <1>4, <1>5, IntentStep DEF IntentMoves


\* What a step leaves of a snapshot under way: it is begun, or goes on, and no
\* message reaches the journal meanwhile.
CollectionMoves ==
  Linked' /\ server'.phase = "snapshot" =>
    \/ server'.todo = {c \in Biots : Included(c)} /\ server'.items = NoSpecs
    \/ Linked /\ server.phase = "snapshot" /\ server' = server
    \/ /\ Linked /\ server.phase = "snapshot"
       /\ \E c \in Biots :
            server' = [server EXCEPT !.todo = @ \ {c}, !.items = [@ EXCEPT ![c] = biot[c]]]

\* connection.ex: what a step may do to the snapshot that the server collects.
LEMMA CollectionStep ==
  ASSUME LinkInv, [DeliveryNext]_deliveryVars
  PROVE  CollectionMoves
<1>0. /\ LifecycleInv /\ LinkTypeOK /\ NodeTypeOK /\ Numbered
      /\ server \in Servers /\ agent \in Agents /\ made \in Nat
  BY DEF LinkInv, DeliveryTypeOK, LinkTypeOK, ConnectionInv
<1>1. ASSUME server' = server, agent'.conn = agent.conn PROVE CollectionMoves
  BY <1>1 DEF CollectionMoves, Linked
<1>2. ASSUME server'.phase # "snapshot" PROVE CollectionMoves
  BY <1>2 DEF CollectionMoves
<1>3. ASSUME NEW c \in 1..MaxConnections, ClaimNode(c) PROVE CollectionMoves
  BY <1>3 DEF ClaimNode, CollectionMoves
<1>4. ASSUME NEW c \in Biots, BuildItem(c) PROVE CollectionMoves
  <2>1. /\ server.phase = "snapshot" /\ agent' = agent
        /\ server' = [server EXCEPT !.todo = @ \ {c}, !.items = [@ EXCEPT ![c] = biot[c]]]
    BY <1>4 DEF BuildItem, nodeVars
  <2>2. server'.conn = server.conn
    BY <1>0, <2>1 DEF Servers
  <2> QED
    BY <2>1, <2>2, Zenon DEF CollectionMoves, Linked
<1>5. CASE SendSnapshot \/ HandleSynchronized
  BY <1>0, <1>2, <1>5 DEF SendSnapshot, HandleSynchronized, Servers
<1>6. CASE ServerCloses \/ ServerLosesLink \/ ServerCrashes
  BY <1>2, <1>6 DEF ServerCloses, ServerLosesLink, ServerCrashes, EndConnection, NoConnection
<1>7. ASSUME server' = server, agent'.conn = made + 1 PROVE CollectionMoves
  <2>1. server.conn \in Nat /\ server.conn <= made
    BY <1>0 DEF Servers, Numbered
  <2>2. agent'.conn # server'.conn
    BY <1>0, <1>7, <2>1
  <2> QED
    BY <2>2 DEF CollectionMoves, Linked
<1>8. ASSUME server' = server, agent'.conn = 0 PROVE CollectionMoves
  BY <1>0, <1>8 DEF CollectionMoves, Linked, Numbered, Servers
<1>9. CASE Dial
  BY <1>7, <1>9 DEF Dial, serverVars, Disconnected
<1>10. CASE NodeDisconnects \/ NodeLosesLink \/ NodeCrashes
  BY <1>8, <1>10 DEF NodeDisconnects, NodeLosesLink, Disconnect, NodeCrashes, serverVars, Disconnected
<1>11. CASE HandleConnected \/ CommitSnapshot \/ HandleDesired \/ Drain \/ Announce
  <2>1. server' = server /\ agent'.conn = agent.conn
    BY <1>0, <1>11 DEF HandleConnected, CommitSnapshot, HandleDesired, Drain, Announce, serverVars, Agents
  <2> QED
    BY <1>1, <2>1
<1>12. ASSUME NEW c \in Biots, ControllerNext(c) PROVE CollectionMoves
  BY <1>0, <1>1, <1>12, ControllerMoves DEF controlUnchanged, serverVars
<1>13. ASSUME NEW c, Authenticate(c) \/ RejectHello(c) \/ DropHello(c) \/ Request(c) \/ LoseWake(c)
                       \/ HandleWake(c) \/ Sweep(c) \/ ReloadNodes \/ HandleObservation
                       \/ HandleNodeObservation \/ UNCHANGED deliveryVars
      PROVE  CollectionMoves
  <2>1. server' = server /\ agent' = agent
    BY <1>13 DEF Authenticate, RejectHello, DropHello, Request, LoseWake, HandleWake, Sweep,
                 ReloadNodes, HandleObservation, HandleNodeObservation, serverVars, nodeVars, deliveryVars
  <2> QED
    BY <1>1, <2>1
<1> QED
  BY <1>3, <1>4, <1>5, <1>6, <1>9, <1>10, <1>11, <1>12, <1>13 DEF DeliveryNext, ServerNext, NodeNext

\* A snapshot reads each row after the journal could have had it.
LEMMA CollectedStep ==
  ASSUME ValueInv, [DeliveryNext]_deliveryVars, NEW b \in Biots, biot[b].state # "destroyed",
         Collected(b)
  PROVE  Collected(b)'
<1>0. /\ LinkInv /\ InStep /\ Numbered /\ NodeTypeOK /\ server \in Servers
      /\ down \in Seq(DownMessages)
      /\ intent[b].revision \in Nat /\ biot[b].revision \in Nat
  <2>1. LinkInv
    BY DEF ValueInv
  <2>2. intent[b] \in Specs /\ biot[b] \in Specs
    BY <2>1, RowsAreSpecs DEF LinkInv, DeliveryTypeOK, NodeTypeOK
  <2> QED
    BY <2>1, <2>2 DEF LinkInv, DeliveryTypeOK, LinkTypeOK, ConnectionInv, Specs
<1>1. intent[b].revision <= biot[b].revision
  BY DEF ValueInv, OneValuePerRevision, SpecsOf, SpecsHeld
<1> SUFFICES ASSUME Linked', server'.phase = "snapshot"
             PROVE  b \in server'.todo \/ intent'[b].revision <= server'.items[b].revision
  BY DEF Collected
<1>2. CASE intent'[b] = intent[b]
  <2>1. CASE server'.todo = {c \in Biots : Included(c)} /\ server'.items = NoSpecs
    <3>1. b \notin server'.todo => biot[b].revision = 0
      BY <1>0, <2>1 DEF Included, Created
    <3>2. server'.items[b].revision = 0
      BY <2>1 DEF NoSpecs, NoIntent, NotCreated
    <3> QED
      BY <1>0, <1>1, <1>2, <3>1, <3>2
  <2>2. CASE Linked /\ server.phase = "snapshot" /\ server' = server
    BY <1>2, <2>2 DEF Collected
  <2>3. ASSUME Linked, server.phase = "snapshot", NEW c \in Biots,
               server' = [server EXCEPT !.todo = @ \ {c}, !.items = [@ EXCEPT ![c] = biot[c]]]
        PROVE  b \in server'.todo \/ intent'[b].revision <= server'.items[b].revision
    <3>1. /\ server'.todo = server.todo \ {c}
          /\ server'.items = [server.items EXCEPT ![c] = biot[c]]
      BY <1>0, <2>3 DEF Servers
    <3>2. server'.items[b] = IF b = c THEN biot[b] ELSE server.items[b]
      BY <1>0, <3>1 DEF Servers
    <3> QED
      BY <1>1, <1>2, <2>3, <3>1, <3>2 DEF Collected
  <2> QED
    BY <2>1, <2>2, <2>3, <1>0, CollectionStep DEF CollectionMoves
<1>3. CASE down # <<>> /\ About(1, b) /\ UNCHANGED <<server, agent.conn>>
  <2>1. Linked /\ server.phase = "snapshot"
    BY <1>3 DEF Linked
  <2>2. Len(down) = 1 /\ down[1].type = "connected"
    BY <1>0, <1>3, <2>1 DEF InStep
  <2> QED
    BY <1>3, <2>2 DEF About
<1> QED
  BY <1>0, <1>2, <1>3, IntentStep DEF IntentMoves

\* What a step can do to the messages on their way to the server.
UpMoves ==
  \/ up' \in {up, <<>>}
  \/ up # <<>> /\ up' = Tail(up)
  \/ \E q \in Seq(UpMessages) :
       /\ up' = up \o q
       /\ \A i \in DOMAIN q :
            \/ q[i].type # "observation"
            \/ \E c \in Biots : q[i] \in {Observation(c, outbox[c]), Observation(c, receipt[c])}

\* connection.ex (node): what a step may do to the messages on their way to the server.
LEMMA UpStep ==
  ASSUME LinkInv, [DeliveryNext]_deliveryVars
  PROVE  UpMoves
<1>0. LifecycleInv /\ LinkTypeOK /\ NodeTypeOK
  BY DEF LinkInv, DeliveryTypeOK
<1>1. ASSUME up' \in {up, <<>>} PROVE UpMoves
  BY <1>1 DEF UpMoves
<1>2. ASSUME NEW q \in Seq(UpMessages), up' = ToServer(q),
             \A i \in DOMAIN q :
               \/ q[i].type # "observation"
               \/ \E c \in Biots : q[i] \in {Observation(c, outbox[c]), Observation(c, receipt[c])}
      PROVE  UpMoves
  <2>1. up' = up \/ up' = up \o q
    BY <1>2 DEF ToServer
  <2> QED
    BY <1>1, <1>2, <2>1 DEF UpMoves
<1>3. ASSUME NEW rows \in [Biots -> Reports], \A c \in Biots : rows[c] \in {outbox[c], receipt[c]},
             NEW extra \in {<<>>, <<[type |-> "node_observation", orphans |-> Orphans]>>},
             SendReports(rows, extra)
      PROVE  UpMoves
  <2>1. PICK sent \in Seq(UpMessages) :
          /\ up' = ToServer(sent)
          /\ \A i \in DOMAIN sent :
               \/ sent[i].type = "node_observation"
               \/ \E c \in Biots : rows[c] # NoReport /\ sent[i] = Observation(c, rows[c])
    BY <1>0, <1>3, DrainTypes
  <2>2. ASSUME NEW i \in DOMAIN sent
        PROVE  \/ sent[i].type # "observation"
               \/ \E c \in Biots : sent[i] \in {Observation(c, outbox[c]), Observation(c, receipt[c])}
    BY <1>3, <2>1
  <2> QED
    BY <1>2, <2>1, <2>2
<1>4. CASE Drain
  BY <1>0, <1>3, <1>4 DEF Drain, NodeTypeOK
<1>5. CASE Announce
  <2> DEFINE rows == [c \in Biots |-> IF receipt[c] # NoReport THEN receipt[c] ELSE outbox[c]]
  <2>1. /\ SendReports(rows, <<[type |-> "node_observation", orphans |-> Orphans]>>)
        /\ rows \in [Biots -> Reports] /\ \A c \in Biots : rows[c] \in {outbox[c], receipt[c]}
    BY <1>0, <1>5 DEF Announce, NodeTypeOK
  <2> HIDE DEF rows
  <2> QED
    BY <1>3, <2>1
<1>6. CASE CommitSnapshot
  <2> DEFINE m == [type |-> "synchronized"]
  <2>1. up' = ToServer(<<m>>) /\ m \in UpMessages /\ m.type # "observation"
    BY <1>0, <1>6, SentTypes DEF CommitSnapshot
  <2> HIDE DEF m
  <2>2. <<m>> \in Seq(UpMessages) /\ \A i \in DOMAIN <<m>> : <<m>>[i] = m
    BY <2>1
  <2> QED
    BY <1>2, <2>1, <2>2
<1>7. CASE HandleSynchronized \/ HandleObservation \/ HandleNodeObservation
  BY <1>7 DEF HandleSynchronized, HandleObservation, HandleNodeObservation, UpMoves
<1>8. CASE ServerCloses \/ ServerLosesLink \/ ServerCrashes
  BY <1>1, <1>8 DEF ServerCloses, ServerLosesLink, ServerCrashes, EndConnection
<1>9. ASSUME NEW c, Authenticate(c) \/ RejectHello(c) \/ DropHello(c) \/ ClaimNode(c) \/ Request(c)
                      \/ LoseWake(c) \/ BuildItem(c) \/ HandleWake(c) \/ Sweep(c) \/ ReloadNodes
                      \/ SendSnapshot
      PROVE  UpMoves
  BY <1>1, <1>9 DEF Authenticate, RejectHello, DropHello, ClaimNode, Request, LoseWake, BuildItem,
                    HandleWake, Sweep, ReloadNodes, SendSnapshot, linkVars
<1>10. CASE Dial \/ HandleConnected \/ HandleDesired \/ NodeDisconnects \/ NodeLosesLink \/ NodeCrashes
              \/ UNCHANGED deliveryVars
  BY <1>1, <1>10 DEF Dial, HandleConnected, HandleDesired, NodeDisconnects, NodeLosesLink, Disconnect,
                     NodeCrashes, deliveryVars, linkVars
<1>11. ASSUME NEW c \in Biots, ControllerNext(c) PROVE UpMoves
  BY <1>0, <1>1, <1>11, ControllerMoves DEF controlUnchanged, linkVars
<1> QED
  BY <1>4, <1>5, <1>6, <1>7, <1>8, <1>9, <1>10, <1>11 DEF DeliveryNext, ServerNext, NodeNext


\* Where the observations the server stores come from.
ObservedMoves(b) ==
  \/ obs'[b] = obs[b]
  \/ \E i \in DOMAIN up : /\ up[i].type = "observation" /\ up[i].biot = b
                          /\ obs'[b] = up[i].report

\* reports.ex: what a step may do to the observation of a biot.
LEMMA ObservedStep ==
  ASSUME LinkInv, [DeliveryNext]_deliveryVars, NEW b \in Biots
  PROVE  ObservedMoves(b)
<1>0. /\ LifecycleInv /\ LinkTypeOK /\ NodeTypeOK /\ up \in Seq(UpMessages)
      /\ obs \in [Biots -> Reports]
  BY RowsAreSpecs DEF LinkInv, DeliveryTypeOK, LinkTypeOK
<1>1. ASSUME obs' = obs PROVE ObservedMoves(b)
  BY <1>1 DEF ObservedMoves
<1>2. ASSUME NEW c \in Biots, Request(c) PROVE ObservedMoves(b)
  BY <1>0, <1>1, <1>2, CommandMoves
<1>3. CASE ReloadNodes
  BY <1>1, <1>3 DEF ReloadNodes, Reload, Omit, Enroll
<1>4. CASE HandleNodeObservation
  BY <1>1, <1>4 DEF HandleNodeObservation, ObserveNode
<1>5. CASE HandleObservation
  <2>1. up # <<>> /\ Head(up).type = "observation"
    BY <1>5 DEF HandleObservation
  <2>2. Head(up) = up[1] /\ 1 \in DOMAIN up
    BY <1>0, <2>1, Behead
  <2>3. Observe(Head(up).biot, Head(up).report) \/ obs' = obs
    BY <1>5 DEF HandleObservation, lifecycleVars
  <2>4. CASE Observe(Head(up).biot, Head(up).report)
    <3>1. obs' = [obs EXCEPT ![Head(up).biot] = Head(up).report]
      BY <2>4 DEF Observe
    <3>2. obs'[b] = obs[b] \/ (Head(up).biot = b /\ obs'[b] = Head(up).report)
      BY <1>0, <3>1
    <3> QED
      BY <2>1, <2>2, <3>2 DEF ObservedMoves
  <2> QED
    BY <1>1, <2>3, <2>4
<1>6. CASE UNCHANGED deliveryVars
  BY <1>1, <1>6 DEF deliveryVars, lifecycleVars
<1> QED
  BY <1>1, <1>2, <1>3, <1>4, <1>5, <1>6, RowsStay DEF lifecycleVars

\* A report that waits or is kept was one already, or is a report on what a
\* controller works for or the journal holds.
KeptMoves(b) ==
  LET known == {0, intent[b].revision, ctl[b].spec.revision,
                outbox[b].revision, receipt[b].revision}
  IN  /\ ctl'[b].spec.revision \in known \cup {intent'[b].revision}
      /\ outbox'[b].revision \in known
      /\ receipt'[b].revision \in known

\* What a step may do to the revisions that the node keeps of a biot.
LEMMA KeptStep ==
  ASSUME LinkInv, [DeliveryNext]_deliveryVars, NEW b \in Biots
  PROVE  KeptMoves(b)
<1>0. LifecycleInv /\ LinkTypeOK /\ NodeTypeOK
  BY DEF LinkInv, DeliveryTypeOK
<1>1. NoReport.revision = 0 /\ NoIntent.revision = 0
  BY DEF NoReport, NoIntent, NotCreated
<1>2. ASSUME NEW c \in Biots, ControllerNext(c) PROVE KeptMoves(b)
  BY <1>0, <1>1, <1>2, ControllerSpecs DEF KeptMoves
<1>3. CASE CommitSnapshot
  <2>1. ctl'[b].spec \in {ctl[b].spec, intent'[b]} /\ outbox' = outbox
        /\ receipt'[b] \in {NoReport, receipt[b]}
    BY <1>0, <1>3, AnnouncedSpecs DEF CommitSnapshot
  <2> QED
    BY <1>1, <2>1 DEF KeptMoves
<1>4. CASE HandleDesired
  <2>1. /\ ctl'[b].spec \in {ctl[b].spec, intent'[b]}
        /\ receipt' = receipt
        /\ outbox' \in {outbox, [outbox EXCEPT ![Head(down).biot] = receipt[Head(down).biot]]}
    BY <1>0, <1>4, AnnouncedSpecs DEF HandleDesired
  <2>2. outbox'[b] \in {outbox[b], receipt[b]}
    BY <1>0, <2>1 DEF NodeTypeOK
  <2> QED
    BY <2>1, <2>2 DEF KeptMoves
<1>5. CASE Drain \/ Announce
  <2>1. /\ outbox' = [c \in Biots |-> NoReport]
        /\ UNCHANGED <<journalVars, ctl>>
    BY <1>5 DEF Drain, Announce, SendReports
  <2> QED
    BY <1>1, <2>1 DEF KeptMoves, journalVars
<1>6. CASE NodeCrashes
  <2>1. /\ outbox'[b] = NoReport /\ receipt'[b] = receipt[b]
        /\ ctl'[b] \in {Started(intent[b], retry[b]), NoController}
    BY <1>6 DEF NodeCrashes, journalVars
  <2>2. Started(intent[b], retry[b]).spec = intent[b] /\ NoController.spec = NoIntent
    BY DEF Started, NoController
  <2>3. ctl'[b].spec \in {intent[b], NoIntent}
    BY <2>1, <2>2
  <2> QED
    BY <1>1, <2>1, <2>3 DEF KeptMoves
<1>7. ASSUME UNCHANGED <<ctl, outbox, receipt>> PROVE KeptMoves(b)
  BY <1>7 DEF KeptMoves
<1>8. CASE ServerNext \/ UNCHANGED deliveryVars
  BY <1>7, <1>8, ServerLeavesNode DEF deliveryVars, nodeVars, journalVars, controllerVars, NodeStateStays
<1>9. CASE Dial \/ HandleConnected \/ NodeDisconnects \/ NodeLosesLink
  BY <1>7, <1>9 DEF Dial, HandleConnected, NodeDisconnects, NodeLosesLink, Disconnect,
                    journalVars, controllerVars
<1> QED
  BY <1>2, <1>3, <1>4, <1>5, <1>6, <1>8, <1>9 DEF DeliveryNext, NodeNext

\* While the journal goes forward, what is known and reported follows it.
LEMMA ReportedStep ==
  ASSUME LinkInv, [DeliveryNext]_deliveryVars, NEW b \in Biots, Reported(b),
         intent[b].revision <= intent'[b].revision
  PROVE  Reported(b)'
<1>0. /\ LinkTypeOK /\ NodeTypeOK /\ up \in Seq(UpMessages)
      /\ intent[b].revision \in Nat /\ intent'[b].revision \in Nat
      /\ ctl[b].spec.revision \in Nat /\ outbox[b].revision \in Nat
      /\ receipt[b].revision \in Nat /\ obs[b].revision \in Nat
      /\ \A i \in DOMAIN up : up[i].type = "observation" => up[i].report.revision \in Nat
  <2>1. LinkInv /\ LinkInv'
    BY LinkStep
  <2>2. /\ intent[b] \in Specs /\ intent'[b] \in Specs /\ ctl[b] \in Controllers
        /\ outbox[b] \in Reports /\ receipt[b] \in Reports /\ obs[b] \in Reports
    BY <2>1, RowsAreSpecs DEF LinkInv, DeliveryTypeOK, NodeTypeOK
  <2>3. up \in Seq(UpMessages)
    BY <2>1 DEF LinkInv, DeliveryTypeOK, LinkTypeOK
  <2>4. \A i \in DOMAIN up : up[i] \in UpMessages
    BY <2>3, ElementOfSeq, LenProperties
  <2>5. \A r \in Reports : r.revision \in Nat
    BY LifecycleConstants DEF Reports
  <2>6. \A i \in DOMAIN up : up[i].type = "observation" => up[i].report.revision \in Nat
    BY <2>4, <2>5, UpTypes
  <2> QED
    BY <2>1, <2>2, <2>3, <2>5, <2>6 DEF LinkInv, DeliveryTypeOK, Specs, Controllers
<1>1. /\ ctl'[b].spec.revision <= intent'[b].revision
      /\ outbox'[b].revision <= intent'[b].revision
      /\ receipt'[b].revision <= intent'[b].revision
  <2> DEFINE known == {0, intent[b].revision, ctl[b].spec.revision,
                       outbox[b].revision, receipt[b].revision}
  <2>1. \A r \in known : r <= intent'[b].revision
    BY <1>0 DEF Reported
  <2>2. /\ ctl'[b].spec.revision \in known \cup {intent'[b].revision}
        /\ outbox'[b].revision \in known
        /\ receipt'[b].revision \in known
    BY KeptStep DEF KeptMoves
  <2> HIDE DEF known
  <2> QED
    BY <1>0, <2>1, <2>2
<1>2. obs'[b].revision <= intent'[b].revision
  BY <1>0, ObservedStep DEF ObservedMoves, Reported
<1>3. ASSUME NEW i \in DOMAIN up', up'[i].type = "observation", up'[i].biot = b
      PROVE  up'[i].report.revision <= intent'[b].revision
  <2>1. ASSUME NEW j \in DOMAIN up, up'[i] = up[j]
        PROVE  up'[i].report.revision <= intent'[b].revision
    BY <1>0, <1>3, <2>1 DEF Reported
  <2>2. CASE up' \in {up, <<>>}
    BY <2>1, <2>2
  <2>3. CASE up # <<>> /\ up' = Tail(up)
    BY <1>0, <2>1, <2>3, Behead
  <2>4. ASSUME NEW q \in Seq(UpMessages), up' = up \o q,
               \A k \in DOMAIN q :
                 \/ q[k].type # "observation"
                 \/ \E c \in Biots : q[k] \in {Observation(c, outbox[c]), Observation(c, receipt[c])}
        PROVE  up'[i].report.revision <= intent'[b].revision
    <3>1. \/ \E j \in DOMAIN up : up'[i] = up[j]
          \/ \E k \in DOMAIN q : up'[i] = q[k]
      BY <1>0, <2>4, Appended
    <3>2. ASSUME NEW k \in DOMAIN q, up'[i] = q[k]
          PROVE  up'[i].report.revision <= intent'[b].revision
      <4>1. PICK c \in Biots : up'[i] \in {Observation(c, outbox[c]), Observation(c, receipt[c])}
        BY <1>3, <2>4, <3>2
      <4>2. up'[i].biot = c /\ up'[i].report \in {outbox[c], receipt[c]}
        BY <4>1 DEF Observation
      <4> QED
        BY <1>0, <1>3, <4>2 DEF Reported
    <3> QED
      BY <2>1, <3>1, <3>2
  <2> QED
    BY <2>2, <2>3, <2>4, UpStep DEF UpMoves
<1> QED
  BY <1>1, <1>2, <1>3 DEF Reported

\* Nothing is ahead of the node's intent before there is one.
LEMMA ForwardStart == DeliveryInit => ForwardInv
<1> SUFFICES ASSUME DeliveryInit, NEW b \in Biots PROVE Forward(b)
  BY DEF ForwardInv
<1>1. /\ ctl[b].spec.revision = 0 /\ intent[b].revision = 0 /\ outbox[b].revision = 0
      /\ receipt[b].revision = 0 /\ obs[b].revision = 0
  BY DEF DeliveryInit, LifecycleInit, NoController, NoIntent, NotCreated, NoReport
<1>2. up = <<>> /\ down = <<>> /\ server.phase = "none"
  BY DEF DeliveryInit, NoConnection
<1> QED
  BY <1>1, <1>2 DEF Forward, Reported, Queued, Collected

\* Nothing is destroyed before it is created, and what is destroyed stays so.
LEMMA ForwardStep ==
  ValueInv /\ ForwardInv /\ [DeliveryNext]_deliveryVars => ForwardInv'
<1> SUFFICES ASSUME ValueInv, ForwardInv, [DeliveryNext]_deliveryVars,
                    NEW b \in Biots, biot'[b].state # "destroyed"
             PROVE  Forward(b)'
  BY DEF ForwardInv
<1>1. biot[b].state # "destroyed"
  <2>1. biot'[b] = biot[b] \/ biot[b].state # "destroyed" \/ biot[b].revision = 0
    BY RowsStep DEF RowsMove, ValueInv, LinkInv, DeliveryTypeOK
  <2>2. biot[b].revision = 0 => biot[b] = NoIntent
    BY DEF ValueInv, OneValuePerRevision, SpecsOf, SpecsHeld, NoIntent, NotCreated
  <2> QED
    BY <2>1, <2>2 DEF NoIntent, NotCreated
<1>2. Forward(b)
  BY <1>1 DEF ForwardInv
<1>3. Queued(b)' /\ intent[b].revision <= intent'[b].revision
  BY <1>2, QueuedStep DEF Forward
<1>4. Collected(b)'
  BY <1>1, <1>2, CollectedStep DEF Forward
<1>5. Reported(b)'
  BY <1>2, <1>3, ReportedStep DEF Forward, ValueInv
<1> QED
  BY <1>3, <1>4, <1>5 DEF Forward

\* Until a biot is destroyed nothing about it goes backwards: neither what is
\* sent, nor what the journal takes, nor what is reported.
THEOREM ForwardTheorem == DeliverySpec => []ForwardInv
  BY ValueStart, ValueStep, ForwardStart, ForwardStep, PTL DEF DeliverySpec

\* synchronization.ex 100-115: what the sweep takes for delivered really is what
\* the journal of the node holds.  A report of the current revision means that
\* the journal is not behind it, the rows that it is not ahead, and one revision
\* names one value.
THEOREM AcceptedTheorem == DeliverySpec => []AcceptedIsTruthful
<1>1. ValueInv /\ ForwardInv => AcceptedIsTruthful
  <2> SUFFICES ASSUME ValueInv, ForwardInv, NEW b \in Biots, Accepted(b), biot[b].state # "destroyed"
               PROVE  intent[b] = biot[b]
    BY DEF AcceptedIsTruthful
  <2>1. obs[b].revision <= intent[b].revision
    BY DEF ForwardInv, Forward, Reported
  <2>2. obs[b].revision >= biot[b].revision
    BY DEF Accepted
  <2>3. /\ intent[b].revision <= biot[b].revision
        /\ intent[b].revision = biot[b].revision => intent[b] = biot[b]
    BY DEF ValueInv, OneValuePerRevision, SpecsOf, SpecsHeld
  <2>4. obs[b].revision \in Nat /\ intent[b].revision \in Nat /\ biot[b].revision \in Nat
    <3>1. obs[b] \in Reports /\ intent[b] \in Specs /\ biot[b] \in Specs
      BY RowsAreSpecs DEF ValueInv, LinkInv, DeliveryTypeOK, NodeTypeOK
    <3> QED
      BY <3>1, LifecycleConstants DEF Reports, Specs
  <2> QED
    BY <2>1, <2>2, <2>3, <2>4
<1> QED
  BY <1>1, ForwardTheorem, ValueStart, ValueStep, PTL DEF DeliverySpec


-----------------------------------------------------------------------------
(* What a controller that stops leaves behind.                             *)

\* A wake follows a command, and the others only use it up.
LEMMA WakesStep ==
  ASSUME LinkInv, [DeliveryNext]_deliveryVars, NEW b \in toWake' \cap Biots
  PROVE  b \in toWake \/ Created(b)'
<1>0. LifecycleInv /\ NodeTypeOK
  BY DEF LinkInv, DeliveryTypeOK
<1>1. ASSUME NEW c \in Biots, Request(c) PROVE b \in toWake \/ Created(b)'
  BY <1>0, <1>1, CommandMoves DEF Request
<1>2. ASSUME NEW c, Authenticate(c) \/ RejectHello(c) \/ DropHello(c) \/ ClaimNode(c) \/ LoseWake(c)
                      \/ BuildItem(c) \/ HandleWake(c) \/ Sweep(c) \/ ReloadNodes \/ SendSnapshot
                      \/ HandleSynchronized \/ HandleObservation \/ HandleNodeObservation
                      \/ ServerCloses \/ ServerLosesLink \/ ServerCrashes
      PROVE  b \in toWake
  BY <1>2 DEF Authenticate, RejectHello, DropHello, ClaimNode, LoseWake, BuildItem, HandleWake, Sweep,
              ReloadNodes, SendSnapshot, HandleSynchronized, HandleObservation, HandleNodeObservation,
              ServerCloses, ServerLosesLink, ServerCrashes, EndConnection, serverVars
<1>3. CASE Dial \/ HandleConnected \/ CommitSnapshot \/ HandleDesired \/ Drain \/ Announce
             \/ NodeDisconnects \/ NodeLosesLink \/ NodeCrashes \/ UNCHANGED deliveryVars
  BY <1>3 DEF Dial, HandleConnected, CommitSnapshot, HandleDesired, Drain, Announce, NodeDisconnects,
              NodeLosesLink, Disconnect, NodeCrashes, deliveryVars, serverVars
<1>4. ASSUME NEW c \in Biots, ControllerNext(c) PROVE b \in toWake
  BY <1>0, <1>4, ControllerMoves DEF controlUnchanged, serverVars
<1> QED
  BY <1>1, <1>2, <1>3, <1>4 DEF DeliveryNext, ServerNext, NodeNext

\* No snapshot is on its way before the first connection.
LEMMA SendingStart == DeliveryInit => SendingInv
  BY DEF DeliveryInit, SendingInv, NoConnection

\* connection.ex: a snapshot keeps the biots that had been created when it was collected.
LEMMA SendingStep ==
  LinkInv /\ SendingInv /\ [DeliveryNext]_deliveryVars => SendingInv'
<1> SUFFICES ASSUME LinkInv, SendingInv, [DeliveryNext]_deliveryVars PROVE SendingInv'
  OBVIOUS
<1>0. LifecycleInv /\ LinkTypeOK /\ NodeTypeOK /\ server \in Servers
  BY DEF LinkInv, DeliveryTypeOK, LinkTypeOK
<1>1. \A b \in Biots : Created(b) => Created(b)'
  <2>1. RowsMove /\ \A b \in Biots : biot[b].revision \in Nat
    BY <1>0, RowsStep, RowsAreSpecs DEF Specs
  <2> QED
    BY <2>1 DEF RowsMove, Created
<1>2. \A b \in toWake' \cap Biots : Created(b)'
  BY <1>1, WakesStep DEF SendingInv
<1>3. ASSUME NEW i \in DOMAIN down', down'[i].type = "desired"
      PROVE  down'[i].spec.revision > 0
  <2>1. CASE \E j \in DOMAIN down : down'[i] = down[j]
    BY <1>3, <2>1 DEF SendingInv
  <2>2. ASSUME NEW c \in Biots, Sendable(c), down'[i] = DesiredMessage(c)
        PROVE  down'[i].spec.revision > 0
    <3>1. Created(c)
      BY <2>2 DEF Sendable, SendingInv, Included
    <3>2. down'[i].spec = biot[c]
      BY <2>2 DEF DesiredMessage
    <3> QED
      BY <3>1, <3>2 DEF Created
  <2> QED
    BY <1>3, <2>1, <2>2, SentStep
<1>4. ASSUME server'.phase # "snapshot" PROVE server'.items = NoSpecs
  <2>1. ASSUME NEW c, BuildItem(c) PROVE FALSE
    BY <1>0, <1>4, <2>1 DEF BuildItem, Servers
  <2>2. ASSUME NEW c, ClaimNode(c) PROVE FALSE
    BY <1>4, <2>2 DEF ClaimNode
  <2>3. CASE SendSnapshot
    BY <1>0, <2>3 DEF SendSnapshot, Servers
  <2>4. CASE HandleSynchronized
    BY <1>0, <2>4 DEF HandleSynchronized, Servers, SendingInv
  <2>5. CASE ServerCloses \/ ServerLosesLink \/ ServerCrashes
    BY <2>5 DEF ServerCloses, ServerLosesLink, ServerCrashes, EndConnection, NoConnection
  <2>6. ASSUME server' = server PROVE server'.items = NoSpecs
    BY <1>4, <2>6 DEF SendingInv
  <2>7. ASSUME NEW c, Authenticate(c) \/ RejectHello(c) \/ DropHello(c) \/ Request(c) \/ LoseWake(c)
                        \/ HandleWake(c) \/ Sweep(c) \/ ReloadNodes \/ HandleObservation
                        \/ HandleNodeObservation
        PROVE  server' = server
    BY <2>7 DEF Authenticate, RejectHello, DropHello, Request, LoseWake, HandleWake, Sweep,
                ReloadNodes, HandleObservation, HandleNodeObservation, serverVars
  <2>8. ASSUME NEW c \in Biots, ControllerNext(c) PROVE server' = server
    BY <1>0, <2>8, ControllerMoves DEF controlUnchanged, serverVars
  <2>9. CASE Dial \/ HandleConnected \/ CommitSnapshot \/ HandleDesired \/ Drain \/ Announce
               \/ NodeDisconnects \/ NodeLosesLink \/ NodeCrashes \/ UNCHANGED deliveryVars
    BY <2>6, <2>9 DEF Dial, HandleConnected, CommitSnapshot, HandleDesired, Drain, Announce,
                NodeDisconnects, NodeLosesLink, Disconnect, NodeCrashes, deliveryVars, serverVars
  <2> QED
    BY <2>1, <2>2, <2>3, <2>4, <2>5, <2>6, <2>7, <2>8, <2>9 DEF DeliveryNext, ServerNext, NodeNext
<1> QED
  BY <1>2, <1>3, <1>4 DEF SendingInv

\* A controller that runs keeps its specification or takes the journal's.
KeepsSpec(b) ==
  ctl'[b].phase # "none" =>
    \/ ctl[b].phase # "none" /\ ctl'[b].spec = ctl[b].spec
    \/ ctl'[b].spec = intent'[b] /\ intent'[b] # NoIntent

\* An effect is left behind by a controller whose intent is gone, only.
Leaves(b) ==
  \/ stray'[b] \in {stray[b], NoController}
  \/ intent[b] = NoIntent /\ ctl[b].phase # "none" /\ ctl'[b].phase = "none"

\* biot_controller.ex: a step of a controller takes its spec from itself or from the intent, and
\* leaves an effect behind only as Leaves says.
LEMMA ControllerKeeps ==
  ASSUME NodeTypeOK, NEW b \in Biots, ControllerNext(b)
  PROVE  KeepsSpec(b) /\ Leaves(b)
<1> DEFINE Goal == KeepsSpec(b) /\ Leaves(b)
<1>0. intent' = intent
  BY ControllerMoves
<1>1. ASSUME NEW a \in Controllers, NEW h \in Hosts, NEW record \in Retries, Inspect(b, a, h, record),
             ctl[b].phase # "none",
             a.spec = ctl[b].spec \/ (a.spec = intent[b] /\ intent[b] # NoIntent)
      PROVE  Goal
  <2>1. /\ stray' = stray
        /\ InspectEnds(b, a, h) \/ InspectStarts(b, a, h, record) \/ InspectStays(b, a, h, record)
    BY <1>1, InspectOutcome
  <2>2. StartedAction(a, h).spec = a.spec /\ [a EXCEPT !.phase = "cancelling"].spec = a.spec
    BY DEF StartedAction, Controllers
  <2>3. CASE InspectEnds(b, a, h)
    BY <2>1, <2>3 DEF InspectEnds, NodeTypeOK, NoController, KeepsSpec, Leaves
  <2>4. CASE InspectStarts(b, a, h, record)
    <3>1. ctl'[b].spec = a.spec
      BY <2>2, <2>4 DEF InspectStarts, NodeTypeOK
    <3> QED
      BY <1>0, <1>1, <2>1, <3>1 DEF KeepsSpec, Leaves
  <2>5. CASE InspectStays(b, a, h, record)
    <3>1. ctl'[b].spec = a.spec
      BY <2>2, <2>5 DEF InspectStays, NodeTypeOK
    <3> QED
      BY <1>0, <1>1, <2>1, <3>1 DEF KeepsSpec, Leaves
  <2> HIDE DEF Goal
  <2> QED
    BY <2>1, <2>3, <2>4, <2>5
<1>2. ASSUME NEW x \in Controllers, NEW h \in Hosts, NEW record \in Retries,
             x.spec = ctl[b].spec, ctl[b].phase # "none", ReloadIntent(b, x, h, record)
      PROVE  Goal
  <2>1. CASE /\ intent[b] = NoIntent
             /\ ctl' = [ctl EXCEPT ![b] = NoController]
    <3>1. ctl'[b].phase = "none"
      BY <2>1 DEF NodeTypeOK, NoController
    <3> QED
      BY <1>2, <2>1, <3>1 DEF KeepsSpec, Leaves
  <2> HIDE DEF Goal
  <2> QED
    BY <1>1, <1>2, <2>1, ReloadOutcome
<1>3. ASSUME UNCHANGED <<outbox, ctl, journalVars>>,
             stray' \in {stray, [stray EXCEPT ![b] = NoController]}
      PROVE  Goal
  <2>1. stray'[b] \in {stray[b], NoController} /\ ctl' = ctl
    BY <1>3 DEF NodeTypeOK
  <2> QED
    BY <2>1 DEF KeepsSpec, Leaves
<1>4. ASSUME UNCHANGED <<outbox, journalVars, stray>>, ctl[b].phase # "none",
             \E phase \in {"recovering", "backing_off"} : ctl' = [ctl EXCEPT ![b].phase = phase]
      PROVE  Goal
  <2>1. ctl'[b].spec = ctl[b].spec
    BY <1>4 DEF NodeTypeOK, Controllers
  <2> QED
    BY <1>4, <2>1 DEF KeepsSpec, Leaves
<1>5. host'[b] \in Hosts
  BY ControllerTypes DEF NodeTypeOK
<1> HIDE DEF Goal
<1>6. Goal
  <2> DEFINE Rests == /\ UNCHANGED <<outbox, ctl, journalVars>>
                      /\ stray' \in {stray, [stray EXCEPT ![b] = NoController]}
             Pauses == /\ UNCHANGED <<outbox, journalVars, stray>>
                       /\ ctl[b].phase # "none"
                       /\ \E phase \in {"recovering", "backing_off"} : ctl' = [ctl EXCEPT ![b].phase = phase]
             Works == /\ ctl[b].phase # "none"
                      /\ \E x \in Controllers, record \in Retries :
                           /\ x.spec = ctl[b].spec
                           /\ ReloadIntent(b, x, host'[b], record) \/ Inspect(b, x, host'[b], record)
  <2>1. Rests \/ Pauses \/ Works
    BY ControllerMoves
  <2>2. ASSUME Rests PROVE Goal
    BY <1>3, <2>2
  <2>3. ASSUME Pauses PROVE Goal
    BY <1>4, <2>3
  <2>4. ASSUME Works PROVE Goal
    BY <1>1, <1>2, <1>5, <2>4
  <2> HIDE DEF Rests, Pauses, Works
  <2> QED
    BY <2>1, <2>2, <2>3, <2>4
<1> QED
  BY <1>6 DEF Goal


\* The other steps start controllers, for intents the journal holds.
LEMMA SpecKept ==
  ASSUME ValueInv, SendingInv, [DeliveryNext]_deliveryVars, NEW b \in Biots
  PROVE  KeepsSpec(b) /\ Leaves(b)
<1>0. /\ LinkInv /\ LinkTypeOK /\ NodeTypeOK /\ down \in Seq(DownMessages)
      /\ OneValuePerRevision' /\ NodeTypeOK'
  BY ValueStep DEF ValueInv, LinkInv, DeliveryTypeOK, LinkTypeOK
<1>1. ASSUME NEW c \in Biots, ControllerNext(c) PROVE KeepsSpec(b) /\ Leaves(b)
  <2>1. CASE c = b
    BY <1>0, <1>1, <2>1, ControllerKeeps
  <2>2. CASE c # b
    <3>1. ctl'[b] = ctl[b] /\ stray'[b] = stray[b]
      BY <1>0, <1>1, <2>2, ControllerLocal
    <3> QED
      BY <3>1 DEF KeepsSpec, Leaves
  <2> QED
    BY <2>1, <2>2
<1>2. ASSUME UNCHANGED <<ctl, stray>> PROVE KeepsSpec(b) /\ Leaves(b)
  BY <1>2 DEF KeepsSpec, Leaves
<1>3. Started(intent'[b], retry'[b]).spec = intent'[b] /\ Started(intent[b], retry[b]).spec = intent[b]
  BY DEF Started, NoController
<1>4. CASE CommitSnapshot
  <2>1. /\ stray' = stray
        /\ AnnounceIntents({c \in Biots : intent'[c] # NoIntent \/ ctl[c].phase # "none"})
    BY <1>4 DEF CommitSnapshot
  <2>2. \/ ctl'[b] = ctl[b]
        \/ ctl'[b] = Started(intent'[b], retry'[b]) /\ intent'[b] # NoIntent
    BY <2>1 DEF AnnounceIntents
  <2> QED
    BY <1>3, <2>1, <2>2 DEF KeepsSpec, Leaves
<1>5. CASE HandleDesired
  <2>1. /\ down # <<>> /\ Head(down).type = "desired"
        /\ intent' = [intent EXCEPT ![Head(down).biot] = Head(down).spec]
        /\ AnnounceIntents({Head(down).biot}) /\ stray' = stray
    BY <1>5 DEF HandleDesired
  <2>2. Head(down).spec.revision > 0 /\ Head(down).biot \in Biots
    BY <1>0, <2>1, Behead, DownTypes DEF SendingInv
  <2>3. \/ ctl'[b] = ctl[b]
        \/ ctl'[b] = Started(intent'[b], retry'[b]) /\ b = Head(down).biot
    BY <2>1 DEF AnnounceIntents
  <2>4. b = Head(down).biot => intent'[b] # NoIntent
    BY <1>0, <2>1, <2>2 DEF NodeTypeOK, NoIntent, NotCreated
  <2> QED
    BY <1>3, <2>1, <2>3, <2>4 DEF KeepsSpec, Leaves
<1>6. CASE NodeCrashes
  <2>1. /\ intent' = intent /\ stray'[b] = NoController
        /\ ctl'[b] = IF intent[b] # NoIntent /\ receipt[b] = NoReport
                       THEN Started(intent[b], retry[b]) ELSE NoController
    BY <1>6 DEF NodeCrashes, journalVars
  <2>2. NoController.phase = "none"
    BY DEF NoController
  <2> QED
    BY <1>3, <2>1, <2>2 DEF KeepsSpec, Leaves
<1>7. CASE ServerNext \/ UNCHANGED deliveryVars
  BY <1>2, <1>7, ServerLeavesNode DEF deliveryVars, nodeVars, controllerVars, NodeStateStays
<1>8. CASE Dial \/ HandleConnected \/ Drain \/ Announce \/ NodeDisconnects \/ NodeLosesLink
  BY <1>2, <1>8 DEF Dial, HandleConnected, Drain, Announce, NodeDisconnects, NodeLosesLink, Disconnect,
                    controllerVars
<1> QED
  BY <1>1, <1>4, <1>5, <1>6, <1>7, <1>8 DEF DeliveryNext, NodeNext

\* Once a biot is destroyed and all that is coming for it says so, nothing else
\* comes.
LEMMA NothingElseComes ==
  ASSUME ValueInv, SendingInv, [DeliveryNext]_deliveryVars, NEW b \in Biots, Ended(b),
         biot[b].revision > 0
  PROVE  Ended(b)'
<1>0. /\ LinkInv /\ LifecycleInv /\ NodeTypeOK /\ LinkTypeOK
      /\ server \in Servers /\ down \in Seq(DownMessages)
  <2>1. LinkInv /\ LifecycleInv /\ NodeTypeOK /\ LinkTypeOK
    BY DEF ValueInv, LinkInv, DeliveryTypeOK
  <2> QED
    BY <2>1 DEF LinkTypeOK
<1>1. biot'[b] = biot[b]
  BY <1>0, RowsStep DEF RowsMove, Ended
<1> DEFINE Ends(s) == s = NoIntent \/ s.state = "destroyed"
<1>2. Ends(biot[b]) /\ Ends(intent[b]) /\ (Linked => Ends(server.items[b])) /\ Ends(NoIntent)
  BY DEF Ended, SpecsComing
<1>3. \A s \in SpecsSent(b) : Ends(s)
  BY DEF Ended, SpecsComing
<1>4. Linked' => Ends(server'.items[b])
  <2>1. server'.phase # "snapshot" => server'.items = NoSpecs
    BY SendingStep, <1>0 DEF SendingInv
  <2>2. NoSpecs[b] = NoIntent
    BY DEF NoSpecs
  <2>3. CASE Linked /\ server' = server
    BY <1>2, <2>3
  <2>4. ASSUME Linked, NEW c \in Biots,
               server' = [server EXCEPT !.todo = @ \ {c}, !.items = [@ EXCEPT ![c] = biot[c]]]
        PROVE  Ends(server'.items[b])
    <3>1. server'.items[b] \in {biot[b], server.items[b]}
      BY <1>0, <2>4 DEF Servers
    <3> QED
      BY <1>2, <2>4, <3>1
  <2> HIDE DEF Ends
  <2> QED
    BY <1>0, <1>2, <2>1, <2>2, <2>3, <2>4, CollectionStep DEF CollectionMoves
<1>5. \A s \in SpecsSent(b)' : Ends(s)
  <2> SUFFICES ASSUME NEW i \in DOMAIN down',
                      down'[i].type = "snapshot" \/ (down'[i].type = "desired" /\ down'[i].biot = b)
               PROVE  Ends(IF down'[i].type = "snapshot" THEN down'[i].specs[b] ELSE down'[i].spec)
    BY DEF SpecsSent
  <2>1. ASSUME NEW j \in DOMAIN down, down'[i] = down[j]
        PROVE  Ends(IF down'[i].type = "snapshot" THEN down'[i].specs[b] ELSE down'[i].spec)
    <3>1. (IF down[j].type = "snapshot" THEN down[j].specs[b] ELSE down[j].spec) \in SpecsSent(b)
      BY <2>1 DEF SpecsSent
    <3> HIDE DEF Ends
    <3> QED
      BY <1>3, <2>1, <3>1
  <2>2. ASSUME Linked, down'[i] = [type |-> "snapshot", specs |-> server.items]
        PROVE  Ends(IF down'[i].type = "snapshot" THEN down'[i].specs[b] ELSE down'[i].spec)
    BY <1>2, <2>2
  <2>3. ASSUME NEW c \in Biots, down'[i] = DesiredMessage(c)
        PROVE  Ends(IF down'[i].type = "snapshot" THEN down'[i].specs[b] ELSE down'[i].spec)
    <3>1. down'[i].type = "desired" /\ down'[i].biot = c /\ down'[i].spec = biot[c]
      BY <2>3 DEF DesiredMessage
    <3> QED
      BY <1>2, <3>1
  <2>4. \/ \E j \in DOMAIN down : down'[i] = down[j]
        \/ Linked /\ down'[i] = [type |-> "snapshot", specs |-> server.items]
        \/ \E c \in Biots : down'[i] = DesiredMessage(c)
    <3>1. CASE down' \in {down, <<>>}
      BY <3>1
    <3>2. CASE /\ down' \in Seq(DownMessages)
               /\ Len(down') = 1 /\ down'[1].type \in {"connected", "reject"}
      BY <3>2, LenProperties
    <3>3. CASE down # <<>> /\ down' = Tail(down)
      BY <1>0, <3>3, Behead
    <3>4. CASE Linked /\ down' = down \o <<[type |-> "snapshot", specs |-> server.items]>>
      <4> DEFINE m == [type |-> "snapshot", specs |-> server.items]
      <4>1. m \in DownMessages /\ down' = down \o <<m>>
        BY <1>0, <3>4, SentTypes
      <4> HIDE DEF m
      <4>2. (\E j \in DOMAIN down : down'[i] = down[j]) \/ down'[i] = m
        BY <1>0, <4>1, AppendedOne
      <4> QED
        BY <3>4, <4>2 DEF m
    <3>5. ASSUME NEW q \in Seq(DownMessages), down' = down \o q,
                 \A k \in DOMAIN q : \E c \in Biots : Sendable(c) /\ q[k] = DesiredMessage(c)
          PROVE  \/ \E j \in DOMAIN down : down'[i] = down[j]
                 \/ \E c \in Biots : down'[i] = DesiredMessage(c)
      BY <1>0, <3>5, Appended
    <3> QED
      BY <1>0, <3>1, <3>2, <3>3, <3>4, <3>5, DownStep DEF DownMoves
  <2> HIDE DEF Ends
  <2> QED
    BY <2>1, <2>2, <2>3, <2>4
<1>6. Ends(intent'[b])
  <2>1. CASE intent'[b] = intent[b]
    BY <1>2, <2>1
  <2>2. CASE intent'[b] \in SpecsSent(b)
    BY <1>3, <2>2
  <2>3. intent'[b] = intent[b] \/ intent'[b] \in SpecsSent(b)
    BY <1>0, IntentStep DEF IntentMoves
  <2> QED
    BY <2>1, <2>2, <2>3
<1>7. \A s \in SpecsComing(b)' : Ends(s)
  <2> HIDE DEF Ends
  <2>1. SpecsComing(b)' = {intent'[b]} \cup SpecsSent(b)'
                            \cup IF Linked' THEN {server'.items[b]} ELSE {}
    BY DEF SpecsComing
  <2> QED
    BY <1>4, <1>5, <1>6, <2>1
<1> QED
  BY <1>1, <1>7 DEF Ended


\* No effect is left behind before a controller has started.
LEMMA StrayStart == DeliveryInit => StrayInv
<1> SUFFICES ASSUME DeliveryInit, NEW b \in Biots PROVE Strays(b)
  BY DEF StrayInv
<1>1. ctl[b] = NoController /\ stray[b] = NoController
  BY DEF DeliveryInit
<1> QED
  BY <1>1 DEF Strays, NoController

\* An intent goes, by a snapshot that omits it, when its biot is destroyed and
\* the node has let go of it; nothing else is then on its way.
LEMMA GoneIsEnded ==
  ASSUME ValueInv, ForwardInv, SendingInv, StrayInv, [DeliveryNext]_deliveryVars, NEW b \in Biots,
         intent'[b] = NoIntent, intent[b] # NoIntent, ctl[b].phase # "none"
  PROVE  Ended(b)'
<1>0. LinkInv /\ LifecycleInv /\ NodeTypeOK /\ LinkTypeOK
  BY DEF ValueInv, LinkInv, DeliveryTypeOK
<1>1. down \in Seq(DownMessages) /\ InFlight /\ InStep
  BY <1>0 DEF LinkTypeOK, LinkInv, ConnectionInv
<1>2. /\ down # <<>> /\ down' = Tail(down) /\ About(1, b)
      /\ intent'[b].revision = SentRevision(1, b)
      /\ UNCHANGED <<server, agent.conn>>
  BY <1>0, IntentStep DEF IntentMoves
<1>3. 1 \in DOMAIN down /\ Len(down') = Len(down) - 1 /\ down' \in Seq(DownMessages)
  BY <1>1, <1>2, Behead
<1>4. SentRevision(1, b) = 0
  BY <1>2 DEF NoIntent, NotCreated
<1>5. down[1].type = "snapshot"
  BY <1>2, <1>3, <1>4 DEF About, SentRevision, SendingInv
<1>6. agent.phase = "synchronizing" /\ Len(down) = 1
  <2>1. agent.phase \in {"down", "handshake", "synchronizing", "ready"}
    BY <1>0 DEF LinkTypeOK, Agents
  <2> QED
    <3>1. Len(down) \in Nat /\ DOMAIN down = 1..Len(down)
      BY <1>1, LenProperties
    <3>2. down[1].type \notin {"connected", "reject", "desired"}
      BY <1>5
    <3>3. InFlight
      BY <1>1
    <3>4. agent.phase # "down"
      BY <1>2, <3>3 DEF InFlight
    <3>5. agent.phase # "handshake"
      BY <1>2, <3>2, <3>3 DEF InFlight
    <3>6. agent.phase # "ready"
      BY <1>3, <3>2, <3>3 DEF InFlight
    <3>7. agent.phase = "synchronizing" => Len(down) = 1
      BY <1>2, <3>3 DEF InFlight
    <3> QED
      BY <2>1, <3>4, <3>5, <3>6, <3>7
<1>7. down' = <<>>
  BY <1>3, <1>6, EmptySeq
<1>8. Linked' => server'.items = NoSpecs
  <2>1. Linked' => Linked
    BY <1>2 DEF Linked
  <2>2. Linked => server.phase = "synchronizing"
    <3>1. server.phase \in {"none", "snapshot", "synchronizing", "ready"}
      BY <1>0 DEF LinkTypeOK, Servers
    <3> QED
      BY <1>1, <1>2, <1>6, <3>1 DEF InStep
  <2> QED
    BY <1>2, <2>1, <2>2 DEF SendingInv
<1>9. biot[b].state = "destroyed" /\ biot[b].revision > 0
  <2>1. /\ ctl[b].spec.revision > 0 /\ ctl[b].spec.revision \in Nat
        /\ intent[b].revision \in Nat /\ biot[b].revision \in Nat
    <3>1. ctl[b] \in Controllers /\ intent[b] \in Specs /\ biot[b] \in Specs
      BY <1>0, RowsAreSpecs DEF NodeTypeOK
    <3> QED
      BY <3>1 DEF Controllers, Specs, StrayInv, Strays
  <2>2. ctl[b].spec.revision <= biot[b].revision
    BY DEF ValueInv, OneValuePerRevision, SpecsOf, SpecsHeld
  <2>3. ~Forward(b)
    <3>1. ~(intent[b].revision <= 0 /\ ctl[b].spec.revision <= intent[b].revision)
      BY <2>1
    <3> QED
      BY <1>2, <1>3, <1>4, <3>1 DEF Forward, Reported, Queued
  <2> QED
    BY <2>1, <2>2, <2>3 DEF ForwardInv
<1>10. biot'[b] = biot[b]
  BY <1>0, <1>9, RowsStep DEF RowsMove
<1>11. \A s \in SpecsComing(b)' : s = NoIntent
  <2>1. SpecsSent(b)' = {}
    BY <1>7 DEF SpecsSent
  <2>2. NoSpecs[b] = NoIntent
    BY DEF NoSpecs
  <2>3. SpecsComing(b)' = {intent'[b]} \cup SpecsSent(b)' \cup IF Linked' THEN {server'.items[b]} ELSE {}
    BY DEF SpecsComing
  <2> QED
    BY <1>8, <2>1, <2>2, <2>3
<1> QED
  BY <1>9, <1>10, <1>11 DEF Ended

\* biot_controller.ex: an effect that outlives its controller is of a biot that has ended.
LEMMA StrayStep ==
  ValueInv /\ ForwardInv /\ SendingInv /\ StrayInv /\ [DeliveryNext]_deliveryVars => StrayInv'
<1> SUFFICES ASSUME ValueInv, ForwardInv, SendingInv, StrayInv, [DeliveryNext]_deliveryVars,
                    NEW b \in Biots
             PROVE  Strays(b)'
  BY DEF StrayInv
<1>0. LinkInv /\ LifecycleInv /\ NodeTypeOK /\ ValueInv' /\ NodeTypeOK'
  BY ValueStep DEF ValueInv, LinkInv, DeliveryTypeOK
<1>1. KeepsSpec(b) /\ Leaves(b) /\ Strays(b)
  BY SpecKept DEF StrayInv
<1>2. \A s \in {biot'[b], ctl'[b].spec, intent'[b]} :
        /\ s.revision \in Nat
        /\ s.revision = 0 => s = NoIntent
  <2>1. biot'[b] \in Specs /\ ctl'[b].spec \in Specs /\ intent'[b] \in Specs
    <3>1. ctl'[b] \in Controllers /\ intent'[b] \in Specs
      BY <1>0 DEF NodeTypeOK
    <3>2. LifecycleInv'
      BY <1>0 DEF ValueInv, LinkInv, DeliveryTypeOK
    <3>3. biot'[b] \in Specs
      BY <3>2, LifecycleConstants DEF LifecycleInv, LifecycleTypeOK, Specs
    <3> QED
      BY <3>1, <3>3 DEF Controllers
  <2>2. \A s \in SpecsHeld(b)' : s.revision = 0 => s = NoIntent
    <3>1. \A s, t \in SpecsOf(b)' : s.revision = t.revision => s = t
      BY <1>0 DEF ValueInv, OneValuePerRevision
    <3>2. NoIntent \in SpecsOf(b)' /\ SpecsHeld(b)' \subseteq SpecsOf(b)' /\ NoIntent.revision = 0
      BY DEF SpecsOf, SpecsHeld, NoIntent, NotCreated
    <3> QED
      BY <3>1, <3>2
  <2> QED
    BY <2>1, <2>2 DEF SpecsHeld, Specs
<1>3. ASSUME ctl[b].phase # "none" \/ stray[b] # NoController, Ended(b)
      PROVE  Ended(b)' /\ Ended(b)
  <2>1. biot[b].revision > 0
    <3>1. biot[b].state # "stopped"
      BY <1>3 DEF Ended
    <3>2. biot[b].revision \in Nat
      BY <1>0, RowsAreSpecs DEF Specs
    <3>3. biot[b].revision = 0 => biot[b] = NoIntent
      BY DEF ValueInv, OneValuePerRevision, SpecsOf, SpecsHeld, NoIntent, NotCreated
    <3> QED
      BY <3>1, <3>2, <3>3 DEF NoIntent, NotCreated
  <2> QED
    BY <1>3, <2>1, NothingElseComes
<1>4. ctl'[b].phase # "none" => ctl'[b].spec.revision > 0
  <2>1. CASE ctl'[b].spec = ctl[b].spec /\ ctl[b].phase # "none"
    BY <1>1, <2>1 DEF Strays
  <2>2. CASE ctl'[b].spec = intent'[b] /\ intent'[b] # NoIntent
    BY <1>2, <2>2
  <2> QED
    BY <1>1, <2>1, <2>2 DEF KeepsSpec
<1>5. ASSUME intent'[b] = NoIntent, ctl'[b].phase # "none"
      PROVE  Ended(b)'
  <2>1. ctl[b].phase # "none"
    BY <1>1, <1>5 DEF KeepsSpec
  <2>2. CASE intent[b] = NoIntent
    BY <1>1, <1>3, <2>1, <2>2 DEF Strays
  <2>3. CASE intent[b] # NoIntent
    BY <1>5, <2>1, <2>3, GoneIsEnded
  <2> QED
    BY <2>2, <2>3
<1>6. ASSUME stray'[b] # NoController
      PROVE  Ended(b)' /\ (ctl'[b].phase = "none" \/ ctl'[b].spec.state = "destroyed")
  <2>1. CASE intent[b] = NoIntent /\ ctl[b].phase # "none" /\ ctl'[b].phase = "none"
    BY <1>1, <1>3, <2>1 DEF Strays
  <2>2. CASE stray[b] # NoController
    <3>1. Ended(b) /\ (ctl[b].phase = "none" \/ ctl[b].spec.state = "destroyed") /\ Ended(b)'
      BY <1>1, <1>3, <2>2 DEF Strays
    <3>2. intent'[b] = NoIntent \/ intent'[b].state = "destroyed"
      BY <3>1 DEF Ended, SpecsComing
    <3> QED
      BY <1>1, <3>1, <3>2 DEF KeepsSpec
  <2> QED
    BY <1>1, <1>6, <2>1, <2>2 DEF Leaves
<1> QED
  BY <1>4, <1>5, <1>6 DEF Strays

\* biot_controller.ex 348-382: a controller that stops because its intent is gone
\* leaves the effect it runs behind; by then the biot is destroyed, and nothing
\* that could contradict the effect is on its way to the node.
THEOREM StrayTheorem == DeliverySpec => []StrayInv
  BY ValueStart, ValueStep, ForwardStart, ForwardStep, LinkStart, SendingStart, SendingStep,
     StrayStart, StrayStep, PTL DEF DeliverySpec, ValueInv


-----------------------------------------------------------------------------
(* The backoff that a failure owes.                                        *)

\* What a handler that writes the record `record` must know of a backoff it
\* owes, and of the controller `c` it leaves to Inspect.
Owing(b, c, record) ==
  record.due => /\ record.failure = "automatic" /\ c.retry = record
                /\ c.spec.revision = intent[b].revision
                /\ c.phase \in {"backing_off", "recovering", "idle"}

\* An inspection starts the next action, and the backoff is over, or leaves the
\* controller to serve it.
LEMMA OwedInspect ==
  ASSUME NodeTypeOK, NEW b \in Biots, NEW a \in Controllers, NEW record \in Retries,
         Inspect(b, a, host'[b], record), host'[b] \in Hosts, intent' = intent, Owing(b, a, record)
  PROVE  Owed(b)'
<1>1. \/ InspectEnds(b, a, host'[b]) \/ InspectStarts(b, a, host'[b], record)
      \/ InspectStays(b, a, host'[b], record)
  BY InspectOutcome
<1>2. CASE InspectEnds(b, a, host'[b])
  BY <1>2 DEF InspectEnds, NodeTypeOK, NoRetry, Owed
<1>3. CASE InspectStarts(b, a, host'[b], record)
  <2>1. retry'[b].due = FALSE
    BY <1>3 DEF InspectStarts, NodeTypeOK, Retries
  <2> QED
    BY <2>1 DEF Owed
<1>4. CASE InspectStays(b, a, host'[b], record)
  <2>1. /\ ~Finished(a, host'[b]) /\ ~Starts(a, host'[b]) /\ retry'[b] = record
        /\ ctl'[b] = a \/ a.phase = "running"
    BY <1>4 DEF InspectStays, NodeTypeOK
  <2> SUFFICES ASSUME record.due
               PROVE  record.failure = "automatic" /\ Serves(ctl'[b], record, host'[b], intent[b].revision)
    BY <2>1 DEF Owed
  <2>2. /\ record.failure = "automatic" /\ a.retry = record /\ a.spec.revision = intent[b].revision
        /\ a.phase \in {"backing_off", "recovering", "idle"}
    BY DEF Owing
  <2>3. ASSUME a.phase = "idle"
        PROVE  NextAction(a.spec, host'[b]) = "settled" /\ a.spec.state # "destroyed"
    <3>1. Ready(a)
      BY <2>2, <2>3 DEF Ready, Blocked
    <3> QED
      BY <2>1, <3>1 DEF Finished, Settles, Starts
  <2>4. ctl'[b] = a
    BY <2>1, <2>2
  <2> QED
    BY <2>2, <2>3, <2>4 DEF Serves
<1> QED
  BY <1>1, <1>2, <1>3, <1>4

\* So does a reload: the record of another revision owes nothing.
LEMMA OwedReload ==
  ASSUME NodeTypeOK, NEW b \in Biots, NEW c \in Controllers, NEW record \in Retries,
         ReloadIntent(b, c, host'[b], record), host'[b] \in Hosts, intent' = intent,
         Owing(b, c, record), Owed(b)
  PROVE  Owed(b)'
<1>1. CASE ctl' = [ctl EXCEPT ![b] = NoController] /\ retry' = retry
  BY <1>1 DEF Owed, NodeTypeOK, NoController
<1>2. ASSUME NEW a \in Controllers, Inspect(b, a, host'[b], record),
             a = c \/ c.spec.revision # intent[b].revision
      PROVE  Owed(b)'
  <2>1. Owing(b, a, record)
    BY <1>2 DEF Owing
  <2> QED
    BY <1>2, <2>1, OwedInspect
<1> QED
  BY <1>1, <1>2, ReloadOutcome

\* The steps of one controller.
LEMMA OwedController ==
  ASSUME NodeTypeOK, NEW b \in Biots, ControllerNext(b), Strays(b), Owed(b)
  PROVE  Owed(b)'
<1>0. /\ intent' = intent /\ host'[b] \in Hosts /\ host \in [Biots -> Hosts]
      /\ ctl[b] \in Controllers /\ retry[b] \in Retries /\ NoRetry \in Retries
      /\ Effect(ctl[b], host[b]) \in Hosts
  BY ControllerMoves, ControllerTypes, NothingTypes, EffectType DEF NodeTypeOK
<1>1. ctl[b].phase # "none" /\ retry[b].due => Serves(ctl[b], retry[b], host[b], intent[b].revision)
  BY DEF Owed
<1>2. [ctl[b] EXCEPT !.phase = "idle"] \in Controllers
  BY <1>0 DEF Controllers, Phases
<1>3. /\ [ctl[b] EXCEPT !.phase = "idle"].spec = ctl[b].spec
      /\ [ctl[b] EXCEPT !.phase = "idle"].retry = ctl[b].retry
      /\ [ctl[b] EXCEPT !.phase = "idle"].phase = "idle"
  BY <1>0 DEF Controllers
<1>4. retry[b].due => retry[b].failure = "automatic"
  BY DEF Owed
<1>5. ctl[b].phase # "none" => /\ Owing(b, ctl[b], retry[b])
                               /\ Owing(b, [ctl[b] EXCEPT !.phase = "idle"], retry[b])
  BY <1>1, <1>3, <1>4 DEF Owing, Serves
<1>6. CASE UNCHANGED <<ctl, retry, host>>
  BY <1>0, <1>6 DEF Owed
<1>7. CASE HandleIntentChanged(b)
  <2>1. host' = host
    BY <1>7 DEF HandleIntentChanged
  <2>2. CASE ctl[b].phase = "none"
    BY <1>6, <1>7, <2>1, <2>2 DEF HandleIntentChanged
  <2>3. CASE ctl[b].phase # "none"
    <3>1. ReloadIntent(b, ctl[b], host'[b], retry[b])
      BY <1>7, <2>1, <2>3 DEF HandleIntentChanged
    <3> QED
      BY <1>0, <1>5, <2>3, <3>1, OwedReload
  <2> QED
    BY <2>2, <2>3
<1>8. CASE Recovered(b)
  <2>1. host' = host /\ ctl[b].phase = "recovering"
    BY <1>8 DEF Recovered
  <2>2. CASE ctl[b].retry.due
    <3>1. /\ ctl' = [ctl EXCEPT ![b].phase = "backing_off"] /\ retry' = retry
      BY <1>8, <2>2 DEF Recovered
    <3>2. /\ ctl'[b].phase = "backing_off" /\ ctl'[b].spec = ctl[b].spec
          /\ ctl'[b].retry = ctl[b].retry
      BY <3>1 DEF NodeTypeOK, Controllers
    <3> QED
      BY <1>0, <1>1, <1>4, <2>1, <3>1, <3>2 DEF Owed, Serves
  <2>3. CASE ~ctl[b].retry.due
    <3>1. ReloadIntent(b, [ctl[b] EXCEPT !.phase = "idle"], host'[b], retry[b])
      BY <1>8, <2>1, <2>3 DEF Recovered
    <3> QED
      BY <1>0, <1>2, <1>5, <2>1, <3>1, OwedReload
  <2> QED
    BY <2>2, <2>3
<1>9. ASSUME NEW c \in Controllers, Owing(b, c, retry[b]), Converge(b, c, host'[b])
      PROVE  Owed(b)'
  <2>1. ReloadIntent(b, c, host'[b], retry[b]) \/ Inspect(b, c, host'[b], retry[b])
    BY <1>9 DEF Converge
  <2> QED
    BY <1>0, <1>9, <2>1, OwedReload, OwedInspect
<1>10. CASE RetryLater(b)
  <2>1. /\ host' = host /\ ctl[b].phase = "backing_off"
        /\ Converge(b, [ctl[b] EXCEPT !.phase = "idle"], host'[b])
    BY <1>10 DEF RetryLater
  <2> QED
    BY <1>2, <1>5, <1>9, <2>1
<1>11. CASE ObserveAgain(b)
  <2>1. /\ host' = host /\ ctl[b].phase = "idle" /\ Converge(b, ctl[b], host'[b])
    BY <1>11 DEF ObserveAgain, Settles, Ready
  <2> QED
    BY <1>0, <1>5, <1>9, <2>1
<1>12. ctl[b].phase \in {"running", "cancelling"} => ~retry[b].due
  BY <1>1 DEF Serves
<1>13. ASSUME NEW record \in Retries
       PROVE  /\ Recording(b, record) \in Controllers /\ Journalled(b, record) \in Retries
              /\ [Recording(b, record) EXCEPT !.phase = "backing_off"] \in Controllers
              /\ Recording(b, record).spec = ctl[b].spec
              /\ [Recording(b, record) EXCEPT !.phase = "backing_off"].spec = ctl[b].spec
              /\ [Recording(b, record) EXCEPT !.phase = "backing_off"].phase = "backing_off"
              /\ Counts(b, ctl[b]) =>
                   [Recording(b, record) EXCEPT !.phase = "backing_off"].retry = record
  BY <1>0 DEF Recording, Journalled, Controllers, Phases
<1>14. CASE Succeed(b)
  <2>1. /\ ctl[b].phase = "running" /\ host'[b] = Effect(ctl[b], host[b])
        /\ ReloadIntent(b, Recording(b, NoRetry), host'[b], Journalled(b, NoRetry))
    BY <1>0, <1>14 DEF Succeed
  <2>2. ~Journalled(b, NoRetry).due
    BY <1>12, <2>1 DEF Journalled, NoRetry
  <2>3. Owing(b, Recording(b, NoRetry), Journalled(b, NoRetry))
    BY <2>2 DEF Owing
  <2> QED
    BY <1>0, <1>13, <2>1, <2>3, OwedReload
<1>15. ASSUME NEW policy \in {"automatic", "after_change"}, Fail(b, policy)
       PROVE  Owed(b)'
  <2> DEFINE record == [failure |-> policy, due |-> policy = "automatic"]
  <2>1. record \in Retries /\ (record.due => record.failure = "automatic")
    BY DEF Retries, RetryPolicies
  <2>2. /\ ctl[b].phase = "running" /\ host' = host
        /\ ReloadIntent(b, IF Counts(b, ctl[b]) /\ record.due
                             THEN [Recording(b, record) EXCEPT !.phase = "backing_off"]
                             ELSE Recording(b, record),
                        host'[b], Journalled(b, record))
    BY <1>15 DEF Fail
  <2> HIDE DEF record
  <2>3. CASE Counts(b, ctl[b]) /\ record.due
    <3> DEFINE c == [Recording(b, record) EXCEPT !.phase = "backing_off"]
    <3>1. ReloadIntent(b, c, host'[b], record)
      BY <2>2, <2>3 DEF Journalled
    <3>2. c \in Controllers /\ c.spec = ctl[b].spec /\ c.phase = "backing_off" /\ c.retry = record
      BY <1>13, <2>1, <2>3
    <3>3. ctl[b].spec.revision = intent[b].revision
      BY <2>3 DEF Counts
    <3> HIDE DEF c
    <3>4. Owing(b, c, record)
      BY <2>1, <3>2, <3>3 DEF Owing
    <3> QED
      BY <1>0, <2>1, <3>1, <3>2, <3>4, OwedReload
  <2>4. CASE ~(Counts(b, ctl[b]) /\ record.due)
    <3>1. ReloadIntent(b, Recording(b, record), host'[b], Journalled(b, record))
      BY <2>2, <2>4
    <3>2. ~Journalled(b, record).due
      BY <1>12, <2>2, <2>4 DEF Journalled
    <3>3. Owing(b, Recording(b, record), Journalled(b, record))
      BY <3>2 DEF Owing
    <3> QED
      BY <1>0, <1>13, <2>1, <3>1, <3>3, OwedReload
  <2> QED
    BY <2>3, <2>4
<1>16. CASE EndCancelled(b)
  <2>1. ctl[b].phase = "cancelling" /\ retry' = retry
    BY <1>16 DEF EndCancelled, journalVars
  <2> QED
    BY <1>12, <2>1 DEF Owed
<1>17. CASE EndStray(b)
  <2>1. stray[b] # NoController /\ UNCHANGED <<ctl, retry>>
    BY <1>17 DEF EndStray, journalVars
  <2>2. ctl[b].phase = "none" \/ ctl[b].spec.state = "destroyed"
    BY <2>1 DEF Strays
  <2> QED
    BY <1>0, <1>1, <1>4, <2>1, <2>2 DEF Owed, Serves
<1> QED
  BY <1>7, <1>8, <1>10, <1>11, <1>14, <1>15, <1>16, <1>17 DEF ControllerNext


\* No backoff is due at first.
LEMMA OwedStart == DeliveryInit => OwedInv
  BY DEF DeliveryInit, OwedInv, Owed, NoRetry

\* biot_controller.ex: a backoff that is due has a controller to serve it.
LEMMA OwedStep ==
  ValueInv /\ StrayInv /\ OwedInv /\ [DeliveryNext]_deliveryVars => OwedInv'
<1> SUFFICES ASSUME ValueInv, StrayInv, OwedInv, [DeliveryNext]_deliveryVars, NEW b \in Biots
             PROVE  Owed(b)'
  BY DEF OwedInv
<1>0. /\ LinkInv /\ NodeTypeOK /\ Strays(b) /\ Owed(b)
  BY DEF ValueInv, LinkInv, DeliveryTypeOK, StrayInv, OwedInv
<1>1. ASSUME UNCHANGED <<ctl, retry, host, intent>> PROVE Owed(b)'
  BY <1>0, <1>1 DEF Owed
<1>2. ASSUME NEW c \in Biots, ControllerNext(c) PROVE Owed(b)'
  <2>1. CASE c = b
    BY <1>0, <1>2, <2>1, OwedController
  <2>2. CASE c # b
    <3>1. /\ ctl'[b] = ctl[b] /\ retry'[b] = retry[b] /\ host'[b] = host[b] /\ intent' = intent
      BY <1>0, <1>2, <2>2, ControllerLocal, ControllerMoves
    <3> QED
      BY <1>0, <3>1 DEF Owed
  <2> QED
    BY <2>1, <2>2
<1>3. \A spec, record : /\ Started(spec, record).phase = "recovering"
                        /\ Started(spec, record).spec = spec /\ Started(spec, record).retry = record
  BY DEF Started, NoController
<1>4. ASSUME retry'[b] = NoRetry \/ (retry'[b] = retry[b] /\ intent'[b].revision = intent[b].revision),
             ctl'[b] = ctl[b] \/ ctl'[b] = Started(intent'[b], retry'[b]), host' = host
      PROVE  Owed(b)'
  <2> SUFFICES ASSUME retry'[b].due
               PROVE  /\ retry'[b].failure = "automatic"
                      /\ ctl'[b].phase # "none" =>
                           Serves(ctl'[b], retry'[b], host'[b], intent'[b].revision)
    BY DEF Owed
  <2>1. retry'[b] = retry[b] /\ intent'[b].revision = intent[b].revision
    BY <1>4 DEF NoRetry
  <2> QED
    BY <1>0, <1>3, <1>4, <2>1 DEF Owed, Serves
<1>5. CASE CommitSnapshot
  <2>1. /\ retry'[b] = IF intent'[b].revision = intent[b].revision THEN retry[b] ELSE NoRetry
        /\ ctl'[b] = ctl[b] \/ ctl'[b] = Started(intent'[b], retry'[b])
        /\ host' = host
    BY <1>5 DEF CommitSnapshot, AnnounceIntents
  <2> QED
    BY <1>4, <2>1
<1>6. CASE HandleDesired
  <2> DEFINE c == Head(down).biot
             spec == Head(down).spec
  <2>1. /\ intent' = [intent EXCEPT ![c] = spec]
        /\ retry' = IF spec.revision = intent[c].revision THEN retry
                    ELSE [retry EXCEPT ![c] = NoRetry]
        /\ ctl'[b] = ctl[b] \/ ctl'[b] = Started(intent'[b], retry'[b])
        /\ host' = host
    BY <1>6 DEF HandleDesired, AnnounceIntents
  <2> HIDE DEF c, spec
  <2>2. retry'[b] = NoRetry \/ (retry'[b] = retry[b] /\ intent'[b].revision = intent[b].revision)
    BY <1>0, <2>1 DEF NodeTypeOK
  <2> QED
    BY <1>4, <2>1, <2>2
<1>7. CASE NodeCrashes
  <2>1. /\ retry' = retry /\ intent' = intent
        /\ ctl'[b] = Started(intent[b], retry[b]) \/ ctl'[b] = NoController
    BY <1>7 DEF NodeCrashes, journalVars
  <2>2. NoController.phase = "none"
    BY DEF NoController
  <2> QED
    BY <1>0, <1>3, <2>1, <2>2 DEF Owed, Serves
<1>8. CASE ServerNext \/ UNCHANGED deliveryVars
  BY <1>1, <1>8, ServerLeavesNode DEF deliveryVars, nodeVars, journalVars, controllerVars, NodeStateStays
<1>9. CASE Dial \/ HandleConnected \/ Drain \/ Announce \/ NodeDisconnects \/ NodeLosesLink
  BY <1>1, <1>9 DEF Dial, HandleConnected, Drain, Announce, NodeDisconnects, NodeLosesLink, Disconnect,
                    journalVars, controllerVars
<1> QED
  BY <1>2, <1>5, <1>6, <1>7, <1>8, <1>9 DEF DeliveryNext, NodeNext

\* A controller that serves a backoff does not start before its wake.
LEMMA ControllerWaits ==
  ASSUME NodeTypeOK, NEW b \in Biots, ControllerNext(b), Owed(b), retry[b].due,
         ctl'[b].phase = "running", ctl[b].phase # "running"
  PROVE  ctl[b].phase = "backing_off"
<1> SUFFICES ASSUME ctl[b].phase # "backing_off" PROVE FALSE
  OBVIOUS
<1>0. /\ ctl[b] \in Controllers /\ retry[b] \in Retries /\ host[b] \in Hosts
  BY DEF NodeTypeOK
<1>1. ctl[b].phase # "none" => Serves(ctl[b], retry[b], host[b], intent[b].revision)
  BY DEF Owed
<1>2. ctl[b].phase # "none" => ~Starts(ctl[b], host[b]) /\ ctl[b].phase \in {"recovering", "idle"}
  BY <1>1 DEF Serves, Starts, Ready
<1>3. ASSUME Inspect(b, ctl[b], host[b], retry[b]), ctl[b].phase # "none" PROVE FALSE
  <2>1. \/ InspectEnds(b, ctl[b], host[b]) \/ InspectStarts(b, ctl[b], host[b], retry[b])
        \/ InspectStays(b, ctl[b], host[b], retry[b])
    BY <1>0, <1>3, InspectOutcome
  <2>2. CASE InspectEnds(b, ctl[b], host[b])
    BY <2>2 DEF InspectEnds, NoController, NodeTypeOK
  <2>3. CASE InspectStarts(b, ctl[b], host[b], retry[b])
    BY <1>2, <1>3, <2>3 DEF InspectStarts
  <2>4. CASE InspectStays(b, ctl[b], host[b], retry[b])
    BY <1>2, <1>3, <2>4 DEF InspectStays, NodeTypeOK
  <2> QED
    BY <2>1, <2>2, <2>3, <2>4
<1>4. ASSUME ReloadIntent(b, ctl[b], host[b], retry[b]), ctl[b].phase # "none" PROVE FALSE
  <2>1. CASE ctl' = [ctl EXCEPT ![b] = NoController]
    BY <2>1 DEF NoController, NodeTypeOK
  <2>2. ctl[b].spec.revision = intent[b].revision
    BY <1>1, <1>4 DEF Serves
  <2>3. ctl' = [ctl EXCEPT ![b] = NoController] \/ Inspect(b, ctl[b], host[b], retry[b])
    BY <1>0, <1>4, <2>2, ReloadOutcome
  <2> QED
    BY <1>3, <1>4, <2>1, <2>3
<1>5. CASE HandleIntentChanged(b)
  BY <1>4, <1>5 DEF HandleIntentChanged
<1>6. CASE Recovered(b)
  <2>1. ctl[b].phase = "recovering"
    BY <1>6 DEF Recovered
  <2>2. ctl[b].retry.due
    BY <1>1, <2>1 DEF Serves
  <2>3. ctl' = [ctl EXCEPT ![b].phase = "backing_off"]
    BY <1>6, <2>2 DEF Recovered
  <2> QED
    BY <1>0, <2>3 DEF NodeTypeOK, Controllers
<1>7. CASE ObserveAgain(b)
  <2>1. Converge(b, ctl[b], host[b]) /\ ctl[b].phase = "idle"
    BY <1>7 DEF ObserveAgain, Settles, Ready
  <2>2. Inspect(b, ctl[b], host[b], retry[b])
    BY <1>2, <2>1 DEF Converge
  <2> QED
    BY <1>3, <2>1, <2>2
<1>8. CASE RetryLater(b) \/ Succeed(b) \/ \E policy \in {"automatic", "after_change"} : Fail(b, policy)
  BY <1>8 DEF RetryLater, Succeed, Fail
<1>9. CASE EndCancelled(b) \/ EndStray(b)
  BY <1>2, <1>9 DEF EndCancelled, EndStray
<1> QED
  BY <1>5, <1>6, <1>7, <1>8, <1>9 DEF ControllerNext

\* biot_controller.ex 333-336: the backoff a failure owes is served before the
\* revision is tried again, whatever crashes, wakes and intents come in between.
THEOREM BackoffTheorem == DeliverySpec => BackoffIsServed
<1> DEFINE A == \A b \in Biots :
                  retry[b].due /\ ctl'[b].phase = "running" /\ ctl[b].phase # "running"
                    => ctl[b].phase = "backing_off" \/ ctl[b].spec # intent[b]
           Inv == ValueInv /\ ForwardInv /\ SendingInv /\ StrayInv /\ OwedInv
<1>1. DeliveryInit => Inv
  BY ValueStart, ForwardStart, SendingStart, StrayStart, OwedStart
<1>2. Inv /\ [DeliveryNext]_deliveryVars => Inv'
  BY ValueStep, ForwardStep, SendingStep, StrayStep, OwedStep DEF ValueInv
<1>3. Inv /\ [DeliveryNext]_deliveryVars => [A]_ctl
  <2> SUFFICES ASSUME Inv, DeliveryNext, NEW b \in Biots, retry[b].due,
                      ctl'[b].phase = "running", ctl[b].phase # "running"
               PROVE  ctl[b].phase = "backing_off"
    BY DEF deliveryVars, nodeVars, controllerVars
  <2>1. NodeTypeOK /\ Owed(b)
    BY DEF ValueInv, LinkInv, DeliveryTypeOK, OwedInv
  <2>2. ASSUME NEW c \in Biots, ControllerNext(c) PROVE ctl[b].phase = "backing_off"
    <3>1. c = b
      BY <2>1, <2>2, ControllerLocal
    <3> QED
      BY <2>1, <2>2, <3>1, ControllerWaits
  <2>3. CASE ~(\E c \in Biots : ControllerNext(c))
    BY <2>1, <2>3, OthersStartNothing
  <2> QED
    BY <2>2, <2>3
<1> HIDE DEF A, Inv
<1>4. DeliverySpec => [][A]_ctl
  BY <1>1, <1>2, <1>3, PTL DEF DeliverySpec
<1> QED
  BY <1>4 DEF A, BackoffIsServed

-----------------------------------------------------------------------------
(* Delivery implements Lifecycle: the reports that arrive are some reports. *)

Rows == INSTANCE Lifecycle WITH ReportsHeard <- Reports

\* What both modules read alike.
LEMMA RowsOps ==
  /\ Rows!Revisions = Revisions /\ Rows!Live = Live /\ Rows!NoOp = NoOp /\ Rows!NoReport = NoReport
  /\ Rows!DestroyChange = DestroyChange /\ Rows!Statuses = Statuses
  /\ Rows!NewOutcome = NewOutcome /\ (Rows!Room <=> Room)
  /\ Rows!MayHoldAllocations <=> MayHoldAllocations
<1>1. Rows!Live = Live /\ Rows!NoOp = NoOp /\ Rows!NoReport = NoReport
  BY Zenon DEF Rows!Live, Live, Rows!NoOp, NoOp, Rows!NoReport, NoReport
<1>2. Rows!Revisions = Revisions /\ Rows!DestroyChange = DestroyChange /\ Rows!Statuses = Statuses
  BY Zenon DEF Rows!Revisions, Revisions, Rows!DestroyChange, DestroyChange, Rows!Statuses, Statuses
<1>3. Rows!NewOutcome = NewOutcome
  BY Zenon DEF Rows!NewOutcome, NewOutcome
<1>4. \A b : Rows!Created(b) <=> Created(b)
  BY Zenon DEF Rows!Created, Created
<1>5. \A b : Rows!Holds(b) <=> Holds(b)
  BY <1>1, <1>4, Zenon DEF Rows!Holds, Holds
<1>6. Rows!Room <=> Room
  <2>1. {b \in Biots : Rows!Holds(b)} = {b \in Biots : Holds(b)}
    BY <1>5
  <2>2. Rows!Cardinality({b \in Biots : Holds(b)}) = Cardinality({b \in Biots : Holds(b)})
    BY Zenon DEF Rows!Cardinality, Cardinality
  <2> QED
    BY <2>1, <2>2, Zenon DEF Rows!Room, Room
<1>7. Rows!MayHoldAllocations <=> MayHoldAllocations
  BY <1>1, <1>4 DEF Rows!MayHoldAllocations, MayHoldAllocations
<1> QED
  BY <1>1, <1>2, <1>3, <1>6, <1>7

\* The server's commands write the same rows in both.
LEMMA RowsCommand ==
  /\ \A b, initial, env : Rows!Create(b, initial, env) <=> Create(b, initial, env)
  /\ \A b, change : Rows!Change(b, change) <=> Change(b, change)
<1>1. \A b : Rows!Created(b) <=> Created(b)
  BY Zenon DEF Rows!Created, Created
<1>2. ASSUME NEW b, NEW initial, NEW env
      PROVE  Rows!Create(b, initial, env) <=> Create(b, initial, env)
  <2>1. Rows!NameAvailable(b) <=> NameAvailable(b)
    BY <1>1, Zenon DEF Rows!NameAvailable, NameAvailable
  <2> QED
    BY <1>1, <2>1, RowsOps, Zenon DEF Rows!Create, Create
<1>3. ASSUME NEW b, NEW change
      PROVE  Rows!Change(b, change) <=> Change(b, change)
  <2>1. Rows!Changed(biot[b], change) <=> Changed(biot[b], change)
    BY Zenon DEF Rows!Changed, Changed
  <2>2. Rows!Transition(biot[b], change) = Transition(biot[b], change)
    BY Zenon DEF Rows!Transition, Transition, Rows!NewState, NewState
  <2>3. ASSUME NEW rows, NEW target, NEW operation
        PROVE  Rows!Recorded(rows, target, operation) = Recorded(rows, target, operation)
    BY RowsOps, Zenon DEF Rows!Recorded, Recorded
  <2> QED
    BY <1>1, <2>1, <2>2, <2>3, RowsOps, Zenon DEF Rows!Change, Change
<1> QED
  BY <1>2, <1>3

\* So does the enrollment file.
LEMMA RowsReload == Rows!Reload <=> Reload
<1>1. ASSUME NEW rows PROVE Rows!FailOperations(rows) = FailOperations(rows)
  BY RowsOps, Zenon DEF Rows!FailOperations, FailOperations
<1>2. ASSUME NEW status, NEW max PROVE Rows!Enroll(status, max) <=> Enroll(status, max)
  BY <1>1, RowsOps, Zenon DEF Rows!Enroll, Enroll
<1>3. Rows!Omit <=> Omit
  BY Zenon DEF Rows!Omit, Omit
<1> QED
  BY <1>2, <1>3, RowsOps, Zenon DEF Rows!Reload, Reload

\* So does a report.
LEMMA RowsHear ==
  /\ \A b, report : Rows!Observe(b, report) <=> Observe(b, report)
  /\ \A os : Rows!ObserveNode(os) <=> ObserveNode(os)
<1>1. ASSUME NEW kind, NEW revision, NEW desired, NEW report
      PROVE  Rows!Decide(kind, revision, desired, report) = Decide(kind, revision, desired, report)
  <2>1. Rows!Completed(kind, desired, report) <=> Completed(kind, desired, report)
    BY Zenon DEF Rows!Completed, Completed, Rows!RunningWithEnvironment, RunningWithEnvironment
  <2> QED
    BY <2>1, Zenon DEF Rows!Decide, Decide
<1>2. ASSUME NEW b, NEW report
      PROVE  Rows!OperationOutcome(b, report) = OperationOutcome(b, report)
  BY <1>1, RowsOps, Zenon DEF Rows!OperationOutcome, OperationOutcome, Rows!Terminal, Terminal
<1>3. ASSUME NEW b, NEW report PROVE Rows!Observe(b, report) <=> Observe(b, report)
  <2>1. Rows!Created(b) <=> Created(b)
    BY Zenon DEF Rows!Created, Created
  <2> QED
    BY <1>2, <2>1, Zenon DEF Rows!Observe, Observe
<1>4. ASSUME NEW os PROVE Rows!ObserveNode(os) <=> ObserveNode(os)
  BY Zenon DEF Rows!ObserveNode, ObserveNode
<1> QED
  BY <1>3, <1>4

\* The server starts with no rows.
LEMMA RowsStart == LifecycleInit => Rows!LifecycleInit
  BY RowsOps, Zenon DEF LifecycleInit, Rows!LifecycleInit, Rows!NotCreated, NotCreated

\* Every step of the two ends is a step of the rows, or leaves them.
LEMMA ImplementsRows ==
  LinkInv /\ [DeliveryNext]_deliveryVars => [Rows!LifecycleNext]_(Rows!lifecycleVars)
<1> SUFFICES ASSUME LinkInv, [DeliveryNext]_deliveryVars
             PROVE  Rows!LifecycleNext \/ UNCHANGED lifecycleVars
  BY Zenon DEF Rows!lifecycleVars, lifecycleVars
<1>1. LifecycleInv /\ LinkTypeOK
  BY DEF LinkInv, DeliveryTypeOK
<1>2. CASE UNCHANGED deliveryVars
  BY <1>2 DEF deliveryVars
<1>3. CASE \E b \in Biots : Request(b)
  <2>1. PICK b \in Biots : Request(b)
    BY <1>3
  <2>2. CASE \E initial \in InitialStates, env \in Envs : Create(b, initial, env)
    BY <2>2, RowsCommand, Zenon DEF Rows!LifecycleNext, Rows!Command
  <2>3. CASE \E expected \in Revisions, change \in ChangesAsked : ChangeLifecycle(b, expected, change)
    BY <2>3, RowsCommand, RowsOps, Zenon DEF Rows!LifecycleNext, Rows!Command, Rows!ChangeLifecycle, ChangeLifecycle
  <2>4. CASE Destroy(b)
    BY <2>4, RowsCommand, RowsOps, Zenon DEF Rows!LifecycleNext, Rows!Command, Rows!Destroy, Destroy
  <2> QED
    BY <2>1, <2>2, <2>3, <2>4 DEF Request
<1>4. CASE ReloadNodes
  BY <1>4, RowsReload, Zenon DEF ReloadNodes, Rows!LifecycleNext
<1>5. CASE HandleObservation
  <2>1. up # <<>> /\ up \in Seq(UpMessages) /\ Head(up).type = "observation"
    BY <1>1, <1>5 DEF HandleObservation, LinkTypeOK
  <2>2. Head(up).biot \in Biots /\ Head(up).report \in Reports
    BY <2>1, Behead, UpTypes
  <2>3. Observe(Head(up).biot, Head(up).report) \/ UNCHANGED lifecycleVars
    BY <1>5 DEF HandleObservation
  <2> QED
    BY <2>2, <2>3, RowsHear, Zenon DEF Rows!LifecycleNext, Rows!Hear
<1>6. CASE HandleNodeObservation
  <2>1. up # <<>> /\ up \in Seq(UpMessages) /\ Head(up).type = "node_observation"
    BY <1>1, <1>6 DEF HandleNodeObservation, LinkTypeOK
  <2>2. Head(up).orphans \in SUBSET Biots
    BY <2>1, Behead, UpTypes
  <2>3. ObserveNode(Head(up).orphans)
    BY <1>6 DEF HandleNodeObservation
  <2> QED
    BY <2>2, <2>3, RowsHear, Zenon DEF Rows!LifecycleNext, Rows!Hear
<1> QED
  BY <1>2, <1>3, <1>4, <1>5, <1>6, RowsStay

\* connection.ex:455-466, reports.ex:123-251: whatever is lost, repeated or reconnects, a connection does to the
\* server's rows only what Lifecycle lets a command, the enrollment file or some report do.
THEOREM ImplementsRowsTheorem == DeliverySpec => Rows!LifecycleSpec
<1>1. DeliveryInit => Rows!LifecycleInit
  BY RowsStart DEF DeliveryInit
<1> QED
  BY <1>1, ImplementsRows, LinkTheorem, PTL DEF DeliverySpec, Rows!LifecycleSpec

\* Every step leaves the operations that have ended alone.
LEMMA EndedKept ==
  ASSUME LinkInv, [DeliveryNext]_deliveryVars
  PROVE  EndedStay
<1>1. LifecycleInv /\ LinkTypeOK
  BY DEF LinkInv, DeliveryTypeOK
<1>2. CASE UNCHANGED lifecycleVars
  BY <1>2 DEF EndedStay, lifecycleVars
<1>3. CASE UNCHANGED deliveryVars
  BY <1>2, <1>3 DEF deliveryVars
<1>4. ASSUME NEW b \in Biots, Request(b)
      PROVE  EndedStay
  BY <1>1, <1>4, CreateKeepsEnded, ChangeKeepsEnded, LifecycleConstants
     DEF Request, ChangeLifecycle, Destroy
<1>5. CASE ReloadNodes
  BY <1>1, <1>5, ReloadKeepsEnded DEF ReloadNodes
<1>6. CASE HandleObservation
  <2>1. up # <<>> /\ up \in Seq(UpMessages) /\ Head(up).type = "observation"
    BY <1>1, <1>6 DEF HandleObservation, LinkTypeOK
  <2>2. Head(up).biot \in Biots
    BY <2>1, Behead, UpTypes
  <2>3. Observe(Head(up).biot, Head(up).report) \/ UNCHANGED lifecycleVars
    BY <1>6 DEF HandleObservation
  <2> QED
    BY <1>1, <1>2, <2>2, <2>3, ObserveKeepsEnded
<1>7. CASE HandleNodeObservation
  BY <1>7 DEF HandleNodeObservation, ObserveNode, EndedStay
<1> QED
  BY <1>2, <1>3, <1>4, <1>5, <1>6, <1>7, RowsStay

\* biots.ex:257-265, nodes.ex:164-180, reports.ex:268-270: whatever the connections, crashes and repeated
\* reports bring, at most one operation of a biot waits, none for an abandoned node, and an operation
\* that has ended stays as it ended.
THEOREM DeliveryRowsTheorem ==
  DeliverySpec => [](OneLiveOperation /\ NothingAwaitsAbandonedNode) /\ EndedOperationsStay
<1>1. LinkInv => OneLiveOperation /\ NothingAwaitsAbandonedNode
  BY DEF LinkInv, DeliveryTypeOK, LifecycleInv
<1>2. LinkInv /\ [DeliveryNext]_deliveryVars
        => [\A b \in Biots, r \in Revisions :
              ops[b][r].outcome \in Terminal => ops'[b][r] = ops[b][r]]_ops
  BY EndedKept DEF EndedStay
<1> QED
  BY <1>1, <1>2, LinkTheorem, PTL DEF DeliverySpec, EndedOperationsStay
=============================================================================
