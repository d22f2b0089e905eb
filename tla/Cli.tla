--------------------------------- MODULE Cli ---------------------------------
(***************************************************************************)
(* One command of the command line client against the server's lifecycle   *)
(* rows, while other clients change them and the node reports on them.     *)
(*                                                                         *)
(* A command is a program: the requests its run function makes, in order.   *)
(* A step is one HTTP request, which the server carries out alone, with its *)
(* answer; or one that fails, before the server has carried it out or       *)
(* after.  Between two polls anything may happen.                          *)
(***************************************************************************)
EXTENDS Lifecycle, Sequences, SequencesExt

CONSTANTS
  Commands,    \* the commands that are given
  Names,       \* the names commands are given
  PageSize,    \* the listing's page size
  MaxValues,   \* bound: the values of each kind a creation delivers
  OthersAsk,   \* the changes other clients make, by biot
  Reported     \* bound: the biots the node reports on

ASSUME CliConstants ==
         /\ Biots \subseteq Nat \ {0} /\ PageSize \in Nat \ {0} /\ MaxValues \in Nat
         /\ OthersAsk \in [Biots -> SUBSET Changes] /\ Reported \subseteq Biots

VARIABLES
  waits,      \* the biots whose latest observation waits for a fetch credential
  settings,   \* what commands have set: [biot, kind], biot 0 for the account
  job,        \* the command: [cmd, name, id, credentials, secrets]; name "" is a command with an id
  step,       \* how many of its requests have been made
  listed,     \* the views a listing has collected
  begun,      \* the biots there were when it began
  view,       \* the biot the command acts on, as last read
  operation,  \* the target revision of the operation that the last change returned, or 0
  live,       \* the operation waited at the current poll
  delivered,  \* values delivered
  said        \* "" while the command runs, then what it ended with

serverVars == <<lifecycleVars, waits, settings>>
cliVars == <<serverVars, job, step, listed, begun, view, operation, live, delivered, said>>

-----------------------------------------------------------------------------
(* What the server answers.                                                *)

\* latest_operations_for: the newest operation that waits, or else the newest.
LatestOperation(b) ==
  LET rows == {r \in Revisions : ops[b][r] # NoOp}
      waiting == {r \in rows : ops[b][r].outcome \in Live}
  IN  Max(IF waiting # {} THEN waiting ELSE rows)

\* currentFailure and diagnosticFailure: a failure of the revision in force.
CurrentFailure(b) ==
  \/ biot[b].revision = LatestOperation(b) /\ ops[b][LatestOperation(b)].outcome = "failed"
  \/ obs[b].failure # "none" /\ obs[b].revision = biot[b].revision

BiotView(b) ==
  [id |-> b, revision |-> biot[b].revision, state |-> biot[b].state,
   operation |-> LatestOperation(b), failed |-> CurrentFailure(b)]
NoView == [id |-> 0, revision |-> 0, state |-> "stopped", operation |-> 0, failed |-> FALSE]

Behind(after) == {b \in Biots : Created(b) /\ b > after}

\* The place of a biot in the listing, which is sorted by id.
Place(b, set) == Cardinality({c \in set : c <= b})

PageLength(after) ==
  IF Cardinality(Behind(after)) < PageSize THEN Cardinality(Behind(after)) ELSE PageSize

\* A page of the listing: the first biots behind the cursor, destroyed ones too.
Page(after) ==
  [i \in 1..PageLength(after) |->
     BiotView(CHOOSE b \in Behind(after) : Place(b, Behind(after)) = i)]

-----------------------------------------------------------------------------
(* The commands: what each run function asks of the server, in order.      *)

Times(n, phase) == [i \in 1..n |-> phase]

\* Mutant of runCreate: the biot is started before its secrets are delivered.
runCreateStartsFirst(j) ==
  IF j.credentials + j.secrets = 0 THEN <<"create", "operation", "running">>
  ELSE <<"create", "allocation">> \o Times(j.credentials, "credential")
       \o <<"operation", "view", "start">> \o Times(j.secrets, "secret") \o <<"running">>

runCreate(j) ==
  IF j.credentials + j.secrets = 0 THEN <<"create", "operation", "running">>
  ELSE <<"create", "allocation">> \o Times(j.credentials, "credential")
       \o (IF j.credentials > 0 THEN <<"prepared">> ELSE <<"operation">>)
       \o <<"view">> \o Times(j.secrets, "secret") \o <<"start", "operation", "running">>

runLifecycle(action) == <<"resolve", action>>
runRestart == <<"resolve", "stop", "operation", "view", "start", "operation", "running">>
runRebuild == <<"resolve", "rebuild">>
runDestroy == <<"resolve", "destroy">>
runWait == <<"resolve", "latest", "operation">>
runList == <<"list">>
runShow == <<"resolve">>
runPublicationChange == <<"resolve", "set">>
runURLs == <<"resolve", "read">>
runShareChange == <<"resolve", "read", "set">>
runGrants == <<"resolve", "read">>
runSecretSet == <<"resolve", "set">>
runSecretRemove == <<"resolve", "set">>
runSecretList == <<"resolve", "read">>
runFetchCredentialSet == <<"resolve", "set">>
runFetchCredentialRemove == <<"resolve", "set">>
runSSH == <<"resolve", "read", "ssh">>
runNodes == <<"read">>
runDiagnose == <<"resolve", "failure", "read">>
runLogs == <<"resolve", "read">>
runSSHKeyAdd == <<"set">>
runSSHKeyList == <<"read">>
runSSHKeyRemove == <<"set">>
runTokenList == <<"read">>
runTokenRevoke == <<"set">>

\* The commands, their words joined.
Changing == {"start", "stop", "rebuild", "destroy"}
Setting == {"publish", "share", "secret-set", "fetch-credential-set", "ssh-key-add"}
Removing ==
  {"unpublish", "unshare", "secret-rm", "fetch-credential-rm", "ssh-key-rm", "token-revoke"}
Reading ==
  {"urls", "grants", "secret-list", "diagnose", "logs", "ssh", "ssh-key-list", "token-list", "nodes"}
\* Commands that name no biot.
Account == {"list", "ssh-key-add", "ssh-key-rm", "ssh-key-list", "token-list", "token-revoke", "nodes"}

AllCommands ==
  {"create", "list", "show", "restart", "wait"} \cup Changing \cup Setting \cup Removing
  \cup Reading

ASSUME CommandConstants == Commands \subseteq AllCommands

Program(j) ==
  CASE j.cmd = "create" -> runCreate(j)
    [] j.cmd \in {"start", "stop"} -> runLifecycle(j.cmd)
    [] j.cmd = "restart" -> runRestart
    [] j.cmd = "rebuild" -> runRebuild
    [] j.cmd = "destroy" -> runDestroy
    [] j.cmd = "wait" -> runWait
    [] j.cmd = "list" -> runList
    [] j.cmd = "show" -> runShow
    [] j.cmd \in {"publish", "unpublish"} -> runPublicationChange
    [] j.cmd = "urls" -> runURLs
    [] j.cmd \in {"share", "unshare"} -> runShareChange
    [] j.cmd = "grants" -> runGrants
    [] j.cmd = "secret-set" -> runSecretSet
    [] j.cmd = "secret-rm" -> runSecretRemove
    [] j.cmd = "secret-list" -> runSecretList
    [] j.cmd = "fetch-credential-set" -> runFetchCredentialSet
    [] j.cmd = "fetch-credential-rm" -> runFetchCredentialRemove
    [] j.cmd = "ssh" -> runSSH
    [] j.cmd = "nodes" -> runNodes
    [] j.cmd = "diagnose" -> runDiagnose
    [] j.cmd = "logs" -> runLogs
    [] j.cmd = "ssh-key-add" -> runSSHKeyAdd
    [] j.cmd = "ssh-key-list" -> runSSHKeyList
    [] j.cmd = "ssh-key-rm" -> runSSHKeyRemove
    [] j.cmd = "token-list" -> runTokenList
    [] j.cmd = "token-revoke" -> runTokenRevoke

At(phase) == said = "" /\ job.cmd # "none" /\ Program(job)[step + 1] = phase

\* The command goes on, or is over with its last request.
Proceed ==
  /\ step' = step + 1
  /\ said' = IF step + 1 < Len(Program(job)) THEN ""
             ELSE IF job.cmd \in {"create", "restart"} THEN "ready" ELSE "done"
End(why) == said' = why /\ UNCHANGED step

NoJob == [cmd |-> "none", name |-> "", id |-> 0, credentials |-> 0, secrets |-> 0]

CliInit ==
  /\ LifecycleInit
  /\ waits = {} /\ settings = {}
  /\ job = NoJob /\ step = 0 /\ listed = <<>> /\ begun = {} /\ view = NoView /\ operation = 0
  /\ live = FALSE /\ delivered = 0 /\ said = ""

\* A command is given, with the arguments its parser lets through.  create chooses a fresh id.
Give ==
  /\ job = NoJob
  /\ \E cmd \in Commands, b \in Biots, name \in Names \cup {""},
        credentials, secrets \in 0..MaxValues :
       /\ cmd = "create" => ~Created(b) /\ name = NameOf[b]
       /\ cmd # "create" => credentials = 0 /\ secrets = 0
       /\ cmd # "create" /\ name # "" => b = Min(Biots)
       /\ cmd \in Account => name = "" /\ b = Min(Biots)
       /\ job' = [cmd |-> cmd, name |-> name, id |-> b, credentials |-> credentials,
                  secrets |-> secrets]
  /\ begun' = {b \in Biots : Created(b)}
  /\ UNCHANGED <<serverVars, step, listed, view, operation, live, delivered, said>>

\* A request fails without having been carried out, or is answered with an error that no rule
\* below stands for.  The deadline of a command fails the request or the poll it is in.
RequestFails ==
  /\ job # NoJob /\ said = "" /\ ~At("latest") /\ ~At("failure") /\ ~At("ssh")
  /\ ~(At("operation") /\ operation = 0)
  /\ End("failed")
  /\ UNCHANGED <<serverVars, job, listed, begun, view, operation, live, delivered>>

-----------------------------------------------------------------------------
(* Reading.                                                                *)

Cursor == IF listed = <<>> THEN 0 ELSE Last(listed).id

\* ListBiots asks for the page behind the last biot it has.
NextPage == listed' = listed \o Page(Cursor)

\* Mutant of LastPage: a full page is taken for the last one.
LastPageFull == Len(Page(Cursor)) <= PageSize

\* A page that is not full is the last.
LastPage == Len(Page(Cursor)) < PageSize

List ==
  /\ At("list")
  /\ NextPage
  /\ IF LastPage THEN Proceed ELSE UNCHANGED <<step, said>>
  /\ UNCHANGED <<serverVars, job, begun, view, operation, live, delivered>>

\* Mutant of Named: the listing is searched for the first match only.
NamedFirst(views, name) ==
  {i \in DOMAIN views : /\ NameOf[views[i].id] = name
                        /\ \A j \in 1..(i - 1) : NameOf[views[j].id] # name}

\* Where a listing holds the name.
Named(views, name) == {i \in DOMAIN views : NameOf[views[i].id] = name}

\* resolve.Biot: an id is read, a name is looked for in the whole listing.
ResolveId ==
  /\ At("resolve") /\ job.name = ""
  /\ IF Created(job.id) THEN view' = BiotView(job.id) /\ Proceed
                        ELSE End("not-found") /\ UNCHANGED view
  /\ UNCHANGED <<serverVars, job, listed, begun, operation, live, delivered>>

ResolveName ==
  /\ At("resolve") /\ job.name # ""
  /\ LET views == listed \o Page(Cursor)
         matches == Named(views, job.name) IN
     \/ ~LastPage /\ NextPage /\ UNCHANGED <<step, said, view>>
     \/ /\ LastPage /\ listed' = <<>>
        /\ \/ \E i \in matches : matches = {i} /\ view' = views[i] /\ Proceed
           \/ matches = {} /\ End("not-found") /\ UNCHANGED view
           \/ Cardinality(matches) > 1 /\ End("ambiguous") /\ UNCHANGED view
  /\ UNCHANGED <<serverVars, job, begun, operation, live, delivered>>

\* GetBiot for the revision the next change is asked on.
ReadView ==
  /\ At("view")
  /\ view' = BiotView(view.id) /\ Proceed
  /\ UNCHANGED <<serverVars, job, listed, begun, operation, live, delivered>>

\* Requests whose answer is only printed, or holds what the next request needs.
Read ==
  /\ At("read") /\ Proceed
  /\ UNCHANGED <<serverVars, job, listed, begun, view, operation, live, delivered>>

\* runDiagnose asks about the failure of the view it has.
Failure ==
  /\ At("failure")
  /\ IF view.failed THEN Proceed ELSE End("no-failure")
  /\ UNCHANGED <<serverVars, job, listed, begun, view, operation, live, delivered>>

\* runWait waits for the operation of the view it has.
Latest ==
  /\ At("latest")
  /\ operation' = view.operation /\ Proceed
  /\ UNCHANGED <<serverVars, job, listed, begun, view, live, delivered>>

-----------------------------------------------------------------------------
(* Changing.  A change that is carried out may still lose its answer.      *)

Answered(revision) == (operation' = revision /\ Proceed) \/ (UNCHANGED operation /\ End("failed"))

\* CreateBiot, stopped when there are values to deliver first.
CreateBiot ==
  /\ At("create")
  /\ view' = [NoView EXCEPT !.id = job.id]
  /\ \/ /\ \E env \in Envs :
             Create(job.id, IF job.credentials + job.secrets > 0 THEN "stopped" ELSE "running", env)
        /\ Answered(1)
     \/ /\ node.status # "enabled" \/ ~Room \/ ~NameAvailable(job.id)
        /\ End("refused") /\ UNCHANGED <<lifecycleVars, operation>>
  /\ UNCHANGED <<waits, settings, job, listed, begun, live, delivered>>

\* A new environment gets a new id.
Asked(phase) ==
  IF phase = "rebuild" THEN [kind : {"update_environment"}, env : Envs]
  ELSE [kind : {phase}, env : {NoEnv}]

Refused(change) ==
  /\ change.kind # "destroy"
  /\ \/ node.status = "abandoned"
     \/ biot[view.id].revision # view.revision
     \/ biot[view.id].state = "destroyed"

\* StartBiot, StopBiot and RebuildBiot on the revision of the view, and DestroyBiot.  A change that
\* changes nothing returns no operation.
Submit(phase) ==
  /\ At(phase)
  /\ \E change \in Asked(phase) :
       \/ /\ IF phase = "destroy" THEN Change(view.id, change)
                                 ELSE ChangeLifecycle(view.id, view.revision, change)
          /\ Answered(biot[view.id].revision + 1)
       \/ /\ ~Refused(change) /\ ~Changed(biot[view.id], change)
          /\ operation' = 0 /\ Proceed /\ UNCHANGED lifecycleVars
       \/ Refused(change) /\ End("refused") /\ UNCHANGED <<lifecycleVars, operation>>
  /\ UNCHANGED <<waits, settings, job, listed, begun, view, live, delivered>>

\* DeliverFetchCredential and DeliverSecret.
Deliver ==
  /\ At("credential") \/ At("secret")
  /\ delivered' = delivered + 1
  /\ Proceed \/ End("failed")
  /\ UNCHANGED <<serverVars, job, listed, begun, view, operation, live>>

\* What a command sets or removes.
SettingOf(cmd) ==
  CASE cmd \in {"publish", "unpublish"} -> "publication"
    [] cmd \in {"share", "unshare"} -> "grant"
    [] cmd \in {"secret-set", "secret-rm"} -> "secret"
    [] cmd \in {"fetch-credential-set", "fetch-credential-rm"} -> "fetch-credential"
    [] cmd \in {"ssh-key-add", "ssh-key-rm"} -> "ssh-key"
    [] cmd = "token-revoke" -> "token"

Set ==
  /\ At("set")
  /\ LET setting == [biot |-> view.id, kind |-> SettingOf(job.cmd)]
     IN  settings' = IF job.cmd \in Setting THEN settings \cup {setting}
                     ELSE settings \ {setting}
  /\ Proceed \/ End("failed")
  /\ UNCHANGED <<lifecycleVars, waits, job, listed, begun, view, operation, live, delivered>>

\* writeKnownHosts and the ssh client, whose status becomes the command's.
RunSSH ==
  /\ At("ssh")
  /\ Proceed \/ End("status") \/ End("failed")
  /\ UNCHANGED <<serverVars, job, listed, begun, view, operation, live, delivered>>

-----------------------------------------------------------------------------
(* Waiting.  A poll that finds nothing new changes nothing.                *)

\* Mutant of OutcomeEnds: an operation that was superseded is done.
OutcomeEndsSuperseded(outcome) ==
  \/ outcome \in {"succeeded", "superseded"} /\ Proceed
  \/ outcome = "failed" /\ End("operation-failed")

OutcomeEnds(outcome) ==
  \/ outcome = "succeeded" /\ Proceed
  \/ outcome = "failed" /\ End("operation-failed")
  \/ outcome = "superseded" /\ End("superseded")

\* waitOperation reads the operation and then, while it waits, the biot.
PollOperation ==
  /\ At("operation") /\ ~live
  /\ \/ operation = 0 /\ Proceed /\ UNCHANGED live
     \/ operation # 0 /\ OutcomeEnds(ops[view.id][operation].outcome) /\ UNCHANGED live
     \/ /\ operation # 0 /\ ops[view.id][operation].outcome \in Live
        /\ live' = TRUE /\ UNCHANGED <<step, said>>
  /\ UNCHANGED <<serverVars, job, listed, begun, view, operation, delivered>>

PollWaiting ==
  /\ At("operation") /\ live
  /\ live' = FALSE
  /\ IF view.id \in waits THEN End("waiting") ELSE UNCHANGED <<step, said>>
  /\ UNCHANGED <<serverVars, job, listed, begun, view, operation, delivered>>

\* What waitAllocation, waitPrepared and waitRunning wait for.
Reached(phase, b) ==
  CASE phase = "allocation" -> obs[b].data \in {"uninitialized", "present"}
    [] phase = "prepared" -> obs[b].env = biot[b].env
    [] phase = "running" -> biot[b].state = "running" /\ obs[b].container = "running"

PollBiot(phase) ==
  /\ At(phase)
  /\ LET b == view.id IN
     \/ b \in waits /\ End("waiting")
     \/ b \notin waits /\ CurrentFailure(b) /\ End("failure")
     \/ b \notin waits /\ ~CurrentFailure(b) /\ Reached(phase, b) /\ Proceed
  /\ UNCHANGED <<serverVars, job, listed, begun, view, operation, live, delivered>>

-----------------------------------------------------------------------------
command == <<job, step, listed, begun, view, operation, live, delivered, said>>

\* The other clients of the server, and its operator.  What happens after the command has ended is
\* left out.
Others ==
  /\ said = ""
  /\ \/ \E b \in Biots, initial \in InitialStates, env \in Envs : Create(b, initial, env)
     \/ \E b \in Biots : \E change \in OthersAsk[b] :
          IF change.kind = "destroy" THEN Change(b, change)
                                     ELSE ChangeLifecycle(b, biot[b].revision, change)
     \/ Reload
  /\ UNCHANGED <<waits, settings, command>>

\* Bound: the node reports while a command runs that follows the reports.
Observing == {"create", "restart", "wait"}

\* A report that lacks the environment may say that it waits for a fetch credential.
NodeReports ==
  /\ said = "" /\ job.cmd \in Observing
  /\ \E b \in Reported, report \in ReportsHeard :
       /\ Observe(b, report)
       /\ \/ waits' = waits \ {b}
          \/ report.env # biot[b].env /\ report.failure = "none" /\ waits' = waits \cup {b}
  /\ UNCHANGED <<settings, command>>

CliStep ==
  \/ List \/ ResolveId \/ ResolveName \/ ReadView \/ Read \/ Failure \/ Latest
  \/ CreateBiot \/ Deliver \/ Set \/ RunSSH \/ \E phase \in Changing : Submit(phase)
  \/ PollOperation \/ PollWaiting \/ \E phase \in {"allocation", "prepared", "running"} : PollBiot(phase)

CliNext == Give \/ CliStep \/ RequestFails \/ Others \/ NodeReports

CliSpec == CliInit /\ [][CliNext]_cliVars

-----------------------------------------------------------------------------
\* client.go:339-362: a listing holds every biot there was when it began, once, whatever is created
\* between its pages, and no biot twice.
ListingComplete ==
  /\ \A i, j \in DOMAIN listed : listed[i].id = listed[j].id => i = j
  /\ job.cmd = "list" /\ said = "done" => begun \subseteq {listed[i].id : i \in DOMAIN listed}

\* biot.go:15-41, docs/model.md:998 "an ambiguous name is an error that asks for the ID": a command
\* that was given a name acts on a biot of that name, the only one there was when it began.
ResolvesUniquely ==
  job.cmd # "create" /\ job.name # "" /\ view.id # 0 =>
    \A b \in begun : NameOf[b] = job.name => b = view.id

\* lifecycle.go:414-442, docs/model.md:1021 "reports biot ready only after the running Operation
\* succeeds": a command that reports success over an operation has seen it succeed, and not be
\* superseded, whatever other clients and the node do meanwhile.
SuccessIsEarned ==
  (said = "ready" \/ (job.cmd = "wait" /\ said = "done")) /\ operation # 0 =>
    ops[view.id][operation].outcome = "succeeded"

\* lifecycle.go:143-189, docs/model.md:831 "A failed or uncertain delivery leaves the Biot stopped":
\* create asks for a start only when it has delivered every value.
StartsWithValues ==
  job.cmd = "create" /\ operation > 1 => delivered = job.credentials + job.secrets

\* lifecycle.go:60 "Stop a Biot, wait for it, then start it again.": when a restart reports ready, the
\* stop that its start followed has been carried out.
RestartStops ==
  /\ job.cmd = "restart" /\ said = "ready" /\ operation > 1
  /\ ops[view.id][operation - 1].kind = "stop"
  => ops[view.id][operation - 1].outcome = "succeeded"

=============================================================================
