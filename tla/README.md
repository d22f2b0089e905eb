# Biot in TLA+

Biot runs long-lived containers ("biots") on nodes. A server (Elixir, SQLite) keeps what every biot
should be, nodes (Elixir) make it so with Podman and Nix, and clients reach a container's shell and
ports through streams that the server relays. An agent (Go) in each container serves its shell and its
ports to the node, and a command line client (Go) is how most people use the server. This directory
models what decides whether a command is carried out exactly as it was accepted (the server's
lifecycle rows, the control connection, the node's journal, controllers and report outbox), how access
is admitted and withdrawn and how a stream is handed to its owner, the whole agent, and the whole client.

`N/` is `src/apps/biot_node/lib/biot/node/`, `S/` is `src/apps/biot_server/lib/biot/server/`, `P/` is
`src/apps/biot_protocol/lib/biot/protocol/`, `A/` is `src/agent/` and `C/` is `src/cli/`.

## 1. Inventory

| Component | State | Operations | What makes it correct |
|---|---|---|---|
| Desired state and completion (`P/desired.ex`, `S/operations/completion.ex`) | none | `transition`, `decide` | a revision per change; an operation ends on evidence for its own revision |
| Lifecycle commands (`S/biots.ex`, `S/biots/capacity.ex`) | biot and operation rows | create, start, stop, update environment, destroy | one operation waits per biot; capacity and names hold |
| Enrollment (`S/nodes.ex`, `S/nodes/plan.ex`) | node rows | reload | terminal statuses stay; nothing waits for an abandoned node |
| Report intake (`S/reports.ex`) | observation, resolution, orphan rows | observation, resolution, node_observation, access_applied | ended operations stay ended; stale reports complete nothing new |
| Server connection (`S/control/*`, `S/node_connections.ex`, `S/node_wake.ex`, `S/commit_effects.ex`) | one process per node: phase, pending requests | hello, snapshot, wake, sweep, reports, heartbeats, replacement | every committed intent reaches the node in the end |
| Node connection (`N/control/connection.ex`, `N/control/staging.ex`) | one process: status, staging | dial, synchronize, desired, drain, announce, disconnect | a partial snapshot never replaces intent |
| Outbox (`N/control/outbox.ex`) | one ETS table | put, drain | no report is left without a wakeup |
| Journal (`N/journal.ex`) | intents, receipts, retry records, allocations | put/replace intents, record attempt/failure, receipts | a retry record is of the intent's revision |
| Controllers (`N/biot_controller.ex`, `N/controllers.ex`) | one process per biot: phase, spec, retry, effect | intent_changed, effect result, wake, recovery | one action at a time, for the current intent |
| Reconcile (`N/reconcile*`) | none | `next` | actions in a safe order, no data re-initialised |
| Host (`N/host*`) | containers, data, environments, workers | inspect, run, cancel, recover | idempotent effects |
| Access (`S/access*`, `N/streams/groups.ex`) | owners registry, access revisions | admit, withdraw, apply | no stream outlives its right |
| Streams (`S/streams*`, `N/streams/*`) | pending table | register, attach, abandon, control_lost | an attached stream has an owner, or is closed |
| Authentication, login, sessions, tokens, keys | rows with expiry | log in, revoke, sweep | a revoked proof admits nothing |
| Secrets, credentials, diagnostics, logs | pending requests, files | request/reply | a reply reaches the request it answers |
| Agent (`A/`) | per connection: a request, and either a terminal with a shell and three goroutines, or two connections with two copies | handle, shell session, port relay | the peer gets all output before the status; no shell, goroutine or connection is left behind |
| Client: commands (`C/cmd/biot`, `C/internal/api`, `C/internal/resolve`) | the command's progress: view, operation, listing | every command as its requests, polling until a deadline | acts on the biot that was meant; reports success only when it happened |
| Client: arguments, session, prompt (`C/internal/command`, `C/internal/config`, `C/internal/input`) | one configuration file shared by all processes; the terminal's echo | parse, log in, log out, load, prompt | the file is whole and its session accepted; the terminal is left as it was |
| Client: error vocabulary (`C/internal/api/client.go`) | an embedded table | check at start, render an answer | every answer gets its sentence and its remedy |
| Web, API, preview, SSH gateway | sockets | relay | - |

**Interaction.** A request process commits rows and then, outside the transaction, wakes the node's
connection process by PubSub. The connection process reads the row again and sends it. The node's
connection commits it to the journal and casts `intent_changed` to the biot's controller (or starts
one). The controller reads the journal, inspects the host, puts a report in the outbox and runs at
most one effect, in a task of its own. The outbox wakes the node's connection, which sends the report;
the server stores it, and it may end an operation. What is lost in between is brought back by the
snapshot that opens every connection and by a sweep every 60 seconds.

A session owner (a request, WebSocket or SSH process) registers under its biot and its proof, reads policy,
and opens a stream: it leaves an entry in `Pending` and asks the ready connection, the node admits the stream
to the biot's group and a child of it dials back, and the handler of that connection claims the entry and
moves the socket to the owner. A withdrawal raises the biot's access revision; its request process then
sends a close to the owners and wakes the connection, and the node closes the old group and says so.

The client sends one HTTP request at a time, each a transaction of the server, and polls what it waits
for, while other clients and the node change the same rows. The node opens one connection to the agent
per stream, with one request line; the agent answers, and then the connection carries frames (a shell)
or bytes (a port) until one side closes.

**Hard behaviours**: wakes lost or dropped while the snapshot is being sent; two connections of one
node alive at once; observations from before a change; effects in flight when the intent changes, or
when the controller stops; a node that restarts with an effect half done; an ETS table shared by many
writers without a lock; a status read long before it is acted on. In access and streams: a withdrawal at any
point of an admission, a request process that dies after its commit, a revision applied on a connection that is
gone, and a deadline, a lost connection, an attach and a dying caller that all want the same stream. In the agent: a shell, its background
commands, its output and its peer end in any order, every write may block, and a grace period races the
end of the process. In the client: a request that was carried out and whose answer is lost, an operation
superseded while it is waited for, a listing that changes between pages, two processes that replace one
file, a kill between write and rename, an interrupt in a hidden prompt. `PROJECT.json` lists them as
hazards, at their lines.

## 2. Modules

| Module | Models | Composes |
|---|---|---|
| `Outbox` | the ETS table, the writers in `Outbox.put/1`, the connection's drain, announce, synchronize, disconnect and restart | - |
| `Desired` | the two pure rule sets | - |
| `Lifecycle` | the server's rows; an action is one immediate transaction | `Desired` |
| `ServerControl` | the state of a server and a node and the server's connection process | `Lifecycle` |
| `Delivery` | the node's connection, journal and controllers | `ServerControl`; implements `Lifecycle` |
| `StreamHandoff` | `Streams.open_until`, `Pending`, the attach handler, the child on the node | - |
| `Access` | admission, owners, withdrawals, proofs and sweeps, the access revision, the node's groups | - |
| `ShellChannel` | what a shell session promises its peer (abstract) | - |
| `ShellSession` | `shellsession.Run`, its goroutines, `terminate`, the terminal and the shell | implements `ShellChannel` |
| `PortRelay` | `portrelay.Relay` | - |
| `AgentRequest` | the parser of the request line | - |
| `Agent` | `handle`, `handleShell`, `handlePort`: one connection from its line to its end | `ShellSession`, `PortRelay`, `AgentRequest` |
| `Cli` | every command that talks to the server, as its requests | `Lifecycle`, and implements it |
| `Options` | the command tree and the option parsers | - |
| `Vocabulary` | the checks of the embedded vocabulary, the rendering of answers | - |
| `CommandLine` | processes of the client: start, parse, log in, log out, load, prompt | `Options`, `Vocabulary` |
| `MCOutbox`, `MCDelivery`, `MCStreamHandoff`, `MCAccess`, `MCAgent`, `MCCli`, `MCCommandLine` | instances for TLC | |
| `OutboxProofs`, `LifecycleProofs`, `DeliveryProofs`, `StreamHandoffProofs`, `AccessProofs`, `AgentProofs`, `CliProofs`, `CommandLineProofs` | theorems | |

**Outbox.** One step is one ETS call, one cast or one message taken from the connection's mailbox,
because each of those is atomic and no two together are. `writerPc` and `connPc` are the places where
a process can be interrupted. A report is a key and a version number. `ets:select` is not a snapshot,
so `Select(k)` visits keys one by one in any order while writers write. A connection restart loses
the table, as its owner died.

**Lifecycle.** `biot`, `ops`, `obs`, `node` and `orphans` are tables. Only commands that write are
actions: an error or `:unchanged` answer leaves every row alone. `Observe` takes any report, so the run
`cli` checks the rows against a node that reports in any order.

**ServerControl and Delivery.** `down` is what the node's socket still holds, `up` what the registered
server process has not read; the two ends of a lost connection notice at different times. Hello is
three steps (`Authenticate`, `ClaimNode`, `BuildItem`...) because the code reads the status, waits for
the old process to go, and reads rows one at a time, with commands in between. A server handler that
runs one transaction is one step. A controller's handler is one step: reload, inspect, report, decide;
where the journal refuses an attempt because the intent was replaced meanwhile, the handler reloads,
which is also what the step does, so the time between reload and `record_attempt` (`N/biot_controller.ex:541`) is
inside it; `ActionsFollowJournal` is about the spec a controller still holds when a step begins. `ctl[b]` is a controller: its phase, the spec it holds, the action in
flight with the revision it was started for (`at`), and the retry record it carries. `stray[b]` is the
effect of a controller that stopped normally: a `Task.async` task survives that. `host[b]` is what
inspection would see. `prepare` stands for `resolve` and `prepare`.

**StreamHandoff.** A stream stands for its id, its caller, its handler, its socket and its child on the node.
`caller` is where `open_until` is: "registering" and "calling" before the connection has answered, "await",
"abandon" and "abandon_lost" (`deadline/4` after a timeout and after a refused call), "drain", "handoff", and the
two ways into `abandon_handoff/3`. `handler` goes from "handshake" through "claimed" (`Pending.attach`), "moved"
(`controlling_process`) and "told" (`Attached` sent) to "stream". A call of `Pending` is one step, as `Pending` is one
process; a killed process runs no callback and its sockets close with it. A DOWN is not a message: it is there from
the death of the watched process on. The orderly end of a connection is two steps, `Unregister` and `ControlLost`,
because `Pending.attach` reads the registry in between. The refusal of `handle_call` by a connection that is not
ready does not occur: `open_until` only has the process of a ready one.

**Access.** `pc` is where the owner is in `Admission`, `closeIn` and `changedIn` its mailbox, `keys` its entries in
the registry. `Registry.dispatch` looks up first and sends afterwards, so a close is `FindOwners` and then
`CloseFound` (for a withdrawal), two stages of `CloseProof`, or `HelloCloses`/`Sweep` and then `CloseWithdrawn`.
`effect[r]` is what is left of the request process that made revision `r`, and `RequestDies` drops it. A revision is
the biot's, not a grant's, so a withdrawal of anybody's access closes every stream; `Withdraw({})` is one that
leaves this owner's grant alone, and its owner may come back. `server` is the registered connection process, with
the owners its hello or sweep has found and not yet closed; `node` and `group` are the node's. Opening a stream is
three messages (`OpenStream`, `AdmitStream`, `KidAttaches`); a rejected attach reports `stale_access`, but by then
nobody waits for that stream (`S/streams/pending.ex:130`), so the report is left out. The two modules meet here:
`KidAttaches` is the success of `StreamHandoff`, `OpenFails` any failure.

**ShellSession.** A step is one communication: a channel operation, a read or a write of the socket or the
terminal, a signal. `main` is where `Run` is ("select" its loop, "writing" and "exit" the frames it writes,
"grace" and "killed" the waits of `terminate`, "return" the deferred calls), `waiter`, `reader` and `inputs`
are its goroutines, `processDone`, `inputDone` and `chunk` their channels, `outputNil` and `processNil` the
channels that `Run` has set to nil. Output is counted (`written`, `taken`, `shown`), as the terminal and the
socket keep its order. Shell, background command, peer and terminal are the environment: the shell may
exit, ignore SIGHUP, never read its input, or leave a command that keeps the terminal open. `pty` asks for the
terminal's descriptor with `f.Fd()`, which makes it blocking
(`A/vendor/github.com/creack/pty/ioctl.go:8-9`). So `Close` ends no call in progress: a `reader` that is "ready"
fails at its next call, one that is "reading" stays until there is output or nobody holds the terminal, a write to
the terminal likewise, and the descriptor lives as long (`DescriptorHeld`). Calls on sockets do end. `Channel` is the
refinement mapping to `ShellChannel`: `written` and `shown` are themselves, and the result is the status sent,
or "cut" once the handler has returned without one.

**PortRelay, AgentRequest, Agent.** Each `io.Copy` is a goroutine that reads, and then writes what it read;
the first that ends closes both connections. A request line is a record of JSON members, so that a missing,
extra, null or mistyped member is a different record. `Agent` puts the handler around both; a peer may close
at every step, and may send before it is answered.

**Cli.** `Program(j)` is the list of requests a command makes, written after its `run...` function; `step` is
how far it is. A request that changes something is carried out and answered, or carried out and its answer
lost (`Answered`), or not carried out (`RequestFails`, which is also the deadline). `Others` are other clients
and the operator, `NodeReports` the node; both act on the rows of `Lifecycle` between any two requests. A page
is the biots behind the cursor at the places up to `PageLength`; a biot's place is how many of them have no
greater id. The names of commands are joined with a dash (`secret-set` is `biot secret set`).

**Options, Vocabulary, CommandLine.** Arguments are compared, not taken apart: a string stands for every
string that the parsers treat alike. A sentence of the vocabulary is its placeholders. In `CommandLine` a
step is one system call on the configuration file (`CreateTemp`, `WriteTemp`, `Rename`, `RemoveConfig`,
`Load`), one request, or one step of the prompt and of the goroutine that watches for an interrupt.

### Bounds

`MaxRevision` commands per biot, `MaxConnections` dials, `MaxQueue` messages before a sweep or a drain
may add more, `MaxFailures`, `MaxCrashes`, and in `Outbox` `MaxPuts` and `MaxFaults`. Every hazard above
needs at most two revisions (an old and a new intent), two connections (an old and a new one) and one
fault, and biots do not interact in this part of the code except through capacity and names; so one
biot, two revisions and two connections reach them. The bounds on connections also say that the last
connection is lost only in a crash, of which the liveness run has none (`LastCrash` says how late one
comes). `MCDelivery` bounds what happens together as well: a crash or an abandoned node, a crash or a second
revision next to a failure, a second revision or a lost connection next to fairness (no fair step loses a
connection, so this bound blocks none). Deadlock is not checked: with commands and faults bounded the model
may come to rest.

In `StreamHandoff` streams meet only where a connection, or `Pending`, ends under both, so one stream, three
connections and two restarts reach every case of its own; the proofs cover several. In `Access`,
`MaxDisturbances` says how many withdrawals, dead request processes, ended proofs and lost connections come
together: two, which is what it takes for one to fall into the recovery of the other; `OneRightEnds` keeps a
withdrawal and the end of the proof apart, as either closes the owner. One owner is enough, since another
owner's withdrawal is `Withdraw({})` and a stream the owner has left takes the group's only place. Two streams
are a stale open and its retry. Three streams over three revisions (3.3 million states, invariants only), and
two owners with one disturbance, were checked with the same result. The last connection is not lost, and a sweep waits
while `MaxQueue` messages are in flight.

In the agent: `MaxOutput` and `MaxInput` are two units, `Window`, `TypeAhead` and `PipeSize` one, so that a
second write blocks, and a chunk, a frame and the terminal can each hold output at once; `MaxBytes` is two per
end. Connections share nothing, so one is enough. In `Cli`: two biots of one name and pages of one biot, so
that names are ambiguous and a listing has several requests; three revisions, as `restart` and a create with
values make two and another client one more; the node reports on the first biot, while a command runs that
follows reports (`Observing`); at most one value of each kind (`MaxValues`); one command is given. In `CommandLine`: two processes, two servers, two tokens
of which each server accepts one; up to four or five pieces of arguments; every line of a six-line vocabulary
wrong in thirteen ways, one at a time.

## 3. Runs

| Run | Instance | Checks |
|---|---|---|
| `outbox` | a controller and the connection's announcements, 2 puts each, 2 lost links or restarts | `NoLostWakeup`: a report in the table has a drain coming; `NewestReportKept`: what is sent or waits is the newest; `ReportsSent`: the newest report of each key is sent, also when one was lost in a failed send |
| `delivery` | create, then stop or destroy, 2 connections, a crash of either side; or the node abandoned at any step and asked once more | `NoProtocolError`: no end closes over a message in the wrong phase; `AcceptedIsTruthful`: what the sweep takes for delivered is in the journal; `ReceiptIsLast`: a destruction's receipt is written with nothing left and nothing in flight |
| `delivery_faults` | start, stop and destroy of a biot created running or stopped, 1 failing effect; or a create with 1 failing effect and 1 crash | `ActionsFollowJournal`: no action starts for a replaced intent, also when a backoff ends while a new one waits; `FailureBlamesItsRevision`; `BackoffIsServed`: also over a restart |
| `delivery_live` | create and stop over 1 connection; or create over a connection that is lost at any step and its successor | `OperationsEnd`; `HostConverges` |
| `stream_handoff` | 1 stream, 3 connections that end or are killed, 2 restarts of `Pending`, caller and handler killed | `NoSocketLeft`: an open that failed leaves no socket with the caller and no handler about to give it one; `OneAnswer`: claimed or failed, not both, and who loses against `abandon` finds the answer in the mailbox; `OpenEnds`: every open returns and `Pending` keeps no entry; `UnownedStreamEnds`: a stream without an owner ends on the node |
| `access` | 1 owner, 2 streams, 2 revisions, 2 connections, 2 disturbances | `EnforcedMeansClosed`: when a change is reported as applied, every older stream is closed on the node and stays so; `SkippedOwnersEnd`: a sweep that skips a biot leaves no owner with an older running stream; `NoForgottenClose`: no withdrawal or revocation after the read is missed; `WaitingIsWoken`: an owner waits only for a signal that is still to come; `WithdrawnStreamsClose`: a stream of a withdrawn revision or an invalid proof is closed; `WithdrawalIsApplied`: the node applies the last revision |
| `agent` | every kind of request line; 2 units each way | `ImplementsChannel`: the session is a `ShellChannel`; `NoShellLeft`; `ExitFrameSent`: an open peer that broke no rule gets a status; `AnsweredAsAsked`; `TailDelivered`: the relay delivers what was written before a close; `LeavesNothing`: nothing stays blocked, but for a read of a terminal that a background command holds and what is behind a write nobody takes |
| `cli` | every command, 2 biots of one name, other clients, reports, an abandoned node | `OneLiveOperation`, `NothingAwaitsAbandonedNode`, `EndedOperationsStay` of the server's rows; `ListingComplete`; `ResolvesUniquely`; `SuccessIsEarned`: success is reported of an operation that succeeded and was not superseded; `StartsWithValues`: create starts a biot only with every value delivered |
| `commandline` | 2 processes; all arrangements of arguments; all one-line defects of the vocabulary | `SessionVerified`: the file is whole and its session accepted; `TokenNotLeft`; `MessagesRendered`: what a started client says is rendered, and it panics for want of `invalid_input` only; `ParsesAsSynopsis`; `EchoRestored` |
| `completed_stop`, `destruction_kept`, `cli_restart` | | violated, see below |

**Fairness.** A BEAM process with a message or a due timer runs, so the handlers of each process are
weakly fair; the sweep is a repeating timer; an effect ends, because it is a command with a deadline.
Clients, operators, wakes, faults and link losses owe nothing. `AccessSettles` says that changes of
access come to an end: a sweep also resends biots that are behind only in their access revision, and
every repeat of a stopped intent cancels a preparation in flight (`N/reconcile.ex:64`), so without it
a stopped biot may never be prepared. Liveness is checked on small instances, as TLC is slow at it.
In `StreamHandoff` callers, handlers and `Pending` run, deadlines pass, an attach that is not answered times out
and a closed socket is noticed; nobody has to call, kill or close. In `Access` also the sweeps come round (the
desired sweep is a timer, `AuthSweep` another; in a configuration that switches `AuthSweep` off, the half of
`WithdrawnStreamsClose` about proofs does not hold) and a node that lost its connection dials. `HandleHello` is strongly fair: it waits for the old
process to be between two handlers, and that process reads `:replaced` in its turn however often it sweeps.
In the agent every goroutine that can run does, `Run`'s grace timer fires, and the kernel delivers a signal
that was sent; the shell, its background commands, the peer and the service owe nothing, so they may stop
reading, writing or closing at any point. `LeavesNothing` therefore names the two ways in which that is felt:
a write nobody ever takes, and a read of a terminal that a background command holds without writing to it.

### What the code does not keep

Three runs show a disagreement between the code and what the repository says of it (`findings` in
`PROJECT.json` quotes the lines):

* `completed_stop`: a controller reports its inspection before it cancels the start that is in flight
  (`N/biot_controller.ex:384`), so a stop completes and the container appears afterwards, until it is
  retired. With `allocate` in flight a destruction completes in the same way.
* `destruction_kept`: a `no_allocation` observation from before the node allocated removes a destroyed
  biot from the next snapshot (`S/control/synchronization.ex:20`); the node drops the intent and the
  destroy operation waits forever.
* `cli_restart`: a stop of a biot whose stop is still pending answers `unchanged` without an operation, so
  `restart` does not wait (`C/cmd/biot/lifecycle.go:263`); its start supersedes the pending stop, and "biot
  ready" is printed over a container that never stopped.

Seen on the same instances and not kept as runs of their own:

* one automatic failure, which the node goes on to retry, ends the operation as `failed`
  (`S/operations/completion.ex:12`), against docs/model.md:706-710; the same clause fails a stop whose container
  is absent when its later preparation fails, against docs/model.md:721-722;
* two wakeups can be in the mailbox (`N/control/outbox.ex:10` says at most one): a writer that set the
  marker may cast after an older cast made the connection drain, while a second writer sets it again;
* a stopped biot's preparation is cancelled by a repeat of its own intent although no container is live
  (docs/model.md:1319-1322);
* the effect of a controller that stopped can run next to a release by its successor
  (`N/reconcile.ex:59` says a release never runs while an action is in flight);
* a node can be retired on an observation that is older than its allocation (docs/model.md:355);
* a connection that authenticated before its node was abandoned registers after and stays
  (docs/model.md:355-356 says rejected): `S/control/connection.ex:396` reads the status, `claim_node`
  does not, and the reload in between finds no connection to close;
* `readInput` writes to the terminal before it reads the next frame (`A/shellsession/session.go:93`): when the shell
  does not read its input and the terminal is full, it does not see the peer close, and with no output to write
  neither does `Run`, so the shell stays;
* a create with a fetch credential gives up when the node reports that it waits for that credential before the
  client has delivered it (`C/cmd/biot/lifecycle.go:451`);
* a background command that has the terminal open keeps a session open after its shell has exited
  (`A/shellsession/session.go:77`), and `terminate` may signal a process group whose leader has been
  waited for (`A/shellsession/session.go:146`);
* a name that was destroyed and created again is ambiguous, as the listing that `resolve.Biot` searches holds
  destroyed biots too; a create or restart that waits for a biot that somebody else stopped after its
  operation succeeded ends only at its deadline;
* `logout` asks whether the file exists before it removes it (`C/cmd/biot/commands.go:158`), so next to a login it
  can say that there was no session and remove one; a login killed before its rename leaves the temporary
  file with the token (`C/internal/config/config.go:59`);
* an interrupt that comes after the prompt asked for signals and before the echo is off is handled first, and the
  echo is then turned off (`C/internal/input/input.go:59-69`), against the comment at 62-63; `EchoRestored` is about
  interrupts while the prompt reads;
* the checks at start go through the entries that the vocabulary has (`C/internal/api/client.go:82-84`), so nobody
  misses `invalid_input`; without it the client starts, and an answer `invalid_input` that names no field is a
  panic, against docs/model.md:963-966. `MessagesRendered` says that this is the only panic;
* a background command that keeps the terminal open and writes nothing holds `readOutput` in its read, and with it
  the descriptor, after `Run` has closed the terminal and returned (`A/shellsession/session.go:34`, 131).

### Why the properties are not vacuous

`TypeOK` of `Outbox`, `LifecycleTypeOK`, `ShellTypeOK`, `HandoffTypeOK`, `TrueStatus` and `SendsToOwner` are in no run: they are parts of inductive
invariants and are proved, for all constants, in section 4.

Every property of a passing run has a mutant: a definition marked "Mutant of" before the one it replaces, which
is a plausible slip in that code (a forgotten marker deletion, a wake forwarded before the snapshot is in,
a result booked on the wrong revision, a backoff forgotten by a restart), under which TLC finds the
property violated.

## 4. Proofs

`OutboxProofs`, from `OutboxConstants` (writers and node keys are disjoint and finite, bounds are naturals):

* `TypeTheorem`: `Spec => []TypeOK`;
* `NoLostWakeupTheorem`: `Spec => []NoLostWakeup`. `NoLostWakeup` is not inductive: a writer that finds the
  marker set does not cast, so one must know that whoever set it leads to a drain. `WakeupInv` adds
  `MarkerMeansDrain`: while the marker is in the table the link is down, a cast or announcement is in the
  mailbox, or somebody is on the way to one;
* `NewestReportTheorem`: `Spec => []NewestReportKept`, with `VersionsInOrder`: of each key, what was sent is older
  than what the drain holds and that is older than what is in the table.

`LifecycleProofs`, from `LifecycleConstants` (finite biots; changes, statuses, capacities and reports of their
types; at least one revision). `LifecycleInv` is inductive and is the conjunction of the type invariant,
`OneLiveOperation`, `NothingAwaitsAbandonedNode` and `NoFutureOperations` (no row targets a revision the
biot has not reached):

* `LifecycleTypeTheorem`, `OneLiveOperationTheorem`, `AbandonedTheorem`;
* `EndedTheorem`: `LifecycleSpec => EndedOperationsStay`, an action property. It needs `NoFutureOperations`,
  without which a command could overwrite a row that has ended.

Lemmas say what `Transition`, `Recorded` and `OperationOutcome` (`OutcomeOfWaiting`) return; one lemma per action shows that it
keeps the invariant, and one per action that rows which have ended stay as they are. `CliProofs` uses those again.

`DeliveryProofs`, from `LifecycleConstants` and `DeliveryConstants` (bounds are naturals; no environment update, which this
model leaves out): any set of biots and any number of revisions, connections, failures and crashes. Five
invariants, each inductive with those before it:

* `LinkInv`: the types of the rows, the link and the node, and `ConnectionInv`. Connections are numbered, and the node of one
  that the server has not registered still waits (`Numbered`); what is in flight fits the phase of its node, also when
  the server has forgotten the connection (`InFlight`); and two ends of one connection are as far apart as
  the messages between them say (`InStep`);
* `ValueInv`: a revision names one desired value in the row, in what the server collects, on the link, in the journal and
  in every controller, and none is ahead of the row;
* `ForwardInv`: for a biot that is not destroyed, nothing reported is ahead of the journal (`Reported`), and what is on its way
  or being collected for the node is not behind it (`Queued`, `Collected`). A destroyed biot is the exception:
  a snapshot may omit it, and the journal then forgets its revision;
* `StrayInv`: an effect outlives its controller only when the biot is destroyed and nothing else can reach the node (`Ended`).
  It needs `SendingInv`: a snapshot holds whatever had been created when its connection was claimed;
* `OwedInv`: a backoff that is due has a controller of its revision that serves or will serve it, or that has
  nothing left to do.

From them:

* `ProtocolTheorem` (`NoProtocolError`), `OneValueTheorem`, `ForwardTheorem` and `StrayTheorem`;
* `AcceptedTheorem` (`AcceptedIsTruthful`): a report is not ahead of the journal (`ForwardInv`), nor the journal of the row
  (`ValueInv`), and what the sweep accepts is a report of the row's revision; so the three revisions are the same, and
  a revision names one value;
* `JournalTheorem` (`ActionsFollowJournal`), `BlameTheorem` (`FailureBlamesItsRevision`), `ReceiptTheorem` (`ReceiptIsLast`) and
  `BackoffTheorem` (`BackoffIsServed`): action properties. The last needs `StrayInv`: without it an effect of
  an earlier controller could undo what an idle controller has settled, and the next inspection
  would act before the backoff;
* `ImplementsRowsTheorem`: `DeliverySpec => Rows!LifecycleSpec`, a refinement. `Rows` is `Lifecycle` with a node that may
  report anything: the sweep, whatever link and node make of it, is `Observe` of some reports, and every other step is one
  transaction or leaves the rows alone. With it `DeliveryRowsTheorem` has `EndedOperationsStay` of this model.

`StreamHandoffProofs`, from `HandoffConstants` (the bounds are naturals; any set of streams). `HandoffInv` is inductive:
the type invariant and, for each stream, who has it. `Fresh`: before it is registered nobody else knows it;
`Waited`: while `Pending` has its entry nothing was answered or claimed; `Handed`: once claimed, there is no failure and
the caller has the claim or will find it; `Answered`: an entry that is gone without an answer means a restart;
`Released`: a caller with an error controls nothing; `Settled`: a relaying child has a socket handed over or closed.

* `HandoffTypeTheorem`, `NoSocketLeftTheorem`, `OneAnswerTheorem`, and `SendsToOwnerTheorem` (the node relays only when
  the caller controls the socket, or it is closed). None but the first and last is inductive: that `Pending` answers `:gone` says nothing unless whoever removed the entry has sent first.

`AccessProofs`, from `AccessConstants` (the bounds are naturals, revisions and places start at one; any set of owners).
`ClosingInv` is inductive: the types of what owners and requests work on, `Found` (from before its read until it leaves
an owner is registered under both keys), `Current` (no snapshot is ahead of policy) and `Remembered`. `LinkInv` is
inductive with it: `OneLink` (the node answers over the registered connection, or over one that is gone), `Behind` (a revision that
was sent, installed or stored is not ahead of where it came from), `GroupInv` (every child of the node is of its group's
revision), `Asked` (a failed open names a stream that was asked for) and `Holds` (an owner's stream is of the revision it read).

* `NoForgottenCloseTheorem`: `AccessSpec => []NoForgottenClose`. Without `Found` a dispatch could miss the owner between its
  read and its registration, which is the order `Admission.admit/3` avoids;
* `EnforcedTheorem` (`EnforcedMeansClosed`) and `SkippedTheorem` (`SkippedOwnersEnd`): what the server has stored is at most the
  revision of the node's group, and the group's children are of its revision;
* `WaitingTheorem` (`WaitingIsWoken`), with `Listens`: an answer `stale_access` comes over the same connection as the
  `applied` of that revision. What was read before it is of an earlier revision, so the signal is still to come.

`AgentProofs`, from `ShellConstants` (frames and exits of their types, bounds are naturals, buffers hold at least
one). `SessionInv` is inductive and is the conjunction of the type invariant and three parts:
`ProcessInv` follows the process, its waiting goroutine and the status (a status in the channel, in `Run` or in the
exit frame is that of the shell that has ended; `Run` leaves its loop only with it or through `terminate`);
`OutputInv` keeps account of output (while `Run` is in its loop, what is sent, in the frame and in the chunk is
what was read; a closed reader means a drained terminal that nobody holds); `EndingInv` says why a session
ends without a status.

* `ShellTypeTheorem`, `NoShellLeftTheorem`, `TrueStatusTheorem`, `ExitFrameTheorem`: invariants of `ShellSpec`. The last
  three are not inductive: that `Run` has returned says nothing of the shell unless the waiting goroutine has been heard;
* `ChannelTheorem`: `ShellSpec => ImplementsChannel`, the refinement. Each of the 25 actions is a step of the
  channel or none (`ChannelStep`): `TerminalWritten` is `Write`, `WriteOutput` is `Show`, `WriteExit` is `Exit`, and the
  return without a status is `CutOff`. `Exit` needs `OutputInv` for "everything was sent", and `Write` for "nobody
  writes after the status";
* `AgentRunsSession`: `AgentSpec => ShellSpec`, so that `AgentSessionTheorem` states all of this for the composed agent;
* `TailTheorem`: `AgentSpec => []TailDelivered`, from `RelayConstants` (a pipe holds at least one byte). `RelayInv` counts what each end has
  offered, what its copier read and what the other end got, and says which copier ended by itself: the one that ends
  first has copied all it was offered, or could not write to an end that had closed;
* `AnsweredTheorem`: `AgentSpec => []AnsweredAsAsked`, from `AgentConstants` (a member of a request line is a JSON value, which has
  nothing but what its type gives it). The lemmas show, target by target, that the parser accepts exactly the
  lines of the protocol; `HandlerInv` carries that to the reply.

`CliProofs`, from `CliConstants` (ids are positive numbers, a page holds at least one biot), `CommandConstants` and
`LifecycleConstants`: any biots, names, page size, number of values and changes of others. `CliInv` is inductive: `LifecycleInv` (the
rows keep it also when a change is carried out and its answer lost), `CommandInv` (a command is inside its
program and, after its first request, on a biot) and `ListingInv` (a listing is in order, and holds every
biot there was up to its cursor).

* `CliInvTheorem`; `ListingTheorem` (`ListingComplete`): `PageIs` shows that a page holds the first biots behind the
  cursor, from `Places`: the members of a finite set of numbers stand at the places from one to its size;
* `ResolvesTheorem` (`ResolvesUniquely`): the search is over a complete listing, so its one match is the only one;
* `EarnedTheorem` (`SuccessIsEarned`): every program that ends by waiting for a running biot waits for its operation just before
  (`Waits`), and an operation that has succeeded stays so whatever the others do (`EndedStay`). `EarnedInv` carries this
  over the requests in between;
* `StartsTheorem` (`StartsWithValues`), with `ValuesInv`: a creation has delivered what its requests so far deliver
  (`DeliveredAfter`), and its start is the request after the last value (`CreationPlaces`);
* `ServedTheorem`: `CliSpec => Server!LifecycleSpec`, a refinement. `Server` is `Lifecycle` where all changes may be asked for and a
  biot may be created in either state. One request of a command is at most one transaction, also when its answer
  is lost or it is not carried out (`ServedRequest`);
* `CommandRowsTheorem` (`OneLiveOperation`) and `CommandEndedTheorem` (`EndedOperationsStay`): what the rows keep, they keep under
  commands, other clients and the node together.

`CommandLineProofs`, from `CommandLineConstants` (one process has the terminal; servers issue tokens of their own; the
arguments of an invocation are a sequence of strings): any processes, servers, tokens, invocations and vocabularies. `SessionInv` is inductive: `SaveInv` (who saves has a session
its server accepted, and the temporary file is there only while it saves, or where it was killed) and
`EchoInv` (a prompt that was interrupted is not hidden again, and the goroutine exits behind the echo).

* `SessionVerifiedTheorem`, `TokenTheorem` (`TokenNotLeft`) and `EchoTheorem` (`EchoRestored`);
* `MessagesTheorem` (`MessagesRendered`): for every vocabulary the checks of the start let through, not only the ones
  the run enumerates, each rule of `Error.Error` renders what it selects or misses the entry `invalid_input` (`AnswersRendered`), and no
  step says anything else;
* `TakesTheorem`: for arguments of any length, the parsers of `create`, `share`, `unshare` and `ssh` take them if and only if
  they have the form of the command's synopsis. (The others count arguments and flags; their synopsis is that count.) A parser reads from left to right and remembers; a synopsis says which arguments stand where. `ShareAgrees`, `SSHAgrees`
  and `CreateAgrees` relate the two by what the parser must hold at each place;
* `SynopsisTheorem`: `CommandLineSpec => []ParsesAsSynopsis`. A status alone does not say that the parser was passed, so
  `ParseInv` adds that a process parses before anything else, and that the goroutine that may exit in
  its place starts later.

`TakesTheorem` needs what a fold computes, and the library's induction theorems take an operator. The fold is
therefore taken apart (`RunExists`, `RunReads`) into the states between its steps, and a claim about every state is
proved by refuting the least place where it fails: `Least` follows from `WFMin`, because the finite subsets of the numbers are
well-founded under inclusion, and that theorem takes a set. `Climb` is the form in which the proofs cite it.

Only model-checked: liveness (`ReportsSent`, `OperationsEnd`, `HostConverges`, `OpenEnds`, `UnownedStreamEnds`, `LeavesNothing`,
`WithdrawnStreamsClose`, `WithdrawalIsApplied`), as fairness and ENABLED are out of the prover's reach. Every invariant and
every action property of the passing runs is proved.

## 5. Not modelled

Environment updates, container exits and exit hints, failed inspections, blocked recovery, waiting for
credentials, the attempt budget, several environments and their release, and controllers that fail to
start are not in `Delivery`; nor are heartbeats and the five-second limit of a replacement (a lost link
stands for both), resolutions, secrets and diagnostics. Wire encoding, queries
other than the client's, the web interface, the SSH gateway and deployment scripts are I/O or presentation.

`Access` is about one biot that stays desired on an enabled node: the closes that a destruction, a disabled
principal or a disabled node make are not in it, nor is the node's limit over all biots, nor who may change
policy. Login, minting and the removal of expired rows are lookups. `StreamHandoff` ends where the stream is
open: the bytes relayed, and the framing of shells on the server's side, are left out. The five seconds that
`abandon_handoff/3` waits for a killed handler are longer than the kill takes.

Of the agent, listening and the socket file are left out, and of the client what is printed, opening a
browser, and the words of sentences. The client is modelled with the one command that runs in it; several
clients are `Others`. Whether a publication or a grant was already there is not told apart, as the client
only prints it. `config.Save` does not sync its file, and what a machine that stops after the rename makes of
it is not modelled; before the rename, a stopped machine is `Killed`.

## 6. Plan

1. `Reconcile` and `Controller`: every phase of `BiotController`, attempt budget, exits, recovery, request
   queue, several environments. At most one container; data never initialised twice; recovery before any
   action; no release of an environment in use; the budget holds over restarts. `Delivery`'s controller as
   its abstraction.
2. Destruction, disabled principals and several biots in `Access`.
3. Pending requests, heartbeats, replacement timeout; enrollment of several nodes with their bindings.
4. Proofs: that `Delivery`'s controller is the abstraction of the one in 1.
