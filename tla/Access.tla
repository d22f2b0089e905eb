------------------------------- MODULE Access -------------------------------
(***************************************************************************)
(* Managed access to one biot: session owners that are admitted            *)
(* (Access.Admission, Owners), withdrawals and what follows their commit   *)
(* (Policy.Transaction, CommitEffects), the proofs of the owners           *)
(* (Validity, AuthSweep), and the access revision on its way over the      *)
(* control connection to the node's stream groups (Streams, Groups) and    *)
(* back (Reports.access_applied).                                          *)
(*                                                                         *)
(* Opening one stream is a request, the node's answer and the attach; how  *)
(* the socket is handed over is StreamHandoff's business.  A dispatch of   *)
(* the registry looks its owners up first and sends to them afterwards.    *)
(* The biot stays desired and its node enabled.                            *)
(***************************************************************************)
EXTENDS Naturals, Sequences, FiniteSets

CONSTANTS
  Owners,           \* session owner processes
  MaxPerBiot,       \* Groups: streams a biot may have
  MaxRevision,      \* bound: the last access revision
  MaxStreams,       \* bound: streams that are opened
  MaxConnections,   \* bound: control connections; the last one is not lost
  MaxLost,          \* bound: request processes that die before their effects
  MaxQueue          \* bound: messages in flight when a sweep adds to them

ASSUME AccessConstants ==
         /\ MaxPerBiot \in Nat \ {0} /\ MaxRevision \in Nat \ {0}
         /\ MaxStreams \in Nat /\ MaxConnections \in Nat /\ MaxLost \in Nat /\ MaxQueue \in Nat

VARIABLES
  allowed,     \* the owners whose principal has a grant
  revision,    \* the biot's access revision
  applied,     \* AccessObservation: [conn, revision]
  proof,       \* the proof of each owner: "valid", "expired" or "revoked"
  effect,      \* the request process of the withdrawal that made a revision: [stage, found]
  revoking,    \* the request process that revoked a proof: "none", "owners" or "closing"
  lost,        \* request processes that died before their effects
  pc,          \* where the owner is
  keys,        \* Owners: the keys the owner is registered under
  closeIn,     \* owners with {:biot_access, :close} in their mailbox
  subscribed,  \* owners that listen to changes of the biot
  changedIn,   \* owners with {:biot_changed, _} in their mailbox
  snap,        \* the access revision of the owner's snapshot
  held,        \* the stream the owner opens or holds, or 0
  stream,      \* the streams asked for so far: [owner, revision, conn, kid]
  made,        \* connections dialed
  server,      \* the registered connection process: [conn, phase, found]
  node,        \* the node's connection process: [conn, ready]
  hello,       \* whether the server has not read the hello of the node's connection
  woken,       \* biot_spec_changed in the mailbox of the connection process
  down, up,    \* messages in flight
  group        \* Groups: [conn, revision] of the biot's group

policy == <<allowed, revision, proof>>
requests == <<effect, revoking, lost>>
ownerVars == <<pc, keys, closeIn, subscribed, changedIn, snap, held>>
linkVars == <<made, server, node, hello, woken, down, up>>
accessVars == <<policy, applied, requests, ownerVars, stream, linkVars, group>>

Revisions == 1..MaxRevision
NoEffect == [stage |-> "none", found |-> {}]
NoGroup == [conn |-> 0, revision |-> 0]
NoConnection == [conn |-> 0, phase |-> "none", found |-> {}]

AccessInit ==
  /\ allowed = Owners /\ revision = 1
  /\ applied = NoGroup
  /\ proof = [o \in Owners |-> "valid"]
  /\ effect = [r \in Revisions |-> NoEffect]
  /\ revoking = [o \in Owners |-> "none"]
  /\ lost = 0
  /\ pc = [o \in Owners |-> "idle"]
  /\ keys = [o \in Owners |-> {}]
  /\ closeIn = {} /\ subscribed = {} /\ changedIn = {}
  /\ snap = [o \in Owners |-> 0]
  /\ held = [o \in Owners |-> 0]
  /\ stream = <<>>
  /\ made = 0 /\ server = NoConnection /\ node = [conn |-> 0, ready |-> FALSE]
  /\ hello = FALSE /\ woken = FALSE /\ down = <<>> /\ up = <<>>
  /\ group = NoGroup

\* What the registry of connections says: a sweep is work of a ready connection.
Ready == server.phase \in {"ready", "sweeping"}

RegisteredUnder(key) == {o \in Owners : key \in keys[o]}

-----------------------------------------------------------------------------
(* Policy changes, one immediate transaction each, and their effects.      *)

\* revoke_shell, revoke_view, unpublish: of one of the owners, or of someone
\* who has no stream; the revision is the biot's, so all its streams go.
Withdraw(os) ==
  /\ revision < MaxRevision
  /\ os \subseteq allowed /\ Cardinality(os) <= 1
  /\ allowed' = allowed \ os
  /\ revision' = revision + 1
  /\ effect' = [effect EXCEPT ![revision + 1] = [stage |-> "owners", found |-> {}]]
  /\ UNCHANGED <<proof, applied, revoking, lost, ownerVars, stream, linkVars, group>>

\* grant_shell, grant_view: only readers are told.
Grant(o) ==
  /\ o \notin allowed
  /\ allowed' = allowed \cup {o}
  /\ changedIn' = changedIn \cup subscribed
  /\ UNCHANGED <<revision, proof, applied, requests, pc, keys, closeIn, subscribed, snap, held,
                 stream, linkVars, group>>

\* CommitEffects.enforce/1 after a withdrawal: Owners.close({:biot, _}), which
\* finds the owners and sends to them one by one, NodeWake.spec_changed, and
\* BiotChange.changed.
FindOwners(r) ==
  /\ effect[r].stage = "owners"
  /\ effect' = [effect EXCEPT ![r] = [stage |-> "closing", found |-> RegisteredUnder("biot")]]
  /\ UNCHANGED <<policy, applied, revoking, lost, ownerVars, stream, linkVars, group>>

CloseFound(r) ==
  /\ effect[r].stage = "closing"
  /\ \E o \in effect[r].found :
       /\ closeIn' = closeIn \cup {o}
       /\ effect' = [effect EXCEPT ![r].found = @ \ {o}]
  /\ UNCHANGED <<policy, applied, revoking, lost, pc, keys, subscribed, changedIn, snap, held,
                 stream, linkVars, group>>

\* A wake that is read before the connection is ready is dropped; one that comes
\* after the node has said it is synchronized may be behind that in the mailbox.
WakeNode(r) ==
  /\ effect[r] = [stage |-> "closing", found |-> {}]
  /\ effect' = [effect EXCEPT ![r] = NoEffect]
  /\ woken' = (woken \/ Ready \/ \E i \in DOMAIN up : up[i].type = "synchronized")
  /\ changedIn' = changedIn \cup subscribed
  /\ UNCHANGED <<policy, applied, revoking, lost, pc, keys, closeIn, subscribed, snap, held, stream,
                 made, server, node, hello, down, up, group>>

\* The request process dies between its commit and its effects.
RequestDies ==
  /\ lost < MaxLost
  /\ lost' = lost + 1
  /\ \/ \E r \in Revisions : effect[r] # NoEffect /\ effect' = [effect EXCEPT ![r] = NoEffect]
                             /\ UNCHANGED revoking
     \/ \E o \in Owners : revoking[o] # "none" /\ revoking' = [revoking EXCEPT ![o] = "none"]
                          /\ UNCHANGED effect
  /\ UNCHANGED <<policy, applied, ownerVars, stream, linkVars, group>>

\* logout, revoke, remove: the row of the proof goes, and its owners are closed.
RevokeProof(o) ==
  /\ proof[o] = "valid"
  /\ proof' = [proof EXCEPT ![o] = "revoked"]
  /\ revoking' = [revoking EXCEPT ![o] = "owners"]
  /\ UNCHANGED <<allowed, revision, applied, effect, lost, ownerVars, stream, linkVars, group>>

CloseProof(o) ==
  /\ revoking[o] # "none"
  /\ \/ /\ revoking[o] = "owners"
        /\ revoking' = [revoking EXCEPT ![o] = IF "proof" \in keys[o] THEN "closing" ELSE "none"]
        /\ UNCHANGED closeIn
     \/ /\ revoking[o] = "closing"
        /\ revoking' = [revoking EXCEPT ![o] = "none"]
        /\ closeIn' = closeIn \cup {o}
  /\ UNCHANGED <<policy, applied, effect, lost, pc, keys, subscribed, changedIn, snap, held, stream,
                 linkVars, group>>

ProofExpires(o) ==
  /\ proof[o] = "valid"
  /\ proof' = [proof EXCEPT ![o] = "expired"]
  /\ UNCHANGED <<allowed, revision, applied, requests, ownerVars, stream, linkVars, group>>

\* AuthSweep: close_invalid_proof_owners/0.
SweepProofs(o) ==
  /\ proof[o] # "valid" /\ "proof" \in keys[o] /\ o \notin closeIn
  /\ closeIn' = closeIn \cup {o}
  /\ UNCHANGED <<policy, applied, requests, pc, keys, subscribed, changedIn, snap, held, stream,
                 linkVars, group>>

-----------------------------------------------------------------------------
(* The owner.                                                              *)

\* The admission ends with an error, or the stream with its owner's close/1:
\* every key goes, and what was opened is closed.
Leave(o) ==
  /\ pc' = [pc EXCEPT ![o] = "idle"]
  /\ keys' = [keys EXCEPT ![o] = {}]
  /\ held' = [held EXCEPT ![o] = 0]
  /\ subscribed' = subscribed \ {o}
  /\ changedIn' = changedIn \ {o}
  /\ UNCHANGED snap

\* admit/3: closes of earlier admissions are drained first.
Admit(o) ==
  /\ pc[o] = "idle"
  /\ closeIn' = closeIn \ {o}
  /\ pc' = [pc EXCEPT ![o] = "register"]
  /\ UNCHANGED <<policy, applied, requests, keys, subscribed, changedIn, snap, held, stream,
                 linkVars, group>>

\* Owners.register/3, key by key.
Register(o) ==
  /\ pc[o] = "register"
  /\ \/ keys[o] = {} /\ keys' = [keys EXCEPT ![o] = {"biot"}] /\ UNCHANGED pc
     \/ /\ keys[o] = {"biot"} /\ keys' = [keys EXCEPT ![o] = {"biot", "proof"}]
        /\ pc' = [pc EXCEPT ![o] = "check"]
  /\ UNCHANGED <<policy, applied, requests, closeIn, subscribed, changedIn, snap, held, stream,
                 linkVars, group>>

\* no_close/0 takes a close and denies.
Denied(o) ==
  /\ pc[o] \in {"check", "read", "waiting"} /\ o \in closeIn
  /\ closeIn' = closeIn \ {o}
  /\ Leave(o)
  /\ UNCHANGED <<policy, applied, requests, stream, linkVars, group>>

Permitted(o) == o \in allowed /\ proof[o] = "valid"

\* read_snapshot/1: proof, policy and revision in one transaction.
ReadSnapshot(o) ==
  /\ pc[o] = "check" /\ o \notin closeIn
  /\ IF Permitted(o)
       THEN /\ snap' = [snap EXCEPT ![o] = revision]
            /\ pc' = [pc EXCEPT ![o] = "read"]
            /\ UNCHANGED <<keys, held, subscribed, changedIn>>
       ELSE Leave(o)
  /\ UNCHANGED <<policy, applied, requests, closeIn, stream, linkVars, group>>

\* no_close/0 once more, after the read; from here on a close waits in the
\* mailbox until the stream is open.
NoClose(o) ==
  /\ pc[o] = "read" /\ o \notin closeIn
  /\ pc' = [pc EXCEPT ![o] = "open"]
  /\ UNCHANGED <<policy, applied, requests, keys, closeIn, subscribed, changedIn, snap, held, stream,
                 linkVars, group>>

ToNode(message) == IF node.conn = server.conn THEN Append(down, message) ELSE down
ToServer(messages) == IF node.conn = server.conn THEN up \o messages ELSE up

\* Streams.open_until/5 up to its wait: through the ready connection.
OpenStream(o) ==
  /\ pc[o] = "open" /\ server.phase # "sweeping"
  /\ IF server.phase = "ready"
       THEN /\ Len(stream) < MaxStreams
            /\ stream' = Append(stream, [owner |-> o, revision |-> snap[o], conn |-> server.conn,
                                         kid |-> "asked"])
            /\ down' = ToNode([type |-> "open", id |-> Len(stream) + 1, revision |-> snap[o]])
            /\ pc' = [pc EXCEPT ![o] = "opening"]
            /\ held' = [held EXCEPT ![o] = Len(stream) + 1]
            /\ UNCHANGED <<keys, subscribed, changedIn, snap>>
       ELSE Leave(o) /\ UNCHANGED <<stream, down>>
  /\ UNCHANGED <<policy, applied, requests, closeIn, made, server, node, hello, woken, up, group>>

\* The wait ends without a stream: the connection is gone, or the deadline
\* passed, there or in retry_until_applied/3 and before/1.
OpenFails(o) ==
  /\ \/ pc[o] \in {"opening", "waiting"}
     \/ pc[o] = "check" /\ o \in subscribed
  /\ Leave(o)
  /\ UNCHANGED <<policy, applied, requests, closeIn, stream, linkVars, group>>

\* Mutant of WaitForApplied: the owner subscribes and does not try again.
WaitAtOnce(o) ==
  /\ pc[o] = "stale"
  /\ pc' = [pc EXCEPT ![o] = "waiting"]
  /\ subscribed' = subscribed \cup {o}
  /\ UNCHANGED <<policy, applied, requests, keys, closeIn, changedIn, snap, held, stream, linkVars,
                 group>>

\* wait_for_applied/3 after a stale open: subscribe and try again at once.  The
\* next stale open waits for a change.
WaitForApplied(o) ==
  /\ pc[o] = "stale"
  /\ pc' = [pc EXCEPT ![o] = IF o \in subscribed THEN "waiting" ELSE "check"]
  /\ subscribed' = subscribed \cup {o}
  /\ UNCHANGED <<policy, applied, requests, keys, closeIn, changedIn, snap, held, stream, linkVars,
                 group>>

\* retry_until_applied/3 takes a change of the biot and reads policy again.
Retry(o) ==
  /\ pc[o] = "waiting" /\ o \in changedIn
  /\ changedIn' = changedIn \ {o}
  /\ pc' = [pc EXCEPT ![o] = "check"]
  /\ UNCHANGED <<policy, applied, requests, keys, closeIn, subscribed, snap, held, stream,
                 linkVars, group>>

\* Mutant of MarkAdmitted: a close that raced with the opening is drained.
MarkAdmittedDrains(o) ==
  /\ pc[o] = "opened"
  /\ pc' = [pc EXCEPT ![o] = "holding"]
  /\ closeIn' = closeIn \ {o}
  /\ subscribed' = subscribed \ {o} /\ changedIn' = changedIn \ {o}
  /\ UNCHANGED <<policy, applied, requests, keys, snap, held, stream, linkVars, group>>

\* mark_admitted/2: monitor, timer and the admitted key, and a close that
\* raced with the opening closes the stream.
MarkAdmitted(o) ==
  /\ pc[o] = "opened"
  /\ IF o \in closeIn
       THEN closeIn' = closeIn \ {o} /\ Leave(o)
       ELSE /\ pc' = [pc EXCEPT ![o] = "holding"]
            /\ subscribed' = subscribed \ {o} /\ changedIn' = changedIn \ {o}
            /\ UNCHANGED <<closeIn, keys, snap, held>>
  /\ UNCHANGED <<policy, applied, requests, stream, linkVars, group>>

\* handle_owner_message/2: a close, the DOWN of the connection that admitted
\* the stream, or the expiry timer.
HandleOwnerMessage(o) ==
  /\ pc[o] = "holding"
  /\ o \in closeIn \/ stream[held[o]].conn # server.conn \/ proof[o] = "expired"
  /\ closeIn' = closeIn \ {o}
  /\ Leave(o)
  /\ UNCHANGED <<policy, applied, requests, stream, linkVars, group>>

\* The owner's socket is closed by the node: Streams.stream/2 says so and the
\* owner calls close/1.
StreamEnds(o) ==
  /\ pc[o] = "holding" /\ stream[held[o]].kid = "gone"
  /\ Leave(o)
  /\ UNCHANGED <<policy, applied, requests, closeIn, stream, linkVars, group>>

\* The client hangs up.
OwnerCloses(o) ==
  /\ pc[o] = "holding"
  /\ Leave(o)
  /\ UNCHANGED <<policy, applied, requests, closeIn, stream, linkVars, group>>

-----------------------------------------------------------------------------
(* The server's connection process.                                        *)

\* claim_node/2: the newest connection replaces the registered one, when that
\* one is between two handlers, and subscribes to the node's wakes.
HandleHello ==
  /\ hello /\ server.phase \in {"none", "synchronizing", "ready"}
  /\ server' = [conn |-> node.conn, phase |-> "hello", found |-> {}]
  /\ hello' = FALSE /\ woken' = FALSE /\ up' = <<>>
  /\ UNCHANGED <<policy, applied, requests, ownerVars, stream, made, node, down, group>>

\* Mutant of AccessBehind: any application counts, whatever its revision.
NeverApplied == applied.revision = 0

\* Synchronization.access_behind/1: an application on any connection counts.
AccessBehind == applied.revision < revision

\* close_withdrawn_owners/1 of a hello or a sweep finds the owners ...
CloseWithdrawnOwners ==
  IF AccessBehind THEN RegisteredUnder("biot") ELSE {}

HelloCloses ==
  /\ server.phase = "hello"
  /\ server' = [server EXCEPT !.phase = "snapshot", !.found = CloseWithdrawnOwners]
  /\ UNCHANGED <<policy, applied, requests, ownerVars, stream, made, node, hello, woken, down, up,
                 group>>

\* ... and sends to them one by one.
CloseWithdrawn(o) ==
  /\ o \in server.found
  /\ server' = [server EXCEPT !.found = @ \ {o}]
  /\ closeIn' = closeIn \cup {o}
  /\ UNCHANGED <<policy, applied, requests, pc, keys, subscribed, changedIn, snap, held, stream,
                 made, node, hello, woken, down, up, group>>

SendSnapshot ==
  /\ server.phase = "snapshot" /\ server.found = {}
  /\ server' = [server EXCEPT !.phase = "synchronizing"]
  /\ down' = ToNode([type |-> "snapshot", revision |-> revision])
  /\ UNCHANGED <<policy, applied, requests, ownerVars, stream, made, node, hello, woken, up, group>>

\* {:biot_spec_changed, _} of a ready connection; before that it is dropped.
HandleWake ==
  /\ woken /\ server.phase = "ready"
  /\ woken' = FALSE
  /\ down' = ToNode([type |-> "desired", revision |-> revision])
  /\ UNCHANGED <<policy, applied, requests, ownerVars, stream, made, server, node, hello, up, group>>

NotApplied == ~(applied.conn = server.conn /\ applied.revision >= revision)

\* Mutant of Sweep: an observation of this connection is taken for current.
SweepBlindly ==
  /\ server.phase = "ready" /\ Len(down) + Len(up) < MaxQueue
  /\ applied.conn # server.conn
  /\ server' = [server EXCEPT !.phase = "sweeping", !.found = CloseWithdrawnOwners]
  /\ UNCHANGED <<policy, applied, requests, ownerVars, stream, made, node, hello, woken, down, up,
                 group>>

\* :desired_sweep of a biot whose access revision is behind: its owners first,
Sweep ==
  /\ server.phase = "ready" /\ Len(down) + Len(up) < MaxQueue
  /\ NotApplied
  /\ server' = [server EXCEPT !.phase = "sweeping", !.found = CloseWithdrawnOwners]
  /\ UNCHANGED <<policy, applied, requests, ownerVars, stream, made, node, hello, woken, down, up,
                 group>>

\* Mutant of SendBehind: a sweep closes owners and nothing else.
SweepOwnersOnly ==
  /\ server.phase = "sweeping" /\ server.found = {}
  /\ server' = [server EXCEPT !.phase = "ready"]
  /\ UNCHANGED <<policy, applied, requests, ownerVars, stream, made, node, hello, woken, down, up,
                 group>>

\* ... then send_behind_specs/2.
SendBehind ==
  /\ server.phase = "sweeping" /\ server.found = {}
  /\ server' = [server EXCEPT !.phase = "ready"]
  /\ down' = ToNode([type |-> "desired", revision |-> revision])
  /\ UNCHANGED <<policy, applied, requests, ownerVars, stream, made, node, hello, woken, up, group>>

\* The process is between two handlers and reads a message of the type.
Reads(type, phases) ==
  up # <<>> /\ Head(up).type = type /\ server.phase \in phases

HandleSynchronized ==
  /\ Reads("synchronized", {"synchronizing"})
  /\ server' = [server EXCEPT !.phase = "ready"]
  /\ up' = Tail(up)
  /\ UNCHANGED <<policy, applied, requests, ownerVars, stream, made, node, hello, woken, down, group>>

\* Reports.access_applied/4: progress never decreases within a connection.
HandleApplied ==
  /\ Reads("applied", {"synchronizing", "ready"})
  /\ up' = Tail(up)
  /\ IF applied.conn = server.conn /\ Head(up).revision <= applied.revision
       THEN UNCHANGED <<applied, changedIn>>
       ELSE /\ applied' = [conn |-> server.conn, revision |-> Head(up).revision]
            /\ changedIn' = changedIn \cup subscribed
  /\ UNCHANGED <<policy, requests, pc, keys, closeIn, subscribed, snap, held, stream, made, server,
                 node, hello, woken, down, group>>

\* StreamFailed through Pending to the owner, if it still waits.
HandleStreamFailed ==
  /\ Reads("failed", {"ready"})
  /\ up' = Tail(up)
  /\ LET o == stream[Head(up).id].owner
         waits == pc[o] = "opening" /\ held[o] = Head(up).id
     IN  \/ /\ ~waits
            /\ UNCHANGED <<pc, keys, subscribed, changedIn, snap, held>>
         \/ /\ waits /\ Head(up).reason = "stale_access"
            /\ pc' = [pc EXCEPT ![o] = "stale"]
            /\ held' = [held EXCEPT ![o] = 0]
            /\ UNCHANGED <<keys, subscribed, changedIn, snap>>
         \/ waits /\ Head(up).reason # "stale_access" /\ Leave(o)
  /\ UNCHANGED <<policy, applied, requests, closeIn, stream, made, server, node, hello, woken, down,
                 group>>

\* The server misses a heartbeat or sees the socket closed.
ServerLosesLink ==
  /\ server.conn # 0 /\ server.conn < MaxConnections
  /\ server.phase \in {"synchronizing", "ready"}
  /\ server' = NoConnection
  /\ woken' = FALSE /\ up' = <<>>
  /\ UNCHANGED <<policy, applied, requests, ownerVars, stream, made, node, hello, down, group>>

-----------------------------------------------------------------------------
(* The node.                                                               *)

Kids == {i \in DOMAIN stream : stream[i].kid \in {"connecting", "relaying"}}

\* The children `is` are terminated, and their sockets with them.
Terminated(is) ==
  [i \in DOMAIN stream |-> IF i \in is THEN [stream[i] EXCEPT !.kid = "gone"] ELSE stream[i]]

Dial ==
  /\ node.conn = 0 /\ made < MaxConnections
  /\ made' = made + 1
  /\ node' = [conn |-> made + 1, ready |-> FALSE]
  /\ hello' = TRUE /\ down' = <<>>
  /\ UNCHANGED <<policy, applied, requests, ownerVars, stream, server, woken, up, group>>

Ack(r) == [type |-> "applied", revision |-> r]

\* SynchronizeEnd: Streams.close_all/0, the revision, and the acknowledgements.
HandleSnapshot ==
  /\ down # <<>> /\ Head(down).type = "snapshot"
  /\ down' = Tail(down)
  /\ stream' = Terminated(Kids)
  /\ group' = [conn |-> node.conn, revision |-> Head(down).revision]
  /\ up' = ToServer(<<Ack(Head(down).revision), [type |-> "synchronized"]>>)
  /\ node' = [node EXCEPT !.ready = TRUE]
  /\ UNCHANGED <<policy, applied, requests, ownerVars, made, server, hello, woken>>

\* Mutant of ApplyRevision: the old group's children run on.
ApplyRevisionKeepsGroup ==
  /\ node.ready /\ down # <<>> /\ Head(down).type = "desired"
  /\ down' = Tail(down)
  /\ LET r == Head(down).revision IN
       IF r < group.revision
         THEN UNCHANGED <<stream, group, up>>
         ELSE /\ stream' = stream
              /\ group' = [conn |-> node.conn, revision |-> r]
              /\ up' = ToServer(<<Ack(r)>>)
  /\ UNCHANGED <<policy, applied, requests, ownerVars, made, server, node, hello, woken>>

\* Desired: Groups.apply_revision/4 ignores a lower revision, acknowledges its
\* own again, and closes the old group before it acknowledges a higher one.
ApplyRevision ==
  /\ node.ready /\ down # <<>> /\ Head(down).type = "desired"
  /\ down' = Tail(down)
  /\ LET r == Head(down).revision IN
       IF r < group.revision
         THEN UNCHANGED <<stream, group, up>>
         ELSE /\ stream' = IF r = group.revision THEN stream ELSE Terminated(Kids)
              /\ group' = [conn |-> node.conn, revision |-> r]
              /\ up' = ToServer(<<Ack(r)>>)
  /\ UNCHANGED <<policy, applied, requests, ownerVars, made, server, node, hello, woken>>

Failed(i, reason) == [type |-> "failed", id |-> i, reason |-> reason]

\* OpenStream: Groups.admit/5 wants the current connection and revision, and
\* room.  Children of earlier connections are gone by then.
AdmitStream ==
  /\ node.ready /\ down # <<>> /\ Head(down).type = "open"
  /\ down' = Tail(down)
  /\ LET i == Head(down).id
         stale == Head(down).revision # group.revision
         full == Cardinality(Kids) >= MaxPerBiot
     IN  /\ stream' = [stream EXCEPT ![i].kid = IF stale \/ full THEN "gone" ELSE "connecting"]
         /\ up' = IF stale THEN ToServer(<<Failed(i, "stale_access")>>)
                  ELSE IF full THEN ToServer(<<Failed(i, "too_many_streams")>>)
                  ELSE up
  /\ UNCHANGED <<policy, applied, requests, ownerVars, made, server, node, hello, woken, group>>

\* Stream: the agent answers and the attach meets an owner that waits, on the
\* ready connection; or it does not, and the child is rejected.  Nobody waits
\* then for the failure that a rejected child reports.
KidAttaches(i) ==
  /\ i \in DOMAIN stream /\ stream[i].kid = "connecting"
  /\ LET o == stream[i].owner
         waits == pc[o] = "opening" /\ held[o] = i
                  /\ Ready /\ server.conn = stream[i].conn
     IN  /\ stream' = [stream EXCEPT ![i].kid = IF waits THEN "relaying" ELSE "gone"]
         /\ pc' = IF waits THEN [pc EXCEPT ![o] = "opened"] ELSE pc
  /\ UNCHANGED <<policy, applied, requests, keys, closeIn, subscribed, changedIn, snap, held,
                 linkVars, group>>

\* The agent cannot be reached or refuses.
KidFails(i) ==
  /\ i \in DOMAIN stream /\ stream[i].kid = "connecting"
  /\ stream' = Terminated({i})
  /\ up' = ToServer(<<Failed(i, "agent_unreachable")>>)
  /\ UNCHANGED <<policy, applied, requests, ownerVars, made, server, node, hello, woken, down, group>>

\* A relay sees its socket closed by the owner, or the program ends.
KidEnds(i) ==
  /\ i \in DOMAIN stream /\ stream[i].kid = "relaying"
  /\ stream' = Terminated({i})
  /\ UNCHANGED <<policy, applied, requests, ownerVars, linkVars, group>>

NodeDisconnect ==
  /\ node' = [conn |-> 0, ready |-> FALSE]
  /\ stream' = Terminated(Kids)
  /\ group' = NoGroup
  /\ down' = <<>> /\ hello' = FALSE
  /\ UNCHANGED <<policy, applied, requests, ownerVars, made, server, woken, up>>

\* The node misses a heartbeat or sees the socket closed; when the server's
\* end is gone it will.
NodeLosesLink == node.conn # 0 /\ node.conn < MaxConnections /\ NodeDisconnect
NodeSeesClosed == node.conn # 0 /\ ~hello /\ node.conn # server.conn /\ NodeDisconnect

-----------------------------------------------------------------------------
RequestStep ==
  \/ \E r \in Revisions : FindOwners(r) \/ CloseFound(r) \/ WakeNode(r)
  \/ \E o \in Owners : CloseProof(o)

OwnerStep(o) ==
  \/ Register(o) \/ Denied(o) \/ ReadSnapshot(o) \/ NoClose(o) \/ OpenStream(o)
  \/ WaitForApplied(o) \/ Retry(o) \/ MarkAdmitted(o) \/ HandleOwnerMessage(o) \/ StreamEnds(o)

ConnectionStep ==
  \/ HandleHello \/ HelloCloses \/ SendSnapshot \/ HandleWake \/ SendBehind
  \/ HandleSynchronized \/ HandleApplied \/ HandleStreamFailed
  \/ \E o \in Owners : CloseWithdrawn(o)

NodeStep == Dial \/ HandleSnapshot \/ ApplyRevision \/ AdmitStream \/ NodeSeesClosed

AccessNext ==
  \/ RequestStep \/ ConnectionStep \/ NodeStep \/ Sweep
  \/ RequestDies \/ ServerLosesLink \/ NodeLosesLink
  \/ \E os \in SUBSET Owners : Withdraw(os)
  \/ \E o \in Owners :
       \/ Grant(o) \/ RevokeProof(o) \/ ProofExpires(o) \/ SweepProofs(o)
       \/ Admit(o) \/ OwnerStep(o) \/ OpenFails(o) \/ OwnerCloses(o)
  \/ \E i \in 1..MaxStreams : KidAttaches(i) \/ KidFails(i) \/ KidEnds(i)

AccessSpec == AccessInit /\ [][AccessNext]_accessVars

\* Processes that can take a step take it, the sweeps come round, and a node
\* that has lost its connection dials again.  Nothing else has to happen.  A
\* sweep comes at intervals and mailboxes are read in order, so a connection
\* that sweeps again and again still reads :replaced.
AccessFairness ==
  /\ WF_accessVars(RequestStep) /\ WF_accessVars(ConnectionStep) /\ WF_accessVars(NodeStep)
  /\ WF_accessVars(Sweep) /\ SF_accessVars(HandleHello)
  /\ \A o \in Owners : WF_accessVars(OwnerStep(o)) /\ WF_accessVars(SweepProofs(o))

FairAccessSpec == AccessSpec /\ AccessFairness

-----------------------------------------------------------------------------
Admitting == {"read", "open", "opening", "stale", "waiting", "opened", "holding"}

\* enforcement.ex 13-20: once a policy change reports the access as applied, no
\* stream of an earlier revision runs on the node, or can attach later.
EnforcedMeansClosed ==
  applied.conn = server.conn /\ server.conn # 0 /\ applied.revision >= revision
    => \A i \in Kids : stream[i].revision = revision

\* synchronization.ex 42-43: the owners of a biot that a sweep passes over,
\* because some connection has applied its revision, hold no stream that needs
\* a close: it has ended on the node, or its connection has.
SkippedOwnersEnd ==
  ~AccessBehind =>
    \A o \in Owners :
      pc[o] = "holding" /\ snap[o] < revision
        => stream[held[o]].kid = "gone" \/ stream[held[o]].conn # server.conn

\* The close of a later withdrawal, or of the proof's end, is still to be sent to `o`.
CloseComes(o) ==
  \E r \in Revisions : r > snap[o] /\ (effect[r].stage = "owners" \/ o \in effect[r].found)

\* admission.ex 5-8: an owner registers before it reads, so as long as no request
\* process dies, access that is withdrawn after the read has its close in the
\* mailbox or on its way there, whatever the owner is doing.
NoForgottenClose ==
  lost = 0 =>
    \A o \in Owners :
      pc[o] \in Admitting /\ o \notin closeIn
        => /\ snap[o] < revision => CloseComes(o)
           /\ proof[o] = "revoked" => revoking[o] # "none"

\* admission.ex 138-141: an owner that waits for the node to apply its revision
\* has not missed the signal: the application is still to be stored.
WaitingIsWoken ==
  \A o \in Owners :
    pc[o] = "waiting" /\ o \notin changedIn /\ snap[o] = revision
      => applied.conn # server.conn \/ applied.revision < snap[o]

\* connection.ex (server) 219, 450 and 746, auth_sweep.ex 5-8: a stream of an
\* earlier revision, or of a proof that is no longer valid, is closed, also when
\* the request process died or its wake was dropped.
WithdrawnStreamsClose ==
  \A o \in Owners :
    /\ pc[o] = "holding" /\ snap[o] < revision ~> pc[o] # "holding" \/ snap[o] = revision
    /\ pc[o] = "holding" /\ proof[o] # "valid" ~> pc[o] # "holding"

\* connection.ex (server) 734-738: the node comes to apply every revision, also
\* one whose wake came while the connection synchronized.
WithdrawalIsApplied ==
  \A r \in Revisions : revision = r ~> revision > r \/ (applied.conn = server.conn /\ applied.revision = r)
=============================================================================
