------------------------------- MODULE Outbox -------------------------------
(***************************************************************************)
(* The node's report outbox, Biot.Node.Control.Outbox, and the part of the *)
(* control connection that drains it.                                      *)
(*                                                                         *)
(* The outbox is a public ETS table.  Controllers write to it from their   *)
(* own processes; the connection process owns it and empties it.  Every    *)
(* ETS call is atomic and no two of them are, so one step here is one ETS  *)
(* call, one cast, or one mailbox message taken by the connection.         *)
(*                                                                         *)
(* A report is abstracted to its key and a version number: version n of    *)
(* key k is the n-th report written under k, and 0 means no report.        *)
(***************************************************************************)
EXTENDS Naturals, FiniteSets

CONSTANTS Writers,    \* reports written by controller processes, one key each
          NodeKeys,   \* reports the connection writes itself on an announce
          MaxPuts,    \* bound: versions of one key
          MaxFaults   \* bound: lost links and connection restarts

ASSUME OutboxConstants ==
         /\ Writers \cap NodeKeys = {}
         /\ IsFiniteSet(Writers) /\ IsFiniteSet(NodeKeys)
         /\ MaxPuts \in Nat /\ MaxFaults \in Nat

Keys == Writers \cup NodeKeys

VARIABLES
  table,      \* the reports in the ETS table
  marker,     \* whether the wakeup row is in the ETS table
  casts,      \* wakeup casts in the connection's mailbox
  announces,  \* announce messages in the connection's mailbox
  status,     \* the connection's link: "ready" or "down"
  connPc,     \* where the connection process is
  work,       \* the keys its current loop has still to visit
  found,      \* the keys its select returned
  batch,      \* the reports it took from the table and has not sent
  writerPc,   \* where each controller is in Outbox.put/1
  poked,      \* controllers that owe a report
  version,    \* the newest version written under each key
  sent,       \* the newest version sent on a link
  lost,       \* keys whose newest report was taken and not sent
  faults

vars == <<table, marker, casts, announces, status, connPc, work, found, batch,
          writerPc, poked, version, sent, lost, faults>>

connVars == <<announces, status, connPc, work, found, batch, sent, faults>>

Init ==
  /\ table = [k \in Keys |-> 0]
  /\ marker = FALSE
  /\ casts = 0
  /\ announces = 0
  /\ status = "down"
  /\ connPc = "idle"
  /\ work = {} /\ found = {}
  /\ batch = [k \in Keys |-> 0]
  /\ writerPc = [w \in Writers |-> "idle"]
  /\ poked = {}
  /\ version = [k \in Keys |-> 0]
  /\ sent = [k \in Keys |-> 0]
  /\ lost = {}
  /\ faults = 0

-----------------------------------------------------------------------------
(* Outbox.put/1, in a controller's process.                                *)

\* Mutant of Insert: a row that is there is kept.
InsertKeepsFirst(k) ==
  /\ version' = [version EXCEPT ![k] = @ + 1]
  /\ table' = [table EXCEPT ![k] = IF @ = 0 THEN version[k] + 1 ELSE @]
  /\ lost' = lost \ {k}

\* ets:insert replaces the report the new one supersedes.
Insert(k) ==
  /\ version' = [version EXCEPT ![k] = @ + 1]
  /\ table' = [table EXCEPT ![k] = version[k] + 1]
  /\ lost' = lost \ {k}

\* A controller inspects and reports, because it was poked or on its own.
WriterInsert(w) ==
  /\ writerPc[w] = "idle"
  /\ version[w] < MaxPuts \/ w \in poked
  /\ Insert(w)
  /\ writerPc' = [writerPc EXCEPT ![w] = "inserted"]
  /\ poked' = poked \ {w}
  /\ UNCHANGED <<connVars, marker, casts>>

\* ets:insert_new tells the first writer since the last drain from the others.
WriterMark(w) ==
  /\ writerPc[w] = "inserted"
  /\ marker' = TRUE
  /\ writerPc' = [writerPc EXCEPT ![w] = IF marker THEN "idle" ELSE "marked"]
  /\ UNCHANGED <<connVars, table, casts, poked, version, lost>>

WriterWake(w) ==
  /\ writerPc[w] = "marked"
  /\ casts' = casts + 1
  /\ writerPc' = [writerPc EXCEPT ![w] = "idle"]
  /\ UNCHANGED <<connVars, table, marker, poked, version, lost>>

-----------------------------------------------------------------------------
(* The connection process.                                                 *)

\* A drain cast: a link that is not ready leaves the table and the marker.
HandleCast ==
  /\ connPc = "idle" /\ casts > 0
  /\ casts' = casts - 1
  /\ connPc' = IF status = "ready" THEN "clear" ELSE "idle"
  /\ UNCHANGED <<table, marker, announces, status, work, found, batch,
                 writerPc, poked, version, sent, lost, faults>>

\* The announce message of a finished synchronization writes the node's own
\* reports, one put after another, and then drains.
HandleAnnounce ==
  /\ connPc = "idle" /\ announces > 0
  /\ announces' = announces - 1
  /\ IF status = "ready"
       THEN connPc' = "put" /\ work' = NodeKeys
       ELSE UNCHANGED <<connPc, work>>
  /\ UNCHANGED <<table, marker, casts, status, found, batch, writerPc, poked,
                 version, sent, lost, faults>>

AnnounceInsert(k) ==
  /\ connPc = "put" /\ k \in work
  /\ Insert(k)
  /\ work' = work \ {k}
  /\ connPc' = "mark"
  /\ UNCHANGED <<marker, casts, announces, status, found, batch, writerPc,
                 poked, sent, faults>>

AnnounceMark ==
  /\ connPc = "mark"
  /\ marker' = TRUE
  /\ connPc' = IF marker THEN "put" ELSE "wake"
  /\ UNCHANGED <<table, casts, announces, status, work, found, batch, writerPc,
                 poked, version, sent, lost, faults>>

\* The connection casts to itself, so the wakeup waits behind this handler.
AnnounceWake ==
  /\ connPc = "wake"
  /\ casts' = casts + 1
  /\ connPc' = "put"
  /\ UNCHANGED <<table, marker, announces, status, work, found, batch,
                 writerPc, poked, version, sent, lost, faults>>

AnnounceDone ==
  /\ connPc = "put" /\ work = {}
  /\ connPc' = "clear"
  /\ UNCHANGED <<table, marker, casts, announces, status, work, found, batch,
                 writerPc, poked, version, sent, lost, faults>>

\* Mutant of ClearMarker: the wakeup row survives the drain.
ClearMarkerForgotten ==
  /\ connPc = "clear"
  /\ connPc' = "select"
  /\ work' = Keys /\ found' = {}
  /\ UNCHANGED <<table, marker, casts, announces, status, batch, writerPc,
                 poked, version, sent, lost, faults>>

\* Outbox.drain/0 deletes the marker before it reads anything.
ClearMarker ==
  /\ connPc = "clear"
  /\ marker' = FALSE
  /\ connPc' = "select"
  /\ work' = Keys /\ found' = {}
  /\ UNCHANGED <<table, casts, announces, status, batch, writerPc, poked,
                 version, sent, lost, faults>>

\* ets:select visits the rows one by one while writers go on writing.
Select(k) ==
  /\ connPc = "select" /\ k \in work
  /\ work' = work \ {k}
  /\ found' = IF table[k] > 0 THEN found \cup {k} ELSE found
  /\ UNCHANGED <<table, marker, casts, announces, status, connPc, batch,
                 writerPc, poked, version, sent, lost, faults>>

SelectDone ==
  /\ connPc = "select" /\ work = {}
  /\ connPc' = "take"
  /\ UNCHANGED <<table, marker, casts, announces, status, work, found, batch,
                 writerPc, poked, version, sent, lost, faults>>

\* ets:take returns the row as it is now and deletes it.
Take(k) ==
  /\ connPc = "take" /\ k \in found
  /\ batch' = [batch EXCEPT ![k] = table[k]]
  /\ table' = [table EXCEPT ![k] = 0]
  /\ found' = found \ {k}
  /\ UNCHANGED <<marker, casts, announces, status, connPc, work, writerPc,
                 poked, version, sent, lost, faults>>

Send ==
  /\ connPc = "take" /\ found = {}
  /\ sent' = [k \in Keys |-> IF batch[k] > 0 THEN batch[k] ELSE sent[k]]
  /\ batch' = [k \in Keys |-> 0]
  /\ connPc' = "idle"
  /\ UNCHANGED <<table, marker, casts, announces, status, work, found,
                 writerPc, poked, version, lost, faults>>

\* The keys whose newest version leaves the node with the reports rs.
Dropped(rs) == {k \in Keys : rs[k] > 0 /\ rs[k] = version[k]}

\* A failed send loses what the drain took and closes the link.
SendFails ==
  /\ connPc = "take" /\ found = {}
  /\ faults < MaxFaults
  /\ faults' = faults + 1
  /\ lost' = lost \cup Dropped(batch)
  /\ batch' = [k \in Keys |-> 0]
  /\ status' = "down"
  /\ connPc' = "idle"
  /\ UNCHANGED <<table, marker, casts, announces, work, found, writerPc, poked,
                 version, sent>>

\* ssl_closed, ssl_error and every protocol error.
Disconnect ==
  /\ connPc = "idle" /\ status = "ready"
  /\ faults < MaxFaults
  /\ faults' = faults + 1
  /\ status' = "down"
  /\ UNCHANGED <<table, marker, casts, announces, connPc, work, found, batch,
                 writerPc, poked, version, sent, lost>>

\* A finished synchronization pokes every controller, queues the announce
\* message to itself, and only then is the link ready.
FinishSynchronization ==
  /\ connPc = "idle" /\ status = "down"
  /\ poked' = Writers
  /\ announces' = announces + 1
  /\ status' = "ready"
  /\ UNCHANGED <<table, marker, casts, connPc, work, found, batch, writerPc,
                 version, sent, lost, faults>>

\* The table and the mailbox die with the connection process.  A controller
\* that is between two ETS calls crashes on the dead table, and its restart
\* inspects and reports again.
Restart ==
  /\ faults < MaxFaults
  /\ faults' = faults + 1
  /\ lost' = lost \cup Dropped(table) \cup Dropped(batch)
  /\ table' = [k \in Keys |-> 0] /\ batch' = [k \in Keys |-> 0]
  /\ marker' = FALSE
  /\ casts' = 0 /\ announces' = 0
  /\ status' = "down" /\ connPc' = "idle" /\ work' = {} /\ found' = {}
  /\ writerPc' = [w \in Writers |->
                    IF writerPc[w] = "inserted" THEN "idle" ELSE writerPc[w]]
  /\ poked' = poked \cup {w \in Writers : writerPc[w] = "inserted"}
  /\ UNCHANGED <<version, sent>>

-----------------------------------------------------------------------------
Writing(w) == WriterMark(w) \/ WriterWake(w)

\* One connection process: it goes on with what it has begun, and takes a
\* message from its mailbox when it has nothing begun.
Connection ==
  \/ HandleCast \/ HandleAnnounce
  \/ \E k \in Keys : AnnounceInsert(k) \/ Select(k) \/ Take(k)
  \/ AnnounceMark \/ AnnounceWake \/ AnnounceDone
  \/ ClearMarker \/ SelectDone \/ Send

Next ==
  \/ \E w \in Writers : WriterInsert(w) \/ Writing(w)
  \/ Connection
  \/ SendFails \/ Disconnect \/ FinishSynchronization \/ Restart

Spec == Init /\ [][Next]_vars

\* Processes are scheduled, a poked controller reports, and a link that is
\* down is dialled again until a synchronization finishes.
Fairness ==
  /\ \A w \in Writers : WF_vars(Writing(w)) /\ WF_vars(w \in poked /\ WriterInsert(w))
  /\ WF_vars(Connection)
  /\ WF_vars(FinishSynchronization)

FairSpec == Spec /\ Fairness

-----------------------------------------------------------------------------
\* Every variable keeps its type.
TypeOK ==
  /\ table \in [Keys -> Nat] /\ batch \in [Keys -> Nat]
  /\ version \in [Keys -> Nat] /\ sent \in [Keys -> Nat]
  /\ marker \in BOOLEAN
  /\ casts \in Nat /\ announces \in Nat /\ faults \in Nat
  /\ status \in {"ready", "down"}
  /\ connPc \in {"idle", "put", "mark", "wake", "clear", "select", "take"}
  /\ work \subseteq Keys /\ found \subseteq Keys
  /\ writerPc \in [Writers -> {"idle", "inserted", "marked"}]
  /\ poked \subseteq Writers /\ lost \subseteq Keys

\* The connection has something in its mailbox, or coming to it, that drains.
DrainComing ==
  \/ status = "down"
  \/ casts > 0
  \/ announces > 0
  \/ connPc \in {"put", "mark", "wake", "clear"}
  \/ \E w \in Writers : writerPc[w] = "marked"

\* The drain in progress still takes k.
DrainTakes(k) ==
  \/ connPc = "select" /\ k \in work \cup found
  \/ connPc = "take" /\ k \in found

\* outbox.ex:10-13: no report is left in the table with nobody to drain it.
\* A ready link with a report in its table has a wakeup, an announce or a
\* drain under way, or a writer that has not yet decided whether to wake it.
NoLostWakeup ==
  \A k \in Keys : table[k] > 0 =>
    \/ DrainComing
    \/ DrainTakes(k)
    \/ \E w \in Writers : writerPc[w] = "inserted"

\* outbox.ex:5-8: the newest report under a key is waiting, taken or sent; a
\* report that is dropped for any other reason than a lost link was replaced
\* by a newer one.
NewestReportKept ==
  \A k \in Keys : k \in lost \/ version[k] \in {table[k], batch[k], sent[k]}

\* control.ex:5-8: a report is sent in the end, whatever links are lost.
ReportsSent == \A k \in Keys : (version[k] > sent[k]) ~> (version[k] = sent[k])
=============================================================================
