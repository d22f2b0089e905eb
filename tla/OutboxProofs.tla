---------------------------- MODULE OutboxProofs ----------------------------
(***************************************************************************)
(* NoLostWakeup for every set of writers and keys.  It is not inductive by *)
(* itself: a writer that finds the wakeup row already there goes away      *)
(* without waking anyone, so the proof also needs that the row is never    *)
(* there without a drain to come (MarkerMeansDrain).                       *)
(*                                                                         *)
(* NewestReportKept, by the order of the versions of a key: what was sent  *)
(* is older than what the drain holds, and that is older than what is in   *)
(* the table (VersionsInOrder), so a send never puts back an older one.    *)
(***************************************************************************)
EXTENDS Outbox, TLAPS

\* The wakeup row is only in the table while a drain is coming.
MarkerMeansDrain == marker => DrainComing

WakeupInv == TypeOK /\ MarkerMeansDrain /\ NoLostWakeup

-----------------------------------------------------------------------------
\* Every step of the outbox and the connection keeps the types.
LEMMA TypePreserved == TypeOK /\ [Next]_vars => TypeOK'
<1> SUFFICES ASSUME TypeOK, [Next]_vars PROVE TypeOK'
  OBVIOUS
<1> USE DEF TypeOK, Keys
<1>1. ASSUME NEW w \in Writers, WriterInsert(w) PROVE TypeOK'
  BY <1>1 DEF WriterInsert, Insert, connVars
<1>2. ASSUME NEW w \in Writers, Writing(w) PROVE TypeOK'
  <2>1. CASE WriterMark(w)
    <3>1. marker' \in BOOLEAN
      BY <2>1, Zenon DEF WriterMark
    <3>2. writerPc' \in [Writers -> {"idle", "inserted", "marked"}]
      BY <2>1 DEF WriterMark
    <3> QED
      BY <2>1, <3>1, <3>2 DEF WriterMark, connVars
  <2>2. CASE WriterWake(w)
    BY <2>2 DEF WriterWake, connVars
  <2> QED
    BY <1>2, <2>1, <2>2 DEF Writing
<1>3. CASE HandleCast
  BY <1>3 DEF HandleCast
<1>4. CASE HandleAnnounce
  BY <1>4 DEF HandleAnnounce
<1>5. ASSUME NEW k \in Keys, AnnounceInsert(k) PROVE TypeOK'
  BY <1>5 DEF AnnounceInsert, Insert
<1>6. ASSUME NEW k \in Keys, Select(k) PROVE TypeOK'
  BY <1>6 DEF Select
<1>7. ASSUME NEW k \in Keys, Take(k) PROVE TypeOK'
  BY <1>7 DEF Take
<1>8. CASE AnnounceMark \/ AnnounceWake \/ AnnounceDone
  <2>1. CASE AnnounceMark
    <3>1. marker' \in BOOLEAN
      BY <2>1, Zenon DEF AnnounceMark
    <3> QED
      BY <2>1, <3>1 DEF AnnounceMark
  <2>2. CASE AnnounceWake \/ AnnounceDone
    BY <2>2 DEF AnnounceWake, AnnounceDone
  <2> QED
    BY <1>8, <2>1, <2>2
<1>9. CASE ClearMarker \/ SelectDone
  BY <1>9 DEF ClearMarker, SelectDone
<1>10. CASE Send
  BY <1>10 DEF Send
<1>11. CASE SendFails
  BY <1>11 DEF SendFails, Dropped
<1>12. CASE Disconnect \/ FinishSynchronization
  BY <1>12 DEF Disconnect, FinishSynchronization
<1>13. CASE Restart
  <2>1. marker' \in BOOLEAN
    BY <1>13, Zenon DEF Restart
  <2>2. writerPc' \in [Writers -> {"idle", "inserted", "marked"}]
    BY <1>13 DEF Restart
  <2>3. poked' \subseteq Writers
    BY <1>13 DEF Restart
  <2>4. lost' \subseteq Keys
    BY <1>13 DEF Restart, Dropped
  <2> QED
    BY <1>13, <2>1, <2>2, <2>3, <2>4 DEF Restart
<1>14. CASE UNCHANGED vars
  BY <1>14 DEF vars
<1> QED
  BY <1>1, <1>2, <1>3, <1>4, <1>5, <1>6, <1>7, <1>8, <1>9, <1>10, <1>11,
     <1>12, <1>13, <1>14 DEF Next, Connection

\* Every step keeps the wakeup row accounted for, and every report in the
\* table on its way to a drain.
LEMMA WakeupPreserved == WakeupInv /\ [Next]_vars => MarkerMeansDrain' /\ NoLostWakeup'
<1> SUFFICES ASSUME WakeupInv, [Next]_vars
             PROVE  MarkerMeansDrain' /\ NoLostWakeup'
  OBVIOUS
<1> USE DEF WakeupInv, TypeOK, Keys, MarkerMeansDrain, NoLostWakeup,
            DrainComing, DrainTakes
<1>1. ASSUME NEW w \in Writers, WriterInsert(w)
      PROVE  MarkerMeansDrain' /\ NoLostWakeup'
  BY <1>1 DEF WriterInsert, Insert, connVars
<1>2. ASSUME NEW w \in Writers, WriterMark(w)
      PROVE  MarkerMeansDrain' /\ NoLostWakeup'
  BY <1>2 DEF WriterMark, connVars
<1>3. ASSUME NEW w \in Writers, WriterWake(w)
      PROVE  MarkerMeansDrain' /\ NoLostWakeup'
  BY <1>3 DEF WriterWake, connVars
<1>4. CASE HandleCast
  BY <1>4 DEF HandleCast
<1>5. CASE HandleAnnounce
  BY <1>5 DEF HandleAnnounce
<1>6. ASSUME NEW k \in Keys, AnnounceInsert(k)
      PROVE  MarkerMeansDrain' /\ NoLostWakeup'
  BY <1>6 DEF AnnounceInsert, Insert
<1>7. CASE AnnounceMark \/ AnnounceWake \/ AnnounceDone
  BY <1>7 DEF AnnounceMark, AnnounceWake, AnnounceDone
<1>8. CASE ClearMarker
  BY <1>8 DEF ClearMarker
<1>9. ASSUME NEW k \in Keys, Select(k)
      PROVE  MarkerMeansDrain' /\ NoLostWakeup'
  BY <1>9 DEF Select
<1>10. CASE SelectDone
  BY <1>10 DEF SelectDone
<1>11. ASSUME NEW k \in Keys, Take(k)
       PROVE  MarkerMeansDrain' /\ NoLostWakeup'
  BY <1>11 DEF Take
<1>12. CASE Send
  BY <1>12 DEF Send
<1>13. CASE SendFails \/ Disconnect \/ FinishSynchronization
  BY <1>13 DEF SendFails, Disconnect, FinishSynchronization
<1>14. CASE Restart
  BY <1>14 DEF Restart
<1>15. CASE UNCHANGED vars
  BY <1>15 DEF vars
<1> QED
  BY <1>1, <1>2, <1>3, <1>4, <1>5, <1>6, <1>7, <1>8, <1>9, <1>10, <1>11,
     <1>12, <1>13, <1>14, <1>15 DEF Next, Connection, Writing

\* The table starts empty, on a link that is down.
LEMMA WakeupStart == Init => WakeupInv
<1> SUFFICES ASSUME Init PROVE WakeupInv
  OBVIOUS
<1>1. marker \in BOOLEAN
  BY Zenon DEF Init
<1>2. TypeOK
  BY <1>1 DEF Init, TypeOK, Keys
<1>3. MarkerMeansDrain /\ NoLostWakeup
  BY DEF Init, MarkerMeansDrain, NoLostWakeup, DrainComing, Keys
<1> QED
  BY <1>2, <1>3 DEF WakeupInv

-----------------------------------------------------------------------------
\* Every variable keeps its type, whatever is lost: the counters of casts and
\* announcements never go below zero.
THEOREM TypeTheorem == Spec => []TypeOK
<1>1. Init => TypeOK
  BY WakeupStart DEF WakeupInv
<1> QED
  BY <1>1, TypePreserved, PTL DEF Spec

\* outbox.ex:10-13: whatever the number of controllers and of report keys,
\* no interleaving of put/1 and drain/0 leaves a report behind on a ready link.
THEOREM NoLostWakeupTheorem == Spec => []NoLostWakeup
<1>1. WakeupInv /\ [Next]_vars => WakeupInv'
  BY TypePreserved, WakeupPreserved DEF WakeupInv
<1>2. WakeupInv => NoLostWakeup
  BY DEF WakeupInv
<1> QED
  BY <1>1, <1>2, WakeupStart, PTL DEF Spec

-----------------------------------------------------------------------------
\* The versions of one key: the table holds the newest one or none, a report
\* that waits is newer than every report before it, and the drain takes a key
\* once.
VersionsInOrder ==
  \A k \in Keys :
    /\ table[k] \in {0, version[k]}
    /\ batch[k] <= version[k] /\ sent[k] <= version[k]
    /\ table[k] > 0 => batch[k] < table[k] /\ sent[k] < table[k]
    /\ batch[k] > 0 => sent[k] < batch[k] /\ connPc = "take" /\ k \notin found

NewestInv == TypeOK /\ VersionsInOrder /\ NewestReportKept

\* put/1 writes a version newer than every one before it.
LEMMA InsertNewest ==
  ASSUME NewestInv, NEW k \in Keys, Insert(k), UNCHANGED <<batch, sent>>,
         found' \subseteq found, connPc = "take" => connPc' = "take"
  PROVE  VersionsInOrder' /\ NewestReportKept'
BY DEF NewestInv, TypeOK, VersionsInOrder, NewestReportKept, Insert, Keys

\* Every step keeps the versions in order and the newest one accounted for.
LEMMA NewestPreserved ==
  NewestInv /\ [Next]_vars => VersionsInOrder' /\ NewestReportKept'
<1> SUFFICES ASSUME NewestInv, [Next]_vars
             PROVE  VersionsInOrder' /\ NewestReportKept'
  OBVIOUS
<1> USE DEF NewestInv, TypeOK, VersionsInOrder, NewestReportKept
<1>1. ASSUME NEW w \in Writers, WriterInsert(w)
      PROVE  VersionsInOrder' /\ NewestReportKept'
  <2>1. w \in Keys
    BY DEF Keys
  <2> QED
    BY <1>1, <2>1, InsertNewest DEF WriterInsert, connVars
<1>2. ASSUME NEW k \in Keys, AnnounceInsert(k)
      PROVE  VersionsInOrder' /\ NewestReportKept'
  BY <1>2, InsertNewest DEF AnnounceInsert
<1>3. ASSUME NEW w \in Writers, Writing(w)
      PROVE  VersionsInOrder' /\ NewestReportKept'
  BY <1>3 DEF Writing, WriterMark, WriterWake, connVars
<1>4. CASE HandleCast \/ HandleAnnounce \/ AnnounceMark \/ AnnounceWake
           \/ AnnounceDone
  BY <1>4 DEF HandleCast, HandleAnnounce, AnnounceMark, AnnounceWake,
              AnnounceDone
<1>5. CASE ClearMarker \/ SelectDone
  BY <1>5 DEF ClearMarker, SelectDone
<1>6. ASSUME NEW k \in Keys, Select(k)
      PROVE  VersionsInOrder' /\ NewestReportKept'
  BY <1>6 DEF Select
<1>7. ASSUME NEW k \in Keys, Take(k)
      PROVE  VersionsInOrder' /\ NewestReportKept'
  BY <1>7 DEF Take
<1>8. CASE Send
  BY <1>8 DEF Send
<1>9. CASE SendFails
  BY <1>9 DEF SendFails, Dropped
<1>10. CASE Disconnect \/ FinishSynchronization
  BY <1>10 DEF Disconnect, FinishSynchronization
<1>11. CASE Restart
  BY <1>11 DEF Restart, Dropped
<1>12. CASE UNCHANGED vars
  BY <1>12 DEF vars
<1> QED
  BY <1>1, <1>2, <1>3, <1>4, <1>5, <1>6, <1>7, <1>8, <1>9, <1>10, <1>11,
     <1>12 DEF Next, Connection

\* outbox.ex:5-8: whatever the controllers, the faults and their order, the
\* newest report under a key is in the table, in the drain's hands or sent,
\* unless a lost link took it.
THEOREM NewestReportTheorem == Spec => []NewestReportKept
<1>1. Init => NewestInv
  <2>1. ASSUME Init PROVE VersionsInOrder /\ NewestReportKept
    BY <2>1 DEF Init, VersionsInOrder, NewestReportKept
  <2> QED
    BY <2>1, WakeupStart DEF NewestInv, WakeupInv
<1>2. NewestInv /\ [Next]_vars => NewestInv'
  BY TypePreserved, NewestPreserved DEF NewestInv
<1>3. NewestInv => NewestReportKept
  BY DEF NewestInv
<1> QED
  BY <1>1, <1>2, <1>3, PTL DEF Spec
=============================================================================
