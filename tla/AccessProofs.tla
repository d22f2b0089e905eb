---------------------------- MODULE AccessProofs ----------------------------
(***************************************************************************)
(* The safety of access for any number of owners, streams, connections and *)
(* revisions, in three steps.                                              *)
(*                                                                         *)
(* ClosingInv: an owner that a withdrawal must reach is registered under   *)
(* both keys from before its read until it leaves (Found), and no snapshot *)
(* is ahead of the policy (Current).  NoForgottenClose needs no more; the  *)
(* queues and the node play no part in it.                                 *)
(*                                                                         *)
(* LinkInv: the node answers over the registered connection only           *)
(* (OneLink), a revision is never ahead of where it came from (Behind),    *)
(* and the node's children are of the revision of its group (GroupInv).    *)
(* So what the server stored is at most the group's revision, and          *)
(* EnforcedMeansClosed and SkippedOwnersEnd follow.                        *)
(*                                                                         *)
(* Listens: what the connection reads before a stale answer is of an       *)
(* earlier revision, so an owner that waits after that answer has not      *)
(* missed the application it waits for: WaitingIsWoken.                    *)
(***************************************************************************)
EXTENDS Access, SequenceTheorems, TLAPS

USE DEF accessVars, policy, requests, ownerVars, linkVars

\* What is left of the effects of a withdrawal.
Effects == [stage : {"none", "owners", "closing"}, found : SUBSET Owners]

\* The types of what the owners and the requests work on.
ClosingTypeOK ==
  /\ revision \in Nat /\ lost \in Nat
  /\ proof \in [Owners -> {"valid", "expired", "revoked"}]
  /\ effect \in [Revisions -> Effects]
  /\ revoking \in [Owners -> {"none", "owners", "closing"}]
  /\ pc \in [Owners -> {"idle", "register", "check"} \cup Admitting]
  /\ keys \in [Owners -> SUBSET {"biot", "proof"}]
  /\ snap \in [Owners -> Nat]
  /\ DOMAIN held = Owners

\* Admission.admit/3 registers before it reads and unregisters last.
Found(o) == pc[o] \in {"check"} \cup Admitting => keys[o] = {"biot", "proof"}

\* A snapshot is of a revision that was committed.
Current(o) == snap[o] <= revision

\* What NoForgottenClose says of one owner.
Remembered(o) ==
  lost = 0 /\ pc[o] \in Admitting /\ o \notin closeIn
    => /\ snap[o] < revision => CloseComes(o)
       /\ proof[o] = "revoked" => revoking[o] # "none"

ClosingInv ==
  ClosingTypeOK /\ \A o \in Owners : Found(o) /\ Current(o) /\ Remembered(o)

-----------------------------------------------------------------------------
\* Every step keeps the types.
LEMMA ClosingTypeStep ==
  ASSUME ClosingTypeOK, [AccessNext]_accessVars
  PROVE  ClosingTypeOK'
<1> USE AccessConstants DEF ClosingTypeOK, Admitting
<1>a. NoEffect \in Effects /\ [stage |-> "owners", found |-> {}] \in Effects
  BY DEF Effects, NoEffect
<1>1. CASE RequestDies
  <2>1. CASE revoking' = revoking
    BY <1>1, <2>1, <1>a DEF RequestDies
  <2>2. CASE effect' = effect
    BY <1>1, <2>2 DEF RequestDies
  <2> QED
    BY <1>1, <2>1, <2>2 DEF RequestDies
<1>2. CASE ServerLosesLink
  BY <1>2 DEF ServerLosesLink
<1>3. CASE NodeLosesLink
  BY <1>3 DEF NodeLosesLink, NodeDisconnect
<1>4. CASE Sweep
  BY <1>4 DEF Sweep
<1>5. CASE HandleHello
  BY <1>5 DEF HandleHello
<1>6. CASE HelloCloses
  BY <1>6 DEF HelloCloses
<1>7. CASE SendSnapshot
  BY <1>7 DEF SendSnapshot
<1>8. CASE HandleWake
  BY <1>8 DEF HandleWake
<1>9. CASE SendBehind
  BY <1>9 DEF SendBehind
<1>10. CASE HandleSynchronized
  BY <1>10 DEF HandleSynchronized
<1>11. CASE HandleApplied
  BY <1>11 DEF HandleApplied
<1>12. CASE HandleStreamFailed
  BY <1>12 DEF HandleStreamFailed, Leave
<1>13. CASE Dial
  BY <1>13 DEF Dial
<1>14. CASE HandleSnapshot
  BY <1>14 DEF HandleSnapshot
<1>15. CASE ApplyRevision
  BY <1>15 DEF ApplyRevision
<1>16. CASE AdmitStream
  BY <1>16 DEF AdmitStream
<1>17. CASE NodeSeesClosed
  BY <1>17 DEF NodeSeesClosed, NodeDisconnect
<1>18. ASSUME NEW os \in SUBSET Owners, Withdraw(os) PROVE ClosingTypeOK'
  <2>1. effect' \in [Revisions -> Effects]
    BY <1>18, <1>a DEF Withdraw
  <2> QED
    BY <1>18, <2>1 DEF Withdraw
<1>19. ASSUME NEW r \in Revisions, FindOwners(r) PROVE ClosingTypeOK'
  BY <1>19 DEF FindOwners, Effects, RegisteredUnder
<1>20. ASSUME NEW r \in Revisions, CloseFound(r) PROVE ClosingTypeOK'
  BY <1>20 DEF CloseFound, Effects
<1>21. ASSUME NEW r \in Revisions, WakeNode(r) PROVE ClosingTypeOK'
  BY <1>21 DEF WakeNode, NoEffect, Effects
<1>22. ASSUME NEW p \in Owners, CloseProof(p) PROVE ClosingTypeOK'
  BY <1>22 DEF CloseProof
<1>23. ASSUME NEW p \in Owners, CloseWithdrawn(p) PROVE ClosingTypeOK'
  BY <1>23 DEF CloseWithdrawn
<1>24. ASSUME NEW p \in Owners, Grant(p) PROVE ClosingTypeOK'
  BY <1>24 DEF Grant
<1>25. ASSUME NEW p \in Owners, RevokeProof(p) PROVE ClosingTypeOK'
  BY <1>25 DEF RevokeProof
<1>26. ASSUME NEW p \in Owners, ProofExpires(p) PROVE ClosingTypeOK'
  BY <1>26 DEF ProofExpires
<1>27. ASSUME NEW p \in Owners, SweepProofs(p) PROVE ClosingTypeOK'
  BY <1>27 DEF SweepProofs
<1>28. ASSUME NEW p \in Owners, Admit(p) PROVE ClosingTypeOK'
  BY <1>28 DEF Admit
<1>29. ASSUME NEW p \in Owners, OpenFails(p) PROVE ClosingTypeOK'
  BY <1>29 DEF OpenFails, Leave
<1>30. ASSUME NEW p \in Owners, OwnerCloses(p) PROVE ClosingTypeOK'
  BY <1>30 DEF OwnerCloses, Leave
<1>31. ASSUME NEW p \in Owners, Register(p) PROVE ClosingTypeOK'
  BY <1>31 DEF Register
<1>32. ASSUME NEW p \in Owners, Denied(p) PROVE ClosingTypeOK'
  BY <1>32 DEF Denied, Leave
<1>33. ASSUME NEW p \in Owners, ReadSnapshot(p) PROVE ClosingTypeOK'
  BY <1>33 DEF ReadSnapshot, Leave, Permitted
<1>34. ASSUME NEW p \in Owners, NoClose(p) PROVE ClosingTypeOK'
  BY <1>34 DEF NoClose
<1>35. ASSUME NEW p \in Owners, OpenStream(p) PROVE ClosingTypeOK'
  BY <1>35 DEF OpenStream, Leave
<1>36. ASSUME NEW p \in Owners, WaitForApplied(p) PROVE ClosingTypeOK'
  BY <1>36 DEF WaitForApplied
<1>37. ASSUME NEW p \in Owners, Retry(p) PROVE ClosingTypeOK'
  BY <1>37 DEF Retry
<1>38. ASSUME NEW p \in Owners, MarkAdmitted(p) PROVE ClosingTypeOK'
  BY <1>38 DEF MarkAdmitted, Leave
<1>39. ASSUME NEW p \in Owners, HandleOwnerMessage(p) PROVE ClosingTypeOK'
  BY <1>39 DEF HandleOwnerMessage, Leave
<1>40. ASSUME NEW p \in Owners, StreamEnds(p) PROVE ClosingTypeOK'
  BY <1>40 DEF StreamEnds, Leave
<1>41. ASSUME NEW i \in 1..MaxStreams, KidAttaches(i) PROVE ClosingTypeOK'
  BY <1>41 DEF KidAttaches
<1>42. ASSUME NEW i \in 1..MaxStreams, KidFails(i) PROVE ClosingTypeOK'
  BY <1>42 DEF KidFails
<1>43. ASSUME NEW i \in 1..MaxStreams, KidEnds(i) PROVE ClosingTypeOK'
  BY <1>43 DEF KidEnds
<1>44. CASE UNCHANGED accessVars
  BY <1>44
<1>45. CASE RequestStep
  BY <1>45, <1>19, <1>20, <1>21, <1>22 DEF RequestStep
<1>46. ASSUME NEW p \in Owners, OwnerStep(p) PROVE ClosingTypeOK'
  BY <1>46, <1>31, <1>32, <1>33, <1>34, <1>35, <1>36, <1>37, <1>38, <1>39, <1>40 DEF OwnerStep
<1>47. CASE ConnectionStep
  BY <1>47, <1>5, <1>6, <1>7, <1>8, <1>9, <1>10, <1>11, <1>12, <1>23 DEF ConnectionStep
<1>48. CASE NodeStep
  BY <1>48, <1>13, <1>14, <1>15, <1>16, <1>17 DEF NodeStep
<1> QED
  BY <1>45, <1>47, <1>48, <1>4, <1>1, <1>2, <1>3, <1>18, <1>24, <1>25, <1>26, <1>27, <1>28,
     <1>46, <1>29, <1>30, <1>41, <1>42, <1>43, <1>44 DEF AccessNext

\* Every step leaves every owner registered, with a committed snapshot, and
\* with the closes it needs.
LEMMA ClosingStep ==
  ASSUME ClosingInv, [AccessNext]_accessVars, NEW o \in Owners
  PROVE  (Found(o) /\ Current(o) /\ Remembered(o))'
<1> ClosingTypeOK /\ Found(o) /\ Current(o) /\ Remembered(o)
  BY DEF ClosingInv
<1> USE AccessConstants DEF ClosingTypeOK, Found, Current, Remembered, CloseComes, Revisions, Admitting,
            Effects
<1>1. CASE RequestDies
  BY <1>1 DEF RequestDies, NoEffect
<1>2. CASE ServerLosesLink
  BY <1>2 DEF ServerLosesLink
<1>3. CASE NodeLosesLink
  BY <1>3 DEF NodeLosesLink, NodeDisconnect
<1>4. CASE Sweep
  BY <1>4 DEF Sweep
<1>5. CASE HandleHello
  BY <1>5 DEF HandleHello
<1>6. CASE HelloCloses
  BY <1>6 DEF HelloCloses
<1>7. CASE SendSnapshot
  BY <1>7 DEF SendSnapshot
<1>8. CASE HandleWake
  BY <1>8 DEF HandleWake
<1>9. CASE SendBehind
  BY <1>9 DEF SendBehind
<1>10. CASE HandleSynchronized
  BY <1>10 DEF HandleSynchronized
<1>11. CASE HandleApplied
  BY <1>11 DEF HandleApplied
<1>12. CASE HandleStreamFailed
  BY <1>12 DEF HandleStreamFailed, Leave
<1>13. CASE Dial
  BY <1>13 DEF Dial
<1>14. CASE HandleSnapshot
  BY <1>14 DEF HandleSnapshot
<1>15. CASE ApplyRevision
  BY <1>15 DEF ApplyRevision
<1>16. CASE AdmitStream
  BY <1>16 DEF AdmitStream
<1>17. CASE NodeSeesClosed
  BY <1>17 DEF NodeSeesClosed, NodeDisconnect
<1>18. ASSUME NEW os \in SUBSET Owners, Withdraw(os) PROVE (Found(o) /\ Current(o) /\ Remembered(o))'
  BY <1>18 DEF Withdraw
<1>19. ASSUME NEW r \in Revisions, FindOwners(r) PROVE (Found(o) /\ Current(o) /\ Remembered(o))'
  BY <1>19 DEF FindOwners, Effects, RegisteredUnder
<1>20. ASSUME NEW r \in Revisions, CloseFound(r) PROVE (Found(o) /\ Current(o) /\ Remembered(o))'
  BY <1>20 DEF CloseFound, Effects
<1>21. ASSUME NEW r \in Revisions, WakeNode(r) PROVE (Found(o) /\ Current(o) /\ Remembered(o))'
  BY <1>21 DEF WakeNode, NoEffect, Effects
<1>22. ASSUME NEW p \in Owners, CloseProof(p) PROVE (Found(o) /\ Current(o) /\ Remembered(o))'
  BY <1>22 DEF CloseProof
<1>23. ASSUME NEW p \in Owners, CloseWithdrawn(p) PROVE (Found(o) /\ Current(o) /\ Remembered(o))'
  BY <1>23 DEF CloseWithdrawn
<1>24. ASSUME NEW p \in Owners, Grant(p) PROVE (Found(o) /\ Current(o) /\ Remembered(o))'
  BY <1>24 DEF Grant
<1>25. ASSUME NEW p \in Owners, RevokeProof(p) PROVE (Found(o) /\ Current(o) /\ Remembered(o))'
  BY <1>25 DEF RevokeProof
<1>26. ASSUME NEW p \in Owners, ProofExpires(p) PROVE (Found(o) /\ Current(o) /\ Remembered(o))'
  BY <1>26 DEF ProofExpires
<1>27. ASSUME NEW p \in Owners, SweepProofs(p) PROVE (Found(o) /\ Current(o) /\ Remembered(o))'
  BY <1>27 DEF SweepProofs
<1>28. ASSUME NEW p \in Owners, Admit(p) PROVE (Found(o) /\ Current(o) /\ Remembered(o))'
  BY <1>28 DEF Admit
<1>29. ASSUME NEW p \in Owners, OpenFails(p) PROVE (Found(o) /\ Current(o) /\ Remembered(o))'
  BY <1>29 DEF OpenFails, Leave
<1>30. ASSUME NEW p \in Owners, OwnerCloses(p) PROVE (Found(o) /\ Current(o) /\ Remembered(o))'
  BY <1>30 DEF OwnerCloses, Leave
<1>31. ASSUME NEW p \in Owners, Register(p) PROVE (Found(o) /\ Current(o) /\ Remembered(o))'
  BY <1>31 DEF Register
<1>32. ASSUME NEW p \in Owners, Denied(p) PROVE (Found(o) /\ Current(o) /\ Remembered(o))'
  BY <1>32 DEF Denied, Leave
<1>33. ASSUME NEW p \in Owners, ReadSnapshot(p) PROVE (Found(o) /\ Current(o) /\ Remembered(o))'
  BY <1>33 DEF ReadSnapshot, Leave, Permitted
<1>34. ASSUME NEW p \in Owners, NoClose(p) PROVE (Found(o) /\ Current(o) /\ Remembered(o))'
  BY <1>34 DEF NoClose
<1>35. ASSUME NEW p \in Owners, OpenStream(p) PROVE (Found(o) /\ Current(o) /\ Remembered(o))'
  BY <1>35 DEF OpenStream, Leave
<1>36. ASSUME NEW p \in Owners, WaitForApplied(p) PROVE (Found(o) /\ Current(o) /\ Remembered(o))'
  BY <1>36 DEF WaitForApplied
<1>37. ASSUME NEW p \in Owners, Retry(p) PROVE (Found(o) /\ Current(o) /\ Remembered(o))'
  BY <1>37 DEF Retry
<1>38. ASSUME NEW p \in Owners, MarkAdmitted(p) PROVE (Found(o) /\ Current(o) /\ Remembered(o))'
  BY <1>38 DEF MarkAdmitted, Leave
<1>39. ASSUME NEW p \in Owners, HandleOwnerMessage(p) PROVE (Found(o) /\ Current(o) /\ Remembered(o))'
  BY <1>39 DEF HandleOwnerMessage, Leave
<1>40. ASSUME NEW p \in Owners, StreamEnds(p) PROVE (Found(o) /\ Current(o) /\ Remembered(o))'
  BY <1>40 DEF StreamEnds, Leave
<1>41. ASSUME NEW i \in 1..MaxStreams, KidAttaches(i) PROVE (Found(o) /\ Current(o) /\ Remembered(o))'
  BY <1>41 DEF KidAttaches
<1>42. ASSUME NEW i \in 1..MaxStreams, KidFails(i) PROVE (Found(o) /\ Current(o) /\ Remembered(o))'
  BY <1>42 DEF KidFails
<1>43. ASSUME NEW i \in 1..MaxStreams, KidEnds(i) PROVE (Found(o) /\ Current(o) /\ Remembered(o))'
  BY <1>43 DEF KidEnds
<1>44. CASE UNCHANGED accessVars
  BY <1>44
<1>45. CASE RequestStep
  BY <1>45, <1>19, <1>20, <1>21, <1>22 DEF RequestStep
<1>46. ASSUME NEW p \in Owners, OwnerStep(p) PROVE (Found(o) /\ Current(o) /\ Remembered(o))'
  BY <1>46, <1>31, <1>32, <1>33, <1>34, <1>35, <1>36, <1>37, <1>38, <1>39, <1>40 DEF OwnerStep
<1>47. CASE ConnectionStep
  BY <1>47, <1>5, <1>6, <1>7, <1>8, <1>9, <1>10, <1>11, <1>12, <1>23 DEF ConnectionStep
<1>48. CASE NodeStep
  BY <1>48, <1>13, <1>14, <1>15, <1>16, <1>17 DEF NodeStep
<1> QED
  BY <1>45, <1>47, <1>48, <1>4, <1>1, <1>2, <1>3, <1>18, <1>24, <1>25, <1>26, <1>27, <1>28,
     <1>46, <1>29, <1>30, <1>41, <1>42, <1>43, <1>44 DEF AccessNext

\* The invariant holds from the start on.
THEOREM ClosingInvariant == AccessSpec => []ClosingInv
<1>1. AccessInit => ClosingInv
  BY AccessConstants
     DEF AccessInit, ClosingInv, ClosingTypeOK, Found, Current, Remembered, Admitting, Revisions,
         NoEffect, Effects
<1>2. ClosingInv /\ [AccessNext]_accessVars => ClosingInv'
  BY ClosingTypeStep, ClosingStep DEF ClosingInv
<1> QED
  BY <1>1, <1>2, PTL DEF AccessSpec

\* NoForgottenClose: withdrawn access has its close on the way to the owner, for
\* any number of owners and withdrawals.
THEOREM NoForgottenCloseTheorem == AccessSpec => []NoForgottenClose
<1>1. ClosingInv => NoForgottenClose
  BY DEF ClosingInv, Remembered, NoForgottenClose
<1> QED
  BY <1>1, ClosingInvariant, PTL

-----------------------------------------------------------------------------
(* The revision on its way to the node and back.                           *)

Streams == [owner : Owners, revision : Nat, conn : Nat,
            kid : {"asked", "connecting", "relaying", "gone"}]
Orders == [type : {"snapshot", "desired"}, revision : Nat]
Opens == [type : {"open"}, id : Nat, revision : Nat]
Answers == [type : {"applied"}, revision : Nat] \cup [type : {"synchronized"}]
             \cup [type : {"failed"}, id : Nat, reason : {"stale_access", "too_many_streams", "agent_unreachable"}]

LinkTypeOK ==
  /\ made \in Nat
  /\ applied \in [conn : Nat, revision : Nat] /\ group \in [conn : Nat, revision : Nat]
  /\ server \in [conn : Nat, found : SUBSET Owners,
                 phase : {"none", "hello", "snapshot", "synchronizing", "ready", "sweeping"}]
  /\ node \in [conn : Nat, ready : BOOLEAN]
  /\ hello \in BOOLEAN
  /\ down \in Seq(Orders \cup Opens) /\ up \in Seq(Answers)
  /\ stream \in Seq(Streams)

\* One connection at a time: a hello is of a connection the server has not seen, and the node
\* becomes ready, and answers, only over the connection that is registered.
OneLink ==
  /\ node.conn \in {0, made} /\ server.conn <= made /\ applied.conn <= made
  /\ server.phase # "none" <=> server.conn # 0
  /\ node.conn = 0 => ~hello
  /\ hello => server.conn < made /\ applied.conn < made
  /\ down # <<>> \/ node.ready => node.conn # 0 /\ ~hello /\ server.conn \in {0, node.conn}
  /\ server.conn = 0 \/ (node.conn = server.conn /\ ~node.ready) => up = <<>>
  /\ node.conn = server.conn /\ server.phase \in {"hello", "snapshot"} => down = <<>> /\ ~node.ready
  /\ \A i \in DOMAIN down : down[i].type = "snapshot" => i = 1 /\ ~node.ready
  /\ applied.conn = 0 => applied.revision = 0

\* No revision is ahead of where it came from.
Behind ==
  /\ revision >= 1
  /\ applied.revision <= revision /\ group.revision <= revision
  /\ \A i \in DOMAIN down : down[i].type \in {"snapshot", "desired"} => down[i].revision <= revision
  /\ \A i \in DOMAIN up : up[i].type = "applied" => up[i].revision <= revision
  /\ node.ready /\ node.conn = server.conn =>
       /\ applied.revision <= group.revision
       /\ \A i \in DOMAIN up : up[i].type = "applied" => up[i].revision <= group.revision
  /\ node.conn = server.conn =>
       \A i \in DOMAIN down : down[i].type = "snapshot" => applied.revision <= down[i].revision

\* The node's children are of the revision of its group.
GroupInv ==
  /\ \A i \in Kids : node.ready /\ stream[i].revision = group.revision
  /\ \A i \in DOMAIN down : down[i].type = "open" =>
       down[i].id \in DOMAIN stream /\ stream[down[i].id].revision = down[i].revision

\* A failure is of a stream that was asked for: the answers to the next one are still to come.
Asked == \A i \in DOMAIN up : up[i].type = "failed" => up[i].id \in DOMAIN stream

\* An owner holds the stream it asked for with its snapshot.
Holds(o) ==
  /\ pc[o] \in {"opening", "opened", "holding"} =>
       /\ held[o] \in DOMAIN stream /\ stream[held[o]].owner = o
       /\ stream[held[o]].revision = snap[o] /\ stream[held[o]].conn # 0
  /\ pc[o] \in {"opened", "holding"} => stream[held[o]].kid # "asked"

LinkInv ==
  LinkTypeOK /\ OneLink /\ Behind /\ GroupInv /\ Asked /\ \A o \in Owners : Holds(o)

\* The revision of the snapshot is still to be stored for the connection, or the owner has a change to
\* read.
ToCome(o) == o \in changedIn \/ applied.conn # server.conn \/ applied.revision < snap[o]

\* An owner that listens misses no application between its stale answer and its wait: what the
\* connection reads before that answer is of an earlier revision.
Listens(o) ==
  /\ pc[o] \in Admitting => snap[o] >= 1
  /\ pc[o] = "waiting" => o \in subscribed
  /\ pc[o] \in {"stale", "waiting"} /\ o \in subscribed /\ snap[o] = revision => ToCome(o)
  /\ pc[o] = "opening" /\ o \in subscribed /\ snap[o] = revision =>
       \A i \in DOMAIN up : up[i].type = "failed" /\ up[i].id = held[o] /\ up[i].reason = "stale_access" =>
         /\ ToCome(o)
         /\ \A j \in 1..(i - 1) : up[j].type = "applied" => up[j].revision < snap[o]

-----------------------------------------------------------------------------
(* What the messages and the streams become.                               *)

\* ToNode adds its message at the end, or nothing.
LEMMA Sends ==
  ASSUME LinkTypeOK, NEW m \in Orders \cup Opens
  PROVE  /\ ToNode(m) \in Seq(Orders \cup Opens)
         /\ node.conn # server.conn => ToNode(m) = down
         /\ \A i \in DOMAIN ToNode(m) :
              \/ i \in DOMAIN down /\ ToNode(m)[i] = down[i]
              \/ node.conn = server.conn /\ i = Len(down) + 1 /\ ToNode(m)[i] = m
<1> DEFINE S == Orders \cup Opens
<1>1. down \in Seq(S) /\ m \in S
  BY DEF LinkTypeOK
<1> HIDE DEF S
<1>2. /\ Append(down, m) \in Seq(S)
      /\ \A i \in DOMAIN Append(down, m) :
           \/ i \in DOMAIN down /\ Append(down, m)[i] = down[i]
           \/ i = Len(down) + 1 /\ Append(down, m)[i] = m
  BY <1>1
<1>3. /\ ToNode(m) \in Seq(S)
      /\ node.conn # server.conn => ToNode(m) = down
      /\ \A i \in DOMAIN ToNode(m) :
           \/ i \in DOMAIN down /\ ToNode(m)[i] = down[i]
           \/ node.conn = server.conn /\ i = Len(down) + 1 /\ ToNode(m)[i] = m
  BY <1>1, <1>2 DEF ToNode
<1> QED
  BY <1>3 DEF S

\* ToServer adds its messages at the end, in their order, or nothing.
LEMMA Answered ==
  ASSUME LinkTypeOK, NEW ms \in Seq(Answers)
  PROVE  /\ ToServer(ms) \in Seq(Answers)
         /\ node.conn # server.conn => ToServer(ms) = up
         /\ \A i \in DOMAIN ToServer(ms) :
              \/ i \in DOMAIN up /\ ToServer(ms)[i] = up[i]
              \/ /\ node.conn = server.conn /\ i > Len(up)
                 /\ i - Len(up) \in DOMAIN ms /\ ToServer(ms)[i] = ms[i - Len(up)]
<1>1. /\ up \o ms \in Seq(Answers) /\ Len(up \o ms) = Len(up) + Len(ms)
      /\ \A i \in 1..(Len(up) + Len(ms)) : (up \o ms)[i] = IF i <= Len(up) THEN up[i] ELSE ms[i - Len(up)]
  BY ConcatProperties DEF LinkTypeOK
<1> QED
  BY <1>1 DEF LinkTypeOK, ToServer

\* A mailbox is read from its head.
LEMMA ReadsHead ==
  ASSUME NEW S, NEW q \in Seq(S), q # <<>>
  PROVE  /\ Tail(q) \in Seq(S) /\ Head(q) \in S /\ 1 \in DOMAIN q /\ Head(q) = q[1]
         /\ \A i \in DOMAIN Tail(q) : i + 1 \in DOMAIN q /\ Tail(q)[i] = q[i + 1]
BY HeadTailProperties

\* `s` has the streams of the state, perhaps at another stage on the node.
Same(s) ==
  /\ s \in Seq(Streams) /\ DOMAIN s = DOMAIN stream
  /\ \A i \in DOMAIN s : /\ s[i].owner = stream[i].owner /\ s[i].revision = stream[i].revision
                        /\ s[i].conn = stream[i].conn

\* Terminating children ends them, and changes nothing else.
LEMMA Ends ==
  ASSUME LinkTypeOK, NEW is
  PROVE  /\ Same(Terminated(is))
         /\ \A i \in DOMAIN stream : Terminated(is)[i].kid = IF i \in is THEN "gone" ELSE stream[i].kid
<1>1. DOMAIN stream = 1..Len(stream) /\ Len(stream) \in Nat
  BY DEF LinkTypeOK
<1>2. \A i \in DOMAIN stream : Terminated(is)[i] = IF i \in is THEN [stream[i] EXCEPT !.kid = "gone"] ELSE stream[i]
  BY DEF Terminated
<1>3. \A i \in DOMAIN stream : stream[i] \in Streams
  BY DEF LinkTypeOK
<1>4. \A i \in DOMAIN stream : Terminated(is)[i] \in Streams
  BY <1>2, <1>3 DEF Streams
<1>5. Terminated(is) \in Seq(Streams) /\ DOMAIN Terminated(is) = DOMAIN stream
  BY <1>1, <1>4 DEF Terminated
<1> QED
  BY <1>2, <1>3, <1>5 DEF Same, Streams

\* So does a single change of stage.
LEMMA Turns ==
  ASSUME LinkTypeOK, NEW i \in DOMAIN stream, NEW k \in {"asked", "connecting", "relaying", "gone"}
  PROVE  /\ Same([stream EXCEPT ![i].kid = k])
         /\ \A j \in DOMAIN stream : [stream EXCEPT ![i].kid = k][j].kid = IF j = i THEN k ELSE stream[j].kid
<1>1. stream[i] \in Streams
  BY DEF LinkTypeOK
<1>2. i \in 1..Len(stream) /\ DOMAIN stream = 1..Len(stream) /\ stream \in Seq(Streams)
  BY DEF LinkTypeOK
<1> DEFINE e == [stream[i] EXCEPT !.kid = k]
<1>3. e \in Streams
  BY <1>1 DEF Streams
<1>4. e.owner = stream[i].owner /\ e.revision = stream[i].revision /\ e.conn = stream[i].conn /\ e.kid = k
  BY <1>1 DEF Streams
<1> HIDE DEF e
<1>5. /\ [stream EXCEPT ![i] = e] \in Seq(Streams)
      /\ Len([stream EXCEPT ![i] = e]) = Len(stream)
      /\ \A j \in 1..Len(stream) : [stream EXCEPT ![i] = e][j] = IF j = i THEN e ELSE stream[j]
  BY <1>2, <1>3, ExceptSeq
<1>6. /\ Same([stream EXCEPT ![i] = e])
      /\ \A j \in DOMAIN stream : [stream EXCEPT ![i] = e][j].kid = IF j = i THEN k ELSE stream[j].kid
  BY <1>2, <1>4, <1>5 DEF Same
<1> QED
  BY <1>6 DEF e

-----------------------------------------------------------------------------
(* What moves the link.                                                    *)

\* Requests and owners that open nothing leave the link as it is; the policy goes forward.
Quiet ==
  /\ revision' \in Nat /\ revision' >= revision
  /\ UNCHANGED <<applied, stream, made, server, node, hello, down, up, group>>

\* The steps of the two connections, of the streams, and of what opens one.
Moves ==
  \/ HandleHello \/ HelloCloses \/ SendSnapshot \/ HandleWake \/ Sweep \/ SendBehind
  \/ HandleSynchronized \/ HandleApplied \/ HandleStreamFailed \/ ServerLosesLink
  \/ Dial \/ HandleSnapshot \/ ApplyRevision \/ AdmitStream
  \/ node.conn # 0 /\ NodeDisconnect
  \/ \E o \in Owners : OpenStream(o) \/ CloseWithdrawn(o)
  \/ \E i \in 1..MaxStreams : KidAttaches(i) \/ KidFails(i) \/ KidEnds(i)

\* A step is one of these.
LEMMA QuietOrMoves ==
  ASSUME ClosingTypeOK, [AccessNext]_accessVars
  PROVE  Quiet \/ Moves
<1> USE DEF ClosingTypeOK, Quiet
<1>1. CASE RequestDies
  BY <1>1 DEF RequestDies
<1>2. CASE ServerLosesLink
  BY <1>2 DEF Moves
<1>3. CASE NodeLosesLink
  BY <1>3 DEF Moves, NodeLosesLink
<1>4. CASE Sweep
  BY <1>4 DEF Moves
<1>5. ASSUME NEW os \in SUBSET Owners, Withdraw(os) PROVE Quiet
  BY <1>5 DEF Withdraw
<1>6. CASE RequestStep
  BY <1>6 DEF RequestStep, FindOwners, CloseFound, WakeNode, CloseProof
<1>7. CASE ConnectionStep
  BY <1>7 DEF Moves, ConnectionStep
<1>8. CASE NodeStep
  BY <1>8 DEF Moves, NodeStep, NodeSeesClosed
<1>9. ASSUME NEW o \in Owners, Grant(o) \/ RevokeProof(o) \/ ProofExpires(o) \/ SweepProofs(o) \/ Admit(o)
      PROVE  Quiet
  BY <1>9 DEF Grant, RevokeProof, ProofExpires, SweepProofs, Admit
<1>10. ASSUME NEW o \in Owners, OwnerStep(o) PROVE Quiet \/ Moves
  <2>1. CASE OpenStream(o)
    BY <2>1 DEF Moves
  <2>2. CASE Register(o) \/ Denied(o) \/ ReadSnapshot(o) \/ NoClose(o)
    BY <2>2 DEF Register, Denied, ReadSnapshot, NoClose
  <2>3. CASE WaitForApplied(o) \/ Retry(o) \/ MarkAdmitted(o)
    BY <2>3 DEF WaitForApplied, Retry, MarkAdmitted
  <2>4. CASE HandleOwnerMessage(o) \/ StreamEnds(o)
    BY <2>4 DEF HandleOwnerMessage, StreamEnds
  <2> QED
    BY <1>10, <2>1, <2>2, <2>3, <2>4 DEF OwnerStep
<1>11. ASSUME NEW o \in Owners, OpenFails(o) \/ OwnerCloses(o) PROVE Quiet
  BY <1>11 DEF OpenFails, OwnerCloses
<1>12. ASSUME NEW i \in 1..MaxStreams, KidAttaches(i) \/ KidFails(i) \/ KidEnds(i) PROVE Moves
  BY <1>12 DEF Moves
<1>13. CASE UNCHANGED accessVars
  BY <1>13
<1> QED
  BY <1>1, <1>2, <1>3, <1>4, <1>5, <1>6, <1>7, <1>8, <1>9, <1>10, <1>11, <1>12, <1>13 DEF AccessNext

\* A move makes no policy.
LEMMA MovesKeepPolicy ==
  ASSUME Moves
  PROVE  revision' = revision
BY DEF Moves, HandleHello, HelloCloses, SendSnapshot, HandleWake, Sweep, SendBehind, HandleSynchronized,
       HandleApplied, HandleStreamFailed, ServerLosesLink, Dial, HandleSnapshot, ApplyRevision,
       AdmitStream, NodeDisconnect, OpenStream, CloseWithdrawn, KidAttaches, KidFails, KidEnds

-----------------------------------------------------------------------------
\* Every move keeps the types of the link.
LEMMA LinkTypeStep ==
  ASSUME ClosingTypeOK, LinkTypeOK, GroupInv, Moves
  PROVE  LinkTypeOK'
<1> revision \in Nat
  BY DEF ClosingTypeOK
<1>a. /\ \A r \in Nat : /\ [type |-> "snapshot", revision |-> r] \in Orders
                        /\ [type |-> "desired", revision |-> r] \in Orders
                        /\ Ack(r) \in Answers
      /\ [type |-> "synchronized"] \in Answers
      /\ \A i \in Nat, r \in Nat : [type |-> "open", id |-> i, revision |-> r] \in Opens
      /\ \A i \in Nat, w \in {"stale_access", "too_many_streams", "agent_unreachable"} : Failed(i, w) \in Answers
  BY DEF Orders, Opens, Answers, Ack, Failed
<1>b. \A a, b \in Answers : <<a>> \in Seq(Answers) /\ <<a, b>> \in Seq(Answers)
  OBVIOUS
<1>c. \A s : Same(s) => s \in Seq(Streams)
  BY DEF Same
<1>d. down # <<>> => /\ Tail(down) \in Seq(Orders \cup Opens) /\ Head(down) \in Orders \cup Opens
                     /\ 1 \in DOMAIN down /\ Head(down) = down[1]
  <2>1. down \in Seq(Orders \cup Opens)
    BY DEF LinkTypeOK
  <2> QED
    BY <2>1, ReadsHead
<1>e. up # <<>> => Tail(up) \in Seq(Answers) /\ Head(up) \in Answers
  BY ReadsHead DEF LinkTypeOK
<1>f. <<>> \in Seq(Answers) /\ <<>> \in Seq(Orders \cup Opens)
  OBVIOUS
<1>1. CASE HandleHello
  <2>1. server' \in [conn : Nat, found : SUBSET Owners,
                    phase : {"none", "hello", "snapshot", "synchronizing", "ready", "sweeping"}]
    BY <1>1 DEF HandleHello, LinkTypeOK
  <2> QED
    BY <1>1, <1>f, <2>1 DEF HandleHello, LinkTypeOK
<1>2. CASE HelloCloses
  BY <1>2 DEF HelloCloses, LinkTypeOK, CloseWithdrawnOwners, RegisteredUnder
<1>3. CASE SendSnapshot
  <2>1. down' \in Seq(Orders \cup Opens)
    BY <1>3, <1>a, Sends DEF SendSnapshot
  <2> QED
    BY <1>3, <2>1 DEF SendSnapshot, LinkTypeOK
<1>4. CASE HandleWake
  <2>1. down' \in Seq(Orders \cup Opens)
    BY <1>4, <1>a, Sends DEF HandleWake
  <2> QED
    BY <1>4, <2>1 DEF HandleWake, LinkTypeOK
<1>5. CASE Sweep
  BY <1>5 DEF Sweep, LinkTypeOK, CloseWithdrawnOwners, RegisteredUnder
<1>6. CASE SendBehind
  <2>1. down' \in Seq(Orders \cup Opens)
    BY <1>6, <1>a, Sends DEF SendBehind
  <2> QED
    BY <1>6, <2>1 DEF SendBehind, LinkTypeOK
<1>7. CASE HandleSynchronized
  BY <1>7, <1>e DEF HandleSynchronized, Reads, LinkTypeOK
<1>8. CASE HandleApplied
  <2>1. up # <<>> /\ Head(up) \in Answers /\ Head(up).type = "applied"
    BY <1>8, <1>e DEF HandleApplied, Reads
  <2>2. Head(up).revision \in Nat
    BY <2>1 DEF Answers
  <2>3. applied' \in [conn : Nat, revision : Nat]
    BY <1>8, <2>2 DEF HandleApplied, LinkTypeOK
  <2> QED
    BY <1>8, <1>e, <2>1, <2>3 DEF HandleApplied, LinkTypeOK
<1>9. CASE HandleStreamFailed
  BY <1>9, <1>e DEF HandleStreamFailed, Reads, LinkTypeOK
<1>10. CASE ServerLosesLink
  BY <1>10 DEF ServerLosesLink, LinkTypeOK, NoConnection
<1>11. CASE Dial
  BY <1>11 DEF Dial, LinkTypeOK
<1>12. CASE HandleSnapshot
  <2>1. Head(down).revision \in Nat
    BY <1>12, <1>d DEF HandleSnapshot, Orders, Opens
  <2>2. up' \in Seq(Answers)
    BY <1>12, <1>a, <1>b, <2>1, Answered DEF HandleSnapshot
  <2>3. stream' \in Seq(Streams)
    BY <1>12, <1>c, Ends DEF HandleSnapshot
  <2> QED
    BY <1>12, <1>d, <2>1, <2>2, <2>3 DEF HandleSnapshot, LinkTypeOK
<1>13. CASE ApplyRevision
  <2>1. Head(down).revision \in Nat
    BY <1>13, <1>d DEF ApplyRevision, Orders, Opens
  <2>2. ToServer(<<Ack(Head(down).revision)>>) \in Seq(Answers)
    BY <1>a, <1>b, <2>1, Answered
  <2>3. stream' \in Seq(Streams)
    BY <1>13, <1>c, Ends DEF ApplyRevision, LinkTypeOK
  <2> QED
    BY <1>13, <1>d, <2>1, <2>2, <2>3 DEF ApplyRevision, LinkTypeOK
<1>14. CASE AdmitStream
  <2>1. Head(down).id \in Nat /\ Head(down).id \in DOMAIN stream
    BY <1>14, <1>d DEF AdmitStream, Orders, Opens, GroupInv
  <2>2. /\ ToServer(<<Failed(Head(down).id, "stale_access")>>) \in Seq(Answers)
        /\ ToServer(<<Failed(Head(down).id, "too_many_streams")>>) \in Seq(Answers)
    BY <1>a, <1>b, <2>1, Answered
  <2>3. up' \in Seq(Answers)
    BY <1>14, <2>2 DEF AdmitStream, LinkTypeOK
  <2>4. stream' \in Seq(Streams)
    BY <1>14, <1>c, <2>1, Turns DEF AdmitStream
  <2> QED
    BY <1>14, <1>d, <2>3, <2>4 DEF AdmitStream, LinkTypeOK
<1>15. CASE NodeDisconnect
  <2>1. stream' \in Seq(Streams)
    BY <1>15, <1>c, Ends DEF NodeDisconnect
  <2> QED
    BY <1>15, <1>f, <2>1 DEF NodeDisconnect, LinkTypeOK, NoGroup
<1>16. ASSUME NEW o \in Owners, OpenStream(o) PROVE LinkTypeOK'
  <2>1. snap[o] \in Nat /\ Len(stream) + 1 \in Nat /\ server.conn \in Nat
    BY DEF ClosingTypeOK, LinkTypeOK
  <2>2. [owner |-> o, revision |-> snap[o], conn |-> server.conn, kid |-> "asked"] \in Streams
    BY <2>1 DEF Streams
  <2>3. stream' \in Seq(Streams)
    <3>1. \A s \in Streams : Append(stream, s) \in Seq(Streams)
      BY DEF LinkTypeOK
    <3> QED
      BY <1>16, <2>2, <3>1 DEF OpenStream, LinkTypeOK
  <2>4. ToNode([type |-> "open", id |-> Len(stream) + 1, revision |-> snap[o]]) \in Seq(Orders \cup Opens)
    BY <1>a, <2>1, Sends
  <2> QED
    BY <1>16, <2>3, <2>4 DEF OpenStream, LinkTypeOK
<1>17. ASSUME NEW o \in Owners, CloseWithdrawn(o) PROVE LinkTypeOK'
  BY <1>17 DEF CloseWithdrawn, LinkTypeOK
<1>18. ASSUME NEW i \in 1..MaxStreams, KidAttaches(i) PROVE LinkTypeOK'
  <2>1. stream' \in Seq(Streams)
    BY <1>18, <1>c, Turns DEF KidAttaches
  <2> QED
    BY <1>18, <2>1 DEF KidAttaches, LinkTypeOK
<1>19. ASSUME NEW i \in 1..MaxStreams, KidFails(i) PROVE LinkTypeOK'
  <2>1. stream' \in Seq(Streams)
    BY <1>19, <1>c, Ends DEF KidFails
  <2>2. i \in Nat
    BY AccessConstants
  <2>3. up' \in Seq(Answers)
    BY <1>19, <1>a, <1>b, <2>2, Answered DEF KidFails
  <2> QED
    BY <1>19, <2>1, <2>3 DEF KidFails, LinkTypeOK
<1>20. ASSUME NEW i \in 1..MaxStreams, KidEnds(i) PROVE LinkTypeOK'
  <2>1. stream' \in Seq(Streams)
    BY <1>20, <1>c, Ends DEF KidEnds
  <2> QED
    BY <1>20, <2>1 DEF KidEnds, LinkTypeOK
<1> QED
  BY <1>1, <1>2, <1>3, <1>4, <1>5, <1>6, <1>7, <1>8, <1>9, <1>10, <1>11, <1>12, <1>13, <1>14, <1>15,
     <1>16, <1>17, <1>18, <1>19, <1>20 DEF Moves

\* A new connection is dialed only when the node has none, and its hello comes before anything else: the
\* connections stay one at a time.
LEMMA OneLinkStep ==
  ASSUME LinkTypeOK, OneLink, GroupInv, Moves
  PROVE  OneLink'
<1>a. /\ made \in Nat /\ node.conn \in Nat /\ server.conn \in Nat /\ applied.conn \in Nat
      /\ node.ready \in BOOLEAN /\ server.phase \in {"none", "hello", "snapshot", "synchronizing", "ready", "sweeping"}
      /\ hello \in BOOLEAN
  BY DEF LinkTypeOK
<1>b. down # <<>> => /\ 1 \in DOMAIN down /\ Head(down) = down[1]
                     /\ \A i \in DOMAIN Tail(down) : i + 1 \in DOMAIN down /\ Tail(down)[i] = down[i + 1] /\ i >= 1
  <2>1. down \in Seq(Orders \cup Opens)
    BY DEF LinkTypeOK
  <2>2. down # <<>> => Tail(down) \in Seq(Orders \cup Opens)
    BY <2>1, ReadsHead
  <2>3. down # <<>> => \A i \in DOMAIN Tail(down) : i >= 1
    BY <2>2
  <2> QED
    BY <2>1, <2>3, ReadsHead
<1>c. down = <<>> => Len(down) = 0
  OBVIOUS
<1>d. ASSUME server.phase \in {"ready", "sweeping"}, NEW m, m.type # "snapshot",
             UNCHANGED <<made, applied, node, hello, up>>, server'.conn = server.conn,
             server'.phase \in {"ready", "sweeping"}, down' \in {down, ToNode(m)}
      PROVE  OneLink'
  <2>1. server.conn # 0
    BY <1>d DEF OneLink
  <2>2. CASE down' = down
    BY <1>a, <1>d, <2>1, <2>2 DEF OneLink
  <2>3. CASE node.conn = server.conn /\ down' = Append(down, m)
    <3>1. ~hello /\ node.conn # 0
      BY <1>a, <2>1, <2>3 DEF OneLink
    <3>2. \A i \in DOMAIN down' : (i \in DOMAIN down /\ down'[i] = down[i]) \/ down'[i] = m
      <4>1. down \in Seq(Orders \cup Opens)
        BY DEF LinkTypeOK
      <4> QED
        BY <2>3, <4>1
    <3>3. \A i \in DOMAIN down' : down'[i].type = "snapshot" => i = 1 /\ ~node'.ready
      BY <1>d, <3>2 DEF OneLink
    <3> QED
      BY <1>a, <1>d, <2>1, <2>3, <3>1, <3>3 DEF OneLink
  <2> QED
    BY <1>d, <2>2, <2>3 DEF ToNode
<1>1. CASE HandleHello
  BY <1>1, <1>a DEF HandleHello, OneLink
<1>2. CASE HelloCloses
  BY <1>2, <1>a DEF HelloCloses, OneLink, LinkTypeOK
<1>3. CASE SendSnapshot
  <2> DEFINE m == [type |-> "snapshot", revision |-> revision]
  <2>1. /\ server.phase = "snapshot" /\ server'.phase = "synchronizing" /\ server'.conn = server.conn
        /\ down' = ToNode(m) /\ UNCHANGED <<made, node, hello, up, applied>>
    BY <1>3 DEF SendSnapshot, LinkTypeOK
  <2>2. CASE node.conn = server.conn
    <3>1. down = <<>> /\ down' = <<m>> /\ ~node.ready
      BY <2>1, <2>2 DEF OneLink, ToNode
    <3> QED
      BY <1>a, <2>1, <2>2, <3>1 DEF OneLink
  <2>3. CASE node.conn # server.conn
    <3>1. down' = down
      BY <2>1, <2>3 DEF ToNode
    <3> QED
      BY <1>a, <2>1, <2>3, <3>1 DEF OneLink
  <2> QED
    BY <2>2, <2>3
<1>4. CASE HandleWake
  <2>1. server.phase = "ready" /\ server' = server /\ UNCHANGED <<made, applied, node, hello, up>>
    BY <1>4 DEF HandleWake
  <2> QED
    BY <1>4, <1>d, <2>1 DEF HandleWake
<1>5. CASE Sweep
  BY <1>5, <1>a DEF Sweep, OneLink, LinkTypeOK
<1>6. CASE SendBehind
  <2>1. /\ server.phase = "sweeping" /\ server'.phase = "ready" /\ server'.conn = server.conn
        /\ UNCHANGED <<made, applied, node, hello, up>>
    BY <1>6 DEF SendBehind, LinkTypeOK
  <2> QED
    BY <1>6, <1>d, <2>1 DEF SendBehind
<1>7. CASE HandleSynchronized
  BY <1>7, <1>a DEF HandleSynchronized, OneLink, LinkTypeOK, Reads
<1>8. CASE HandleApplied
  BY <1>8, <1>a DEF HandleApplied, OneLink, LinkTypeOK, Reads
<1>9. CASE HandleStreamFailed
  BY <1>9, <1>a DEF HandleStreamFailed, OneLink, LinkTypeOK, Reads
<1>10. CASE ServerLosesLink
  BY <1>10, <1>a DEF ServerLosesLink, OneLink, NoConnection
<1>11. CASE Dial
  BY <1>11, <1>a DEF Dial, OneLink
<1>12. CASE HandleSnapshot
  <2>1. server.conn = 0 => up' = <<>>
    BY <1>12 DEF HandleSnapshot, OneLink, ToServer
  <2>2. node'.ready /\ node'.conn = node.conn
    BY <1>12 DEF HandleSnapshot, LinkTypeOK
  <2>3. DOMAIN down' = DOMAIN Tail(down) /\ \A i \in DOMAIN down' : down'[i].type # "snapshot"
    BY <1>12, <1>b DEF HandleSnapshot, OneLink
  <2> QED
    BY <1>12, <1>a, <2>1, <2>2, <2>3 DEF HandleSnapshot, OneLink
<1>13. CASE ApplyRevision
  <2>1. server.conn = 0 => up' = <<>>
    BY <1>13 DEF ApplyRevision, OneLink, ToServer
  <2> QED
    BY <1>13, <1>a, <1>b, <2>1 DEF ApplyRevision, OneLink
<1>14. CASE AdmitStream
  <2>1. server.conn = 0 => up' = <<>>
    BY <1>14 DEF AdmitStream, OneLink, ToServer
  <2> QED
    BY <1>14, <1>a, <1>b, <2>1 DEF AdmitStream, OneLink
<1>15. CASE NodeDisconnect
  BY <1>15, <1>a DEF NodeDisconnect, OneLink
<1>16. ASSUME NEW o \in Owners, OpenStream(o) PROVE OneLink'
  <2>1. UNCHANGED <<server, made, applied, node, hello, up>>
    BY <1>16 DEF OpenStream
  <2>2. CASE server.phase = "ready"
    BY <1>16, <1>d, <2>1, <2>2 DEF OpenStream
  <2>3. CASE server.phase # "ready"
    BY <1>16, <2>1, <2>3 DEF OpenStream, OneLink
  <2> QED
    BY <2>2, <2>3
<1>17. ASSUME NEW o \in Owners, CloseWithdrawn(o) PROVE OneLink'
  BY <1>17, <1>a DEF CloseWithdrawn, OneLink, LinkTypeOK
<1>18. ASSUME NEW i \in 1..MaxStreams, KidAttaches(i) PROVE OneLink'
  BY <1>18, <1>a DEF KidAttaches, OneLink
<1>19. ASSUME NEW i \in 1..MaxStreams, KidFails(i) PROVE OneLink'
  <2>1. node.ready
    BY <1>19 DEF KidFails, GroupInv, Kids
  <2>2. server.conn = 0 => up' = <<>>
    BY <1>19, <2>1 DEF KidFails, OneLink, ToServer
  <2> QED
    BY <1>19, <1>a, <2>1, <2>2 DEF KidFails, OneLink
<1>20. ASSUME NEW i \in 1..MaxStreams, KidEnds(i) PROVE OneLink'
  BY <1>20, <1>a DEF KidEnds, OneLink
<1> QED
  BY <1>1, <1>2, <1>3, <1>4, <1>5, <1>6, <1>7, <1>8, <1>9, <1>10, <1>11, <1>12, <1>13, <1>14, <1>15,
     <1>16, <1>17, <1>18, <1>19, <1>20 DEF Moves

\* What the two mailboxes hold, for the leaves of a step.
LEMMA MessageTypes ==
  ASSUME LinkTypeOK
  PROVE  /\ \A i \in DOMAIN down : /\ down[i].type \in {"snapshot", "desired", "open"}
                                   /\ down[i].revision \in Nat
                                   /\ down[i].type = "open" => down[i].id \in Nat
         /\ \A i \in DOMAIN up : /\ up[i].type \in {"applied", "synchronized", "failed"}
                                 /\ up[i].type = "applied" => up[i].revision \in Nat
                                 /\ up[i].type = "failed" => up[i].id \in Nat
         /\ down # <<>> => /\ 1 \in DOMAIN down /\ Head(down) = down[1]
                           /\ \A i \in DOMAIN Tail(down) : i + 1 \in DOMAIN down /\ Tail(down)[i] = down[i + 1]
         /\ up # <<>> => /\ 1 \in DOMAIN up /\ Head(up) = up[1]
                         /\ \A i \in DOMAIN Tail(up) : i \in Nat /\ i >= 1 /\ i + 1 \in DOMAIN up /\ Tail(up)[i] = up[i + 1]
<1>1. down \in Seq(Orders \cup Opens) /\ up \in Seq(Answers)
  BY DEF LinkTypeOK
<1>2. \A i \in DOMAIN down : down[i] \in Orders \cup Opens
  BY <1>1
<1>3. \A i \in DOMAIN up : up[i] \in Answers
  BY <1>1
<1>4. \A m \in Orders \cup Opens : /\ m.type \in {"snapshot", "desired", "open"} /\ m.revision \in Nat
                                   /\ m.type = "open" => m.id \in Nat
  BY DEF Orders, Opens
<1>5. \A m \in Answers : /\ m.type \in {"applied", "synchronized", "failed"}
                         /\ m.type = "applied" => m.revision \in Nat
                         /\ m.type = "failed" => m.id \in Nat
  BY DEF Answers
<1>6. up # <<>> => Tail(up) \in Seq(Answers)
  BY <1>1, ReadsHead
<1>7. up # <<>> => \A i \in DOMAIN Tail(up) : i \in Nat /\ i >= 1
  BY <1>6
<1>8. down # <<>> => /\ 1 \in DOMAIN down /\ Head(down) = down[1]
                     /\ \A i \in DOMAIN Tail(down) : i + 1 \in DOMAIN down /\ Tail(down)[i] = down[i + 1]
  BY <1>1, ReadsHead
<1>9. up # <<>> => /\ 1 \in DOMAIN up /\ Head(up) = up[1]
                   /\ \A i \in DOMAIN Tail(up) : i + 1 \in DOMAIN up /\ Tail(up)[i] = up[i + 1]
  BY <1>1, ReadsHead
<1> QED
  BY <1>2, <1>3, <1>4, <1>5, <1>7, <1>8, <1>9

\* Revisions are sent as they are, and acknowledged as they were received: none gets ahead of the policy.
LEMMA BehindStep ==
  ASSUME ClosingTypeOK, LinkTypeOK, OneLink, Behind, GroupInv, Moves
  PROVE  Behind'
<1>a. /\ revision \in Nat /\ revision' = revision /\ applied.revision \in Nat /\ group.revision \in Nat
      /\ node.conn \in Nat /\ server.conn \in Nat
  BY MovesKeepPolicy DEF ClosingTypeOK, LinkTypeOK
<1>b. ASSUME NEW m \in Orders \cup Opens, m.type = "open" \/ m.revision = revision,
             UNCHANGED <<applied, group, up, node>>, server'.conn = server.conn, down' \in {down, ToNode(m)}
      PROVE  Behind'
  <2>1. \A i \in DOMAIN down' : (i \in DOMAIN down /\ down'[i] = down[i]) \/ down'[i] = m
    BY <1>b, Sends
  <2> QED
    BY <1>a, <1>b, <2>1 DEF Behind
<1>c. ASSUME UNCHANGED <<applied, group, node>>, server'.conn = server.conn,
             \A i \in DOMAIN down' : \E j \in DOMAIN down : down'[i] = down[j],
             \A i \in DOMAIN up' : (\E j \in DOMAIN up : up'[i] = up[j]) \/ up'[i].type = "failed"
      PROVE  Behind'
  BY <1>a, <1>c DEF Behind
<1>e. \A k, w : \A i \in DOMAIN ToServer(<<Failed(k, w)>>) :
        \/ \E j \in DOMAIN up : ToServer(<<Failed(k, w)>>)[i] = up[j]
        \/ ToServer(<<Failed(k, w)>>)[i].type = "failed"
  <2>1. up \in Seq(Answers)
    BY DEF LinkTypeOK
  <2> QED
    BY <2>1 DEF ToServer, Failed
<1>d. \A r \in Nat : /\ [type |-> "snapshot", revision |-> r] \in Orders
                     /\ [type |-> "desired", revision |-> r] \in Orders
                     /\ \A i \in Nat : [type |-> "open", id |-> i, revision |-> r] \in Opens
  BY DEF Orders, Opens
<1>1. CASE HandleHello
  BY <1>1, <1>a DEF HandleHello, Behind, OneLink
<1>2. CASE HelloCloses
  BY <1>2, <1>c DEF HelloCloses, LinkTypeOK
<1>3. CASE SendSnapshot
  BY <1>3, <1>a, <1>b, <1>d DEF SendSnapshot, LinkTypeOK
<1>4. CASE HandleWake
  BY <1>4, <1>a, <1>b, <1>d DEF HandleWake
<1>5. CASE Sweep
  BY <1>5, <1>c DEF Sweep, LinkTypeOK
<1>6. CASE SendBehind
  BY <1>6, <1>a, <1>b, <1>d DEF SendBehind, LinkTypeOK
<1>7. CASE HandleSynchronized
  BY <1>7, <1>c, MessageTypes DEF HandleSynchronized, LinkTypeOK, Reads
<1>8. CASE HandleApplied
  <2>1. CASE applied' = applied
    BY <1>8, <1>c, <2>1, MessageTypes DEF HandleApplied, Reads
  <2>2. CASE applied' = [conn |-> server.conn, revision |-> Head(up).revision]
    <3>1. up # <<>> /\ 1 \in DOMAIN up /\ up[1].type = "applied" /\ applied'.revision = up[1].revision
      BY <1>8, <2>2, MessageTypes DEF HandleApplied, Reads
    <3>2. \A i \in DOMAIN up' : \E j \in DOMAIN up : up'[i] = up[j]
      BY <1>8, <3>1, MessageTypes DEF HandleApplied
    <3>3. UNCHANGED <<down, node, server, group>>
      BY <1>8 DEF HandleApplied
    <3>4. node.conn = server.conn => node.ready /\ \A i \in DOMAIN down : down[i].type # "snapshot"
      BY <3>1 DEF OneLink
    <3> QED
      BY <1>a, <3>1, <3>2, <3>3, <3>4 DEF Behind
  <2> QED
    BY <1>8, <2>1, <2>2 DEF HandleApplied
<1>9. CASE HandleStreamFailed
  BY <1>9, <1>c, MessageTypes DEF HandleStreamFailed, Reads
<1>10. CASE ServerLosesLink
  BY <1>10, <1>a DEF ServerLosesLink, Behind, OneLink, NoConnection
<1>11. CASE Dial
  BY <1>11, <1>a DEF Dial, Behind
<1>12. CASE HandleSnapshot
  <2>1. /\ down # <<>> /\ 1 \in DOMAIN down /\ down[1].type = "snapshot" /\ down[1].revision \in Nat
        /\ group'.revision = down[1].revision /\ UNCHANGED <<applied, server>> /\ node'.conn = node.conn
        /\ up' = ToServer(<<Ack(down[1].revision), [type |-> "synchronized"]>>)
    BY <1>12, MessageTypes DEF HandleSnapshot, LinkTypeOK
  <2>2. down[1].revision <= revision /\ ~node.ready
    BY <2>1 DEF Behind, OneLink
  <2>3. CASE node.conn = server.conn
    <3>1. up = <<>>
      BY <2>2, <2>3 DEF OneLink
    <3>2. up' = <<Ack(down[1].revision), [type |-> "synchronized"]>>
      BY <2>1, <2>3, <3>1 DEF ToServer
    <3>3. \A i \in DOMAIN up' : up'[i].type = "applied" => up'[i].revision = down[1].revision
      BY <3>2 DEF Ack
    <3>4. \A i \in DOMAIN down' : \E j \in DOMAIN down : j # 1 /\ down'[i] = down[j]
      BY <1>12, <2>1, MessageTypes DEF HandleSnapshot
    <3>5. applied.revision <= down[1].revision
      BY <2>1, <2>3 DEF Behind
    <3>6. \A i \in DOMAIN down' : down'[i].type # "snapshot"
      BY <3>4 DEF OneLink
    <3> QED
      BY <1>a, <2>1, <2>2, <2>3, <3>3, <3>4, <3>5, <3>6 DEF Behind
  <2>4. CASE node.conn # server.conn
    <3>1. up' = up
      BY <2>1, <2>4 DEF ToServer
    <3>2. \A i \in DOMAIN down' : \E j \in DOMAIN down : down'[i] = down[j]
      BY <1>12, <2>1, MessageTypes DEF HandleSnapshot
    <3> QED
      BY <1>a, <2>1, <2>2, <2>4, <3>1, <3>2 DEF Behind
  <2> QED
    BY <2>3, <2>4
<1>13. CASE ApplyRevision
  <2> DEFINE r == Head(down).revision
  <2>1. /\ down # <<>> /\ 1 \in DOMAIN down /\ down[1].type = "desired" /\ r = down[1].revision /\ r \in Nat
        /\ node.ready /\ UNCHANGED <<applied, server, node, revision>> /\ down' = Tail(down)
    BY <1>a, <1>13, MessageTypes DEF ApplyRevision
  <2>2. r <= revision
    BY <2>1 DEF Behind
  <2>3. \A i \in DOMAIN down' : \E j \in DOMAIN down : down'[i] = down[j]
    BY <2>1, MessageTypes
  <2>4. CASE r < group.revision
    BY <1>13, <1>c, <2>1, <2>3, <2>4 DEF ApplyRevision
  <2>5. CASE r >= group.revision
    <3>1. group'.revision = r /\ up' = ToServer(<<Ack(r)>>)
      BY <1>13, <1>a, <2>1, <2>5 DEF ApplyRevision
    <3> DEFINE a == Ack(r)
    <3>2. a \in Answers /\ a.revision = r
      BY <2>1 DEF Answers, Ack
    <3>3. up' = ToServer(<<a>>)
      BY <3>1
    <3> HIDE DEF r, a
    <3>4. <<a>> \in Seq(Answers) /\ \A k \in DOMAIN <<a>> : <<a>>[k] = a
      BY <3>2
    <3>5. \A i \in DOMAIN up' : (\E j \in DOMAIN up : up'[i] = up[j]) \/ up'[i].revision = r
      BY <3>2, <3>3, <3>4, Answered
    <3> QED
      BY <1>a, <2>1, <2>2, <2>3, <2>5, <3>1, <3>5, MessageTypes DEF Behind
  <2> QED
    BY <1>a, <2>1, <2>4, <2>5
<1>14. CASE AdmitStream
  <2>1. /\ down # <<>> /\ UNCHANGED <<applied, server, node, group>>
        /\ \E f \in {Failed(Head(down).id, "stale_access"), Failed(Head(down).id, "too_many_streams")} :
             up' \in {up, ToServer(<<f>>)}
    BY <1>14 DEF AdmitStream
  <2>2. \A i \in DOMAIN down' : \E j \in DOMAIN down : down'[i] = down[j]
    BY <1>14, MessageTypes DEF AdmitStream
  <2>3. \A i \in DOMAIN up' : (\E j \in DOMAIN up : up'[i] = up[j]) \/ up'[i].type = "failed"
    BY <2>1, <1>e
  <2> QED
    BY <1>c, <2>1, <2>2, <2>3
<1>15. CASE NodeDisconnect
  BY <1>15, <1>a DEF NodeDisconnect, Behind, NoGroup
<1>16. ASSUME NEW o \in Owners, OpenStream(o) PROVE Behind'
  <2>1. snap[o] \in Nat /\ Len(stream) + 1 \in Nat
    BY DEF ClosingTypeOK, LinkTypeOK
  <2> QED
    BY <1>16, <1>b, <1>d, <2>1 DEF OpenStream
<1>17. ASSUME NEW o \in Owners, CloseWithdrawn(o) PROVE Behind'
  BY <1>17, <1>c DEF CloseWithdrawn, LinkTypeOK
<1>18. ASSUME NEW i \in 1..MaxStreams, KidAttaches(i) PROVE Behind'
  BY <1>18, <1>c DEF KidAttaches
<1>19. ASSUME NEW i \in 1..MaxStreams, KidFails(i) PROVE Behind'
  <2>1. \A j \in DOMAIN up' : (\E k \in DOMAIN up : up'[j] = up[k]) \/ up'[j].type = "failed"
    BY <1>19, <1>e DEF KidFails
  <2> QED
    BY <1>19, <1>c, <2>1 DEF KidFails
<1>20. ASSUME NEW i \in 1..MaxStreams, KidEnds(i) PROVE Behind'
  BY <1>20, <1>c DEF KidEnds
<1> QED
  BY <1>1, <1>2, <1>3, <1>4, <1>5, <1>6, <1>7, <1>8, <1>9, <1>10, <1>11, <1>12, <1>13, <1>14, <1>15,
     <1>16, <1>17, <1>18, <1>19, <1>20 DEF Moves

\* A child is admitted at the revision of the group only, and a group of another revision starts without
\* children.
LEMMA GroupStep ==
  ASSUME ClosingTypeOK, LinkTypeOK, OneLink, GroupInv, Moves
  PROVE  GroupInv'
<1>a. Same(stream)
  BY DEF Same, LinkTypeOK
<1>b. ASSUME UNCHANGED <<stream, node, group>>, NEW m, m.type # "open", down' \in {down, ToNode(m)}
      PROVE  GroupInv'
  <2>1. down \in Seq(Orders \cup Opens)
    BY DEF LinkTypeOK
  <2>2. \A i \in DOMAIN down' : (i \in DOMAIN down /\ down'[i] = down[i]) \/ down'[i] = m
    BY <1>b, <2>1 DEF ToNode
  <2> QED
    BY <1>b, <2>2 DEF GroupInv, Kids
<1>c. ASSUME Same(stream'), \A i \in DOMAIN down' : \E j \in DOMAIN down : down'[i] = down[j],
             \A i \in Kids' : node'.ready /\ stream[i].revision = group'.revision
      PROVE  GroupInv'
  <2>1. \A i \in Kids' : i \in DOMAIN stream' /\ stream'[i].revision = stream[i].revision
    BY <1>c DEF Kids, Same
  <2>2. \A i \in Kids' : node'.ready /\ stream'[i].revision = group'.revision
    BY <1>c, <2>1
  <2>3. \A i \in DOMAIN down' : down'[i].type = "open" =>
           down'[i].id \in DOMAIN stream' /\ stream'[down'[i].id].revision = down'[i].revision
    BY <1>c DEF GroupInv, Same
  <2> QED
    BY <2>2, <2>3 DEF GroupInv
<1>d. ASSUME NEW is, stream' = Terminated(is)
      PROVE  Same(stream') /\ \A i \in Kids' : i \in Kids /\ i \notin is
  <2>1. /\ Same(stream') /\ DOMAIN stream' = DOMAIN stream
        /\ \A i \in DOMAIN stream : stream'[i].kid = IF i \in is THEN "gone" ELSE stream[i].kid
    BY <1>d, Ends DEF Same
  <2> QED
    BY <2>1 DEF Kids
<1>e. \A i \in Kids : node.ready /\ stream[i].revision = group.revision
  BY DEF GroupInv
<1>1. CASE HandleHello
  BY <1>1 DEF HandleHello, GroupInv, Kids
<1>2. CASE HelloCloses
  BY <1>2 DEF HelloCloses, GroupInv, Kids
<1>3. CASE SendSnapshot
  BY <1>3, <1>b DEF SendSnapshot
<1>4. CASE HandleWake
  BY <1>4, <1>b DEF HandleWake
<1>5. CASE Sweep
  BY <1>5 DEF Sweep, GroupInv, Kids
<1>6. CASE SendBehind
  BY <1>6, <1>b DEF SendBehind
<1>7. CASE HandleSynchronized
  BY <1>7 DEF HandleSynchronized, GroupInv, Kids
<1>8. CASE HandleApplied
  BY <1>8 DEF HandleApplied, GroupInv, Kids
<1>9. CASE HandleStreamFailed
  BY <1>9 DEF HandleStreamFailed, GroupInv, Kids
<1>10. CASE ServerLosesLink
  BY <1>10 DEF ServerLosesLink, GroupInv, Kids
<1>11. CASE Dial
  <2>1. Kids = {} /\ Kids' = Kids
    BY <1>11 DEF Dial, GroupInv, OneLink, Kids
  <2> QED
    BY <1>11, <2>1 DEF Dial, GroupInv
<1>12. CASE HandleSnapshot
  <2>1. Same(stream') /\ Kids' = {}
    BY <1>12, <1>d DEF HandleSnapshot
  <2>2. \A i \in DOMAIN down' : \E j \in DOMAIN down : down'[i] = down[j]
    BY <1>12, MessageTypes DEF HandleSnapshot
  <2> QED
    BY <1>c, <2>1, <2>2
<1>13. CASE ApplyRevision
  <2>1. \A i \in DOMAIN down' : \E j \in DOMAIN down : down'[i] = down[j]
    BY <1>13, MessageTypes DEF ApplyRevision
  <2>2. node' = node
    BY <1>13 DEF ApplyRevision
  <2>3. CASE stream' = Terminated(Kids)
    BY <1>c, <1>d, <2>1, <2>3
  <2>4. CASE stream' = stream /\ group'.revision = group.revision
    <3>1. Kids' = Kids
      BY <2>4 DEF Kids
    <3> QED
      BY <1>a, <1>c, <1>e, <2>1, <2>2, <2>4, <3>1
  <2> QED
    BY <1>13, <2>3, <2>4 DEF ApplyRevision
<1>14. CASE AdmitStream
  <2> DEFINE i == Head(down).id
             k == IF Head(down).revision # group.revision \/ Cardinality(Kids) >= MaxPerBiot
                    THEN "gone" ELSE "connecting"
  <2>1. /\ i \in DOMAIN stream /\ stream[i].revision = Head(down).revision /\ node.ready
        /\ stream' = [stream EXCEPT ![i].kid = k] /\ UNCHANGED <<node, group>>
    BY <1>14, MessageTypes DEF AdmitStream, GroupInv
  <2>2. \A j \in DOMAIN down' : \E l \in DOMAIN down : down'[j] = down[l]
    BY <1>14, MessageTypes DEF AdmitStream
  <2>3. k \in {"asked", "connecting", "relaying", "gone"} /\ (k = "gone" \/ stream[i].revision = group.revision)
    BY <2>1
  <2> HIDE DEF k, i
  <2>4. Same(stream') /\ \A j \in DOMAIN stream : stream'[j].kid = IF j = i THEN k ELSE stream[j].kid
    BY <2>1, <2>3, Turns
  <2>5. \A j \in Kids' : j \in Kids \/ (j = i /\ k # "gone")
    BY <2>4 DEF Kids, Same
  <2> QED
    BY <1>c, <1>e, <2>1, <2>2, <2>3, <2>4, <2>5
<1>15. CASE NodeDisconnect
  <2>1. Same(stream') /\ Kids' = {} /\ down' = <<>>
    BY <1>15, <1>d DEF NodeDisconnect
  <2> QED
    BY <1>c, <2>1
<1>16. ASSUME NEW o \in Owners, OpenStream(o) PROVE GroupInv'
  <2>1. CASE server.phase # "ready"
    BY <1>16, <2>1 DEF OpenStream, GroupInv, Kids
  <2>2. CASE server.phase = "ready"
    <3> DEFINE s == [owner |-> o, revision |-> snap[o], conn |-> server.conn, kid |-> "asked"]
               m == [type |-> "open", id |-> Len(stream) + 1, revision |-> snap[o]]
    <3>1. /\ stream' = Append(stream, s) /\ down' = ToNode(m) /\ UNCHANGED <<node, group>>
          /\ s.kid = "asked" /\ s.revision = m.revision /\ m.id = Len(stream) + 1
      BY <1>16, <2>2 DEF OpenStream
    <3>2. s \in Streams
      BY DEF Streams, ClosingTypeOK, LinkTypeOK
    <3> HIDE DEF s, m
    <3>3. stream \in Seq(Streams) /\ down \in Seq(Orders \cup Opens)
      BY DEF LinkTypeOK
    <3>4. /\ DOMAIN stream' = DOMAIN stream \cup {Len(stream) + 1}
          /\ \A i \in DOMAIN stream : stream'[i] = stream[i]
          /\ stream'[Len(stream) + 1] = s
      BY <3>1, <3>2, <3>3
    <3>5. \A i \in DOMAIN down' : (i \in DOMAIN down /\ down'[i] = down[i]) \/ down'[i] = m
      BY <3>1, <3>3 DEF ToNode
    <3>6. \A i \in Kids' : i \in Kids /\ stream'[i] = stream[i]
      BY <3>1, <3>4 DEF Kids
    <3>7. \A i \in Kids' : node'.ready /\ stream'[i].revision = group'.revision
      BY <1>e, <3>1, <3>6
    <3>8. m.id \in DOMAIN stream' /\ stream'[m.id].revision = m.revision
      BY <3>1, <3>4
    <3>9. \A i \in DOMAIN down : down[i].type = "open" =>
            down[i].id \in DOMAIN stream' /\ stream'[down[i].id].revision = down[i].revision
      BY <3>4 DEF GroupInv
    <3> QED
      BY <3>5, <3>7, <3>8, <3>9 DEF GroupInv
  <2> QED
    BY <2>1, <2>2
<1>17. ASSUME NEW o \in Owners, CloseWithdrawn(o) PROVE GroupInv'
  BY <1>17 DEF CloseWithdrawn, GroupInv, Kids
<1>18. ASSUME NEW i \in 1..MaxStreams, KidAttaches(i) PROVE GroupInv'
  <2>1. PICK k \in {"relaying", "gone"} : stream' = [stream EXCEPT ![i].kid = k]
    BY <1>18 DEF KidAttaches
  <2>2. i \in Kids /\ i \in DOMAIN stream
    BY <1>18 DEF KidAttaches, Kids
  <2>3. Same(stream') /\ \A j \in DOMAIN stream : stream'[j].kid = IF j = i THEN k ELSE stream[j].kid
    BY <2>1, <2>2, Turns
  <2>4. \A j \in Kids' : j \in Kids
    BY <2>2, <2>3 DEF Kids, Same
  <2>5. UNCHANGED <<down, node, group>>
    BY <1>18 DEF KidAttaches
  <2> QED
    BY <1>c, <1>e, <2>3, <2>4, <2>5
<1>19. ASSUME NEW i \in 1..MaxStreams, KidFails(i) PROVE GroupInv'
  BY <1>19, <1>c, <1>d, <1>e DEF KidFails
<1>20. ASSUME NEW i \in 1..MaxStreams, KidEnds(i) PROVE GroupInv'
  BY <1>20, <1>c, <1>d, <1>e DEF KidEnds
<1> QED
  BY <1>1, <1>2, <1>3, <1>4, <1>5, <1>6, <1>7, <1>8, <1>9, <1>10, <1>11, <1>12, <1>13, <1>14, <1>15,
     <1>16, <1>17, <1>18, <1>19, <1>20 DEF Moves

\* An owner keeps the stream it asked for until it leaves or is told that the open failed.
LEMMA HoldsStep ==
  ASSUME ClosingTypeOK, LinkTypeOK, OneLink, GroupInv, NEW o \in Owners, Holds(o), [AccessNext]_accessVars
  PROVE  Holds(o)'
<1> USE DEF ClosingTypeOK
<1>a. ASSUME pc'[o] = pc[o], held'[o] = held[o], snap'[o] = snap[o], DOMAIN stream \subseteq DOMAIN stream',
             \A i \in DOMAIN stream : /\ stream'[i].owner = stream[i].owner
                                      /\ stream'[i].revision = stream[i].revision
                                      /\ stream'[i].conn = stream[i].conn
                                      /\ stream'[i].kid = "asked" => stream[i].kid = "asked"
      PROVE  Holds(o)'
  BY <1>a DEF Holds
<1>b. ASSUME UNCHANGED <<pc, held, snap, stream>> PROVE Holds(o)'
  BY <1>b DEF Holds
<1>c. ASSUME stream' = stream, NEW p \in Owners, NEW c, pc' = [pc EXCEPT ![p] = c], UNCHANGED <<held, snap>>,
             c \in {"opening", "opened", "holding"} => pc[p] = "opened" /\ c = "holding"
      PROVE  Holds(o)'
  BY <1>c DEF Holds
<1>d. ASSUME stream' = stream, NEW p \in Owners, Leave(p) PROVE Holds(o)'
  BY <1>d DEF Holds, Leave
<1>e. ASSUME NEW is, stream' = Terminated(is), UNCHANGED <<pc, held, snap>> PROVE Holds(o)'
  BY <1>a, <1>e, Ends DEF Same
<1>1. CASE RequestDies \/ ServerLosesLink \/ Sweep
  BY <1>1, <1>b DEF RequestDies, ServerLosesLink, Sweep
<1>2. CASE NodeDisconnect
  BY <1>2, <1>e DEF NodeDisconnect
<1>3. ASSUME NEW os \in SUBSET Owners, Withdraw(os) PROVE Holds(o)'
  BY <1>3, <1>b DEF Withdraw
<1>4. CASE RequestStep
  BY <1>4, <1>b DEF RequestStep, FindOwners, CloseFound, WakeNode, CloseProof
<1>5. CASE HandleStreamFailed
  <2> DEFINE p == stream[Head(up).id].owner
  <2>1. stream' = stream
    BY <1>5 DEF HandleStreamFailed
  <2>2. CASE UNCHANGED <<pc, held, snap>>
    BY <1>b, <2>1, <2>2
  <2>3. CASE pc' = [pc EXCEPT ![p] = "stale"] /\ held' = [held EXCEPT ![p] = 0] /\ snap' = snap
    <3> HIDE DEF p
    <3> QED
      BY <2>1, <2>3 DEF Holds
  <2>4. CASE Leave(p)
    <3> HIDE DEF p
    <3> QED
      BY <2>1, <2>4 DEF Holds, Leave
  <2> QED
    BY <1>5, <2>2, <2>3, <2>4 DEF HandleStreamFailed
<1>6. CASE HandleHello \/ HelloCloses \/ SendSnapshot \/ HandleWake \/ SendBehind \/ HandleSynchronized
             \/ HandleApplied
  BY <1>6, <1>b DEF HandleHello, HelloCloses, SendSnapshot, HandleWake, SendBehind, HandleSynchronized,
                    HandleApplied
<1>7. ASSUME NEW p \in Owners, CloseWithdrawn(p) PROVE Holds(o)'
  BY <1>7, <1>b DEF CloseWithdrawn
<1>8. CASE Dial
  BY <1>8, <1>b DEF Dial
<1>9. CASE HandleSnapshot
  BY <1>9, <1>e DEF HandleSnapshot
<1>10. CASE ApplyRevision
  BY <1>10, <1>b, <1>e DEF ApplyRevision
<1>11. CASE AdmitStream
  <2>1. Head(down).id \in DOMAIN stream
    BY <1>11, MessageTypes DEF AdmitStream, GroupInv
  <2>2. PICK k \in {"gone", "connecting"} : stream' = [stream EXCEPT ![Head(down).id].kid = k]
    BY <1>11 DEF AdmitStream
  <2> QED
    BY <1>11, <1>a, <2>1, <2>2, Turns DEF AdmitStream, Same
<1>12. ASSUME NEW i \in 1..MaxStreams, KidAttaches(i) PROVE Holds(o)'
  <2> DEFINE p == stream[i].owner
             waits == pc[p] = "opening" /\ held[p] = i /\ Ready /\ server.conn = stream[i].conn
  <2>1. i \in DOMAIN stream /\ UNCHANGED <<held, snap>>
    BY <1>12 DEF KidAttaches
  <2>2. CASE ~waits
    BY <1>12, <1>a, <2>1, <2>2, Turns DEF KidAttaches, Same
  <2>3. CASE waits
    <3>1. stream' = [stream EXCEPT ![i].kid = "relaying"] /\ pc' = [pc EXCEPT ![p] = "opened"] /\ held[p] = i
          /\ pc[p] = "opening"
      BY <1>12, <2>3 DEF KidAttaches
    <3> HIDE DEF p
    <3>2. /\ Same(stream')
          /\ \A j \in DOMAIN stream : stream'[j].kid = IF j = i THEN "relaying" ELSE stream[j].kid
      BY <2>1, <3>1, Turns
    <3>3. CASE p = o
      BY <2>1, <3>1, <3>2, <3>3 DEF Holds, Same
    <3>4. CASE p # o
      BY <1>a, <2>1, <3>1, <3>2, <3>4 DEF Same
    <3> QED
      BY <3>3, <3>4
  <2> QED
    BY <2>2, <2>3
<1>13. ASSUME NEW i \in 1..MaxStreams, KidFails(i) \/ KidEnds(i) PROVE Holds(o)'
  BY <1>13, <1>e DEF KidFails, KidEnds
<1>14. ASSUME NEW p \in Owners, Grant(p) \/ RevokeProof(p) \/ ProofExpires(p) \/ SweepProofs(p) PROVE Holds(o)'
  BY <1>14, <1>b DEF Grant, RevokeProof, ProofExpires, SweepProofs
<1>15. ASSUME NEW p \in Owners, Admit(p) PROVE Holds(o)'
  BY <1>15, <1>c DEF Admit
<1>16. ASSUME NEW p \in Owners, OpenFails(p) \/ OwnerCloses(p) PROVE Holds(o)'
  BY <1>16, <1>d DEF OpenFails, OwnerCloses
<1>17. ASSUME NEW p \in Owners, Register(p) PROVE Holds(o)'
  BY <1>17, <1>b, <1>c DEF Register
<1>18. ASSUME NEW p \in Owners, Denied(p) \/ HandleOwnerMessage(p) \/ StreamEnds(p) PROVE Holds(o)'
  BY <1>18, <1>d DEF Denied, HandleOwnerMessage, StreamEnds
<1>19. ASSUME NEW p \in Owners, ReadSnapshot(p) PROVE Holds(o)'
  <2>1. CASE Permitted(p)
    BY <1>19, <2>1 DEF ReadSnapshot, Holds
  <2>2. CASE ~Permitted(p)
    BY <1>19, <1>d, <2>2 DEF ReadSnapshot
  <2> QED
    BY <2>1, <2>2
<1>20. ASSUME NEW p \in Owners, NoClose(p) \/ Retry(p) \/ WaitForApplied(p) PROVE Holds(o)'
  <2>1. PICK c \in {"open", "check", "waiting"} : pc' = [pc EXCEPT ![p] = c]
    BY <1>20 DEF NoClose, Retry, WaitForApplied
  <2> QED
    BY <1>20, <1>c, <2>1 DEF NoClose, Retry, WaitForApplied
<1>21. ASSUME NEW p \in Owners, OpenStream(p) PROVE Holds(o)'
  <2>1. CASE server.phase # "ready"
    BY <1>21, <1>d, <2>1 DEF OpenStream
  <2>2. CASE server.phase = "ready"
    <3> DEFINE s == [owner |-> p, revision |-> snap[p], conn |-> server.conn, kid |-> "asked"]
    <3>1. /\ stream' = Append(stream, s) /\ pc' = [pc EXCEPT ![p] = "opening"] /\ snap' = snap
          /\ held' = [held EXCEPT ![p] = Len(stream) + 1] /\ server.conn # 0
          /\ s.owner = p /\ s.revision = snap[p] /\ s.conn = server.conn
      BY <1>21, <2>2 DEF OpenStream, OneLink
    <3>2. s \in Streams /\ stream \in Seq(Streams)
      BY DEF Streams, LinkTypeOK
    <3> HIDE DEF s
    <3>3. /\ DOMAIN stream' = DOMAIN stream \cup {Len(stream) + 1}
          /\ \A i \in DOMAIN stream : stream'[i] = stream[i]
          /\ stream'[Len(stream) + 1] = s
      BY <3>1, <3>2
    <3>4. CASE p = o
      BY <3>1, <3>3, <3>4 DEF Holds
    <3>5. CASE p # o
      BY <1>a, <3>1, <3>3, <3>5
    <3> QED
      BY <3>4, <3>5
  <2> QED
    BY <2>1, <2>2
<1>22. ASSUME NEW p \in Owners, MarkAdmitted(p) PROVE Holds(o)'
  BY <1>22, <1>c, <1>d DEF MarkAdmitted
<1>23. CASE UNCHANGED accessVars
  BY <1>23, <1>b
<1>24. CASE ConnectionStep
  BY <1>24, <1>5, <1>6, <1>7 DEF ConnectionStep
<1>25. CASE NodeStep \/ NodeLosesLink
  BY <1>25, <1>2, <1>8, <1>9, <1>10, <1>11 DEF NodeStep, NodeLosesLink, NodeSeesClosed
<1>26. ASSUME NEW p \in Owners, OwnerStep(p) PROVE Holds(o)'
  BY <1>26, <1>17, <1>18, <1>19, <1>20, <1>21, <1>22 DEF OwnerStep
<1> QED
  BY <1>1, <1>3, <1>4, <1>12, <1>13, <1>14, <1>15, <1>16, <1>23, <1>24, <1>25, <1>26 DEF AccessNext

\* A move answers streams that were asked for only.
LEMMA AskedStep ==
  ASSUME ClosingTypeOK, LinkTypeOK, GroupInv, Asked, Moves
  PROVE  Asked'
<1>a. ASSUME DOMAIN stream \subseteq DOMAIN stream',
             \A i \in DOMAIN up' : \/ \E j \in DOMAIN up : up'[i] = up[j]
                                   \/ up'[i].type # "failed"
                                   \/ up'[i].id \in DOMAIN stream
      PROVE  Asked'
  BY <1>a DEF Asked
<1>b. \A is : DOMAIN Terminated(is) = DOMAIN stream
  BY Ends DEF Same
<1>c. \A k, w : \A i \in DOMAIN ToServer(<<Failed(k, w)>>) :
        \/ \E j \in DOMAIN up : ToServer(<<Failed(k, w)>>)[i] = up[j]
        \/ ToServer(<<Failed(k, w)>>)[i].id = k
  <2>1. up \in Seq(Answers)
    BY DEF LinkTypeOK
  <2> QED
    BY <2>1 DEF ToServer, Failed
<1>d. ASSUME NEW a, NEW b, up' \in {ToServer(<<a>>), ToServer(<<a, b>>)}
      PROVE  \A i \in DOMAIN up' : (\E j \in DOMAIN up : up'[i] = up[j]) \/ up'[i] \in {a, b}
  <2>1. up \in Seq(Answers)
    BY DEF LinkTypeOK
  <2>2. CASE up' = up
    BY <2>2
  <2>3. CASE up' = up \o <<a>>
    BY <2>1, <2>3
  <2>4. CASE up' = up \o <<a, b>>
    BY <2>1, <2>4
  <2> QED
    BY <1>d, <2>2, <2>3, <2>4 DEF ToServer
<1>1. CASE HandleHello \/ ServerLosesLink
  BY <1>1 DEF HandleHello, ServerLosesLink, Asked
<1>2. CASE HelloCloses \/ SendSnapshot \/ HandleWake \/ Sweep \/ SendBehind \/ Dial
  BY <1>2, <1>a DEF HelloCloses, SendSnapshot, HandleWake, Sweep, SendBehind, Dial
<1>3. CASE HandleSynchronized \/ HandleApplied \/ HandleStreamFailed
  BY <1>3, <1>a, MessageTypes DEF HandleSynchronized, HandleApplied, HandleStreamFailed, Reads
<1>4. CASE HandleSnapshot
  <2>1. PICK a, b : a.type = "applied" /\ b.type = "synchronized" /\ up' = ToServer(<<a, b>>)
    BY <1>4 DEF HandleSnapshot, Ack
  <2>2. \A i \in DOMAIN up' : (\E j \in DOMAIN up : up'[i] = up[j]) \/ up'[i] \in {a, b}
    <3>1. up' \in {ToServer(<<a>>), ToServer(<<a, b>>)}
      BY <2>1
    <3> QED
      BY <1>d, <3>1
  <2>3. \A i \in DOMAIN up' : (\E j \in DOMAIN up : up'[i] = up[j]) \/ up'[i].type # "failed"
    BY <2>1, <2>2
  <2> QED
    BY <1>4, <1>a, <1>b, <2>3 DEF HandleSnapshot
<1>5. CASE ApplyRevision
  <2>1. PICK a : a.type = "applied" /\ (up' = up \/ up' = ToServer(<<a>>))
    BY <1>5 DEF ApplyRevision, Ack
  <2>2. \A i \in DOMAIN up' : (\E j \in DOMAIN up : up'[i] = up[j]) \/ up'[i].type = "applied"
    <3>1. CASE up' = up
      BY <3>1
    <3>2. CASE up' = ToServer(<<a>>)
      <4>1. up' \in {ToServer(<<a>>), ToServer(<<a, a>>)}
        BY <3>2
      <4>2. \A i \in DOMAIN up' : (\E j \in DOMAIN up : up'[i] = up[j]) \/ up'[i] \in {a, a}
        BY <1>d, <4>1
      <4> QED
        BY <2>1, <4>2
    <3> QED
      BY <2>1, <3>1, <3>2
  <2>3. DOMAIN stream' = DOMAIN stream
    BY <1>5, <1>b DEF ApplyRevision
  <2> QED
    BY <1>a, <2>2, <2>3
<1>6. CASE AdmitStream
  <2> DEFINE n == Head(down).id
  <2>1. /\ DOMAIN stream' = DOMAIN stream
        /\ \E w \in {"stale_access", "too_many_streams"} : up' \in {up, ToServer(<<Failed(n, w)>>)}
    BY <1>6 DEF AdmitStream
  <2>2. n \in DOMAIN stream
    BY <1>6, MessageTypes DEF AdmitStream, GroupInv
  <2> HIDE DEF n
  <2> QED
    BY <1>a, <1>c, <2>1, <2>2
<1>7. CASE NodeDisconnect
  BY <1>7, <1>a, <1>b DEF NodeDisconnect
<1>8. ASSUME NEW o \in Owners, OpenStream(o) PROVE Asked'
  <2>1. up' = up /\ (stream' = stream \/ \E s : stream' = Append(stream, s))
    BY <1>8 DEF OpenStream
  <2>2. stream \in Seq(Streams)
    BY DEF LinkTypeOK
  <2>3. DOMAIN stream \subseteq DOMAIN stream'
    BY <2>1, <2>2
  <2> QED
    BY <1>a, <2>1, <2>3
<1>9. ASSUME NEW o \in Owners, CloseWithdrawn(o) PROVE Asked'
  BY <1>9, <1>a DEF CloseWithdrawn
<1>10. ASSUME NEW i \in 1..MaxStreams, KidAttaches(i) \/ KidEnds(i) PROVE Asked'
  BY <1>10, <1>a, <1>b DEF KidAttaches, KidEnds
<1>11. ASSUME NEW i \in 1..MaxStreams, KidFails(i) PROVE Asked'
  BY <1>11, <1>a, <1>b, <1>c DEF KidFails
<1> QED
  BY <1>1, <1>2, <1>3, <1>4, <1>5, <1>6, <1>7, <1>8, <1>9, <1>10, <1>11 DEF Moves

-----------------------------------------------------------------------------
\* What is not a move leaves the link's parts as they are.
LEMMA QuietLink ==
  ASSUME ClosingTypeOK, LinkTypeOK, OneLink, Behind, GroupInv, Asked, Quiet
  PROVE  (LinkTypeOK /\ OneLink /\ Behind /\ GroupInv /\ Asked)'
<1> USE DEF Quiet
<1>1. LinkTypeOK'
  BY DEF LinkTypeOK
<1>2. OneLink'
  BY DEF OneLink
<1>3. Behind'
  <2>1. /\ revision \in Nat /\ applied.revision \in Nat /\ group.revision \in Nat
    BY DEF ClosingTypeOK, LinkTypeOK
  <2> QED
    BY <2>1, MessageTypes DEF Behind
<1>4. GroupInv' /\ Asked'
  BY DEF GroupInv, Asked, Kids
<1> QED
  BY <1>1, <1>2, <1>3, <1>4

\* The invariant of the link holds from the start on.
THEOREM LinkInvariant == AccessSpec => []LinkInv
<1>1. AccessInit => LinkInv
  <2> SUFFICES ASSUME AccessInit PROVE LinkInv
    OBVIOUS
  <2> USE DEF AccessInit, NoGroup, NoConnection
  <2>1. <<>> \in Seq(Answers) /\ <<>> \in Seq(Orders \cup Opens) /\ <<>> \in Seq(Streams)
        /\ DOMAIN <<>> = {}
    OBVIOUS
  <2>2. LinkTypeOK
    BY <2>1 DEF LinkTypeOK
  <2>3. OneLink
    BY <2>1 DEF OneLink
  <2>4. Behind /\ GroupInv /\ Asked
    BY <2>1 DEF Behind, GroupInv, Asked, Kids
  <2>5. \A o \in Owners : Holds(o)
    BY DEF Holds
  <2> QED
    BY <2>2, <2>3, <2>4, <2>5 DEF LinkInv
<1>2. ClosingInv /\ LinkInv /\ [AccessNext]_accessVars => LinkInv'
  <2> SUFFICES ASSUME ClosingInv, LinkInv, [AccessNext]_accessVars PROVE LinkInv'
    OBVIOUS
  <2>1. ClosingTypeOK
    BY DEF ClosingInv
  <2>2. (LinkTypeOK /\ OneLink /\ Behind /\ GroupInv /\ Asked)'
    BY <2>1, QuietOrMoves, QuietLink, LinkTypeStep, OneLinkStep, BehindStep, GroupStep, AskedStep DEF LinkInv
  <2>3. \A o \in Owners : Holds(o)'
    BY <2>1, HoldsStep DEF LinkInv
  <2> QED
    BY <2>2, <2>3 DEF LinkInv
<1> QED
  BY <1>1, <1>2, ClosingInvariant, PTL DEF AccessSpec

\* EnforcedMeansClosed: once the revision is reported as applied, the node's children are of it, for any
\* number of streams, connections and revisions.
THEOREM EnforcedTheorem == AccessSpec => []EnforcedMeansClosed
<1>1. ClosingInv /\ LinkInv => EnforcedMeansClosed
  <2> SUFFICES ASSUME ClosingInv, LinkInv, applied.conn = server.conn, server.conn # 0, applied.revision >= revision,
                      NEW i \in Kids
               PROVE  stream[i].revision = revision
    BY DEF EnforcedMeansClosed
  <2>1. /\ revision \in Nat /\ applied.revision \in Nat /\ group.revision \in Nat
    BY DEF ClosingInv, ClosingTypeOK, LinkInv, LinkTypeOK
  <2>2. node.ready /\ stream[i].revision = group.revision
    BY DEF LinkInv, GroupInv
  <2>3. node.conn = server.conn
    BY <2>2 DEF LinkInv, OneLink
  <2>4. applied.revision <= group.revision /\ group.revision <= revision
    BY <2>2, <2>3 DEF LinkInv, Behind
  <2> QED
    BY <2>1, <2>2, <2>4
<1> QED
  BY <1>1, ClosingInvariant, LinkInvariant, PTL

\* SkippedOwnersEnd: the owners that a sweep passes over hold nothing that still runs.
THEOREM SkippedTheorem == AccessSpec => []SkippedOwnersEnd
<1>1. ClosingInv /\ LinkInv => SkippedOwnersEnd
  <2> SUFFICES ASSUME ClosingInv, LinkInv, ~AccessBehind, NEW o \in Owners, pc[o] = "holding", snap[o] < revision,
                      stream[held[o]].kid # "gone", stream[held[o]].conn = server.conn
               PROVE  FALSE
    BY DEF SkippedOwnersEnd
  <2>1. /\ revision \in Nat /\ applied.revision \in Nat /\ group.revision \in Nat /\ snap[o] \in Nat
    BY DEF ClosingInv, ClosingTypeOK, LinkInv, LinkTypeOK
  <2>2. /\ held[o] \in DOMAIN stream /\ stream[held[o]].revision = snap[o] /\ stream[held[o]].conn # 0
        /\ stream[held[o]].kid # "asked"
    BY DEF LinkInv, Holds
  <2>3. stream[held[o]] \in Streams
    BY <2>2 DEF LinkInv, LinkTypeOK
  <2>4. held[o] \in Kids
    BY <2>2, <2>3 DEF Kids, Streams
  <2>5. node.ready /\ group.revision = snap[o]
    BY <2>2, <2>4 DEF LinkInv, GroupInv
  <2>6. node.conn = server.conn
    BY <2>2, <2>5 DEF LinkInv, OneLink
  <2>7. applied.revision <= group.revision
    BY <2>5, <2>6 DEF LinkInv, Behind
  <2> QED
    BY <2>1, <2>5, <2>7 DEF AccessBehind
<1> QED
  BY <1>1, ClosingInvariant, LinkInvariant, PTL

-----------------------------------------------------------------------------
\* A step loses no application that an owner waits for: a stale answer is behind the earlier
\* acknowledgements, and a stored application is told to everyone who listens.
LEMMA ListensStep ==
  ASSUME ClosingInv, LinkInv, NEW o \in Owners, Listens(o), [AccessNext]_accessVars
  PROVE  Listens(o)'
<1> /\ ClosingTypeOK /\ Current(o)
    /\ LinkTypeOK /\ OneLink /\ Behind /\ GroupInv /\ Asked /\ Holds(o)
  BY DEF ClosingInv, LinkInv
<1>t. /\ revision \in Nat /\ snap[o] \in Nat /\ applied.revision \in Nat /\ group.revision \in Nat /\ Len(up) \in Nat
      /\ DOMAIN up = 1..Len(up) /\ DOMAIN pc = Owners /\ DOMAIN snap = Owners /\ DOMAIN held = Owners
      /\ snap[o] <= revision
  BY DEF ClosingTypeOK, LinkTypeOK, Current
<1>r. revision' \in Nat /\ revision' >= revision
  BY <1>t, QuietOrMoves, MovesKeepPolicy DEF Quiet
\* What the owner knows is the same, and what it is still to be told of is still in its place, or one
\* nearer to the head of the mailbox.
<1>a. ASSUME pc'[o] = pc[o], snap'[o] = snap[o], held'[o] = held[o], o \in subscribed' <=> o \in subscribed,
             o \in changedIn => o \in changedIn', applied' = applied, server'.conn = server.conn, NEW k \in {0, 1},
             \A i \in DOMAIN up' : up'[i].type = "failed" =>
               /\ i \in Nat /\ i + k \in DOMAIN up /\ up'[i] = up[i + k]
               /\ \A j \in 1..(i - 1) : up'[j] = up[j + k]
      PROVE  Listens(o)'
  <2>1. snap'[o] = revision' => snap[o] = revision
    BY <1>a, <1>t, <1>r
  <2>2. ToCome(o) => ToCome(o)'
    BY <1>a DEF ToCome
  <2>3. ASSUME pc[o] = "opening", o \in subscribed, snap[o] = revision,
               NEW i \in DOMAIN up', up'[i].type = "failed", up'[i].id = held[o], up'[i].reason = "stale_access"
        PROVE  ToCome(o) /\ \A j \in 1..(i - 1) : up'[j].type = "applied" => up'[j].revision < snap[o]
    <3>1. /\ i \in Nat /\ i + k \in DOMAIN up /\ up'[i] = up[i + k]
          /\ \A j \in 1..(i - 1) : up'[j] = up[j + k] /\ j + k \in 1..(i + k - 1)
      BY <1>a, <2>3
    <3> QED
      BY <2>3, <3>1 DEF Listens
  <2> QED
    BY <1>a, <2>1, <2>2, <2>3 DEF Listens, Admitting
<1>b. ASSUME pc'[o] = pc[o], snap'[o] = snap[o], held'[o] = held[o], o \in subscribed' <=> o \in subscribed,
             o \in changedIn => o \in changedIn', UNCHANGED <<applied, up>>, server'.conn = server.conn
      PROVE  Listens(o)'
  BY <1>a, <1>b, <1>t
<1>c. ASSUME pc'[o] \notin {"opening", "stale", "waiting"}, pc'[o] \in Admitting => snap'[o] >= 1 PROVE Listens(o)'
  BY <1>c DEF Listens
<1>d. ASSUME UNCHANGED <<pc, snap, held, subscribed, changedIn, applied>>, server'.conn = server.conn,
             up # <<>>, up' = Tail(up)
      PROVE  Listens(o)'
  <2>1. \A i \in DOMAIN up' : /\ i \in Nat /\ i + 1 \in DOMAIN up /\ up'[i] = up[i + 1]
                              /\ \A j \in 1..(i - 1) : up'[j] = up[j + 1]
    <3>1. Tail(up) \in Seq(Answers)
      BY <1>d, ReadsHead DEF LinkTypeOK
    <3>2. \A i \in DOMAIN up' : i \in Nat /\ \A j \in 1..(i - 1) : j \in DOMAIN up'
      BY <1>d, <3>1
    <3> QED
      BY <1>d, <3>2, MessageTypes
  <2> QED
    BY <1>a, <1>d, <2>1
<1>e. ASSUME UNCHANGED <<pc, snap, held, subscribed, changedIn, applied, server>>,
             NEW a, a.type \in {"applied", "synchronized"}, NEW b, b.type \in {"applied", "synchronized"},
             up' \in {up, up \o <<a>>, up \o <<a, b>>}
      PROVE  Listens(o)'
  <2>1. up \in Seq(Answers)
    BY DEF LinkTypeOK
  <2>2. \A i \in DOMAIN up' : i \in Nat /\ (i <= Len(up) => i \in DOMAIN up) /\ (i > Len(up) => up'[i] \in {a, b})
    <3>1. CASE up' = up
      BY <1>t, <2>1, <3>1
    <3>2. CASE up' = up \o <<a>>
      BY <2>1, <3>2
    <3>3. CASE up' = up \o <<a, b>>
      BY <2>1, <3>3
    <3> QED
      BY <1>e, <3>1, <3>2, <3>3
  <2>3. \A i \in DOMAIN up : up'[i] = up[i]
    <3>1. CASE up' = up
      BY <3>1
    <3>2. CASE up' = up \o <<a>>
      BY <2>1, <3>2
    <3>3. CASE up' = up \o <<a, b>>
      BY <2>1, <3>3
    <3> QED
      BY <1>e, <3>1, <3>2, <3>3
  <2>4. \A i \in DOMAIN up' : up'[i].type = "failed" =>
           /\ i \in Nat /\ i + 0 \in DOMAIN up /\ up'[i] = up[i + 0]
           /\ \A j \in 1..(i - 1) : up'[j] = up[j + 0]
    BY <1>e, <1>t, <2>2, <2>3
  <2> QED
    BY <1>a, <1>e, <2>4
<1>f. ASSUME NEW p \in Owners, Leave(p), UNCHANGED <<applied, up, server>> PROVE Listens(o)'
  <2>1. CASE p = o
    BY <1>f, <1>c, <1>t, <2>1 DEF Leave, Admitting
  <2>2. CASE p # o
    BY <1>f, <1>b, <1>t, <2>2 DEF Leave
  <2> QED
    BY <2>1, <2>2
\* A failure of a child of this connection, told to the server.
<1>g. ASSUME UNCHANGED <<pc, snap, held, subscribed, changedIn, applied, server>>,
             NEW n \in Nat, NEW w, up' = ToServer(<<Failed(n, w)>>), node.ready,
             w = "stale_access" /\ pc[o] = "opening" /\ n = held[o] => snap[o] # group.revision
      PROVE  Listens(o)'
  <2>1. CASE up' = up
    BY <1>b, <1>g, <2>1
  <2>2. CASE node.conn = server.conn /\ up' = up \o <<Failed(n, w)>>
    <3>1. up \in Seq(Answers)
      BY DEF LinkTypeOK
    <3>2. \A i \in DOMAIN up' : /\ i \in Nat
                                /\ i \in DOMAIN up \/ (i = Len(up) + 1 /\ up'[i] = Failed(n, w))
      <4> DEFINE f == Failed(n, w)
      <4>1. up' = up \o <<f>>
        BY <2>2
      <4> HIDE DEF f
      <4>2. DOMAIN up' = 1..(Len(up) + 1) /\ up'[Len(up) + 1] = f
        BY <3>1, <4>1
      <4>3. \A i \in DOMAIN up' : i \in Nat /\ (i \in DOMAIN up \/ (i = Len(up) + 1 /\ up'[i] = f))
        <5>1. Len(up) \in Nat /\ DOMAIN up = 1..Len(up)
          BY <1>t
        <5>2. \A i \in DOMAIN up' : i \in Nat /\ (i \in DOMAIN up \/ i = Len(up) + 1)
          BY <4>2, <5>1
        <5> QED
          BY <4>2, <5>2
      <4> QED
        BY <4>3 DEF f
    <3>3. \A i \in DOMAIN up : up'[i] = up[i]
      BY <2>2, <3>1
    <3>4. snap'[o] = revision' => snap[o] = revision
      BY <1>g, <1>t, <1>r
    <3>5. ToCome(o)' <=> ToCome(o)
      BY <1>g DEF ToCome
    <3>6. ASSUME pc[o] = "opening", o \in subscribed, snap[o] = revision,
                 NEW i \in DOMAIN up', up'[i].type = "failed", up'[i].id = held[o], up'[i].reason = "stale_access"
          PROVE  ToCome(o) /\ \A j \in 1..(i - 1) : up'[j].type = "applied" => up'[j].revision < snap[o]
      <4>1. CASE i \in DOMAIN up
        <5>1. up'[i] = up[i] /\ \A j \in 1..(i - 1) : up'[j] = up[j]
          BY <1>t, <3>3, <4>1
        <5> QED
          BY <3>6, <4>1, <5>1 DEF Listens
      <4>2. CASE i = Len(up) + 1 /\ up'[i] = Failed(n, w)
        <5>1. n = held[o] /\ w = "stale_access"
          BY <3>6, <4>2 DEF Failed
        <5>2. group.revision < snap[o]
          BY <1>g, <1>t, <3>6, <5>1 DEF Behind
        <5>3. applied.revision < snap[o]
          BY <1>g, <1>t, <2>2, <5>2 DEF Behind
        <5>4. \A j \in DOMAIN up : up[j].type = "applied" => up[j].revision < snap[o]
          BY <1>g, <1>t, <2>2, <5>2, MessageTypes DEF Behind
        <5> QED
          BY <1>t, <3>3, <4>2, <5>3, <5>4 DEF ToCome
      <4> QED
        BY <3>2, <4>1, <4>2
    <3> QED
      BY <1>g, <3>4, <3>5, <3>6 DEF Listens, Admitting
  <2> QED
    BY <1>g, <2>1, <2>2 DEF ToServer
<1>1. CASE RequestDies
  BY <1>1, <1>b DEF RequestDies
<1>2. CASE ServerLosesLink
  <2>1. up' = <<>> /\ server'.conn = 0 /\ UNCHANGED <<pc, snap, held, subscribed, changedIn, applied, revision>>
    BY <1>2 DEF ServerLosesLink, NoConnection
  <2>2. pc[o] \in Admitting => ToCome(o)'
    BY <1>t, <2>1 DEF ToCome, OneLink, Listens
  <2> QED
    BY <2>1, <2>2 DEF Listens, Admitting
<1>3. CASE Sweep
  BY <1>3, <1>b DEF Sweep, LinkTypeOK
<1>4. ASSUME NEW os \in SUBSET Owners, Withdraw(os) PROVE Listens(o)'
  BY <1>4, <1>b DEF Withdraw
<1>5. CASE RequestStep
  BY <1>5, <1>b DEF RequestStep, FindOwners, CloseFound, WakeNode, CloseProof
<1>6. CASE HandleHello
  <2>1. up' = <<>> /\ server'.conn = node.conn /\ UNCHANGED <<pc, snap, held, subscribed, changedIn, applied, revision>>
    BY <1>6 DEF HandleHello
  <2>2. applied.conn # node.conn
    BY <1>6 DEF HandleHello, OneLink, LinkTypeOK
  <2>3. ToCome(o)'
    BY <2>1, <2>2 DEF ToCome
  <2> QED
    BY <2>1, <2>3 DEF Listens, Admitting
<1>7. CASE HelloCloses \/ SendSnapshot \/ HandleWake \/ SendBehind
  BY <1>7, <1>b DEF HelloCloses, SendSnapshot, HandleWake, SendBehind, LinkTypeOK
<1>8. CASE HandleSynchronized
  BY <1>8, <1>d DEF HandleSynchronized, Reads, LinkTypeOK
<1>9. CASE HandleApplied
  <2>1. CASE UNCHANGED <<applied, changedIn>>
    BY <1>9, <1>d, <2>1 DEF HandleApplied, Reads
  <2>2. CASE applied' = [conn |-> server.conn, revision |-> Head(up).revision] /\ changedIn' = changedIn \cup subscribed
    <3>1. UNCHANGED <<pc, snap, held, subscribed, server, revision>> /\ up # <<>> /\ up' = Tail(up)
      BY <1>9 DEF HandleApplied, Reads
    <3>2. o \in subscribed => ToCome(o)'
      BY <2>2 DEF ToCome
    <3>3. ASSUME pc[o] = "opening", o \in subscribed, snap[o] = revision,
                 NEW i \in DOMAIN up', up'[i].type = "failed", up'[i].id = held[o], up'[i].reason = "stale_access"
          PROVE  \A j \in 1..(i - 1) : up'[j].type = "applied" => up'[j].revision < snap[o]
      <4>1. up' \in Seq(Answers)
        BY <3>1, ReadsHead DEF LinkTypeOK
      <4>2. i \in Nat /\ i + 1 \in DOMAIN up /\ up'[i] = up[i + 1]
            /\ \A j \in 1..(i - 1) : up'[j] = up[j + 1] /\ j + 1 \in 1..(i + 1 - 1)
        <5>1. i \in Nat /\ \A j \in 1..(i - 1) : j \in DOMAIN up' /\ j + 1 \in 1..(i + 1 - 1)
          BY <4>1
        <5> QED
          BY <3>1, <5>1, MessageTypes
      <4> QED
        BY <3>3, <4>2 DEF Listens
    <3> QED
      BY <3>1, <3>2, <3>3 DEF Listens, Admitting
  <2> QED
    BY <1>9, <2>1, <2>2 DEF HandleApplied
<1>10. CASE HandleStreamFailed
  <2> DEFINE p == stream[Head(up).id].owner
             waits == pc[p] = "opening" /\ held[p] = Head(up).id
  <2>1. up # <<>> /\ up' = Tail(up) /\ UNCHANGED <<applied, server, revision>> /\ Head(up) = up[1] /\ 1 \in DOMAIN up
        /\ up[1].type = "failed"
    BY <1>10, MessageTypes DEF HandleStreamFailed, Reads
  <2>2. CASE UNCHANGED <<pc, held, subscribed, changedIn, snap>>
    BY <1>d, <2>1, <2>2
  <2>3. CASE /\ waits /\ Head(up).reason = "stale_access" /\ pc' = [pc EXCEPT ![p] = "stale"]
             /\ held' = [held EXCEPT ![p] = 0] /\ UNCHANGED <<subscribed, changedIn, snap>>
    <3>1. CASE p = o
      <4>1. pc[o] = "opening" /\ pc'[o] = "stale" /\ up[1].id = held[o] /\ up[1].reason = "stale_access"
        BY <1>t, <2>1, <2>3, <3>1
      <4>2. o \in subscribed /\ snap[o] = revision => ToCome(o)
        BY <2>1, <4>1 DEF Listens
      <4>3. ToCome(o)' <=> ToCome(o)
        BY <2>1, <2>3 DEF ToCome
      <4> QED
        BY <2>1, <2>3, <4>1, <4>2, <4>3 DEF Listens, Admitting
    <3>2. CASE p # o
      <4>1. pc'[o] = pc[o] /\ held'[o] = held[o]
        <5> HIDE DEF p
        <5> QED
          BY <1>t, <2>3, <3>2
      <4>2. up' \in Seq(Answers)
        BY <2>1, ReadsHead DEF LinkTypeOK
      <4>3. \A i \in DOMAIN up' : /\ i \in Nat /\ i + 1 \in DOMAIN up /\ up'[i] = up[i + 1]
                                  /\ \A j \in 1..(i - 1) : up'[j] = up[j + 1]
        <5>1. \A i \in DOMAIN up' : i \in Nat /\ \A j \in 1..(i - 1) : j \in DOMAIN up'
          BY <4>2
        <5> QED
          BY <2>1, <5>1, MessageTypes
      <4> QED
        BY <1>a, <2>1, <2>3, <4>1, <4>3
    <3> QED
      BY <3>1, <3>2
  <2>4. CASE waits /\ Leave(p)
    <3>1. CASE p = o
      BY <1>c, <1>t, <2>4, <3>1 DEF Leave, Admitting
    <3>2. CASE p # o
      <4>1. /\ pc'[o] = pc[o] /\ held'[o] = held[o] /\ snap' = snap /\ (o \in subscribed' <=> o \in subscribed)
            /\ o \in changedIn => o \in changedIn'
        <5> HIDE DEF p
        <5> QED
          BY <1>t, <2>4, <3>2 DEF Leave
      <4>2. up' \in Seq(Answers)
        BY <2>1, ReadsHead DEF LinkTypeOK
      <4>3. \A i \in DOMAIN up' : /\ i \in Nat /\ i + 1 \in DOMAIN up /\ up'[i] = up[i + 1]
                                  /\ \A j \in 1..(i - 1) : up'[j] = up[j + 1]
        <5>1. \A i \in DOMAIN up' : i \in Nat /\ \A j \in 1..(i - 1) : j \in DOMAIN up'
          BY <4>2
        <5> QED
          BY <2>1, <5>1, MessageTypes
      <4> QED
        BY <1>a, <2>1, <4>1, <4>3
    <3> QED
      BY <3>1, <3>2
  <2> QED
    BY <1>10, <2>2, <2>3, <2>4 DEF HandleStreamFailed
<1>11. ASSUME NEW p \in Owners, CloseWithdrawn(p) PROVE Listens(o)'
  BY <1>11, <1>b DEF CloseWithdrawn, LinkTypeOK
<1>12. CASE Dial
  BY <1>12, <1>b DEF Dial
<1>13. CASE HandleSnapshot
  <2> DEFINE a == Ack(Head(down).revision)
             b == [type |-> "synchronized"]
  <2>1. a.type = "applied" /\ b.type = "synchronized"
    BY DEF Ack
  <2>2. up' \in {up, up \o <<a>>, up \o <<a, b>>}
    BY <1>13 DEF HandleSnapshot, ToServer
  <2>3. UNCHANGED <<pc, snap, held, subscribed, changedIn, applied, server>>
    BY <1>13 DEF HandleSnapshot
  <2> HIDE DEF a, b
  <2> QED
    BY <1>e, <2>1, <2>2, <2>3
<1>14. CASE ApplyRevision
  <2> DEFINE a == Ack(Head(down).revision)
  <2>1. a.type = "applied"
    BY DEF Ack
  <2>3. up' \in {up, up \o <<a>>, up \o <<a, a>>}
    BY <1>14 DEF ApplyRevision, ToServer
  <2>2. UNCHANGED <<pc, snap, held, subscribed, changedIn, applied, server>>
    BY <1>14 DEF ApplyRevision
  <2> HIDE DEF a
  <2> QED
    BY <1>e, <2>1, <2>2, <2>3
<1>15. CASE AdmitStream
  <2> DEFINE n == Head(down).id
  <2>1. /\ node.ready /\ UNCHANGED <<pc, snap, held, subscribed, changedIn, applied, server>>
        /\ n \in Nat /\ n \in DOMAIN stream /\ stream[n].revision = Head(down).revision
    BY <1>15, MessageTypes DEF AdmitStream, GroupInv
  <2>2. CASE up' = up
    BY <1>b, <2>1, <2>2
  <2>3. CASE up' = ToServer(<<Failed(n, "stale_access")>>) /\ Head(down).revision # group.revision
    <3>1. pc[o] = "opening" /\ n = held[o] => snap[o] # group.revision
      BY <2>1, <2>3 DEF Holds
    <3> HIDE DEF n
    <3> QED
      BY <1>g, <2>1, <2>3, <3>1
  <2>4. CASE up' = ToServer(<<Failed(n, "too_many_streams")>>)
    BY <1>g, <2>1, <2>4
  <2> QED
    BY <1>15, <2>2, <2>3, <2>4 DEF AdmitStream
<1>16. CASE NodeDisconnect
  BY <1>16, <1>b DEF NodeDisconnect
<1>17. ASSUME NEW i \in 1..MaxStreams, KidAttaches(i) PROVE Listens(o)'
  <2> DEFINE p == stream[i].owner
  <2>1. UNCHANGED <<held, snap, subscribed, changedIn, applied, up, server>>
    BY <1>17 DEF KidAttaches
  <2> DEFINE waits == pc[p] = "opening" /\ held[p] = i /\ Ready /\ server.conn = stream[i].conn
  <2>2. pc' = pc \/ (pc[p] = "opening" /\ pc' = [pc EXCEPT ![p] = "opened"])
    <3>1. pc' = IF waits THEN [pc EXCEPT ![p] = "opened"] ELSE pc
      BY <1>17 DEF KidAttaches
    <3>2. waits => pc[p] = "opening"
      OBVIOUS
    <3> HIDE DEF waits, p
    <3>3. CASE waits
      BY <3>1, <3>2, <3>3
    <3>4. CASE ~waits
      BY <3>1, <3>4
    <3> QED
      BY <3>3, <3>4
  <2> HIDE DEF p
  <2>3. CASE pc'[o] = pc[o]
    BY <1>b, <2>1, <2>3
  <2>4. CASE pc[o] = "opening" /\ pc'[o] = "opened"
    BY <1>c, <2>1, <2>4 DEF Listens, Admitting
  <2> QED
    BY <1>t, <2>2, <2>3, <2>4
<1>18. ASSUME NEW i \in 1..MaxStreams, KidFails(i) PROVE Listens(o)'
  <2>1. node.ready /\ i \in Nat
    BY <1>18, AccessConstants DEF KidFails, GroupInv, Kids
  <2> QED
    BY <1>18, <1>g, <2>1 DEF KidFails
<1>19. ASSUME NEW i \in 1..MaxStreams, KidEnds(i) PROVE Listens(o)'
  BY <1>19, <1>b DEF KidEnds
<1>20. ASSUME NEW p \in Owners, Grant(p) \/ RevokeProof(p) \/ ProofExpires(p) \/ SweepProofs(p) PROVE Listens(o)'
  BY <1>20, <1>b DEF Grant, RevokeProof, ProofExpires, SweepProofs
<1>21. ASSUME NEW p \in Owners, Admit(p) PROVE Listens(o)'
  <2>1. CASE p = o
    BY <1>21, <1>c, <1>t, <2>1 DEF Admit, Admitting
  <2>2. CASE p # o
    BY <1>21, <1>b, <1>t, <2>2 DEF Admit
  <2> QED
    BY <2>1, <2>2
<1>22. ASSUME NEW p \in Owners, OpenFails(p) \/ OwnerCloses(p) PROVE Listens(o)'
  BY <1>22, <1>f DEF OpenFails, OwnerCloses
<1>23. ASSUME NEW p \in Owners, Register(p) PROVE Listens(o)'
  <2>1. CASE p = o /\ pc'[o] # pc[o]
    BY <1>23, <1>c, <1>t, <2>1 DEF Register, Admitting
  <2>2. CASE pc'[o] = pc[o]
    BY <1>23, <1>b, <2>2 DEF Register
  <2> QED
    BY <1>23, <1>t, <2>1, <2>2 DEF Register
<1>24. ASSUME NEW p \in Owners, Denied(p) \/ HandleOwnerMessage(p) \/ StreamEnds(p) PROVE Listens(o)'
  BY <1>24, <1>f DEF Denied, HandleOwnerMessage, StreamEnds
<1>25. ASSUME NEW p \in Owners, ReadSnapshot(p) PROVE Listens(o)'
  <2>1. UNCHANGED <<applied, up, server>>
    BY <1>25 DEF ReadSnapshot
  <2>2. CASE Leave(p)
    BY <1>f, <2>1, <2>2
  <2>3. CASE snap' = [snap EXCEPT ![p] = revision] /\ pc' = [pc EXCEPT ![p] = "read"] /\ UNCHANGED <<held, subscribed, changedIn>>
    <3>1. CASE p = o
      BY <1>c, <1>t, <2>3, <3>1 DEF Behind
    <3>2. CASE p # o
      BY <1>b, <1>t, <2>1, <2>3, <3>2
    <3> QED
      BY <3>1, <3>2
  <2> QED
    BY <1>25, <2>2, <2>3 DEF ReadSnapshot
<1>26. ASSUME NEW p \in Owners, NoClose(p) PROVE Listens(o)'
  <2>1. CASE p = o
    BY <1>26, <1>c, <1>t, <2>1 DEF NoClose, Listens, Admitting
  <2>2. CASE p # o
    BY <1>26, <1>b, <1>t, <2>2 DEF NoClose
  <2> QED
    BY <2>1, <2>2
<1>27. ASSUME NEW p \in Owners, WaitForApplied(p) PROVE Listens(o)'
  <2>1. CASE p = o
    <3>1. CASE o \in subscribed
      <4>1. /\ pc[o] = "stale" /\ pc'[o] = "waiting" /\ UNCHANGED <<snap, changedIn, applied, server, revision>>
            /\ o \in subscribed'
        BY <1>27, <1>t, <2>1, <3>1 DEF WaitForApplied
      <4>2. ToCome(o)' <=> ToCome(o)
        BY <4>1 DEF ToCome
      <4> QED
        BY <3>1, <4>1, <4>2 DEF Listens, Admitting
    <3>2. CASE o \notin subscribed
      BY <1>27, <1>c, <1>t, <2>1, <3>2 DEF WaitForApplied, Listens, Admitting
    <3> QED
      BY <3>1, <3>2
  <2>2. CASE p # o
    BY <1>27, <1>b, <1>t, <2>2 DEF WaitForApplied
  <2> QED
    BY <2>1, <2>2
<1>28. ASSUME NEW p \in Owners, Retry(p) PROVE Listens(o)'
  <2>1. CASE p = o
    BY <1>28, <1>c, <1>t, <2>1 DEF Retry, Listens, Admitting
  <2>2. CASE p # o
    BY <1>28, <1>b, <1>t, <2>2 DEF Retry
  <2> QED
    BY <2>1, <2>2
<1>29. ASSUME NEW p \in Owners, OpenStream(p) PROVE Listens(o)'
  <2>1. UNCHANGED <<applied, up, server, revision>>
    BY <1>29 DEF OpenStream
  <2>2. CASE Leave(p)
    BY <1>f, <2>1, <2>2
  <2>3. CASE /\ pc[p] = "open" /\ pc' = [pc EXCEPT ![p] = "opening"] /\ held' = [held EXCEPT ![p] = Len(stream) + 1]
             /\ UNCHANGED <<subscribed, changedIn, snap>>
    <3>1. CASE p = o
      <4>1. DOMAIN stream = 1..Len(stream) /\ Len(stream) \in Nat
        BY DEF LinkTypeOK
      <4>2. \A i \in DOMAIN up' : up'[i].type = "failed" => up'[i].id # held'[o]
        BY <1>t, <2>1, <2>3, <3>1, <4>1 DEF Asked
      <4> QED
        BY <1>t, <2>1, <2>3, <3>1, <4>2 DEF Listens, Admitting
    <3>2. CASE p # o
      BY <1>b, <1>t, <2>1, <2>3, <3>2
    <3> QED
      BY <3>1, <3>2
  <2> QED
    BY <1>29, <2>2, <2>3 DEF OpenStream
<1>30. ASSUME NEW p \in Owners, MarkAdmitted(p) PROVE Listens(o)'
  <2>1. UNCHANGED <<applied, up, server>>
    BY <1>30 DEF MarkAdmitted
  <2>2. CASE Leave(p)
    BY <1>f, <2>1, <2>2
  <2>3. CASE /\ pc[p] = "opened" /\ pc' = [pc EXCEPT ![p] = "holding"] /\ subscribed' = subscribed \ {p}
             /\ changedIn' = changedIn \ {p} /\ UNCHANGED <<snap, held>>
    <3>1. CASE p = o
      BY <1>c, <1>t, <2>3, <3>1 DEF Listens, Admitting
    <3>2. CASE p # o
      BY <1>b, <1>t, <2>1, <2>3, <3>2
    <3> QED
      BY <3>1, <3>2
  <2> QED
    BY <1>30, <2>2, <2>3 DEF MarkAdmitted
<1>31. CASE UNCHANGED accessVars
  BY <1>31, <1>b
<1>32. CASE ConnectionStep
  BY <1>32, <1>6, <1>7, <1>8, <1>9, <1>10, <1>11 DEF ConnectionStep
<1>33. CASE NodeStep \/ NodeLosesLink
  BY <1>33, <1>12, <1>13, <1>14, <1>15, <1>16 DEF NodeStep, NodeLosesLink, NodeSeesClosed
<1>34. ASSUME NEW p \in Owners, OwnerStep(p) PROVE Listens(o)'
  BY <1>34, <1>23, <1>24, <1>25, <1>26, <1>27, <1>28, <1>29, <1>30 DEF OwnerStep
<1> QED
  BY <1>1, <1>2, <1>3, <1>4, <1>5, <1>17, <1>18, <1>19, <1>20, <1>21, <1>22, <1>31, <1>32, <1>33, <1>34
     DEF AccessNext

\* WaitingIsWoken: an owner that waits for the node has not missed the application it waits for.
THEOREM WaitingTheorem == AccessSpec => []WaitingIsWoken
<1> DEFINE Hearing == \A o \in Owners : Listens(o)
<1>1. AccessInit => Hearing
  BY DEF AccessInit, Listens, Admitting
<1>2. ClosingInv /\ LinkInv /\ Hearing /\ [AccessNext]_accessVars => Hearing'
  BY ListensStep
<1>3. Hearing => WaitingIsWoken
  BY DEF Listens, ToCome, WaitingIsWoken
<1> QED
  BY <1>1, <1>2, <1>3, ClosingInvariant, LinkInvariant, PTL DEF AccessSpec
=============================================================================
