------------------------- MODULE StreamHandoffProofs -------------------------
(***************************************************************************)
(* The safety of the handoff for any number of streams, connections and    *)
(* restarts of Pending.  What the proofs need beyond the properties is who *)
(* has the stream: nobody yet (Fresh), Pending (Waited), or whoever took   *)
(* its entry away (Handed, Answered).  HandoffInv says so for each stream. *)
(***************************************************************************)
EXTENDS StreamHandoff, TLAPS

USE DEF handoffVars, connections, pending, callers

\* The handler has claimed the stream, or has given its socket to the caller.
Given(s) == handler[s] \in Claimed \/ socket[s] = "caller"

\* No answer of Pending waits for the caller.
Unanswered(s) == "failed" \notin mailbox[s] /\ "claimed" \notin mailbox[s]

\* A stream that is not registered is known to nobody else.
Fresh(s) ==
  caller[s] \in {"idle", "registering"} =>
    /\ mailbox[s] = {} /\ handler[s] = "none" /\ socket[s] = "none" /\ child[s] = "none"
    /\ s \notin asked
    /\ caller[s] = "registering" => on[s] # 0

\* An entry of Pending is of a caller that has not been answered.
Waited(s) ==
  entry[s] # 0 =>
    /\ caller[s] \in {"calling", "await", "abandon", "abandon_lost", "dead"}
    /\ Unanswered(s)
    /\ ~Given(s)

\* A claimed stream is the only answer, and the caller has it or will find it.
Handed(s) ==
  Given(s) =>
    /\ "failed" \notin mailbox[s]
    /\ \/ "claimed" \in mailbox[s]
       \/ caller[s] \in {"handoff", "kill_timeout", "kill_lost", "open", "dead"}

\* Pending that has not restarted has taken no entry without an answer.
Answered(s) ==
  caller[s] \in {"calling", "await", "abandon", "abandon_lost", "drain"}
      /\ restarts = 0 /\ Unanswered(s)
    => entry[s] # 0

\* A caller that has been told of an error controls nothing.
Released(s) == caller[s] \in Errors => ~Given(s)

\* The node relays to a socket that has been handed over.
Settled(s) == child[s] = "relaying" => socket[s] \in {"caller", "closed"}

StreamInv(s) ==
  Fresh(s) /\ Waited(s) /\ Handed(s) /\ Answered(s) /\ Released(s) /\ Settled(s)

HandoffInv == HandoffTypeOK /\ \A s \in Streams : StreamInv(s)

-----------------------------------------------------------------------------
\* Every step keeps the types.
LEMMA TypeStep ==
  ASSUME HandoffTypeOK, [HandoffNext]_handoffVars
  PROVE  HandoffTypeOK'
<1> USE HandoffConstants DEF HandoffTypeOK, Claimed, Waiting, Ended, Errors
<1>1. CASE BecomeReady
  BY <1>1 DEF BecomeReady
<1>2. CASE Unregister
  BY <1>2 DEF Unregister
<1>3. CASE PendingRestarts
  BY <1>3 DEF PendingRestarts
<1>4. ASSUME NEW c \in 1..MaxConnections, PendingSeesConnectionDown(c) PROVE HandoffTypeOK'
  BY <1>4 DEF PendingSeesConnectionDown, FailEntries
<1>5. ASSUME NEW c \in 1..MaxConnections, ControlLost(c) PROVE HandoffTypeOK'
  BY <1>5 DEF ControlLost, FailEntries
<1>6. ASSUME NEW c \in 1..MaxConnections, ConnectionKilled(c) PROVE HandoffTypeOK'
  BY <1>6 DEF ConnectionKilled
<1>7. ASSUME NEW t \in Streams, OpenUntil(t) PROVE HandoffTypeOK'
  BY <1>7 DEF OpenUntil
<1>8. ASSUME NEW t \in Streams, Register(t) PROVE HandoffTypeOK'
  BY <1>8 DEF Register
<1>9. ASSUME NEW t \in Streams, OpenStreamExits(t) PROVE HandoffTypeOK'
  BY <1>9 DEF OpenStreamExits
<1>10. ASSUME NEW t \in Streams, ReceiveFailed(t) PROVE HandoffTypeOK'
  BY <1>10 DEF ReceiveFailed
<1>11. ASSUME NEW t \in Streams, ReceiveClaimed(t) PROVE HandoffTypeOK'
  BY <1>11 DEF ReceiveClaimed
<1>12. ASSUME NEW t \in Streams, AwaitTimesOut(t) PROVE HandoffTypeOK'
  BY <1>12 DEF AwaitTimesOut
<1>13. ASSUME NEW t \in Streams, Abandon(t) PROVE HandoffTypeOK'
  BY <1>13 DEF Abandon
<1>14. ASSUME NEW t \in Streams, DrainFindsNothing(t) PROVE HandoffTypeOK'
  BY <1>14 DEF DrainFindsNothing
<1>15. ASSUME NEW t \in Streams, ReceiveAttached(t) PROVE HandoffTypeOK'
  BY <1>15 DEF ReceiveAttached
<1>16. ASSUME NEW t \in Streams, HandlerDown(t) PROVE HandoffTypeOK'
  BY <1>16 DEF HandlerDown
<1>17. ASSUME NEW t \in Streams, HandoffAbandoned(t) PROVE HandoffTypeOK'
  BY <1>17 DEF HandoffAbandoned
<1>18. ASSUME NEW t \in Streams, AbandonHandoff(t) PROVE HandoffTypeOK'
  BY <1>18 DEF AbandonHandoff, GaveUp
<1>19. ASSUME NEW t \in Streams, Attach(t) PROVE HandoffTypeOK'
  BY <1>19 DEF Attach
<1>20. ASSUME NEW t \in Streams, MoveSocket(t) PROVE HandoffTypeOK'
  BY <1>20 DEF MoveSocket
<1>21. ASSUME NEW t \in Streams, SendAttached(t) PROVE HandoffTypeOK'
  BY <1>21 DEF SendAttached
<1>22. ASSUME NEW t \in Streams, TellCaller(t) PROVE HandoffTypeOK'
  BY <1>22 DEF TellCaller
<1>23. ASSUME NEW t \in Streams, HandoffFails(t) PROVE HandoffTypeOK'
  BY <1>23 DEF HandoffFails
<1>24. ASSUME NEW t \in Streams, HandlerSeesOwnerDown(t) PROVE HandoffTypeOK'
  BY <1>24 DEF HandlerSeesOwnerDown
<1>25. ASSUME NEW t \in Streams, PendingSeesCallerDown(t) PROVE HandoffTypeOK'
  BY <1>25 DEF PendingSeesCallerDown
<1>26. ASSUME NEW t \in Streams, DeadlinePasses(t) PROVE HandoffTypeOK'
  BY <1>26 DEF DeadlinePasses
<1>27. ASSUME NEW t \in Streams, CloseStream(t) PROVE HandoffTypeOK'
  BY <1>27 DEF CloseStream
<1>28. ASSUME NEW t \in Streams, CallerDies(t) PROVE HandoffTypeOK'
  BY <1>28 DEF CallerDies
<1>29. ASSUME NEW t \in Streams, HandleOpenStream(t) PROVE HandoffTypeOK'
  BY <1>29 DEF HandleOpenStream
<1>30. ASSUME NEW t \in Streams, HandleStreamFailed(t) PROVE HandoffTypeOK'
  BY <1>30 DEF HandleStreamFailed, FailEntries
<1>31. ASSUME NEW t \in Streams, HandlerKilled(t) PROVE HandoffTypeOK'
  BY <1>31 DEF HandlerKilled
<1>32. ASSUME NEW t \in Streams, ChildDials(t) PROVE HandoffTypeOK'
  BY <1>32 DEF ChildDials
<1>33. ASSUME NEW t \in Streams, AttachFails(t) PROVE HandoffTypeOK'
  BY <1>33 DEF AttachFails
<1>34. ASSUME NEW t \in Streams, RelayEnds(t) PROVE HandoffTypeOK'
  BY <1>34 DEF RelayEnds
<1>35. ASSUME NEW t \in Streams, ChildTerminated(t) PROVE HandoffTypeOK'
  BY <1>35 DEF ChildTerminated
<1>36. CASE UNCHANGED handoffVars
  BY <1>36
<1>37. ASSUME NEW t \in Streams, CallerStep(t) PROVE HandoffTypeOK'
  BY <1>37, <1>7, <1>8, <1>9, <1>10, <1>11, <1>12, <1>13, <1>14, <1>15, <1>16, <1>17, <1>18 DEF
     CallerStep
<1>38. ASSUME NEW t \in Streams, HandlerStep(t) PROVE HandoffTypeOK'
  BY <1>38, <1>19, <1>20, <1>21, <1>22, <1>23, <1>24 DEF HandlerStep
<1>39. CASE PendingStep
  BY <1>39, <1>4, <1>25 DEF PendingStep
<1> QED
  BY <1>1, <1>2, <1>3, <1>5, <1>6, <1>26, <1>27, <1>28, <1>29, <1>30, <1>31, <1>32, <1>33,
     <1>34, <1>35, <1>36, <1>37, <1>38, <1>39 DEF HandoffNext

\* Every step keeps the invariant of every stream.
LEMMA StreamStep ==
  ASSUME HandoffInv, [HandoffNext]_handoffVars, NEW s \in Streams
  PROVE  StreamInv(s)'
<1> HandoffTypeOK /\ StreamInv(s)
  BY DEF HandoffInv
<1> USE DEF HandoffTypeOK, StreamInv, Fresh, Waited, Handed, Answered, Released, Settled,
            Given, Unanswered, Claimed, Errors, Ended, Waiting
<1>1. CASE BecomeReady
  BY <1>1 DEF BecomeReady
<1>2. CASE Unregister
  BY <1>2 DEF Unregister
<1>3. CASE PendingRestarts
  BY <1>3 DEF PendingRestarts
<1>4. ASSUME NEW c \in 1..MaxConnections, PendingSeesConnectionDown(c) PROVE StreamInv(s)'
  BY <1>4 DEF PendingSeesConnectionDown, FailEntries
<1>5. ASSUME NEW c \in 1..MaxConnections, ControlLost(c) PROVE StreamInv(s)'
  BY <1>5 DEF ControlLost, FailEntries
<1>6. ASSUME NEW c \in 1..MaxConnections, ConnectionKilled(c) PROVE StreamInv(s)'
  BY <1>6 DEF ConnectionKilled
<1>7. ASSUME NEW t \in Streams, OpenUntil(t) PROVE StreamInv(s)'
  BY <1>7 DEF OpenUntil
<1>8. ASSUME NEW t \in Streams, Register(t) PROVE StreamInv(s)'
  BY <1>8 DEF Register
<1>9. ASSUME NEW t \in Streams, OpenStreamExits(t) PROVE StreamInv(s)'
  BY <1>9 DEF OpenStreamExits
<1>10. ASSUME NEW t \in Streams, ReceiveFailed(t) PROVE StreamInv(s)'
  BY <1>10 DEF ReceiveFailed
<1>11. ASSUME NEW t \in Streams, ReceiveClaimed(t) PROVE StreamInv(s)'
  BY <1>11 DEF ReceiveClaimed
<1>12. ASSUME NEW t \in Streams, AwaitTimesOut(t) PROVE StreamInv(s)'
  BY <1>12 DEF AwaitTimesOut
<1>13. ASSUME NEW t \in Streams, Abandon(t) PROVE StreamInv(s)'
  BY <1>13 DEF Abandon
<1>14. ASSUME NEW t \in Streams, DrainFindsNothing(t) PROVE StreamInv(s)'
  BY <1>14 DEF DrainFindsNothing
<1>15. ASSUME NEW t \in Streams, ReceiveAttached(t) PROVE StreamInv(s)'
  BY <1>15 DEF ReceiveAttached
<1>16. ASSUME NEW t \in Streams, HandlerDown(t) PROVE StreamInv(s)'
  BY <1>16 DEF HandlerDown
<1>17. ASSUME NEW t \in Streams, HandoffAbandoned(t) PROVE StreamInv(s)'
  BY <1>17 DEF HandoffAbandoned
<1>18. ASSUME NEW t \in Streams, AbandonHandoff(t) PROVE StreamInv(s)'
  BY <1>18 DEF AbandonHandoff, GaveUp
<1>19. ASSUME NEW t \in Streams, Attach(t) PROVE StreamInv(s)'
  BY <1>19 DEF Attach
<1>20. ASSUME NEW t \in Streams, MoveSocket(t) PROVE StreamInv(s)'
  BY <1>20 DEF MoveSocket
<1>21. ASSUME NEW t \in Streams, SendAttached(t) PROVE StreamInv(s)'
  BY <1>21 DEF SendAttached
<1>22. ASSUME NEW t \in Streams, TellCaller(t) PROVE StreamInv(s)'
  BY <1>22 DEF TellCaller
<1>23. ASSUME NEW t \in Streams, HandoffFails(t) PROVE StreamInv(s)'
  BY <1>23 DEF HandoffFails
<1>24. ASSUME NEW t \in Streams, HandlerSeesOwnerDown(t) PROVE StreamInv(s)'
  BY <1>24 DEF HandlerSeesOwnerDown
<1>25. ASSUME NEW t \in Streams, PendingSeesCallerDown(t) PROVE StreamInv(s)'
  BY <1>25 DEF PendingSeesCallerDown
<1>26. ASSUME NEW t \in Streams, DeadlinePasses(t) PROVE StreamInv(s)'
  BY <1>26 DEF DeadlinePasses
<1>27. ASSUME NEW t \in Streams, CloseStream(t) PROVE StreamInv(s)'
  BY <1>27 DEF CloseStream
<1>28. ASSUME NEW t \in Streams, CallerDies(t) PROVE StreamInv(s)'
  BY <1>28 DEF CallerDies
<1>29. ASSUME NEW t \in Streams, HandleOpenStream(t) PROVE StreamInv(s)'
  BY <1>29 DEF HandleOpenStream
<1>30. ASSUME NEW t \in Streams, HandleStreamFailed(t) PROVE StreamInv(s)'
  BY <1>30 DEF HandleStreamFailed, FailEntries
<1>31. ASSUME NEW t \in Streams, HandlerKilled(t) PROVE StreamInv(s)'
  BY <1>31 DEF HandlerKilled
<1>32. ASSUME NEW t \in Streams, ChildDials(t) PROVE StreamInv(s)'
  BY <1>32 DEF ChildDials
<1>33. ASSUME NEW t \in Streams, AttachFails(t) PROVE StreamInv(s)'
  BY <1>33 DEF AttachFails
<1>34. ASSUME NEW t \in Streams, RelayEnds(t) PROVE StreamInv(s)'
  BY <1>34 DEF RelayEnds
<1>35. ASSUME NEW t \in Streams, ChildTerminated(t) PROVE StreamInv(s)'
  BY <1>35 DEF ChildTerminated
<1>36. CASE UNCHANGED handoffVars
  BY <1>36
<1>37. ASSUME NEW t \in Streams, CallerStep(t) PROVE StreamInv(s)'
  BY <1>37, <1>7, <1>8, <1>9, <1>10, <1>11, <1>12, <1>13, <1>14, <1>15, <1>16, <1>17, <1>18 DEF
     CallerStep
<1>38. ASSUME NEW t \in Streams, HandlerStep(t) PROVE StreamInv(s)'
  BY <1>38, <1>19, <1>20, <1>21, <1>22, <1>23, <1>24 DEF HandlerStep
<1>39. CASE PendingStep
  BY <1>39, <1>4, <1>25 DEF PendingStep
<1> QED
  BY <1>1, <1>2, <1>3, <1>5, <1>6, <1>26, <1>27, <1>28, <1>29, <1>30, <1>31, <1>32, <1>33,
     <1>34, <1>35, <1>36, <1>37, <1>38, <1>39 DEF HandoffNext

\* The invariant holds from the start on.
THEOREM HandoffInvariant == HandoffSpec => []HandoffInv
<1>1. HandoffInit => HandoffInv
  BY HandoffConstants
     DEF HandoffInit, HandoffInv, HandoffTypeOK, StreamInv, Fresh, Waited, Handed, Answered,
         Released, Settled, Given, Unanswered, Claimed, Errors, Ended, Waiting
<1>2. HandoffInv /\ [HandoffNext]_handoffVars => HandoffInv'
  BY TypeStep, StreamStep DEF HandoffInv
<1> QED
  BY <1>1, <1>2, PTL DEF HandoffSpec

\* HandoffTypeOK, for any number of streams, connections and restarts.
THEOREM HandoffTypeTheorem == HandoffSpec => []HandoffTypeOK
<1>1. HandoffInv => HandoffTypeOK
  BY DEF HandoffInv
<1> QED
  BY <1>1, HandoffInvariant, PTL

\* NoSocketLeft: an open that returned an error leaves the caller no socket.
THEOREM NoSocketLeftTheorem == HandoffSpec => []NoSocketLeft
<1>1. HandoffInv => NoSocketLeft
  BY DEF HandoffInv, StreamInv, Released, Given, NoSocketLeft
<1> QED
  BY <1>1, HandoffInvariant, PTL

\* OneAnswer: a stream is claimed or reported as failed, never both, and the
\* caller that lost against whoever took its entry finds the answer.
THEOREM OneAnswerTheorem == HandoffSpec => []OneAnswer
<1>1. ASSUME HandoffInv, NEW s \in Streams, handler[s] \in Claimed
      PROVE  "failed" \notin mailbox[s] /\ caller[s] # "refused"
  BY <1>1 DEF HandoffInv, StreamInv, Handed, Released, Given, Errors
<1>2. ASSUME HandoffInv, NEW s \in Streams, caller[s] = "drain", restarts = 0
      PROVE  mailbox[s] \cap {"failed", "claimed"} # {}
  <2>1. Waited(s) /\ Answered(s)
    BY <1>2 DEF HandoffInv, StreamInv
  <2>2. ~Unanswered(s)
    BY <1>2, <2>1 DEF Waited, Answered
  <2> QED
    BY <2>2 DEF Unanswered
<1>3. HandoffInv => OneAnswer
  BY <1>1, <1>2 DEF OneAnswer
<1> QED
  BY <1>3, HandoffInvariant, PTL

\* SendsToOwner: the node sends nothing before the caller controls the socket.
THEOREM SendsToOwnerTheorem == HandoffSpec => []SendsToOwner
<1>1. HandoffInv => SendsToOwner
  BY DEF HandoffInv, StreamInv, Settled, SendsToOwner
<1> QED
  BY <1>1, HandoffInvariant, PTL
=============================================================================
