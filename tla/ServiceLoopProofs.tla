-------------------------- MODULE ServiceLoopProofs --------------------------
(***************************************************************************)
(* What holds of ServiceLoop for any number of calls, notifications and    *)
(* remote requests, any ids and any capacity of the channels.              *)
(***************************************************************************)
EXTENDS ServiceLoop, SequenceTheorems, TLAPS

USE DEF callVars, noteVars, poolVars, wireVars, handlerVars, loopVars

\* What is appended to a queue is in it, and nothing leaves.
LEMMA AppendKeeps ==
    ASSUME NEW S, NEW s \in Seq(S), NEW x \in S, NEW u
    PROVE  (\E k \in DOMAIN Append(s, x) : Append(s, x)[k] = u)
             <=> u = x \/ \E k \in DOMAIN s : s[k] = u
  <1>1. /\ DOMAIN s = 1 .. Len(s) /\ Len(s) \in Nat
        /\ DOMAIN Append(s, x) = 1 .. (Len(s) + 1)
        /\ Append(s, x)[Len(s) + 1] = x
        /\ \A k \in 1 .. Len(s) : Append(s, x)[k] = s[k]
    BY AppendProperties, LenProperties
  <1>2. \A k \in 1 .. (Len(s) + 1) : k = Len(s) + 1 \/ k \in 1 .. Len(s)
    BY <1>1
  <1>3. 1 .. Len(s) \subseteq 1 .. (Len(s) + 1) /\ Len(s) + 1 \in 1 .. (Len(s) + 1)
    BY <1>1
  <1>. QED  BY <1>1, <1>2, <1>3, Zenon

\* Taking the head of a queue leaves every other element.
LEMMA TailKeeps ==
    ASSUME NEW S, NEW s \in Seq(S), s # <<>>, NEW u
    PROVE  (\E k \in DOMAIN s : s[k] = u)
             <=> u = Head(s) \/ \E k \in DOMAIN Tail(s) : Tail(s)[k] = u
  <1>1. /\ DOMAIN s = 1 .. Len(s) /\ Len(s) \in Nat \ {0}
        /\ DOMAIN Tail(s) = 1 .. (Len(s) - 1)
        /\ Head(s) = s[1]
        /\ \A k \in 1 .. (Len(s) - 1) : Tail(s)[k] = s[k + 1]
    BY HeadTailProperties, LenProperties, EmptySeq
  <1>2. \A k \in 1 .. Len(s) : k = 1 \/ (k - 1 \in 1 .. (Len(s) - 1) /\ (k - 1) + 1 = k)
    BY <1>1
  <1>3. ASSUME NEW k \in 1 .. Len(s), s[k] = u
        PROVE  u = Head(s) \/ \E j \in DOMAIN Tail(s) : Tail(s)[j] = u
    <2>1. CASE k = 1
      BY <2>1, <1>1, <1>3
    <2>2. CASE k - 1 \in 1 .. (Len(s) - 1) /\ (k - 1) + 1 = k
      BY <2>2, <1>1, <1>3
    <2>. QED  BY <2>1, <2>2, <1>2
  <1>4. ASSUME u = Head(s) \/ \E j \in DOMAIN Tail(s) : Tail(s)[j] = u
        PROVE  \E k \in DOMAIN s : s[k] = u
    <2>1. CASE u = Head(s)
      BY <2>1, <1>1
    <2>2. ASSUME NEW j \in DOMAIN Tail(s), Tail(s)[j] = u
          PROVE  \E k \in DOMAIN s : s[k] = u
      <3>1. j + 1 \in 1 .. Len(s)  BY <1>1
      <3>. QED  BY <3>1, <2>2, <1>1
    <2>. QED  BY <1>4, <2>1, <2>2
  <1>. QED  BY <1>1, <1>3, <1>4
\* ---- typing
\* What an outcome may be.
LEMMA OutcomeType ==
    ASSUME NEW k \in {"TransportSend", "Cancelled", "TransportClosed"} \cup Answers,
           NEW c \in Calls \cup {None}
    PROVE  Outcome(k, c) \in Boxes /\ Outcome(k, c) # Empty
  BY DEF Outcome, Boxes, Empty, Answers

\* Resolving a request keeps the types of the pool and of the oneshot channels.
LEMMA ResolveType ==
    ASSUME TypeOK, NEW i, NEW o \in Boxes, Resolve(i, o)
    PROVE  box' \in [Calls -> Boxes] /\ responders' \in [Ids -> Calls \cup {None}]
  BY DEF TypeOK, Resolve

\* Every message of the remote is one that a batch may hold.
LEMMA InboundType ==
    ASSUME TypeOK
    PROVE  /\ Inbound \subseteq Inbounds
           /\ Batches \subseteq Seq(Inbounds)
  <1>1. Answer \subseteq Inbounds /\ Solicitation \subseteq Inbounds
    BY DEF TypeOK, Answer, Solicitation, Fresh, Inbounds
  <1>2. ASSUME NEW n \in 1 .. MaxBatch, NEW b \in [1 .. n -> Answer] \cup [1 .. n -> Solicitation]
        PROVE  b \in Seq(Inbounds)
    <2>1. b \in [1 .. n -> Inbounds] /\ n \in Nat
      BY <1>1, <1>2
    <2>. QED  BY <2>1, IsASeq
  <1>. QED  BY <1>1, <1>2 DEF Inbound, Batches

\* One message of the remote, whichever it is, keeps the types of all that the loop
\* changes for it.
LEMMA ProcessType ==
    ASSUME TypeOK, NEW m \in Inbounds, Process(m)
    PROVE  /\ box' \in [Calls -> Boxes] /\ responders' \in [Ids -> Calls \cup {None}]
           /\ toSink' \in Seq(Requests) /\ Len(toSink') <= SinkCap
           /\ ctPool' \in [RemoteIds -> Requests \cup {None}]
           /\ cancelled' \subseteq Requests /\ cancelAsked' \subseteq RemoteIds
           /\ handler' \in [Requests -> {"none", "running", "finished", "queued", "sending",
                                         "sent", "lost", "panicked"}]
  <1>1. CASE m[1] = "request" /\ ProcessRequest(m[2])
    BY <1>1 DEF TypeOK, Inbounds, ProcessRequest, RemoteIds
  <1>2. CASE m[1] = "cancelled" /\ ProcessCancelled(m[2])
    BY <1>2 DEF TypeOK, Inbounds, ProcessCancelled, CancelToken
  <1>3. CASE m[1] = "notification" /\ UNCHANGED <<poolVars, handlerVars>>
    BY <1>3 DEF TypeOK
  <1>4. ASSUME NEW k \in Answers, m[2] \in Calls, ProcessAnswer(m[2], k)
        PROVE  /\ box' \in [Calls -> Boxes] /\ responders' \in [Ids -> Calls \cup {None}]
               /\ UNCHANGED handlerVars
    <2>1. Outcome(k, m[2]) \in Boxes  BY <1>4, OutcomeType
    <2>2. Resolve(callId[m[2]], Outcome(k, m[2])) /\ UNCHANGED handlerVars
      BY <1>4 DEF ProcessAnswer
    <2>. QED  BY <2>1, <2>2, ResolveType
  <1>5. CASE m[1] = "response" /\ ProcessAnswer(m[2], "Ok")
    <2>1. m[2] \in Calls /\ "Ok" \in Answers  BY <1>5 DEF Inbounds, Answers
    <2>. QED  BY <2>1, <1>4, <1>5 DEF TypeOK
  <1>6. CASE m[1] = "error" /\ ProcessAnswer(m[2], "McpError")
    <2>1. m[2] \in Calls /\ "McpError" \in Answers  BY <1>6 DEF Inbounds, Answers
    <2>. QED  BY <2>1, <1>4, <1>6 DEF TypeOK
  <1>. QED  BY <1>1, <1>2, <1>3, <1>5, <1>6 DEF Process

\* Type correctness, for every value of the constants.
THEOREM Typing == Spec => []TypeOK
  <1>. USE ServiceLoopAssumption
  <1>1. Init => TypeOK
    <2>. SUFFICES ASSUME Init PROVE TypeOK
      OBVIOUS
    <2>1. 0 \in Ids
      BY DEF Ids, ServiceLoopAssumption
    <2>2. Empty \in Boxes
      BY DEF Boxes
    <2>3. /\ proxy \in Seq(Units) /\ Len(proxy) <= ProxyCap
          /\ toSink \in Seq(Requests) /\ Len(toSink) <= SinkCap
          /\ batch \in Seq(Inbounds)
      BY DEF Init, ServiceLoopAssumption
    <2>. QED  BY <2>1, <2>2, <2>3 DEF Init, TypeOK, Results
  <1>2. TypeOK /\ [Next]_vars => TypeOK'
    <2>. SUFFICES ASSUME TypeOK, [Next]_vars PROVE TypeOK'
      OBVIOUS
    <2>1. ASSUME NEW c \in Calls, AllocId(c) PROVE TypeOK'
      BY <2>1 DEF TypeOK, AllocId, Ids, NextId
    <2>2. ASSUME NEW c \in Calls, EnqueueRequest(c) PROVE TypeOK'
      BY <2>2 DEF TypeOK, EnqueueRequest, RequestOf, Units
    <2>3. ASSUME NEW c \in Calls, EnqueueClosed(c) PROVE TypeOK'
      BY <2>3 DEF TypeOK, EnqueueClosed, Results
    <2>4. ASSUME NEW c \in Calls, AwaitResponse(c) PROVE TypeOK'
      BY <2>4 DEF TypeOK, AwaitResponse
    <2>5. ASSUME NEW c \in Calls, TakeResponse(c) PROVE TypeOK'
      BY <2>5 DEF TypeOK, TakeResponse, Boxes, Results, Answers
    <2>6. ASSUME NEW c \in Calls, TimeOut(c) PROVE TypeOK'
      BY <2>6 DEF TypeOK, TimeOut, StartCancelling, Notifiers
    <2>7. ASSUME NEW c \in Calls, CancelCall(c) PROVE TypeOK'
      BY <2>7 DEF TypeOK, CancelCall, StartCancelling, Notifiers
    <2>8. ASSUME NEW c \in Calls, FinishCancelling(c) PROVE TypeOK'
      BY <2>8 DEF TypeOK, FinishCancelling, Results, NoteResults
    <2>9. ASSUME NEW c \in Calls, DropCall(c) PROVE TypeOK'
      BY <2>9 DEF TypeOK, DropCall
    <2>10. ASSUME NEW c \in Calls, Deliver(c) PROVE TypeOK'
      BY <2>10 DEF TypeOK, Deliver
    <2>11. ASSUME NEW c \in Calls, LoopProxyRequest(c) PROVE TypeOK'
      <3>1. Outcome("TransportClosed", None) \in Boxes  BY OutcomeType
      <3>2. box' \in [Calls -> Boxes] /\ responders' \in [Ids -> Calls \cup {None}]
        BY <2>11, <3>1 DEF TypeOK, LoopProxyRequest, Register
      <3>3. Len(proxy') <= ProxyCap /\ proxy' \in Seq(Units)
        BY <2>11, HeadTailProperties DEF TypeOK, LoopProxyRequest, ServiceLoopAssumption
      <3>. QED  BY <2>11, <3>2, <3>3 DEF TypeOK, LoopProxyRequest, Spawn
    <2>12. ASSUME NEW c \in Calls, LoopJoinSent(c) PROVE TypeOK'
      BY <2>12 DEF TypeOK, LoopJoinSent, Joins
    <2>13. ASSUME NEW c \in Calls, LoopJoinNotSent(c) PROVE TypeOK'
      <3>1. Outcome("TransportSend", None) \in Boxes  BY OutcomeType
      <3>2. box' \in [Calls -> Boxes] /\ responders' \in [Ids -> Calls \cup {None}]
        BY <2>13, <3>1, ResolveType DEF LoopJoinNotSent
      <3>. QED  BY <2>13, <3>2 DEF TypeOK, LoopJoinNotSent, Joins
    <2>14. ASSUME NEW k \in Notes, SendNotification(k) PROVE TypeOK'
      BY <2>14 DEF TypeOK, SendNotification, Notifiers
    <2>15. ASSUME NEW k \in Notifiers, EnqueueNote(k) PROVE TypeOK'
      BY <2>15 DEF TypeOK, EnqueueNote, NoteOf, Units
    <2>16. ASSUME NEW k \in Notifiers, EnqueueNoteClosed(k) PROVE TypeOK'
      BY <2>16 DEF TypeOK, EnqueueNoteClosed, NoteResults
    <2>17. ASSUME NEW k \in Notifiers, LoopProxyNote(k) PROVE TypeOK'
      BY <2>17 DEF TypeOK, LoopProxyNote, Spawn
    <2>18. ASSUME NEW k \in Notifiers, LoopJoinNote(k) PROVE TypeOK'
      <3>1. Outcome("Cancelled", None) \in Boxes  BY OutcomeType
      <3>2. box' \in [Calls -> Boxes] /\ responders' \in [Ids -> Calls \cup {None}]
        BY <2>18, <3>1, ResolveType DEF LoopJoinNote, TypeOK
      <3>3. note' \in [Notifiers -> {"idle", "enqueue", "waiting"} \cup NoteResults]
        BY <2>18 DEF LoopJoinNote, AnswerNotifier, NoteResults, TypeOK
      <3>. QED  BY <2>18, <3>2, <3>3 DEF TypeOK, LoopJoinNote, Joins
    <2>19. ASSUME NEW u \in Units, SendSucceeds(u) PROVE TypeOK'
      BY <2>19 DEF TypeOK, SendSucceeds, FinishTask
    <2>20. ASSUME NEW u \in Units, SendFails(u) PROVE TypeOK'
      BY <2>20 DEF TypeOK, SendFails, FinishTask
    <2>21. ASSUME NEW u \in Units, SendPanics(u) PROVE TypeOK'
      BY <2>21 DEF TypeOK, SendPanics, FinishTask, NoteResults, Units
    <2>22. ASSUME NEW u \in Units, LoopJoinError(u) PROVE TypeOK'
      BY <2>22 DEF TypeOK, LoopJoinError, Joins, Quit
    <2>23. ASSUME NEW h \in Requests, HandlerFinish(h) PROVE TypeOK'
      BY <2>23 DEF TypeOK, HandlerFinish, HandlerStep
    <2>24. ASSUME NEW h \in Requests, HandlerPanics(h) PROVE TypeOK'
      BY <2>24 DEF TypeOK, HandlerPanics, HandlerStep
    <2>25. ASSUME NEW h \in Requests, HandlerRespond(h) PROVE TypeOK'
      BY <2>25 DEF TypeOK, HandlerRespond, HandlerStep
    <2>26. ASSUME NEW h \in Requests, HandlerRespondClosed(h) PROVE TypeOK'
      BY <2>26 DEF TypeOK, HandlerRespondClosed, HandlerStep
    <2>27. ASSUME NEW h \in Requests, ReplyEnds(h) PROVE TypeOK'
      BY <2>27 DEF TypeOK, ReplyEnds, HandlerStep
    <2>28. CASE LoopPeerMessage
      <3>1. PICK m \in Inbound : Process(m) /\ answered' = answered \cup AnsweredBy({m})
        BY <2>28 DEF LoopPeerMessage
      <3>2. m \in Inbounds  BY InboundType
      <3>. QED  BY <2>28, <3>1, <3>2, ProcessType DEF TypeOK, LoopPeerMessage, AnsweredBy
    <2>29. CASE LoopPeerBatch
      BY <2>29, InboundType DEF TypeOK, LoopPeerBatch, AnsweredBy
    <2>30. CASE LoopPopBatch
      <3>1. Head(batch) \in Inbounds /\ Tail(batch) \in Seq(Inbounds)
        BY <2>30, HeadTailProperties DEF TypeOK, LoopPopBatch
      <3>. QED  BY <2>30, <3>1, ProcessType DEF TypeOK, LoopPopBatch
    <2>31. CASE LoopToSink
      <3>1. Head(toSink) \in Requests /\ Tail(toSink) \in Seq(Requests) /\ Len(Tail(toSink)) <= SinkCap
        BY <2>31, HeadTailProperties DEF TypeOK, LoopToSink
      <3>. QED  BY <2>31, <3>1 DEF TypeOK, LoopToSink, CancelToken
    <2>32. CASE LoopClosed
      BY <2>32 DEF TypeOK, LoopClosed, Quit
    <2>33. CASE LoopCancelled
      BY <2>33 DEF TypeOK, LoopCancelled, Quit
    <2>34. CASE LoopEnd
      <3>1. Outcome("TransportClosed", None) \in Boxes  BY OutcomeType
      <3>2. box' \in [Calls -> Boxes]
        BY <2>34, <3>1 DEF TypeOK, LoopEnd
      <3>3. /\ note' \in [Notifiers -> {"idle", "enqueue", "waiting"} \cup NoteResults]
            /\ task' \in [Units -> {"none", "sending", "ok", "err", "panic", "joined", "failed"}]
        BY <2>34 DEF TypeOK, LoopEnd, NoteResults
      <3>4. /\ proxy' \in Seq(Units) /\ Len(proxy') <= ProxyCap
            /\ toSink' \in Seq(Requests) /\ Len(toSink') <= SinkCap
        BY <2>34 DEF LoopEnd, ServiceLoopAssumption
      <3>. QED  BY <2>34, <3>2, <3>3, <3>4 DEF TypeOK, LoopEnd
    <2>35. CASE CancelService
      BY <2>35 DEF TypeOK, CancelService
    <2>36. CASE UNCHANGED vars
      BY <2>36 DEF TypeOK, vars
    <2>. QED
      BY <2>1, <2>2, <2>3, <2>4, <2>5, <2>6, <2>7, <2>8, <2>9, <2>10, <2>11, <2>12,
         <2>13, <2>14, <2>15, <2>16, <2>17, <2>18, <2>19, <2>20, <2>21, <2>22, <2>23, <2>24,
         <2>25, <2>26, <2>27, <2>28, <2>29, <2>30, <2>31, <2>32, <2>33, <2>34, <2>35, <2>36
      DEF Next, CallStep, NoteStep, TaskStep, HandlerTask, LoopStep, Terminated
  <1>. QED  BY <1>1, <1>2, PTL DEF Spec

\* What is queued after a message enters the peer channel.
LEMMA QueuedAfterSend ==
    ASSUME TypeOK, NEW x \in Units, proxy' = Append(proxy, x), NEW u
    PROVE  Queued(u)' <=> u = x \/ Queued(u)
  <1>1. proxy \in Seq(Units)  BY DEF TypeOK
  <1>2. (\E k \in DOMAIN Append(proxy, x) : Append(proxy, x)[k] = u)
          <=> u = x \/ \E k \in DOMAIN proxy : proxy[k] = u
    BY <1>1, AppendKeeps
  <1>. QED  BY <1>2 DEF Queued

\* What is queued after the head of the peer channel leaves it.
LEMMA QueuedAfterReceive ==
    ASSUME TypeOK, proxy # <<>>, proxy' = Tail(proxy), NEW u
    PROVE  Queued(u) <=> u = Head(proxy) \/ Queued(u)'
  <1>1. proxy \in Seq(Units)  BY DEF TypeOK
  <1>2. (\E k \in DOMAIN proxy : proxy[k] = u)
          <=> u = Head(proxy) \/ \E k \in DOMAIN Tail(proxy) : Tail(proxy)[k] = u
    BY <1>1, TailKeeps
  <1>. QED  BY <1>2 DEF Queued

\* Resolving any request leaves every caller known to the loop or answered.
LEMMA ResolveKeepsCallers ==
    ASSUME TypeOK, Registered, NoOrphanedCaller, NEW i, NEW o, o # Empty,
           Resolve(i, o), UNCHANGED <<pc, callId, proxy>>, loop' # "ended"
    PROVE  Registered' /\ NoOrphanedCaller'
  <1>1. Registered'
    BY DEF Registered, Queued
  <1>2. ASSUME NEW c \in Calls, Unresolved(c)'
        PROVE  Queued(RequestOf(c))' \/ (responders[callId[c]] = c)'
    <2>1. responders[i] # c /\ Unresolved(c)
      BY <1>2 DEF Resolve, Unresolved
    <2>2. CASE Queued(RequestOf(c))
      BY <2>2 DEF Queued
    <2>3. CASE responders[callId[c]] = c
      <3>1. callId[c] \in Ids /\ callId[c] # i
        BY <2>1, <2>3 DEF Registered, Unresolved
      <3>. QED  BY <2>3, <3>1 DEF Resolve, TypeOK
    <2>. QED  BY <2>1, <2>2, <2>3 DEF NoOrphanedCaller
  <1>. QED  BY <1>1, <1>2 DEF NoOrphanedCaller

\* One message of the remote leaves every caller known to the loop or answered.
LEMMA ProcessKeepsCallers ==
    ASSUME TypeOK, Registered, NoOrphanedCaller, NEW m \in Inbounds, Process(m),
           UNCHANGED <<pc, callId, proxy, loop>>, loop # "ended"
    PROVE  Registered' /\ NoOrphanedCaller'
  <1>1. CASE UNCHANGED poolVars
    BY <1>1 DEF Registered, NoOrphanedCaller, Unresolved, Queued
  <1>2. ASSUME NEW c \in Calls, NEW k \in Answers, Resolve(callId[c], Outcome(k, c))
        PROVE  Registered' /\ NoOrphanedCaller'
    <2>1. Outcome(k, c) # Empty  BY OutcomeType
    <2>. QED  BY <1>2, <2>1, ResolveKeepsCallers
  <1>. QED
    BY <1>1, <1>2 DEF Process, ProcessRequest, ProcessCancelled, ProcessAnswer, Inbounds, Answers

\* The callers are known to the loop, and found under the ids they were given.
LEMMA CallersRegistered == Spec => [](Registered /\ NoOrphanedCaller)
  <1>1. Init => Registered /\ NoOrphanedCaller
    BY DEF Init, Registered, NoOrphanedCaller, Unresolved, Queued
  <1>2. TypeOK /\ TypeOK' /\ Registered /\ NoOrphanedCaller /\ [Next]_vars
          => Registered' /\ NoOrphanedCaller'
    <2>. SUFFICES ASSUME TypeOK, TypeOK', Registered, NoOrphanedCaller, [Next]_vars
                  PROVE  Registered' /\ NoOrphanedCaller'
      OBVIOUS
    <2>. USE DEF Registered, NoOrphanedCaller, Unresolved
    <2>1. ASSUME NEW c \in Calls, AllocId(c) PROVE Registered' /\ NoOrphanedCaller'
      BY <2>1 DEF TypeOK, Queued, AllocId
    <2>2. ASSUME NEW c \in Calls, EnqueueRequest(c) PROVE Registered' /\ NoOrphanedCaller'
      <3>1. RequestOf(c) \in Units  BY DEF RequestOf, Units
      <3>2. \A u : Queued(u)' <=> u = RequestOf(c) \/ Queued(u)
        BY <2>2, <3>1, QueuedAfterSend DEF EnqueueRequest
      <3>3. \A d \in Calls : RequestOf(d) = RequestOf(c) <=> d = c
        BY DEF RequestOf
      <3>. QED  BY <2>2, <3>2, <3>3 DEF EnqueueRequest, TypeOK
    <2>3. ASSUME NEW c \in Calls, EnqueueClosed(c) PROVE Registered' /\ NoOrphanedCaller'
      BY <2>3 DEF TypeOK, Queued, EnqueueClosed
    <2>4. ASSUME NEW c \in Calls, AwaitResponse(c) PROVE Registered' /\ NoOrphanedCaller'
      BY <2>4 DEF TypeOK, Queued, AwaitResponse
    <2>5. ASSUME NEW c \in Calls, TakeResponse(c) PROVE Registered' /\ NoOrphanedCaller'
      BY <2>5 DEF TypeOK, Queued, TakeResponse
    <2>6. ASSUME NEW c \in Calls, TimeOut(c) PROVE Registered' /\ NoOrphanedCaller'
      BY <2>6 DEF TypeOK, Queued, TimeOut, StartCancelling
    <2>7. ASSUME NEW c \in Calls, CancelCall(c) PROVE Registered' /\ NoOrphanedCaller'
      BY <2>7 DEF TypeOK, Queued, CancelCall, StartCancelling
    <2>8. ASSUME NEW c \in Calls, FinishCancelling(c) PROVE Registered' /\ NoOrphanedCaller'
      BY <2>8 DEF TypeOK, Queued, FinishCancelling
    <2>9. ASSUME NEW c \in Calls, DropCall(c) PROVE Registered' /\ NoOrphanedCaller'
      BY <2>9 DEF TypeOK, Queued, DropCall
    <2>10. ASSUME NEW c \in Calls, Deliver(c) PROVE Registered' /\ NoOrphanedCaller'
      BY <2>10 DEF TypeOK, Queued, Deliver
    <2>11. ASSUME NEW c \in Calls, LoopProxyRequest(c) PROVE Registered' /\ NoOrphanedCaller'
      <3>1. \A u : Queued(u) <=> u = RequestOf(c) \/ Queued(u)'
        BY <2>11, QueuedAfterReceive DEF LoopProxyRequest
      <3>2. \A d \in Calls : RequestOf(d) = RequestOf(c) <=> d = c
        BY DEF RequestOf
      <3>3. callId[c] \in Ids
        BY <3>1
      <3>4. Outcome("TransportClosed", None) # Empty  BY OutcomeType
      <3>5. ASSUME NEW d \in Calls, Unresolved(d)'
            PROVE  Queued(RequestOf(d))' \/ (responders[callId[d]] = d)'
        <4>1. Unresolved(d) /\ responders[callId[c]] # d
          BY <2>11, <3>4, <3>5 DEF LoopProxyRequest, Register, TypeOK
        <4>. QED
          BY <2>11, <3>1, <3>2, <3>3, <4>1 DEF LoopProxyRequest, Register, TypeOK
      <3>. QED  BY <2>11, <3>1, <3>5 DEF LoopProxyRequest, Selecting
    <2>12. ASSUME NEW c \in Calls, LoopJoinSent(c) PROVE Registered' /\ NoOrphanedCaller'
      BY <2>12 DEF TypeOK, Queued, LoopJoinSent, Joins
    <2>13. ASSUME NEW c \in Calls, LoopJoinNotSent(c) PROVE Registered' /\ NoOrphanedCaller'
      <3>1. Outcome("TransportSend", None) # Empty  BY OutcomeType
      <3>. QED
        BY <2>13, <3>1, ResolveKeepsCallers DEF LoopJoinNotSent, Joins, Selecting
    <2>14. ASSUME NEW k \in Notes, SendNotification(k) PROVE Registered' /\ NoOrphanedCaller'
      BY <2>14 DEF TypeOK, Queued, SendNotification
    <2>15. ASSUME NEW k \in Notifiers, EnqueueNote(k) PROVE Registered' /\ NoOrphanedCaller'
      <3>1. NoteOf(k) \in Units  BY DEF NoteOf, Units
      <3>2. \A u : Queued(u)' <=> u = NoteOf(k) \/ Queued(u)
        BY <2>15, <3>1, QueuedAfterSend DEF EnqueueNote
      <3>3. \A d \in Calls : RequestOf(d) # NoteOf(k)
        BY DEF RequestOf, NoteOf
      <3>. QED  BY <2>15, <3>2, <3>3 DEF EnqueueNote
    <2>16. ASSUME NEW k \in Notifiers, EnqueueNoteClosed(k) PROVE Registered' /\ NoOrphanedCaller'
      BY <2>16 DEF TypeOK, Queued, EnqueueNoteClosed
    <2>17. ASSUME NEW k \in Notifiers, LoopProxyNote(k) PROVE Registered' /\ NoOrphanedCaller'
      <3>1. \A u : Queued(u) <=> u = NoteOf(k) \/ Queued(u)'
        BY <2>17, QueuedAfterReceive DEF LoopProxyNote
      <3>2. \A d \in Calls : RequestOf(d) # NoteOf(k)
        BY DEF RequestOf, NoteOf
      <3>. QED  BY <2>17, <3>1, <3>2 DEF LoopProxyNote, Selecting
    <2>18. ASSUME NEW k \in Notifiers, LoopJoinNote(k) PROVE Registered' /\ NoOrphanedCaller'
      <3>1. Outcome("Cancelled", None) # Empty  BY OutcomeType
      <3>2. CASE Cancels(k)
        BY <2>18, <3>1, <3>2, ResolveKeepsCallers DEF LoopJoinNote, Joins, Selecting
      <3>3. CASE ~Cancels(k)
        BY <2>18, <3>3 DEF LoopJoinNote, Joins, Queued
      <3>. QED  BY <3>2, <3>3
    <2>19. ASSUME NEW u \in Units, SendSucceeds(u) PROVE Registered' /\ NoOrphanedCaller'
      BY <2>19 DEF TypeOK, Queued, SendSucceeds, FinishTask
    <2>20. ASSUME NEW u \in Units, SendFails(u) PROVE Registered' /\ NoOrphanedCaller'
      BY <2>20 DEF TypeOK, Queued, SendFails, FinishTask
    <2>21. ASSUME NEW u \in Units, SendPanics(u) PROVE Registered' /\ NoOrphanedCaller'
      BY <2>21 DEF TypeOK, Queued, SendPanics, FinishTask
    <2>22. ASSUME NEW u \in Units, LoopJoinError(u) PROVE Registered' /\ NoOrphanedCaller'
      BY <2>22 DEF TypeOK, Queued, LoopJoinError, Joins, Quit
    <2>23. ASSUME NEW h \in Requests, HandlerFinish(h) PROVE Registered' /\ NoOrphanedCaller'
      BY <2>23 DEF TypeOK, Queued, HandlerFinish, HandlerStep
    <2>24. ASSUME NEW h \in Requests, HandlerPanics(h) PROVE Registered' /\ NoOrphanedCaller'
      BY <2>24 DEF TypeOK, Queued, HandlerPanics, HandlerStep
    <2>25. ASSUME NEW h \in Requests, HandlerRespond(h) PROVE Registered' /\ NoOrphanedCaller'
      BY <2>25 DEF TypeOK, Queued, HandlerRespond, HandlerStep
    <2>26. ASSUME NEW h \in Requests, HandlerRespondClosed(h) PROVE Registered' /\ NoOrphanedCaller'
      BY <2>26 DEF TypeOK, Queued, HandlerRespondClosed, HandlerStep
    <2>27. ASSUME NEW h \in Requests, ReplyEnds(h) PROVE Registered' /\ NoOrphanedCaller'
      BY <2>27 DEF TypeOK, Queued, ReplyEnds, HandlerStep
    <2>28. CASE LoopPeerMessage
      <3>1. PICK m \in Inbound : Process(m)
        BY <2>28 DEF LoopPeerMessage
      <3>2. m \in Inbounds  BY InboundType
      <3>. QED  BY <2>28, <3>1, <3>2, ProcessKeepsCallers DEF LoopPeerMessage, Selecting
    <2>29. CASE LoopPeerBatch
      BY <2>29 DEF TypeOK, Queued, LoopPeerBatch
    <2>30. CASE LoopPopBatch
      <3>1. Head(batch) \in Inbounds
        BY <2>30, HeadTailProperties DEF TypeOK, LoopPopBatch
      <3>. QED  BY <2>30, <3>1, ProcessKeepsCallers DEF LoopPopBatch
    <2>31. CASE LoopToSink
      BY <2>31 DEF TypeOK, Queued, LoopToSink, CancelToken
    <2>32. CASE LoopClosed
      BY <2>32 DEF TypeOK, Queued, LoopClosed, Quit
    <2>33. CASE LoopCancelled
      BY <2>33 DEF TypeOK, Queued, LoopCancelled, Quit
    <2>34. CASE LoopEnd
      <3>1. Outcome("TransportClosed", None) # Empty  BY OutcomeType
      <3>2. ASSUME NEW c \in Calls, pc[c] \in {"open", "awaiting"}  PROVE box'[c] # Empty
        <4>1. c \in Held \/ box[c] # Empty
          BY <3>2 DEF Held, Queued
        <4>. QED  BY <2>34, <3>1, <4>1 DEF LoopEnd
      <3>3. \A u : ~Queued(u)'
        BY <2>34 DEF LoopEnd, Queued
      <3>. QED  BY <2>34, <3>2, <3>3 DEF LoopEnd
    <2>35. CASE CancelService
      BY <2>35 DEF TypeOK, Queued, CancelService
    <2>36. CASE UNCHANGED vars
      BY <2>36 DEF TypeOK, Queued, vars
    <2>. QED
      BY <2>1, <2>2, <2>3, <2>4, <2>5, <2>6, <2>7, <2>8, <2>9, <2>10, <2>11, <2>12,
         <2>13, <2>14, <2>15, <2>16, <2>17, <2>18, <2>19, <2>20, <2>21, <2>22, <2>23, <2>24,
         <2>25, <2>26, <2>27, <2>28, <2>29, <2>30, <2>31, <2>32, <2>33, <2>34, <2>35, <2>36
      DEF Next, CallStep, NoteStep, TaskStep, HandlerTask, LoopStep, Terminated
  <1>. QED  BY <1>1, <1>2, Typing, PTL DEF Spec

\* No caller waits for an answer that the loop does not know it has to give.
THEOREM CallersKnown == Spec => []NoOrphanedCaller
  BY CallersRegistered, PTL

\* What concerns the senders of notifications is left alone by most steps: those of
\* the callers that send nothing, of the handlers, and of the loop that serves them.
LEMMA QuietSteps ==
    ASSUME Next
    PROVE  \/ UNCHANGED <<note, proxy, task, loop>>
           \/ \E c \in Calls : \/ EnqueueRequest(c) \/ TimeOut(c) \/ CancelCall(c)
                               \/ LoopProxyRequest(c) \/ LoopJoinSent(c) \/ LoopJoinNotSent(c)
           \/ \E n \in Notes : SendNotification(n)
           \/ \E n \in Notifiers : \/ EnqueueNote(n) \/ EnqueueNoteClosed(n)
                                   \/ LoopProxyNote(n) \/ LoopJoinNote(n)
           \/ \E u \in Units : \/ SendSucceeds(u) \/ SendFails(u) \/ SendPanics(u)
                               \/ LoopJoinError(u)
           \/ LoopClosed \/ LoopCancelled \/ LoopEnd
  <1>1. ASSUME NEW c \in Calls,
               AllocId(c) \/ EnqueueClosed(c) \/ AwaitResponse(c) \/ TakeResponse(c)
                 \/ FinishCancelling(c) \/ DropCall(c) \/ Deliver(c)
        PROVE  UNCHANGED <<note, proxy, task, loop>>
    BY <1>1 DEF AllocId, EnqueueClosed, AwaitResponse, TakeResponse, FinishCancelling,
                DropCall, Deliver
  <1>2. ASSUME NEW h \in Requests, HandlerTask(h)
        PROVE  UNCHANGED <<note, proxy, task, loop>>
    BY <1>2 DEF HandlerTask, HandlerFinish, HandlerPanics, HandlerRespond,
                HandlerRespondClosed, ReplyEnds, HandlerStep
  <1>3. LoopPeerMessage \/ LoopPeerBatch \/ LoopPopBatch \/ LoopToSink \/ CancelService
          \/ Terminated => UNCHANGED <<note, proxy, task, loop>>
    BY DEF LoopPeerMessage, LoopPeerBatch, LoopPopBatch, LoopToSink, CancelService,
           Terminated, vars
  <1>. QED
    BY <1>1, <1>2, <1>3 DEF Next, CallStep, NoteStep, TaskStep, LoopStep

\* No sender of a notification, and so no caller that cancels or times out, waits
\* for a report that nobody will make.
THEOREM NotifiersKnown == Spec => []NoOrphanedNotifier
  <1>1. Init => NoOrphanedNotifier
    BY DEF Init, NoOrphanedNotifier
  <1>2. TypeOK /\ TypeOK' /\ NoOrphanedNotifier /\ [Next]_vars => NoOrphanedNotifier'
    <2>. SUFFICES ASSUME TypeOK, TypeOK', NoOrphanedNotifier, [Next]_vars
                  PROVE  NoOrphanedNotifier'
      OBVIOUS
    <2>. USE DEF NoOrphanedNotifier
    <2>. DEFINE Known(n) == Queued(NoteOf(n)) \/ task[NoteOf(n)] \in {"sending", "ok", "err"}
    <2>1. CASE UNCHANGED <<note, proxy, task, loop>>
      BY <2>1 DEF Queued
    <2>2. ASSUME NEW c \in Calls, EnqueueRequest(c) PROVE NoOrphanedNotifier'
      <3>1. RequestOf(c) \in Units  BY DEF RequestOf, Units
      <3>2. \A u : Queued(u)' <=> u = RequestOf(c) \/ Queued(u)
        BY <2>2, <3>1, QueuedAfterSend DEF EnqueueRequest
      <3>. QED  BY <2>2, <3>2 DEF EnqueueRequest
    <2>3. ASSUME NEW c \in Calls, TimeOut(c) \/ CancelCall(c) PROVE NoOrphanedNotifier'
      BY <2>3 DEF TimeOut, CancelCall, StartCancelling, TypeOK, Queued
    <2>4. ASSUME NEW c \in Calls, LoopProxyRequest(c) PROVE NoOrphanedNotifier'
      <3>1. \A u : Queued(u) <=> u = RequestOf(c) \/ Queued(u)'
        BY <2>4, QueuedAfterReceive DEF LoopProxyRequest
      <3>2. ASSUME NEW n \in Notifiers
            PROVE  NoteOf(n) \in Units /\ NoteOf(n) # RequestOf(c)
        BY DEF NoteOf, RequestOf, Units
      <3>3. \A n \in Notifiers : Known(n) => Known(n)'
        BY <2>4, <3>1, <3>2 DEF LoopProxyRequest, Spawn, TypeOK
      <3>. QED  BY <2>4, <3>3 DEF LoopProxyRequest
    <2>5. ASSUME NEW c \in Calls, LoopJoinSent(c) \/ LoopJoinNotSent(c)
          PROVE  NoOrphanedNotifier'
      <3>1. ASSUME NEW n \in Notifiers
            PROVE  NoteOf(n) \in Units /\ NoteOf(n) # RequestOf(c)
        BY DEF NoteOf, RequestOf, Units
      <3>2. \A n \in Notifiers : Known(n) => Known(n)'
        BY <2>5, <3>1 DEF LoopJoinSent, LoopJoinNotSent, Joins, TypeOK, Queued
      <3>. QED  BY <2>5, <3>2 DEF LoopJoinSent, LoopJoinNotSent, Joins
    <2>6. ASSUME NEW k \in Notes, SendNotification(k) PROVE NoOrphanedNotifier'
      BY <2>6 DEF SendNotification, TypeOK, Queued, Notifiers
    <2>7. ASSUME NEW k \in Notifiers, EnqueueNote(k) PROVE NoOrphanedNotifier'
      <3>1. NoteOf(k) \in Units  BY DEF NoteOf, Units
      <3>2. \A u : Queued(u)' <=> u = NoteOf(k) \/ Queued(u)
        BY <2>7, <3>1, QueuedAfterSend DEF EnqueueNote
      <3>. QED  BY <2>7, <3>2 DEF EnqueueNote, TypeOK
    <2>8. ASSUME NEW k \in Notifiers, EnqueueNoteClosed(k) PROVE NoOrphanedNotifier'
      BY <2>8 DEF EnqueueNoteClosed, TypeOK, Queued
    <2>9. ASSUME NEW k \in Notifiers, LoopProxyNote(k) PROVE NoOrphanedNotifier'
      <3>1. \A u : Queued(u) <=> u = NoteOf(k) \/ Queued(u)'
        BY <2>9, QueuedAfterReceive DEF LoopProxyNote
      <3>2. ASSUME NEW n \in Notifiers
            PROVE  NoteOf(n) \in Units /\ (NoteOf(n) = NoteOf(k) <=> n = k)
        BY DEF NoteOf, Units
      <3>3. \A n \in Notifiers : Known(n) => Known(n)'
        BY <2>9, <3>1, <3>2 DEF LoopProxyNote, Spawn, TypeOK
      <3>. QED  BY <2>9, <3>3 DEF LoopProxyNote
    <2>10. ASSUME NEW k \in Notifiers, LoopJoinNote(k) PROVE NoOrphanedNotifier'
      <3>1. ASSUME NEW n \in Notifiers
            PROVE  NoteOf(n) \in Units /\ (NoteOf(n) = NoteOf(k) <=> n = k)
        BY DEF NoteOf, Units
      <3>2. note'[k] # "waiting"
        BY <2>10 DEF LoopJoinNote, AnswerNotifier, TypeOK
      <3>3. \A n \in Notifiers \ {k} : note'[n] = note[n] /\ (Known(n) => Known(n)')
        BY <2>10, <3>1 DEF LoopJoinNote, Joins, AnswerNotifier, TypeOK, Queued
      <3>. QED  BY <2>10, <3>2, <3>3 DEF LoopJoinNote
    <2>11. ASSUME NEW u \in Units, SendSucceeds(u) \/ SendFails(u) PROVE NoOrphanedNotifier'
      <3>1. \A n \in Notifiers : NoteOf(n) \in Units  BY DEF NoteOf, Units
      <3>2. \A n \in Notifiers : Known(n) => Known(n)'
        BY <2>11, <3>1 DEF SendSucceeds, SendFails, FinishTask, TypeOK, Queued
      <3>. QED  BY <2>11, <3>2 DEF SendSucceeds, SendFails, FinishTask
    <2>12. ASSUME NEW u \in Units, SendPanics(u) PROVE NoOrphanedNotifier'
      <3>1. ASSUME NEW n \in Notifiers
            PROVE  NoteOf(n) \in Units /\ (u = NoteOf(n) => u[1] = "note" /\ u[2] = n)
        BY DEF NoteOf, Units
      <3>2. ASSUME NEW n \in Notifiers, note'[n] = "waiting" PROVE Known(n)'
        <4>1. u # NoteOf(n) /\ note[n] = "waiting"
          BY <2>12, <3>1, <3>2 DEF SendPanics, TypeOK
        <4>. QED  BY <2>12, <3>1, <4>1 DEF SendPanics, FinishTask, TypeOK, Queued
      <3>3. loop' = loop /\ (\A n \in Notifiers : note'[n] = "waiting" => note[n] = "waiting")
        BY <2>12 DEF SendPanics, FinishTask, TypeOK
      <3>. QED  BY <3>2, <3>3
    <2>13. ASSUME NEW u \in Units, LoopJoinError(u) PROVE NoOrphanedNotifier'
      <3>1. \A n \in Notifiers : NoteOf(n) \in Units  BY DEF NoteOf, Units
      <3>2. \A n \in Notifiers : Known(n) => Known(n)'
        BY <2>13, <3>1 DEF LoopJoinError, Joins, TypeOK, Queued
      <3>. QED  BY <2>13, <3>2 DEF LoopJoinError, Joins, Quit
    <2>14. CASE LoopClosed \/ LoopCancelled
      BY <2>14 DEF LoopClosed, LoopCancelled, Quit, Queued
    <2>15. CASE LoopEnd
      <3>. \A n \in Notifiers : note'[n] # "waiting"
        BY <2>15 DEF LoopEnd
      <3>. QED  OBVIOUS
    <2>16. CASE UNCHANGED vars
      BY <2>16, <2>1 DEF vars
    <2>. QED
      BY <2>1, <2>2, <2>3, <2>4, <2>5, <2>6, <2>7, <2>8, <2>9, <2>10, <2>11, <2>12, <2>13,
         <2>14, <2>15, <2>16, QuietSteps
  <1>. QED  BY <1>1, <1>2, Typing, PTL DEF Spec

-----------------------------------------------------------------------------
\* The cancellation tokens of the handlers, for any number of remote requests under any ids,
\* once or several times the same.

\* A token in local_ct_pool is that of a request received under its key, and only a request
\* that was received has a token, or a response on the way to the loop.
TokensKeyed ==
    /\ \A i \in RemoteIds : ctPool[i] # None =>
          RemoteId[ctPool[i]] = i /\ handler[ctPool[i]] # "none"
    /\ \A h \in cancelled : handler[h] # "none"
    /\ \A k \in DOMAIN toSink : handler[toSink[k]] # "none"

\* What is left of a batch is new to the loop.
BatchFresh ==
    /\ \A k \in DOMAIN batch : batch[k][1] = "request" => handler[batch[k][2]] = "none"
    /\ OneEachRequest(batch)

\* The steps that concern handlers, tokens and batches; all others leave them alone.
LEMMA HandlerSteps ==
    ASSUME Next
    PROVE  \/ UNCHANGED <<handlerVars, batch, rootCancelled>> /\ (loop' # "ended" => loop # "ended")
           \/ \E h \in Requests : HandlerTask(h)
           \/ LoopPeerMessage \/ LoopPeerBatch \/ LoopPopBatch \/ LoopToSink \/ LoopEnd
           \/ CancelService
  <1>1. ASSUME NEW c \in Calls, CallStep(c) \/ Deliver(c)
        PROVE  UNCHANGED <<handlerVars, batch, rootCancelled, loop>>
    BY <1>1 DEF CallStep, AllocId, EnqueueRequest, EnqueueClosed, AwaitResponse, TakeResponse,
                TimeOut, CancelCall, StartCancelling, FinishCancelling, DropCall, Deliver
  <1>2. ASSUME NEW n \in Notifiers, NoteStep(n) \/ SendNotification(n)
        PROVE  UNCHANGED <<handlerVars, batch, rootCancelled, loop>>
    BY <1>2 DEF NoteStep, EnqueueNote, EnqueueNoteClosed, SendNotification
  <1>3. ASSUME NEW u \in Units, TaskStep(u)
        PROVE  UNCHANGED <<handlerVars, batch, rootCancelled, loop>>
    BY <1>3 DEF TaskStep, SendSucceeds, SendFails, SendPanics, FinishTask
  <1>4. ASSUME NEW c \in Calls, LoopProxyRequest(c) \/ LoopJoinSent(c) \/ LoopJoinNotSent(c)
        PROVE  UNCHANGED <<handlerVars, batch, rootCancelled, loop>>
    BY <1>4 DEF LoopProxyRequest, LoopJoinSent, LoopJoinNotSent, Joins
  <1>5. ASSUME NEW n \in Notifiers, LoopProxyNote(n) \/ LoopJoinNote(n)
        PROVE  UNCHANGED <<handlerVars, batch, rootCancelled, loop>>
    BY <1>5 DEF LoopProxyNote, LoopJoinNote, Joins
  <1>6. ASSUME \/ \E u \in Units : LoopJoinError(u)
               \/ LoopClosed \/ LoopCancelled \/ Terminated
        PROVE  UNCHANGED <<handlerVars, batch, rootCancelled>> /\ (loop' # "ended" => loop # "ended")
    BY <1>6 DEF LoopJoinError, LoopClosed, LoopCancelled, Terminated, Joins, Quit,
                Selecting, vars
  <1>. QED
    BY <1>1, <1>2, <1>3, <1>4, <1>5, <1>6 DEF Next, LoopStep, Notifiers

\* One message of the remote starts a handler, cancels one, or does not touch them.
LEMMA ProcessSteps ==
    ASSUME NEW m, Process(m)
    PROVE  \/ m[1] = "request" /\ ProcessRequest(m[2])
           \/ m[1] = "cancelled" /\ ProcessCancelled(m[2])
           \/ UNCHANGED handlerVars
  BY DEF Process, ProcessAnswer

\* A message keeps the tokens in order, if it is new.
LEMMA ProcessKeepsTokens ==
    ASSUME TypeOK, TokensKeyed, NEW m \in Inbounds, Process(m)
    PROVE  TokensKeyed'
  <1>1. CASE m[1] = "request" /\ ProcessRequest(m[2])
    <2>1. m[2] \in Requests /\ RemoteId[m[2]] \in RemoteIds
      BY <1>1 DEF Inbounds, RemoteIds
    <2>. QED  BY <1>1, <2>1 DEF TypeOK, TokensKeyed, ProcessRequest
  <1>2. CASE m[1] = "cancelled" /\ ProcessCancelled(m[2])
    <2>1. m[2] \in RemoteIds
      BY <1>2 DEF Inbounds
    <2>. QED
      BY <1>2, <2>1, ServiceLoopAssumption DEF TypeOK, TokensKeyed, ProcessCancelled, CancelToken
  <1>3. CASE UNCHANGED handlerVars
    BY <1>3 DEF TokensKeyed
  <1>. QED  BY <1>1, <1>2, <1>3, ProcessSteps

\* What is left of a batch that is new stays new while the loop works it off.
LEMMA TailIsFresh ==
    ASSUME TypeOK, BatchFresh, batch # <<>>, batch' = Tail(batch), Process(Head(batch))
    PROVE  BatchFresh'
  <1>1. /\ Head(batch) = batch[1] /\ Head(batch) \in Inbounds
        /\ DOMAIN batch = 1 .. Len(batch) /\ Len(batch) \in Nat \ {0}
        /\ DOMAIN Tail(batch) = 1 .. Len(batch) - 1
        /\ \A k \in 1 .. Len(batch) - 1 : Tail(batch)[k] = batch[k + 1]
    BY HeadTailProperties, LenProperties, EmptySeq DEF TypeOK
  <1>2. \A k \in 1 .. Len(batch) - 1 : k + 1 \in 1 .. Len(batch) /\ k + 1 # 1
    BY <1>1
  <1>3. OneEachRequest(Tail(batch))
    <2>. SUFFICES ASSUME NEW i \in 1 .. Len(batch) - 1, NEW j \in 1 .. Len(batch) - 1,
                         batch[i + 1] = batch[j + 1], batch[i + 1][1] = "request"
                  PROVE  i = j
      BY <1>1 DEF OneEachRequest
    <2>1. i + 1 = j + 1
      BY <1>1, <1>2 DEF BatchFresh, OneEachRequest
    <2>. QED  BY <2>1
  <1>4. ASSUME NEW k \in 1 .. Len(batch) - 1, batch[k + 1][1] = "request"
        PROVE  handler'[batch[k + 1][2]] = "none"
    <2>1. handler[batch[k + 1][2]] = "none" /\ batch[k + 1] # batch[1]
      BY <1>1, <1>2, <1>4 DEF BatchFresh, OneEachRequest
    <2>2. batch[k + 1] \in Inbounds
      BY <1>1, <1>2, ElementOfSeq DEF TypeOK
    <2>3. CASE batch[1][1] = "request" /\ ProcessRequest(batch[1][2])
      <3>1. batch[1] \in {"request"} \X Requests /\ batch[k + 1] \in {"request"} \X Requests
        BY <1>1, <1>4, <2>2, <2>3 DEF Inbounds
      <3>2. batch[1][2] # batch[k + 1][2]
        BY <2>1, <3>1
      <3>. QED  BY <2>1, <2>3, <3>1, <3>2 DEF ProcessRequest, TypeOK
    <2>4. CASE UNCHANGED handler
      BY <2>1, <2>4
    <2>. QED  BY <1>1, <2>3, <2>4, ProcessSteps DEF ProcessCancelled
  <1>. QED  BY <1>1, <1>3, <1>4 DEF BatchFresh

\* Both hold in every state.
LEMMA TokensInOrder == Spec => [](TokensKeyed /\ BatchFresh)
  <1>1. Init => TokensKeyed /\ BatchFresh
    BY DEF Init, TokensKeyed, BatchFresh, OneEachRequest
  <1>2. TypeOK /\ TokensKeyed /\ BatchFresh /\ [Next]_vars => TokensKeyed' /\ BatchFresh'
    <2>. SUFFICES ASSUME TypeOK, TokensKeyed, BatchFresh, [Next]_vars
                  PROVE  TokensKeyed' /\ BatchFresh'
      OBVIOUS
    <2>1. CASE UNCHANGED <<handlerVars, batch>>
      BY <2>1 DEF TokensKeyed, BatchFresh, OneEachRequest
    <2>2. ASSUME NEW h \in Requests, HandlerTask(h) PROVE TokensKeyed' /\ BatchFresh'
      <3>1. /\ handler[h] # "none" /\ UNCHANGED <<ctPool, cancelled, batch>>
            /\ \E s \in {"finished", "panicked", "queued", "lost", "sent"} :
                  handler' = [handler EXCEPT ![h] = s]
        BY <2>2 DEF HandlerTask, HandlerFinish, HandlerPanics, HandlerRespond,
                    HandlerRespondClosed, ReplyEnds, HandlerStep
      <3>2. \A g \in Requests : handler'[g] = "none" <=> handler[g] = "none"
        BY <3>1 DEF TypeOK
      <3>3. \A g : (\E k \in DOMAIN toSink' : toSink'[k] = g)
                     => g = h \/ \E k \in DOMAIN toSink : toSink[k] = g
        <4>1. CASE UNCHANGED toSink
          BY <4>1
        <4>2. CASE toSink' = Append(toSink, h)
          BY <4>2, AppendKeeps DEF TypeOK
        <4>. QED
          BY <2>2, <4>1, <4>2 DEF HandlerTask, HandlerFinish, HandlerPanics, HandlerRespond,
                                  HandlerRespondClosed, ReplyEnds
      <3>4. \A k \in DOMAIN toSink : toSink[k] \in Requests
        BY LenProperties, ElementOfSeq DEF TypeOK
      <3>5. \A k \in DOMAIN toSink' : handler'[toSink'[k]] # "none"
        BY <3>1, <3>2, <3>3, <3>4 DEF TokensKeyed
      <3>6. \A k \in DOMAIN batch : batch[k][1] = "request" => batch[k][2] \in Requests
        BY LenProperties, ElementOfSeq DEF TypeOK, Inbounds
      <3>. QED
        BY <3>1, <3>2, <3>5, <3>6 DEF TokensKeyed, BatchFresh, OneEachRequest, TypeOK
    <2>3. CASE LoopPeerMessage
      <3>1. PICK m \in Inbound : Process(m)
        BY <2>3 DEF LoopPeerMessage
      <3>2. m \in Inbounds  BY InboundType
      <3>. QED
        BY <2>3, <3>1, <3>2, ProcessKeepsTokens DEF LoopPeerMessage, Selecting, BatchFresh,
                                                    OneEachRequest
    <2>4. CASE LoopPeerBatch
      <3>1. batch' \in Batches /\ UNCHANGED handlerVars
        BY <2>4 DEF LoopPeerBatch
      <3>2. PICK n \in 1 .. MaxBatch : batch' \in [1 .. n -> Answer] \cup [1 .. n -> Solicitation]
        BY <3>1 DEF Batches
      <3>3. \A k \in DOMAIN batch' : batch'[k] \in Inbound
        BY <3>2 DEF Inbound
      <3>4. BatchFresh'
        BY <3>1, <3>3 DEF BatchFresh, Batches, Inbound, Answer, Solicitation, Fresh
      <3>. QED  BY <3>1, <3>4 DEF TokensKeyed
    <2>5. CASE LoopPopBatch
      <3>1. Head(batch) \in Inbounds
        BY <2>5, HeadTailProperties DEF TypeOK, LoopPopBatch
      <3>. QED  BY <2>5, <3>1, ProcessKeepsTokens, TailIsFresh DEF LoopPopBatch
    <2>6. CASE LoopToSink
      <3>1. Head(toSink) \in Requests /\ RemoteId[Head(toSink)] \in RemoteIds
        BY <2>6, HeadTailProperties DEF TypeOK, LoopToSink, RemoteIds
      <3>2. \A g : (\E k \in DOMAIN toSink' : toSink'[k] = g) => \E k \in DOMAIN toSink : toSink[k] = g
        BY <2>6, TailKeeps DEF TypeOK, LoopToSink
      <3>3. \A g \in Requests : handler[g] # "none" => handler'[g] # "none"
        BY <2>6 DEF LoopToSink, TypeOK
      <3>4. \A k \in DOMAIN toSink : toSink[k] \in Requests
        BY LenProperties, ElementOfSeq DEF TypeOK
      <3>5. /\ \A k \in DOMAIN toSink' : handler'[toSink'[k]] # "none"
            /\ handler[Head(toSink)] # "none"
        BY <2>6, <3>2, <3>3, <3>4, TailKeeps DEF TokensKeyed, LoopToSink, TypeOK
      <3>6. BatchFresh'
        BY <2>6, <3>1, <3>5 DEF LoopToSink, BatchFresh, OneEachRequest, TypeOK
      <3>7. \A i \in RemoteIds : ctPool'[i] # None => ctPool'[i] = ctPool[i] /\ ctPool[i] \in Requests
        BY <2>6, <3>1 DEF LoopToSink, CancelToken, TypeOK
      <3>8. \A g \in cancelled' : g \in Requests /\ handler[g] # "none"
        BY <2>6, <3>1, ServiceLoopAssumption DEF LoopToSink, CancelToken, TokensKeyed, TypeOK
      <3>. QED
        BY <3>3, <3>5, <3>6, <3>7, <3>8 DEF TokensKeyed
    <2>7. CASE LoopEnd
      <3>1. \A g \in Requests : handler'[g] = "none" <=> handler[g] = "none"
        BY <2>7 DEF LoopEnd, TypeOK
      <3>2. \A k \in DOMAIN batch : batch[k][1] = "request" => batch[k][2] \in Requests
        <4>1. batch \in Seq(Inbounds)
          BY DEF TypeOK
        <4>2. \A k \in DOMAIN batch : batch[k] \in Inbounds
          BY <4>1, LenProperties, ElementOfSeq
        <4>. QED  BY <4>2 DEF Inbounds
      <3>3. BatchFresh'
        BY <2>7, <3>1, <3>2 DEF LoopEnd, BatchFresh, OneEachRequest
      <3>. QED
        BY <2>7, <3>1, <3>3 DEF LoopEnd, TokensKeyed, TypeOK
    <2>8. CASE CancelService
      BY <2>8 DEF CancelService, AtWork, TokensKeyed, BatchFresh, OneEachRequest
    <2>. QED
      BY <2>1, <2>2, <2>3, <2>4, <2>5, <2>6, <2>7, <2>8, HandlerSteps DEF vars
  <1>. QED  BY <1>1, <1>2, Typing, PTL DEF Spec

\* No request that was received is forgotten: an id once shared stays shared.
LEMMA SharedStays ==
    ASSUME NEW h \in Requests, Shared(h),
           \A g \in Requests : handler[g] # "none" => handler'[g] # "none"
    PROVE  Shared(h)'
  <1>1. PICK g \in Requests \ {h} : RemoteId[g] = RemoteId[h] /\ handler[g] # "none"
    BY DEF Shared
  <1>2. handler'[g] # "none"
    BY <1>1
  <1>. QED  BY <1>1, <1>2 DEF Shared

\* A handler at work sees its token cancelled only because its service was cancelled, or
\* because the remote cancelled its id or used it twice.
THEOREM CancelsHaveCause == Spec => []NoSpuriousCancel
  <1>1. Init => NoSpuriousCancel
    BY DEF Init, NoSpuriousCancel
  <1>2. TypeOK /\ TokensKeyed /\ BatchFresh /\ NoSpuriousCancel /\ [Next]_vars => NoSpuriousCancel'
    <2>. SUFFICES ASSUME TypeOK, TokensKeyed, BatchFresh, NoSpuriousCancel, [Next]_vars
                  PROVE  NoSpuriousCancel'
      OBVIOUS
    <2>. DEFINE Caused(h) == rootCancelled \/ RemoteId[h] \in cancelAsked \/ Shared(h)
    <2>0. ASSUME \A h \in Requests : handler[h] # "none" => handler'[h] # "none",
                 cancelAsked \subseteq cancelAsked', rootCancelled => rootCancelled'
          PROVE  \A h \in Requests : Caused(h) => Caused(h)'
      BY <2>0, SharedStays
    <2>1. CASE UNCHANGED <<handlerVars, rootCancelled>>
      BY <2>1 DEF NoSpuriousCancel, Shared, AtWork
    <2>2. ASSUME NEW h \in Requests, HandlerTask(h) PROVE NoSpuriousCancel'
      <3>1. /\ handler[h] # "none" /\ UNCHANGED <<cancelled, cancelAsked, rootCancelled>>
            /\ \/ handler[h] = "running" /\ handler' = [handler EXCEPT ![h] = "finished"]
               \/ handler[h] = "finished" /\ handler' = [handler EXCEPT ![h] = "queued"]
               \/ \E s \in {"panicked", "lost", "sent"} : handler' = [handler EXCEPT ![h] = s]
        BY <2>2 DEF HandlerTask, HandlerFinish, HandlerPanics, HandlerRespond,
                    HandlerRespondClosed, ReplyEnds, HandlerStep
      <3>2. \A g \in Requests : /\ handler[g] # "none" => handler'[g] # "none"
                                /\ AtWork(g)' => AtWork(g)
        BY <3>1 DEF TypeOK, AtWork
      <3>. QED  BY <3>1, <3>2, <2>0 DEF NoSpuriousCancel, TypeOK
    <2>3. ASSUME NEW m \in Inbounds, Process(m), m[1] = "request" => handler[m[2]] = "none",
                 UNCHANGED rootCancelled
          PROVE  NoSpuriousCancel'
      <3>1. CASE m[1] = "request" /\ ProcessRequest(m[2])
        <4>1. /\ m[2] \in Requests /\ m[2] \notin cancelled /\ UNCHANGED cancelAsked
              /\ cancelled' = cancelled \/ (rootCancelled /\ cancelled' = cancelled \cup {m[2]})
          BY <2>3, <3>1 DEF Inbounds, TokensKeyed, ProcessRequest
        <4>2. \A g \in Requests : handler[g] # "none" => handler'[g] # "none"
          BY <3>1, <4>1 DEF ProcessRequest, TypeOK
        <4>3. \A g \in cancelled : AtWork(g)' => AtWork(g)
          BY <3>1, <4>1 DEF ProcessRequest, TypeOK, AtWork
        <4>. QED  BY <4>1, <4>2, <4>3, <2>0, <2>3 DEF NoSpuriousCancel, TypeOK
      <3>2. CASE m[1] = "cancelled" /\ ProcessCancelled(m[2])
        <4>1. m[2] \in RemoteIds
          BY <3>2 DEF Inbounds
        <4>2. \A g \in cancelled' : g \in cancelled \/ RemoteId[g] \in cancelAsked'
          BY <3>2, <4>1, ServiceLoopAssumption
          DEF ProcessCancelled, CancelToken, TokensKeyed, TypeOK
        <4>3. UNCHANGED handler /\ cancelAsked \subseteq cancelAsked'
          BY <3>2 DEF ProcessCancelled
        <4>. QED  BY <4>2, <4>3, <2>0, <2>3 DEF NoSpuriousCancel, TypeOK, AtWork
      <3>. QED  BY <2>1, <2>3, <3>1, <3>2, ProcessSteps
    <2>4. CASE LoopPeerMessage
      <3>1. PICK m \in Inbound : Process(m)
        BY <2>4 DEF LoopPeerMessage
      <3>2. m \in Inbounds /\ (m[1] = "request" => handler[m[2]] = "none")
        BY <3>1, InboundType DEF Inbound, Answer, Solicitation, Fresh
      <3>. QED  BY <2>3, <2>4, <3>1, <3>2 DEF LoopPeerMessage
    <2>5. CASE LoopPopBatch
      <3>1. Head(batch) \in Inbounds /\ Head(batch) = batch[1] /\ 1 \in DOMAIN batch
        BY <2>5, HeadTailProperties, LenProperties, EmptySeq DEF TypeOK, LoopPopBatch
      <3>. QED  BY <2>3, <2>5, <3>1 DEF LoopPopBatch, BatchFresh
    <2>6. CASE LoopToSink
      <3>. DEFINE h == Head(toSink)
      <3>1. /\ h \in Requests /\ RemoteId[h] \in RemoteIds
            /\ \E k \in DOMAIN toSink : toSink[k] = h
        BY <2>6, HeadTailProperties, TailKeeps DEF TypeOK, LoopToSink, RemoteIds
      <3>2. /\ handler' = [handler EXCEPT ![h] = "sending"] /\ UNCHANGED <<cancelAsked, rootCancelled>>
            /\ handler[h] # "none"
        BY <2>6, <3>1 DEF LoopToSink, TokensKeyed
      <3>3. \A g \in Requests : /\ handler[g] # "none" => handler'[g] # "none"
                                /\ AtWork(g)' => AtWork(g) /\ g # h
        BY <3>1, <3>2 DEF TypeOK, AtWork
      <3>4. \A g \in cancelled' : g \in cancelled \/ g = h \/ Shared(g)'
        <4>1. \A g \in cancelled' : g \in cancelled \/ (g \in Requests /\ RemoteId[g] = RemoteId[h])
          BY <2>6, <3>1, ServiceLoopAssumption DEF LoopToSink, CancelToken, TokensKeyed, TypeOK
        <4>. QED  BY <3>1, <3>2, <3>3, <4>1 DEF Shared
      <3>5. \A g \in cancelled' : g \in Requests
        BY <2>6 DEF LoopToSink, CancelToken, TypeOK
      <3>. QED  BY <3>2, <3>3, <3>4, <3>5, <2>0 DEF NoSpuriousCancel
    <2>7. CASE LoopEnd
      <3>1. /\ UNCHANGED <<cancelled, cancelAsked, rootCancelled>>
            /\ \A g \in Requests : /\ handler[g] # "none" => handler'[g] # "none"
                                   /\ AtWork(g)' => AtWork(g)
        BY <2>7 DEF LoopEnd, TypeOK, AtWork
      <3>2. cancelled \subseteq Requests
        BY DEF TypeOK
      <3>3. \A g \in Requests : handler[g] # "none" => handler'[g] # "none"
        BY <3>1
      <3>4. \A g \in Requests : Caused(g) => Caused(g)'
        BY <3>1, <3>3, <2>0
      <3>. QED  BY <3>1, <3>2, <3>4 DEF NoSpuriousCancel
    <2>8. CASE LoopPeerBatch
      BY <2>1, <2>8 DEF LoopPeerBatch
    <2>9. CASE CancelService
      BY <2>9 DEF CancelService, NoSpuriousCancel
    <2>. QED
      BY <2>1, <2>2, <2>4, <2>5, <2>6, <2>7, <2>8, <2>9, HandlerSteps DEF vars
  <1>. QED  BY <1>1, <1>2, Typing, TokensInOrder, PTL DEF Spec

\* A handler at work is cancelled with its service; until it is cancelled, it can be under
\* its id, unless the remote used that id again.
THEOREM HandlersCancellable == Spec => []Cancellable
  <1>1. Init => Cancellable
    BY DEF Init, Cancellable, AtWork
  <1>2. TypeOK /\ Cancellable /\ [Next]_vars => Cancellable'
    <2>. SUFFICES ASSUME TypeOK, Cancellable, [Next]_vars PROVE Cancellable'
      OBVIOUS
    <2>. DEFINE Found(h) == ctPool[RemoteId[h]] = h \/ Shared(h)
    <2>1. CASE UNCHANGED <<handlerVars, rootCancelled>> /\ (loop' # "ended" => loop # "ended")
      BY <2>1 DEF Cancellable, Shared, AtWork
    <2>2. ASSUME NEW h \in Requests, HandlerTask(h) PROVE Cancellable'
      <3>1. /\ handler[h] # "none" /\ UNCHANGED <<ctPool, cancelled, rootCancelled, loop>>
            /\ \/ handler[h] = "running" /\ handler' = [handler EXCEPT ![h] = "finished"]
               \/ handler[h] = "finished" /\ handler' = [handler EXCEPT ![h] = "queued"]
               \/ \E s \in {"panicked", "lost", "sent"} : handler' = [handler EXCEPT ![h] = s]
        BY <2>2 DEF HandlerTask, HandlerFinish, HandlerPanics, HandlerRespond,
                    HandlerRespondClosed, ReplyEnds, HandlerStep
      <3>2. \A g \in Requests : /\ handler[g] # "none" => handler'[g] # "none"
                                /\ AtWork(g)' => AtWork(g)
        BY <3>1 DEF TypeOK, AtWork
      <3>3. \A g \in Requests : handler[g] # "none" => handler'[g] # "none"
        BY <3>2
      <3>4. \A g \in Requests : Shared(g) => Shared(g)'
        BY <3>3, SharedStays
      <3>. QED  BY <3>1, <3>2, <3>4 DEF Cancellable
    \* Who takes a token cancels its handler.
    <2>3. ASSUME NEW i \in RemoteIds, CancelToken(i), UNCHANGED <<rootCancelled, loop>>,
                 \A g \in Requests : /\ handler[g] # "none" => handler'[g] # "none"
                                     /\ AtWork(g)' => AtWork(g)
          PROVE  Cancellable'
      <3>1. ASSUME NEW g \in Requests, g \notin cancelled', ctPool[RemoteId[g]] = g
            PROVE  ctPool'[RemoteId[g]] = g
        BY <2>3, <3>1 DEF CancelToken, TypeOK, RemoteIds
      <3>2. cancelled \subseteq cancelled'
        BY <2>3 DEF CancelToken
      <3>3. \A g \in Requests : handler[g] # "none" => handler'[g] # "none"
        BY <2>3
      <3>4. \A g \in Requests : Shared(g) => Shared(g)'
        BY <3>3, SharedStays
      <3>. QED  BY <2>3, <3>1, <3>2, <3>4 DEF Cancellable
    <2>4. ASSUME NEW m \in Inbounds, Process(m), UNCHANGED <<rootCancelled, loop>>
          PROVE  Cancellable'
      <3>1. CASE m[1] = "request" /\ ProcessRequest(m[2])
        <4>1. m[2] \in Requests /\ RemoteId[m[2]] \in RemoteIds
          BY <3>1 DEF Inbounds, RemoteIds
        <4>2. \A g \in Requests : /\ handler[g] # "none" => handler'[g] # "none"
                                  /\ g # m[2] /\ AtWork(g)' => AtWork(g)
          BY <3>1, <4>1 DEF ProcessRequest, TypeOK, AtWork
        <4>3. handler'[m[2]] # "none" /\ ctPool'[RemoteId[m[2]]] = m[2]
          BY <3>1, <4>1 DEF ProcessRequest, TypeOK
        <4>4. ASSUME NEW g \in Requests, g # m[2], Found(g) PROVE Found(g)'
          <5>1. CASE RemoteId[g] = RemoteId[m[2]]
            BY <4>1, <4>3, <4>4, <5>1 DEF Shared
          <5>2. CASE RemoteId[g] # RemoteId[m[2]]
            BY <3>1, <4>1, <4>2, <4>4, <5>2 DEF ProcessRequest, TypeOK, Shared
          <5>. QED  BY <5>1, <5>2
        <4>5. cancelled \subseteq cancelled' /\ (rootCancelled => m[2] \in cancelled')
          BY <3>1 DEF ProcessRequest
        <4>. QED  BY <2>4, <4>2, <4>3, <4>4, <4>5 DEF Cancellable
      <3>2. CASE m[1] = "cancelled" /\ ProcessCancelled(m[2])
        BY <2>3, <2>4, <3>2 DEF ProcessCancelled, Inbounds, AtWork
      <3>. QED  BY <2>1, <2>4, <3>1, <3>2, ProcessSteps
    <2>5. CASE LoopPeerMessage
      <3>1. PICK m \in Inbound : Process(m)
        BY <2>5 DEF LoopPeerMessage
      <3>. QED  BY <2>4, <2>5, <3>1, InboundType DEF LoopPeerMessage
    <2>6. CASE LoopPopBatch
      <3>1. Head(batch) \in Inbounds
        BY <2>6, HeadTailProperties DEF TypeOK, LoopPopBatch
      <3>. QED  BY <2>4, <2>6, <3>1 DEF LoopPopBatch
    <2>7. CASE LoopToSink
      <3>1. Head(toSink) \in Requests /\ RemoteId[Head(toSink)] \in RemoteIds
        BY <2>7, HeadTailProperties DEF TypeOK, LoopToSink, RemoteIds
      <3>2. \A g \in Requests : /\ handler[g] # "none" => handler'[g] # "none"
                                /\ AtWork(g)' => AtWork(g)
        BY <2>7, <3>1 DEF LoopToSink, TypeOK, AtWork
      <3>. QED  BY <2>3, <2>7, <3>1, <3>2 DEF LoopToSink
    <2>8. CASE LoopEnd
      BY <2>8 DEF LoopEnd, Cancellable, AtWork, TypeOK
    <2>9. CASE LoopPeerBatch
      BY <2>1, <2>9 DEF LoopPeerBatch
    <2>10. CASE CancelService
      BY <2>10 DEF CancelService, Cancellable, AtWork
    <2>. QED
      BY <2>1, <2>2, <2>5, <2>6, <2>7, <2>8, <2>9, <2>10, HandlerSteps DEF vars
  <1>. QED  BY <1>1, <1>2, Typing, PTL DEF Spec

\* Whatever ids the remote chose, a request whose response has left has no token in the pool.
THEOREM TokensReleased == Spec => []TokenReleased
  <1>1. Init => TokenReleased
    BY DEF Init, TokenReleased
  <1>2. TypeOK /\ TokensKeyed /\ TokenReleased /\ [Next]_vars => TokenReleased'
    <2>. SUFFICES ASSUME TypeOK, TokensKeyed, TokenReleased, [Next]_vars PROVE TokenReleased'
      OBVIOUS
    <2>. DEFINE Left(h) == handler[h] \in {"sending", "sent"}
    <2>1. CASE UNCHANGED handlerVars
      BY <2>1 DEF TokenReleased
    <2>2. ASSUME NEW h \in Requests, HandlerTask(h) PROVE TokenReleased'
      <3>1. UNCHANGED ctPool /\ \A g \in Requests : Left(g)' => Left(g)
        BY <2>2 DEF HandlerTask, HandlerFinish, HandlerPanics, HandlerRespond,
                    HandlerRespondClosed, ReplyEnds, HandlerStep, TypeOK
      <3>. QED  BY <3>1 DEF TokenReleased
    <2>3. ASSUME NEW m \in Inbounds, Process(m) PROVE TokenReleased'
      <3>1. CASE m[1] = "request" /\ ProcessRequest(m[2])
        <4>1. m[2] \in Requests
          BY <3>1 DEF Inbounds
        <4>2. /\ ~Left(m[2])'
              /\ \A g \in Requests : Left(g)' => Left(g)
              /\ \A i \in RemoteIds : ctPool'[i] = ctPool[i] \/ ctPool'[i] = m[2]
          BY <3>1, <4>1 DEF ProcessRequest, TypeOK
        <4>. QED  BY <4>1, <4>2 DEF TokenReleased
      <3>2. CASE m[1] = "cancelled" /\ ProcessCancelled(m[2])
        BY <3>2, ServiceLoopAssumption DEF ProcessCancelled, CancelToken, TokenReleased, TypeOK
      <3>. QED  BY <2>1, <2>3, <3>1, <3>2, ProcessSteps
    <2>4. CASE LoopPeerMessage
      <3>1. PICK m \in Inbound : Process(m)
        BY <2>4 DEF LoopPeerMessage
      <3>. QED  BY <2>3, <3>1, InboundType
    <2>5. CASE LoopPopBatch
      <3>1. Head(batch) \in Inbounds
        BY <2>5, HeadTailProperties DEF TypeOK, LoopPopBatch
      <3>. QED  BY <2>3, <2>5, <3>1 DEF LoopPopBatch
    <2>6. CASE LoopToSink
      <3>. DEFINE h == Head(toSink)
      <3>1. h \in Requests /\ RemoteId[h] \in RemoteIds
        BY <2>6, HeadTailProperties DEF TypeOK, LoopToSink, RemoteIds
      <3>2. /\ ctPool' = [ctPool EXCEPT ![RemoteId[h]] = None]
            /\ \A g \in Requests \ {h} : Left(g)' => Left(g)
        BY <2>6, <3>1 DEF LoopToSink, CancelToken, TypeOK
      <3>3. \A i \in RemoteIds : ctPool'[i] # h
        BY <3>1, <3>2, ServiceLoopAssumption DEF TokensKeyed, TypeOK
      <3>4. \A i \in RemoteIds : ctPool'[i] = ctPool[i] \/ ctPool'[i] = None
        BY <3>2 DEF TypeOK
      <3>. QED  BY <3>1, <3>2, <3>3, <3>4, ServiceLoopAssumption DEF TokenReleased
    <2>7. CASE LoopEnd
      BY <2>7, ServiceLoopAssumption DEF LoopEnd, TokenReleased
    <2>8. CASE LoopPeerBatch
      BY <2>1, <2>8 DEF LoopPeerBatch
    <2>9. CASE CancelService
      BY <2>9 DEF CancelService, TokenReleased
    <2>. QED
      BY <2>1, <2>2, <2>4, <2>5, <2>6, <2>7, <2>8, <2>9, HandlerSteps DEF vars
  <1>. QED  BY <1>1, <1>2, Typing, TokensInOrder, PTL DEF Spec

=============================================================================
