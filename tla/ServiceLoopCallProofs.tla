------------------------- MODULE ServiceLoopCallProofs -------------------------
(***************************************************************************)
(* The local requests of ServiceLoop: their ids, the responders kept under *)
(* them, and what they return, for any number of calls, any capacity of    *)
(* the channel and any behaviour of the remote.                            *)
(***************************************************************************)
EXTENDS ServiceLoopProofs, FiniteSetTheorems

USE DEF callVars, noteVars, poolVars, wireVars, handlerVars, loopVars

\* ---- the ids
\* The calls that have taken an id; the ids are those below the number of the calls, each
\* taken once, and the next one follows them.
Begun == {c \in Calls : callId[c] # None}
BegunHaveIds == \A c \in Calls : pc[c] = "idle" <=> callId[c] = None
Numbered ==
    /\ \A c \in Begun : callId[c] < Cardinality(Begun)
    /\ \A c, d \in Begun : callId[c] = callId[d] => c = d
    /\ nextId = Cardinality(Begun) % IdModulus

\* Only a call that has begun is sent, seen by the remote, or answered.
SentHaveBegun ==
    /\ \A c \in Calls : task[RequestOf(c)] # "none" => pc[c] # "idle"
    /\ \A c \in seen : pc[c] # "idle"
    /\ \A k \in DOMAIN batch : batch[k][1] \in {"response", "error"} => pc[batch[k][2]] # "idle"

\* A responder is in the pool under the id of its call.
PoolKeyed ==
    \A i \in Ids : responders[i] # None => callId[responders[i]] = i

\* A call takes an id, and otherwise no step touches the ids or makes a call idle.
LEMMA NumberSteps ==
    ASSUME TypeOK, Next
    PROVE  \/ \E c \in Calls : AllocId(c)
           \/ UNCHANGED <<nextId, callId>> /\ \A c \in Calls : pc'[c] = "idle" <=> pc[c] = "idle"
  <1>1. ASSUME NEW c \in Calls, CallStep(c), ~AllocId(c)
        PROVE  /\ UNCHANGED <<nextId, callId>>
               /\ \A d \in Calls : pc'[d] = "idle" <=> pc[d] = "idle"
    <2>1. /\ UNCHANGED <<nextId, callId>> /\ pc[c] # "idle"
          /\ \E s \in {"open", "done", "awaiting", "timingOut", "cancelling", "dropped"} :
                pc' = [pc EXCEPT ![c] = s]
      BY <1>1 DEF CallStep, EnqueueRequest, EnqueueClosed, AwaitResponse, TakeResponse, TimeOut,
                  CancelCall, StartCancelling, FinishCancelling, DropCall
    <2>. QED  BY <2>1 DEF TypeOK
  <1>2. ASSUME \/ \E c \in Calls : Deliver(c)
               \/ \E n \in Notes : SendNotification(n)
               \/ \E n \in Notifiers : NoteStep(n)
               \/ \E u \in Units : TaskStep(u)
               \/ \E h \in Requests : HandlerTask(h)
               \/ CancelService \/ Terminated
        PROVE  UNCHANGED callVars
    BY <1>2 DEF Deliver, SendNotification, NoteStep, EnqueueNote, EnqueueNoteClosed, TaskStep,
                SendSucceeds, SendFails, SendPanics, FinishTask, HandlerTask, HandlerFinish,
                HandlerPanics, HandlerRespond, HandlerRespondClosed, ReplyEnds, HandlerStep,
                CancelService, Terminated, vars
  <1>3. ASSUME LoopStep
        PROVE  UNCHANGED callVars
    BY <1>3 DEF LoopStep, LoopProxyRequest, LoopJoinSent, LoopJoinNotSent, LoopProxyNote,
                LoopJoinNote, LoopJoinError, Joins, LoopPeerMessage, LoopPeerBatch, LoopPopBatch,
                LoopToSink, LoopClosed, LoopCancelled, LoopEnd
  <1>. QED  BY <1>1, <1>2, <1>3 DEF Next

\* A call has an id from its first step on.
LEMMA IdsGiven == Spec => []BegunHaveIds
  <1>1. Init => BegunHaveIds
    BY DEF Init, BegunHaveIds
  <1>2. TypeOK /\ BegunHaveIds /\ [Next]_vars => BegunHaveIds'
    <2>. SUFFICES ASSUME TypeOK, BegunHaveIds, [Next]_vars PROVE BegunHaveIds'
      OBVIOUS
    <2>1. ASSUME NEW c \in Calls, AllocId(c) PROVE BegunHaveIds'
      BY <2>1, ServiceLoopAssumption DEF AllocId, BegunHaveIds, TypeOK
    <2>. QED  BY <2>1, NumberSteps DEF BegunHaveIds, vars
  <1>. QED  BY <1>1, <1>2, Typing, PTL DEF Spec

\* And keeps it.
LEMMA IdsStay ==
    ASSUME TypeOK, BegunHaveIds, Next, NEW c \in Begun
    PROVE  c \in Begun' /\ callId'[c] = callId[c]
  <1>1. c \in Calls /\ pc[c] # "idle"
    BY DEF Begun, BegunHaveIds
  <1>2. callId'[c] = callId[c]
    BY <1>1, NumberSteps DEF AllocId, TypeOK
  <1>. QED  BY <1>1, <1>2 DEF Begun

\* There are as many calls that have begun as the ids can tell apart, or fewer.
LEMMA BegunBounded ==
    /\ IsFiniteSet(Begun) /\ Cardinality(Begun) \in Nat
    /\ Cardinality(Begun) <= Cardinality(Calls) /\ Cardinality(Calls) \in Nat
    /\ \A c \in Calls \ Begun : Cardinality(Begun) < Cardinality(Calls)
  <1>1. IsFiniteSet(Calls) /\ Begun \in SUBSET Calls
    BY ServiceLoopAssumption DEF Begun
  <1>2. /\ IsFiniteSet(Begun) /\ Cardinality(Begun) <= Cardinality(Calls)
        /\ Cardinality(Calls) = Cardinality(Begun) => Calls = Begun
    BY <1>1, FS_Subset
  <1>3. Cardinality(Begun) \in Nat /\ Cardinality(Calls) \in Nat
    BY <1>1, <1>2, FS_CardinalityType
  <1>. QED  BY <1>2, <1>3

\* No two calls share an id, as long as there are no more calls than ids.
THEOREM DistinctIds == Cardinality(Calls) <= IdModulus => (Spec => []Numbered)
  <1>1. Init => Numbered
    <2>. SUFFICES ASSUME Init PROVE Numbered
      OBVIOUS
    <2>1. Begun = {}
      BY DEF Init, Begun
    <2>2. Cardinality(Begun) = 0 /\ 0 % IdModulus = 0
      BY <2>1, FS_EmptySet, ServiceLoopAssumption
    <2>. QED  BY <2>1, <2>2 DEF Init, Numbered
  <1>2. ASSUME Cardinality(Calls) <= IdModulus
        PROVE  TypeOK /\ BegunHaveIds /\ Numbered /\ [Next]_vars => Numbered'
    <2>. SUFFICES ASSUME TypeOK, BegunHaveIds, Numbered, [Next]_vars PROVE Numbered'
      OBVIOUS
    <2>1. ASSUME NEW c \in Calls, AllocId(c) PROVE Numbered'
      <3>. DEFINE n == Cardinality(Begun)
      <3>1. c \notin Begun /\ n \in Nat /\ n < IdModulus /\ IdModulus \in Nat \ {0}
        BY <1>2, <2>1, BegunBounded, ServiceLoopAssumption DEF AllocId, BegunHaveIds, Begun
      <3>2. nextId = n /\ nextId \in Ids /\ nextId # None
        BY <3>1, ServiceLoopAssumption DEF Numbered, Ids
      <3>3. Begun' = Begun \cup {c}
        BY <2>1, <3>2 DEF AllocId, Begun, TypeOK
      <3>4. Cardinality(Begun') = n + 1
        BY <3>1, <3>3, BegunBounded, FS_AddElement
      <3>5. nextId' = (n + 1) % IdModulus
        BY <2>1, <3>2 DEF AllocId, NextId
      <3>6. callId'[c] = n /\ \A d \in Begun : callId'[d] = callId[d] /\ callId[d] \in Ids
        BY <2>1, <3>1, <3>2 DEF AllocId, TypeOK, Begun
      <3>7. \A d \in Begun' : callId'[d] < n + 1
        BY <3>1, <3>3, <3>6 DEF Numbered, Ids
      <3>8. \A d, e \in Begun' : callId'[d] = callId'[e] => d = e
        BY <3>1, <3>3, <3>6 DEF Numbered, Ids
      <3>. QED  BY <3>4, <3>5, <3>7, <3>8 DEF Numbered
    <2>2. CASE UNCHANGED <<nextId, callId>> /\ \A c \in Calls : pc'[c] = "idle" <=> pc[c] = "idle"
      <3>1. Begun' = Begun
        BY <2>2 DEF Begun
      <3>. QED  BY <2>2, <3>1 DEF Numbered
    <2>. QED  BY <2>1, <2>2, NumberSteps DEF vars
  <1>3. ASSUME Cardinality(Calls) <= IdModulus
        PROVE  Spec => []Numbered
    <2>1. TypeOK /\ BegunHaveIds /\ Numbered /\ [Next]_vars => Numbered'
      BY <1>2, <1>3
    <2>. QED  BY <1>1, <2>1, Typing, IdsGiven, PTL DEF Spec
  <1>. QED  BY <1>3

\* What a step may add to the requests that were handed to a send task, that the remote has
\* seen, and whose answers wait in a batch.
LEMMA SendSteps ==
    ASSUME TypeOK, Next
    PROVE  /\ \A c \in Calls : task'[RequestOf(c)] # "none"
                                 => task[RequestOf(c)] # "none" \/ Queued(RequestOf(c))
           /\ \A c \in seen' : c \in seen \/ (c \in Calls /\ task[RequestOf(c)] # "none")
           /\ \/ UNCHANGED batch
              \/ batch # <<>> /\ batch' = Tail(batch)
              \/ \A k \in DOMAIN batch' :
                    batch'[k][1] \in {"response", "error"} => batch'[k][2] \in seen
  <1>1. CASE UNCHANGED <<task, seen, batch>>
    BY <1>1 DEF TypeOK
  <1>2. ASSUME NEW c \in Calls, Deliver(c)
        PROVE  UNCHANGED <<task, batch>> /\ seen' = seen \cup {c} /\ task[RequestOf(c)] = "sending"
    BY <1>2 DEF Deliver
  <1>3. ASSUME NEW u \in Units, TaskStep(u)
        PROVE  /\ UNCHANGED <<seen, batch>> /\ task[u] # "none"
               /\ \E s : task' = [task EXCEPT ![u] = s]
    BY <1>3 DEF TaskStep, SendSucceeds, SendFails, SendPanics, FinishTask
  <1>4. ASSUME NEW u \in Units, NEW S, "none" \notin S, Joins(u, S)
        PROVE  /\ UNCHANGED seen /\ task[u] # "none"
               /\ \E s : task' = [task EXCEPT ![u] = s]
    BY <1>4 DEF Joins
  <1>5. ASSUME NEW u \in Units, task[u] # "none" \/ Queued(u),
               \E s : task' = [task EXCEPT ![u] = s]
        PROVE  \A c \in Calls : task'[RequestOf(c)] # "none"
                                  => task[RequestOf(c)] # "none" \/ Queued(RequestOf(c))
    BY <1>5 DEF TypeOK
  <1>6. ASSUME NEW c \in Calls, LoopProxyRequest(c)
        PROVE  /\ UNCHANGED <<seen, batch>> /\ Queued(RequestOf(c))
               /\ \E s : task' = [task EXCEPT ![RequestOf(c)] = s]
    BY <1>6, QueuedAfterReceive DEF LoopProxyRequest, Spawn
  <1>7. ASSUME NEW n \in Notifiers, LoopProxyNote(n)
        PROVE  /\ UNCHANGED <<seen, batch>> /\ Queued(NoteOf(n))
               /\ \E s : task' = [task EXCEPT ![NoteOf(n)] = s]
    BY <1>7, QueuedAfterReceive DEF LoopProxyNote, Spawn
  <1>8. ASSUME LoopEnd
        PROVE  UNCHANGED <<seen, batch>> /\ \A u \in Units : task'[u] # "none" => task[u] # "none"
    BY <1>8 DEF LoopEnd
  <1>9. CASE LoopPeerBatch
    <2>1. UNCHANGED <<task, seen>> /\ batch' \in Batches
      BY <1>9 DEF LoopPeerBatch
    <2>2. PICK n \in 1 .. MaxBatch : batch' \in [1 .. n -> Answer] \cup [1 .. n -> Solicitation]
      BY <2>1 DEF Batches
    <2>3. \A k \in DOMAIN batch' : batch'[k] \in Answer \cup Solicitation
      BY <2>2
    <2>. QED  BY <2>1, <2>3 DEF Answer, Solicitation
  <1>10. LoopPopBatch => UNCHANGED <<task, seen>> /\ batch # <<>> /\ batch' = Tail(batch)
    BY DEF LoopPopBatch
  <1>11. ASSUME \/ \E c \in Calls : CallStep(c)
                \/ \E n \in Notes : SendNotification(n)
                \/ \E n \in Notifiers : NoteStep(n)
                \/ \E h \in Requests : HandlerTask(h)
                \/ LoopPeerMessage \/ LoopToSink \/ LoopClosed \/ LoopCancelled
                \/ CancelService \/ Terminated
         PROVE  UNCHANGED <<task, seen, batch>>
    BY <1>11 DEF CallStep, AllocId, EnqueueRequest, EnqueueClosed, AwaitResponse, TakeResponse,
                 TimeOut, CancelCall, StartCancelling, FinishCancelling, DropCall,
                 SendNotification, NoteStep, EnqueueNote, EnqueueNoteClosed, HandlerTask,
                 HandlerFinish, HandlerPanics, HandlerRespond, HandlerRespondClosed, ReplyEnds,
                 HandlerStep, LoopPeerMessage, LoopToSink, LoopClosed, LoopCancelled, Quit,
                 CancelService, Terminated, vars
  <1>12. \A c \in Calls : RequestOf(c) \in Units
    BY DEF RequestOf, Units
  <1>13. \A n \in Notifiers : NoteOf(n) \in Units
    BY DEF NoteOf, Units
  <1>14. CASE \E c \in Calls : Deliver(c)
    BY <1>2, <1>14
  <1>15. CASE \E u \in Units : TaskStep(u)
    BY <1>3, <1>5, <1>15
  <1>16. CASE \E c \in Calls : LoopProxyRequest(c)
    BY <1>6, <1>5, <1>12, <1>16
  <1>17. CASE \E n \in Notifiers : LoopProxyNote(n)
    BY <1>7, <1>5, <1>13, <1>17
  <1>18. CASE \/ \E c \in Calls : LoopJoinSent(c) \/ LoopJoinNotSent(c)
              \/ \E n \in Notifiers : LoopJoinNote(n)
              \/ \E u \in Units : LoopJoinError(u)
    <2>1. \E u \in Units : UNCHANGED batch /\ \E S : "none" \notin S /\ Joins(u, S)
      BY <1>12, <1>13, <1>18 DEF LoopJoinSent, LoopJoinNotSent, LoopJoinNote, LoopJoinError, Quit
    <2>. QED  BY <2>1, <1>4, <1>5
  <1>19. CASE LoopEnd
    BY <1>8, <1>12, <1>19
  <1>. QED
    BY <1>1, <1>9, <1>10, <1>11, <1>14, <1>15, <1>16, <1>17, <1>18, <1>19 DEF Next, LoopStep

\* Only calls that have begun are sent, seen or answered.
LEMMA BeginsFirst == Spec => [](Registered /\ SentHaveBegun)
  <1>1. Init => Registered /\ SentHaveBegun
    BY DEF Init, SentHaveBegun, Registered, Queued, RequestOf, Units
  <1>2. TypeOK /\ TypeOK' /\ Registered /\ SentHaveBegun /\ [Next]_vars => SentHaveBegun'
    <2>. SUFFICES ASSUME TypeOK, TypeOK', Registered, SentHaveBegun, Next PROVE SentHaveBegun'
      BY DEF vars, SentHaveBegun
    <2>1. \A c \in Calls : pc[c] # "idle" => pc'[c] # "idle"
      BY NumberSteps DEF AllocId, TypeOK
    <2>2. \A c \in Calls : task'[RequestOf(c)] # "none" => pc'[c] # "idle"
      BY <2>1, SendSteps DEF SentHaveBegun, Registered
    <2>3. \A c \in seen' : pc'[c] # "idle"
      BY <2>1, SendSteps DEF SentHaveBegun, TypeOK
    <2>4. \A k \in DOMAIN batch' :
             batch'[k][1] \in {"response", "error"} => pc'[batch'[k][2]] # "idle"
      <3>1. ASSUME NEW b, b \in Inbounds, b[1] \in {"response", "error"} PROVE b[2] \in Calls
        BY <3>1 DEF Inbounds
      <3>2. \A k \in DOMAIN batch : batch[k] \in Inbounds
        <4>1. batch \in Seq(Inbounds)
          BY DEF TypeOK
        <4>. QED  BY <4>1, LenProperties, ElementOfSeq
      <3>3. ASSUME NEW k \in DOMAIN batch, batch[k][1] \in {"response", "error"}
            PROVE  pc'[batch[k][2]] # "idle"
        BY <2>1, <3>1, <3>2, <3>3 DEF SentHaveBegun
      <3>4. CASE UNCHANGED batch
        BY <3>3, <3>4
      <3>5. CASE batch # <<>> /\ batch' = Tail(batch)
        <4>1. \A k \in DOMAIN batch' : \E j \in DOMAIN batch : batch[j] = batch'[k]
          BY <3>5, TailKeeps DEF TypeOK
        <4>. QED  BY <3>3, <4>1
      <3>6. CASE \A k \in DOMAIN batch' :
                    batch'[k][1] \in {"response", "error"} => batch'[k][2] \in seen
        BY <2>1, <3>6 DEF SentHaveBegun, TypeOK
      <3>. QED  BY <3>4, <3>5, <3>6, SendSteps
    <2>. QED  BY <2>2, <2>3, <2>4 DEF SentHaveBegun
  <1>. QED  BY <1>1, <1>2, Typing, CallersRegistered, PTL DEF Spec

\* ---- the pool of responders
\* The calls whose answers wait in the batch.
InBatch == {c \in Calls : \E k \in DOMAIN batch :
               batch[k][1] \in {"response", "error"} /\ batch[k][2] = c}

\* A message of the remote leaves the pool alone, or resolves the request it answers.
LEMMA ProcessResolves ==
    ASSUME TypeOK, NEW m \in Inbounds, Process(m)
    PROVE  \/ UNCHANGED poolVars
           \/ /\ m[1] \in {"response", "error"} /\ m[2] \in Calls
              /\ \E k \in Answers : Resolve(callId[m[2]], Outcome(k, m[2]))
  BY DEF Process, ProcessRequest, ProcessCancelled, ProcessAnswer, Inbounds, Answers

\* What a step may do to the pool: register a call, resolve a request, or drop them all.
LEMMA PoolSteps ==
    ASSUME TypeOK, Next
    PROVE  \/ UNCHANGED poolVars
           \/ \E c \in Calls : LoopProxyRequest(c)
           \/ \E c \in Calls : LoopJoinNotSent(c)
           \/ \E n \in Notifiers :
                 LoopJoinNote(n) /\ Resolve(noteFor[n], Outcome("Cancelled", None))
           \/ /\ \E c \in (seen \cap answered') \cup InBatch, k \in Answers :
                    Resolve(callId[c], Outcome(k, c))
              /\ loop = "running"
           \/ LoopEnd
  <1>1. ASSUME \/ \E c \in Calls : CallStep(c) \/ Deliver(c) \/ LoopJoinSent(c)
               \/ \E n \in Notes : SendNotification(n)
               \/ \E n \in Notifiers : NoteStep(n) \/ LoopProxyNote(n)
               \/ \E u \in Units : TaskStep(u) \/ LoopJoinError(u)
               \/ \E h \in Requests : HandlerTask(h)
               \/ LoopPeerBatch \/ LoopToSink \/ LoopClosed \/ LoopCancelled
               \/ CancelService \/ Terminated
        PROVE  UNCHANGED poolVars
    BY <1>1 DEF CallStep, AllocId, EnqueueRequest, EnqueueClosed, AwaitResponse, TakeResponse,
                TimeOut, CancelCall, StartCancelling, FinishCancelling, DropCall, Deliver,
                LoopJoinSent, SendNotification, NoteStep, EnqueueNote, EnqueueNoteClosed,
                LoopProxyNote, TaskStep, SendSucceeds, SendFails, SendPanics, FinishTask,
                LoopJoinError, HandlerTask, HandlerFinish, HandlerPanics, HandlerRespond,
                HandlerRespondClosed, ReplyEnds, HandlerStep, LoopPeerBatch, LoopToSink,
                LoopClosed, LoopCancelled, CancelService, Terminated, vars
  <1>2. ASSUME NEW n \in Notifiers, LoopJoinNote(n)
        PROVE  UNCHANGED poolVars \/ Resolve(noteFor[n], Outcome("Cancelled", None))
    BY <1>2 DEF LoopJoinNote
  <1>3. CASE LoopPeerMessage
    <2>1. PICK m \in Inbound : Process(m) /\ answered' = answered \cup AnsweredBy({m})
      BY <1>3 DEF LoopPeerMessage
    <2>2. /\ m \in Inbounds
          /\ m[1] \in {"response", "error"} => m[2] \in seen /\ m = <<m[1], m[2]>>
      BY <2>1, InboundType DEF Inbound, Answer, Solicitation
    <2>3. \/ UNCHANGED poolVars
          \/ \E c \in seen \cap answered', k \in Answers : Resolve(callId[c], Outcome(k, c))
      BY <2>1, <2>2, ProcessResolves DEF AnsweredBy
    <2>. QED  BY <1>3, <2>3 DEF LoopPeerMessage, Selecting
  <1>4. CASE LoopPopBatch
    <2>1. /\ Head(batch) \in Inbounds /\ Process(Head(batch))
          /\ 1 \in DOMAIN batch /\ batch[1] = Head(batch)
      BY <1>4, HeadTailProperties, LenProperties, EmptySeq DEF TypeOK, LoopPopBatch
    <2>2. \/ UNCHANGED poolVars
          \/ \E c \in InBatch, k \in Answers : Resolve(callId[c], Outcome(k, c))
      BY <2>1, ProcessResolves DEF InBatch
    <2>. QED  BY <1>4, <2>2 DEF LoopPopBatch
  <1>. QED  BY <1>1, <1>2, <1>3, <1>4 DEF Next, LoopStep

\* A responder is kept under the id of its call.
LEMMA PoolInOrder == Spec => []PoolKeyed
  <1>1. Init => PoolKeyed
    BY DEF Init, PoolKeyed
  <1>2. TypeOK /\ BegunHaveIds /\ Registered /\ PoolKeyed /\ [Next]_vars => PoolKeyed'
    <2>. SUFFICES ASSUME TypeOK, BegunHaveIds, Registered, PoolKeyed, Next PROVE PoolKeyed'
      BY DEF vars, PoolKeyed
    <2>1. ASSUME NEW c \in Calls, LoopProxyRequest(c) PROVE PoolKeyed'
      BY <2>1 DEF LoopProxyRequest, Register, PoolKeyed, TypeOK
    <2>2. ASSUME NEW i \in Ids, responders'[i] # None, ~ \E c \in Calls : LoopProxyRequest(c)
          PROVE  responders'[i] = responders[i]
      BY <2>2, PoolSteps DEF TypeOK, LoopJoinNotSent, LoopEnd, Resolve
    <2>3. ASSUME NEW i \in Ids, responders[i] # None
          PROVE  callId'[responders[i]] = i
      <3>1. responders[i] \in Calls /\ callId[responders[i]] = i /\ i # None
        BY <2>3, ServiceLoopAssumption DEF TypeOK, PoolKeyed
      <3>. QED  BY <3>1, NumberSteps DEF BegunHaveIds, AllocId, TypeOK
    <2>. QED  BY <2>1, <2>2, <2>3 DEF PoolKeyed
  <1>. QED  BY <1>1, <1>2, Typing, IdsGiven, CallersRegistered, PTL DEF Spec

\* A caller is given the answer to its own request, however the answers are ordered, repeated
\* or batched, as long as there are no more calls than ids.
THEOREM AnswersBelong == Cardinality(Calls) <= IdModulus => (Spec => []AnswersMatch)
  <1>1. Init => AnswersMatch
    BY DEF Init, AnswersMatch, Empty, Answers
  <1>2. TypeOK /\ BegunHaveIds /\ Numbered /\ SentHaveBegun /\ PoolKeyed /\ AnswersMatch
          /\ [Next]_vars => AnswersMatch'
    <2>. SUFFICES ASSUME TypeOK, BegunHaveIds, Numbered, SentHaveBegun, PoolKeyed, AnswersMatch, Next
                  PROVE  AnswersMatch'
      BY DEF vars, AnswersMatch
    \* An answer goes to the call whose id it carries.
    <2>1. ASSUME NEW d \in seen \cup InBatch, NEW k \in Answers, Resolve(callId[d], Outcome(k, d))
          PROVE  AnswersMatch'
      <3>1. d \in Begun
        BY DEF InBatch, SentHaveBegun, BegunHaveIds, Begun, TypeOK
      <3>2. callId[d] \in Ids
        BY <3>1 DEF Begun, TypeOK
      <3>3. ASSUME NEW c \in Calls, responders[callId[d]] = c
            PROVE  c = d
        <4>1. callId[c] = callId[d] /\ c \in Begun
          BY <3>1, <3>2, <3>3, ServiceLoopAssumption DEF PoolKeyed, Begun
        <4>. QED  BY <3>1, <4>1 DEF Numbered
      <3>. QED  BY <2>1, <3>3 DEF Resolve, AnswersMatch, Outcome
    \* Every other outcome is an error.
    <2>2. ASSUME NEW i, NEW k \in {"TransportSend", "Cancelled"}, Resolve(i, Outcome(k, None))
          PROVE  AnswersMatch'
      BY <2>2 DEF Resolve, AnswersMatch, Outcome, Answers
    <2>3. ASSUME NEW c \in Calls, LoopProxyRequest(c)
          PROVE  AnswersMatch'
      BY <2>3 DEF LoopProxyRequest, Register, AnswersMatch, Outcome, Answers
    <2>4. CASE LoopEnd
      BY <2>4 DEF LoopEnd, AnswersMatch, Outcome, Answers
    <2>5. CASE UNCHANGED poolVars
      BY <2>5 DEF AnswersMatch
    <2>. QED  BY <2>1, <2>2, <2>3, <2>4, <2>5, PoolSteps DEF LoopJoinNotSent
  <1>3. ASSUME Cardinality(Calls) <= IdModulus
        PROVE  Spec => []AnswersMatch
    <2>1. Spec => []Numbered
      BY <1>3, DistinctIds
    <2>. QED  BY <1>1, <1>2, <2>1, Typing, IdsGiven, BeginsFirst, PoolInOrder, PTL DEF Spec
  <1>. QED  BY <1>3

\* ---- the channel of the peer
Holds(s, u) == \E k \in DOMAIN s : s[k] = u
Distinct(s) == \A j, k \in DOMAIN s : s[j] = s[k] => j = k
\* Every u in s comes before every v.
InOrder(s, u, v) == \A j, k \in DOMAIN s : s[j] = u /\ s[k] = v => j < k

\* A message is in the channel at most once, before it is handed to a send task and after
\* its sender began; the request of a call goes ahead of its cancellation.
ChannelInOrder ==
    /\ Distinct(proxy)
    /\ \A c \in Calls : InOrder(proxy, RequestOf(c), NoteOf(c))
    /\ \A c \in Calls : pc[c] \in {"idle", "enqueue"} => ~Queued(RequestOf(c))
    /\ \A c \in Calls : note[c] # "idle" => pc[c] \in {"cancelling", "timingOut", "done"}
    /\ \A n \in Notifiers : Queued(NoteOf(n)) => note[n] = "waiting" /\ task[NoteOf(n)] = "none"
    /\ \A n \in Notifiers : task[NoteOf(n)] # "none" => note[n] \notin {"idle", "enqueue"}
    /\ \A c \in Calls : task[NoteOf(c)] # "none" => ~Queued(RequestOf(c))

\* A queue stays free of repetitions and in order when what is appended is not in it.
LEMMA AppendInOrder ==
    ASSUME NEW S, NEW s \in Seq(S), NEW x \in S
    PROVE  /\ Distinct(s) /\ ~Holds(s, x) => Distinct(Append(s, x))
           /\ \A u, v : InOrder(s, u, v) /\ u # v /\ (x = u => ~Holds(s, v))
                          => InOrder(Append(s, x), u, v)
  <1>1. /\ DOMAIN s = 1 .. Len(s) /\ Len(s) \in Nat
        /\ DOMAIN Append(s, x) = 1 .. (Len(s) + 1)
        /\ Append(s, x)[Len(s) + 1] = x
        /\ \A k \in 1 .. Len(s) : Append(s, x)[k] = s[k]
    BY AppendProperties, LenProperties
  <1>2. \A k \in 1 .. (Len(s) + 1) : k = Len(s) + 1 \/ (k \in 1 .. Len(s) /\ k < Len(s) + 1)
    BY <1>1
  <1>3. ASSUME Distinct(s), ~Holds(s, x) PROVE Distinct(Append(s, x))
    BY <1>1, <1>2, <1>3 DEF Distinct, Holds
  <1>4. ASSUME NEW u, NEW v, InOrder(s, u, v), u # v, x = u => ~Holds(s, v)
        PROVE  InOrder(Append(s, x), u, v)
    BY <1>1, <1>2, <1>4 DEF InOrder, Holds
  <1>. QED  BY <1>3, <1>4

\* The same when its head is taken; the head was in it once, and nothing had to go before.
LEMMA TailInOrder ==
    ASSUME NEW S, NEW s \in Seq(S), s # <<>>
    PROVE  /\ Distinct(s) => Distinct(Tail(s)) /\ ~Holds(Tail(s), Head(s))
           /\ \A u, v : InOrder(s, u, v)
                          => InOrder(Tail(s), u, v) /\ (Head(s) = v => ~Holds(Tail(s), u))
  <1>1. /\ DOMAIN s = 1 .. Len(s) /\ Len(s) \in Nat \ {0}
        /\ DOMAIN Tail(s) = 1 .. (Len(s) - 1)
        /\ Head(s) = s[1]
        /\ \A k \in 1 .. (Len(s) - 1) : Tail(s)[k] = s[k + 1]
    BY HeadTailProperties, LenProperties, EmptySeq
  <1>2. 1 \in 1 .. Len(s)
        /\ \A k \in 1 .. (Len(s) - 1) : k + 1 \in 1 .. Len(s) /\ k + 1 # 1 /\ ~(k + 1 < 1)
    BY <1>1
  <1>3. \A j, k \in 1 .. (Len(s) - 1) : (j + 1 = k + 1 => j = k) /\ (j + 1 < k + 1 => j < k)
    BY <1>1
  <1>4. Distinct(s) => Distinct(Tail(s)) /\ ~Holds(Tail(s), Head(s))
    BY <1>1, <1>2, <1>3 DEF Distinct, Holds
  <1>5. ASSUME NEW u, NEW v, InOrder(s, u, v)
        PROVE  InOrder(Tail(s), u, v) /\ (Head(s) = v => ~Holds(Tail(s), u))
    BY <1>1, <1>2, <1>3, <1>5 DEF InOrder, Holds
  <1>. QED  BY <1>4, <1>5

\* Only the caller of a request moves it.
LEMMA PcSteps ==
    ASSUME Next, ~(\E d \in Calls : CallStep(d))
    PROVE  UNCHANGED pc
  <1>1. ASSUME \/ \E d \in Calls : Deliver(d)
               \/ \E n \in Notes : SendNotification(n)
               \/ \E n \in Notifiers : NoteStep(n)
               \/ \E u \in Units : TaskStep(u)
               \/ \E h \in Requests : HandlerTask(h)
               \/ CancelService \/ Terminated
        PROVE  UNCHANGED pc
    BY <1>1 DEF Deliver, SendNotification, NoteStep, EnqueueNote, EnqueueNoteClosed, TaskStep,
                SendSucceeds, SendFails, SendPanics, FinishTask, HandlerTask, HandlerFinish,
                HandlerPanics, HandlerRespond, HandlerRespondClosed, ReplyEnds, HandlerStep,
                CancelService, Terminated, vars
  <1>2. LoopStep => UNCHANGED pc
    BY DEF LoopStep, LoopProxyRequest, LoopJoinSent, LoopJoinNotSent, LoopProxyNote,
           LoopJoinNote, LoopJoinError, Joins, LoopPeerMessage, LoopPeerBatch, LoopPopBatch,
           LoopToSink, LoopClosed, LoopCancelled, LoopEnd
  <1>. QED  BY <1>1, <1>2 DEF Next

\* A call never goes back to where its request is not sent yet, nor from its cancellation.
LEMMA CallMoves ==
    ASSUME TypeOK, Next, NEW c \in Calls
    PROVE  /\ pc'[c] \in {"idle", "enqueue"} => pc[c] \in {"idle", "enqueue"}
           /\ pc[c] \in {"cancelling", "timingOut", "done"}
                => pc'[c] \in {"cancelling", "timingOut", "done"}
  <1>1. ASSUME NEW d \in Calls, CallStep(d)
        PROVE  \/ pc[d] = "idle" /\ pc' = [pc EXCEPT ![d] = "enqueue"]
               \/ /\ pc[d] \in {"enqueue", "open", "awaiting"}
                  /\ \E s \in {"open", "awaiting", "cancelling", "timingOut", "done", "dropped"} :
                        pc' = [pc EXCEPT ![d] = s]
               \/ pc' = [pc EXCEPT ![d] = "done"]
    BY <1>1 DEF CallStep, AllocId, EnqueueRequest, EnqueueClosed, AwaitResponse, TakeResponse,
                TimeOut, CancelCall, StartCancelling, FinishCancelling, DropCall
  <1>. QED  BY <1>1, PcSteps DEF TypeOK

\* The messages of the channel, by whom they are.
LEMMA UnitNames ==
    /\ \A c \in Calls : RequestOf(c) \in Units
    /\ \A n \in Notifiers : NoteOf(n) \in Units
    /\ \A c, n : RequestOf(c) # NoteOf(n)
    /\ \A c, d : RequestOf(c) = RequestOf(d) <=> c = d
    /\ \A m, n : NoteOf(m) = NoteOf(n) <=> m = n
    /\ Calls \subseteq Notifiers
  BY DEF RequestOf, NoteOf, Units, Notifiers

\* The order of the channel.
LEMMA ChannelStaysInOrder == Spec => []ChannelInOrder
  <1>1. Init => ChannelInOrder
    <2>. SUFFICES ASSUME Init PROVE ChannelInOrder
      OBVIOUS
    <2>1. /\ Distinct(proxy) /\ \A u, v : InOrder(proxy, u, v)
          /\ \A u : ~Queued(u)
      BY DEF Init, Distinct, InOrder, Queued
    <2>. QED  BY <2>1, UnitNames DEF Init, ChannelInOrder
  <1>2. TypeOK /\ ChannelInOrder /\ [Next]_vars => ChannelInOrder'
    <2>. SUFFICES ASSUME TypeOK, ChannelInOrder, [Next]_vars PROVE ChannelInOrder'
      OBVIOUS
    <2>1. CASE UNCHANGED vars
      BY <2>1 DEF vars, ChannelInOrder, Queued
    <2>. SUFFICES ASSUME Next PROVE ChannelInOrder'
      BY <2>1
    <2>. USE UnitNames
    <2>2. CASE UNCHANGED <<note, proxy, task>>
      BY <2>2, CallMoves DEF ChannelInOrder, Queued
    <2>3. ASSUME NEW c \in Calls, EnqueueRequest(c) PROVE ChannelInOrder'
      <3>1. ~Queued(RequestOf(c)) /\ ~Queued(NoteOf(c)) /\ task[NoteOf(c)] = "none"
        BY <2>3 DEF EnqueueRequest, ChannelInOrder
      <3>2. \A u : Queued(u)' <=> u = RequestOf(c) \/ Queued(u)
        BY <2>3, QueuedAfterSend DEF EnqueueRequest
      <3>3. /\ Distinct(proxy)'
            /\ \A d \in Calls : InOrder(proxy, RequestOf(d), NoteOf(d))'
        BY <2>3, <3>1, AppendInOrder DEF EnqueueRequest, ChannelInOrder, Queued, Holds, TypeOK
      <3>4. pc'[c] = "open" /\ \A d \in Calls \ {c} : pc'[d] = pc[d]
        BY <2>3 DEF EnqueueRequest, TypeOK
      <3>. QED
        BY <2>3, <3>1, <3>2, <3>3, <3>4 DEF EnqueueRequest, ChannelInOrder
    <2>4. ASSUME NEW c \in Calls, TimeOut(c) \/ CancelCall(c) PROVE ChannelInOrder'
      <3>0. /\ pc[c] \in {"open", "awaiting"} /\ note' = [note EXCEPT ![c] = "enqueue"]
            /\ \E s \in {"cancelling", "timingOut"} : pc' = [pc EXCEPT ![c] = s]
            /\ UNCHANGED <<proxy, task>>
        BY <2>4 DEF TimeOut, CancelCall, StartCancelling
      <3>1. /\ pc'[c] \in {"cancelling", "timingOut"} /\ \A d \in Calls \ {c} : pc'[d] = pc[d]
            /\ note[c] = "idle"
        BY <3>0 DEF ChannelInOrder, TypeOK
      <3>2. ~Queued(NoteOf(c)) /\ task[NoteOf(c)] = "none"
        BY <3>1 DEF ChannelInOrder
      <3>. QED  BY <3>0, <3>1, <3>2 DEF ChannelInOrder, Queued, TypeOK
    <2>5. ASSUME NEW k \in Notes, SendNotification(k) PROVE ChannelInOrder'
      <3>1. k \in Notifiers \ Calls
        BY ServiceLoopAssumption DEF Notifiers
      <3>2. /\ note[k] = "idle" /\ note' = [note EXCEPT ![k] = "enqueue"]
            /\ UNCHANGED <<pc, proxy, task>>
        BY <2>5 DEF SendNotification
      <3>. QED  BY <3>1, <3>2 DEF ChannelInOrder, Queued, TypeOK
    <2>6. ASSUME NEW k \in Notifiers, EnqueueNote(k) PROVE ChannelInOrder'
      <3>1. ~Queued(NoteOf(k)) /\ task[NoteOf(k)] = "none" /\ note' = [note EXCEPT ![k] = "waiting"]
        BY <2>6 DEF EnqueueNote, ChannelInOrder
      <3>2. \A u : Queued(u)' <=> u = NoteOf(k) \/ Queued(u)
        BY <2>6, QueuedAfterSend DEF EnqueueNote
      <3>3. /\ Distinct(proxy)'
            /\ \A d \in Calls : InOrder(proxy, RequestOf(d), NoteOf(d))'
        BY <2>6, <3>1, AppendInOrder DEF EnqueueNote, ChannelInOrder, Queued, Holds, TypeOK
      <3>4. note[k] = "enqueue" /\ UNCHANGED <<pc, task>>
        BY <2>6 DEF EnqueueNote
      <3>. QED
        BY <3>1, <3>2, <3>3, <3>4 DEF ChannelInOrder, TypeOK
    <2>7. ASSUME NEW k \in Notifiers, EnqueueNoteClosed(k) PROVE ChannelInOrder'
      <3>1. /\ note[k] = "enqueue" /\ note' = [note EXCEPT ![k] = "TransportClosed"]
            /\ UNCHANGED <<pc, proxy, task>>
        BY <2>7 DEF EnqueueNoteClosed
      <3>. QED  BY <3>1 DEF ChannelInOrder, Queued, TypeOK
    <2>8. ASSUME NEW u \in Units, Selecting, proxy # <<>>, Head(proxy) = u, proxy' = Tail(proxy),
                 Spawn(u), UNCHANGED <<pc, note>>
          PROVE  ChannelInOrder'
      <3>1. \A v : Queued(v) <=> v = u \/ Queued(v)'
        BY <2>8, QueuedAfterReceive
      <3>2. /\ Distinct(proxy)'
            /\ \A d \in Calls : InOrder(proxy, RequestOf(d), NoteOf(d))'
            /\ ~Queued(u)'
            /\ \A d \in Calls : u = NoteOf(d) => ~Queued(RequestOf(d))'
        BY <2>8, TailInOrder DEF ChannelInOrder, Queued, Holds, TypeOK
      <3>3. \A v \in Units : task'[v] = IF v = u THEN "sending" ELSE task[v]
        BY <2>8 DEF Spawn, TypeOK
      <3>. QED
        BY <2>8, <3>1, <3>2, <3>3 DEF ChannelInOrder
    <2>9. ASSUME NEW u \in Units, NEW s, s # "none", task[u] # "none",
                 task' = [task EXCEPT ![u] = s], UNCHANGED <<pc, proxy>>,
                 \A n \in Notifiers : note'[n] # note[n]
                    => u = NoteOf(n) /\ note[n] # "idle" /\ note'[n] \in NoteResults
          PROVE  ChannelInOrder'
      <3>1. \A v \in Units : task'[v] # "none" <=> task[v] # "none"
        BY <2>9 DEF TypeOK
      <3>2. \A n \in Notifiers : /\ note'[n] # "idle" <=> note[n] # "idle"
                                 /\ note'[n] = "enqueue" => note[n] = "enqueue"
                                 /\ u = NoteOf(n) \/ note'[n] = note[n]
        BY <2>9 DEF NoteResults
      <3>. QED
        BY <2>9, <3>1, <3>2 DEF ChannelInOrder, Queued
    <2>10. CASE LoopClosed \/ LoopCancelled
      BY <2>2, <2>10 DEF LoopClosed, LoopCancelled
    <2>11. CASE LoopEnd
      <3>1. /\ Distinct(proxy)' /\ \A u, v : InOrder(proxy, u, v)'
            /\ \A u : ~Queued(u)'
        BY <2>11 DEF LoopEnd, Distinct, InOrder, Queued
      <3>2. \A u \in Units : task'[u] # "none" => task[u] # "none"
        BY <2>11 DEF LoopEnd
      <3>3. \A n \in Notifiers : /\ note'[n] # "idle" => note[n] # "idle"
                                 /\ note'[n] \in {"idle", "enqueue"} => note[n] \in {"idle", "enqueue"}
        BY <2>11 DEF LoopEnd
      <3>. QED
        BY <2>11, <3>1, <3>2, <3>3 DEF ChannelInOrder, LoopEnd
    <2>12. ASSUME NEW c \in Calls, LoopProxyRequest(c) PROVE ChannelInOrder'
      BY <2>8, <2>12 DEF LoopProxyRequest
    <2>13. ASSUME NEW n \in Notifiers, LoopProxyNote(n) PROVE ChannelInOrder'
      BY <2>8, <2>13 DEF LoopProxyNote
    <2>14. ASSUME NEW c \in Calls, LoopJoinSent(c) \/ LoopJoinNotSent(c) PROVE ChannelInOrder'
      BY <2>9, <2>14 DEF LoopJoinSent, LoopJoinNotSent, Joins
    <2>15. ASSUME NEW n \in Notifiers, LoopJoinNote(n) PROVE ChannelInOrder'
      <3>1. note[n] # "idle" /\ task[NoteOf(n)] \in {"ok", "err"}
        BY <2>15 DEF LoopJoinNote, Joins, ChannelInOrder
      <3>2. \A m \in Notifiers : note'[m] # note[m] => m = n /\ note'[m] \in NoteResults
        BY <2>15 DEF LoopJoinNote, AnswerNotifier, NoteResults, TypeOK
      <3>. QED  BY ZenonT(30), <2>9, <2>15, <3>1, <3>2 DEF LoopJoinNote, Joins
    <2>16. ASSUME NEW u \in Units, SendSucceeds(u) \/ SendFails(u) PROVE ChannelInOrder'
      BY <2>9, <2>16 DEF SendSucceeds, SendFails, FinishTask
    <2>17. ASSUME NEW u \in Units, SendPanics(u) PROVE ChannelInOrder'
      <3>1. \A n \in Notifiers : note'[n] # note[n] => u = NoteOf(n) /\ note'[n] = "TransportClosed"
        BY <2>17 DEF SendPanics, TypeOK, Units, NoteOf
      <3>2. \A n \in Notifiers : u = NoteOf(n) => note[n] # "idle"
        BY <2>17 DEF SendPanics, FinishTask, ChannelInOrder
      <3>. QED  BY ZenonT(30), <2>9, <2>17, <3>1, <3>2 DEF SendPanics, FinishTask, NoteResults
    <2>18. ASSUME NEW u \in Units, LoopJoinError(u) PROVE ChannelInOrder'
      BY <2>9, <2>18 DEF LoopJoinError, Joins
    <2>. QED
      BY <2>2, <2>3, <2>4, <2>5, <2>6, <2>7, <2>10, <2>11, <2>12, <2>13, <2>14, <2>15, <2>16,
         <2>17, <2>18, QuietSteps
  <1>. QED  BY <1>1, <1>2, Typing, PTL DEF Spec

\* ---- who has left the pool
Unsent(c) == pc[c] \in {"idle", "enqueue"} \/ Queued(RequestOf(c))

\* A responder that is in the pool has not been used, and one that is not there yet neither.
PoolFresh ==
    /\ \A i \in Ids : responders[i] # None => box[responders[i]] = Empty
    /\ \A c \in Calls : Unsent(c) => box[c] = Empty /\ \A i \in Ids : responders[i] # c

\* A request is sent once.
LEMMA SentOnce ==
    ASSUME TypeOK, Next, NEW c \in Calls, Unsent(c)'
    PROVE  Unsent(c)
  <1>. USE UnitNames
  <1>1. CASE UNCHANGED <<note, proxy, task, loop>>
    BY <1>1, CallMoves DEF Unsent, Queued
  <1>2. ASSUME NEW d \in Calls, EnqueueRequest(d) PROVE Unsent(c)
    BY <1>2, CallMoves, QueuedAfterSend DEF EnqueueRequest, Unsent
  <1>3. ASSUME NEW n \in Notifiers, EnqueueNote(n) PROVE Unsent(c)
    BY <1>3, CallMoves, QueuedAfterSend DEF EnqueueNote, Unsent
  <1>4. CASE proxy # <<>> /\ proxy' = Tail(proxy)
    BY <1>4, CallMoves, QueuedAfterReceive DEF Unsent
  <1>5. CASE LoopEnd
    BY <1>5, CallMoves DEF LoopEnd, Unsent, Queued
  <1>6. CASE UNCHANGED proxy
    BY <1>6, CallMoves DEF Unsent, Queued
  <1>7. \A d \in Calls : TimeOut(d) \/ CancelCall(d) \/ LoopJoinSent(d) \/ LoopJoinNotSent(d)
                           => UNCHANGED proxy
    BY DEF TimeOut, CancelCall, StartCancelling, LoopJoinSent, LoopJoinNotSent, Joins
  <1>8. \A n \in Notifiers : EnqueueNoteClosed(n) \/ LoopJoinNote(n) => UNCHANGED proxy
    BY DEF EnqueueNoteClosed, LoopJoinNote, Joins
  <1>9. \A n \in Notes : SendNotification(n) => UNCHANGED proxy
    BY DEF SendNotification
  <1>10. \A u \in Units : SendSucceeds(u) \/ SendFails(u) \/ SendPanics(u) \/ LoopJoinError(u)
                            => UNCHANGED proxy
    BY DEF SendSucceeds, SendFails, SendPanics, FinishTask, LoopJoinError, Joins
  <1>11. LoopClosed \/ LoopCancelled => UNCHANGED proxy
    BY DEF LoopClosed, LoopCancelled
  <1>12. /\ \A d \in Calls : LoopProxyRequest(d) => proxy # <<>> /\ proxy' = Tail(proxy)
         /\ \A n \in Notifiers : LoopProxyNote(n) => proxy # <<>> /\ proxy' = Tail(proxy)
    BY DEF LoopProxyRequest, LoopProxyNote
  <1>. QED
    BY <1>1, <1>2, <1>3, <1>4, <1>5, <1>6, <1>7, <1>8, <1>9, <1>10, <1>11, <1>12, QuietSteps

\* What becomes of one call and its responder in a step: it is registered, or what it finds is
\* an outcome of the request it was registered under, or the loop ends.
LEMMA OneResponder ==
    ASSUME TypeOK, Registered, BegunHaveIds, SentHaveBegun, PoolKeyed, PoolFresh, ChannelInOrder,
           Next, NEW c \in Calls
    PROVE  \/ box'[c] = box[c] /\ \A i \in Ids : responders'[i] = c <=> responders[i] = c
           \/ LoopProxyRequest(c) /\ box'[c] = Empty
           \/ /\ responders[callId[c]] = c /\ callId[c] \in Ids
              /\ box'[c] # Empty /\ \A i \in Ids : responders'[i] # c
           \/ LoopEnd
  <1>. DEFINE Same == box'[c] = box[c] /\ \A i \in Ids : responders'[i] = c <=> responders[i] = c
              Out == /\ responders[callId[c]] = c /\ callId[c] \in Ids
                     /\ box'[c] # Empty /\ \A i \in Ids : responders'[i] # c
  <1>0. None \notin Calls /\ \A i \in Ids : responders[i] = c => callId[c] = i
    BY ServiceLoopAssumption DEF PoolKeyed
  <1>1. ASSUME NEW i \in Ids, NEW o, o # Empty, Resolve(i, o)
        PROVE  Same \/ Out
    <2>1. CASE responders[i] = c
      BY <1>0, <1>1, <2>1 DEF Resolve, TypeOK
    <2>2. CASE responders[i] # c
      BY <1>0, <1>1, <2>2 DEF Resolve, TypeOK
    <2>. QED  BY <2>1, <2>2
  <1>2. CASE UNCHANGED poolVars
    BY <1>2
  <1>3. ASSUME NEW d \in Calls, LoopProxyRequest(d)
        PROVE  Same \/ Out \/ (LoopProxyRequest(c) /\ box'[c] = Empty)
    <2>1. Queued(RequestOf(d)) /\ callId[d] \in Ids
      BY <1>3, QueuedAfterReceive DEF LoopProxyRequest, Registered
    <2>2. /\ responders' = [responders EXCEPT ![callId[d]] = d]
          /\ box'[c] = IF responders[callId[d]] = c THEN Outcome("TransportClosed", None) ELSE box[c]
      BY <1>3 DEF LoopProxyRequest, Register
    <2>3. CASE c = d
      BY <1>3, <2>1, <2>2, <2>3 DEF PoolFresh, Unsent
    <2>4. CASE c # d /\ responders[callId[d]] = c
      BY <1>0, <2>1, <2>2, <2>4, OutcomeType DEF TypeOK
    <2>5. CASE c # d /\ responders[callId[d]] # c
      BY <2>1, <2>2, <2>5 DEF TypeOK
    <2>. QED  BY <2>3, <2>4, <2>5
  <1>4. ASSUME NEW d \in Calls, LoopJoinNotSent(d)
        PROVE  Same \/ Out
    <2>1. task[RequestOf(d)] # "none" /\ Resolve(callId[d], Outcome("TransportSend", None))
      BY <1>4 DEF LoopJoinNotSent, Joins
    <2>2. callId[d] \in Ids /\ Outcome("TransportSend", None) # Empty
      BY <2>1, OutcomeType DEF SentHaveBegun, Registered
    <2>. QED  BY <1>1, <2>1, <2>2
  <1>5. ASSUME NEW n \in Notifiers, LoopJoinNote(n), Resolve(noteFor[n], Outcome("Cancelled", None))
        PROVE  Same \/ Out
    <2>1. CASE noteFor[n] # None
      <3>1. noteFor[n] \in Ids /\ Outcome("Cancelled", None) # Empty
        BY <2>1, OutcomeType DEF TypeOK
      <3>. QED  BY <1>1, <1>5, <3>1
    <2>2. CASE noteFor[n] = None
      BY <1>2, <1>5, <2>2 DEF LoopJoinNote, Cancels
    <2>. QED  BY <2>1, <2>2
  <1>6. ASSUME NEW d \in seen \cup InBatch, NEW k \in Answers, Resolve(callId[d], Outcome(k, d))
        PROVE  Same \/ Out
    <2>1. pc[d] # "idle" /\ d \in Calls
      BY DEF InBatch, SentHaveBegun, TypeOK
    <2>2. callId[d] \in Ids /\ Outcome(k, d) # Empty
      BY <2>1, OutcomeType DEF Registered
    <2>. QED  BY <1>1, <1>6, <2>2
  <1>. QED  BY <1>2, <1>3, <1>4, <1>5, <1>6, PoolSteps

\* A responder in the pool is unused.
LEMMA PoolStaysFresh == Spec => []PoolFresh
  <1>1. Init => PoolFresh
    BY ServiceLoopAssumption DEF Init, PoolFresh
  <1>2. TypeOK /\ TypeOK' /\ Registered /\ BegunHaveIds /\ SentHaveBegun /\ PoolKeyed /\ PoolFresh
          /\ ChannelInOrder /\ ChannelInOrder' /\ [Next]_vars => PoolFresh'
    <2>. SUFFICES ASSUME TypeOK, TypeOK', Registered, BegunHaveIds, SentHaveBegun, PoolKeyed,
                         PoolFresh, ChannelInOrder, ChannelInOrder', Next
                  PROVE  PoolFresh'
      BY DEF vars, PoolFresh, Unsent, Queued
    <2>1. ASSUME NEW i \in Ids, responders'[i] # None
          PROVE  box'[responders'[i]] = Empty
      <3>. DEFINE c == responders'[i]
      <3>1. c \in Calls
        BY <2>1 DEF TypeOK
      <3>2. CASE box'[c] = box[c] /\ \A j \in Ids : responders'[j] = c <=> responders[j] = c
        BY <2>1, <3>2 DEF PoolFresh
      <3>3. CASE LoopEnd
        BY <2>1, <3>3 DEF LoopEnd
      <3>. QED  BY <3>1, <3>2, <3>3, OneResponder
    <2>2. ASSUME NEW c \in Calls, Unsent(c)'
          PROVE  box'[c] = Empty /\ \A i \in Ids : responders'[i] # c
      <3>1. Unsent(c)
        BY <2>2, SentOnce
      <3>2. box[c] = Empty /\ \A i \in Ids : responders[i] # c
        BY <3>1 DEF PoolFresh
      <3>3. CASE LoopEnd
        <4>1. ~Queued(RequestOf(c))' /\ pc'[c] = pc[c]
          BY <3>3 DEF LoopEnd, Queued
        <4>2. pc[c] \in {"idle", "enqueue"}
          BY <2>2, <4>1 DEF Unsent
        <4>3. ~Queued(RequestOf(c))
          BY <4>2 DEF ChannelInOrder
        <4>4. c \notin Held
          BY <3>2, <4>3 DEF Held, Queued
        <4>. QED  BY <3>2, <3>3, <4>4, ServiceLoopAssumption DEF LoopEnd
      <3>4. ~LoopProxyRequest(c)
        <4>1. ASSUME LoopProxyRequest(c) PROVE FALSE
          <5>1. ~Queued(RequestOf(c))' /\ Queued(RequestOf(c)) /\ pc'[c] = pc[c]
            BY <4>1, TailInOrder, QueuedAfterReceive
            DEF LoopProxyRequest, ChannelInOrder, TypeOK, Queued, Holds
          <5>. QED  BY <2>2, <5>1 DEF Unsent, ChannelInOrder
        <4>. QED  BY <4>1
      <3>. QED  BY <3>2, <3>3, <3>4, OneResponder
    <2>. QED  BY <2>1, <2>2 DEF PoolFresh
  <1>. QED
    BY <1>1, <1>2, Typing, CallersRegistered, IdsGiven, BeginsFirst, PoolInOrder,
       ChannelStaysInOrder, PTL DEF Spec

\* Who was told that its cancellation was handed over has left the pool; who was told that
\* the transport is closed was told so by a task that panicked.
CancelledLeft ==
    /\ \A c \in Calls : note[c] # "idle" => noteFor[c] = callId[c]
    /\ \A c \in Calls : note[c] \in {"Ok", "TransportSend"}
          => ~Queued(RequestOf(c)) /\ \A i \in Ids : responders[i] # c
    /\ loop = "running" => \A n \in Notifiers :
          note[n] = "TransportClosed" => task[NoteOf(n)] = "panic"
    /\ loop = "running" => \A c \in Calls :
          pc[c] = "done" => box[c] # Empty \/ note[c] \in NoteResults

\* What a step may do to the notification of a call or of a user.
LEMMA NoteMoves ==
    ASSUME TypeOK, ChannelInOrder, Next, NEW n \in Notifiers
    PROVE  \/ note'[n] = note[n] /\ noteFor'[n] = noteFor[n]
           \/ /\ note[n] = "idle" /\ note'[n] = "enqueue"
              /\ noteFor'[n] \in {None} \cup {callId[c] : c \in Calls}
              /\ n \in Calls => noteFor'[n] = callId[n]
           \/ /\ note[n] = "enqueue" /\ note'[n] = "waiting"
              /\ noteFor'[n] = noteFor[n]
           \/ /\ note[n] = "enqueue" /\ note'[n] = "TransportClosed" /\ loop = "ended"
              /\ noteFor'[n] = noteFor[n]
           \/ /\ LoopJoinNote(n) /\ note'[n] \in {"Ok", "TransportSend"}
              /\ note[n] # "idle" /\ noteFor'[n] = noteFor[n]
           \/ /\ note'[n] = "TransportClosed" /\ task'[NoteOf(n)] = "panic"
              /\ note[n] # "idle" /\ noteFor'[n] = noteFor[n]
           \/ LoopEnd /\ note[n] # "idle" /\ note'[n] = "TransportClosed" /\ noteFor'[n] = noteFor[n]
  <1>. USE UnitNames
  <1>1. CASE UNCHANGED note /\ UNCHANGED noteFor
    BY <1>1
  <1>2. ASSUME NEW c \in Calls, TimeOut(c) \/ CancelCall(c)
        PROVE  /\ note[c] = "idle" /\ note' = [note EXCEPT ![c] = "enqueue"]
               /\ noteFor' = [noteFor EXCEPT ![c] = callId[c]]
    BY <1>2 DEF TimeOut, CancelCall, StartCancelling, ChannelInOrder, TypeOK
  <1>3. ASSUME NEW m \in Notes, SendNotification(m)
        PROVE  /\ note[m] = "idle" /\ note' = [note EXCEPT ![m] = "enqueue"]
               /\ m \notin Calls
               /\ \E i \in {None} \cup {callId[c] : c \in Calls} :
                     noteFor' = [noteFor EXCEPT ![m] = i]
    BY <1>3, ServiceLoopAssumption DEF SendNotification
  <1>4. ASSUME NEW m \in Notifiers, EnqueueNote(m)
        PROVE  /\ note[m] = "enqueue" /\ note' = [note EXCEPT ![m] = "waiting"]
               /\ UNCHANGED noteFor
    BY <1>4 DEF EnqueueNote
  <1>5. ASSUME NEW m \in Notifiers, EnqueueNoteClosed(m)
        PROVE  /\ note[m] = "enqueue" /\ note' = [note EXCEPT ![m] = "TransportClosed"]
               /\ loop = "ended" /\ UNCHANGED noteFor
    BY <1>5 DEF EnqueueNoteClosed
  <1>6. ASSUME NEW m \in Notifiers, LoopJoinNote(m)
        PROVE  /\ note[m] # "idle" /\ UNCHANGED noteFor
               /\ \E s \in {"Ok", "TransportSend"} : note' = [note EXCEPT ![m] = s]
    BY <1>6 DEF LoopJoinNote, Joins, AnswerNotifier, ChannelInOrder
  <1>7. ASSUME NEW u \in Units, SendPanics(u), note'[n] # note[n]
        PROVE  /\ note'[n] = "TransportClosed" /\ task'[NoteOf(n)] = "panic"
               /\ note[n] # "idle" /\ UNCHANGED noteFor
    <2>1. u = NoteOf(n) /\ note'[n] = "TransportClosed"
      BY <1>7 DEF SendPanics, TypeOK, Units, NoteOf
    <2>. QED  BY <1>7, <2>1 DEF SendPanics, FinishTask, ChannelInOrder, TypeOK
  <1>8. \A u \in Units : SendPanics(u) => UNCHANGED noteFor
    BY DEF SendPanics, FinishTask
  <1>9. CASE LoopEnd
    BY <1>9 DEF LoopEnd
  <1>10. ASSUME \/ \E c \in Calls : \/ AllocId(c) \/ EnqueueRequest(c) \/ EnqueueClosed(c)
                                    \/ AwaitResponse(c) \/ TakeResponse(c) \/ FinishCancelling(c)
                                    \/ DropCall(c) \/ Deliver(c) \/ LoopProxyRequest(c)
                                    \/ LoopJoinSent(c) \/ LoopJoinNotSent(c)
                \/ \E m \in Notifiers : LoopProxyNote(m)
                \/ \E u \in Units : SendSucceeds(u) \/ SendFails(u) \/ LoopJoinError(u)
                \/ \E h \in Requests : HandlerTask(h)
                \/ LoopPeerMessage \/ LoopPeerBatch \/ LoopPopBatch \/ LoopToSink
                \/ LoopClosed \/ LoopCancelled \/ CancelService \/ Terminated
         PROVE  UNCHANGED note /\ UNCHANGED noteFor
    BY <1>10 DEF AllocId, EnqueueRequest, EnqueueClosed, AwaitResponse, TakeResponse,
                 FinishCancelling, DropCall, Deliver, LoopProxyRequest, LoopJoinSent,
                 LoopJoinNotSent, Joins, LoopProxyNote, SendSucceeds, SendFails, FinishTask,
                 LoopJoinError, HandlerTask, HandlerFinish, HandlerPanics, HandlerRespond,
                 HandlerRespondClosed, ReplyEnds, HandlerStep, LoopPeerMessage, LoopPeerBatch,
                 LoopPopBatch, LoopToSink, LoopClosed, LoopCancelled, CancelService, Terminated, vars
  <1>11. CASE \E c \in Calls : TimeOut(c) \/ CancelCall(c)
    BY <1>2, <1>11 DEF TypeOK
  <1>12. CASE \E m \in Notes : SendNotification(m)
    BY <1>3, <1>12 DEF TypeOK, Notifiers
  <1>13. CASE \E m \in Notifiers : EnqueueNote(m) \/ EnqueueNoteClosed(m)
    BY <1>4, <1>5, <1>13 DEF TypeOK
  <1>14. CASE \E m \in Notifiers : LoopJoinNote(m)
    BY <1>6, <1>14 DEF TypeOK
  <1>15. CASE \E u \in Units : SendPanics(u)
    BY <1>7, <1>8, <1>15
  <1>. QED
    BY <1>1, <1>9, <1>10, <1>11, <1>12, <1>13, <1>14, <1>15
    DEF Next, CallStep, NoteStep, TaskStep, LoopStep

\* What a step may do to a send task.
LEMMA TaskMoves ==
    ASSUME TypeOK, ChannelInOrder, Next, NEW u \in Units
    PROVE  \/ task'[u] = task[u]
           \/ Queued(u) /\ ~Queued(u)' /\ task'[u] = "sending"
           \/ task[u] = "sending" /\ task'[u] \in {"ok", "err", "panic"}
           \/ task[u] \in {"sending", "ok"} /\ task'[u] = "joined"
           \/ task[u] = "err" /\ task'[u] = "failed"
           \/ task[u] = "panic" /\ task'[u] = "failed" /\ loop' # "running"
  <1>. USE UnitNames
  <1>1. CASE UNCHANGED task
    BY <1>1
  <1>2. ASSUME NEW v \in Units, SendSucceeds(v) \/ SendFails(v) \/ SendPanics(v)
        PROVE  task[v] = "sending" /\ \E s \in {"ok", "err", "panic"} : task' = [task EXCEPT ![v] = s]
    BY <1>2 DEF SendSucceeds, SendFails, SendPanics, FinishTask
  <1>3. ASSUME NEW v \in Units, Joins(v, {"ok"}) \/ Joins(v, {"err"}) \/ Joins(v, {"ok", "err"})
        PROVE  \/ task[v] = "ok" /\ task' = [task EXCEPT ![v] = "joined"]
               \/ task[v] = "err" /\ task' = [task EXCEPT ![v] = "failed"]
    BY <1>3 DEF Joins
  <1>4. ASSUME NEW v \in Units, LoopJoinError(v)
        PROVE  task[v] = "panic" /\ task' = [task EXCEPT ![v] = "failed"] /\ loop' # "running"
    BY <1>4 DEF LoopJoinError, Joins, Quit
  <1>5. ASSUME NEW v \in Units, Spawn(v), proxy # <<>>, Head(proxy) = v, proxy' = Tail(proxy)
        PROVE  \/ Queued(u) /\ ~Queued(u)' /\ task'[u] = "sending"
               \/ task'[u] = task[u]
    <2>1. Queued(v) /\ ~Queued(v)'
      BY <1>5, QueuedAfterReceive, TailInOrder DEF ChannelInOrder, Queued, Holds, TypeOK
    <2>. QED  BY <1>5, <2>1 DEF Spawn, TypeOK
  <1>6. CASE LoopEnd
    BY <1>6 DEF LoopEnd, TypeOK
  <1>9. ASSUME \/ \E c \in Calls : EnqueueRequest(c) \/ TimeOut(c) \/ CancelCall(c)
               \/ \E n \in Notes : SendNotification(n)
               \/ \E n \in Notifiers : EnqueueNote(n) \/ EnqueueNoteClosed(n)
               \/ LoopClosed \/ LoopCancelled
        PROVE  UNCHANGED task
    BY <1>9 DEF EnqueueRequest, TimeOut, CancelCall, StartCancelling, SendNotification, EnqueueNote,
                EnqueueNoteClosed, LoopClosed, LoopCancelled
  <1>10. CASE \E v \in Units : SendSucceeds(v) \/ SendFails(v) \/ SendPanics(v)
    BY <1>2, <1>10 DEF TypeOK
  <1>11. CASE \E c \in Calls : LoopJoinSent(c) \/ LoopJoinNotSent(c)
    BY <1>3, <1>11 DEF LoopJoinSent, LoopJoinNotSent, TypeOK
  <1>12. CASE \E n \in Notifiers : LoopJoinNote(n)
    BY <1>3, <1>12 DEF LoopJoinNote, TypeOK
  <1>13. CASE \E v \in Units : LoopJoinError(v)
    BY <1>4, <1>13 DEF TypeOK
  <1>14. CASE \E c \in Calls : LoopProxyRequest(c)
    BY <1>5, <1>14 DEF LoopProxyRequest
  <1>15. CASE \E n \in Notifiers : LoopProxyNote(n)
    BY <1>5, <1>15 DEF LoopProxyNote
  <1>. QED
    BY <1>1, <1>6, <1>9, <1>10, <1>11, <1>12, <1>13, <1>14, <1>15, QuietSteps

\* The loop stops for good, and as long as it runs it has not joined a task that panicked.
LEMMA LoopStops ==
    ASSUME TypeOK, ChannelInOrder, Next, loop' = "running"
    PROVE  /\ loop = "running"
           /\ \A u \in Units : task[u] = "panic" /\ ~Queued(u) => task'[u] = "panic"
  <1>. USE UnitNames
  <1>1. loop = "running"
    <2>1. CASE UNCHANGED <<note, proxy, task, loop>>
      BY <2>1
    <2>2. ~(LoopClosed \/ LoopCancelled \/ LoopEnd \/ \E u \in Units : LoopJoinError(u))
      BY DEF LoopClosed, LoopCancelled, LoopEnd, LoopJoinError, Quit
    <2>3. ASSUME \/ \E c \in Calls : \/ EnqueueRequest(c) \/ TimeOut(c) \/ CancelCall(c)
                                     \/ LoopProxyRequest(c) \/ LoopJoinSent(c) \/ LoopJoinNotSent(c)
                 \/ \E n \in Notes : SendNotification(n)
                 \/ \E n \in Notifiers : \/ EnqueueNote(n) \/ EnqueueNoteClosed(n)
                                         \/ LoopProxyNote(n) \/ LoopJoinNote(n)
                 \/ \E u \in Units : SendSucceeds(u) \/ SendFails(u) \/ SendPanics(u)
          PROVE  UNCHANGED loop
      BY <2>3 DEF EnqueueRequest, TimeOut, CancelCall, StartCancelling, LoopProxyRequest,
                  LoopJoinSent, LoopJoinNotSent, SendNotification, EnqueueNote, EnqueueNoteClosed,
                  LoopProxyNote, LoopJoinNote, SendSucceeds, SendFails, SendPanics, FinishTask
    <2>. QED  BY <2>1, <2>2, <2>3, QuietSteps
  <1>. QED  BY <1>1, TaskMoves

\* A call returns because it found an outcome, because its cancellation ended, or because the
\* loop has ended.
LEMMA CallReturns ==
    ASSUME TypeOK, Next, NEW c \in Calls, pc'[c] = "done"
    PROVE  pc[c] = "done" \/ box[c] # Empty \/ note[c] \in NoteResults \/ loop = "ended"
  <1>1. ASSUME NEW d \in Calls, CallStep(d)
        PROVE  \/ \E s \in {"enqueue", "open", "awaiting", "cancelling", "timingOut", "dropped"} :
                     pc' = [pc EXCEPT ![d] = s]
               \/ /\ pc' = [pc EXCEPT ![d] = "done"]
                  /\ box[d] # Empty \/ note[d] \in NoteResults \/ loop = "ended"
    BY <1>1 DEF CallStep, AllocId, EnqueueRequest, EnqueueClosed, AwaitResponse, TakeResponse,
                TimeOut, CancelCall, StartCancelling, FinishCancelling, DropCall
  <1>2. ~(\E d \in Calls : CallStep(d)) => UNCHANGED pc
    BY PcSteps
  <1>. QED  BY <1>1, <1>2 DEF TypeOK

\* Whoever was told how its cancellation went has left the pool.
LEMMA CancelledHaveLeft == Spec => []CancelledLeft
  <1>1. Init => CancelledLeft
    BY DEF Init, CancelledLeft, Notifiers
  <1>2. TypeOK /\ TypeOK' /\ Registered /\ BegunHaveIds /\ SentHaveBegun /\ PoolKeyed /\ PoolFresh
          /\ ChannelInOrder /\ ChannelInOrder' /\ CancelledLeft /\ [Next]_vars => CancelledLeft'
    <2>. SUFFICES ASSUME TypeOK, TypeOK', Registered, BegunHaveIds, SentHaveBegun, PoolKeyed,
                         PoolFresh, ChannelInOrder, ChannelInOrder', CancelledLeft, Next
                  PROVE  CancelledLeft'
      BY DEF vars, CancelledLeft, Queued
    <2>1. ASSUME NEW c \in Calls, note'[c] # "idle" PROVE noteFor'[c] = callId'[c]
      <3>1. c \in Notifiers
        BY UnitNames
      <3>2. ASSUME note[c] # "idle" PROVE callId'[c] = callId[c] /\ noteFor[c] = callId[c]
        <4>1. pc[c] # "idle" /\ noteFor[c] = callId[c]
          BY <3>2 DEF ChannelInOrder, CancelledLeft
        <4>. QED  BY <4>1, NumberSteps DEF AllocId, TypeOK
      <3>3. CASE note[c] = "idle" /\ note'[c] = "enqueue"
        <4>1. pc'[c] # "enqueue"
          BY <3>3 DEF ChannelInOrder
        <4>2. callId'[c] = callId[c]
          BY <4>1, NumberSteps DEF AllocId, TypeOK
        <4>. QED  BY <3>1, <3>3, <4>2, NoteMoves
      <3>. QED  BY <2>1, <3>1, <3>2, <3>3, NoteMoves
    <2>2. ASSUME NEW c \in Calls, note'[c] \in {"Ok", "TransportSend"}
          PROVE  ~Queued(RequestOf(c))' /\ \A i \in Ids : responders'[i] # c
      <3>1. c \in Notifiers
        BY UnitNames
      <3>2. ASSUME note[c] # "idle", ~Queued(RequestOf(c)) PROVE ~Queued(RequestOf(c))'
        <4>1. ~Unsent(c)
          BY <3>2 DEF ChannelInOrder, Unsent
        <4>. QED  BY <4>1, SentOnce DEF Unsent
      <3>3. CASE note[c] \in {"Ok", "TransportSend"}
        <4>1. ~Queued(RequestOf(c)) /\ \A i \in Ids : responders[i] # c
          BY <3>3 DEF CancelledLeft
        <4>2. ~LoopProxyRequest(c)
          BY <4>1, QueuedAfterReceive DEF LoopProxyRequest
        <4>3. LoopEnd => \A i \in Ids : responders'[i] # c
          BY ServiceLoopAssumption DEF LoopEnd
        <4>4. ~Queued(RequestOf(c))'
          BY <3>2, <3>3, <4>1
        <4>. QED  BY <4>1, <4>2, <4>3, <4>4, OneResponder
      <3>4. CASE LoopJoinNote(c) /\ note[c] # "idle"
        <4>1. task[NoteOf(c)] # "none" /\ UNCHANGED proxy
          BY <3>4 DEF LoopJoinNote, Joins
        <4>2. ~Queued(RequestOf(c))
          BY <4>1 DEF ChannelInOrder
        <4>3. noteFor[c] = callId[c] /\ callId[c] \in Ids /\ callId[c] # None
          BY <3>4, ServiceLoopAssumption DEF CancelledLeft, ChannelInOrder, Registered
        <4>4. responders' = [responders EXCEPT ![callId[c]] = None]
          BY <3>4, <4>3 DEF LoopJoinNote, Cancels, Resolve
        <4>5. \A i \in Ids : responders[i] = c => i = callId[c]
          BY ServiceLoopAssumption DEF PoolKeyed
        <4>6. ~Queued(RequestOf(c))'
          BY <3>2, <3>4, <4>2
        <4>7. ASSUME NEW i \in Ids PROVE responders'[i] # c
          BY <4>3, <4>4, <4>5, ServiceLoopAssumption DEF TypeOK
        <4>. QED  BY <4>6, <4>7
      <3>. QED  BY <2>2, <3>1, <3>3, <3>4, NoteMoves
    <2>3. ASSUME loop' = "running", NEW n \in Notifiers, note'[n] = "TransportClosed"
          PROVE  task'[NoteOf(n)] = "panic"
      <3>1. loop = "running" /\ ~LoopEnd
        BY <2>3, LoopStops DEF LoopEnd
      <3>2. CASE note[n] = "TransportClosed"
        <4>1. task[NoteOf(n)] = "panic" /\ ~Queued(NoteOf(n)) /\ NoteOf(n) \in Units
          BY <3>1, <3>2, UnitNames DEF CancelledLeft, ChannelInOrder
        <4>. QED  BY <2>3, <4>1, LoopStops
      <3>. QED  BY <2>3, <3>1, <3>2, NoteMoves
    <2>4. ASSUME loop' = "running", NEW c \in Calls, pc'[c] = "done"
          PROVE  box'[c] # Empty \/ note'[c] \in NoteResults
      <3>1. loop = "running" /\ ~LoopEnd /\ c \in Notifiers
        BY <2>4, LoopStops, UnitNames DEF LoopEnd
      <3>2. note[c] \in NoteResults => note'[c] \in NoteResults
        BY <3>1, NoteMoves DEF NoteResults
      <3>3. CASE box[c] # Empty
        <4>1. ~LoopProxyRequest(c)
          BY <3>3, QueuedAfterReceive DEF LoopProxyRequest, PoolFresh, Unsent
        <4>. QED  BY <3>1, <3>3, <4>1, OneResponder
      <3>4. box[c] # Empty \/ note[c] \in NoteResults
        BY <2>4, <3>1, CallReturns DEF CancelledLeft
      <3>. QED  BY <3>2, <3>3, <3>4
    <2>. QED  BY <2>1, <2>2, <2>3, <2>4 DEF CancelledLeft
  <1>. QED
    BY <1>1, <1>2, Typing, CallersRegistered, IdsGiven, BeginsFirst, PoolInOrder,
       ChannelStaysInOrder, PoolStaysFresh, PTL DEF Spec

\* A call that has returned has left nothing in the pool, unless a task panicked and the loop is
\* about to end; the ids need not be distinct for that.
THEOREM PoolReleased == Spec => []NoResponderLeak
  <1>1. TypeOK /\ PoolFresh /\ CancelledLeft => NoResponderLeak
    <2>. SUFFICES ASSUME TypeOK, PoolFresh, CancelledLeft, loop = "running", NEW c \in Calls,
                         pc[c] = "done", task[NoteOf(c)] # "panic", NEW i \in Ids
                  PROVE  responders[i] # c
      BY DEF NoResponderLeak
    <2>1. c \in Notifiers /\ c # None
      BY UnitNames, ServiceLoopAssumption
    <2>2. box[c] # Empty \/ note[c] \in {"Ok", "TransportSend"}
      BY <2>1 DEF CancelledLeft, NoteResults
    <2>. QED  BY <2>1, <2>2 DEF PoolFresh, CancelledLeft
  <1>. QED  BY <1>1, Typing, PoolStaysFresh, CancelledHaveLeft, PTL

\* ---- the promise to the callers
\* The calls of which a message was not sent, and those somebody asked to cancel.
Failed == {c \in Calls : \E u \in {RequestOf(c), NoteOf(c)} :
                            task[u] \in {"err", "panic", "failed"}}
CancelAsked == {c \in Calls : \E n \in Notifiers : noteFor[n] # None /\ noteFor[n] = callId[c]}

\* A request that is not sent yet has no task; a notification is tied to a call that began when
\* its sender begins, and names its failure.
MessagesCaused ==
    /\ \A c \in Calls : Unsent(c) => task[RequestOf(c)] = "none"
    /\ \A n \in Notifiers : note[n] = "idle" => noteFor[n] = None
    /\ \A n \in Notifiers : noteFor[n] # None => \E c \in Begun : noteFor[n] = callId[c]
    /\ \A c \in Calls : pc[c] = "timingOut" => c \in Timed
    /\ \A c \in Calls : note[c] = "TransportSend" => task[NoteOf(c)] = "failed"

\* What a caller will find has happened to its call.
OutcomesCaused ==
    /\ \A k \in DOMAIN batch : batch[k][1] \in {"response", "error"} => batch[k][2] \in answered
    /\ \A c \in Calls :
          \/ box[c] = Empty
          \/ box[c].kind \in Answers /\ c \in answered
          \/ box[c].kind = "TransportSend" /\ c \in Failed
          \/ box[c].kind = "Cancelled" /\ c \in CancelAsked
          \/ box[c].kind = "TransportClosed" /\ loop # "running"

\* A call that is timing out was made with a timeout.
LEMMA TimeOutsAreTimed ==
    ASSUME TypeOK, Next, NEW c \in Calls, pc'[c] = "timingOut"
    PROVE  pc[c] = "timingOut" \/ c \in Timed
  <1>1. ASSUME NEW d \in Calls, CallStep(d)
        PROVE  \/ \E s \in {"enqueue", "open", "awaiting", "cancelling", "done", "dropped"} :
                     pc' = [pc EXCEPT ![d] = s]
               \/ pc' = [pc EXCEPT ![d] = "timingOut"] /\ d \in Timed
    BY <1>1 DEF CallStep, AllocId, EnqueueRequest, EnqueueClosed, AwaitResponse, TakeResponse,
                TimeOut, CancelCall, StartCancelling, FinishCancelling, DropCall
  <1>. QED  BY <1>1, PcSteps DEF TypeOK

\* The messages of a call have their cause in it.
LEMMA MessagesHaveCause == Spec => []MessagesCaused
  <1>1. Init => MessagesCaused
    BY UnitNames DEF Init, MessagesCaused
  <1>2. TypeOK /\ TypeOK' /\ BegunHaveIds /\ BegunHaveIds' /\ ChannelInOrder /\ ChannelInOrder'
          /\ MessagesCaused /\ [Next]_vars => MessagesCaused'
    <2>. SUFFICES ASSUME TypeOK, TypeOK', BegunHaveIds, BegunHaveIds', ChannelInOrder,
                         ChannelInOrder', MessagesCaused, Next
                  PROVE  MessagesCaused'
      BY DEF vars, MessagesCaused, Unsent, Queued, Begun
    <2>1. ASSUME NEW c \in Calls, Unsent(c)' PROVE task'[RequestOf(c)] = "none"
      <3>1. task[RequestOf(c)] = "none" /\ RequestOf(c) \in Units
        BY <2>1, SentOnce, UnitNames DEF MessagesCaused
      <3>2. ~(Queued(RequestOf(c)) /\ ~Queued(RequestOf(c))')
        <4>1. ASSUME Queued(RequestOf(c)), ~Queued(RequestOf(c))' PROVE FALSE
          <5>1. pc'[c] \in {"idle", "enqueue"}
            BY <2>1, <4>1 DEF Unsent
          <5>2. pc[c] \in {"idle", "enqueue"}
            BY <5>1, CallMoves
          <5>. QED  BY <4>1, <5>2 DEF ChannelInOrder
        <4>. QED  BY <4>1
      <3>. QED  BY <3>1, <3>2, TaskMoves
    <2>2. ASSUME NEW n \in Notifiers, note'[n] = "idle" PROVE noteFor'[n] = None
      BY <2>2, NoteMoves DEF MessagesCaused
    <2>3. ASSUME NEW n \in Notifiers, noteFor'[n] # None
          PROVE  \E c \in Begun' : noteFor'[n] = callId'[c]
      <3>1. \E c \in Begun : noteFor'[n] = callId[c]
        <4>1. CASE noteFor'[n] = noteFor[n]
          BY <2>3, <4>1 DEF MessagesCaused
        <4>2. CASE noteFor'[n] \in {callId[c] : c \in Calls}
          BY <2>3, <4>2 DEF Begun
        <4>. QED  BY <2>3, <4>1, <4>2, NoteMoves
      <3>. QED  BY <3>1, IdsStay
    <2>4. ASSUME NEW c \in Calls, pc'[c] = "timingOut" PROVE c \in Timed
      BY <2>4, TimeOutsAreTimed DEF MessagesCaused
    <2>5. ASSUME NEW c \in Calls, note'[c] = "TransportSend" PROVE task'[NoteOf(c)] = "failed"
      <3>1. c \in Notifiers /\ NoteOf(c) \in Units
        BY UnitNames
      <3>2. CASE note[c] = "TransportSend"
        <4>1. task[NoteOf(c)] = "failed" /\ ~Queued(NoteOf(c))
          BY <3>1, <3>2 DEF MessagesCaused, ChannelInOrder
        <4>. QED  BY <3>1, <4>1, TaskMoves
      <3>3. CASE LoopJoinNote(c)
        BY <2>5, <3>1, <3>3 DEF LoopJoinNote, Joins, AnswerNotifier, TypeOK
      <3>. QED  BY <2>5, <3>1, <3>2, <3>3, NoteMoves
    <2>. QED  BY <2>1, <2>2, <2>3, <2>4, <2>5 DEF MessagesCaused
  <1>. QED
    BY <1>1, <1>2, Typing, IdsGiven, ChannelStaysInOrder, PTL DEF Spec

\* A failure to send, and a wish to cancel, are not forgotten.
LEMMA CausesStay ==
    ASSUME TypeOK, BegunHaveIds, ChannelInOrder, MessagesCaused, Next
    PROVE  Failed \subseteq Failed' /\ CancelAsked \subseteq CancelAsked'
  <1>1. ASSUME NEW c \in Failed PROVE c \in Failed'
    <2>1. PICK u \in {RequestOf(c), NoteOf(c)} : task[u] \in {"err", "panic", "failed"}
      BY DEF Failed
    <2>2. c \in Calls /\ u \in Units /\ ~Queued(u)
      BY <2>1, UnitNames DEF Failed, MessagesCaused, ChannelInOrder, Unsent
    <2>3. task'[u] \in {"err", "panic", "failed"}
      BY <2>1, <2>2, TaskMoves
    <2>. QED  BY <2>2, <2>3 DEF Failed
  <1>2. ASSUME NEW c \in CancelAsked PROVE c \in CancelAsked'
    <2>1. PICK n \in Notifiers : noteFor[n] # None /\ noteFor[n] = callId[c]
      BY DEF CancelAsked
    <2>2. c \in Calls /\ callId'[c] = callId[c]
      BY <2>1, IdsStay DEF CancelAsked, Begun
    <2>3. noteFor'[n] = noteFor[n]
      BY <2>1, NoteMoves DEF MessagesCaused
    <2>. QED  BY <2>1, <2>2, <2>3 DEF CancelAsked
  <1>. QED  BY <1>1, <1>2

\* The remote's answers are remembered, those in a batch too.
LEMMA AnswerSteps ==
    ASSUME TypeOK, Next
    PROVE  /\ answered \subseteq answered'
           /\ \/ UNCHANGED batch
              \/ batch # <<>> /\ batch' = Tail(batch)
              \/ \A k \in DOMAIN batch' :
                    batch'[k][1] \in {"response", "error"} => batch'[k][2] \in answered'
  <1>1. ASSUME \/ \E c \in Calls : CallStep(c) \/ Deliver(c) \/ LoopProxyRequest(c)
                                    \/ LoopJoinSent(c) \/ LoopJoinNotSent(c)
               \/ \E n \in Notes : SendNotification(n)
               \/ \E n \in Notifiers : NoteStep(n) \/ LoopProxyNote(n) \/ LoopJoinNote(n)
               \/ \E u \in Units : TaskStep(u) \/ LoopJoinError(u)
               \/ \E h \in Requests : HandlerTask(h)
               \/ LoopToSink \/ LoopClosed \/ LoopCancelled \/ LoopEnd
               \/ CancelService \/ Terminated
        PROVE  UNCHANGED answered /\ UNCHANGED batch
    BY <1>1 DEF CallStep, AllocId, EnqueueRequest, EnqueueClosed, AwaitResponse, TakeResponse,
                TimeOut, CancelCall, StartCancelling, FinishCancelling, DropCall, Deliver,
                LoopProxyRequest, Spawn, LoopJoinSent, LoopJoinNotSent, Joins, SendNotification,
                NoteStep, EnqueueNote, EnqueueNoteClosed, LoopProxyNote, LoopJoinNote, TaskStep,
                SendSucceeds, SendFails, SendPanics, FinishTask, LoopJoinError, Quit, HandlerTask,
                HandlerFinish, HandlerPanics, HandlerRespond, HandlerRespondClosed, ReplyEnds,
                HandlerStep, LoopToSink, LoopClosed, LoopCancelled, LoopEnd, CancelService,
                Terminated, vars
  <1>2. CASE LoopPeerMessage
    BY <1>2 DEF LoopPeerMessage
  <1>3. CASE LoopPopBatch
    BY <1>3 DEF LoopPopBatch
  <1>4. CASE LoopPeerBatch
    <2>1. PICK b \in Batches : /\ batch' = b
                               /\ answered' = answered \cup AnsweredBy({b[k] : k \in DOMAIN b})
      BY <1>4 DEF LoopPeerBatch
    <2>2. PICK n \in 1 .. MaxBatch : b \in [1 .. n -> Answer] \cup [1 .. n -> Solicitation]
      BY <2>1 DEF Batches
    <2>3. ASSUME NEW k \in DOMAIN b, b[k][1] \in {"response", "error"}
          PROVE  b[k][2] \in Calls /\ b[k] = <<b[k][1], b[k][2]>>
      <3>1. b[k] \in Answer
        BY <2>2, <2>3 DEF Solicitation
      <3>. QED  BY <3>1 DEF Answer, TypeOK
    <2>. QED  BY <2>1, <2>3 DEF AnsweredBy
  <1>. QED  BY <1>1, <1>2, <1>3, <1>4 DEF Next, LoopStep

\* What a call will find has its cause, as long as there are no more calls than ids.
LEMMA OutcomesHaveCause == Cardinality(Calls) <= IdModulus => (Spec => []OutcomesCaused)
  <1>1. Init => OutcomesCaused
    BY DEF Init, OutcomesCaused
  <1>2. TypeOK /\ TypeOK' /\ Registered /\ BegunHaveIds /\ Numbered /\ SentHaveBegun /\ PoolKeyed
          /\ PoolFresh /\ ChannelInOrder /\ MessagesCaused /\ OutcomesCaused /\ [Next]_vars
        => OutcomesCaused'
    <2>. SUFFICES ASSUME TypeOK, TypeOK', Registered, BegunHaveIds, Numbered, SentHaveBegun,
                         PoolKeyed, PoolFresh, ChannelInOrder, MessagesCaused, OutcomesCaused, Next
                  PROVE  OutcomesCaused'
      BY DEF vars, OutcomesCaused, Failed, CancelAsked
    <2>. DEFINE Caused(c) ==
                  \/ box[c] = Empty
                  \/ box[c].kind \in Answers /\ c \in answered
                  \/ box[c].kind = "TransportSend" /\ c \in Failed
                  \/ box[c].kind = "Cancelled" /\ c \in CancelAsked
                  \/ box[c].kind = "TransportClosed" /\ loop # "running"
    <2>1. ASSUME NEW k \in DOMAIN batch', batch'[k][1] \in {"response", "error"}
          PROVE  batch'[k][2] \in answered'
      <3>1. CASE UNCHANGED batch
        BY <2>1, <3>1, AnswerSteps DEF OutcomesCaused
      <3>2. CASE batch # <<>> /\ batch' = Tail(batch)
        <4>1. \E j \in DOMAIN batch : batch[j] = batch'[k]
          BY <3>2, TailKeeps DEF TypeOK
        <4>. QED  BY <2>1, <4>1, AnswerSteps DEF OutcomesCaused
      <3>. QED  BY <2>1, <3>1, <3>2, AnswerSteps
    \* A responder belongs to one call.
    <2>2. ASSUME NEW c \in Begun, NEW d \in Calls, responders[callId[c]] = d
          PROVE  d = c
      <3>1. callId[c] \in Ids
        BY DEF Begun, TypeOK
      <3>2. callId[d] = callId[c] /\ d \in Begun
        BY <2>2, <3>1, ServiceLoopAssumption DEF PoolKeyed, Begun
      <3>. QED  BY <3>2 DEF Numbered
    <2>3. ASSUME NEW c \in Calls, box'[c] = box[c] PROVE Caused(c)'
      BY <2>3, CausesStay, AnswerSteps, LoopStops DEF OutcomesCaused
    <2>4. ASSUME NEW i, NEW o, Resolve(i, o),
                 \A c \in Calls : responders[i] = c => (box'[c] = o => Caused(c)')
          PROVE  \A c \in Calls : Caused(c)'
      BY <2>3, <2>4 DEF Resolve
    <2>5. ASSUME NEW c \in Calls, LoopProxyRequest(c) PROVE \A d \in Calls : Caused(d)'
      <3>1. Unsent(c) /\ c \in Begun
        BY <2>5, QueuedAfterReceive DEF LoopProxyRequest, Unsent, Registered, BegunHaveIds, Begun
      <3>2. \A d \in Calls : responders[callId[c]] # d
        <4>1. callId[c] \in Ids /\ c \in Calls
          BY <3>1 DEF Begun, TypeOK
        <4>2. responders[callId[c]] # c
          BY <3>1, <4>1 DEF PoolFresh
        <4>. QED  BY <2>2, <3>1, <4>2
      <3>3. \A d \in Calls : box'[d] = box[d]
        BY <2>5, <3>2 DEF LoopProxyRequest, Register
      <3>. QED  BY <2>3, <3>3
    <2>6. ASSUME NEW c \in Calls, LoopJoinNotSent(c) PROVE \A d \in Calls : Caused(d)'
      <3>1. task[RequestOf(c)] # "none" /\ task'[RequestOf(c)] = "failed"
        BY <2>6, UnitNames DEF LoopJoinNotSent, Joins, TypeOK
      <3>2. c \in Begun /\ c \in Failed'
        BY <3>1 DEF SentHaveBegun, BegunHaveIds, Begun, Failed
      <3>3. \A d \in Calls : responders[callId[c]] = d => d = c
        BY <2>2, <3>2
      <3>. QED  BY <2>4, <2>6, <3>2, <3>3 DEF LoopJoinNotSent, Outcome
    <2>7. ASSUME NEW n \in Notifiers, LoopJoinNote(n), Resolve(noteFor[n], Outcome("Cancelled", None))
          PROVE  \A d \in Calls : Caused(d)'
      <3>1. CASE noteFor[n] = None
        BY <2>3, <2>7, <3>1 DEF LoopJoinNote, Cancels
      <3>2. CASE noteFor[n] # None
        <4>1. noteFor[n] \in Ids
          BY <3>2 DEF TypeOK
        <4>2. \A d \in Calls : responders[noteFor[n]] = d => callId[d] = noteFor[n]
          BY <4>1, ServiceLoopAssumption DEF PoolKeyed
        <4>3. \A d \in Calls : responders[noteFor[n]] = d => d \in CancelAsked'
          BY <3>2, <4>2, CausesStay DEF CancelAsked
        <4>. QED  BY <2>4, <2>7, <4>3 DEF Outcome
      <3>. QED  BY <3>1, <3>2
    <2>8. ASSUME NEW c \in (seen \cap answered') \cup InBatch, NEW k \in Answers,
                 Resolve(callId[c], Outcome(k, c))
          PROVE  \A d \in Calls : Caused(d)'
      <3>1. c \in answered'
        BY AnswerSteps DEF InBatch, OutcomesCaused
      <3>2. c \in Begun
        BY DEF InBatch, SentHaveBegun, BegunHaveIds, Begun, TypeOK
      <3>3. \A d \in Calls : responders[callId[c]] = d => d = c
        BY <2>2, <3>2
      <3>. QED  BY <2>4, <2>8, <3>1, <3>3 DEF Outcome
    <2>9. ASSUME LoopEnd PROVE \A c \in Calls : Caused(c)'
      <3>1. loop' # "running" /\ \A c \in Calls : box'[c] = box[c] \/ box'[c].kind = "TransportClosed"
        BY <2>9 DEF LoopEnd, Outcome
      <3>. QED  BY <2>3, <3>1
    <2>10. ASSUME UNCHANGED poolVars PROVE \A c \in Calls : Caused(c)'
      BY <2>3, <2>10
    <2>11. \A c \in Calls : Caused(c)'
      BY <2>5, <2>6, <2>7, <2>8, <2>9, <2>10, PoolSteps
    <2>. QED  BY <2>1, <2>11 DEF OutcomesCaused
  <1>3. ASSUME Cardinality(Calls) <= IdModulus
        PROVE  Spec => []OutcomesCaused
    <2>1. Spec => []Numbered
      BY <1>3, DistinctIds
    <2>. QED
      BY <1>1, <1>2, <2>1, Typing, CallersRegistered, IdsGiven, BeginsFirst, PoolInOrder,
         PoolStaysFresh, ChannelStaysInOrder, MessagesHaveCause, PTL DEF Spec
  <1>. QED  BY <1>3

\* ---- refinement
\* The variables of RequestCalls, as ServiceLoop gives them.
Phases == [c \in Calls |-> Phase(c)]
Up == loop = "running"

\* What RequestCalls does in its steps, said of these.
LEMMA Stutters ==
    ASSUME UNCHANGED <<Phases, result, answered, Failed, CancelAsked>>, Up' <=> Up
    PROVE  UNCHANGED Calling!vars
  BY DEF Calling!vars, Phases, Failed, CancelAsked, Up

LEMMA Begins ==
    ASSUME NEW c \in Calls, Phases[c] = "idle", Phases' = [Phases EXCEPT ![c] = "pending"],
           UNCHANGED <<result, answered, Failed, CancelAsked>>, Up' <=> Up
    PROVE  Calling!Next
  BY DEF Calling!Next, Calling!Begin, Calling!Move, Phases, Failed, CancelAsked, Up

LEMMA Drops ==
    ASSUME NEW c \in Calls, Phases[c] = "pending", Phases' = [Phases EXCEPT ![c] = "dropped"],
           UNCHANGED <<result, answered, Failed, CancelAsked>>, Up' <=> Up
    PROVE  Calling!Next
  BY DEF Calling!Next, Calling!Drop, Calling!Move, Phases, Failed, CancelAsked, Up

LEMMA Returns ==
    ASSUME NEW c \in Calls, NEW o \in Calling!Outcomes,
           Phases[c] = "pending", Phases' = [Phases EXCEPT ![c] = "returned"],
           result' = [result EXCEPT ![c] = o],
           \/ o \in {"Ok", "McpError"} /\ c \in answered
           \/ o = "TransportSend" /\ c \in Failed
           \/ o = "TransportClosed" /\ (~Up \/ c \in Failed)
           \/ o \in {"Cancelled", "CancelSent"} /\ c \in CancelAsked
           \/ o = "Timeout" /\ c \in Timed \cap CancelAsked,
           UNCHANGED <<answered, Failed, CancelAsked>>, Up' <=> Up
    PROVE  Calling!Next
  <1>1. Calling!Justified(c, o)
    BY DEF Calling!Justified, Failed, CancelAsked, Up
  <1>2. Calling!Move(c, "pending", "returned")
    BY DEF Calling!Move, Phases, Failed, CancelAsked, Up
  <1>. QED  BY <1>1, <1>2 DEF Calling!Next, Calling!Return

LEMMA Fails ==
    ASSUME NEW c \in Calls, Phases[c] # "idle", Failed' = Failed \cup {c},
           UNCHANGED <<Phases, result, answered, CancelAsked>>, Up' <=> Up
    PROVE  Calling!Next
  <1>1. c \in Calling!Begun
    BY DEF Calling!Begun, Phases
  <1>2. Calling!Fail(c)
    BY DEF Calling!Fail, Phases, Failed, CancelAsked, Up
  <1>. QED  BY <1>1, <1>2 DEF Calling!Next

LEMMA AsksToCancel ==
    ASSUME NEW c \in Calls, Phases[c] # "idle", CancelAsked' = CancelAsked \cup {c},
           UNCHANGED <<Phases, result, answered, Failed>>, Up' <=> Up
    PROVE  Calling!Next
  <1>1. c \in Calling!Begun
    BY DEF Calling!Begun, Phases
  <1>2. Calling!AskCancel(c)
    BY DEF Calling!AskCancel, Phases, Failed, CancelAsked, Up
  <1>. QED  BY <1>1, <1>2 DEF Calling!Next

LEMMA RemoteAnswers ==
    ASSUME NEW C \in SUBSET Calls, \A c \in C : Phases[c] # "idle", answered' = answered \cup C,
           UNCHANGED <<Phases, result, Failed, CancelAsked>>, Up' <=> Up
    PROVE  Calling!Next
  <1>1. C \in SUBSET Calling!Begun
    BY DEF Calling!Begun, Phases
  <1>2. Calling!Answer
    BY <1>1 DEF Calling!Answer, Phases, Failed, CancelAsked, Up
  <1>. QED  BY <1>2 DEF Calling!Next

LEMMA Stops ==
    ASSUME ~Up', UNCHANGED <<Phases, result, answered, Failed, CancelAsked>>
    PROVE  Calling!Next
  BY DEF Calling!Next, Calling!Stop, Phases, Failed, CancelAsked, Up

\* Whether a call failed depends on its send tasks only.
LEMMA FailedAs ==
    ASSUME NEW C, \A c \in Calls : (\E u \in {RequestOf(c), NoteOf(c)} :
                                        task'[u] \in {"err", "panic", "failed"})
                                     <=> c \in C \/ c \in Failed,
           C \subseteq Calls
    PROVE  Failed' = Failed \cup C
  BY DEF Failed

\* Nothing of it changes for the callers.
LEMMA TasksOnly ==
    ASSUME TypeOK, \A u \in Units : task'[u] \in {"err", "panic", "failed"}
                                      <=> task[u] \in {"err", "panic", "failed"}
    PROVE  Failed' = Failed
  BY UnitNames DEF Failed

\* The next id is nobody's.
LEMMA FreshId ==
    ASSUME TypeOK, BegunHaveIds, Numbered, Cardinality(Calls) <= IdModulus,
           NEW c \in Calls, pc[c] = "idle"
    PROVE  \A d \in Begun : callId[d] # nextId
  <1>1. c \notin Begun /\ IdModulus \in Nat
    BY ServiceLoopAssumption DEF BegunHaveIds, Begun
  <1>2. Cardinality(Begun) \in Nat /\ Cardinality(Begun) < IdModulus
    BY <1>1, BegunBounded
  <1>3. nextId = Cardinality(Begun)
    BY <1>1, <1>2 DEF Numbered
  <1>4. \A d \in Begun : callId[d] \in Ids
    BY DEF Begun, TypeOK
  <1>. QED  BY <1>2, <1>3, <1>4 DEF Numbered, Ids

\* Every step of a call is one of RequestCalls, or invisible to it.
LEMMA CallStepRefines ==
    ASSUME TypeOK, BegunHaveIds, Numbered, ChannelInOrder, CancelledLeft, MessagesCaused,
           OutcomesCaused, Cardinality(Calls) <= IdModulus, NEW c \in Calls, CallStep(c)
    PROVE  Calling!Next \/ UNCHANGED Calling!vars
  <1>1. CASE AllocId(c)
    <2>1. /\ UNCHANGED <<result, answered, Failed, noteFor, loop>>
          /\ Phases[c] = "idle" /\ Phases' = [Phases EXCEPT ![c] = "pending"]
          /\ callId' = [callId EXCEPT ![c] = nextId] /\ pc[c] = "idle" /\ c \notin Begun
      BY <1>1 DEF AllocId, Phases, Phase, Failed, BegunHaveIds, Begun, TypeOK
    <2>2. \A n \in Notifiers : noteFor[n] # None => noteFor[n] # nextId
      BY <2>1, FreshId DEF MessagesCaused
    <2>3. CancelAsked' = CancelAsked
      <3>1. c \notin CancelAsked /\ c \notin CancelAsked'
        BY <2>1, <2>2 DEF CancelAsked, Begun, TypeOK
      <3>2. \A d \in Calls \ {c} : callId'[d] = callId[d]
        BY <2>1 DEF TypeOK
      <3>3. \A d \in Calls \ {c} : d \in CancelAsked' <=> d \in CancelAsked
        BY <2>1, <3>2 DEF CancelAsked
      <3>4. CancelAsked \subseteq Calls /\ CancelAsked' \subseteq Calls
        BY DEF CancelAsked
      <3>. QED  BY <3>1, <3>3, <3>4
    <2>. QED  BY <2>1, <2>3, Begins DEF Up
  <1>2. CASE EnqueueRequest(c) \/ AwaitResponse(c)
    <2>1. UNCHANGED <<Phases, result, answered, Failed, CancelAsked, loop>>
      BY <1>2 DEF EnqueueRequest, AwaitResponse, Phases, Phase, Failed, CancelAsked, TypeOK
    <2>. QED  BY <2>1, Stutters DEF Up
  <1>3. CASE EnqueueClosed(c)
    <2>1. /\ UNCHANGED <<answered, Failed, CancelAsked, loop>> /\ loop = "ended"
          /\ Phases[c] = "pending" /\ Phases' = [Phases EXCEPT ![c] = "returned"]
          /\ result' = [result EXCEPT ![c] = "TransportClosed"]
      BY <1>3 DEF EnqueueClosed, Phases, Phase, Failed, CancelAsked, TypeOK
    <2>2. "TransportClosed" \in Calling!Outcomes
      BY DEF Calling!Outcomes
    <2>. QED  BY <2>1, <2>2, Returns DEF Up
  <1>4. CASE TakeResponse(c)
    <2>1. /\ UNCHANGED <<answered, Failed, CancelAsked, loop>> /\ box[c] # Empty
          /\ Phases[c] = "pending" /\ Phases' = [Phases EXCEPT ![c] = "returned"]
          /\ result' = [result EXCEPT ![c] = box[c].kind]
      BY <1>4 DEF TakeResponse, Phases, Phase, Failed, CancelAsked, TypeOK
    <2>2. \/ box[c].kind \in Answers /\ c \in answered
          \/ box[c].kind = "TransportSend" /\ c \in Failed
          \/ box[c].kind = "Cancelled" /\ c \in CancelAsked
          \/ box[c].kind = "TransportClosed" /\ loop # "running"
      BY <2>1 DEF OutcomesCaused
    <2>3. box[c].kind \in Calling!Outcomes
      BY <2>2 DEF Calling!Outcomes, Answers
    <2>. QED  BY <2>1, <2>2, <2>3, Returns DEF Up, Answers
  <1>5. CASE TimeOut(c) \/ CancelCall(c)
    <2>1. /\ UNCHANGED <<Phases, result, answered, Failed, loop>>
          /\ Phases[c] = "pending" /\ pc[c] # "idle"
          /\ UNCHANGED callId /\ noteFor' = [noteFor EXCEPT ![c] = callId[c]]
      BY <1>5 DEF TimeOut, CancelCall, StartCancelling, Phases, Phase, Failed, TypeOK
    <2>2. callId[c] # None /\ c \in Notifiers
      BY <2>1, UnitNames DEF BegunHaveIds
    <2>3. noteFor[c] = None
      BY <1>5, <2>2 DEF TimeOut, CancelCall, ChannelInOrder, MessagesCaused
    <2>4. CancelAsked' = CancelAsked \cup {c}
      <3>1. CancelAsked \subseteq Calls /\ CancelAsked' \subseteq Calls
        BY DEF CancelAsked
      <3>2. noteFor'[c] = callId[c] /\ \A n \in Notifiers \ {c} : noteFor'[n] = noteFor[n]
        BY <2>1, <2>2 DEF TypeOK
      <3>3. c \in CancelAsked'
        BY <2>1, <2>2, <3>2 DEF CancelAsked
      <3>4. ASSUME NEW d \in Calls, d # c PROVE d \in CancelAsked' <=> d \in CancelAsked
        <4>1. callId[d] # callId[c]
          BY <2>2, <3>4 DEF Numbered, Begun
        <4>. QED  BY <2>1, <2>3, <3>2, <4>1 DEF CancelAsked
      <3>. QED  BY <3>1, <3>3, <3>4
    <2>. QED  BY <2>1, <2>4, AsksToCancel DEF Up
  <1>6. CASE FinishCancelling(c)
    <2>1. /\ UNCHANGED <<answered, Failed, CancelAsked, loop>> /\ note[c] \in NoteResults
          /\ pc[c] \in {"cancelling", "timingOut"}
          /\ Phases[c] = "pending" /\ Phases' = [Phases EXCEPT ![c] = "returned"]
      BY <1>6 DEF FinishCancelling, Phases, Phase, Failed, CancelAsked, TypeOK
    <2>2. c \in Notifiers
      BY UnitNames
    <2>3. c \in CancelAsked
      BY <2>1, <2>2 DEF CancelAsked, CancelledLeft, BegunHaveIds, NoteResults
    <2>4. CASE pc[c] = "timingOut"
      <3>1. result' = [result EXCEPT ![c] = "Timeout"] /\ c \in Timed
        BY <1>6, <2>4 DEF FinishCancelling, MessagesCaused
      <3>2. "Timeout" \in Calling!Outcomes
        BY DEF Calling!Outcomes
      <3>. QED  BY <2>1, <2>3, <3>1, <3>2, Returns DEF Up
    <2>5. CASE pc[c] = "cancelling" /\ note[c] = "Ok"
      <3>1. result' = [result EXCEPT ![c] = "CancelSent"]
        BY <1>6, <2>5 DEF FinishCancelling
      <3>2. "CancelSent" \in Calling!Outcomes
        BY DEF Calling!Outcomes
      <3>. QED  BY <2>1, <2>3, <3>1, <3>2, Returns DEF Up
    <2>6. CASE pc[c] = "cancelling" /\ note[c] # "Ok"
      <3>1. result' = [result EXCEPT ![c] = note[c]]
        BY <1>6, <2>6 DEF FinishCancelling
      <3>2. \/ note[c] = "TransportSend" /\ c \in Failed
            \/ note[c] = "TransportClosed" /\ (loop # "running" \/ c \in Failed)
        BY <2>1, <2>2, <2>6 DEF NoteResults, MessagesCaused, CancelledLeft, Failed
      <3>3. note[c] \in Calling!Outcomes
        BY <3>2 DEF Calling!Outcomes
      <3>. QED  BY <2>1, <3>1, <3>2, <3>3, Returns DEF Up
    <2>. QED  BY <2>1, <2>4, <2>5, <2>6
  <1>7. CASE DropCall(c)
    <2>1. /\ UNCHANGED <<result, answered, Failed, CancelAsked, loop>>
          /\ Phases[c] = "pending" /\ Phases' = [Phases EXCEPT ![c] = "dropped"]
      BY <1>7 DEF DropCall, Phases, Phase, Failed, CancelAsked, TypeOK
    <2>. QED  BY <2>1, Drops DEF Up
  <1>. QED  BY <1>1, <1>2, <1>3, <1>4, <1>5, <1>6, <1>7 DEF CallStep

\* The same of a notification of the user.
LEMMA NotificationRefines ==
    ASSUME TypeOK, BegunHaveIds, Numbered, ChannelInOrder, MessagesCaused,
           NEW n \in Notes, SendNotification(n)
    PROVE  Calling!Next \/ UNCHANGED Calling!vars
  <1>1. /\ UNCHANGED <<pc, callId, result, answered, task, loop>> /\ n \in Notifiers
        /\ noteFor[n] = None
    BY DEF SendNotification, MessagesCaused, Notifiers
  <1>2. UNCHANGED <<Phases, Failed>>
    BY <1>1 DEF Phases, Phase, Failed
  <1>3. PICK i \in {None} \cup {callId[c] : c \in Calls} : noteFor' = [noteFor EXCEPT ![n] = i]
    BY DEF SendNotification
  <1>4. noteFor'[n] = i /\ \A m \in Notifiers \ {n} : noteFor'[m] = noteFor[m]
    BY <1>1, <1>3 DEF TypeOK
  <1>5. CASE i = None
    <2>1. CancelAsked' = CancelAsked
      BY <1>1, <1>4, <1>5 DEF CancelAsked
    <2>. QED  BY <1>1, <1>2, <2>1, Stutters DEF Up
  <1>6. CASE i # None
    <2>1. PICK c \in Calls : i = callId[c]
      BY <1>6
    <2>2. c \in Begun /\ Phases[c] # "idle"
      BY <1>6, <2>1 DEF Begun, BegunHaveIds, Phases, Phase
    <2>3. CancelAsked' = CancelAsked \cup {c}
      <3>1. CancelAsked \subseteq Calls /\ CancelAsked' \subseteq Calls
        BY DEF CancelAsked
      <3>2. c \in CancelAsked'
        BY <1>1, <1>4, <1>6, <2>1 DEF CancelAsked
      <3>3. ASSUME NEW d \in Calls, d # c PROVE d \in CancelAsked' <=> d \in CancelAsked
        <4>1. callId[d] # i
          BY <1>6, <2>1, <2>2, <3>3 DEF Numbered, Begun
        <4>. QED  BY <1>1, <1>4, <4>1 DEF CancelAsked
      <3>. QED  BY <3>1, <3>2, <3>3
    <2>. QED  BY <1>1, <1>2, <2>2, <2>3, AsksToCancel DEF Up
  <1>. QED  BY <1>5, <1>6

\* The same of a send task: that of a call may fail for it.
LEMMA TaskStepRefines ==
    ASSUME TypeOK, SentHaveBegun, ChannelInOrder, NEW u \in Units, TaskStep(u)
    PROVE  Calling!Next \/ UNCHANGED Calling!vars
  <1>1. /\ UNCHANGED <<pc, callId, result, noteFor, answered, loop>> /\ task[u] = "sending"
        /\ \E s \in {"ok", "err", "panic"} : task' = [task EXCEPT ![u] = s]
    BY DEF TaskStep, SendSucceeds, SendFails, SendPanics, FinishTask
  <1>2. UNCHANGED <<Phases, CancelAsked>>
    BY <1>1 DEF Phases, Phase, CancelAsked
  <1>3. \A v \in Units : v # u => task'[v] = task[v]
    BY <1>1 DEF TypeOK
  <1>4. CASE task'[u] = "ok"
    <2>1. Failed' = Failed
      BY <1>1, <1>3, <1>4, TasksOnly
    <2>. QED  BY <1>1, <1>2, <2>1, Stutters DEF Up
  <1>5. ASSUME NEW c \in Calls, u \in {RequestOf(c), NoteOf(c)}, task'[u] \in {"err", "panic"}
        PROVE  Calling!Next
    <2>1. pc[c] # "idle"
      BY <1>1, <1>5, UnitNames DEF SentHaveBegun, ChannelInOrder
    <2>2. Failed' = Failed \cup {c}
      <3>1. Failed \subseteq Calls /\ Failed' \subseteq Calls /\ c \in Failed'
        BY <1>5 DEF Failed
      <3>2. \A d \in Calls \ {c} : u # RequestOf(d) /\ u # NoteOf(d)
        BY <1>5, UnitNames
      <3>3. \A d \in Calls \ {c} : d \in Failed' <=> d \in Failed
        BY <1>3, <3>2, UnitNames DEF Failed
      <3>. QED  BY <3>1, <3>3
    <2>3. Phases[c] # "idle"
      BY <2>1 DEF Phases, Phase
    <2>. QED  BY <1>1, <1>2, <2>2, <2>3, Fails DEF Up
  <1>6. CASE \A c \in Calls : u \notin {RequestOf(c), NoteOf(c)}
    <2>1. Failed' = Failed
      BY <1>3, <1>6, UnitNames DEF Failed
    <2>. QED  BY <1>1, <1>2, <2>1, Stutters DEF Up
  <1>7. task'[u] \in {"ok", "err", "panic"}
    BY <1>1 DEF TypeOK
  <1>. QED  BY <1>4, <1>5, <1>6, <1>7

\* The same of the loop: it answers calls, or stops, or does what the callers cannot see.
LEMMA LoopStepRefines ==
    ASSUME TypeOK, BegunHaveIds, SentHaveBegun, ChannelInOrder, MessagesCaused, Next, LoopStep
    PROVE  Calling!Next \/ UNCHANGED Calling!vars
  <1>1. UNCHANGED callVars
    BY DEF LoopStep, LoopProxyRequest, LoopJoinSent, LoopJoinNotSent, LoopProxyNote,
           LoopJoinNote, LoopJoinError, Joins, LoopPeerMessage, LoopPeerBatch, LoopPopBatch,
           LoopToSink, LoopClosed, LoopCancelled, LoopEnd
  <1>2. UNCHANGED noteFor
    BY DEF LoopStep, LoopProxyRequest, LoopJoinSent, LoopJoinNotSent, LoopProxyNote,
           LoopJoinNote, LoopJoinError, Joins, LoopPeerMessage, LoopPeerBatch, LoopPopBatch,
           LoopToSink, LoopClosed, LoopCancelled, LoopEnd
  <1>3. UNCHANGED <<Phases, result, CancelAsked>>
    BY <1>1, <1>2 DEF Phases, Phase, CancelAsked
  \* What failed to be sent has been counted when it failed.
  <1>4. Failed' = Failed
    <2>1. ASSUME NEW c \in Calls, NEW u \in {RequestOf(c), NoteOf(c)}
          PROVE  task'[u] \in {"err", "panic", "failed"} <=> task[u] \in {"err", "panic", "failed"}
      <3>1. u \in Units
        BY UnitNames
      <3>2. Queued(u) => task[u] = "none"
        BY UnitNames DEF ChannelInOrder, MessagesCaused, Unsent
      <3>3. ~(task[u] = "sending" /\ task'[u] \in {"err", "panic"})
        <4>1. ASSUME NEW v \in Units, Spawn(v)
              PROVE  task'[u] \in {"sending", task[u]}
          BY <3>1, <4>1 DEF Spawn, TypeOK
        <4>2. ASSUME NEW v \in Units,
                     \/ Joins(v, {"ok"}) \/ Joins(v, {"err"}) \/ Joins(v, {"panic"})
                     \/ Joins(v, {"ok", "err"})
              PROVE  task'[u] \in {"joined", "failed", task[u]}
          BY <3>1, <4>2 DEF Joins, TypeOK
        <4>3. CASE \/ \E d \in Calls : LoopProxyRequest(d) \/ LoopJoinSent(d) \/ LoopJoinNotSent(d)
                   \/ \E n \in Notifiers : LoopProxyNote(n) \/ LoopJoinNote(n)
                   \/ \E v \in Units : LoopJoinError(v)
          BY <4>1, <4>2, <4>3, UnitNames DEF LoopProxyRequest, LoopProxyNote, LoopJoinSent,
             LoopJoinNotSent, LoopJoinNote, LoopJoinError
        <4>4. CASE LoopPeerMessage \/ LoopPeerBatch \/ LoopPopBatch \/ LoopToSink \/ LoopClosed
                     \/ LoopCancelled
          BY <4>4 DEF LoopPeerMessage, LoopPeerBatch, LoopPopBatch, LoopToSink, LoopClosed,
                      LoopCancelled
        <4>5. CASE LoopEnd
          BY <3>1, <4>5 DEF LoopEnd
        <4>. QED  BY <4>3, <4>4, <4>5 DEF LoopStep
      <3>. QED  BY <3>1, <3>2, <3>3, TaskMoves
    <2>. QED  BY <2>1 DEF Failed
  <1>5. CASE LoopPeerMessage \/ LoopPeerBatch
    <2>1. loop' = loop
      BY <1>5 DEF LoopPeerMessage, LoopPeerBatch
    <2>2. PICK ms : ms \subseteq Inbound /\ answered' = answered \cup AnsweredBy(ms)
      <3>1. CASE LoopPeerMessage
        <4>1. PICK m \in Inbound : answered' = answered \cup AnsweredBy({m})
          BY <3>1 DEF LoopPeerMessage
        <4>. QED  BY <4>1
      <3>2. CASE LoopPeerBatch
        <4>1. PICK b \in Batches : answered' = answered \cup AnsweredBy({b[k] : k \in DOMAIN b})
          BY <3>2 DEF LoopPeerBatch
        <4>2. PICK n \in 1 .. MaxBatch : b \in [1 .. n -> Answer] \cup [1 .. n -> Solicitation]
          BY <4>1 DEF Batches
        <4>3. {b[k] : k \in DOMAIN b} \subseteq Inbound
          BY <4>2 DEF Inbound
        <4>. QED  BY <4>1, <4>3
      <3>. QED  BY <1>5, <3>1, <3>2
    <2>3. ASSUME NEW c \in AnsweredBy(ms)
          PROVE  c \in Calls /\ Phases[c] # "idle"
      <3>1. c \in Calls /\ \E k \in {"response", "error"} : <<k, c>> \in Inbound
        BY <2>2, <2>3 DEF AnsweredBy
      <3>2. c \in seen
        BY <3>1 DEF Inbound, Answer, Solicitation
      <3>. QED  BY <3>1, <3>2 DEF SentHaveBegun, Phases, Phase
    <2>4. AnsweredBy(ms) \in SUBSET Calls
      BY <2>3
    <2>. QED  BY <1>3, <1>4, <2>1, <2>2, <2>3, <2>4, RemoteAnswers DEF Up
  <1>6. CASE LoopClosed \/ LoopCancelled \/ \E u \in Units : LoopJoinError(u)
    <2>1. loop' # "running" /\ UNCHANGED answered
      BY <1>6 DEF LoopClosed, LoopCancelled, LoopJoinError, Joins, Quit
    <2>. QED  BY <1>3, <1>4, <2>1, Stops DEF Up
  <1>7. CASE \/ \E c \in Calls : LoopProxyRequest(c) \/ LoopJoinSent(c) \/ LoopJoinNotSent(c)
             \/ \E n \in Notifiers : LoopProxyNote(n) \/ LoopJoinNote(n)
             \/ LoopPopBatch \/ LoopToSink \/ LoopEnd
    <2>1. UNCHANGED answered /\ (loop' = "running" <=> loop = "running")
      BY <1>7 DEF LoopProxyRequest, Spawn, LoopJoinSent, LoopJoinNotSent, LoopProxyNote,
                  LoopJoinNote, Joins, LoopPopBatch, LoopToSink, LoopEnd
    <2>. QED  BY <1>3, <1>4, <2>1, Stutters DEF Up
  <1>. QED  BY <1>5, <1>6, <1>7 DEF LoopStep

\* The service keeps what RequestCalls promises its callers: whatever a call returns has its
\* cause in what happened before, as long as there are no more calls than ids.
THEOREM CallsRefine == Cardinality(Calls) <= IdModulus => (Spec => ImplementsRequestCalls)
  <1>1. Init => Calling!Init
    <2>. SUFFICES ASSUME Init PROVE Calling!Init
      OBVIOUS
    <2>1. /\ [c \in Calls |-> Phase(c)] = [c \in Calls |-> "idle"]
          /\ result = [c \in Calls |-> "None"] /\ answered = {} /\ loop = "running"
      BY DEF Init, Phase
    <2>2. Failed = {} /\ CancelAsked = {}
      BY UnitNames DEF Init, Failed, CancelAsked
    <2>. QED  BY <2>1, <2>2 DEF Calling!Init, Failed, CancelAsked
  <1>2. ASSUME Cardinality(Calls) <= IdModulus
        PROVE  TypeOK /\ BegunHaveIds /\ Numbered /\ SentHaveBegun /\ ChannelInOrder
                 /\ CancelledLeft /\ MessagesCaused /\ OutcomesCaused /\ [Next]_vars
               => [Calling!Next]_(Calling!vars)
    <2>. SUFFICES ASSUME TypeOK, BegunHaveIds, Numbered, SentHaveBegun, ChannelInOrder,
                         CancelledLeft, MessagesCaused, OutcomesCaused, [Next]_vars
                  PROVE  Calling!Next \/ UNCHANGED Calling!vars
      OBVIOUS
    <2>1. CASE \E c \in Calls : CallStep(c)
      BY <1>2, <2>1, CallStepRefines
    <2>2. CASE \E n \in Notes : SendNotification(n)
      BY <2>2, NotificationRefines
    <2>3. CASE \E u \in Units : TaskStep(u)
      BY <2>3, TaskStepRefines
    <2>4. CASE Next /\ LoopStep
      BY <2>4, LoopStepRefines
    <2>5. CASE \/ \E c \in Calls : Deliver(c)
               \/ \E n \in Notifiers : NoteStep(n)
               \/ \E h \in Requests : HandlerTask(h)
               \/ CancelService \/ UNCHANGED vars
      <3>1. UNCHANGED <<pc, callId, result, noteFor, answered, task, loop>>
        BY <2>5 DEF Deliver, NoteStep, EnqueueNote, EnqueueNoteClosed, HandlerTask, HandlerFinish,
                    HandlerPanics, HandlerRespond, HandlerRespondClosed, ReplyEnds, HandlerStep,
                    CancelService, vars
      <3>2. UNCHANGED <<Phases, Failed, CancelAsked>>
        BY <3>1 DEF Phases, Phase, Failed, CancelAsked
      <3>. QED  BY <3>1, <3>2, Stutters DEF Up
    <2>. QED  BY <2>1, <2>2, <2>3, <2>4, <2>5 DEF Next, Terminated
  <1>3. ASSUME Cardinality(Calls) <= IdModulus
        PROVE  Spec => ImplementsRequestCalls
    <2>1. Spec => []Numbered /\ []OutcomesCaused
      BY <1>3, DistinctIds, OutcomesHaveCause
    <2>2. TypeOK /\ BegunHaveIds /\ Numbered /\ SentHaveBegun /\ ChannelInOrder
            /\ CancelledLeft /\ MessagesCaused /\ OutcomesCaused /\ [Next]_vars
          => [Calling!Next]_(Calling!vars)
      BY <1>2, <1>3
    <2>. QED
      BY <1>1, <2>1, <2>2, Typing, IdsGiven, BeginsFirst, ChannelStaysInOrder, CancelledHaveLeft,
         MessagesHaveCause, PTL DEF Spec, ImplementsRequestCalls, Calling!Spec
  <1>. QED  BY <1>3

=============================================================================
