----------------------------- MODULE ServiceLoop -----------------------------
(***************************************************************************)
(* One service of the SDK, client or server: the tasks that call the       *)
(* remote through a Peer, the loop of serve_inner that owns the transport, *)
(* the send tasks it spawns, and the handlers of the remote's requests.    *)
(*                                                                         *)
(* Each element of Calls is one use of Peer::send_request_with_option, each *)
(* element of Notes one Peer::send_notification, each element of Requests  *)
(* one request of the remote with its handler task.  A call that times out *)
(* or is cancelled sends a notification of its own, named by the call.     *)
(***************************************************************************)
EXTENDS Integers, Sequences, FiniteSets

CONSTANTS
    Calls,      \* the local requests
    Timed,      \* the calls made with PeerRequestOptions::timeout
    Revocable,  \* the calls whose user may call RequestHandle::cancel
    Notes,      \* the notifications sent by the user
    Requests,   \* the requests of the remote
    RemoteId,   \* the JSON-RPC id of each of them
    IdModulus,  \* number of request ids: 2^32 in the code
    ProxyCap,   \* CLIENT_CHANNEL_BUFFER_SIZE, 1024 in the code
    SinkCap,    \* SINK_PROXY_BUFFER_SIZE, 64 in the code
    MaxBatch,   \* bound on the length of a batch (none in the code)
    None

Ids == 0 .. IdModulus - 1
RemoteIds == {RemoteId[h] : h \in Requests}
Notifiers == Calls \cup Notes

\* What passes through the peer channel, and the send task spawned for it.
RequestOf(c) == <<"request", c>>
NoteOf(n) == <<"note", n>>
Units == ({"request"} \X Calls) \cup ({"note"} \X Notifiers)

ASSUME ServiceLoopAssumption ==
    /\ Timed \subseteq Calls /\ Revocable \subseteq Calls
    /\ Calls \cap Notes = {}
    /\ IsFiniteSet(Calls)
    /\ IdModulus \in Nat \ {0}
    /\ ProxyCap \in Nat \ {0}
    /\ SinkCap \in Nat \ {0}
    /\ MaxBatch \in Nat
    /\ None \notin Calls \cup Requests \cup Ids \cup RemoteIds

VARIABLES
    nextId,         \* AtomicU32Provider::id
    pc,             \* where the caller of each request is
    callId,         \* the id its request was given
    box,            \* the oneshot channel of its RequestHandle
    result,         \* what await_response or cancel returned
    note,           \* where the sender of each notification is
    noteFor,        \* the request id it cancels, None for another notification
    proxy,          \* the channel Peer::tx .. peer_rx
    responders,     \* local_responder_pool
    task,           \* send_task_set
    seen,           \* the requests the transport has written out
    answered,       \* the calls the remote has answered
    batch,          \* batch_messages
    toSink,         \* the channel sink_proxy_tx .. sink_proxy_rx
    ctPool,         \* local_ct_pool
    cancelled,      \* the handlers whose own token is cancelled
    cancelAsked,    \* the ids of the CancelledNotifications processed
    handler,        \* where the task of each remote request is
    rootCancelled,  \* the CancellationToken of the RunningService, parent of all others
    loop            \* running, closing the transport, or ended

callVars == <<nextId, pc, callId, result>>
noteVars == <<note, noteFor>>
poolVars == <<box, responders>>
wireVars == <<task, seen, answered>>
handlerVars == <<toSink, ctPool, cancelled, cancelAsked, handler>>
loopVars == <<batch, rootCancelled, loop>>
vars == <<callVars, noteVars, poolVars, proxy, wireVars, handlerVars, loopVars>>

-----------------------------------------------------------------------------
\* A oneshot channel holds nothing or an outcome; an answer names the call it
\* was an answer to.

NoteResults == {"Ok", "TransportSend", "TransportClosed"}
Answers == {"Ok", "McpError"}
Empty == [kind |-> "Empty", of |-> None]
Outcome(kind, c) == [kind |-> kind, of |-> c]
Boxes == {Empty} \cup [kind : {"TransportSend", "Cancelled", "TransportClosed"} \cup Answers,
                       of : Calls \cup {None}]

Results == {"None", "Timeout", "CancelSent", "TransportSend", "Cancelled",
            "TransportClosed"} \cup Answers

\* Messages of the remote; one batch holds requests and notifications, or
\* responses and errors, and a request arrives once.
Answer == {"response", "error"} \X seen
Fresh == {h \in Requests : handler[h] = "none"}
Solicitation == ({"request"} \X Fresh) \cup ({"cancelled"} \X RemoteIds)
                    \cup {<<"notification", None>>}
Inbound == Answer \cup Solicitation
Inbounds == ({"response", "error"} \X Calls) \cup ({"request"} \X Requests)
                \cup ({"cancelled"} \X RemoteIds) \cup {<<"notification", None>>}

OneEachRequest(b) ==
    \A i, j \in DOMAIN b : b[i] = b[j] /\ b[i][1] = "request" => i = j
Batches == {b \in UNION {[1 .. n -> Answer] \cup [1 .. n -> Solicitation]
                            : n \in 1 .. MaxBatch} : OneEachRequest(b)}

TypeOK ==
    /\ nextId \in Ids
    /\ pc \in [Calls -> {"idle", "enqueue", "open", "awaiting", "cancelling",
                         "timingOut", "done", "dropped"}]
    /\ callId \in [Calls -> Ids \cup {None}]
    /\ box \in [Calls -> Boxes]
    /\ result \in [Calls -> Results]
    /\ note \in [Notifiers -> {"idle", "enqueue", "waiting"} \cup NoteResults]
    /\ noteFor \in [Notifiers -> Ids \cup {None}]
    /\ proxy \in Seq(Units) /\ Len(proxy) <= ProxyCap
    /\ responders \in [Ids -> Calls \cup {None}]
    /\ task \in [Units -> {"none", "sending", "ok", "err", "panic", "joined", "failed"}]
    /\ seen \subseteq Calls
    /\ answered \subseteq Calls
    /\ batch \in Seq(Inbounds)
    /\ toSink \in Seq(Requests) /\ Len(toSink) <= SinkCap
    /\ ctPool \in [RemoteIds -> Requests \cup {None}]
    /\ cancelled \subseteq Requests
    /\ cancelAsked \subseteq RemoteIds
    /\ handler \in [Requests -> {"none", "running", "finished", "queued", "sending",
                                 "sent", "lost", "panicked"}]
    /\ rootCancelled \in BOOLEAN
    /\ loop \in {"running", "closing", "ended"}

Init ==
    /\ nextId = 0
    /\ pc = [c \in Calls |-> "idle"]
    /\ callId = [c \in Calls |-> None]
    /\ box = [c \in Calls |-> Empty]
    /\ result = [c \in Calls |-> "None"]
    /\ note = [n \in Notifiers |-> "idle"]
    /\ noteFor = [n \in Notifiers |-> None]
    /\ proxy = <<>>
    /\ responders = [i \in Ids |-> None]
    /\ task = [u \in Units |-> "none"]
    /\ seen = {}
    /\ answered = {}
    /\ batch = <<>>
    /\ toSink = <<>>
    /\ ctPool = [i \in RemoteIds |-> None]
    /\ cancelled = {}
    /\ cancelAsked = {}
    /\ handler = [h \in Requests |-> "none"]
    /\ rootCancelled = FALSE
    /\ loop = "running"

-----------------------------------------------------------------------------
\* The callers.

\* Faulty variants, each named for its mistake, precede what they replace; they
\* show that the properties below can fail.
NextIdUnbounded(i) == i + 1
NextIdStuck(i) == i
NextId(i) == (i + 1) % IdModulus

\* send_request_with_option takes an id before it waits for room in the channel.
AllocId(c) ==
    /\ pc[c] = "idle"
    /\ callId' = [callId EXCEPT ![c] = nextId]
    /\ nextId' = NextId(nextId)
    /\ pc' = [pc EXCEPT ![c] = "enqueue"]
    /\ UNCHANGED <<result, noteVars, poolVars, proxy, wireVars, handlerVars, loopVars>>

EnqueueRequest(c) ==
    /\ pc[c] = "enqueue" /\ loop # "ended" /\ Len(proxy) < ProxyCap
    /\ proxy' = Append(proxy, RequestOf(c))
    /\ pc' = [pc EXCEPT ![c] = "open"]
    /\ UNCHANGED <<nextId, callId, result, noteVars, poolVars, wireVars, handlerVars, loopVars>>

\* The receiver of the channel is gone: the send fails.
EnqueueClosed(c) ==
    /\ pc[c] = "enqueue" /\ loop = "ended"
    /\ pc' = [pc EXCEPT ![c] = "done"]
    /\ result' = [result EXCEPT ![c] = "TransportClosed"]
    /\ UNCHANGED <<nextId, callId, noteVars, poolVars, proxy, wireVars, handlerVars, loopVars>>

AwaitResponse(c) ==
    /\ pc[c] = "open"
    /\ pc' = [pc EXCEPT ![c] = "awaiting"]
    /\ UNCHANGED <<nextId, callId, result, noteVars, poolVars, proxy, wireVars, handlerVars, loopVars>>

TakeResponse(c) ==
    /\ pc[c] = "awaiting" /\ box[c] # Empty
    /\ pc' = [pc EXCEPT ![c] = "done"]
    /\ result' = [result EXCEPT ![c] = box[c].kind]
    /\ UNCHANGED <<nextId, callId, noteVars, poolVars, proxy, wireVars, handlerVars, loopVars>>

\* The caller of a request turns to sending the notification that cancels it.
StartCancelling(c, state) ==
    /\ pc' = [pc EXCEPT ![c] = state]
    /\ note' = [note EXCEPT ![c] = "enqueue"]
    /\ noteFor' = [noteFor EXCEPT ![c] = callId[c]]
    /\ UNCHANGED <<nextId, callId, result, poolVars, proxy, wireVars, handlerVars, loopVars>>

TimeOutAlways(c) ==
    /\ pc[c] = "awaiting" /\ box[c] = Empty
    /\ StartCancelling(c, "timingOut")

\* tokio::time::timeout polls the receiver before the timer.
TimeOut(c) ==
    /\ c \in Timed /\ pc[c] = "awaiting" /\ box[c] = Empty
    /\ StartCancelling(c, "timingOut")

\* RequestHandle::cancel.
CancelCall(c) ==
    /\ c \in Revocable /\ pc[c] = "open"
    /\ StartCancelling(c, "cancelling")

\* await_response returns Timeout whatever became of the notification.
FinishCancelling(c) ==
    /\ pc[c] \in {"cancelling", "timingOut"} /\ note[c] \in NoteResults
    /\ pc' = [pc EXCEPT ![c] = "done"]
    /\ result' = [result EXCEPT ![c] =
                     IF pc[c] = "timingOut" THEN "Timeout"
                     ELSE IF note[c] = "Ok" THEN "CancelSent" ELSE note[c]]
    /\ UNCHANGED <<nextId, callId, noteVars, poolVars, proxy, wireVars, handlerVars, loopVars>>

\* The future or the handle is dropped, before any notification was begun.
DropCall(c) ==
    /\ pc[c] \in {"enqueue", "open", "awaiting"}
    /\ pc' = [pc EXCEPT ![c] = "dropped"]
    /\ UNCHANGED <<nextId, callId, result, noteVars, poolVars, proxy, wireVars, handlerVars, loopVars>>

\* Peer::send_notification: a CancelledNotification may name any request.
SendNotification(n) ==
    /\ note[n] = "idle"
    /\ note' = [note EXCEPT ![n] = "enqueue"]
    /\ \E i \in {None} \cup {callId[c] : c \in Calls} : noteFor' = [noteFor EXCEPT ![n] = i]
    /\ UNCHANGED <<callVars, poolVars, proxy, wireVars, handlerVars, loopVars>>

EnqueueNote(n) ==
    /\ note[n] = "enqueue" /\ loop # "ended" /\ Len(proxy) < ProxyCap
    /\ proxy' = Append(proxy, NoteOf(n))
    /\ note' = [note EXCEPT ![n] = "waiting"]
    /\ UNCHANGED <<callVars, noteFor, poolVars, wireVars, handlerVars, loopVars>>

EnqueueNoteClosed(n) ==
    /\ note[n] = "enqueue" /\ loop = "ended"
    /\ note' = [note EXCEPT ![n] = "TransportClosed"]
    /\ UNCHANGED <<callVars, noteFor, poolVars, proxy, wireVars, handlerVars, loopVars>>

-----------------------------------------------------------------------------
\* The send tasks of send_task_set.

\* The transport has written a request out: from now on it may be answered.
Deliver(c) ==
    /\ task[RequestOf(c)] = "sending" /\ c \notin seen
    /\ seen' = seen \cup {c}
    /\ UNCHANGED <<callVars, noteVars, poolVars, proxy, task, answered, handlerVars, loopVars>>

FinishTask(u, state) ==
    /\ task[u] = "sending"
    /\ task' = [task EXCEPT ![u] = state]
    /\ UNCHANGED <<callVars, poolVars, proxy, noteFor, seen, answered, handlerVars, loopVars>>

SendSucceeds(u) ==
    /\ u[1] = "request" => u[2] \in seen
    /\ FinishTask(u, "ok")
    /\ UNCHANGED note

SendFails(u) ==
    /\ FinishTask(u, "err")
    /\ UNCHANGED note

\* A panic drops what the task owns: the responder of a notification.
SendPanics(u) ==
    /\ FinishTask(u, "panic")
    /\ note' = IF u[1] = "note" THEN [note EXCEPT ![u[2]] = "TransportClosed"] ELSE note

-----------------------------------------------------------------------------
\* The loop of serve_inner.  It selects only when no batch is in progress.

Selecting == loop = "running" /\ batch = <<>>

\* The responder of request i, if there is one, leaves the pool with an outcome.
Resolve(i, outcome) ==
    /\ box' = [c \in Calls |-> IF responders[i] = c THEN outcome ELSE box[c]]
    /\ responders' = [responders EXCEPT ![i] = None]

\* HashMap::insert drops the responder it replaces.
Register(c) ==
    /\ box' = [d \in Calls |-> IF responders[callId[c]] = d
                               THEN Outcome("TransportClosed", None) ELSE box[d]]
    /\ responders' = [responders EXCEPT ![callId[c]] = c]

Spawn(u) ==
    /\ task' = [task EXCEPT ![u] = "sending"]
    /\ UNCHANGED <<seen, answered>>

LoopProxyRequest(c) ==
    /\ Selecting /\ proxy # <<>> /\ Head(proxy) = RequestOf(c)
    /\ proxy' = Tail(proxy)
    /\ Register(c)
    /\ Spawn(RequestOf(c))
    /\ UNCHANGED <<callVars, noteVars, handlerVars, loopVars>>

LoopProxyNote(n) ==
    /\ Selecting /\ proxy # <<>> /\ Head(proxy) = NoteOf(n)
    /\ proxy' = Tail(proxy)
    /\ Spawn(NoteOf(n))
    /\ UNCHANGED <<callVars, noteVars, poolVars, handlerVars, loopVars>>

\* join_next returned the task: it leaves the set.
Joins(u, states) ==
    /\ Selecting /\ task[u] \in states
    /\ task' = [task EXCEPT ![u] = IF task[u] = "ok" THEN "joined" ELSE "failed"]
    /\ UNCHANGED <<callVars, noteFor, proxy, seen, answered, handlerVars>>

LoopJoinSent(c) ==
    /\ Joins(RequestOf(c), {"ok"})
    /\ UNCHANGED <<note, poolVars, loopVars>>

LoopJoinNotSent(c) ==
    /\ Joins(RequestOf(c), {"err"})
    /\ Resolve(callId[c], Outcome("TransportSend", None))
    /\ UNCHANGED <<note, loopVars>>

AnswerNotifierIfSent(n) ==
    note' = IF task[NoteOf(n)] = "ok" THEN [note EXCEPT ![n] = "Ok"] ELSE note
AnswerNotifier(n) ==
    note' = [note EXCEPT ![n] = IF task[NoteOf(n)] = "ok" THEN "Ok" ELSE "TransportSend"]

\* A notification that cancels a request resolves it, sent or not.
CancelsIfSent(n) == noteFor[n] # None /\ task[NoteOf(n)] = "ok"
Cancels(n) == noteFor[n] # None

LoopJoinNote(n) ==
    /\ Joins(NoteOf(n), {"ok", "err"})
    /\ AnswerNotifier(n)
    /\ IF Cancels(n) THEN Resolve(noteFor[n], Outcome("Cancelled", None))
       ELSE UNCHANGED poolVars
    /\ UNCHANGED loopVars

QuitNot == UNCHANGED loopVars
Quit == loop' = "closing" /\ UNCHANGED <<batch, rootCancelled>>

LoopJoinError(u) ==
    /\ Joins(u, {"panic"})
    /\ Quit
    /\ UNCHANGED <<note, poolVars>>

\* What the loop does with one message that is not a batch.  The token of a request is
\* a child of the loop's: cancelled from the start once that one is.
ProcessRequest(h) ==
    /\ handler' = [handler EXCEPT ![h] = "running"]
    /\ ctPool' = [ctPool EXCEPT ![RemoteId[h]] = h]
    /\ cancelled' = IF rootCancelled THEN cancelled \cup {h} ELSE cancelled
    /\ UNCHANGED <<poolVars, toSink, cancelAsked>>

CancelEveryToken(i) ==
    /\ cancelled' = cancelled \cup {h \in Requests : ctPool[RemoteId[h]] = h}
    /\ ctPool' = [ctPool EXCEPT ![i] = None]
ForgetToken(i) ==
    /\ ctPool' = [ctPool EXCEPT ![i] = None]
    /\ UNCHANGED cancelled
KeepToken(i) ==
    /\ cancelled' = cancelled \cup ({ctPool[i]} \cap Requests)
    /\ UNCHANGED ctPool

\* Take the token of request i, if there is one, and cancel it.
CancelToken(i) ==
    /\ cancelled' = cancelled \cup ({ctPool[i]} \cap Requests)
    /\ ctPool' = [ctPool EXCEPT ![i] = None]

ProcessCancelled(i) ==
    /\ CancelToken(i)
    /\ cancelAsked' = cancelAsked \cup {i}
    /\ UNCHANGED <<poolVars, toSink, handler>>

ProcessResponseOnly(c, kind) ==
    /\ IF kind = "Ok" THEN Resolve(callId[c], Outcome(kind, c)) ELSE UNCHANGED poolVars
    /\ UNCHANGED handlerVars

ProcessAnswer(c, kind) ==
    /\ Resolve(callId[c], Outcome(kind, c))
    /\ UNCHANGED handlerVars

\* handle_notification runs in a task of its own.
Process(m) ==
    \/ m[1] = "request" /\ ProcessRequest(m[2])
    \/ m[1] = "cancelled" /\ ProcessCancelled(m[2])
    \/ m[1] = "notification" /\ UNCHANGED <<poolVars, handlerVars>>
    \/ m[1] = "response" /\ ProcessAnswer(m[2], "Ok")
    \/ m[1] = "error" /\ ProcessAnswer(m[2], "McpError")

AnsweredBy(ms) == {c \in Calls : \E k \in {"response", "error"} : <<k, c>> \in ms}

LoopPeerMessage ==
    /\ Selecting
    /\ \E m \in Inbound : Process(m) /\ answered' = answered \cup AnsweredBy({m})
    /\ UNCHANGED <<callVars, noteVars, proxy, task, seen, loopVars>>

LoopPeerBatch ==
    /\ Selecting
    /\ \E b \in Batches :
          /\ batch' = b
          /\ answered' = answered \cup AnsweredBy({b[k] : k \in DOMAIN b})
    /\ UNCHANGED <<callVars, noteVars, proxy, poolVars, task, seen, handlerVars,
                   rootCancelled, loop>>

LoopPopBatch ==
    /\ loop = "running" /\ batch # <<>>
    /\ batch' = Tail(batch)
    /\ Process(Head(batch))
    /\ UNCHANGED <<callVars, noteVars, proxy, wireVars, rootCancelled, loop>>

LoopToSinkIfTracked ==
    /\ Selecting /\ toSink # <<>>
    /\ toSink' = Tail(toSink)
    /\ CancelToken(RemoteId[Head(toSink)])
    /\ handler' = IF ctPool[RemoteId[Head(toSink)]] = None THEN handler
                  ELSE [handler EXCEPT ![Head(toSink)] = "sending"]
    /\ UNCHANGED <<callVars, noteVars, poolVars, proxy, wireVars, cancelAsked, loopVars>>

\* A response leaves for the transport in a task nobody joins.
LoopToSink ==
    /\ Selecting /\ toSink # <<>>
    /\ toSink' = Tail(toSink)
    /\ CancelToken(RemoteId[Head(toSink)])
    /\ handler' = [handler EXCEPT ![Head(toSink)] = "sending"]
    /\ UNCHANGED <<callVars, noteVars, poolVars, proxy, wireVars, cancelAsked, loopVars>>

LoopClosed ==
    /\ Selecting
    /\ Quit
    /\ UNCHANGED <<callVars, noteVars, poolVars, proxy, wireVars, handlerVars>>

LoopCancelled ==
    /\ Selecting /\ rootCancelled
    /\ Quit
    /\ UNCHANGED <<callVars, noteVars, poolVars, proxy, wireVars, handlerVars>>

\* The transport has closed and the task of the loop drops all that it owns.
HeldInPool == {c \in Calls : \E i \in Ids : responders[i] = c}
Held == {c \in Calls : \/ \E k \in DOMAIN proxy : proxy[k] = RequestOf(c)
                       \/ \E i \in Ids : responders[i] = c}

LoopEnd ==
    /\ loop = "closing"
    /\ loop' = "ended"
    /\ box' = [c \in Calls |-> IF c \in Held THEN Outcome("TransportClosed", None) ELSE box[c]]
    /\ note' = [n \in Notifiers |-> IF note[n] = "waiting" THEN "TransportClosed" ELSE note[n]]
    /\ task' = [u \in Units |-> CASE task[u] \in {"sending", "ok"} -> "joined"
                                   [] task[u] \in {"err", "panic"} -> "failed"
                                   [] OTHER -> task[u]]
    /\ handler' = [h \in Requests |-> IF handler[h] = "queued" THEN "lost" ELSE handler[h]]
    /\ proxy' = <<>>
    /\ toSink' = <<>>
    /\ responders' = [i \in Ids |-> None]
    /\ ctPool' = [i \in RemoteIds |-> None]
    /\ UNCHANGED <<callVars, noteFor, seen, answered, cancelled, cancelAsked, batch, rootCancelled>>

-----------------------------------------------------------------------------
\* The handlers of the remote's requests, and the user of the service.

HandlerStep(h, before, after) ==
    /\ handler[h] = before
    /\ handler' = [handler EXCEPT ![h] = after]
    /\ UNCHANGED <<callVars, noteVars, poolVars, proxy, wireVars, ctPool, cancelled,
                   cancelAsked, loopVars>>

HandlerFinish(h) == HandlerStep(h, "running", "finished") /\ UNCHANGED toSink

\* Nobody joins the task of a handler: its panic is not noticed.
HandlerPanics(h) == HandlerStep(h, "running", "panicked") /\ UNCHANGED toSink

HandlerRespond(h) ==
    /\ loop # "ended" /\ Len(toSink) < SinkCap
    /\ toSink' = Append(toSink, h)
    /\ HandlerStep(h, "finished", "queued")

HandlerRespondClosed(h) ==
    /\ loop = "ended"
    /\ HandlerStep(h, "finished", "lost") /\ UNCHANGED toSink

\* The send of a response ends, well or not: the outcome is only logged.
ReplyEnds(h) == HandlerStep(h, "sending", "sent") /\ UNCHANGED toSink

AtWork(h) == handler[h] \in {"running", "finished", "queued"}

\* RunningService::cancel, its token, or its drop, also after the loop has ended.  The
\* tokens of the handlers at work are descendants of the one that is cancelled.
CancelService ==
    /\ ~rootCancelled
    /\ rootCancelled' = TRUE
    /\ cancelled' = cancelled \cup {h \in Requests : AtWork(h)}
    /\ UNCHANGED <<callVars, noteVars, poolVars, proxy, wireVars, toSink, ctPool, cancelAsked,
                   handler, batch, loop>>

-----------------------------------------------------------------------------
Settled ==
    /\ \A c \in Calls : pc[c] \in {"done", "dropped"}
    /\ \A n \in Notes : note[n] \in NoteResults
    /\ \A h \in Requests : handler[h] \in {"none", "sent", "lost", "panicked"}

Terminated == loop = "ended" /\ rootCancelled /\ Settled /\ UNCHANGED vars

CallStep(c) ==
    \/ AllocId(c) \/ EnqueueRequest(c) \/ EnqueueClosed(c) \/ AwaitResponse(c)
    \/ TakeResponse(c) \/ TimeOut(c) \/ CancelCall(c) \/ FinishCancelling(c)
    \/ DropCall(c)

NoteStep(n) == EnqueueNote(n) \/ EnqueueNoteClosed(n)

TaskStep(u) == SendSucceeds(u) \/ SendFails(u) \/ SendPanics(u)

LoopStep ==
    \/ \E c \in Calls : LoopProxyRequest(c) \/ LoopJoinSent(c) \/ LoopJoinNotSent(c)
    \/ \E n \in Notifiers : LoopProxyNote(n) \/ LoopJoinNote(n)
    \/ \E u \in Units : LoopJoinError(u)
    \/ LoopPeerMessage \/ LoopPeerBatch \/ LoopPopBatch \/ LoopToSink
    \/ LoopClosed \/ LoopCancelled \/ LoopEnd

HandlerTask(h) ==
    \/ HandlerFinish(h) \/ HandlerPanics(h) \/ HandlerRespond(h)
    \/ HandlerRespondClosed(h) \/ ReplyEnds(h)

Next ==
    \/ \E c \in Calls : CallStep(c) \/ Deliver(c)
    \/ \E n \in Notes : SendNotification(n)
    \/ \E n \in Notifiers : NoteStep(n)
    \/ \E u \in Units : TaskStep(u)
    \/ \E h \in Requests : HandlerTask(h)
    \/ LoopStep
    \/ CancelService
    \/ Terminated

Spec == Init /\ [][Next]_vars

(***************************************************************************)
(* Fairness.  The runtime polls every task that is ready; tokio::select!   *)
(* polls its branches from a random one, so a branch that is ready again   *)
(* and again is taken though batches come between: strong fairness.  That  *)
(* a send and the close of the transport end is assumed of the transport.  *)
(***************************************************************************)
LoopProxy == \E c \in Calls, n \in Notifiers : LoopProxyRequest(c) \/ LoopProxyNote(n)
LoopJoin ==
    \/ \E c \in Calls : LoopJoinSent(c) \/ LoopJoinNotSent(c)
    \/ \E n \in Notifiers : LoopJoinNote(n)
    \/ \E u \in Units : LoopJoinError(u)

Fairness ==
    /\ \A c \in Calls : /\ WF_vars(EnqueueRequest(c) \/ EnqueueClosed(c))
                        /\ WF_vars(TakeResponse(c)) /\ WF_vars(TimeOut(c))
                        /\ WF_vars(FinishCancelling(c))
    /\ \A n \in Notifiers : WF_vars(NoteStep(n))
    /\ \A u \in Units : WF_vars(TaskStep(u))
    /\ \A h \in Requests : WF_vars(HandlerRespond(h) \/ HandlerRespondClosed(h) \/ ReplyEnds(h))
    /\ SF_vars(LoopProxy) /\ SF_vars(LoopJoin) /\ SF_vars(LoopToSink) /\ SF_vars(LoopCancelled)
    /\ WF_vars(LoopPopBatch) /\ WF_vars(LoopEnd)

FairSpec == Spec /\ Fairness

-----------------------------------------------------------------------------
Unresolved(c) == pc[c] \in {"open", "awaiting"} /\ box[c] = Empty
Queued(u) == \E k \in DOMAIN proxy : proxy[k] = u

\* A caller that waits for an answer is known to the loop: its request is still in
\* the channel, or its responder is in the pool under its id, and the loop has not
\* ended.  Otherwise await_response without a timeout would hang (service.rs
\* 264, 679-691, 807-812).
NoOrphanedCaller ==
    \A c \in Calls : Unresolved(c) =>
        /\ loop # "ended"
        /\ Queued(RequestOf(c)) \/ responders[callId[c]] = c

\* What makes it inductive: a caller that has begun has an id to be found under, and only
\* those that have begun are in the channel.
Registered ==
    \A c \in Calls : /\ pc[c] # "idle" => callId[c] \in Ids
                     /\ Queued(RequestOf(c)) => pc[c] # "idle"

\* The same of a caller of send_notification, and so of a timed-out or cancelled
\* request: its message is in the channel or with a send task that will be joined.
NoOrphanedNotifier ==
    \A n \in Notifiers : note[n] = "waiting" =>
        /\ loop # "ended"
        /\ Queued(NoteOf(n)) \/ task[NoteOf(n)] \in {"sending", "ok", "err"}

\* A caller is given the answer of the remote to its own request, however the
\* answers are ordered, repeated or batched (771-790).
AnswersMatch ==
    \A c \in Calls : box[c].kind \in Answers => box[c].of = c

\* A call that has returned, by an answer, an error, a timeout or a cancellation,
\* has left nothing in local_responder_pool; a task that panicked is about to end
\* the loop.
NoResponderLeak ==
    loop = "running" =>
        \A c \in Calls : pc[c] = "done" /\ task[NoteOf(c)] # "panic"
                          => \A i \in Ids : responders[i] # c

\* Another request was received under the id of h.
Shared(h) == \E g \in Requests \ {h} : RemoteId[g] = RemoteId[h] /\ handler[g] # "none"

\* A handler that is still at work sees its token cancelled only because the whole
\* service was cancelled (555, 719-720) or the remote cancelled its id (745-757), unless
\* the remote uses an id twice: the response to one request takes the token of the
\* other (666-668, 721).
NoSpuriousCancel ==
    \A h \in cancelled : AtWork(h) => rootCancelled \/ RemoteId[h] \in cancelAsked \/ Shared(h)

\* A handler at work that is not cancelled can be: its service is not cancelled, which
\* would have cancelled it, even if its request came later out of a batch (555, 719-720),
\* and while the loop runs its token is in local_ct_pool under its id, unless that id
\* was used again.
Cancellable ==
    \A h \in Requests \ cancelled : AtWork(h) =>
        /\ ~rootCancelled
        /\ loop # "ended" => ctPool[RemoteId[h]] = h \/ Shared(h)

\* Once its response has left, the token of a request is no longer in the pool,
\* whatever ids the remote chose.
TokenReleased ==
    \A h \in Requests : handler[h] \in {"sending", "sent"}
                         => \A i \in RemoteIds : ctPool[i] # h

\* await_response with a timeout returns, whatever the remote and the transport
\* do, provided sends end: it waits for its cancellation to be sent (250-258).
TimedCallReturns ==
    \A c \in Timed : pc[c] = "awaiting" ~> pc[c] \in {"done", "dropped"}

\* A call that the remote answers is resolved, even if no timeout would release it.
AnswerArrives == \A c \in Calls : c \in answered ~> box[c] # Empty

\* When the loop stops, every caller that waits is released, and one that does not
\* wait yet will find its call resolved (807-812).
ShutdownReleasesCallers ==
    \A c \in Calls :
        loop = "closing" /\ pc[c] \in {"open", "awaiting", "cancelling", "timingOut"}
            ~> pc[c] \in {"done", "dropped"} \/ (pc[c] = "open" /\ box[c] # Empty)

\* RunningService::cancel returns: the loop ends, even while the remote keeps
\* sending batches, which are worked off before the token is looked at (580-628).
CancelStopsLoop == rootCancelled ~> loop = "ended"

\* What a handler returned is handed to the transport, unless the loop ends.
RepliesLeave ==
    \A h \in Requests : handler[h] = "finished" ~> handler[h] \in {"sent", "lost"}

\* The life of a request as its caller sees it.
Phase(c) == CASE pc[c] = "idle" -> "idle"
              [] pc[c] = "done" -> "returned"
              [] pc[c] = "dropped" -> "dropped"
              [] OTHER -> "pending"

Calling == INSTANCE RequestCalls WITH
    phase <- [c \in Calls |-> Phase(c)],
    outcome <- result,
    answered <- answered,
    failed <- {c \in Calls : \E u \in {RequestOf(c), NoteOf(c)} :
                                task[u] \in {"err", "panic", "failed"}},
    cancelAsked <- {c \in Calls : \E n \in Notifiers :
                                     noteFor[n] # None /\ noteFor[n] = callId[c]},
    up <- loop = "running"

\* What a call returns has its cause in what happened: the loop implements
\* RequestCalls.
ImplementsRequestCalls == Calling!Spec
=============================================================================
