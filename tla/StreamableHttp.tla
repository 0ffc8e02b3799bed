---------------------------- MODULE StreamableHttp ----------------------------
(***************************************************************************)
(* One client of the streamable HTTP transport and the session it opens:   *)
(* the client's service, StreamableHttpClientWorker behind its             *)
(* WorkerTransport, the stream tasks it spawns, and the handlers of the    *)
(* server with their session manager.  The inside of a SessionWorker is    *)
(* module StreamableSession; of it stays what the client meets: the queue  *)
(* behind the POSTs, the events a GET replays from what is still cached, a *)
(* response that leaves on the common stream.                              *)
(***************************************************************************)
EXTENDS Naturals, Sequences, FiniteSets, SequencesExt

CONSTANTS
    Requests,       \* requests of the client's service
    Capacity,       \* channel_buffer_capacity of the client, 16 by default
    SessionCapacity, \* channel_capacity of the session, of its caches too: 16 in the code
    MaxNotes,       \* bound on the notifications of the server's service
    MaxBreaks,      \* bound on the connections that break
    Common, Initialize, Initialized, None

Msgs == {Initialize, Initialized} \cup Requests
Streams == {Common} \cup Requests
Notes == 1 .. MaxNotes

ASSUME StreamableHttpAssumption ==
    /\ {Capacity, SessionCapacity} \subseteq Nat \ {0} /\ MaxNotes \in Nat /\ MaxBreaks \in Nat
    /\ None \notin Msgs \cup Streams \cup (Streams \X Nat) /\ Common \notin Requests
    /\ IsFiniteSet(Requests) /\ Requests \cap (Notes \cup {Initialize, Initialized}) = {}
    /\ Initialize # Initialized

VARIABLES
    service,        \* the client's service: its handshake, its loop, its close
    send,           \* how far WorkerTransport::send is with each message
    sent,           \* the messages in the order they entered the channel
    fromHandler, toHandler,
    pc, cur,        \* where StreamableHttpClientWorker::run is, and with which message
    ct,             \* transport_task_ct is cancelled
    delete,         \* the task that deletes the session, and its DELETE
    answer,         \* what came back of the POST that is waited for
    task,           \* execute_sse_stream of each stream: its state and its reconnecting stream
    sse,            \* sse_worker channel
    got,            \* events the service received
    breaks,
    post,           \* post_handler of each message
    managed,        \* session_manager holds the handle of the session
    events,         \* event_rx of its worker; a message being handed over is still the first
    session,        \* where the worker is
    serving,        \* its service receives
    toService,      \* the channel between the two
    rcvd,           \* what the service received, in order
    pending,        \* requests with an open stream, tx_router
    log,            \* every event of each stream since the session began
    reader          \* the task whose connection has the receiver of a stream

worker == <<pc, cur, fromHandler, delete, sse>>
net == <<answer, post, breaks>>
streams == <<task, log, reader>>
server == <<managed, events, session, serving, toService, rcvd, pending>>
handler == <<service, toHandler, got>>
vars == <<handler, send, sent, ct, worker, net, streams, server>>

NoTask == [st |-> "none", wire |-> <<>>, last |-> None, reads |-> None]

Init ==
    /\ service = "new" /\ send = [m \in Msgs |-> "none"] /\ sent = <<>>
    /\ fromHandler = <<>> /\ toHandler = <<>> /\ sse = <<>> /\ got = <<>>
    /\ pc = "wait_initialize" /\ cur = None /\ ct = FALSE /\ delete = "none"
    /\ answer = "none" /\ post = [m \in Msgs |-> "none"] /\ breaks = 0
    /\ task = [k \in Streams |-> NoTask]
    /\ managed = FALSE /\ events = <<>> /\ session = "none" /\ serving = FALSE
    /\ toService = <<>> /\ rcvd = <<>> /\ pending = {}
    /\ log = [c \in Streams |-> <<>>] /\ reader = [c \in Streams |-> None]

(***************************************************************************)
(* The client's service over WorkerTransport.                              *)
(***************************************************************************)
NoRoomNeeded(q) == TRUE
Room(q) == Len(q) < Capacity

MaySend(m) ==
    CASE m = Initialize -> service = "new"
      [] m = Initialized -> service = "greeting"
      [] OTHER -> service = "running" /\ send[Initialized] = "ok"

\* tx.send waits for room; then the responder decides.
Send(m) ==
    /\ send[m] = "none" /\ MaySend(m)
    /\ \/ /\ pc # "ended" /\ Room(fromHandler)
          /\ fromHandler' = Append(fromHandler, m) /\ sent' = Append(sent, m)
          /\ send' = [send EXCEPT ![m] = "queued"]
       \/ pc = "ended" /\ send' = [send EXCEPT ![m] = "failed"] /\ UNCHANGED <<fromHandler, sent>>
    /\ service' = CASE m = Initialize -> "initializing" [] m = Initialized -> "running" [] OTHER -> service
    /\ UNCHANGED <<toHandler, got, pc, cur, ct, delete, sse, net, streams, server>>

Receive ==
    /\ service \in {"initializing", "running"} /\ toHandler # <<>>
    /\ toHandler' = Tail(toHandler)
    /\ IF service = "initializing" THEN service' = "greeting" /\ UNCHANGED got
       ELSE got' = Append(got, Head(toHandler)) /\ UNCHANGED service
    /\ UNCHANGED <<send, sent, ct, worker, net, streams, server>>

\* The loop ends for a reason of its own, or because the worker is gone; close cancels
\* the worker and waits for it.
Close ==
    /\ service = "running" /\ service' = "closing" /\ ct' = TRUE
    /\ UNCHANGED <<toHandler, got, send, sent, worker, net, streams, server>>

\* Closed, or the handshake failed or was given up: the transport is dropped.
Drop ==
    /\ \/ service = "closing" /\ pc = "ended"
       \/ service \in {"initializing", "greeting"}
    /\ service' = "dropped" /\ ct' = TRUE /\ toHandler' = <<>>
    /\ UNCHANGED <<got, send, sent, worker, net, streams, server>>

(***************************************************************************)
(* StreamableHttpClientWorker::run.  Quitting drops the responders, the    *)
(* stream tasks and the drop guard.                                        *)
(***************************************************************************)
Stopped(k) == [task[k] EXCEPT !.st = "done", !.wire = <<>>]

Quit ==
    /\ pc' = "ended" /\ cur' = None /\ ct' = TRUE /\ fromHandler' = <<>> /\ sse' = <<>>
    /\ send' = [m \in Msgs |-> IF send[m] = "queued" THEN "failed" ELSE send[m]]
    /\ task' = [k \in Streams |-> Stopped(k)]
    /\ reader' = [c \in Streams |-> None] /\ answer' = "none"
    /\ UNCHANGED <<handler, sent, delete, post, breaks, log, server>>

Receiving == {"wait_initialize", "wait_initialized", "select"}

HandlerTerminated ==
    /\ service = "dropped"
    /\ pc \in {"hand_initialize", "hand"} \/ (pc \in Receiving /\ fromHandler = <<>>)
    /\ Quit

Cancelled == pc = "select" /\ ct /\ Quit

AfterSpawn == "select"
AfterPost == "posting"

\* Only initialize is acknowledged before it is posted.
TakeMessage ==
    /\ pc \in Receiving /\ fromHandler # <<>>
    /\ LET m == Head(fromHandler) IN
       /\ cur' = m /\ answer' = "none" /\ post' = [post EXCEPT ![m] = "flying"]
       /\ pc' = IF pc = "select" THEN AfterPost ELSE "posting"
       /\ send' = IF pc = "wait_initialize" THEN [send EXCEPT ![m] = "ok"] ELSE send
    /\ fromHandler' = Tail(fromHandler)
    /\ UNCHANGED <<handler, sent, ct, delete, sse, breaks, streams, server>>

Answered(m) == pc = "posting" /\ cur = m /\ answer # "none"

\* The session is known: from here on it is deleted once ct is cancelled.
InitializeAnswered ==
    /\ Answered(Initialize) /\ answer = "json"
    /\ pc' = "hand_initialize" /\ delete' = "armed"
    /\ UNCHANGED <<handler, send, sent, ct, cur, fromHandler, sse, net, streams, server>>

HandInitialize ==
    /\ pc = "hand_initialize" /\ service # "dropped" /\ Room(toHandler)
    /\ toHandler' = Append(toHandler, None) /\ pc' = "wait_initialized"
    /\ UNCHANGED <<service, got, send, sent, ct, cur, fromHandler, delete, sse, net, streams, server>>

InitializedAnswered ==
    /\ Answered(Initialized) /\ answer = "accepted"
    /\ pc' = "get_common" /\ send' = [send EXCEPT ![Initialized] = "ok"]
    /\ UNCHANGED <<handler, sent, ct, cur, fromHandler, delete, sse, net, streams, server>>

HandshakeFailed ==
    /\ \/ \E m \in {Initialize, Initialized} : Answered(m) /\ answer = "failed"
       \/ pc = "get_common"
    /\ Quit

\* The stream of a POST is spawned; a POST that failed is the sender's business.
RequestAnswered(m) ==
    /\ Answered(m) /\ pc' = "select"
    /\ \/ /\ answer = "sse" /\ send' = [send EXCEPT ![m] = "ok"]
          /\ task' = [task EXCEPT ![m].st = "open"]
       \/ answer = "failed" /\ send' = [send EXCEPT ![m] = "failed"] /\ UNCHANGED task
    /\ UNCHANGED <<handler, sent, ct, cur, fromHandler, delete, sse, net, log, reader, server>>

TakeServerMessage ==
    /\ pc = "select" /\ sse # <<>>
    /\ pc' = "hand" /\ cur' = Head(sse) /\ sse' = Tail(sse)
    /\ UNCHANGED <<handler, send, sent, ct, fromHandler, delete, net, streams, server>>

\* send_to_handler waits for room without looking at ct.
Hand ==
    /\ pc = "hand" /\ service # "dropped" /\ Room(toHandler)
    /\ toHandler' = Append(toHandler, cur) /\ pc' = "select" /\ cur' = None
    /\ UNCHANGED <<service, got, send, sent, ct, fromHandler, delete, sse, net, streams, server>>

(***************************************************************************)
(* GET: the handler looks the session up (Ask), its worker then answers    *)
(* (Connect): without a last event id with the common stream from index 0  *)
(* on, with one with the stream of that id from that event on, or from the *)
(* oldest cached one if that is later.  Whoever had the receiver before    *)
(* reads to the end of what is on its way.                                 *)
(***************************************************************************)
NewOnly(last) == IF last = None THEN Len(log[Common]) + 1 ELSE last[2]
First(last) == IF last = None THEN 1 ELSE last[2]

\* What comes before it was evicted from the cache of its stream.
Oldest(c) == IF Len(log[c]) > SessionCapacity THEN Len(log[c]) - SessionCapacity + 1 ELSE 1

Ask(k) == managed /\ task' = [task EXCEPT ![k].st = "asking"]

Connect(k) ==
    LET last == task[k].last
        c == IF last = None THEN Common ELSE last[1]
        from == IF First(last) < Oldest(c) THEN Oldest(c) ELSE First(last)
    IN /\ task[k].st = "asking" /\ session = "select" /\ c \in {Common} \cup pending
       /\ reader' = [reader EXCEPT ![c] = k]
       /\ task' = [task EXCEPT ![k].st = "open", ![k].reads = c,
                     ![k].wire = [i \in 1 .. Len(log[c]) + 1 - from |-> <<c, from + i - 1>>]]

AskForCommon ==
    /\ pc = "get_common" /\ task[Common].st = "none" /\ Ask(Common)
    /\ UNCHANGED <<handler, send, sent, ct, worker, net, log, reader, server>>

GetCommon ==
    /\ pc = "get_common" /\ pc' = "select" /\ cur' = None /\ Connect(Common)
    /\ UNCHANGED <<handler, send, sent, ct, fromHandler, delete, sse, net, log, server>>

\* A server without SSE answers 405, which is no failure.
SkipCommon ==
    /\ pc = "get_common" /\ task[Common].st = "none" /\ pc' = "select" /\ cur' = None
    /\ UNCHANGED <<handler, send, sent, ct, fromHandler, delete, sse, net, streams, server>>

(***************************************************************************)
(* execute_sse_stream.                                                     *)
(***************************************************************************)
taskLocal == <<handler, send, sent, ct, pc, cur, fromHandler, delete, answer, post, log, server>>

Yield(k) ==
    /\ task[k].st = "open" /\ task[k].wire # <<>> /\ Room(sse)
    /\ sse' = Append(sse, Head(task[k].wire))
    /\ task' = [task EXCEPT ![k].last = Head(task[k].wire), ![k].wire = Tail(@)]
    /\ UNCHANGED <<taskLocal, reader, breaks>>

ConnectionBreaks == breaks < MaxBreaks /\ breaks' = breaks + 1

Leave(k) == [c \in Streams |-> IF reader[c] = k THEN None ELSE reader[c]]

Break(k) ==
    /\ task[k].st = "open" /\ ConnectionBreaks
    /\ task' = [task EXCEPT ![k].st = "retrying", ![k].wire = <<>>] /\ reader' = Leave(k)
    /\ UNCHANGED <<taskLocal, sse>>

Retry(k) ==
    /\ task[k].st = "retrying" /\ Ask(k)
    /\ UNCHANGED <<taskLocal, reader, sse, breaks>>

Resume(k) == pc # "get_common" /\ Connect(k) /\ UNCHANGED <<taskLocal, sse, breaks>>

\* Out of retries, end of the stream, or cancelled.
Finish(k) ==
    /\ \/ task[k].st \in {"retrying", "asking"} /\ pc # "get_common"
       \/ task[k].st = "open" /\ task[k].wire = <<>> /\ \A c \in Streams : reader[c] # k
       \/ task[k].st = "open" /\ ct
    /\ task' = [task EXCEPT ![k] = Stopped(k)] /\ reader' = Leave(k)
    /\ UNCHANGED <<taskLocal, sse, breaks>>

(***************************************************************************)
(* DELETE, once the token is cancelled: the handle leaves the manager,     *)
(* then Close waits for room in the queue of the worker.  It may fail at   *)
(* any point.                                                              *)
(***************************************************************************)
deleteLocal == <<handler, send, sent, ct, pc, cur, fromHandler, sse, answer, post, streams>>

Running == session \in {"select", "handing"}
Queued == IF session = "handing" THEN Tail(events) ELSE events
Push(kind, m) ==
    /\ Running /\ Len(Queued) < SessionCapacity
    /\ events' = Append(events, [kind |-> kind, of |-> m])

RemoveHandle ==
    /\ delete = "armed" /\ ct /\ managed
    /\ delete' = "closing" /\ managed' = FALSE
    /\ UNCHANGED <<deleteLocal, breaks, events, session, serving, toService, rcvd, pending>>

SendClose ==
    /\ delete = "closing" /\ Push("close", None) /\ delete' = "done"
    /\ UNCHANGED <<deleteLocal, breaks, managed, session, serving, toService, rcvd, pending>>

DeleteFails ==
    /\ (delete = "armed" /\ ct) \/ delete = "closing"
    /\ \/ (IF delete = "armed" THEN ~managed ELSE ~Running) /\ UNCHANGED breaks
       \/ ConnectionBreaks
    /\ delete' = "failed" /\ UNCHANGED <<deleteLocal, server>>

(***************************************************************************)
(* POST: the handler clones the handle of the session, asks the worker for *)
(* a stream if the message is a request, queues the message and answers.   *)
(* The connection may break at any point; the handler may then go on.      *)
(***************************************************************************)
client == <<handler, send, sent, ct, worker>>
Reply(m, r) == answer' = IF pc = "posting" /\ cur = m /\ answer = "none" THEN r ELSE answer
Reaches(m, before, after) == post[m] = before /\ post' = [post EXCEPT ![m] = after]

\* The handler answers with an error, or is dropped with its connection.
Refused(m) ==
    IF post[m] = "flying" THEN m = Initialize \/ ~managed ELSE m # Initialize /\ ~Running

PostFails(m) ==
    /\ post[m] # "none" /\ (m = Initialize => post[m] = "flying")
    /\ (Refused(m) /\ UNCHANGED breaks) \/ ConnectionBreaks
    /\ post' = [post EXCEPT ![m] = "none"] /\ Reply(m, "failed")
    /\ UNCHANGED <<client, streams, server>>

\* The handler goes on without its connection.
AnswerLost ==
    /\ pc = "posting" /\ answer = "none" /\ ConnectionBreaks /\ answer' = "failed"
    /\ UNCHANGED <<client, post, streams, server>>

PostInitialize ==
    /\ Reaches(Initialize, "flying", "found")
    /\ session' = "initializing" /\ serving' = TRUE /\ toService' = <<Initialize>>
    /\ UNCHANGED <<client, answer, breaks, streams, managed, events, rcvd, pending>>

\* The service answered, the session is entered, and its answer goes back.
AnswerInitialize ==
    /\ session = "initializing" /\ Contains(rcvd, Initialize) /\ session' = "select"
    /\ managed' = TRUE /\ Reaches(Initialize, "found", "none") /\ Reply(Initialize, "json")
    /\ UNCHANGED <<client, breaks, streams, events, serving, toService, rcvd, pending>>

FindSession(m) ==
    /\ m # Initialize /\ managed /\ Reaches(m, "flying", "found")
    /\ UNCHANGED <<client, answer, breaks, streams, server>>

AskForStream(m) ==
    /\ m \in Requests /\ Reaches(m, "found", "opening") /\ Push("stream", m)
    /\ UNCHANGED <<client, answer, breaks, streams, managed, session, serving, toService, rcvd, pending>>

PushMessage(m) ==
    /\ m # Initialize /\ Reaches(m, IF m \in Requests THEN "opened" ELSE "found", "none")
    /\ Push("message", m) /\ Reply(m, IF m \in Requests THEN "sse" ELSE "accepted")
    /\ IF answer' = "sse" /\ answer = "none"
       THEN reader' = [reader EXCEPT ![m] = m] /\ task' = [task EXCEPT ![m].reads = m]
       ELSE UNCHANGED <<reader, task>>
    /\ UNCHANGED <<client, breaks, log, managed, session, serving, toService, rcvd, pending>>

(***************************************************************************)
(* The worker of the session and its service.                              *)
(***************************************************************************)
Selects(kind) == session = "select" /\ events # <<>> /\ Head(events).kind = kind

\* A worker that ends drops its queue and its routers, and with them the streams.
WorkerEnds ==
    /\ session' = "ended" /\ events' = <<>> /\ pending' = {}
    /\ reader' = [c \in Streams |-> None]

OpenStream ==
    /\ Selects("stream") /\ events' = Tail(events)
    /\ LET m == Head(events).of IN
       /\ pending' = pending \cup {m}
       /\ post' = [post EXCEPT ![m] = IF @ = "opening" THEN "opened" ELSE @]
    /\ UNCHANGED <<client, answer, breaks, streams, managed, session, serving, toService, rcvd>>

\* send_to_handler waits for room, whatever else happens.
TakeClientMessage ==
    /\ Selects("message") /\ session' = "handing"
    /\ UNCHANGED <<client, net, streams, managed, events, serving, toService, rcvd, pending>>

HandOver ==
    /\ session = "handing" /\ Len(toService) < SessionCapacity
    /\ toService' = Append(toService, Head(events).of)
    /\ events' = Tail(events) /\ session' = "select"
    /\ UNCHANGED <<client, net, streams, managed, serving, rcvd, pending>>

HandleClose == WorkerEnds

TakeClose ==
    /\ Selects("close") /\ HandleClose
    /\ UNCHANGED <<client, net, task, log, managed, serving, toService, rcvd>>

\* The worker's token is cancelled or its transport dropped with the service, or it fails
\* to initialize, or everybody who held its handle is gone.  The handle may stay behind.
Unheld ==
    /\ ~managed /\ events = <<>> /\ delete # "closing"
    /\ \A m \in Msgs : post[m] \in {"none", "flying"}
    /\ \A k \in Streams : task[k].st # "asking"

SessionEnds ==
    /\ WorkerEnds
    /\ \/ /\ session = "initializing" /\ Reaches(Initialize, "found", "none")
          /\ Reply(Initialize, "failed")
       \/ Running /\ ~serving /\ UNCHANGED <<answer, post>>
       \/ session = "select" /\ Unheld /\ UNCHANGED <<answer, post>>
    /\ UNCHANGED <<client, breaks, task, log, managed, serving, toService, rcvd>>

ServiceReceives ==
    /\ serving /\ toService # <<>>
    /\ rcvd' = Append(rcvd, Head(toService)) /\ toService' = Tail(toService)
    /\ UNCHANGED <<client, net, streams, managed, events, session, serving, pending>>

\* What it has not received stays in the channel while the service waits for the worker.
ServiceStops ==
    /\ serving /\ serving' = FALSE
    /\ UNCHANGED <<client, net, streams, managed, events, session, toService, rcvd, pending>>

Emit(c, e) ==
    /\ log' = [log EXCEPT ![c] = Append(@, e)]
    /\ task' = IF reader[c] = None THEN task
               ELSE [task EXCEPT ![reader[c]].wire = Append(@, <<c, Len(log[c]) + 1>>)]

\* The stream of the request is closed, its response is sent on the common one.
Respond(m) ==
    /\ session = "select" /\ m \in pending /\ Contains(rcvd, m) /\ pending' = pending \ {m}
    /\ Emit(Common, m) /\ reader' = [reader EXCEPT ![m] = None]
    /\ UNCHANGED <<client, net, managed, events, session, serving, toService, rcvd>>

Notify(c) ==
    /\ session = "select" /\ c \in {Common} \cup (pending \cap ToSet(rcvd))
    /\ Cardinality({n \in Notes : \E d \in Streams : Contains(log[d], n)}) < MaxNotes
    /\ Emit(c, CHOOSE n \in Notes : \A d \in Streams : ~Contains(log[d], n))
    /\ UNCHANGED <<client, net, reader, server>>

Worker ==
    \/ HandlerTerminated \/ Cancelled \/ TakeMessage \/ InitializeAnswered \/ HandInitialize
    \/ InitializedAnswered \/ HandshakeFailed \/ TakeServerMessage \/ Hand
    \/ AskForCommon \/ GetCommon \/ SkipCommon
    \/ \E m \in Requests : RequestAnswered(m)
Handlers ==
    \/ AnswerLost \/ PostInitialize \/ AnswerInitialize
    \/ RemoveHandle \/ SendClose \/ DeleteFails
    \/ \E m \in Msgs : PostFails(m) \/ FindSession(m) \/ AskForStream(m) \/ PushMessage(m)
Session ==
    \/ OpenStream \/ TakeClientMessage \/ HandOver \/ TakeClose \/ SessionEnds
    \/ ServiceReceives \/ ServiceStops
    \/ \E m \in Requests : Respond(m)
    \/ \E c \in Streams : Notify(c)
Next ==
    \/ Worker \/ Handlers \/ Session \/ Receive \/ Close \/ Drop
    \/ \E m \in Msgs : Send(m)
    \/ \E k \in Streams : Yield(k) \/ Break(k) \/ Retry(k) \/ Resume(k) \/ Finish(k)

Spec == Init /\ [][Next]_vars

\* The task that deletes is polled once its token is cancelled, DELETE gets its turn in the
\* queue, the worker takes what is in there and notices its token while it selects, and a
\* service that runs receives.
FairSpec ==
    /\ Spec /\ WF_vars(RemoveHandle) /\ WF_vars(SendClose) /\ WF_vars(ServiceReceives)
    /\ WF_vars(OpenStream \/ TakeClientMessage \/ HandOver \/ TakeClose)
    /\ WF_vars(session = "select" /\ SessionEnds)

(***************************************************************************)
(* Properties.                                                             *)
(***************************************************************************)
Event == Streams \X (1 .. MaxNotes + Cardinality(Requests))

\* Every variable has its type, and the channels their bounds.
TypeOK ==
    /\ service \in {"new", "initializing", "greeting", "running", "closing", "dropped"}
    /\ send \in [Msgs -> {"none", "queued", "ok", "failed"}]
    /\ {sent, fromHandler, toService, rcvd} \subseteq Seq(Msgs) /\ {sse, got} \subseteq Seq(Event)
    /\ toHandler \in Seq(Event \cup {None})
    /\ \A q \in {fromHandler, toHandler, sse} : Len(q) <= Capacity
    /\ pc \in Receiving \cup {"posting", "hand_initialize", "get_common", "hand", "ended"}
    /\ cur \in Msgs \cup Event \cup {None}
    /\ {ct, managed, serving} \subseteq BOOLEAN
    /\ delete \in {"none", "armed", "closing", "done", "failed"}
    /\ answer \in {"none", "json", "accepted", "sse", "failed"}
    /\ post \in [Msgs -> {"none", "flying", "found", "opening", "opened"}]
    /\ events \in Seq([kind : {"message", "stream", "close"}, of : Msgs \cup {None}])
    /\ Len(Queued) <= SessionCapacity /\ Len(toService) <= SessionCapacity
    /\ pending \subseteq Requests /\ breaks \in 0 .. MaxBreaks
    /\ \A k \in Streams :
        /\ task[k].st \in {"none", "open", "retrying", "asking", "done"}
        /\ task[k].wire \in Seq(Event)
        /\ task[k].last \in Event \cup {None} /\ task[k].reads \in Streams \cup {None}
    /\ session \in {"none", "initializing", "select", "handing", "ended"}
    /\ log \in [Streams -> Seq(Requests \cup Notes)] /\ reader \in [Streams -> Streams \cup {None}]

\* The worker, its channel, the POSTs and the queue of the session implement Transport: the
\* server's service gets the messages of the client once and in the order they entered the
\* channel, one is passed over only when its sender knows that it failed, and nobody is told
\* both (streamable_http_client.rs 377-457, session.rs 474-487 and 676-705).  What is
\* acknowledged may be dropped with the queue of a worker that ends, and then with all that
\* is posted after it.  Initialize is left out of the acknowledged: it is acknowledged
\* before it is posted (265-269).
Told(outcome) == {m \in Msgs : send[m] = outcome}
Sending == INSTANCE Transport WITH
    Messages <- Msgs, sent <- sent, delivered <- rcvd,
    acknowledged <- Told("ok") \ {Initialize}, failed <- Told("failed")
ImplementsTransport == Sending!Spec

\* However often streams break, and whichever task reads on, the client's service gets
\* an event of a stream only after all events before it, but for those that the cache of
\* the stream has evicted (client_side_sse.rs 148-182, session.rs 105-145).
NothingSkipped ==
    \A i \in DOMAIN got : \A n \in 1 .. got[i][2] - 1 :
        \/ n < Oldest(got[i][1])
        \/ \E j \in 1 .. i - 1 : got[j] = <<got[i][1], n>>

=============================================================================
