-------------------------- MODULE StreamableSession --------------------------
(***************************************************************************)
(* One session of the streamable HTTP server after its initialization: the *)
(* HTTP handlers that hold a SessionHandle, the SessionWorker that routes  *)
(* messages between them and the service, the service's end of the worker  *)
(* transport, and the client that reads the streams and resumes them.      *)
(*                                                                         *)
(* An element of Posts is one POST with one JSON-RPC request, or a batch of *)
(* several: PostOf says which.  A stream is named by its http request id,  *)
(* or Common for the one a GET opens.                                      *)
(***************************************************************************)
EXTENDS Integers, Sequences, FiniteSets

CONSTANTS
    Posts,      \* POSTs that carry requests
    Requests,   \* the requests
    PostOf,     \* the POST of each request
    Tokened,    \* the requests with a progress token in their _meta
    Capacity,   \* SessionConfig::channel_capacity, 16 by default
    MaxEvents,  \* bound on the messages sent on one stream (none in the code)
    Common, None

HttpIds == 0 .. Cardinality(Posts) - 1
Streams == HttpIds \cup {Common}

ASSUME StreamableSessionAssumption ==
    /\ IsFiniteSet(Posts)
    /\ PostOf \in [Requests -> Posts]
    /\ Tokened \subseteq Requests
    /\ Capacity \in Nat \ {0}
    /\ MaxEvents \in Nat
    /\ Common \notin HttpIds /\ None \notin Streams

VARIABLES
    post,       \* where the HTTP handler of each POST is
    http,       \* the http request id it was given
    nextHttp,   \* SessionWorker::next_http_request_id
    open,       \* the keys of tx_router
    resources,  \* HttpRequestWise::resources of each
    router,     \* resource_router
    cache,      \* CachedTx::cache of each stream
    queue,      \* the channel behind CachedTx::tx
    reading,    \* whether its receiver still exists
    last,       \* the last event index the client received, -1 for none
    events,     \* the channel event_tx .. event_rx
    managed,    \* the session manager's handle of the session: held, being used by DELETE, gone
    worker,     \* what SessionWorker::run is doing
    blocked,    \* the message it is trying to send, when it waits for room
    toHandler,  \* the channel to_handler_tx .. rx of WorkerTransport
    state,      \* what the service has done with each request
    service     \* whether the service loop runs, closes the transport, or has ended

httpVars == <<post, http, managed>>
routeVars == <<open, resources, router>>
streamVars == <<cache, queue, reading>>
serviceVars == <<toHandler, state, service>>
vars == <<httpVars, nextHttp, routeVars, streamVars, last, events, worker, blocked, serviceVars>>

-----------------------------------------------------------------------------
\* ResourceKey::McpRequestId and ResourceKey::ProgressToken.
IdKey(r) == <<"id", r>>
TokenKey(r) == <<"token", r>>
Resources == {"id", "token"} \X Requests
KeysOf(r) == {IdKey(r)} \cup (IF r \in Tokened THEN {TokenKey(r)} ELSE {})

\* What the service sends: the response, or error, to a request; a progress
\* notification of it; a cancellation of a request of its own under the same id;
\* anything else.
Outgoing == ({"response", "progress", "cancelled"} \X Requests) \cup {<<"other", None>>}
Message(i, m) == [index |-> i, body |-> m]
Messages == [index : Nat, body : Outgoing]

ClientMessages == ({"post"} \X Posts) \cup ({"cancelled"} \X Requests)
Events == ({"establish"} \X Posts) \cup ClientMessages
            \cup ({"closeStream"} \X HttpIds) \cup ({"close"} \X {None})
            \cup ({"resume"} \X (Streams \X Nat))

TypeOK ==
    /\ post \in [Posts -> {"new", "begun", "asking", "placed", "pushed", "failed"}]
    /\ http \in [Posts -> HttpIds \cup {None}]
    /\ nextHttp \in Nat
    /\ open \subseteq HttpIds
    /\ resources \in [HttpIds -> SUBSET Resources]
    /\ router \in [Resources -> HttpIds \cup {None}]
    /\ cache \in [Streams -> Seq(Messages)]
    /\ queue \in [Streams -> Seq(Messages)]
    /\ \A s \in Streams : Len(cache[s]) <= Capacity /\ Len(queue[s]) <= Capacity
    /\ reading \in [Streams -> BOOLEAN]
    /\ last \in [Streams -> Nat \cup {-1}]
    /\ events \in Seq(Events) /\ Len(events) <= Capacity
    /\ managed \in {"held", "deleting", "gone"}
    /\ worker \in {"selecting", "handing", "pushing", "ended"}
    /\ blocked \in {None} \cup ClientMessages \cup ({"stream"} \X (Streams \X Messages))
    /\ toHandler \in Seq(ClientMessages) /\ Len(toHandler) <= Capacity
    /\ state \in [Requests -> {"none", "working", "answered"}]
    /\ service \in {"running", "closing", "ended"}

\* create_session drops the receiver of the common channel at once.
Init ==
    /\ post = [p \in Posts |-> "new"]
    /\ http = [p \in Posts |-> None]
    /\ nextHttp = 0
    /\ open = {}
    /\ resources = [k \in HttpIds |-> {}]
    /\ router = [k \in Resources |-> None]
    /\ cache = [s \in Streams |-> <<>>]
    /\ queue = [s \in Streams |-> <<>>]
    /\ reading = [s \in Streams |-> FALSE]
    /\ last = [s \in Streams |-> -1]
    /\ events = <<>>
    /\ managed = "held"
    /\ worker = "selecting"
    /\ blocked = None
    /\ toHandler = <<>>
    /\ state = [r \in Requests |-> "none"]
    /\ service = "running"

-----------------------------------------------------------------------------
\* The HTTP handlers and the client.

Raise(e) ==
    /\ worker # "ended" /\ Len(events) < Capacity
    /\ events' = Append(events, e)
    /\ UNCHANGED <<nextHttp, routeVars, streamVars, last, worker, blocked, serviceVars>>

Move(p, from, to) == post[p] = from /\ post' = [post EXCEPT ![p] = to]

\* The handler clones the session's handle, then asks for a stream, then pushes.
StartPost(p) ==
    /\ managed = "held" /\ Move(p, "new", "begun")
    /\ UNCHANGED <<http, managed, nextHttp, routeVars, streamVars, last, events, worker,
                   blocked, serviceVars>>

AskForStream(p) ==
    /\ Move(p, "begun", "asking")
    /\ Raise(<<"establish", p>>)
    /\ UNCHANGED <<http, managed>>

PushPost(p) ==
    /\ Move(p, "placed", "pushed")
    /\ Raise(<<"post", p>>)
    /\ UNCHANGED <<http, managed>>

\* The worker is gone: the handler answers with an error.
PostFails(p) ==
    /\ worker = "ended"
    /\ \E from \in {"begun", "asking", "placed"} : Move(p, from, "failed")
    /\ UNCHANGED <<http, managed, nextHttp, routeVars, streamVars, last, events, worker,
                   blocked, serviceVars>>

Waiting(e) == \E k \in DOMAIN events : events[k] = e

\* The client cancels a request it has posted.
CancelRequest(r) ==
    /\ managed = "held" /\ post[PostOf[r]] = "pushed" /\ ~Waiting(<<"cancelled", r>>)
    /\ Raise(<<"cancelled", r>>)
    /\ UNCHANGED httpVars

\* A GET: with the id of the last event the client received, or, on the common
\* stream, without any.
ResumeIndex(s) == IF last[s] < 0 THEN 0 ELSE last[s]
Get(s) ==
    /\ managed = "held" /\ ~reading[s] /\ (s = Common \/ last[s] >= 0)
    /\ ~Waiting(<<"resume", <<s, ResumeIndex(s)>>>>)
    /\ Raise(<<"resume", <<s, ResumeIndex(s)>>>>)
    /\ UNCHANGED httpVars

\* SessionHandle::close_request_wise_channel, called by an application.
CloseStream(k) ==
    /\ managed = "held" /\ k \in open /\ ~Waiting(<<"closeStream", k>>)
    /\ Raise(<<"closeStream", k>>)
    /\ UNCHANGED httpVars

\* DELETE takes the handle out of the session manager, then closes the session.
Delete ==
    /\ managed = "held" /\ managed' = "deleting"
    /\ UNCHANGED <<post, http, nextHttp, routeVars, streamVars, last, events, worker,
                   blocked, serviceVars>>

SendClose ==
    /\ managed = "deleting" /\ managed' = "gone"
    /\ Raise(<<"close", None>>)
    /\ UNCHANGED <<post, http>>

DeleteFails ==
    /\ managed = "deleting" /\ managed' = "gone"
    /\ worker = "ended"
    /\ UNCHANGED <<post, http, nextHttp, routeVars, streamVars, last, events, worker,
                   blocked, serviceVars>>

\* The application and its session manager are dropped.
DropManager ==
    /\ managed = "held" /\ managed' = "gone"
    /\ UNCHANGED <<post, http, nextHttp, routeVars, streamVars, last, events, worker,
                   blocked, serviceVars>>

Receive(s) ==
    /\ reading[s] /\ queue[s] # <<>>
    /\ queue' = [queue EXCEPT ![s] = Tail(@)]
    /\ last' = [last EXCEPT ![s] = Head(queue[s]).index]
    /\ UNCHANGED <<httpVars, nextHttp, routeVars, cache, reading, events, worker, blocked,
                   serviceVars>>

Disconnect(s) ==
    /\ reading[s]
    /\ reading' = [reading EXCEPT ![s] = FALSE]
    /\ queue' = [queue EXCEPT ![s] = <<>>]
    /\ UNCHANGED <<httpVars, nextHttp, routeVars, cache, last, events, worker, blocked,
                   serviceVars>>

-----------------------------------------------------------------------------
\* SessionWorker.

Selecting == worker = "selecting"
Takes(e) == Selecting /\ events # <<>> /\ Head(events) = e /\ events' = Tail(events)

\* Faulty variants, each named for its mistake, precede what they replace; they
\* show that the properties below can fail.
\* Unregistering the last resource of a stream closes it.
UnregisterWithoutRouter(key) ==
    /\ resources' = [k \in HttpIds |-> IF k = router[key] /\ k \in open
                                       THEN resources[k] \ {key} ELSE resources[k]]
    /\ open' = open \ {k \in HttpIds : k = router[key] /\ resources'[k] = {}}
    /\ UNCHANGED router
Unregister(key) ==
    /\ resources' = [k \in HttpIds |-> IF k = router[key] /\ k \in open
                                       THEN resources[k] \ {key} ELSE resources[k]]
    /\ router' = [router EXCEPT ![key] = None]
    /\ open' = open \ {k \in HttpIds : k = router[key] /\ resources'[k] = {}}

\* register_request for the requests of a POST, if its stream is still there.
Register(p) ==
    LET keys == UNION {KeysOf(r) : r \in {r \in Requests : PostOf[r] = p}} IN
    IF http[p] \in open
    THEN /\ resources' = [resources EXCEPT ![http[p]] = @ \cup keys]
         /\ router' = [key \in Resources |-> IF key \in keys THEN http[p] ELSE router[key]]
         /\ UNCHANGED open
    ELSE UNCHANGED routeVars

\* context.send_to_handler: the worker waits here, and for nothing else, until
\* there is room.
Hand(m) ==
    /\ IF Len(toHandler) < Capacity
       THEN toHandler' = Append(toHandler, m) /\ UNCHANGED <<worker, blocked>>
       ELSE worker' = "handing" /\ blocked' = m /\ UNCHANGED toHandler
    /\ UNCHANGED <<state, service>>

HandContinues ==
    /\ worker = "handing" /\ Len(toHandler) < Capacity
    /\ toHandler' = Append(toHandler, blocked)
    /\ worker' = "selecting" /\ blocked' = None
    /\ UNCHANGED <<httpVars, nextHttp, routeVars, streamVars, last, events, state, service>>

WorkerEstablish(p) ==
    /\ Takes(<<"establish", p>>)
    /\ http' = [http EXCEPT ![p] = nextHttp]
    /\ nextHttp' = nextHttp + 1
    /\ open' = open \cup {nextHttp}
    /\ reading' = [reading EXCEPT ![nextHttp] = TRUE]
    /\ post' = [post EXCEPT ![p] = "placed"]
    /\ UNCHANGED <<managed, resources, router, cache, queue, last, worker, blocked, serviceVars>>

WorkerPostIfOpen(p) ==
    /\ Takes(<<"post", p>>)
    /\ Register(p)
    /\ IF http[p] \in open THEN Hand(<<"post", p>>)
       ELSE UNCHANGED <<worker, blocked, serviceVars>>
    /\ UNCHANGED <<httpVars, nextHttp, streamVars, last>>

WorkerPost(p) ==
    /\ Takes(<<"post", p>>)
    /\ Register(p)
    /\ Hand(<<"post", p>>)
    /\ UNCHANGED <<httpVars, nextHttp, streamVars, last>>

WorkerCancelled(r) ==
    /\ Takes(<<"cancelled", r>>)
    /\ Unregister(IdKey(r))
    /\ Hand(<<"cancelled", r>>)
    /\ UNCHANGED <<httpVars, nextHttp, streamVars, last>>

WorkerCloseStream(k) ==
    /\ Takes(<<"closeStream", k>>)
    /\ open' = open \ {k}
    /\ UNCHANGED <<httpVars, nextHttp, resources, router, streamVars, last, worker, blocked,
                   serviceVars>>

\* CachedTx::sync: what a new channel is filled with, from the cached message with
\* the given index on; a lower index means from the oldest.
ReplayAll(s, i) == cache[s]
ReplayAfter(s, i) ==
    LET skip == IF cache[s] = <<>> \/ i < cache[s][1].index THEN 0 ELSE i - cache[s][1].index + 1
    IN  SubSeq(cache[s], skip + 1, Len(cache[s]))
Replay(s, i) ==
    LET skip == IF cache[s] = <<>> \/ i < cache[s][1].index THEN 0 ELSE i - cache[s][1].index
    IN  SubSeq(cache[s], skip + 1, Len(cache[s]))

WorkerResume(s, i) ==
    /\ Takes(<<"resume", <<s, i>>>>)
    /\ IF s = Common \/ s \in open
       THEN /\ reading' = [reading EXCEPT ![s] = TRUE]
            /\ queue' = [queue EXCEPT ![s] = Replay(s, i)]
       ELSE UNCHANGED <<reading, queue>>
    /\ UNCHANGED <<httpVars, nextHttp, routeVars, cache, last, worker, blocked, serviceVars>>

\* CachedTx::send: the message is cached, then sent; the worker waits for a reader
\* that is there and slow, and does not notice one that is gone.
NextIndex(s) == IF cache[s] = <<>> THEN 0 ELSE cache[s][Len(cache[s])].index + 1
CachedUnbounded(s, m) == [cache EXCEPT ![s] = Append(@, m)]
Cached(s, m) ==
    LET kept == IF Len(cache[s]) >= Capacity THEN Tail(cache[s]) ELSE cache[s]
    IN  [cache EXCEPT ![s] = Append(kept, m)]

Emit(s, m) ==
    /\ cache' = Cached(s, m)
    /\ CASE ~reading[s] -> UNCHANGED <<queue, worker, blocked>>
         [] reading[s] /\ Len(queue[s]) < Capacity ->
                queue' = [queue EXCEPT ![s] = Append(@, m)] /\ UNCHANGED <<worker, blocked>>
         [] OTHER -> worker' = "pushing" /\ blocked' = <<"stream", <<s, m>>>> /\ UNCHANGED queue

\* resolve_outbound_channel.
Route(m) ==
    LET k == CASE m[1] \in {"response", "cancelled"} -> router'[IdKey(m[2])]
               [] m[1] = "progress" -> router'[TokenKey(m[2])]
               [] OTHER -> None
    IN  IF k = None THEN Common ELSE k

MaySend(m) ==
    \/ m[1] = "response" /\ state[m[2]] = "working"
    \/ m[1] = "progress" /\ m[2] \in Tokened /\ state[m[2]] # "none"
    \/ m[1] \in {"cancelled", "other"}

\* handle_server_message, after which the sender learns that the message was sent, or
\* that the stream it was for is closed.
HandleServerMessage(m) ==
    LET s == Route(m) IN
    IF s = Common \/ s \in open'
    THEN NextIndex(s) < MaxEvents /\ Emit(s, Message(NextIndex(s), m))
    ELSE UNCHANGED <<cache, queue, worker, blocked>>

WorkerFromHandler(m) ==
    /\ Selecting /\ service # "ended" /\ MaySend(m)
    /\ IF m[1] = "response"
       THEN Unregister(IdKey(m[2])) /\ state' = [state EXCEPT ![m[2]] = "answered"]
       ELSE UNCHANGED <<routeVars, state>>
    /\ HandleServerMessage(m)
    /\ UNCHANGED <<httpVars, nextHttp, reading, last, events, toHandler, service>>

BlockedStream == blocked[2][1]
BlockedMessage == blocked[2][2]

PushIfReading ==
    /\ worker = "pushing" /\ reading[BlockedStream] /\ Len(queue[BlockedStream]) < Capacity
    /\ queue' = [queue EXCEPT ![BlockedStream] = Append(@, BlockedMessage)]
    /\ worker' = "selecting" /\ blocked' = None
    /\ UNCHANGED <<httpVars, nextHttp, routeVars, cache, reading, last, events, serviceVars>>

PushContinues ==
    /\ worker = "pushing"
    /\ \/ /\ reading[BlockedStream] /\ Len(queue[BlockedStream]) < Capacity
          /\ queue' = [queue EXCEPT ![BlockedStream] = Append(@, BlockedMessage)]
       \/ ~reading[BlockedStream] /\ UNCHANGED queue
    /\ worker' = "selecting" /\ blocked' = None
    /\ UNCHANGED <<httpVars, nextHttp, routeVars, cache, reading, last, events, serviceVars>>

\* The worker returns: its channels close, the events it has not taken are dropped.
WorkerEnds ==
    /\ worker' = "ended"
    /\ open' = {}
    /\ events' = <<>>
    /\ UNCHANGED <<httpVars, nextHttp, resources, router, streamVars, last, blocked, serviceVars>>

\* Every clone of event_tx has been dropped.
HandlesDropped ==
    /\ managed = "gone"
    /\ \A p \in Posts : post[p] \notin {"begun", "asking", "placed"}
    /\ \A k \in DOMAIN events : events[k][1] \notin {"resume", "closeStream"}

WorkerClosed == Selecting /\ events # <<>> /\ Head(events)[1] = "close" /\ WorkerEnds
WorkerCancelledByTransport == Selecting /\ service # "running" /\ WorkerEnds
WorkerAbandoned == Selecting /\ events = <<>> /\ HandlesDropped /\ WorkerEnds

-----------------------------------------------------------------------------
\* The service at the other end of WorkerTransport.

ServiceReceive ==
    /\ service = "running" /\ toHandler # <<>>
    /\ toHandler' = Tail(toHandler)
    /\ state' = [r \in Requests |-> IF Head(toHandler) = <<"post", PostOf[r]>>
                                    THEN "working" ELSE state[r]]
    /\ UNCHANGED <<httpVars, nextHttp, routeVars, streamVars, last, events, worker, blocked,
                   service>>

\* It stops when it likes, or because the worker is gone, and closes the transport:
\* close cancels the worker's token and waits for it, receiving nothing more.
ServiceStops ==
    /\ service = "running"
    /\ service' = "closing"
    /\ UNCHANGED <<httpVars, nextHttp, routeVars, streamVars, last, events, worker, blocked,
                   toHandler, state>>

ServiceEnds ==
    /\ service = "closing" /\ worker = "ended"
    /\ service' = "ended"
    /\ toHandler' = <<>>
    /\ UNCHANGED <<httpVars, nextHttp, routeVars, streamVars, last, events, worker, blocked, state>>

-----------------------------------------------------------------------------
Terminated ==
    /\ service = "ended" /\ managed = "gone" /\ \A p \in Posts : post[p] \in {"new", "pushed", "failed"}
    /\ UNCHANGED vars

ClientStep ==
    \/ \E p \in Posts : StartPost(p) \/ AskForStream(p) \/ PushPost(p) \/ PostFails(p)
    \/ \E r \in Requests : CancelRequest(r)
    \/ \E s \in Streams : Get(s) \/ Receive(s) \/ Disconnect(s)
    \/ \E k \in HttpIds : CloseStream(k)
    \/ Delete \/ SendClose \/ DeleteFails \/ DropManager

WorkerEvent ==
    \/ \E p \in Posts : WorkerEstablish(p) \/ WorkerPost(p)
    \/ \E r \in Requests : WorkerCancelled(r)
    \/ \E k \in HttpIds : WorkerCloseStream(k)
    \/ \E s \in Streams : \E i \in 0 .. MaxEvents : WorkerResume(s, i)
    \/ WorkerClosed \/ WorkerAbandoned

WorkerWaits == HandContinues \/ PushContinues

Next ==
    \/ ClientStep \/ WorkerEvent \/ WorkerWaits \/ WorkerCancelledByTransport
    \/ \E m \in Outgoing : WorkerFromHandler(m)
    \/ ServiceReceive \/ ServiceStops \/ ServiceEnds \/ Terminated

Spec == Init /\ [][Next]_vars

\* The worker, the handlers of HTTP requests and the service are polled while they
\* can go on, tokio::select! passes over no branch for ever, and a client that is
\* connected reads.
Fairness ==
    /\ WF_vars(WorkerWaits) /\ SF_vars(WorkerEvent) /\ SF_vars(WorkerCancelledByTransport)
    /\ WF_vars(ServiceReceive) /\ WF_vars(ServiceEnds)
    /\ SF_vars(SendClose) /\ WF_vars(DeleteFails)
    /\ \A p \in Posts : SF_vars(AskForStream(p)) /\ SF_vars(PushPost(p)) /\ WF_vars(PostFails(p))
    /\ \A s \in Streams : WF_vars(Receive(s))

FairSpec == Spec /\ Fairness

-----------------------------------------------------------------------------
\* The two halves of the routing table agree: an entry of resource_router for a
\* stream that is open is among the resources that keep the stream open, and the
\* other way round (216-234).  Otherwise a stream would close under a request that
\* is still running, or never.
RoutesAgree ==
    \A k \in open, key \in Resources : router[key] = k <=> key \in resources[k]

\* A stream that is being read holds every cached message the client has not
\* received yet: nothing is lost on the way into a channel, between the cache and
\* the channel that resume puts in its place, or by a reader that left (107-145).
NothingLost ==
    \A s \in Streams : reading[s] =>
        \A k \in DOMAIN cache[s] :
            cache[s][k].index > last[s] =>
                \/ \E j \in DOMAIN queue[s] : queue[s][j] = cache[s][k]
                \/ worker = "pushing" /\ blocked = <<"stream", <<s, cache[s][k]>>>>

\* Whoever reads a stream, leaves and resumes gets its events in order, each at most once
\* but for the last one again, and misses only what the cache has evicted since: the
\* caches and channels of a session implement EventLog.
Oldest(s) == IF cache[s] = <<>> THEN 0 ELSE cache[s][1].index
Logged == INSTANCE EventLog WITH
    end <- [s \in Streams |-> NextIndex(s)],
    oldest <- [s \in Streams |-> Oldest(s)],
    last <- last
ImplementsEventLog == Logged!Spec

\* A message that was posted reaches the service, unless the session ends.
PostsArrive ==
    \A r \in Requests :
        post[PostOf[r]] = "pushed" ~> state[r] # "none" \/ worker = "ended" \/ service # "running"

\* Once all the handles are dropped the worker ends, while the service runs.
DropEndsWorker == HandlesDropped ~> worker = "ended" \/ service # "running"

\* "after all event_tx drop, inner task will be terminated" (session.rs 454).
DropTerminates == HandlesDropped ~> worker = "ended"

\* "the corresponded message from server will be sent through this channel"
\* (session.rs 489-490).
ResponseOnItsStream ==
    \A r \in Requests, s \in Streams : \A k \in DOMAIN cache[s] :
        cache[s][k].body = <<"response", r>> => s = http[PostOf[r]]
=============================================================================
