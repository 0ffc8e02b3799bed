--------------------------------- MODULE Sse ---------------------------------
(***************************************************************************)
(* The SSE transport: SseClientTransport with its reconnecting stream      *)
(* (transport/sse_client.rs, common/client_side_sse.rs) against SseServer  *)
(* (transport/sse_server.rs).  Every GET opens a new session with a        *)
(* service of its own; the client posts to the endpoint of the first one   *)
(* for good.                                                               *)
(***************************************************************************)
EXTENDS Naturals, Sequences, FiniteSets

CONSTANTS
    Posts,          \* requests the client posts
    MaxSessions,    \* bound on the GETs that reach the server
    Capacity,       \* places of the channels of a session, 64 in the code
    MaxTimes,       \* max_times of the retry policy, None when it has none
    Width,          \* retries after which 2u32.pow overflows, 32 in the code
    None

Sessions == 1 .. MaxSessions
Endpoint == "endpoint"
Retries == 0 .. (IF MaxTimes = None THEN Width ELSE MaxTimes + 1)

ASSUME SseAssumption ==
    /\ MaxSessions \in Nat /\ Capacity \in Nat \ {0} /\ Width \in Nat
    /\ MaxTimes \in Nat \cup {None}
    /\ None \notin Nat /\ Endpoint \notin Posts

VARIABLES
    st,             \* the client: SseAutoReconnectStreamState, before and after it
    times,          \* retry_times
    failed,         \* attempts that failed since the stream was last connected
    stream,         \* the session whose stream the client reads
    endpoint,       \* the session of message_endpoint
    post,           \* how far each POST is
    got,            \* requests whose answer the client received
    used,           \* sessions the server has made
    txs,            \* App::txs: sessions a POST finds
    conn,           \* the response stream of a session is held by the HTTP server
    cleanup,        \* the task of sse_handler that waits for to_client_tx_clone.closed()
    removal,        \* the task poll_close spawned
    svc,            \* the service of a session
    toService,      \* from_client channel
    toClient,       \* to_client channel and what is on the way
    pending,        \* requests the service works on
    accepting       \* SseServer is alive and takes transports

client == <<st, times, failed, stream, endpoint>>
server == <<used, txs, conn, cleanup, removal, svc, toService, pending, accepting>>
vars == <<client, post, got, toClient, server>>

Init ==
    /\ st = "opening" /\ times = 0 /\ failed = 0 /\ stream = None /\ endpoint = None
    /\ post = [m \in Posts |-> "none"] /\ got = {}
    /\ used = 0 /\ txs = {} /\ accepting = TRUE
    /\ conn = [s \in Sessions |-> FALSE]
    /\ cleanup = [s \in Sessions |-> "none"] /\ removal = [s \in Sessions |-> FALSE]
    /\ svc = [s \in Sessions |-> "none"] /\ pending = [s \in Sessions |-> {}]
    /\ toService = [s \in Sessions |-> <<>>] /\ toClient = [s \in Sessions |-> <<>>]

(***************************************************************************)
(* The reconnecting stream.                                                *)
(***************************************************************************)
Attached == st \in {"starting", "connected"}
Running == st \in {"connected", "retrying", "waiting"}

\* SseRetryPolicy::retry; a debug build panics when the backoff overflows, a release
\* build goes on with an interval of zero.
Policy(k) ==
    IF MaxTimes # None /\ k >= MaxTimes THEN {"terminated"}
    ELSE IF k >= Width THEN {"panicked", "waiting"}
    ELSE {"waiting"}

CountSoFar == times
StartCount == 0

Taken == toClient' = [toClient EXCEPT ![stream] = Tail(@)]

\* start_with_client reads until the endpoint event, whatever comes before it.
StartEvent ==
    /\ st = "starting" /\ conn[stream] /\ toClient[stream] # <<>> /\ Taken
    /\ IF Head(toClient[stream]) = Endpoint
       THEN st' = "connected" /\ endpoint' = stream
       ELSE UNCHANGED <<st, endpoint>>
    /\ UNCHANGED <<times, failed, stream, post, got, server>>

\* An item the stream yields: an endpoint event is not JSON-RPC and is skipped.
NextEvent ==
    /\ st = "connected" /\ conn[stream] /\ toClient[stream] # <<>> /\ Taken
    /\ got' = got \cup ({Head(toClient[stream])} \ {Endpoint})
    /\ UNCHANGED <<client, post, server>>

\* Some(Err): retry_connection is called at once, with a count of zero.
StreamError ==
    /\ Attached
    /\ st' = IF st = "connected" THEN "retrying" ELSE "broken"
    /\ times' = StartCount /\ stream' = None
    /\ UNCHANGED <<failed, endpoint, post, got, toClient, server>>

\* None, or the service above closes the transport: the stream is dropped, and a clean
\* end is no reason to reconnect.
StreamEnds ==
    /\ Attached \/ Running
    /\ st' = IF st = "starting" THEN "broken" ELSE "ended"
    /\ stream' = None
    /\ UNCHANGED <<times, failed, endpoint, post, got, toClient, server>>

AttemptFailed ==
    IF st = "opening"
    THEN st' = "broken" /\ UNCHANGED <<times, failed, stream, endpoint>>
    ELSE /\ times + 1 \in Retries
         /\ times' = times + 1 /\ failed' = failed + 1
         /\ st' \in Policy(times')
         /\ UNCHANGED <<stream, endpoint>>

ConnectFails ==
    /\ st \in {"opening", "retrying"} /\ AttemptFailed
    /\ UNCHANGED <<post, got, toClient, server>>

SleepEnds ==
    /\ st = "waiting" /\ st' = "retrying"
    /\ UNCHANGED <<times, failed, stream, endpoint, post, got, toClient, server>>

(***************************************************************************)
(* sse_handler: the session is entered, its transport handed to the        *)
(* server, the cleanup task spawned, and the response begins with the      *)
(* endpoint.  The response may fail to reach the client.                   *)
(***************************************************************************)
Enter(s) == txs' = txs \cup {s}

SseHandler ==
    /\ st \in {"opening", "retrying"} /\ used < MaxSessions /\ accepting
    /\ LET s == used + 1 IN
       /\ used' = s /\ Enter(s)
       /\ conn' = [conn EXCEPT ![s] = TRUE]
       /\ cleanup' = [cleanup EXCEPT ![s] = "waiting"]
       /\ svc' = [svc EXCEPT ![s] = "queued"]
       /\ toClient' = [toClient EXCEPT ![s] = <<Endpoint>>]
       /\ \/ /\ st' = IF st = "opening" THEN "starting" ELSE "connected"
             /\ stream' = s /\ failed' = 0 /\ UNCHANGED <<times, endpoint>>
          \/ AttemptFailed
    /\ UNCHANGED <<post, got, removal, toService, pending, accepting>>

\* The transport cannot be handed out: the entry stays, nothing cleans it up.
SseHandlerRefused ==
    /\ st \in {"opening", "retrying"} /\ used < MaxSessions /\ ~accepting
    /\ used' = used + 1 /\ Enter(used') /\ AttemptFailed
    /\ UNCHANGED <<post, got, toClient, conn, cleanup, removal, svc, toService, pending, accepting>>

(***************************************************************************)
(* post_event_handler clones the sender it finds, then sends; the client   *)
(* posts in tasks of their own.                                            *)
(***************************************************************************)
SetPost(m, s) == post' = [post EXCEPT ![m] = s]

Send(m) ==
    /\ Running /\ post[m] = "none" /\ SetPost(m, "sent")
    /\ UNCHANGED <<client, got, toClient, server>>

FindSession(m) ==
    /\ post[m] = "sent"
    /\ SetPost(m, IF endpoint \in txs THEN "holding" ELSE "not_found")
    /\ UNCHANGED <<client, got, toClient, server>>

NoRoomNeeded(q) == TRUE
Room(q) == Len(q) < Capacity

Receiving(s) == svc[s] \in {"queued", "running"}

PostMessage(m) ==
    /\ post[m] = "holding"
    /\ \/ /\ Receiving(endpoint) /\ Room(toService[endpoint])
          /\ toService' = [toService EXCEPT ![endpoint] = Append(@, m)] /\ SetPost(m, "accepted")
       \/ ~Receiving(endpoint) /\ SetPost(m, "gone") /\ UNCHANGED toService
    /\ UNCHANGED <<client, got, toClient, used, txs, conn, cleanup, removal, svc, pending, accepting>>

\* The connection of the POST breaks; its handler is dropped.
PostFails(m) ==
    /\ post[m] \in {"sent", "holding"} /\ SetPost(m, "lost")
    /\ UNCHANGED <<client, got, toClient, server>>

(***************************************************************************)
(* The service of a session, run by with_service.                          *)
(***************************************************************************)
NextTransport(s) ==
    /\ svc[s] = "queued"
    /\ svc' = [svc EXCEPT ![s] = IF accepting THEN "running" ELSE "ended"]
    /\ UNCHANGED <<client, post, got, toClient, used, txs, conn, cleanup, removal, toService, pending, accepting>>

ServiceReceive(s) ==
    /\ svc[s] = "running" /\ toService[s] # <<>>
    /\ toService' = [toService EXCEPT ![s] = Tail(@)]
    /\ pending' = [pending EXCEPT ![s] = @ \cup {Head(toService[s])}]
    /\ UNCHANGED <<client, post, got, toClient, used, txs, conn, cleanup, removal, svc, accepting>>

TryReply(s, m) ==
    toClient' = IF conn[s] /\ Room(toClient[s]) THEN [toClient EXCEPT ![s] = Append(@, m)]
                                               ELSE toClient
Reply(s, m) ==
    \/ conn[s] /\ Room(toClient[s]) /\ toClient' = [toClient EXCEPT ![s] = Append(@, m)]
    \/ ~conn[s] /\ UNCHANGED toClient

ServiceReply(s, m) ==
    /\ svc[s] = "running" /\ m \in pending[s] /\ Reply(s, m)
    /\ pending' = [pending EXCEPT ![s] = @ \ {m}]
    /\ UNCHANGED <<client, post, got, used, txs, conn, cleanup, removal, svc, toService, accepting>>

\* Every sender of the from_client channel is dropped, and it is empty.
InputEnded(s) ==
    /\ s \notin txs /\ toService[s] = <<>>
    /\ ~ \E m \in Posts : post[m] = "holding" /\ endpoint = s

\* poll_close spawns the removal; a service whose handshake fails drops the transport.
End(s) ==
    /\ svc[s] = "running" /\ svc' = [svc EXCEPT ![s] = "ended"]
    /\ removal' \in {removal, [removal EXCEPT ![s] = TRUE]}
    /\ pending' = [pending EXCEPT ![s] = {}] /\ toService' = [toService EXCEPT ![s] = <<>>]
    /\ UNCHANGED <<client, post, got, toClient, used, txs, conn, cleanup, accepting>>

ServiceInputEnds(s) == InputEnded(s) /\ End(s)
ServiceStops(s) == ~InputEnded(s) /\ End(s)

(***************************************************************************)
(* What ends a session.                                                    *)
(***************************************************************************)
Disconnect(s) ==
    /\ conn[s] /\ conn' = [conn EXCEPT ![s] = FALSE]
    /\ toClient' = [toClient EXCEPT ![s] = <<>>]
    /\ UNCHANGED <<client, post, got, used, txs, cleanup, removal, svc, toService, pending, accepting>>

ClosedWithService(s) == ~conn[s] /\ svc[s] = "ended"
Closed(s) == ~conn[s]

Cleanup(s) ==
    /\ cleanup[s] = "waiting" /\ Closed(s)
    /\ cleanup' = [cleanup EXCEPT ![s] = "done"] /\ txs' = txs \ {s}
    /\ UNCHANGED <<client, post, got, toClient, used, conn, removal, svc, toService, pending, accepting>>

RemoveNewest(s) == txs' = txs \ {used}
Remove(s) == txs' = txs \ {s}

Removal(s) ==
    /\ removal[s] /\ removal' = [removal EXCEPT ![s] = FALSE] /\ Remove(s)
    /\ UNCHANGED <<client, post, got, toClient, used, conn, cleanup, svc, toService, pending, accepting>>

DropServer ==
    /\ accepting /\ accepting' = FALSE
    /\ UNCHANGED <<client, post, got, toClient, used, txs, conn, cleanup, removal, svc, toService, pending>>

ClientTurns == StartEvent \/ NextEvent \/ StreamError \/ StreamEnds \/ ConnectFails \/ SleepEnds
Handlers ==
    \/ SseHandler \/ SseHandlerRefused
    \/ \E m \in Posts : Send(m) \/ FindSession(m) \/ PostMessage(m) \/ PostFails(m)
Service(s) ==
    \/ NextTransport(s) \/ ServiceReceive(s) \/ (\E m \in Posts : ServiceReply(s, m))
    \/ ServiceInputEnds(s) \/ ServiceStops(s)
Next ==
    \/ ClientTurns \/ Handlers \/ DropServer
    \/ \E s \in Sessions : Service(s) \/ Disconnect(s) \/ Cleanup(s) \/ Removal(s)

Spec == Init /\ [][Next]_vars

\* Tasks of the server that are ready are polled, and a running service reads its input
\* and answers; a client that is connected reads.
Fairness ==
    /\ \A m \in Posts : WF_vars(FindSession(m) \/ PostMessage(m))
    /\ \A s \in Sessions :
        /\ WF_vars(NextTransport(s) \/ ServiceReceive(s) \/ ServiceInputEnds(s))
        /\ WF_vars(Cleanup(s)) /\ WF_vars(Removal(s))
        /\ \A m \in Posts : WF_vars(ServiceReply(s, m))
    /\ WF_vars(StartEvent) /\ WF_vars(NextEvent)

FairSpec == Spec /\ Fairness

(***************************************************************************)
(* Properties.                                                             *)
(***************************************************************************)
\* Every variable has its type.
TypeOK ==
    /\ st \in {"opening", "starting", "connected", "retrying", "waiting", "ended", "terminated",
               "panicked", "broken"}
    /\ times \in Retries /\ failed \in Nat
    /\ {stream, endpoint} \subseteq Sessions \cup {None}
    /\ post \in [Posts -> {"none", "sent", "holding", "accepted", "not_found", "gone", "lost"}]
    /\ got \subseteq Posts /\ used \in 0 .. MaxSessions /\ txs \subseteq 1 .. used
    /\ conn \in [Sessions -> BOOLEAN] /\ removal \in [Sessions -> BOOLEAN]
    /\ cleanup \in [Sessions -> {"none", "waiting", "done"}]
    /\ svc \in [Sessions -> {"none", "queued", "running", "ended"}]
    /\ pending \in [Sessions -> SUBSET Posts] /\ accepting \in BOOLEAN
    /\ \A s \in Sessions :
        /\ toService[s] \in Seq(Posts) /\ Len(toService[s]) <= Capacity
        /\ toClient[s] \in Seq(Posts \cup {Endpoint}) /\ Len(toClient[s]) <= Capacity

\* A client gives up after exactly as many failures in a row as its policy allows, at
\* least one, however often it reconnected before (client_side_sse.rs 173-182, 196-214).
GivesUpAfterMaxTimes ==
    st = "terminated" => failed = (IF MaxTimes = 0 THEN 1 ELSE MaxTimes)

\* As long as the stream of a session is open and its service there, a POST finds it:
\* neither cleanup removes an entry early, nor another session's (sse_server.rs 132-142, 184-200).
OpenSessionIsFound ==
    \A s \in Sessions : conn[s] /\ Receiving(s) => s \in txs

\* What a session accepted is answered on its stream, however full the channels are,
\* unless stream, service or client ends meanwhile.
AcceptedIsAnswered ==
    \A m \in Posts :
        post[m] = "accepted" ~>
            m \in got \/ stream = None \/ stream # endpoint \/ ~conn[endpoint] \/ svc[endpoint] = "ended"

\* A session whose stream is gone is removed and its service ends, although POSTs may
\* still hold its sender and both cleanup tasks run (sse_server.rs 77-82, 132-142, 184-200).
DroppedSessionEnds ==
    \A s \in Sessions :
        (cleanup[s] # "none" /\ ~conn[s]) ~> (s \notin txs /\ svc[s] = "ended")
=============================================================================
