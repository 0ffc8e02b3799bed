------------------------------- MODULE Handshake -------------------------------
(***************************************************************************)
(* A client and a server from their first message on: the initialization   *)
(* of service/client.rs and service/server.rs, or serve_directly without   *)
(* it, then the typed calls of Peer against the dispatch of the handlers.   *)
(* A message travels as the fields of its JSON, and the receiver takes the *)
(* first variant of its untagged enums that fits (model.rs).  What the     *)
(* loop does with concurrent messages is module ServiceLoop.               *)
(***************************************************************************)
EXTENDS Naturals, Sequences

CONSTANTS
    Client, Server, None,
    Versions,       \* protocol versions, in the order their strings compare
    Pages,          \* pages of a list
    Width,          \* number of request ids, 2^32 in the code
    MaxCalls,       \* bound on the calls of a side
    MaxStrays       \* bound on the messages that come from elsewhere than this SDK

Sides == {Client, Server}
Other(p) == IF p = Client THEN Server ELSE Client

ASSUME HandshakeAssumption ==
    /\ Client # Server /\ Versions \subseteq Nat /\ None \notin Versions
    /\ Pages \in Nat \ {0} /\ Width \in Nat \ {0} /\ {MaxCalls, MaxStrays} \subseteq Nat

(***************************************************************************)
(* The kinds of messages, with the fields their decoding requires.         *)
(***************************************************************************)
Lists ==
    [m \in {"prompts/list", "resources/list", "resources/templates/list", "tools/list"} |->
        CASE m = "prompts/list" -> "ListPromptsResult" [] m = "resources/list" -> "ListResourcesResult"
          [] m = "resources/templates/list" -> "ListResourceTemplatesResult" [] OTHER -> "ListToolsResult"]

ClientRequest ==
    [m \in {"ping", "initialize", "completion/complete", "logging/setLevel", "prompts/get", "prompts/list",
            "resources/list", "resources/templates/list", "resources/read", "resources/subscribe",
            "resources/unsubscribe", "tools/call", "tools/list"} |->
        CASE m = "initialize" -> {"protocolVersion", "capabilities", "clientInfo"}
          [] m = "completion/complete" -> {"ref", "argument"} [] m = "logging/setLevel" -> {"level"}
          [] m \in {"prompts/get", "tools/call"} -> {"name"}
          [] m \in {"resources/read", "resources/subscribe", "resources/unsubscribe"} -> {"uri"}
          [] OTHER -> {}]

ServerRequest ==
    [m \in {"ping", "roots/list", "sampling/createMessage"} |->
        IF m = "sampling/createMessage" THEN {"messages", "maxTokens"} ELSE {}]

ClientNotification ==
    [m \in {"notifications/cancelled", "notifications/progress", "notifications/initialized",
            "notifications/roots/list_changed"} |->
        CASE m = "notifications/cancelled" -> {"requestId"}
          [] m = "notifications/progress" -> {"progressToken", "progress"} [] OTHER -> {}]

ServerNotification ==
    [m \in {"notifications/cancelled", "notifications/progress", "notifications/message",
            "notifications/resources/updated", "notifications/resources/list_changed",
            "notifications/tools/list_changed", "notifications/prompts/list_changed"} |->
        CASE m = "notifications/cancelled" -> {"requestId"}
          [] m = "notifications/progress" -> {"progressToken", "progress"}
          [] m = "notifications/message" -> {"level", "data"}
          [] m = "notifications/resources/updated" -> {"uri"} [] OTHER -> {}]

ResultFields ==
    [k \in {"InitializeResult", "CompleteResult", "GetPromptResult", "ListPromptsResult",
            "ListResourcesResult", "ListResourceTemplatesResult", "ReadResourceResult", "CallToolResult",
            "ListToolsResult", "CreateMessageResult", "ListRootsResult", "EmptyResult"} |->
        CASE k = "InitializeResult" -> {"protocolVersion", "capabilities", "serverInfo"}
          [] k = "CompleteResult" -> {"completion"} [] k = "GetPromptResult" -> {"messages"}
          [] k = "ListPromptsResult" -> {"prompts"} [] k = "ListResourcesResult" -> {"resources"}
          [] k = "ListResourceTemplatesResult" -> {"resourceTemplates"}
          [] k = "ReadResourceResult" -> {"contents"} [] k = "CallToolResult" -> {"content"}
          [] k = "ListToolsResult" -> {"tools"} [] k = "CreateMessageResult" -> {"model", "role", "content"}
          [] k = "ListRootsResult" -> {"roots"} [] OTHER -> {}]

ServerResults ==
    <<"InitializeResult", "CompleteResult", "GetPromptResult", "ListPromptsResult",
      "ListResourcesResult", "ListResourceTemplatesResult", "ReadResourceResult",
      "CallToolResult", "ListToolsResult", "EmptyResult">>
ClientResults == <<"CreateMessageResult", "ListRootsResult", "EmptyResult">>

Requests(p) == IF p = Client THEN ClientRequest ELSE ServerRequest
Notifications(p) == IF p = Client THEN ClientNotification ELSE ServerNotification

ASSUME NoneIsNothing ==
    /\ None \notin Nat
    /\ \A p \in Sides : None \notin DOMAIN Requests(p) \cup DOMAIN Notifications(p)
    /\ \A k \in DOMAIN ResultFields : None # ResultFields[k]

\* Untagged: the first variant that fits; an empty result fits every object.
EmptyFirst(p) == <<"EmptyResult">> \o (IF p = Client THEN ClientResults ELSE ServerResults)
ResultOrder(p) == IF p = Client THEN ClientResults ELSE ServerResults

ResultKind(p, fields) ==
    LET order == ResultOrder(p)
        n == CHOOSE n \in DOMAIN order :
                /\ ResultFields[order[n]] \subseteq fields
                /\ \A k \in 1 .. n - 1 : ~ (ResultFields[order[k]] \subseteq fields)
    IN order[n]

(***************************************************************************)
(* JSON and back.  value stands for what the properties look at: a         *)
(* protocol version or the number of a page.                               *)
(***************************************************************************)
Json(id, method, params, result, value) ==
    [id |-> id, method |-> method, params |-> params, result |-> result, value |-> value,
     error |-> FALSE]

RequestOf(p, id, m, v) == Json(id, m, Requests(p)[m], None, v)
NotificationOf(p, m) == Json(None, m, Notifications(p)[m], None, None)
ResponseOf(id, kind, v) == Json(id, None, None, ResultFields[kind], v)
ErrorOf(id) == [Json(id, None, None, None, None) EXCEPT !.error = TRUE]

\* A number beyond u32 is cut off.
IdOf(w) == IF w.id = None THEN None ELSE w.id % Width

\* The message p sent, as the other side reads it.
Decode(p, w) ==
    LET Is(kind, name) == [kind |-> kind, id |-> IdOf(w), name |-> name, value |-> w.value]
    IN CASE w.id # None /\ w.method \in DOMAIN Requests(p) /\ Requests(p)[w.method] \subseteq w.params
                -> Is("request", w.method)
         [] w.id # None /\ w.result # None -> Is("response", ResultKind(p, w.result))
         [] w.method \in DOMAIN Notifications(p) /\ Notifications(p)[w.method] \subseteq w.params
                -> Is("notification", w.method)
         [] w.id # None /\ w.error -> Is("error", None)
         [] OTHER -> Is("undecodable", None)

\* What Service::handle_request wraps the answer of the handler in.
HandledByClient(m) ==
    CASE m = "roots/list" -> "ListRootsResult" [] m = "sampling/createMessage" -> "CreateMessageResult"
      [] OTHER -> "EmptyResult"

HandledAs(m) ==
    CASE m \in DOMAIN ServerRequest -> HandledByClient(m) [] m \in DOMAIN Lists -> Lists[m]
      [] m = "initialize" -> "InitializeResult" [] m = "completion/complete" -> "CompleteResult"
      [] m = "prompts/get" -> "GetPromptResult" [] m = "resources/read" -> "ReadResourceResult"
      [] m = "tools/call" -> "CallToolResult"
      [] OTHER -> "EmptyResult"

\* The methods of Peer, and the result each expects.
Expected ==
    [m \in (DOMAIN ClientRequest \cup DOMAIN ServerRequest) \ {"ping", "initialize"} |->
        IF m \in {"logging/setLevel", "resources/subscribe", "resources/unsubscribe"}
        THEN "EmptyResult" ELSE HandledAs(m)]
Methods(p) == DOMAIN Requests(p) \cap DOMAIN Expected

VARIABLES
    version,        \* the version get_info of a side states
    phase,
    direct,         \* the sides served without initialization
    info,           \* the version in the peer_info of a side
    in,             \* what is on the way to a side
    initId,         \* id of the initialize request the server answers
    nextId, call, result,
    calls, strays

setting == <<version, direct>>
talk == <<nextId, call, result, calls>>
vars == <<setting, phase, info, in, initId, talk, strays>>

Each(v) == [p \in Sides |-> v]

Init ==
    /\ version \in [Sides -> Versions] /\ direct = {} /\ phase = Each("new") /\ info = Each(None)
    /\ in = Each(<<>>) /\ initId = None /\ nextId = Each(0) /\ call = Each(None)
    /\ result = Each("none") /\ calls = Each(0) /\ strays = 0

Become(p, s) == phase' = [phase EXCEPT ![p] = s]
Transmit(p, w) == in' = [in EXCEPT ![Other(p)] = Append(@, w)]
Reply(p, w) == in' = [in EXCEPT ![p] = Tail(@), ![Other(p)] = Append(@, w)]
Take(p) == in' = [in EXCEPT ![p] = Tail(@)]
Next1(p) == Decode(Other(p), Head(in[p]))
Readable(p) == in[p] # <<>> /\ Next1(p).kind # "undecodable"
Over == {"failed", "closed"}

(***************************************************************************)
(* The handshake.                                                          *)
(***************************************************************************)
ServeDirectly(p) ==
    /\ phase[p] = "new" /\ Become(p, "running") /\ direct' = direct \cup {p}
    /\ \E known \in {None, version[Other(p)]} : info' = [info EXCEPT ![p] = known]
    /\ UNCHANGED <<version, in, initId, talk, strays>>

SendInitialize ==
    /\ phase[Client] = "new" /\ Become(Client, "waiting")
    /\ Transmit(Client, RequestOf(Client, nextId[Client], "initialize", version[Client]))
    /\ nextId' = [nextId EXCEPT ![Client] = @ + 1]
    /\ UNCHANGED <<setting, info, initId, call, result, calls, strays>>

ExpectResponse ==
    /\ phase[Client] = "waiting" /\ Readable(Client)
    /\ LET d == Next1(Client) IN
       IF d.kind = "response" /\ d.id = 0 /\ d.name = "InitializeResult"
       THEN /\ Become(Client, "running") /\ info' = [info EXCEPT ![Client] = d.value]
            /\ Reply(Client, NotificationOf(Client, "notifications/initialized"))
       ELSE Become(Client, "failed") /\ Take(Client) /\ UNCHANGED info
    /\ UNCHANGED <<setting, initId, talk, strays>>

ExpectRequest ==
    /\ phase[Server] = "new" /\ Readable(Server) /\ Take(Server)
    /\ LET d == Next1(Server) IN
       IF d.kind = "request" /\ d.name = "initialize"
       THEN /\ Become(Server, "initializing") /\ initId' = d.id
            /\ info' = [info EXCEPT ![Server] = d.value]
       ELSE Become(Server, "failed") /\ UNCHANGED <<initId, info>>
    /\ UNCHANGED <<setting, talk, strays>>

OwnVersion(theirs, own) == own
Negotiate(theirs, own) == IF theirs < own THEN theirs ELSE own

\* The handler of initialize answers, fails, or answers something else.
AnswerInitialize ==
    /\ phase[Server] = "initializing"
    /\ \/ /\ Become(Server, "expecting")
          /\ Transmit(Server, ResponseOf(initId, "InitializeResult", Negotiate(info[Server], version[Server])))
       \/ Become(Server, "failed") /\ Transmit(Server, ErrorOf(initId))
       \/ Become(Server, "failed") /\ UNCHANGED in
    /\ UNCHANGED <<setting, info, initId, talk, strays>>

ExpectNotification ==
    /\ phase[Server] = "expecting" /\ Readable(Server) /\ Take(Server)
    /\ LET d == Next1(Server) IN
       Become(Server, IF d.kind = "notification" /\ d.name = "notifications/initialized"
                      THEN "greeted" ELSE "failed")
    /\ UNCHANGED <<setting, info, initId, talk, strays>>

OnInitialized ==
    /\ phase[Server] = "greeted" /\ Become(Server, "running")
    /\ UNCHANGED <<setting, info, in, initId, talk, strays>>

\* A handler that calls its peer before the loop runs waits for ever.
CallTooEarly ==
    /\ phase[Server] \in {"initializing", "greeted"} /\ Become(Server, "stuck")
    /\ UNCHANGED <<setting, info, in, initId, talk, strays>>

(***************************************************************************)
(* The loop, as far as one call at a time shows it.                        *)
(***************************************************************************)
Call(p, m) ==
    /\ phase[p] = "running" /\ call[p] = None /\ calls[p] < MaxCalls
    /\ Transmit(p, RequestOf(p, nextId[p], m, 1))
    /\ call' = [call EXCEPT ![p] = [id |-> nextId[p], method |-> m, page |-> 1]]
    /\ result' = [result EXCEPT ![p] = "none"]
    /\ nextId' = [nextId EXCEPT ![p] = @ + 1] /\ calls' = [calls EXCEPT ![p] = @ + 1]
    /\ UNCHANGED <<setting, phase, info, initId, strays>>

\* set_peer_info of a server that was not initialized; a page says whether another follows.
HandleRequest(p) ==
    /\ phase[p] = "running" /\ Readable(p)
    /\ LET d == Next1(p)
           answer == IF d.name = "initialize" THEN version[p] ELSE d.value
       IN /\ d.kind = "request"
          /\ Reply(p, ResponseOf(d.id, HandledAs(d.name), answer)) \/ Reply(p, ErrorOf(d.id))
          /\ info' = IF d.name = "initialize" /\ info[p] = None THEN [info EXCEPT ![p] = d.value] ELSE info
    /\ UNCHANGED <<setting, phase, initId, talk, strays>>

HandleNotification(p) ==
    /\ phase[p] = "running" /\ Readable(p) /\ Next1(p).kind = "notification" /\ Take(p)
    /\ UNCHANGED <<setting, phase, info, initId, talk, strays>>

\* Whether the page of a list names the cursor of another.
AskedAgain(c) == c.method \in DOMAIN Lists
MorePages(c) == c.method \in DOMAIN Lists /\ c.page < Pages

Return(p, r) ==
    /\ call' = [call EXCEPT ![p] = None] /\ result' = [result EXCEPT ![p] = r]
    /\ Take(p) /\ UNCHANGED nextId

\* list_all asks for the next page, a single list does not.
HandleResult(p) ==
    /\ phase[p] = "running" /\ Readable(p) /\ Next1(p).kind \in {"response", "error"}
    /\ LET d == Next1(p)
           c == call[p]
       IN IF c = None \/ c.id # d.id THEN Take(p) /\ UNCHANGED <<nextId, call, result>>
          ELSE IF d.kind = "error" THEN Return(p, "error")
          ELSE IF d.name # Expected[c.method] THEN Return(p, "unexpected")
          ELSE \/ Return(p, "ok")
               \/ /\ MorePages(c)
                  /\ Reply(p, RequestOf(p, nextId[p], c.method, c.page + 1))
                  /\ call' = [call EXCEPT ![p].id = nextId[p], ![p].page = @ + 1]
                  /\ nextId' = [nextId EXCEPT ![p] = @ + 1] /\ UNCHANGED result
    /\ UNCHANGED <<setting, phase, info, initId, calls, strays>>

(***************************************************************************)
(* What goes wrong.                                                        *)
(***************************************************************************)
Strays(p) ==
    {Json(Width, "unknown", {}, None, None), Json(2 * Width - 1, "ping", {}, None, None)}
    \cup IF p = Server THEN {Json(1, "tools/call", {}, None, None), Json(1, "roots/list", {}, None, None)}
         ELSE {NotificationOf(Server, "notifications/message")}

Stray(p) ==
    /\ strays < MaxStrays /\ strays' = strays + 1
    /\ \E w \in Strays(p) : in' = [in EXCEPT ![p] = Append(@, w)]
    /\ UNCHANGED <<setting, phase, info, initId, talk>>

Listening(p) ==
    phase[p] = "running" \/ (p = Client /\ phase[p] = "waiting")
    \/ (p = Server /\ phase[p] \in {"new", "expecting"})

Finish(p) == Become(p, IF phase[p] = "running" THEN "closed" ELSE "failed")

\* A transport skips what it cannot decode, or ends there.
Undecodable(p) ==
    /\ Listening(p) /\ in[p] # <<>> /\ ~Readable(p) /\ Take(p)
    /\ Finish(p) \/ UNCHANGED phase
    /\ UNCHANGED <<setting, info, initId, talk, strays>>

InputEnds(p) ==
    /\ Listening(p) /\ in[p] = <<>> /\ phase[Other(p)] \in Over /\ Finish(p)
    /\ UNCHANGED <<setting, info, in, initId, talk, strays>>

Stop(p) ==
    /\ phase[p] = "running" /\ Become(p, "closed")
    /\ UNCHANGED <<setting, info, in, initId, talk, strays>>

Serve(p) ==
    \/ HandleRequest(p) \/ HandleNotification(p) \/ HandleResult(p)
    \/ Undecodable(p) \/ InputEnds(p)
Server1 == ExpectRequest \/ AnswerInitialize \/ ExpectNotification \/ OnInitialized
Next ==
    \/ SendInitialize \/ ExpectResponse \/ Server1 \/ CallTooEarly
    \/ \E p \in Sides :
        \/ ServeDirectly(p) \/ Serve(p) \/ Stray(p) \/ Stop(p)
        \/ \E m \in Methods(p) : Call(p, m)

Spec == Init /\ [][Next]_vars

\* Both tasks are polled, and the handler of initialize returns.
Fairness == WF_vars(ExpectResponse \/ Serve(Client)) /\ WF_vars(Server1 \/ Serve(Server))
FairSpec == Spec /\ Fairness

(***************************************************************************)
(* Properties.                                                             *)
(***************************************************************************)
\* Every variable has its type.
TypeOK ==
    /\ version \in [Sides -> Versions] /\ direct \subseteq Sides
    /\ phase \in [Sides -> {"new", "waiting", "initializing", "expecting", "greeted", "stuck",
                            "running", "failed", "closed"}]
    /\ info \in [Sides -> Versions \cup {None}] /\ initId \in 0 .. Width - 1 \cup {None}
    /\ \A p \in Sides :
        /\ nextId[p] \in 0 .. 1 + MaxCalls * Pages /\ calls[p] \in 0 .. MaxCalls
        /\ call[p] # None => call[p].method \in Methods(p) /\ call[p].page \in 1 .. Pages
        /\ \A i \in DOMAIN in[p] : in[p][i].id \in Nat \cup {None}
    /\ result \in [Sides -> {"none", "ok", "error", "unexpected"}] /\ strays \in 0 .. MaxStrays

\* A call never gets a result of another kind than the handler gave it, although a result
\* travels without a tag and an empty one fits everything (model.rs 1096-1109,
\* handler/server.rs 17-66, client.rs 262-281).
TypedAnswers == \A p \in Sides : result[p] # "unexpected"

\* A client that asked to be initialized is served or fails, whatever else arrives; a
\* client that is served has the lower of the two versions, the version of a server that
\* skipped its part otherwise (client.rs 129-178, server.rs 135-216).
HandshakeEnds ==
    phase[Client] = "waiting" ~>
        \/ phase[Client] \in Over \/ phase[Server] = "stuck"
        \/ /\ phase[Client] = "running"
           /\ info[Client] = IF Server \in direct \/ version[Server] < version[Client]
                             THEN version[Server] ELSE version[Client]
=============================================================================
