---------------------------- MODULE HandshakeProofs ----------------------------
(***************************************************************************)
(* What holds of the handshake and the typed calls for any versions, any   *)
(* number of calls and pages, and any messages of another implementation.  *)
(***************************************************************************)
EXTENDS Handshake, SequenceTheorems, TLAPS

USE DEF setting, talk

\* ---- the tables
LEMMA OtherSide ==
    \A p \in Sides : Other(p) \in Sides /\ Other(Other(p)) = p /\ Other(p) # p
                     /\ \A r \in Sides : r = p \/ r = Other(p)
  BY HandshakeAssumption DEF Sides, Other

\* The fields of each kind of result.
LEMMA FieldsOfResults ==
    /\ ResultFields["InitializeResult"] = {"protocolVersion", "capabilities", "serverInfo"}
    /\ ResultFields["CompleteResult"] = {"completion"} /\ ResultFields["GetPromptResult"] = {"messages"}
    /\ ResultFields["ListPromptsResult"] = {"prompts"}
    /\ ResultFields["ListResourcesResult"] = {"resources"}
    /\ ResultFields["ListResourceTemplatesResult"] = {"resourceTemplates"}
    /\ ResultFields["ReadResourceResult"] = {"contents"} /\ ResultFields["CallToolResult"] = {"content"}
    /\ ResultFields["ListToolsResult"] = {"tools"}
    /\ ResultFields["CreateMessageResult"] = {"model", "role", "content"}
    /\ ResultFields["ListRootsResult"] = {"roots"} /\ ResultFields["EmptyResult"] = {}
  BY DEF ResultFields

Fits(order, n, fields) ==
    /\ n \in DOMAIN order /\ ResultFields[order[n]] \subseteq fields
    /\ \A k \in 1 .. n - 1 : ~ (ResultFields[order[k]] \subseteq fields)

\* The first variant that fits is the one that is taken.
LEMMA FirstThatFits ==
    ASSUME NEW p, NEW fields, NEW n \in Nat, Fits(ResultOrder(p), n, fields),
           DOMAIN ResultOrder(p) \subseteq Nat \ {0}
    PROVE  ResultKind(p, fields) = ResultOrder(p)[n]
  <1>. DEFINE order == ResultOrder(p)
              Fit(k) == /\ k \in DOMAIN order /\ ResultFields[order[k]] \subseteq fields
                        /\ \A j \in 1 .. k - 1 : ~ (ResultFields[order[j]] \subseteq fields)
  <1>1. Fit(n)
    BY DEF Fits
  <1>2. ASSUME NEW k, Fit(k) PROVE k = n
    <2>1. k \in Nat \ {0} /\ n \in Nat \ {0}
      BY <1>1, <1>2
    <2>2. CASE k < n
      <3>1. k \in 1 .. n - 1
        BY <2>1, <2>2
      <3>. QED  BY <1>1, <1>2, <3>1
    <2>3. CASE n < k
      <3>1. n \in 1 .. k - 1
        BY <2>1, <2>3
      <3>. QED  BY <1>1, <1>2, <3>1
    <2>. QED  BY <2>1, <2>2, <2>3
  <1>3. (CHOOSE k \in DOMAIN order : /\ ResultFields[order[k]] \subseteq fields
                                     /\ \A j \in 1 .. k - 1 : ~ (ResultFields[order[j]] \subseteq fields)) = n
    BY <1>1, <1>2
  <1>. QED  BY <1>3 DEF ResultKind

\* The answer to a request is decoded as the kind the handler gave: no variant before it fits.
LEMMA ServersKinds ==
    ASSUME NEW n \in 1 .. 10
    PROVE  ResultKind(Server, ResultFields[ServerResults[n]]) = ServerResults[n]
  <1>1. ResultOrder(Server) = ServerResults /\ DOMAIN ServerResults = 1 .. 10
    BY HandshakeAssumption DEF ResultOrder, ServerResults
  <1>2. ASSUME NEW k \in 1 .. 10, k < n
        PROVE  ~ (ResultFields[ServerResults[k]] \subseteq ResultFields[ServerResults[n]])
    <2>1. CASE n \in {2, 3, 4, 5, 6, 7, 8, 9, 10}
      BY <1>2, <2>1, FieldsOfResults DEF ServerResults
    <2>. QED  BY <1>2, <2>1
  <1>. QED  BY <1>1, <1>2, FirstThatFits DEF Fits

LEMMA ClientsKinds ==
    ASSUME NEW n \in 1 .. 3
    PROVE  ResultKind(Client, ResultFields[ClientResults[n]]) = ClientResults[n]
  <1>1. ResultOrder(Client) = ClientResults /\ DOMAIN ClientResults = 1 .. 3
    BY DEF ResultOrder, ClientResults
  <1>2. ASSUME NEW k \in 1 .. 3, k < n
        PROVE  ~ (ResultFields[ClientResults[k]] \subseteq ResultFields[ClientResults[n]])
    <2>1. CASE n \in {2, 3}
      BY <1>2, <2>1, FieldsOfResults DEF ClientResults
    <2>. QED  BY <1>2, <2>1
  <1>. QED  BY <1>1, <1>2, FirstThatFits DEF Fits

\* What a side answers has a kind that side may send.
LEMMA AnswersHaveKinds ==
    ASSUME NEW p \in Sides, NEW m \in DOMAIN Requests(Other(p))
    PROVE  /\ HandledAs(m) \in DOMAIN ResultFields
           /\ ResultKind(p, ResultFields[HandledAs(m)]) = HandledAs(m)
           /\ HandledAs(m) = "InitializeResult" => m = "initialize"
  <1>1. CASE p = Client
    <2>1. m \in {"ping", "roots/list", "sampling/createMessage"}
      BY <1>1, HandshakeAssumption DEF Requests, Other, ServerRequest
    <2>2. HandledAs(m) = HandledByClient(m)
      BY <2>1 DEF HandledAs, ServerRequest, Lists
    <2>3. PICK n \in 1 .. 3 : HandledAs(m) = ClientResults[n]
      BY <2>1, <2>2 DEF HandledByClient, ClientResults
    <2>4. HandledAs(m) \in {"CreateMessageResult", "ListRootsResult", "EmptyResult"}
      BY <2>1, <2>2 DEF HandledByClient
    <2>. QED  BY <1>1, <2>3, <2>4, ClientsKinds DEF ResultFields
  <1>2. CASE p = Server
    <2>1. m \in DOMAIN ClientRequest
      BY <1>2, HandshakeAssumption DEF Requests, Other
    <2>2. PICK n \in 1 .. 10 : HandledAs(m) = ServerResults[n]
      BY <2>1 DEF HandledAs, HandledByClient, ServerResults, ClientRequest, ServerRequest, Lists
    <2>3. HandledAs(m) = "InitializeResult" => m = "initialize"
      BY <2>1 DEF HandledAs, HandledByClient, ClientRequest, ServerRequest, Lists
    <2>4. ServerResults[n] \in DOMAIN ResultFields
      BY DEF ServerResults, ResultFields
    <2>. QED  BY <1>2, <2>2, <2>3, <2>4, ServersKinds
  <1>. QED  BY <1>1, <1>2 DEF Sides

-----------------------------------------------------------------------------
\* ---- messages
MethodNames == DOMAIN ClientRequest \cup DOMAIN ServerRequest \cup DOMAIN ClientNotification
               \cup DOMAIN ServerNotification \cup {"unknown"}
Fields == {ClientRequest[m] : m \in DOMAIN ClientRequest} \cup {ServerRequest[m] : m \in DOMAIN ServerRequest}
          \cup {ClientNotification[m] : m \in DOMAIN ClientNotification}
          \cup {ServerNotification[m] : m \in DOMAIN ServerNotification}
          \cup {ResultFields[k] : k \in DOMAIN ResultFields} \cup {{}}
Wire == [id : Nat \cup {None}, method : MethodNames \cup {None}, params : Fields \cup {None},
         result : Fields \cup {None}, value : Nat \cup {None}, error : BOOLEAN]

LEMMA TablesTyped ==
    /\ \A p \in Sides : \A m \in DOMAIN Requests(p) : m \in MethodNames /\ Requests(p)[m] \in Fields
    /\ \A p \in Sides : \A m \in DOMAIN Notifications(p) :
          m \in MethodNames /\ Notifications(p)[m] \in Fields
    /\ \A k \in DOMAIN ResultFields : ResultFields[k] \in Fields
  BY DEF Requests, Notifications, MethodNames, Fields

LEMMA CutId == \A n \in Nat : n % Width \in 0 .. Width - 1 /\ (n < Width => n % Width = n)
  BY HandshakeAssumption

\* Each message is on the way as a record of fields, and is decoded as what was meant.
LEMMA Requested ==
    ASSUME NEW q \in Sides, NEW id \in Nat, NEW m \in DOMAIN Requests(q), NEW v \in Nat
    PROVE  /\ RequestOf(q, id, m, v) \in Wire
           /\ Decode(q, RequestOf(q, id, m, v))
                 = [kind |-> "request", id |-> id % Width, name |-> m, value |-> v]
  <1>1. RequestOf(q, id, m, v) \in Wire
    BY TablesTyped DEF RequestOf, Json, Wire
  <1>2. PICK w : w = RequestOf(q, id, m, v)
    OBVIOUS
  <1>3. /\ w.id = id /\ w.method = m /\ w.params = Requests(q)[m] /\ w.result = None /\ w.value = v
        /\ w.id # None /\ w.error = FALSE
    BY <1>2, NoneIsNothing DEF RequestOf, Json
  <1>4. w.id # None /\ w.method \in DOMAIN Requests(q) /\ Requests(q)[w.method] \subseteq w.params
    BY <1>3
  <1>5. w.method \notin DOMAIN Notifications(q)
    BY <1>3 DEF Requests, Notifications, ClientRequest, ServerRequest, ClientNotification,
                ServerNotification, Lists
  <1>6. Decode(q, w) = [kind |-> "request", id |-> IdOf(w), name |-> w.method, value |-> w.value]
    BY <1>3, <1>4, <1>5 DEF Decode
  <1>. QED  BY <1>1, <1>2, <1>3, <1>6 DEF IdOf

LEMMA Notified ==
    ASSUME NEW q \in Sides, NEW m \in DOMAIN Notifications(q)
    PROVE  /\ NotificationOf(q, m) \in Wire
           /\ Decode(q, NotificationOf(q, m)).kind = "notification"
  <1>1. NotificationOf(q, m) \in Wire
    BY TablesTyped DEF NotificationOf, Json, Wire
  <1>. QED  BY <1>1, NoneIsNothing DEF NotificationOf, Json, Decode, IdOf

LEMMA Responded ==
    ASSUME NEW q \in Sides, NEW id \in Nat, NEW k \in DOMAIN ResultFields, NEW v \in Nat \cup {None}
    PROVE  /\ ResponseOf(id, k, v) \in Wire
           /\ Decode(q, ResponseOf(id, k, v))
                 = [kind |-> "response", id |-> id % Width, name |-> ResultKind(q, ResultFields[k]),
                    value |-> v]
  <1>1. ResponseOf(id, k, v) \in Wire
    BY TablesTyped DEF ResponseOf, Json, Wire
  <1>. QED  BY <1>1, NoneIsNothing DEF ResponseOf, Json, Decode, IdOf

LEMMA Errored ==
    ASSUME NEW q \in Sides, NEW id \in Nat
    PROVE  ErrorOf(id) \in Wire /\ Decode(q, ErrorOf(id)).kind = "error"
  <1>1. ErrorOf(id) \in Wire
    BY DEF ErrorOf, Json, Wire
  <1>. QED  BY <1>1, NoneIsNothing DEF ErrorOf, Json, Decode, IdOf

\* What is no request, response or notification of the side that sent it says nothing.
LEMMA Undecoded ==
    ASSUME NEW q \in Sides, NEW w, w.result = None, w.error = FALSE,
           w.method \in DOMAIN Requests(q) => ~ (Requests(q)[w.method] \subseteq w.params),
           w.method \notin DOMAIN Notifications(q)
    PROVE  Decode(q, w).kind = "undecodable"
  BY DEF Decode

\* Of the messages of another implementation only a ping is decoded as a request, with its id cut.
LEMMA Strayed ==
    ASSUME NEW p \in Sides, NEW w \in Strays(p)
    PROVE  /\ w \in Wire
           /\ \/ Decode(Other(p), w).kind \in {"notification", "undecodable"}
              \/ /\ Decode(Other(p), w).kind = "request" /\ Decode(Other(p), w).name = "ping"
                 /\ Decode(Other(p), w).id = Width - 1
  <1>0. /\ Width \in Nat /\ 2 * Width - 1 \in Nat /\ (2 * Width - 1) % Width = Width - 1
        /\ Other(p) \in Sides
    BY HandshakeAssumption, OtherSide
  <1>1. CASE w = Json(Width, "unknown", {}, None, None)
    <2>1. "unknown" \notin DOMAIN Requests(Other(p)) \cup DOMAIN Notifications(Other(p))
      BY DEF Requests, Notifications, ClientRequest, ServerRequest, ClientNotification,
             ServerNotification, Lists
    <2>2. w.result = None /\ w.error = FALSE /\ w.method = "unknown"
      BY <1>1 DEF Json
    <2>3. w \in Wire
      BY <1>0, <1>1 DEF Json, Wire, MethodNames, Fields
    <2>. QED  BY <1>0, <2>1, <2>2, <2>3, Undecoded
  <1>2. CASE w = Json(2 * Width - 1, "ping", {}, None, None)
    <2>1. /\ "ping" \in DOMAIN Requests(Other(p)) /\ Requests(Other(p))["ping"] = {}
          /\ "ping" \notin DOMAIN Notifications(Other(p)) /\ "ping" \in MethodNames
      BY DEF Requests, ClientRequest, ServerRequest, Lists, Notifications, ClientNotification,
             ServerNotification, MethodNames
    <2>2. /\ w.id = 2 * Width - 1 /\ w.method = "ping" /\ w.params = {} /\ w.result = None
          /\ w.id # None /\ w.error = FALSE
      BY <1>0, <1>2, NoneIsNothing DEF Json
    <2>3. Decode(Other(p), w) = [kind |-> "request", id |-> IdOf(w), name |-> w.method, value |-> w.value]
      BY <2>1, <2>2 DEF Decode
    <2>4. IdOf(w) = Width - 1
      BY <1>0, <2>2 DEF IdOf
    <2>5. w \in Wire
      BY <1>0, <1>2, <2>1 DEF Json, Wire, Fields
    <2>. QED  BY <2>2, <2>3, <2>4, <2>5
  <1>3. CASE p = Server /\ w \in {Json(1, "tools/call", {}, None, None), Json(1, "roots/list", {}, None, None)}
    <2>1. Other(p) = Client
      BY <1>3, HandshakeAssumption DEF Other
    <2>2. /\ Requests(Client)["tools/call"] = {"name"} /\ "roots/list" \notin DOMAIN Requests(Client)
          /\ {"tools/call", "roots/list"} \cap DOMAIN Notifications(Client) = {}
          /\ {"tools/call", "roots/list"} \subseteq MethodNames
      BY DEF Requests, Notifications, ClientRequest, ClientNotification, ServerRequest, Lists, MethodNames
    <2>3. /\ w.result = None /\ w.error = FALSE /\ w.params = {}
          /\ w.method \in {"tools/call", "roots/list"}
      BY <1>3 DEF Json
    <2>4. w \in Wire
      <3>1. {} \in Fields /\ 1 \in Nat
        BY DEF Fields
      <3>2. \A m \in MethodNames : Json(1, m, {}, None, None) \in Wire
        BY <3>1 DEF Json, Wire
      <3>. QED  BY <1>3, <2>2, <3>2
    <2>5. w.method \in DOMAIN Requests(Client) => ~ (Requests(Client)[w.method] \subseteq w.params)
      BY <2>2, <2>3
    <2>. QED  BY <1>0, <2>1, <2>2, <2>3, <2>4, <2>5, Undecoded
  <1>4. CASE p = Client /\ w = NotificationOf(Server, "notifications/message")
    <2>1. Other(p) = Server /\ Server \in Sides /\ "notifications/message" \in DOMAIN Notifications(Server)
      BY <1>4, HandshakeAssumption DEF Other, Sides, Notifications, ServerNotification
    <2>. QED  BY <1>4, <2>1, Notified
  <1>. QED  BY <1>1, <1>2, <1>3, <1>4, HandshakeAssumption DEF Strays, Sides

-----------------------------------------------------------------------------
\* ---- what is on the way
Waiting(s) == {s[i] : i \in DOMAIN s}

LEMMA Appended ==
    ASSUME NEW S, NEW s \in Seq(S), NEW x \in S
    PROVE  Append(s, x) \in Seq(S) /\ Waiting(Append(s, x)) \subseteq Waiting(s) \cup {x}
  <1>1. /\ Append(s, x) \in Seq(S) /\ DOMAIN Append(s, x) = 1 .. Len(s) + 1 /\ Len(s) \in Nat
        /\ DOMAIN s = 1 .. Len(s)
        /\ \A i \in 1 .. Len(s) : Append(s, x)[i] = s[i]
        /\ Append(s, x)[Len(s) + 1] = x
    BY AppendProperties, LenProperties
  <1>2. \A i \in 1 .. Len(s) + 1 : i \in 1 .. Len(s) \/ i = Len(s) + 1
    BY <1>1
  <1>. QED  BY <1>1, <1>2 DEF Waiting

LEMMA Tailed ==
    ASSUME NEW S, NEW s \in Seq(S), s # <<>>
    PROVE  Tail(s) \in Seq(S) /\ Waiting(Tail(s)) \subseteq Waiting(s) /\ Head(s) \in Waiting(s)
           /\ Head(s) \in S
  <1>1. /\ Tail(s) \in Seq(S) /\ Len(s) \in Nat \ {0} /\ DOMAIN s = 1 .. Len(s) /\ Head(s) = s[1]
        /\ DOMAIN Tail(s) = 1 .. Len(s) - 1 /\ \A i \in 1 .. Len(s) - 1 : Tail(s)[i] = s[i + 1]
        /\ Head(s) \in S
    BY HeadTailProperties, LenProperties, EmptySeq
  <1>2. \A i \in 1 .. Len(s) - 1 : i + 1 \in 1 .. Len(s)
    BY <1>1
  <1>3. 1 \in 1 .. Len(s)
    BY <1>1
  <1>. QED  BY <1>1, <1>2, <1>3 DEF Waiting

Queues == in \in [Sides -> Seq(Wire)]
\* What a step puts on the way.
Adds(r, w) ==
    Queues' /\ \A s \in Sides : Waiting(in'[s]) \subseteq Waiting(in[s]) \cup (IF s = r THEN {w} ELSE {})
AddsNothing == Queues' /\ \A s \in Sides : Waiting(in'[s]) \subseteq Waiting(in[s])

LEMMA Transmitted ==
    ASSUME Queues, NEW p \in Sides, NEW w \in Wire, Transmit(p, w)
    PROVE  Adds(Other(p), w)
  <1>1. Append(in[Other(p)], w) \in Seq(Wire)
        /\ Waiting(Append(in[Other(p)], w)) \subseteq Waiting(in[Other(p)]) \cup {w}
    BY OtherSide, Appended DEF Queues
  <1>2. in' = [in EXCEPT ![Other(p)] = Append(in[Other(p)], w)] /\ Other(p) \in Sides
    BY OtherSide DEF Transmit
  <1>. QED  BY <1>1, <1>2 DEF Adds, Queues

LEMMA Took ==
    ASSUME Queues, NEW p \in Sides, in[p] # <<>>, Take(p)
    PROVE  AddsNothing
  <1>1. Tail(in[p]) \in Seq(Wire) /\ Waiting(Tail(in[p])) \subseteq Waiting(in[p])
    BY Tailed DEF Queues
  <1>. QED  BY <1>1 DEF Take, AddsNothing, Queues

LEMMA Replied ==
    ASSUME Queues, NEW p \in Sides, in[p] # <<>>, NEW w \in Wire, Reply(p, w)
    PROVE  Adds(Other(p), w)
  <1>1. Tail(in[p]) \in Seq(Wire) /\ Waiting(Tail(in[p])) \subseteq Waiting(in[p])
    BY Tailed DEF Queues
  <1>2. Append(in[Other(p)], w) \in Seq(Wire)
        /\ Waiting(Append(in[Other(p)], w)) \subseteq Waiting(in[Other(p)]) \cup {w}
    BY OtherSide, Appended DEF Queues
  <1>3. /\ in' = [in EXCEPT ![p] = Tail(in[p]), ![Other(p)] = Append(in[Other(p)], w)]
        /\ Other(p) \in Sides /\ Other(p) # p
    BY OtherSide DEF Reply
  <1>. QED  BY <1>1, <1>2, <1>3 DEF Adds, Queues

LEMMA StrayAdded ==
    ASSUME Queues, NEW p \in Sides, NEW w \in Wire, in' = [in EXCEPT ![p] = Append(@, w)]
    PROVE  Adds(p, w)
  <1>1. Append(in[p], w) \in Seq(Wire) /\ Waiting(Append(in[p], w)) \subseteq Waiting(in[p]) \cup {w}
    BY Appended DEF Queues
  <1>. QED  BY <1>1 DEF Adds, Queues

\* The first message of a queue is one of those on the way, and a request names a method.
LEMMA First ==
    ASSUME Queues, NEW p \in Sides, in[p] # <<>>
    PROVE  /\ Head(in[p]) \in Waiting(in[p]) /\ Head(in[p]) \in Wire
           /\ Next1(p).kind \in {"request", "response", "error"} => Next1(p).id \in 0 .. Width - 1
           /\ Next1(p).kind = "request" => Next1(p).name \in DOMAIN Requests(Other(p))
           /\ Next1(p).value \in Nat \cup {None}
  <1>1. Head(in[p]) \in Waiting(in[p]) /\ Head(in[p]) \in Wire
    BY Tailed DEF Queues
  <1>2. PICK w \in Wire : w = Head(in[p])
    BY <1>1
  <1>3. Next1(p).value = w.value /\ w.value \in Nat \cup {None}
    BY <1>2 DEF Next1, Decode, Wire
  <1>4. Next1(p).kind \in {"request", "response", "error"} => w.id # None /\ Next1(p).id = IdOf(w)
    BY <1>2 DEF Next1, Decode
  <1>5. w.id # None => IdOf(w) \in 0 .. Width - 1
    BY CutId DEF IdOf, Wire
  <1>6. Next1(p).kind = "request" => Next1(p).name \in DOMAIN Requests(Other(p))
    BY <1>2 DEF Next1, Decode
  <1>. QED  BY <1>1, <1>3, <1>4, <1>5, <1>6

-----------------------------------------------------------------------------
\* ---- types
Ongoing(p) == [id : Nat, method : Methods(p), page : 1 .. Pages]
Left(p) == IF call[p] = None THEN 0 ELSE Pages - call[p].page

\* A call takes one id for each page it still may ask for, and initialize takes one.
Counted ==
    /\ nextId \in [Sides -> Nat] /\ calls \in [Sides -> Nat] /\ DOMAIN call = Sides
    /\ \A p \in Sides : call[p] # None => call[p] \in Ongoing(p)
    /\ \A p \in Sides : nextId[p] + Left(p) <= 1 + calls[p] * Pages
    /\ \A p \in Sides : phase[p] = "new" => nextId[p] = 0 /\ call[p] = None

\* A version is on the way where one is expected, and the server has one when it answers.
Known(p, w) ==
    LET d == Decode(Other(p), w) IN
    \/ d.kind = "request" /\ d.name = "initialize"
    \/ d.kind = "response" /\ d.name = "InitializeResult"
    => d.value \in Versions
VersionsKnown ==
    /\ \A p \in Sides : \A w \in Waiting(in[p]) : Known(p, w)
    /\ phase[Server] = "initializing" => info[Server] \in Versions /\ initId \in 0 .. Width - 1

Typed == TypeOK /\ Queues /\ Counted /\ VersionsKnown

\* What Call and HandleResult ask for is a request of their side.
LEMMA MethodsAreRequests ==
    ASSUME NEW p \in Sides
    PROVE  /\ \A m \in Methods(p) : m \in DOMAIN Requests(p) /\ m \in DOMAIN Expected /\ m # "initialize"
           /\ "initialize" \in DOMAIN Requests(Client)
           /\ "notifications/initialized" \in DOMAIN Notifications(Client)
           /\ "InitializeResult" \in DOMAIN ResultFields
           /\ ResultKind(Server, ResultFields["InitializeResult"]) = "InitializeResult"
  <1>1. \A m \in Methods(p) : m \in DOMAIN Requests(p) /\ m \in DOMAIN Expected /\ m # "initialize"
    BY DEF Methods, Expected
  <1>2. /\ "initialize" \in DOMAIN Requests(Client)
        /\ "notifications/initialized" \in DOMAIN Notifications(Client)
        /\ "InitializeResult" \in DOMAIN ResultFields
    BY DEF Requests, Notifications, ClientRequest, ClientNotification, ResultFields
  <1>3. 1 \in 1 .. 10 /\ ServerResults[1] = "InitializeResult"
    BY DEF ServerResults
  <1>. QED  BY <1>1, <1>2, <1>3, ServersKinds

\* The messages a step puts on the way.
LEMMA Traffic ==
    ASSUME Typed, Next
    PROVE  \/ AddsNothing
           \/ /\ SendInitialize
              /\ Adds(Server, RequestOf(Client, nextId[Client], "initialize", version[Client]))
           \/ ExpectResponse /\ Adds(Server, NotificationOf(Client, "notifications/initialized"))
           \/ /\ AnswerInitialize /\ phase[Server] = "initializing"
              /\ \/ Adds(Client, ResponseOf(initId, "InitializeResult",
                                            Negotiate(info[Server], version[Server])))
                 \/ Adds(Client, ErrorOf(initId))
           \/ \E p \in Sides : \E m \in Methods(p) :
                 Call(p, m) /\ Adds(Other(p), RequestOf(p, nextId[p], m, 1))
           \/ \E p \in Sides : \E d \in {Next1(p)} :
                 /\ HandleRequest(p) /\ in[p] # <<>> /\ d.kind = "request"
                 /\ \/ Adds(Other(p), ResponseOf(d.id, HandledAs(d.name),
                                                 IF d.name = "initialize" THEN version[p] ELSE d.value))
                    \/ Adds(Other(p), ErrorOf(d.id))
           \/ \E p \in Sides :
                 /\ HandleResult(p) /\ call[p] # None /\ call[p].page < Pages
                 /\ call' = [call EXCEPT ![p].id = nextId[p], ![p].page = @ + 1]
                 /\ nextId' = [nextId EXCEPT ![p] = @ + 1]
                 /\ Adds(Other(p), RequestOf(p, nextId[p], call[p].method, call[p].page + 1))
           \/ \E p \in Sides : \E w \in Strays(p) : Stray(p) /\ Adds(p, w)
  <1>. USE DEF Typed
  <1>0. Client \in Sides /\ Server \in Sides /\ Other(Client) = Server /\ Other(Server) = Client
    BY HandshakeAssumption DEF Sides, Other
  <1>1. CASE SendInitialize
    <2>1. RequestOf(Client, nextId[Client], "initialize", version[Client]) \in Wire
      <3>1. nextId[Client] \in Nat /\ version[Client] \in Nat
        BY <1>0, HandshakeAssumption DEF Counted, TypeOK
      <3>. QED  BY <1>0, <3>1, Requested, MethodsAreRequests
    <2>. QED  BY <1>0, <1>1, <2>1, Transmitted DEF SendInitialize
  <1>2. CASE ExpectResponse
    <2>1. in[Client] # <<>> /\ NotificationOf(Client, "notifications/initialized") \in Wire
      BY <1>0, <1>2, Notified, MethodsAreRequests DEF ExpectResponse, Readable
    <2>2. CASE Take(Client)
      BY <1>0, <2>1, <2>2, Took
    <2>3. CASE Reply(Client, NotificationOf(Client, "notifications/initialized"))
      BY <1>0, <1>2, <2>1, <2>3, Replied
    <2>. QED  BY <1>2, <2>2, <2>3 DEF ExpectResponse
  <1>3. CASE ExpectRequest \/ ExpectNotification
    <2>1. in[Server] # <<>> /\ Take(Server)
      BY <1>3 DEF ExpectRequest, ExpectNotification, Readable
    <2>. QED  BY <1>0, <2>1, Took
  <1>4. CASE AnswerInitialize
    <2>1. info[Server] \in Versions /\ initId \in Nat /\ version[Server] \in Versions
      BY <1>0, <1>4, HandshakeAssumption DEF AnswerInitialize, VersionsKnown, TypeOK
    <2>2. Negotiate(info[Server], version[Server]) \in Nat
      BY <2>1, HandshakeAssumption DEF Negotiate
    <2>3. /\ ResponseOf(initId, "InitializeResult", Negotiate(info[Server], version[Server])) \in Wire
          /\ ErrorOf(initId) \in Wire
      BY <1>0, <2>1, <2>2, Responded, Errored, MethodsAreRequests
    <2>4. CASE UNCHANGED in
      BY <2>4 DEF AddsNothing, Queues
    <2>5. CASE Transmit(Server, ResponseOf(initId, "InitializeResult", Negotiate(info[Server], version[Server])))
      BY <1>0, <1>4, <2>3, <2>5, Transmitted DEF AnswerInitialize
    <2>6. CASE Transmit(Server, ErrorOf(initId))
      BY <1>0, <1>4, <2>3, <2>6, Transmitted DEF AnswerInitialize
    <2>. QED  BY <1>4, <2>4, <2>5, <2>6 DEF AnswerInitialize
  <1>5. CASE \/ OnInitialized \/ CallTooEarly
             \/ \E p \in Sides : ServeDirectly(p) \/ InputEnds(p) \/ Stop(p)
    <2>1. UNCHANGED in
      BY <1>5 DEF OnInitialized, CallTooEarly, ServeDirectly, InputEnds, Stop
    <2>. QED  BY <2>1 DEF AddsNothing, Queues
  <1>6. ASSUME NEW p \in Sides, NEW m \in Methods(p), Call(p, m)
        PROVE  Adds(Other(p), RequestOf(p, nextId[p], m, 1))
    <2>1. RequestOf(p, nextId[p], m, 1) \in Wire
      BY Requested, MethodsAreRequests DEF Counted
    <2>. QED  BY <1>6, <2>1, Transmitted DEF Call
  <1>7. ASSUME NEW p \in Sides, HandleRequest(p)
        PROVE  \E d \in {Next1(p)} :
                 /\ in[p] # <<>> /\ d.kind = "request"
                 /\ \/ Adds(Other(p), ResponseOf(d.id, HandledAs(d.name),
                                                 IF d.name = "initialize" THEN version[p] ELSE d.value))
                    \/ Adds(Other(p), ErrorOf(d.id))
    <2>1. PICK d : d = Next1(p)
      OBVIOUS
    <2>2. in[p] # <<>> /\ d.kind = "request"
      BY <1>7, <2>1 DEF HandleRequest, Readable
    <2>3. PICK v : v = IF d.name = "initialize" THEN version[p] ELSE d.value
      OBVIOUS
    <2>4. d.id \in Nat /\ d.name \in DOMAIN Requests(Other(p)) /\ v \in Nat \cup {None}
      BY <2>1, <2>2, <2>3, First, HandshakeAssumption DEF TypeOK
    <2>5. ResponseOf(d.id, HandledAs(d.name), v) \in Wire /\ ErrorOf(d.id) \in Wire
      BY <2>4, AnswersHaveKinds, Responded, Errored
    <2>6. Reply(p, ResponseOf(d.id, HandledAs(d.name), v)) \/ Reply(p, ErrorOf(d.id))
      BY <1>7, <2>1, <2>3 DEF HandleRequest
    <2>7. Adds(Other(p), ResponseOf(d.id, HandledAs(d.name), v)) \/ Adds(Other(p), ErrorOf(d.id))
      BY <2>2, <2>5, <2>6, Replied
    <2>. QED  BY <2>1, <2>2, <2>3, <2>7
  <1>8. ASSUME NEW p \in Sides, HandleNotification(p) \/ Undecodable(p)
        PROVE  AddsNothing
    <2>1. in[p] # <<>> /\ Take(p)
      BY <1>8 DEF HandleNotification, Undecodable, Readable
    <2>. QED  BY <2>1, Took
  <1>9. ASSUME NEW p \in Sides, HandleResult(p)
        PROVE  \/ AddsNothing
               \/ /\ call[p] # None /\ call[p].page < Pages
                  /\ call' = [call EXCEPT ![p].id = nextId[p], ![p].page = @ + 1]
                  /\ nextId' = [nextId EXCEPT ![p] = @ + 1]
                  /\ Adds(Other(p), RequestOf(p, nextId[p], call[p].method, call[p].page + 1))
    <2>1. in[p] # <<>>
      BY <1>9 DEF HandleResult, Readable
    <2>2. CASE Take(p)
      BY <2>1, <2>2, Took
    <2>3. CASE /\ call[p] # None /\ MorePages(call[p])
               /\ Reply(p, RequestOf(p, nextId[p], call[p].method, call[p].page + 1))
               /\ call' = [call EXCEPT ![p].id = nextId[p], ![p].page = @ + 1]
               /\ nextId' = [nextId EXCEPT ![p] = @ + 1]
      <3>1. call[p] \in Ongoing(p) /\ nextId[p] \in Nat
        BY <2>3 DEF Counted
      <3>2. RequestOf(p, nextId[p], call[p].method, call[p].page + 1) \in Wire
        BY <3>1, Requested, MethodsAreRequests DEF Ongoing
      <3>. QED  BY <2>1, <2>3, <3>2, Replied DEF MorePages
    <2>. QED  BY <1>9, <2>2, <2>3 DEF HandleResult, Return
  <1>10. ASSUME NEW p \in Sides, Stray(p)
         PROVE  \E w \in Strays(p) : Adds(p, w)
    <2>1. PICK w \in Strays(p) : in' = [in EXCEPT ![p] = Append(@, w)]
      BY <1>10 DEF Stray
    <2>. QED  BY <2>1, Strayed, StrayAdded
  <1>. QED
    BY <1>1, <1>2, <1>3, <1>4, <1>5, <1>6, <1>7, <1>8, <1>9, <1>10 DEF Next, Server1, Serve

-----------------------------------------------------------------------------
\* ---- a step keeps the types
PhaseNames == {"new", "waiting", "initializing", "expecting", "greeted", "stuck", "running", "failed", "closed"}

\* No side starts again.
LEMMA Phases ==
    ASSUME Typed, Next
    PROVE  phase' \in [Sides -> PhaseNames] /\ \A p \in Sides : phase'[p] = "new" => phase[p] = "new"
  <1>0. Client \in Sides /\ Server \in Sides
    BY DEF Sides
  <1>1. phase \in [Sides -> PhaseNames]
    BY DEF Typed, TypeOK, PhaseNames
  <1>2. ASSUME NEW p \in Sides, NEW s \in PhaseNames \ {"new"}, Become(p, s)
        PROVE  phase' \in [Sides -> PhaseNames] /\ \A q \in Sides : phase'[q] = "new" => phase[q] = "new"
    BY <1>1, <1>2 DEF Become
  <1>3. CASE SendInitialize
    BY <1>0, <1>2, <1>3 DEF SendInitialize, PhaseNames
  <1>4. CASE ExpectResponse
    BY <1>0, <1>2, <1>4 DEF ExpectResponse, PhaseNames
  <1>5. CASE ExpectRequest
    BY <1>0, <1>2, <1>5 DEF ExpectRequest, PhaseNames
  <1>6. CASE AnswerInitialize
    BY <1>0, <1>2, <1>6 DEF AnswerInitialize, PhaseNames
  <1>7. CASE ExpectNotification
    <2>1. PICK s \in {"greeted", "failed"} : Become(Server, s)
      BY <1>7 DEF ExpectNotification
    <2>. QED  BY <1>0, <1>2, <2>1 DEF PhaseNames
  <1>8. CASE OnInitialized \/ CallTooEarly
    BY <1>0, <1>2, <1>8 DEF OnInitialized, CallTooEarly, PhaseNames
  <1>9. ASSUME NEW p \in Sides, ServeDirectly(p) \/ Stop(p)
        PROVE  phase' \in [Sides -> PhaseNames] /\ \A q \in Sides : phase'[q] = "new" => phase[q] = "new"
    BY <1>2, <1>9 DEF ServeDirectly, Stop, PhaseNames
  <1>10. ASSUME NEW p \in Sides, Undecodable(p) \/ InputEnds(p)
         PROVE  phase' \in [Sides -> PhaseNames] /\ \A q \in Sides : phase'[q] = "new" => phase[q] = "new"
    <2>1. CASE UNCHANGED phase
      BY <1>1, <2>1
    <2>2. CASE Finish(p)
      <3>1. PICK s \in {"closed", "failed"} : Become(p, s)
        BY <2>2 DEF Finish
      <3>. QED  BY <1>2, <3>1 DEF PhaseNames
    <2>. QED  BY <1>10, <2>1, <2>2 DEF Undecodable, InputEnds
  <1>11. ASSUME NEW p \in Sides,
                \/ HandleRequest(p) \/ HandleNotification(p) \/ HandleResult(p) \/ Stray(p)
                \/ \E m \in Methods(p) : Call(p, m)
         PROVE  UNCHANGED phase
    BY <1>11 DEF HandleRequest, HandleNotification, HandleResult, Stray, Call
  <1>. QED
    BY <1>1, <1>3, <1>4, <1>5, <1>6, <1>7, <1>8, <1>9, <1>10, <1>11 DEF Next, Server1, Serve

LEMMA PagesCount ==
    /\ \A n \in Nat : n * Pages \in Nat /\ (n + 1) * Pages = n * Pages + Pages
    /\ \A n, k \in Nat : n <= k => n * Pages <= k * Pages
  <1>1. Pages \in Nat
    BY HandshakeAssumption
  <1>. QED  BY <1>1

LEMMA CountedKept ==
    ASSUME Typed, Next
    PROVE  Counted'
  <1>0. /\ Client \in Sides /\ Server \in Sides /\ Pages \in Nat \ {0} /\ MaxCalls \in Nat
        /\ nextId \in [Sides -> Nat] /\ calls \in [Sides -> Nat] /\ DOMAIN call = Sides
        /\ \A p \in Sides : call[p] # None => call[p] \in Ongoing(p)
        /\ \A p \in Sides : nextId[p] + Left(p) <= 1 + calls[p] * Pages
        /\ \A p \in Sides : phase[p] = "new" => nextId[p] = 0 /\ call[p] = None
        /\ \A p \in Sides : phase'[p] = "new" => phase[p] = "new"
        /\ phase \in [Sides -> PhaseNames]
    BY HandshakeAssumption, Phases DEF Sides, Typed, Counted, TypeOK, PhaseNames
  <1>1. CASE UNCHANGED talk
    BY <1>0, <1>1 DEF Counted, Left
  <1>2. CASE SendInitialize
    <2>1. /\ phase[Client] = "new" /\ nextId[Client] = 0 /\ call[Client] = None
          /\ phase' = [phase EXCEPT ![Client] = "waiting"]
          /\ nextId' = [nextId EXCEPT ![Client] = @ + 1] /\ UNCHANGED <<call, calls>>
      BY <1>0, <1>2 DEF SendInitialize, Become
    <2>2. phase'[Client] # "new"
      BY <1>0, <2>1
    <2>3. calls[Client] * Pages \in Nat
      BY <1>0, PagesCount
    <2>. QED  BY <1>0, <2>1, <2>2, <2>3 DEF Counted, Left
  <1>3. ASSUME NEW p \in Sides, NEW m \in Methods(p), Call(p, m)
        PROVE  Counted'
    <2>1. /\ phase'[p] # "new" /\ call[p] = None
          /\ call' = [call EXCEPT ![p] = [id |-> nextId[p], method |-> m, page |-> 1]]
          /\ nextId' = [nextId EXCEPT ![p] = @ + 1] /\ calls' = [calls EXCEPT ![p] = @ + 1]
      BY <1>3 DEF Call
    <2>2. calls[p] * Pages \in Nat /\ (calls[p] + 1) * Pages = calls[p] * Pages + Pages
      BY <1>0, PagesCount
    <2>3. [id |-> nextId[p], method |-> m, page |-> 1] \in Ongoing(p)
      BY <1>0 DEF Ongoing
    <2>4. \A q \in Sides \ {p} : Left(q)' = Left(q) /\ nextId'[q] = nextId[q] /\ calls'[q] = calls[q]
      BY <1>0, <2>1 DEF Left
    <2>5. Left(p)' = (IF call'[p] = None THEN 0 ELSE Pages - call'[p].page) /\ Left(p) = 0
      BY <2>1 DEF Left
    <2>6. Left(p)' <= Pages - 1
      BY <1>0, <2>1, <2>5
    <2>7. nextId'[p] = nextId[p] + 1 /\ calls'[p] = calls[p] + 1 /\ Left(p)' \in Int
      BY <1>0, <2>1, <2>5
    <2>8. nextId[p] <= 1 + calls[p] * Pages /\ calls'[p] * Pages = calls[p] * Pages + Pages
      BY <1>0, <2>2, <2>5, <2>7
    <2>9. nextId'[p] + Left(p)' <= 1 + calls'[p] * Pages
      BY <1>0, <2>2, <2>6, <2>7, <2>8
    <2>10. \A q \in Sides : nextId'[q] + Left(q)' <= 1 + calls'[q] * Pages
      BY <1>0, <2>4, <2>9
    <2>11. \A q \in Sides : phase'[q] = "new" => nextId'[q] = 0 /\ call'[q] = None
      BY <1>0, <2>1
    <2>12. \A q \in Sides : call'[q] # None => call'[q] \in Ongoing(q)
      BY <1>0, <2>1, <2>3
    <2>13. nextId' \in [Sides -> Nat] /\ calls' \in [Sides -> Nat] /\ DOMAIN call' = Sides
      BY <1>0, <2>1
    <2>. QED  BY <2>10, <2>11, <2>12, <2>13 DEF Counted, Ongoing
  <1>4. ASSUME NEW p \in Sides, HandleResult(p)
        PROVE  Counted'
    <2>1. UNCHANGED calls /\ phase' = phase /\ phase[p] = "running"
      BY <1>4 DEF HandleResult
    <2>2. CASE UNCHANGED <<nextId, call>>
      BY <1>0, <2>1, <2>2 DEF Counted, Left
    <2>3. CASE UNCHANGED nextId /\ call' = [call EXCEPT ![p] = None]
      <3>1. nextId[p] + Left(p) <= 1 + calls[p] * Pages /\ nextId[p] \in Nat /\ calls[p] * Pages \in Nat
        BY <1>0, PagesCount
      <3>2. call[p] # None => Left(p) \in Nat
        BY <1>0 DEF Left, Ongoing
      <3>3. nextId[p] <= 1 + calls[p] * Pages
        BY <3>1, <3>2 DEF Left
      <3>. QED  BY <1>0, <2>1, <2>3, <3>1, <3>3 DEF Counted, Left
    <2>4. CASE /\ call[p] # None /\ call[p].page < Pages
               /\ call' = [call EXCEPT ![p].id = nextId[p], ![p].page = @ + 1]
               /\ nextId' = [nextId EXCEPT ![p] = @ + 1]
      <3>1. call[p] \in Ongoing(p)
        BY <1>0, <2>4
      <3>2. PICK c : c = [call[p] EXCEPT !.id = nextId[p], !.page = call[p].page + 1]
        OBVIOUS
      <3>3. call' = [call EXCEPT ![p] = c]
        BY <1>0, <2>4, <3>2
      <3>4. c \in Ongoing(p) /\ c.page = call[p].page + 1 /\ c.page \in Nat
        BY <1>0, <2>4, <3>1, <3>2 DEF Ongoing
      <3>5. call'[p] = c /\ \A q \in Sides \ {p} : call'[q] = call[q]
        BY <1>0, <3>3
      <3>6. nextId'[p] + Left(p)' <= 1 + calls'[p] * Pages
        <4>1. Left(p)' \in {0, Pages - c.page} /\ Left(p) = Pages - call[p].page
          BY <2>4, <3>5 DEF Left
        <4>2. nextId[p] + Left(p) <= 1 + calls[p] * Pages /\ calls'[p] = calls[p]
          BY <1>0, <2>1
        <4>3. calls[p] * Pages \in Nat /\ call[p].page \in 1 .. Pages /\ nextId[p] \in Nat
              /\ nextId'[p] = nextId[p] + 1
          BY <1>0, <2>4, <3>1, PagesCount DEF Ongoing
        <4>. QED  BY <1>0, <2>4, <3>4, <4>1, <4>2, <4>3
      <3>7. \A q \in Sides \ {p} : nextId'[q] = nextId[q] /\ Left(q)' = Left(q) /\ calls'[q] = calls[q]
        BY <1>0, <2>1, <2>4, <3>5 DEF Left
      <3>8. \A q \in Sides : nextId'[q] + Left(q)' <= 1 + calls'[q] * Pages
        BY <1>0, <3>6, <3>7
      <3>9. \A q \in Sides : phase'[q] = "new" => nextId'[q] = 0 /\ call'[q] = None
        BY <1>0, <2>1, <2>4, <3>5
      <3>10. \A q \in Sides : call'[q] # None => call'[q] \in Ongoing(q)
        BY <1>0, <3>4, <3>5
      <3>11. nextId' \in [Sides -> Nat] /\ calls' \in [Sides -> Nat] /\ DOMAIN call' = Sides
        BY <1>0, <2>1, <2>4, <3>3
      <3>. QED  BY <3>8, <3>9, <3>10, <3>11 DEF Counted, Ongoing
    <2>. QED  BY <1>4, <2>2, <2>3, <2>4 DEF HandleResult, Return, MorePages
  <1>5. ASSUME NEW p \in Sides,
               \/ ServeDirectly(p) \/ HandleRequest(p) \/ HandleNotification(p)
               \/ Undecodable(p) \/ InputEnds(p) \/ Stray(p) \/ Stop(p)
        PROVE  UNCHANGED talk
    BY <1>5 DEF ServeDirectly, HandleRequest, HandleNotification, Undecodable, InputEnds, Stray, Stop
  <1>6. ASSUME ExpectResponse \/ Server1 \/ CallTooEarly
        PROVE  UNCHANGED talk
    BY <1>6 DEF ExpectResponse, Server1, ExpectRequest, AnswerInitialize, ExpectNotification,
                OnInitialized, CallTooEarly
  <1>. QED
    BY <1>1, <1>2, <1>3, <1>4, <1>5, <1>6 DEF Next, Serve

\* A request or response tells a version where one is expected.
LEMMA HeadKnown ==
    ASSUME Typed, NEW p \in Sides, in[p] # <<>>,
           \/ Next1(p).kind = "request" /\ Next1(p).name = "initialize"
           \/ Next1(p).kind = "response" /\ Next1(p).name = "InitializeResult"
    PROVE  Next1(p).value \in Versions
  <1>1. Head(in[p]) \in Waiting(in[p])
    BY First DEF Typed
  <1>. QED  BY <1>1 DEF Typed, VersionsKnown, Known, Next1

LEMMA AllKnown ==
    ASSUME Typed, Next
    PROVE  \A p \in Sides : \A w \in Waiting(in'[p]) : Known(p, w)
  <1>0. /\ Client \in Sides /\ Server \in Sides /\ Other(Client) = Server /\ Other(Server) = Client
        /\ \A p \in Sides : \A w \in Waiting(in[p]) : Known(p, w)
    BY HandshakeAssumption DEF Sides, Other, Typed, VersionsKnown
  <1>1. CASE AddsNothing
    BY <1>0, <1>1 DEF AddsNothing
  <1>2. ASSUME NEW p \in Sides, NEW w, Adds(p, w), Known(p, w)
        PROVE  \A q \in Sides : \A x \in Waiting(in'[q]) : Known(q, x)
    BY <1>0, <1>2 DEF Adds
  <1>3. ASSUME NEW p \in Sides, NEW w, Decode(Other(p), w).kind \in {"notification", "error", "undecodable"}
        PROVE  Known(p, w)
    BY <1>3 DEF Known
  <1>4. CASE /\ SendInitialize
             /\ Adds(Server, RequestOf(Client, nextId[Client], "initialize", version[Client]))
    <2>1. nextId[Client] \in Nat /\ version[Client] \in Versions /\ version[Client] \in Nat
      BY <1>0, HandshakeAssumption DEF Typed, TypeOK, Counted
    <2>2. Decode(Client, RequestOf(Client, nextId[Client], "initialize", version[Client])).value \in Versions
      BY <1>0, <2>1, Requested, MethodsAreRequests
    <2>3. Known(Server, RequestOf(Client, nextId[Client], "initialize", version[Client]))
      BY <1>0, <2>2 DEF Known
    <2>. QED  BY <1>0, <1>2, <1>4, <2>3
  <1>5. CASE Adds(Server, NotificationOf(Client, "notifications/initialized"))
    <2>1. Known(Server, NotificationOf(Client, "notifications/initialized"))
      BY <1>0, <1>3, Notified, MethodsAreRequests
    <2>. QED  BY <1>0, <1>2, <1>5, <2>1
  <1>6. CASE /\ phase[Server] = "initializing"
             /\ \/ Adds(Client, ResponseOf(initId, "InitializeResult",
                                           Negotiate(info[Server], version[Server])))
                \/ Adds(Client, ErrorOf(initId))
    <2>1. /\ initId \in Nat /\ info[Server] \in Versions /\ version[Server] \in Versions
          /\ Versions \subseteq Nat
      BY <1>0, <1>6, HandshakeAssumption DEF Typed, TypeOK, VersionsKnown
    <2>2. PICK v : v = Negotiate(info[Server], version[Server])
      OBVIOUS
    <2>3. v \in Versions /\ v \in Nat
      BY <2>1, <2>2 DEF Negotiate
    <2>4. Decode(Server, ResponseOf(initId, "InitializeResult", v)).value \in Versions
      BY <1>0, <2>1, <2>3, Responded, MethodsAreRequests
    <2>5. Known(Client, ResponseOf(initId, "InitializeResult", v))
      BY <1>0, <2>4 DEF Known
    <2>6. Known(Client, ErrorOf(initId))
      BY <1>0, <1>3, <2>1, Errored
    <2>. QED  BY <1>0, <1>2, <1>6, <2>2, <2>5, <2>6
  <1>7. ASSUME NEW p \in Sides, NEW m \in Methods(p), NEW v \in Nat,
               Adds(Other(p), RequestOf(p, nextId[p], m, v))
        PROVE  \A q \in Sides : \A w \in Waiting(in'[q]) : Known(q, w)
    <2>1. nextId[p] \in Nat
      BY DEF Typed, Counted
    <2>2. Decode(p, RequestOf(p, nextId[p], m, v))
             = [kind |-> "request", id |-> nextId[p] % Width, name |-> m, value |-> v]
      BY <2>1, Requested, MethodsAreRequests
    <2>3. Known(Other(p), RequestOf(p, nextId[p], m, v))
      BY <2>2, OtherSide, MethodsAreRequests DEF Known
    <2>. QED  BY <1>2, <1>7, <2>3, OtherSide
  <1>8. ASSUME NEW p \in Sides, NEW d \in {Next1(p)}, in[p] # <<>>, d.kind = "request",
               \/ Adds(Other(p), ResponseOf(d.id, HandledAs(d.name),
                                            IF d.name = "initialize" THEN version[p] ELSE d.value))
               \/ Adds(Other(p), ErrorOf(d.id))
        PROVE  \A q \in Sides : \A w \in Waiting(in'[q]) : Known(q, w)
    <2>1. PICK v : v = IF d.name = "initialize" THEN version[p] ELSE d.value
      OBVIOUS
    <2>2. /\ d.id \in Nat /\ d.name \in DOMAIN Requests(Other(p)) /\ v \in Nat \cup {None}
          /\ d.name = "initialize" => v \in Versions
      BY <1>8, <2>1, First, HandshakeAssumption DEF Typed, TypeOK
    <2>3. PICK k \in DOMAIN ResultFields :
             k = HandledAs(d.name) /\ ResultKind(p, ResultFields[k]) = k
             /\ (k = "InitializeResult" => d.name = "initialize")
      BY <2>2, AnswersHaveKinds
    <2>4. Decode(p, ResponseOf(d.id, k, v)) = [kind |-> "response", id |-> d.id % Width, name |-> k, value |-> v]
      BY <2>2, <2>3, Responded
    <2>5. Known(Other(p), ResponseOf(d.id, k, v))
      BY <2>2, <2>3, <2>4, OtherSide DEF Known
    <2>6. Known(Other(p), ErrorOf(d.id))
      BY <1>3, <2>2, Errored, OtherSide
    <2>. QED  BY <1>2, <1>8, <2>1, <2>3, <2>5, <2>6, OtherSide
  <1>9. ASSUME NEW p \in Sides, HandleResult(p), call[p] # None, call[p].page < Pages,
               Adds(Other(p), RequestOf(p, nextId[p], call[p].method, call[p].page + 1))
        PROVE  \A q \in Sides : \A w \in Waiting(in'[q]) : Known(q, w)
    <2>1. call[p].method \in Methods(p) /\ call[p].page + 1 \in Nat
      BY <1>9 DEF Typed, Counted, Ongoing
    <2>. QED  BY <1>7, <1>9, <2>1
  <1>10. ASSUME NEW p \in Sides, NEW w \in Strays(p), Adds(p, w)
         PROVE  \A q \in Sides : \A x \in Waiting(in'[q]) : Known(q, x)
    <2>1. Known(p, w)
      BY Strayed DEF Known
    <2>. QED  BY <1>2, <1>10, <2>1
  <1>11. 1 \in Nat
    OBVIOUS
  <1>. QED
    BY <1>1, <1>4, <1>5, <1>6, <1>7, <1>8, <1>9, <1>10, <1>11, Traffic

\* The server answers an initialize request with its id and the version it names.
LEMMA Initializing ==
    ASSUME Typed, Next, phase'[Server] = "initializing"
    PROVE  \/ phase[Server] = "initializing" /\ initId' = initId /\ info'[Server] = info[Server]
           \/ /\ ExpectRequest /\ in[Server] # <<>> /\ Next1(Server).kind = "request"
              /\ Next1(Server).name = "initialize" /\ initId' = Next1(Server).id
              /\ info'[Server] = Next1(Server).value
  <1>0. /\ Client \in Sides /\ Server \in Sides /\ Client # Server /\ DOMAIN phase = Sides
        /\ DOMAIN info = Sides /\ \A p \in Sides : p = Client \/ p = Server
    BY HandshakeAssumption DEF Sides, Typed, TypeOK
  <1>1. ASSUME NEW s \in PhaseNames \ {"initializing"}, Become(Server, s)
        PROVE  FALSE
    BY <1>0, <1>1 DEF Become
  <1>2. ASSUME NEW s, Become(Client, s)
        PROVE  phase[Server] = "initializing"
    BY <1>0, <1>2 DEF Become
  <1>3. CASE ExpectRequest
    <2>1. in[Server] # <<>>
      BY <1>3 DEF ExpectRequest, Readable
    <2>2. Next1(Server).kind = "request" /\ Next1(Server).name = "initialize"
      BY <1>1, <1>3 DEF ExpectRequest, PhaseNames
    <2>3. initId' = Next1(Server).id /\ info' = [info EXCEPT ![Server] = Next1(Server).value]
      BY <1>3, <2>2 DEF ExpectRequest
    <2>. QED  BY <1>0, <1>3, <2>1, <2>2, <2>3
  <1>4. CASE AnswerInitialize \/ OnInitialized \/ CallTooEarly
    BY <1>1, <1>4 DEF AnswerInitialize, OnInitialized, CallTooEarly, PhaseNames
  <1>5. CASE ExpectNotification
    <2>1. PICK s \in {"greeted", "failed"} : Become(Server, s)
      BY <1>5 DEF ExpectNotification
    <2>. QED  BY <1>1, <2>1 DEF PhaseNames
  <1>6. CASE SendInitialize \/ ExpectResponse
    <2>1. phase[Server] = "initializing"
      BY <1>2, <1>6 DEF SendInitialize, ExpectResponse
    <2>. QED  BY <1>0, <1>6, <2>1 DEF SendInitialize, ExpectResponse
  <1>7. ASSUME NEW p \in Sides, ServeDirectly(p) \/ Stop(p)
        PROVE  phase[Server] = "initializing" /\ initId' = initId /\ info'[Server] = info[Server]
    <2>1. CASE p = Client
      BY <1>0, <1>2, <1>7, <2>1 DEF ServeDirectly, Stop
    <2>2. CASE p = Server
      BY <1>1, <1>7, <2>2 DEF ServeDirectly, Stop, PhaseNames
    <2>. QED  BY <1>0, <2>1, <2>2
  <1>8. ASSUME NEW p \in Sides, Undecodable(p) \/ InputEnds(p)
        PROVE  phase[Server] = "initializing" /\ initId' = initId /\ info'[Server] = info[Server]
    <2>1. UNCHANGED phase \/ \E s \in {"closed", "failed"} : Become(p, s)
      BY <1>8 DEF Undecodable, InputEnds, Finish
    <2>2. phase[Server] = "initializing"
      BY <1>0, <1>1, <1>2, <2>1 DEF PhaseNames
    <2>. QED  BY <1>8, <2>2 DEF Undecodable, InputEnds
  <1>9. ASSUME NEW p \in Sides, HandleRequest(p)
        PROVE  phase[Server] = "initializing" /\ initId' = initId /\ info'[Server] = info[Server]
    <2>1. phase[Server] = "initializing" /\ p # Server /\ initId' = initId
      BY <1>9 DEF HandleRequest
    <2>2. info' = info \/ \E v : info' = [info EXCEPT ![p] = v]
      BY <1>9 DEF HandleRequest
    <2>. QED  BY <1>0, <2>1, <2>2
  <1>10. ASSUME NEW p \in Sides,
                \/ HandleNotification(p) \/ HandleResult(p) \/ Stray(p) \/ \E m \in Methods(p) : Call(p, m)
         PROVE  phase[Server] = "initializing" /\ initId' = initId /\ info'[Server] = info[Server]
    BY <1>10 DEF HandleNotification, HandleResult, Stray, Call
  <1>. QED
    BY <1>3, <1>4, <1>5, <1>6, <1>7, <1>8, <1>9, <1>10 DEF Next, Server1, Serve

LEMMA VersionsKept ==
    ASSUME Typed, Next
    PROVE  VersionsKnown'
  <1>1. ASSUME phase'[Server] = "initializing"
        PROVE  info'[Server] \in Versions /\ initId' \in 0 .. Width - 1
    <2>1. CASE phase[Server] = "initializing" /\ initId' = initId /\ info'[Server] = info[Server]
      BY <2>1 DEF Typed, VersionsKnown
    <2>2. CASE /\ in[Server] # <<>> /\ Next1(Server).kind = "request"
               /\ Next1(Server).name = "initialize" /\ initId' = Next1(Server).id
               /\ info'[Server] = Next1(Server).value
      BY <2>2, HeadKnown, First DEF Typed, Sides
    <2>. QED  BY <1>1, <2>1, <2>2, Initializing
  <1>2. \A p \in Sides : \A w \in Waiting(in'[p]) : Known(p, w)
    BY AllKnown
  <1>. QED  BY <1>1, <1>2 DEF VersionsKnown, Waiting

\* What a side knows of the other.
LEMMA InfoKept ==
    ASSUME Typed, Next
    PROVE  info' \in [Sides -> Versions \cup {None}] /\ initId' \in 0 .. Width - 1 \cup {None}
  <1>0. /\ Client \in Sides /\ Server \in Sides /\ info \in [Sides -> Versions \cup {None}]
        /\ initId \in 0 .. Width - 1 \cup {None} /\ version \in [Sides -> Versions]
    BY DEF Sides, Typed, TypeOK
  <1>1. ASSUME NEW p \in Sides, ServeDirectly(p)
        PROVE  info' \in [Sides -> Versions \cup {None}] /\ initId' = initId
    BY <1>0, <1>1, OtherSide DEF ServeDirectly
  <1>2. CASE ExpectResponse
    <2>1. in[Client] # <<>>
      BY <1>2 DEF ExpectResponse, Readable
    <2>2. CASE info' = info
      BY <1>0, <1>2, <2>2 DEF ExpectResponse
    <2>3. CASE /\ Next1(Client).kind = "response" /\ Next1(Client).name = "InitializeResult"
               /\ info' = [info EXCEPT ![Client] = Next1(Client).value]
      <3>1. Next1(Client).value \in Versions
        BY <1>0, <2>1, <2>3, HeadKnown
      <3>. QED  BY <1>0, <1>2, <2>3, <3>1 DEF ExpectResponse
    <2>. QED  BY <1>2, <2>2, <2>3 DEF ExpectResponse
  <1>3. CASE ExpectRequest
    <2>1. in[Server] # <<>>
      BY <1>3 DEF ExpectRequest, Readable
    <2>2. CASE UNCHANGED <<info, initId>>
      BY <1>0, <2>2
    <2>3. CASE /\ Next1(Server).kind = "request" /\ Next1(Server).name = "initialize"
               /\ info' = [info EXCEPT ![Server] = Next1(Server).value] /\ initId' = Next1(Server).id
      <3>1. Next1(Server).value \in Versions /\ Next1(Server).id \in 0 .. Width - 1
        BY <1>0, <2>1, <2>3, HeadKnown, First DEF Typed
      <3>. QED  BY <1>0, <2>3, <3>1
    <2>. QED  BY <1>3, <2>2, <2>3 DEF ExpectRequest
  <1>4. ASSUME NEW p \in Sides, HandleRequest(p)
        PROVE  info' \in [Sides -> Versions \cup {None}] /\ initId' = initId
    <2>1. in[p] # <<>> /\ Next1(p).kind = "request" /\ initId' = initId
      BY <1>4 DEF HandleRequest, Readable
    <2>2. CASE info' = info
      BY <1>0, <2>1, <2>2
    <2>3. CASE Next1(p).name = "initialize" /\ info' = [info EXCEPT ![p] = Next1(p).value]
      BY <1>0, <2>1, <2>3, HeadKnown
    <2>. QED  BY <1>4, <2>2, <2>3 DEF HandleRequest
  <1>5. CASE SendInitialize \/ AnswerInitialize \/ ExpectNotification \/ OnInitialized \/ CallTooEarly
    BY <1>0, <1>5 DEF SendInitialize, AnswerInitialize, ExpectNotification, OnInitialized, CallTooEarly
  <1>6. ASSUME NEW p \in Sides,
               \/ HandleNotification(p) \/ HandleResult(p) \/ Undecodable(p) \/ InputEnds(p)
               \/ Stray(p) \/ Stop(p) \/ \E m \in Methods(p) : Call(p, m)
        PROVE  UNCHANGED <<info, initId>>
    BY <1>6 DEF HandleNotification, HandleResult, Undecodable, InputEnds, Stray, Stop, Call
  <1>. QED
    BY <1>0, <1>1, <1>2, <1>3, <1>4, <1>5, <1>6 DEF Next, Server1, Serve

\* The bounds, and what a call returned.
LEMMA BoundsKept ==
    ASSUME Typed, Next
    PROVE  /\ version' = version /\ direct' \subseteq Sides
           /\ \A p \in Sides : calls'[p] \in 0 .. MaxCalls
           /\ result' \in [Sides -> {"none", "ok", "error", "unexpected"}] /\ strays' \in 0 .. MaxStrays
  <1>0. /\ direct \subseteq Sides /\ \A p \in Sides : calls[p] \in 0 .. MaxCalls
        /\ result \in [Sides -> {"none", "ok", "error", "unexpected"}] /\ strays \in 0 .. MaxStrays
        /\ MaxCalls \in Nat /\ MaxStrays \in Nat /\ calls \in [Sides -> Nat]
    BY HandshakeAssumption DEF Typed, TypeOK, Counted
  <1>1. ASSUME NEW p \in Sides, ServeDirectly(p)
        PROVE  version' = version /\ direct' \subseteq Sides /\ UNCHANGED <<calls, result, strays>>
    BY <1>0, <1>1 DEF ServeDirectly
  <1>2. ASSUME NEW p \in Sides, NEW m \in Methods(p), Call(p, m)
        PROVE  /\ UNCHANGED <<version, direct, strays>> /\ \A q \in Sides : calls'[q] \in 0 .. MaxCalls
               /\ result' \in [Sides -> {"none", "ok", "error", "unexpected"}]
    BY <1>0, <1>2 DEF Call
  <1>3. ASSUME NEW p \in Sides, HandleResult(p)
        PROVE  /\ UNCHANGED <<version, direct, calls, strays>>
               /\ result' \in [Sides -> {"none", "ok", "error", "unexpected"}]
    <2>1. UNCHANGED <<version, direct, calls, strays>>
      BY <1>3 DEF HandleResult
    <2>2. result' = result \/ \E r \in {"ok", "error", "unexpected"} : result' = [result EXCEPT ![p] = r]
      BY <1>3 DEF HandleResult, Return
    <2>. QED  BY <1>0, <2>1, <2>2
  <1>4. ASSUME NEW p \in Sides, Stray(p)
        PROVE  UNCHANGED <<version, direct, calls, result>> /\ strays' \in 0 .. MaxStrays
    BY <1>0, <1>4 DEF Stray
  <1>5. ASSUME NEW p \in Sides,
               \/ HandleRequest(p) \/ HandleNotification(p) \/ Undecodable(p) \/ InputEnds(p) \/ Stop(p)
        PROVE  UNCHANGED <<version, direct, calls, result, strays>>
    BY <1>5 DEF HandleRequest, HandleNotification, Undecodable, InputEnds, Stop
  <1>6. CASE \/ SendInitialize \/ ExpectResponse \/ Server1 \/ CallTooEarly
    <2>1. UNCHANGED <<version, direct, calls, result, strays>>
      BY <1>6 DEF SendInitialize, ExpectResponse, Server1, ExpectRequest, AnswerInitialize,
                  ExpectNotification, OnInitialized, CallTooEarly
    <2>. QED  BY <1>0, <2>1
  <1>. QED
    BY <1>0, <1>1, <1>2, <1>3, <1>4, <1>5, <1>6 DEF Next, Serve

LEMMA TypedNext ==
    ASSUME Typed, [Next]_vars
    PROVE  Typed'
  <1>1. CASE UNCHANGED vars
    BY <1>1 DEF vars, Typed, TypeOK, Queues, Counted, VersionsKnown, Waiting, Left
  <1>2. CASE Next
    <2>1. Queues'
      BY <1>2, Traffic DEF Adds, AddsNothing
    <2>2. Counted' /\ VersionsKnown'
      BY <1>2, CountedKept, VersionsKept
    <2>3. \A p \in Sides : \A i \in DOMAIN in'[p] : in'[p][i].id \in Nat \cup {None}
      <3>1. \A p \in Sides : in'[p] \in Seq(Wire)
        BY <2>1 DEF Queues
      <3>2. ASSUME NEW s \in Seq(Wire), NEW i \in DOMAIN s PROVE s[i] \in Wire
        BY ElementOfSeq, LenProperties
      <3>. QED  BY <3>1, <3>2 DEF Wire
    <2>4. \A p \in Sides : calls'[p] \in 0 .. MaxCalls /\ nextId'[p] \in 0 .. 1 + MaxCalls * Pages
      <3>1. \A p \in Sides : calls'[p] \in 0 .. MaxCalls
        BY <1>2, BoundsKept
      <3>2. ASSUME NEW p \in Sides PROVE nextId'[p] \in 0 .. 1 + MaxCalls * Pages
        <4>1. /\ nextId'[p] \in Nat /\ calls'[p] \in Nat /\ nextId'[p] + Left(p)' <= 1 + calls'[p] * Pages
              /\ call'[p] # None => call'[p].page \in 1 .. Pages
          BY <2>2 DEF Counted, Ongoing
        <4>2. Left(p)' \in Nat
          BY <4>1, HandshakeAssumption DEF Left
        <4>3. calls'[p] * Pages \in Nat /\ MaxCalls * Pages \in Nat /\ calls'[p] * Pages <= MaxCalls * Pages
          BY <3>1, <4>1, PagesCount, HandshakeAssumption
        <4>. QED  BY <4>1, <4>2, <4>3
      <3>. QED  BY <3>1, <3>2
    <2>5. \A p \in Sides : call'[p] # None => call'[p].method \in Methods(p) /\ call'[p].page \in 1 .. Pages
      BY <2>2 DEF Counted, Ongoing
    <2>6. version' \in [Sides -> Versions]
      BY <1>2, BoundsKept DEF Typed, TypeOK
    <2>7. TypeOK'
      BY <1>2, <2>3, <2>4, <2>5, <2>6, Phases, InfoKept, BoundsKept DEF TypeOK, PhaseNames
    <2>. QED  BY <2>1, <2>2, <2>7 DEF Typed
  <1>. QED  BY <1>1, <1>2

LEMMA TypedInit == Init => Typed
  <1>. SUFFICES ASSUME Init PROVE Typed
    OBVIOUS
  <1>1. Queues /\ \A p \in Sides : in[p] = <<>> /\ Waiting(in[p]) = {}
    BY DEF Init, Each, Queues, Waiting
  <1>2. \A p \in Sides : phase[p] = "new" /\ nextId[p] = 0 /\ call[p] = None /\ calls[p] = 0
    BY DEF Init, Each
  <1>3. Server \in Sides /\ \A p \in Sides : Left(p) = 0 /\ calls[p] * Pages \in Nat
    BY <1>2, HandshakeAssumption DEF Left, Sides
  <1>4. Counted
    BY <1>2, <1>3 DEF Init, Each, Counted
  <1>5. VersionsKnown
    BY <1>1, <1>2, <1>3 DEF VersionsKnown
  <1>6. TypeOK
    <2>1. MaxCalls * Pages \in Nat /\ MaxCalls \in Nat /\ MaxStrays \in Nat
      BY HandshakeAssumption, PagesCount
    <2>2. \A p \in Sides : /\ nextId[p] \in 0 .. 1 + MaxCalls * Pages /\ calls[p] \in 0 .. MaxCalls
                           /\ \A i \in DOMAIN in[p] : in[p][i].id \in Nat \cup {None}
      BY <1>1, <1>2, <2>1
    <2>. QED  BY <1>2, <2>1, <2>2 DEF Init, Each, TypeOK
  <1>. QED  BY <1>1, <1>4, <1>5, <1>6 DEF Typed

\* Every variable keeps its type: a call takes no more ids than it has pages left, and whatever
\* answers or asks for initialize names a version (client.rs 129-178, server.rs 135-216).
THEOREM HandshakeTyping == Spec => []TypeOK
  <1>1. Typed => TypeOK
    BY DEF Typed
  <1>. QED  BY <1>1, TypedInit, TypedNext, PTL DEF Spec

-----------------------------------------------------------------------------
\* ---- answers

\* A side gave out this id, or it is the id of the ping that no side sent.
Given(p, id) == id < nextId[p] \/ id = Width - 1
\* A request carries the method of the call that waits under its id, and a response the kind that call expects.
Asks(q, d) == Given(q, d.id) /\ (call[q] # None /\ call[q].id = d.id => call[q].method = d.name)
Answers(p, d) ==
    Given(p, d.id) /\ (call[p] # None /\ call[p].id = d.id => d.name = Expected[call[p].method])
Fitting(p, d) ==
    /\ d.kind = "request" => Asks(Other(p), d)
    /\ d.kind = "response" => Answers(p, d)

Matched ==
    /\ \A p \in Sides : \A w \in Waiting(in[p]) : Fitting(p, Decode(Other(p), w))
    /\ \A p \in Sides : call[p] # None => call[p].id < nextId[p]
    /\ phase[Server] = "initializing" =>
        Given(Client, initId) /\ (call[Client] # None => call[Client].id # initId)

\* The calls of a side use fewer ids than there are, so that none comes round.
Enough == 1 + MaxCalls * Pages < Width

LEMMA IdsLeft ==
    ASSUME Enough, Typed, NEW p \in Sides
    PROVE  /\ nextId[p] \in Nat /\ nextId[p] <= Width - 1 /\ Width \in Nat
           /\ call[p] # None => call[p].id \in Nat /\ call[p].method \in Methods(p)
  <1>1. MaxCalls * Pages \in Nat /\ Width \in Nat
    BY PagesCount, HandshakeAssumption
  <1>2. nextId[p] \in 0 .. 1 + MaxCalls * Pages
    BY DEF Typed, TypeOK
  <1>. QED  BY <1>1, <1>2 DEF Enough, Typed, Counted, Ongoing

\* A call keeps its id, ends, or goes on under the next one.
LEMMA CallSteps ==
    ASSUME Typed, Next, NEW p \in Sides
    PROVE  /\ nextId'[p] = nextId[p] \/ nextId'[p] = nextId[p] + 1
           /\ \/ call'[p] = None \/ call'[p] = call[p]
              \/ call'[p].id = nextId[p] /\ nextId'[p] = nextId[p] + 1
  <1>0. nextId \in [Sides -> Nat] /\ DOMAIN call = Sides /\ Client \in Sides
        /\ \A q \in Sides : call[q] # None => call[q] \in Ongoing(q)
    BY DEF Typed, Counted, Sides
  <1>1. CASE UNCHANGED <<nextId, call>>
    BY <1>1
  <1>2. CASE SendInitialize
    BY <1>0, <1>2 DEF SendInitialize
  <1>3. ASSUME NEW q \in Sides, NEW m \in Methods(q), Call(q, m)
        PROVE  /\ nextId'[p] = nextId[p] \/ nextId'[p] = nextId[p] + 1
               /\ \/ call'[p] = None \/ call'[p] = call[p]
                  \/ call'[p].id = nextId[p] /\ nextId'[p] = nextId[p] + 1
    BY <1>0, <1>3 DEF Call
  <1>4. ASSUME NEW q \in Sides, HandleResult(q)
        PROVE  /\ nextId'[p] = nextId[p] \/ nextId'[p] = nextId[p] + 1
               /\ \/ call'[p] = None \/ call'[p] = call[p]
                  \/ call'[p].id = nextId[p] /\ nextId'[p] = nextId[p] + 1
    <2>1. CASE UNCHANGED nextId /\ (UNCHANGED call \/ call' = [call EXCEPT ![q] = None])
      BY <1>0, <2>1
    <2>2. CASE /\ call[q] # None /\ call' = [call EXCEPT ![q].id = nextId[q], ![q].page = @ + 1]
               /\ nextId' = [nextId EXCEPT ![q] = @ + 1]
      <3>1. PICK c : c = [call[q] EXCEPT !.id = nextId[q], !.page = call[q].page + 1]
        OBVIOUS
      <3>2. call' = [call EXCEPT ![q] = c] /\ c.id = nextId[q]
        BY <1>0, <2>2, <3>1 DEF Ongoing
      <3>. QED  BY <1>0, <2>2, <3>2
    <2>. QED  BY <1>4, <2>1, <2>2 DEF HandleResult, Return
  <1>5. ASSUME NEW q \in Sides,
               \/ ServeDirectly(q) \/ HandleRequest(q) \/ HandleNotification(q)
               \/ Undecodable(q) \/ InputEnds(q) \/ Stray(q) \/ Stop(q)
        PROVE  UNCHANGED <<nextId, call>>
    BY <1>5 DEF ServeDirectly, HandleRequest, HandleNotification, Undecodable, InputEnds, Stray, Stop
  <1>6. CASE ExpectResponse \/ Server1 \/ CallTooEarly
    <2>1. UNCHANGED <<nextId, call>>
      BY <1>6 DEF ExpectResponse, Server1, ExpectRequest, AnswerInitialize, ExpectNotification,
                  OnInitialized, CallTooEarly
    <2>. QED  BY <2>1
  <1>. QED
    BY <1>1, <1>2, <1>3, <1>4, <1>5, <1>6 DEF Next, Serve

\* An id that was given out stays so, and no later call gets it.
LEMMA GivenStays ==
    ASSUME Enough, Typed, Typed', Next, NEW p \in Sides, NEW id \in Nat, Given(p, id)
    PROVE  /\ Given(p, id)'
           /\ call'[p] # None /\ call'[p].id = id => call'[p] = call[p]
  <1>1. /\ nextId[p] \in Nat /\ nextId'[p] \in Nat /\ nextId'[p] <= Width - 1 /\ Width \in Nat
    <2>1. nextId[p] \in 0 .. 1 + MaxCalls * Pages /\ nextId'[p] \in 0 .. 1 + MaxCalls * Pages
      BY DEF Typed, TypeOK
    <2>2. MaxCalls * Pages \in Nat /\ Width \in Nat
      BY PagesCount, HandshakeAssumption
    <2>. QED  BY <2>1, <2>2 DEF Enough
  <1>2. /\ nextId'[p] = nextId[p] \/ nextId'[p] = nextId[p] + 1
        /\ \/ call'[p] = None \/ call'[p] = call[p]
           \/ call'[p].id = nextId[p] /\ nextId'[p] = nextId[p] + 1
    BY CallSteps
  <1>. QED  BY <1>1, <1>2 DEF Given

\* What is on the way keeps fitting.
LEMMA FittingStays ==
    ASSUME Enough, Typed, Typed', Next, NEW p \in Sides, NEW d, d.id \in Nat, Fitting(p, d)
    PROVE  Fitting(p, d)'
  <1>1. CASE d.kind = "request"
    <2>1. /\ Given(Other(p), d.id) /\ Other(p) \in Sides
          /\ call[Other(p)] # None /\ call[Other(p)].id = d.id => call[Other(p)].method = d.name
      BY <1>1, OtherSide DEF Fitting, Asks
    <2>. QED  BY <1>1, <2>1, GivenStays DEF Fitting, Asks
  <1>2. CASE d.kind = "response"
    BY <1>2, GivenStays DEF Fitting, Answers
  <1>. QED  BY <1>1, <1>2 DEF Fitting

\* Every method asks for the kind the handler of the other side gives.
LEMMA ExpectedIsHandled ==
    \A p \in Sides : \A m \in Methods(p) : Expected[m] = HandledAs(m)
  BY DEF Methods, Expected, HandledAs, ServerRequest, Lists

LEMMA FittingNext ==
    ASSUME Enough, Typed, Typed', Matched, Next
    PROVE  \A p \in Sides : \A w \in Waiting(in'[p]) : Fitting(p, Decode(Other(p), w))'
  <1>. DEFINE Fits1(p, w) == Fitting(p, Decode(Other(p), w))'
  <1>0. /\ Client \in Sides /\ Server \in Sides /\ Other(Client) = Server /\ Other(Server) = Client
        /\ DOMAIN call = Sides /\ nextId \in [Sides -> Nat]
        /\ \A p \in Sides : call[p] # None => call[p] \in Ongoing(p)
    BY HandshakeAssumption DEF Sides, Other, Typed, Counted
  <1>1. ASSUME NEW p \in Sides, NEW w \in Waiting(in[p])
        PROVE  Fits1(p, w)
    <2>1. PICK d : d = Decode(Other(p), w)
      OBVIOUS
    <2>2. Fitting(p, d)
      BY <2>1 DEF Matched
    <2>3. d.kind \in {"request", "response"} => d.id \in Nat
      <3>1. w \in Wire
        <4>1. in[p] \in Seq(Wire)
          BY DEF Typed, Queues
        <4>2. \A i \in DOMAIN in[p] : in[p][i] \in Wire
          BY <4>1, ElementOfSeq, LenProperties
        <4>. QED  BY <1>1, <4>2 DEF Waiting
      <3>2. d.kind \in {"request", "response"} => w.id # None /\ d.id = IdOf(w)
        BY <2>1 DEF Decode
      <3>3. w.id # None => IdOf(w) \in 0 .. Width - 1
        BY <3>1, CutId DEF IdOf, Wire
      <3>. QED  BY <3>2, <3>3
    <2>4. CASE d.kind \in {"request", "response"}
      BY <2>1, <2>2, <2>3, <2>4, FittingStays
    <2>5. CASE d.kind \notin {"request", "response"}
      BY <2>1, <2>5 DEF Fitting
    <2>. QED  BY <2>4, <2>5
  <1>2. CASE AddsNothing
    BY <1>1, <1>2 DEF AddsNothing
  <1>3. ASSUME NEW p \in Sides, NEW w, Adds(p, w), Fits1(p, w)
        PROVE  \A q \in Sides : \A x \in Waiting(in'[q]) : Fits1(q, x)
    BY <1>1, <1>3 DEF Adds
  <1>4. ASSUME NEW p \in Sides, NEW w,
               Decode(Other(p), w).kind \in {"notification", "error", "undecodable"}
        PROVE  Fits1(p, w)
    BY <1>4 DEF Fitting
  <1>5. ASSUME NEW p \in Sides, NEW i, i = nextId[p]
        PROVE  i \in Nat /\ i % Width = i /\ (nextId'[p] = i + 1 => Given(p, i)')
    <2>1. i \in Nat /\ i < Width
      BY <1>5, IdsLeft
    <2>. QED  BY <2>1, CutId DEF Given
  <1>6. CASE /\ SendInitialize
             /\ Adds(Server, RequestOf(Client, nextId[Client], "initialize", version[Client]))
    <2>0. PICK i, v, w : i = nextId[Client] /\ v = version[Client] /\ w = RequestOf(Client, i, "initialize", v)
      OBVIOUS
    <2>1. v \in Nat /\ nextId'[Client] = i + 1 /\ call'[Client] = None
      BY <1>0, <1>6, <2>0, HandshakeAssumption DEF SendInitialize, Typed, TypeOK, Counted
    <2>2. Decode(Client, w) = [kind |-> "request", id |-> i, name |-> "initialize", value |-> v]
      BY <1>0, <1>5, <2>0, <2>1, Requested, MethodsAreRequests
    <2>3. Given(Client, i)'
      BY <1>0, <1>5, <2>0, <2>1
    <2>4. Fits1(Server, w)
      BY <1>0, <2>1, <2>2, <2>3 DEF Fitting, Asks
    <2>. QED  BY <1>0, <1>3, <1>6, <2>0, <2>4
  <1>7. CASE Adds(Server, NotificationOf(Client, "notifications/initialized"))
    <2>1. Fits1(Server, NotificationOf(Client, "notifications/initialized"))
      BY <1>0, <1>4, Notified, MethodsAreRequests
    <2>. QED  BY <1>0, <1>3, <1>7, <2>1
  <1>8. CASE /\ AnswerInitialize /\ phase[Server] = "initializing"
             /\ \/ Adds(Client, ResponseOf(initId, "InitializeResult",
                                           Negotiate(info[Server], version[Server])))
                \/ Adds(Client, ErrorOf(initId))
    <2>0. PICK i, v : i = initId /\ v = Negotiate(info[Server], version[Server])
      OBVIOUS
    <2>1. /\ i \in Nat /\ i % Width = i /\ v \in Nat
      <3>1. i \in 0 .. Width - 1 /\ info[Server] \in Versions /\ version[Server] \in Versions
        BY <1>0, <1>8, <2>0 DEF Typed, TypeOK, VersionsKnown
      <3>2. v \in Nat
        BY <2>0, <3>1, HandshakeAssumption DEF Negotiate
      <3>. QED  BY <3>1, <3>2, CutId, HandshakeAssumption
    <2>2. /\ UNCHANGED <<nextId, call>> /\ Given(Client, i) /\ (call[Client] # None => call[Client].id # i)
      BY <1>8, <2>0 DEF Matched, AnswerInitialize
    <2>3. Decode(Server, ResponseOf(i, "InitializeResult", v))
             = [kind |-> "response", id |-> i, name |-> "InitializeResult", value |-> v]
      BY <1>0, <2>1, Responded, MethodsAreRequests
    <2>4. Given(Client, i)' /\ ~ (call'[Client] # None /\ call'[Client].id = i)
      BY <2>2 DEF Given
    <2>5. Fits1(Client, ResponseOf(i, "InitializeResult", v))
      BY <1>0, <2>3, <2>4 DEF Fitting, Answers
    <2>6. Fits1(Client, ErrorOf(i))
      BY <1>0, <1>4, <2>1, Errored
    <2>. QED  BY <1>0, <1>3, <1>8, <2>0, <2>5, <2>6
  <1>9. ASSUME NEW p \in Sides, NEW m \in Methods(p), NEW v \in Nat,
               Adds(Other(p), RequestOf(p, nextId[p], m, v)),
               call'[p].method = m, nextId'[p] = nextId[p] + 1
        PROVE  \A q \in Sides : \A w \in Waiting(in'[q]) : Fits1(q, w)
    <2>0. PICK i, w : i = nextId[p] /\ w = RequestOf(p, i, m, v)
      OBVIOUS
    <2>1. Decode(p, w) = [kind |-> "request", id |-> i, name |-> m, value |-> v]
      BY <1>5, <2>0, Requested, MethodsAreRequests
    <2>2. Given(p, i)'
      BY <1>5, <1>9, <2>0
    <2>3. Fits1(Other(p), w)
      BY <1>9, <2>1, <2>2, OtherSide DEF Fitting, Asks
    <2>. QED  BY <1>3, <1>9, <2>0, <2>3, OtherSide
  <1>10. ASSUME NEW p \in Sides, NEW m \in Methods(p), Call(p, m),
                Adds(Other(p), RequestOf(p, nextId[p], m, 1))
         PROVE  \A q \in Sides : \A w \in Waiting(in'[q]) : Fits1(q, w)
    <2>1. call'[p].method = m /\ nextId'[p] = nextId[p] + 1 /\ 1 \in Nat
      BY <1>0, <1>10 DEF Call
    <2>. QED  BY <1>9, <1>10, <2>1
  <1>11. ASSUME NEW p \in Sides, NEW d \in {Next1(p)}, HandleRequest(p), in[p] # <<>>, d.kind = "request",
                \/ Adds(Other(p), ResponseOf(d.id, HandledAs(d.name),
                                             IF d.name = "initialize" THEN version[p] ELSE d.value))
                \/ Adds(Other(p), ErrorOf(d.id))
         PROVE  \A q \in Sides : \A w \in Waiting(in'[q]) : Fits1(q, w)
    <2>1. PICK v : v = IF d.name = "initialize" THEN version[p] ELSE d.value
      OBVIOUS
    <2>2. /\ d.id \in Nat /\ d.id % Width = d.id /\ d.name \in DOMAIN Requests(Other(p))
          /\ v \in Nat \cup {None}
      <3>1. /\ d.id \in 0 .. Width - 1 /\ d.name \in DOMAIN Requests(Other(p))
            /\ d.value \in Nat \cup {None} /\ version[p] \in Nat
        BY <1>11, First, HandshakeAssumption DEF Typed, TypeOK
      <3>. QED  BY <2>1, <3>1, CutId, HandshakeAssumption
    <2>3. PICK k \in DOMAIN ResultFields : k = HandledAs(d.name) /\ ResultKind(p, ResultFields[k]) = k
      BY <2>2, AnswersHaveKinds
    <2>4. Decode(p, ResponseOf(d.id, k, v)) = [kind |-> "response", id |-> d.id, name |-> k, value |-> v]
      <3>1. Decode(p, ResponseOf(d.id, k, v))
               = [kind |-> "response", id |-> d.id % Width, name |-> k, value |-> v]
        BY <2>2, <2>3, Responded
      <3>. QED  BY <2>2, <3>1
    <2>5. UNCHANGED <<nextId, call>> /\ Other(p) \in Sides /\ Other(Other(p)) = p
      BY <1>11, OtherSide DEF HandleRequest
    <2>6. Asks(Other(p), d)
      <3>1. Head(in[p]) \in Waiting(in[p]) /\ d = Decode(Other(p), Head(in[p]))
        BY <1>11, First DEF Typed, Next1
      <3>. QED  BY <1>11, <3>1 DEF Matched, Fitting
    <2>7. call[Other(p)] # None /\ call[Other(p)].id = d.id => k = Expected[call[Other(p)].method]
      BY <1>0, <2>3, <2>5, <2>6, ExpectedIsHandled DEF Asks, Ongoing
    <2>8. Given(Other(p), d.id)'
      BY <2>5, <2>6 DEF Asks, Given
    <2>9. Fits1(Other(p), ResponseOf(d.id, k, v))
      BY <2>4, <2>5, <2>7, <2>8 DEF Fitting, Answers
    <2>10. Fits1(Other(p), ErrorOf(d.id))
      BY <1>4, <2>2, <2>5, Errored
    <2>. QED  BY <1>3, <1>11, <2>1, <2>3, <2>5, <2>9, <2>10
  <1>12. ASSUME NEW p \in Sides, HandleResult(p), call[p] # None, call[p].page < Pages,
                call' = [call EXCEPT ![p].id = nextId[p], ![p].page = @ + 1],
                nextId' = [nextId EXCEPT ![p] = @ + 1],
                Adds(Other(p), RequestOf(p, nextId[p], call[p].method, call[p].page + 1))
         PROVE  \A q \in Sides : \A w \in Waiting(in'[q]) : Fits1(q, w)
    <2>1. PICK c : c = [call[p] EXCEPT !.id = nextId[p], !.page = call[p].page + 1]
      OBVIOUS
    <2>2. call[p] \in Ongoing(p) /\ c.method = call[p].method /\ call'[p] = c
      BY <1>0, <1>12, <2>1 DEF Ongoing
    <2>3. nextId'[p] = nextId[p] + 1
      BY <1>0, <1>12
    <2>4. call[p].method \in Methods(p) /\ call[p].page + 1 \in Nat
      BY <2>2 DEF Ongoing
    <2>. QED  BY <1>9, <1>12, <2>2, <2>3, <2>4
  <1>13. ASSUME NEW p \in Sides, NEW w \in Strays(p), Adds(p, w)
         PROVE  \A q \in Sides : \A x \in Waiting(in'[q]) : Fits1(q, x)
    <2>1. CASE Decode(Other(p), w).kind \in {"notification", "undecodable"}
      BY <1>3, <1>4, <1>13, <2>1
    <2>2. CASE Decode(Other(p), w).kind = "request" /\ Decode(Other(p), w).id = Width - 1
      <3>1. Given(Other(p), Width - 1)' /\ Given(Other(p), Width - 1)
        BY DEF Given
      <3>2. call[Other(p)] # None => call[Other(p)].id # Width - 1
        BY OtherSide, IdsLeft DEF Matched
      <3>3. Width - 1 \in Nat
        BY HandshakeAssumption
      <3>4. ~ (call'[Other(p)] # None /\ call'[Other(p)].id = Width - 1)
        BY <3>1, <3>2, <3>3, GivenStays, OtherSide
      <3>5. Fits1(p, w)
        BY <2>2, <3>1, <3>4 DEF Fitting, Asks
      <3>. QED  BY <1>3, <1>13, <3>5
    <2>. QED  BY <1>13, <2>1, <2>2, Strayed
  <1>. QED
    BY <1>2, <1>6, <1>7, <1>8, <1>10, <1>11, <1>12, <1>13, Traffic

LEMMA MatchedNext ==
    ASSUME Enough, Typed, Typed', Matched, Next
    PROVE  Matched'
  <1>1. \A p \in Sides : \A w \in Waiting(in'[p]) : Fitting(p, Decode(Other(p), w))'
    BY FittingNext
  <1>2. ASSUME NEW p \in Sides, call'[p] # None
        PROVE  call'[p].id < nextId'[p]
    <2>1. /\ nextId[p] \in Nat /\ (call[p] # None => call[p].id \in Nat /\ call[p].id < nextId[p])
      BY IdsLeft DEF Matched
    <2>. QED  BY <1>2, <2>1, CallSteps
  <1>3. ASSUME phase'[Server] = "initializing", NEW i, i = initId'
        PROVE  Given(Client, i)' /\ (call'[Client] # None => call'[Client].id # i)
    <2>0. Client \in Sides /\ Server \in Sides /\ Other(Server) = Client
      BY HandshakeAssumption DEF Sides, Other
    <2>1. i \in Nat
      BY <1>3 DEF Typed, VersionsKnown
    <2>2. Given(Client, i) /\ (call[Client] # None => call[Client].id # i)
      <3>1. CASE phase[Server] = "initializing" /\ initId' = initId
        BY <1>3, <3>1 DEF Matched
      <3>2. CASE /\ in[Server] # <<>> /\ Next1(Server).kind = "request"
                 /\ Next1(Server).name = "initialize" /\ initId' = Next1(Server).id
        <4>1. Head(in[Server]) \in Waiting(in[Server])
          BY <2>0, <3>2, First DEF Typed
        <4>2. Asks(Client, Next1(Server))
          BY <2>0, <3>2, <4>1 DEF Matched, Fitting, Next1
        <4>3. call[Client] # None => call[Client].method # "initialize"
          BY <2>0, IdsLeft, MethodsAreRequests
        <4>. QED  BY <1>3, <3>2, <4>2, <4>3 DEF Asks
      <3>. QED  BY <1>3, <3>1, <3>2, Initializing
    <2>. QED  BY <2>0, <2>1, <2>2, GivenStays
  <1>4. phase'[Server] = "initializing" =>
          Given(Client, initId)' /\ (call'[Client] # None => call'[Client].id # initId')
    <2>1. PICK i : i = initId'
      OBVIOUS
    <2>. QED  BY <1>3, <2>1 DEF Given
  <1>. QED  BY <1>1, <1>2, <1>4 DEF Matched, Waiting

LEMMA TypedAnswersNext ==
    ASSUME Enough, Typed, Matched, TypedAnswers, [Next]_vars
    PROVE  TypedAnswers'
  <1>0. result \in [Sides -> {"none", "ok", "error", "unexpected"}] /\ \A p \in Sides : result[p] # "unexpected"
    BY DEF Typed, TypeOK, TypedAnswers
  <1>1. CASE UNCHANGED result
    BY <1>1 DEF TypedAnswers
  <1>2. ASSUME NEW p \in Sides, NEW m \in Methods(p), Call(p, m)
        PROVE  TypedAnswers'
    BY <1>0, <1>2 DEF Call, TypedAnswers
  <1>3. ASSUME NEW p \in Sides, HandleResult(p)
        PROVE  TypedAnswers'
    <2>1. in[p] # <<>> /\ Next1(p).kind \in {"response", "error"}
      BY <1>3 DEF HandleResult, Readable
    <2>2. Head(in[p]) \in Waiting(in[p]) /\ Next1(p) = Decode(Other(p), Head(in[p]))
      BY <2>1, First DEF Typed, Next1
    <2>3. Next1(p).kind = "response" => Answers(p, Next1(p))
      BY <2>2 DEF Matched, Fitting
    <2>4. ~ (/\ call[p] # None /\ call[p].id = Next1(p).id /\ Next1(p).kind # "error"
             /\ Next1(p).name # Expected[call[p].method])
      BY <2>1, <2>3 DEF Answers
    <2>5. result' = result \/ \E r \in {"ok", "error"} : result' = [result EXCEPT ![p] = r]
      BY <1>3, <2>4 DEF HandleResult, Return
    <2>. QED  BY <1>0, <2>5 DEF TypedAnswers
  <1>4. ASSUME NEW p \in Sides,
               \/ ServeDirectly(p) \/ HandleRequest(p) \/ HandleNotification(p)
               \/ Undecodable(p) \/ InputEnds(p) \/ Stray(p) \/ Stop(p)
        PROVE  UNCHANGED result
    BY <1>4 DEF ServeDirectly, HandleRequest, HandleNotification, Undecodable, InputEnds, Stray, Stop
  <1>5. CASE SendInitialize \/ ExpectResponse \/ Server1 \/ CallTooEarly
    <2>1. UNCHANGED result
      BY <1>5 DEF SendInitialize, ExpectResponse, Server1, ExpectRequest, AnswerInitialize,
                  ExpectNotification, OnInitialized, CallTooEarly
    <2>. QED  BY <1>1, <2>1
  <1>. QED
    BY <1>1, <1>2, <1>3, <1>4, <1>5 DEF Next, Serve, vars

\* A call gets a result of the kind its handler gave or none, whatever the other messages are and
\* although an empty result fits them all, as long as the ids do not come round: 2^32 of them
\* (model.rs 1096-1109, handler/server.rs 17-66, client.rs 262-281).
THEOREM AnswersKeepKind == Enough => (Spec => []TypedAnswers)
  <1>. SUFFICES ASSUME Enough PROVE Spec => []TypedAnswers
    OBVIOUS
  <1>. DEFINE Right == Typed /\ Matched /\ TypedAnswers
  <1>1. Init => Right
    <2>. SUFFICES ASSUME Init PROVE Right
      OBVIOUS
    <2>1. \A p \in Sides : Waiting(in[p]) = {} /\ call[p] = None /\ phase[p] = "new" /\ result[p] = "none"
      BY DEF Init, Each, Waiting
    <2>2. Server \in Sides
      BY DEF Sides
    <2>. QED  BY <2>1, <2>2, TypedInit DEF Matched, TypedAnswers
  <1>2. Right /\ [Next]_vars => Right'
    <2>. SUFFICES ASSUME Right, [Next]_vars PROVE Right'
      OBVIOUS
    <2>1. Typed' /\ TypedAnswers'
      BY TypedNext, TypedAnswersNext
    <2>2. CASE Next
      BY <2>1, <2>2, MatchedNext
    <2>3. CASE UNCHANGED vars
      BY <2>1, <2>3 DEF Matched, vars, Fitting, Asks, Answers, Given, Waiting
    <2>. QED  BY <2>2, <2>3
  <1>3. Right => TypedAnswers
    OBVIOUS
  <1>. QED  BY <1>1, <1>2, <1>3, PTL DEF Spec
=============================================================================
