------------------------- MODULE StreamableHttpProofs -------------------------
(***************************************************************************)
(* What holds of a client of the streamable HTTP transport and its session *)
(* for any number of requests, notifications and broken streams and any    *)
(* capacity of the channels and of the cache of the session.               *)
(***************************************************************************)
EXTENDS StreamableHttp, FiniteSetTheorems, SequenceTheorems, TLAPS

USE DEF worker, net, streams, server, handler, taskLocal, client

Bound == MaxNotes + Cardinality(Requests)
TaskStates == [st : {"none", "open", "retrying", "asking", "done"}, wire : Seq(Event),
               last : Event \cup {None}, reads : Streams \cup {None}]

\* ---- the handshake
\* Until the worker has the answer to initialize nothing else was sent, and what the service is
\* given before it runs is that answer alone.
Opening == pc \in {"wait_initialize", "hand_initialize"} \/ (pc = "posting" /\ cur = Initialize)
Early == service \in {"new", "initializing", "greeting"}
HandshakeInOrder ==
    /\ service = "new" => sent = <<>> /\ pc = "wait_initialize"
    /\ Opening => /\ service \in {"new", "initializing", "dropped"}
                  /\ toHandler = <<>> /\ sent \in {<<>>, <<Initialize>>}
                  /\ \A m \in Msgs \ {Initialize} : send[m] = "none"
    /\ pc = "wait_initialize" => fromHandler = sent
    /\ Early => /\ Opening \/ pc \in {"wait_initialized", "ended"}
                /\ \A m \in Msgs \ {Initialize} : send[m] = "none"
    /\ service = "initializing" => toHandler \in {<<>>, <<None>>}
    /\ service \in {"new", "greeting"} => toHandler = <<>>
    /\ service \in {"running", "closing"} => toHandler \in Seq(Event)

\* What the worker holds is of the kind it works on; a worker that ended has nothing, and its tasks
\* are gone.
Holding ==
    /\ pc = "hand" => cur \in Event
    /\ pc = "posting" => cur \in Msgs
    /\ pc = "ended" => fromHandler = <<>> /\ sse = <<>> /\ \A k \in Streams : task[k].st = "done"
    /\ task \in [Streams -> TaskStates]

\* ---- one POST at a time
\* The channel holds the end of what was sent, each message once, and the worker posts the message
\* before it.
Taken == Len(sent) - Len(fromHandler)
Before(n) == {sent[x] : x \in 1 .. n}
InSendOrder ==
    /\ Len(fromHandler) <= Len(sent)
    /\ \A i, j \in DOMAIN sent : sent[i] = sent[j] => i = j
    /\ \A m \in Msgs : send[m] = "none" => \A i \in DOMAIN sent : sent[i] # m
    /\ \A i \in DOMAIN fromHandler : /\ send[fromHandler[i]] = "queued"
                                     /\ pc # "wait_initialize" => fromHandler[i] # Initialize
    /\ pc # "ended" => \A i \in DOMAIN fromHandler : fromHandler[i] = sent[Taken + i]
    /\ pc = "posting" => Taken > 0 /\ cur = sent[Taken]
    /\ pc = "posting" /\ cur # Initialize => send[cur] = "queued"

\* ---- one place for each message
\* A message that was taken is with its handler, in the queue of the session, in the channel to the
\* service or received, in one of them and there once; a stream is asked for before its message is
\* queued.
Mailbox == [kind : {"message", "stream", "close"}, of : Msgs \cup {None}]
Letter(m) == [kind |-> "message", of |-> m]
Wish(m) == [kind |-> "stream", of |-> m]
Mailed == {m \in Msgs : Letter(m) \in ToSet(events)}
Wished == {m \in Msgs : Wish(m) \in ToSet(events)}
Reached == ToSet(rcvd) \cup ToSet(toService)
Places == Reached \cup Mailed
Untaken(m) == m \notin ToSet(sent) \/ m \in ToSet(fromHandler)
Single(q, x) == \A i, j \in DOMAIN q : q[i] = x /\ q[j] = x => i = j
Once(m) ==
    /\ Single(rcvd, m) /\ Single(toService, m) /\ Single(events, Letter(m)) /\ Single(events, Wish(m))
    /\ m \in ToSet(rcvd) => m \notin ToSet(toService)
    /\ m \in Mailed => m \notin Reached
    /\ m \in Wished => m \notin Places \cup pending /\ post[m] \in {"none", "opening"}
    /\ post[m] # "none" /\ (m = Initialize => post[m] # "found") => m \notin Places
    /\ Untaken(m) => post[m] = "none" /\ m \notin Places \cup Wished \cup pending
    /\ post[m] \in {"flying", "found", "opening"} => m \notin pending
    /\ post[m] \in {"flying", "found"} => m \notin Wished
Kinds ==
    \A e \in ToSet(events) :
        /\ e.kind = "message" => e.of \in Msgs \ {Initialize}
        /\ e.kind = "stream" => e.of \in Requests
InPlace == Kinds /\ \A m \in Msgs : Once(m)

\* The session is the answer to initialize, and what is answered is queued.
Begun ==
    /\ session = "none" => rcvd = <<>> /\ toService = <<>> /\ ~managed
    /\ session \in {"none", "initializing"} =>
           events = <<>> /\ pending = {} /\ \A c \in Streams : log[c] = <<>>
    /\ post[Initialize] = "flying" => session = "none"
    /\ pc = "wait_initialize" => session = "none" /\ \A m \in Msgs : post[m] = "none"
    /\ session = "handing" => events # <<>> /\ Head(events).kind = "message"
    /\ pc = "posting" /\ cur = Initialize /\ answer = "json" => Initialize \in ToSet(rcvd)
    /\ pc = "posting" /\ answer \in {"accepted", "sse"} => session = "ended" \/ cur \in Places

\* ---- the logs
\* A log has every entry once: a response is sent when its request, received once, is pending.
LogsDistinct ==
    /\ \A c \in Streams : \A i, j \in DOMAIN log[c] : log[c][i] = log[c][j] => i = j
    /\ \A m \in Requests : m \in ToSet(log[Common]) => m \in ToSet(rcvd) \ pending
LogsFit == \A c \in Streams : Len(log[c]) <= Bound

Ordered == InSendOrder /\ InPlace /\ Begun /\ LogsDistinct
Typed == TypeOK /\ Holding /\ HandshakeInOrder

\* ---- facts about the operators of the model
LEMMA Appended ==
    ASSUME NEW S, NEW s \in Seq(S), NEW x \in S
    PROVE  /\ Append(s, x) \in Seq(S) /\ Len(s) \in Nat /\ Len(Append(s, x)) = Len(s) + 1
           /\ DOMAIN s = 1 .. Len(s) /\ DOMAIN Append(s, x) = 1 .. Len(s) + 1
           /\ \A k \in 1 .. Len(s) : Append(s, x)[k] = s[k]
           /\ Append(s, x)[Len(s) + 1] = x
           /\ ToSet(Append(s, x)) = ToSet(s) \cup {x}
  <1>1. /\ Append(s, x) \in Seq(S) /\ Len(s) \in Nat /\ Len(Append(s, x)) = Len(s) + 1
        /\ DOMAIN s = 1 .. Len(s) /\ DOMAIN Append(s, x) = 1 .. Len(s) + 1
        /\ \A k \in 1 .. Len(s) : Append(s, x)[k] = s[k]
        /\ Append(s, x)[Len(s) + 1] = x
    BY AppendProperties, LenProperties
  <1>2. ToSet(Append(s, x)) = ToSet(s) \cup {x}
    BY <1>1 DEF ToSet
  <1>. QED  BY <1>1, <1>2

LEMMA Tailed ==
    ASSUME NEW S, NEW s \in Seq(S), s # <<>>
    PROVE  /\ Head(s) \in S /\ Tail(s) \in Seq(S) /\ Head(s) = s[1]
           /\ Len(s) \in Nat \ {0} /\ Len(Tail(s)) = Len(s) - 1
           /\ DOMAIN s = 1 .. Len(s) /\ DOMAIN Tail(s) = 1 .. Len(s) - 1
           /\ \A k \in 1 .. Len(s) - 1 : Tail(s)[k] = s[k + 1]
           /\ ToSet(s) = {Head(s)} \cup ToSet(Tail(s))
  <1>1. /\ Head(s) \in S /\ Tail(s) \in Seq(S) /\ Head(s) = s[1]
        /\ Len(s) \in Nat \ {0} /\ Len(Tail(s)) = Len(s) - 1
        /\ DOMAIN s = 1 .. Len(s) /\ DOMAIN Tail(s) = 1 .. Len(s) - 1
        /\ \A k \in 1 .. Len(s) - 1 : Tail(s)[k] = s[k + 1]
    BY HeadTailProperties, LenProperties, EmptySeq
  <1>2. \A k \in 1 .. Len(s) : k = 1 \/ (k - 1 \in 1 .. Len(s) - 1 /\ s[k] = Tail(s)[k - 1])
    BY <1>1
  <1>3. ToSet(s) \subseteq {Head(s)} \cup ToSet(Tail(s))
    <2>. SUFFICES ASSUME NEW k \in 1 .. Len(s) PROVE s[k] \in {Head(s)} \cup ToSet(Tail(s))
      BY <1>1 DEF ToSet
    <2>. QED  BY <1>1, <1>2 DEF ToSet
  <1>4. {Head(s)} \cup ToSet(Tail(s)) \subseteq ToSet(s)
    BY <1>1 DEF ToSet
  <1>. QED  BY <1>1, <1>3, <1>4

\* What is up to n + 1 is up to n, or is n + 1.
LEMMA UpToNext == \A n \in Nat : \A i \in 1 .. n + 1 : i \in 1 .. n \/ i = n + 1
  OBVIOUS

LEMMA Emptied == ToSet(<<>>) = {} /\ \A S : <<>> \in Seq(S) /\ Len(<<>>) = 0
  BY EmptySeq DEF ToSet

\* A sequence of distinct members of a finite set is no longer than the set is large.
LEMMA DistinctFits ==
    ASSUME NEW S, IsFiniteSet(S), NEW s \in Seq(S),
           \A i, j \in DOMAIN s : s[i] = s[j] => i = j
    PROVE  Len(s) <= Cardinality(S)
  <1>1. Len(s) \in Nat /\ s \in [1 .. Len(s) -> S] /\ DOMAIN s = 1 .. Len(s)
    BY LenProperties
  <1>2. s \in Injection(1 .. Len(s), S)
    BY <1>1 DEF Injection, IsInjective
  <1>3. Cardinality(1 .. Len(s)) <= Cardinality(S)
    BY <1>2, FS_Injection
  <1>. QED  BY SMTT(20), <1>1, <1>3, FS_Interval

LEMMA BoundIsNumber == MaxNotes \in Nat /\ Cardinality(Requests) \in Nat /\ Bound \in Nat
  BY FS_CardinalityType, StreamableHttpAssumption DEF Bound

LEMMA CapacityIsNumber == Capacity \in Nat \ {0} /\ SessionCapacity \in Nat \ {0} /\ MaxBreaks \in Nat
  BY StreamableHttpAssumption

\* Distinct logs fit: that is why events have the numbers they have.
LEMMA DistinctLogsFit ==
    ASSUME NEW l \in [Streams -> Seq(Requests \cup Notes)],
           \A c \in Streams : \A i, j \in DOMAIN l[c] : l[c][i] = l[c][j] => i = j
    PROVE  \A c \in Streams : Len(l[c]) <= Bound
  <1>1. IsFiniteSet(Notes) /\ Cardinality(Notes) = MaxNotes
    BY FS_Interval, BoundIsNumber DEF Notes
  <1>2. /\ IsFiniteSet(Requests \cup Notes)
        /\ Cardinality(Requests \cup Notes) = Cardinality(Requests) + Cardinality(Notes)
    <2>1. Requests \cap Notes = {} /\ Cardinality({}) = 0
      BY StreamableHttpAssumption, FS_EmptySet
    <2>3. Cardinality(Requests \cap Notes) = 0
      BY <2>1
    <2>4. Cardinality(Requests) \in Nat /\ Cardinality(Notes) \in Nat
      BY <1>1, BoundIsNumber
    <2>2. /\ IsFiniteSet(Requests \cup Notes)
          /\ Cardinality(Requests \cup Notes) =
                 Cardinality(Requests) + Cardinality(Notes) - Cardinality(Requests \cap Notes)
      BY <1>1, FS_Union, StreamableHttpAssumption
    <2>. QED  BY <2>2, <2>3, <2>4
  <1>. QED  BY <1>1, <1>2, DistinctFits, BoundIsNumber DEF Bound

\* A notification that may still be made is one that was not.
LEMMA NewNote ==
    ASSUME Cardinality({n \in Notes : \E d \in Streams : Contains(log[d], n)}) < MaxNotes
    PROVE  LET n == CHOOSE n \in Notes : \A d \in Streams : ~Contains(log[d], n)
           IN  n \in Notes /\ \A d \in Streams : ~Contains(log[d], n)
  <1>1. Cardinality(Notes) = MaxNotes
    BY FS_Interval, BoundIsNumber DEF Notes
  <1>2. {n \in Notes : \E d \in Streams : Contains(log[d], n)} # Notes
    BY <1>1, BoundIsNumber
  <1>3. \E n \in Notes : \A d \in Streams : ~Contains(log[d], n)
    BY <1>2
  <1>. QED  BY <1>3

\* ---- members that a sequence has at most once
LEMMA SingleAppend ==
    ASSUME NEW S, NEW s \in Seq(S), NEW y \in S, NEW x, Single(s, x), y = x => x \notin ToSet(s)
    PROVE  Single(Append(s, y), x)
  <1>. SUFFICES ASSUME NEW i \in DOMAIN Append(s, y), NEW j \in DOMAIN Append(s, y),
                       Append(s, y)[i] = x, Append(s, y)[j] = x
                PROVE  i = j
    BY DEF Single
  <1>1. /\ DOMAIN s = 1 .. Len(s) /\ DOMAIN Append(s, y) = 1 .. Len(s) + 1 /\ Len(s) \in Nat
        /\ \A k \in 1 .. Len(s) : Append(s, y)[k] = s[k]
        /\ Append(s, y)[Len(s) + 1] = y
    BY Appended
  <1>2. /\ i \in 1 .. Len(s) \/ i = Len(s) + 1
        /\ j \in 1 .. Len(s) \/ j = Len(s) + 1
    BY <1>1
  <1>3. \A k \in 1 .. Len(s) : s[k] \in ToSet(s)
    BY <1>1 DEF ToSet
  <1>. QED  BY <1>1, <1>2, <1>3 DEF Single

LEMMA SingleTail ==
    ASSUME NEW S, NEW s \in Seq(S), s # <<>>, NEW x, Single(s, x)
    PROVE  Single(Tail(s), x) /\ (Head(s) = x => x \notin ToSet(Tail(s)))
  <1>1. /\ Head(s) = s[1] /\ Len(s) \in Nat \ {0} /\ DOMAIN s = 1 .. Len(s)
        /\ DOMAIN Tail(s) = 1 .. Len(s) - 1
        /\ \A k \in 1 .. Len(s) - 1 : Tail(s)[k] = s[k + 1]
    BY Tailed
  <1>2. \A k \in 1 .. Len(s) - 1 : k + 1 \in DOMAIN s /\ k + 1 # 1 /\ 1 \in DOMAIN s
    BY <1>1
  <1>3. Single(Tail(s), x)
    BY <1>1, <1>2 DEF Single
  <1>4. Head(s) = x => x \notin ToSet(Tail(s))
    BY <1>1, <1>2 DEF Single, ToSet
  <1>. QED  BY <1>3, <1>4

LEMMA SingleNone == \A x : Single(<<>>, x)
  BY DEF Single

\* The channels as sequences, for the steps below.
LEMMA Queues ==
    ASSUME Typed
    PROVE  /\ sent \in Seq(Msgs) /\ fromHandler \in Seq(Msgs) /\ rcvd \in Seq(Msgs)
           /\ toService \in Seq(Msgs) /\ events \in Seq(Mailbox)
           /\ sse \in Seq(Event) /\ got \in Seq(Event) /\ toHandler \in Seq(Event \cup {None})
           /\ Len(sent) \in Nat /\ Len(fromHandler) \in Nat
           /\ DOMAIN sent = 1 .. Len(sent) /\ DOMAIN fromHandler = 1 .. Len(fromHandler)
           /\ send \in [Msgs -> {"none", "queued", "ok", "failed"}]
           /\ post \in [Msgs -> {"none", "flying", "found", "opening", "opened"}]
           /\ pending \subseteq Requests
           /\ Initialize \in Msgs /\ Initialized \in Msgs /\ Initialized # Initialize
           /\ Requests \subseteq Msgs \ {Initialize, Initialized} /\ None \notin Msgs
  BY LenProperties, StreamableHttpAssumption DEF Typed, TypeOK, Msgs, Mailbox

\* Whose turn it is decides what may be sent.
LEMMA MaySendCases ==
    ASSUME NEW m \in Msgs, MaySend(m)
    PROVE  \/ m = Initialize /\ service = "new"
           \/ m = Initialized /\ service = "greeting"
           \/ m \in Requests /\ service = "running" /\ send[Initialized] = "ok"
  BY StreamableHttpAssumption DEF MaySend, Msgs

LEMMA SentKinds ==
    ASSUME NEW m \in Msgs, Send(m)
    PROVE  /\ service' \in {"initializing", "running"}
           /\ (m = Initialize /\ service = "new" /\ service' = "initializing")
              \/ (m = Initialized /\ service = "greeting" /\ service' = "running")
              \/ (m \in Requests /\ service = "running" /\ service' = "running")
  BY MaySendCases, StreamableHttpAssumption DEF Send, Msgs

\* Everything that does not concern the messages the client sends.
Elsewhere ==
    \/ \E k \in Streams : Yield(k) \/ Break(k) \/ Retry(k) \/ Resume(k) \/ Finish(k)
    \/ Handlers \/ Session \/ UNCHANGED vars
LEMMA ElsewhereRests ==
    ASSUME Elsewhere
    PROVE  UNCHANGED <<service, toHandler, got, send, sent, fromHandler, pc, cur, ct>>
  <1>1. ASSUME NEW k \in Streams, Yield(k) \/ Break(k) \/ Retry(k) \/ Resume(k) \/ Finish(k)
        PROVE  UNCHANGED <<service, toHandler, got, send, sent, fromHandler, pc, cur, ct>>
    BY <1>1 DEF Yield, Break, Retry, Resume, Finish
  <1>2. ASSUME Handlers
        PROVE  UNCHANGED <<service, toHandler, got, send, sent, fromHandler, pc, cur, ct>>
    BY <1>2 DEF Handlers, AnswerLost, PostInitialize, AnswerInitialize, RemoveHandle, SendClose, DeleteFails,
                PostFails, FindSession, AskForStream, PushMessage, deleteLocal
  <1>3. ASSUME Session
        PROVE  UNCHANGED <<service, toHandler, got, send, sent, fromHandler, pc, cur, ct>>
    BY <1>3 DEF Session, OpenStream, TakeClientMessage, HandOver, TakeClose, SessionEnds, ServiceReceives,
                ServiceStops, Respond, Notify
  <1>. QED  BY <1>1, <1>2, <1>3 DEF Elsewhere, vars

Quits == HandlerTerminated \/ Cancelled \/ HandshakeFailed
LEMMA QuitsQuit == Quits => Quit
  BY DEF Quits, HandlerTerminated, Cancelled, HandshakeFailed

LEMMA SendOrderSteps ==
    ASSUME Typed, Ordered, [Next]_vars
    PROVE  InSendOrder'
  <1>. USE Queues DEF Taken
  <1>0. InSendOrder
    BY DEF Ordered
  <1>a. /\ Len(fromHandler) <= Len(sent) /\ Taken \in Nat
        /\ pc # "ended" => \A i \in 1 .. Len(fromHandler) : fromHandler[i] = sent[Taken + i]
        /\ \A i \in 1 .. Len(fromHandler) :
               /\ fromHandler[i] \in Msgs /\ send[fromHandler[i]] = "queued"
               /\ pc # "wait_initialize" => fromHandler[i] # Initialize
    <2>1. Len(fromHandler) <= Len(sent) /\ Taken \in Nat
      BY <1>0 DEF InSendOrder
    <2>2. \A i \in 1 .. Len(fromHandler) : fromHandler[i] \in Msgs
      BY ElementOfSeq
    <2>. QED  BY <1>0, <2>1, <2>2 DEF InSendOrder
  <1>1. ASSUME NEW m \in Msgs, Send(m)
        PROVE  InSendOrder'
    <2>1. CASE /\ pc = "ended" /\ send' = [send EXCEPT ![m] = "failed"]
               /\ UNCHANGED <<fromHandler, sent>>
      <3>1. UNCHANGED <<pc, cur>> /\ DOMAIN fromHandler = {}
        BY <1>1, <2>1 DEF Send, Typed, Holding
      <3>. QED  BY <1>0, <2>1, <3>1 DEF InSendOrder
    <2>2. CASE /\ pc # "ended"
               /\ fromHandler' = Append(fromHandler, m) /\ sent' = Append(sent, m)
               /\ send' = [send EXCEPT ![m] = "queued"]
      <3>1. /\ UNCHANGED <<pc, cur>> /\ send[m] = "none"
            /\ m = Initialize => pc = "wait_initialize"
        BY <1>1, SentKinds DEF Send, Typed, HandshakeInOrder
      <3>2. /\ Len(sent') = Len(sent) + 1 /\ Len(fromHandler') = Len(fromHandler) + 1
            /\ DOMAIN sent' = 1 .. Len(sent) + 1 /\ DOMAIN fromHandler' = 1 .. Len(fromHandler) + 1
            /\ \A x \in 1 .. Len(sent) : sent'[x] = sent[x]
            /\ \A x \in 1 .. Len(fromHandler) : fromHandler'[x] = fromHandler[x]
            /\ sent'[Len(sent) + 1] = m /\ fromHandler'[Len(fromHandler) + 1] = m
        BY <2>2, Appended
      <3>3. \A x \in DOMAIN sent : sent[x] # m
        BY <1>0, <3>1 DEF InSendOrder
      <3>4. Taken' = Taken /\ Len(fromHandler') <= Len(sent')
        BY <1>0, <3>2 DEF InSendOrder
      <3>5. \A i, j \in DOMAIN sent' : sent'[i] = sent'[j] => i = j
        <4>1. \A i \in DOMAIN sent' : (i \in DOMAIN sent /\ sent'[i] = sent[i])
                                      \/ (i = Len(sent) + 1 /\ sent'[i] = m)
          BY <3>2, UpToNext
        <4>. QED  BY <1>0, <3>3, <4>1 DEF InSendOrder
      <3>6. \A l \in Msgs : send'[l] = "none" => \A i \in DOMAIN sent' : sent'[i] # l
        BY <1>0, <2>2, <3>2 DEF InSendOrder
      <3>7. \A i \in DOMAIN fromHandler' : /\ send'[fromHandler'[i]] = "queued"
                                           /\ pc' # "wait_initialize" => fromHandler'[i] # Initialize
        BY <1>0, <2>2, <3>1, <3>2, ElementOfSeq DEF InSendOrder
      <3>8. \A i \in DOMAIN fromHandler' : fromHandler'[i] = sent'[Taken' + i]
        <4>1. ASSUME NEW i \in 1 .. Len(fromHandler)
              PROVE  fromHandler'[i] = sent'[Taken' + i]
          <5>1. Taken + i \in 1 .. Len(sent) /\ fromHandler[i] = sent[Taken + i]
            BY <1>a, <2>2
          <5>. QED  BY <3>2, <3>4, <5>1
        <4>2. fromHandler'[Len(fromHandler) + 1] = sent'[Taken' + Len(fromHandler) + 1]
          BY <3>2, <3>4
        <4>3. \A i \in DOMAIN fromHandler' : i \in 1 .. Len(fromHandler) \/ i = Len(fromHandler) + 1
          BY <3>2, UpToNext
        <4>4. Taken' + Len(fromHandler) + 1 = Taken' + (Len(fromHandler) + 1)
          BY <1>a, <3>4
        <4>. QED  BY <4>1, <4>2, <4>3, <4>4
      <3>9. pc' = "posting" => Taken' > 0 /\ cur' = sent'[Taken']
        <4>1. pc = "posting" => Taken > 0 /\ cur = sent[Taken]
          BY <1>0 DEF InSendOrder
        <4>2. Taken \in Nat /\ Taken <= Len(sent)
          BY <1>a
        <4>. HIDE DEF Taken
        <4>. QED  BY <3>1, <3>2, <3>4, <4>1, <4>2
      <3>10. pc' = "posting" /\ cur' # Initialize => send'[cur'] = "queued"
        BY <1>0, <2>2, <3>1 DEF InSendOrder, Typed, Holding
      <3>. QED  BY <3>4, <3>5, <3>6, <3>7, <3>8, <3>9, <3>10 DEF InSendOrder
    <2>. QED  BY <1>1, <2>1, <2>2 DEF Send
  <1>2. CASE Quits
    <2>1. /\ fromHandler' = <<>> /\ pc' = "ended" /\ UNCHANGED sent
          /\ \A m \in Msgs : send'[m] = "none" => send[m] = "none"
      BY <1>2, QuitsQuit DEF Quit
    <2>2. DOMAIN fromHandler' = {} /\ Len(fromHandler') = 0
      BY <2>1
    <2>. QED  BY <1>0, <2>1, <2>2 DEF InSendOrder
  <1>3. CASE TakeMessage
    <2>1. PICK m \in Msgs : /\ m = Head(fromHandler) /\ cur' = m /\ pc' = "posting"
                            /\ send' = IF pc = "wait_initialize" THEN [send EXCEPT ![m] = "ok"] ELSE send
                            /\ fromHandler' = Tail(fromHandler) /\ fromHandler # <<>> /\ UNCHANGED sent
                            /\ pc \in Receiving
      BY <1>3, Tailed DEF TakeMessage, AfterPost
    <2>2. /\ Len(fromHandler) \in Nat \ {0} /\ Len(fromHandler') = Len(fromHandler) - 1
          /\ DOMAIN fromHandler' = 1 .. Len(fromHandler) - 1 /\ fromHandler[1] = m
          /\ \A x \in 1 .. Len(fromHandler) - 1 : fromHandler'[x] = fromHandler[x + 1]
      BY <2>1, Tailed
    <2>3. Taken' = Taken + 1 /\ Taken >= 0 /\ pc # "ended"
      BY <1>0, <2>1, <2>2 DEF InSendOrder, Receiving
    <2>4. CASE pc = "wait_initialize"
      \* Initialize is the only message sent so far.
      <3>1. fromHandler = <<Initialize>>
        BY <2>1, <2>4 DEF Typed, HandshakeInOrder, Opening
      <3>2. DOMAIN fromHandler' = {} /\ m = Initialize /\ \A l \in Msgs : send'[l] = "none" => send[l] = "none"
        BY <2>1, <2>2, <3>1
      <3>3. Taken' > 0 /\ cur' = sent'[Taken'] /\ Len(fromHandler') <= Len(sent')
        BY <1>a, <2>1, <2>2, <2>3
      <3>. QED  BY <1>0, <2>1, <2>3, <3>2, <3>3 DEF InSendOrder
    <2>5. CASE pc # "wait_initialize"
      <3>1. \A i \in DOMAIN fromHandler' :
                /\ send'[fromHandler'[i]] = "queued" /\ fromHandler'[i] # Initialize
                /\ fromHandler'[i] = sent'[Taken' + i]
        <4>. SUFFICES ASSUME NEW i \in 1 .. Len(fromHandler) - 1
                      PROVE  /\ send'[fromHandler'[i]] = "queued" /\ fromHandler'[i] # Initialize
                             /\ fromHandler'[i] = sent'[Taken' + i]
          BY <2>2
        <4>1. i + 1 \in 1 .. Len(fromHandler) /\ fromHandler'[i] = fromHandler[i + 1]
          BY <2>2
        <4>2. Taken' + i = Taken + (i + 1)
          <5>. HIDE DEF Taken
          <5>. QED  BY <1>a, <2>3
        <4>. QED  BY <1>a, <2>1, <2>3, <2>5, <4>1, <4>2
      <3>2. Taken' > 0 /\ cur' = sent'[Taken'] /\ send'[cur'] = "queued"
        <4>1. 1 \in 1 .. Len(fromHandler)
          BY <2>2
        <4>. QED  BY <1>a, <2>1, <2>2, <2>3, <2>5, <4>1
      <3>. QED  BY <1>0, <2>1, <2>2, <2>5, <3>1, <3>2 DEF InSendOrder
    <2>. QED  BY <2>4, <2>5
  <1>4. CASE \/ InitializeAnswered \/ HandInitialize \/ TakeServerMessage \/ Hand
             \/ AskForCommon \/ GetCommon \/ SkipCommon
    <2>1. /\ UNCHANGED <<sent, fromHandler, send>> /\ pc \notin {"wait_initialize", "ended"}
          /\ pc' \notin {"posting", "wait_initialize"}
      BY <1>4 DEF InitializeAnswered, HandInitialize, TakeServerMessage, Hand, AskForCommon, GetCommon,
                  SkipCommon, Answered
    <2>. QED  BY <1>0, <2>1 DEF InSendOrder
  <1>5. ASSUME InitializedAnswered \/ \E m \in Requests : RequestAnswered(m)
        PROVE  InSendOrder'
    <2>1. /\ UNCHANGED <<sent, fromHandler>> /\ pc = "posting" /\ pc' \in {"get_common", "select"}
          /\ send' \in {[send EXCEPT ![cur] = "ok"], [send EXCEPT ![cur] = "failed"]}
      BY <1>5 DEF InitializedAnswered, RequestAnswered, Answered
    <2>2. \A i \in DOMAIN fromHandler : fromHandler[i] # cur /\ fromHandler[i] \in Msgs
      <3>1. ASSUME NEW i \in DOMAIN fromHandler
            PROVE  fromHandler[i] # cur
        <4>1. /\ Taken + i \in DOMAIN sent /\ Taken \in DOMAIN sent /\ Taken + i # Taken
              /\ fromHandler[i] = sent[Taken + i] /\ cur = sent[Taken]
          BY <1>0, <2>1 DEF InSendOrder
        <4>. QED  BY <1>0, <4>1 DEF InSendOrder
      <3>. QED  BY <3>1, ElementOfSeq
    <2>3. \A m \in Msgs : send'[m] = "none" => send[m] = "none"
      BY <2>1
    <2>. QED  BY <1>0, <2>1, <2>2, <2>3 DEF InSendOrder
  <1>6. CASE Receive \/ Close \/ Drop \/ Elsewhere
    <2>1. UNCHANGED <<sent, fromHandler, send, pc, cur>>
      BY <1>6, ElsewhereRests DEF Receive, Close, Drop
    <2>. QED  BY <1>0, <2>1 DEF InSendOrder
  <1>. QED
    BY <1>1, <1>2, <1>3, <1>4, <1>5, <1>6 DEF Next, Worker, Quits, Elsewhere

LEMMA HandshakeSteps ==
    ASSUME Typed, Ordered, [Next]_vars
    PROVE  HandshakeInOrder'
  <1>. USE Queues DEF Opening, Early
  <1>0. HandshakeInOrder
    BY DEF Typed
  <1>1. ASSUME NEW m \in Msgs, Send(m)
        PROVE  HandshakeInOrder'
    <2>1. /\ UNCHANGED <<toHandler, pc, cur>> /\ send[m] = "none"
          /\ \A l \in Msgs \ {m} : send'[l] = send[l]
          /\ \/ pc = "ended" /\ UNCHANGED <<fromHandler, sent>>
             \/ pc # "ended" /\ fromHandler' = Append(fromHandler, m) /\ sent' = Append(sent, m)
      BY <1>1 DEF Send
    <2>2. CASE m = Initialize
      <3>1. service = "new" /\ service' = "initializing" /\ sent = <<>> /\ fromHandler = <<>>
            /\ pc = "wait_initialize" /\ toHandler = <<>>
        BY <1>0, <1>1, <2>2, SentKinds DEF HandshakeInOrder
      <3>2. fromHandler' = <<Initialize>> /\ sent' = <<Initialize>>
        BY <2>1, <2>2, <3>1
      <3>. QED  BY <1>0, <2>1, <2>2, <3>1, <3>2 DEF HandshakeInOrder
    <2>3. CASE m # Initialize
      <3>1. ~Opening /\ pc # "wait_initialize"
        BY <1>0, <1>1, <2>3, SentKinds DEF HandshakeInOrder
      <3>2. service' = "running" /\ service \in {"greeting", "running"}
        BY <1>1, <2>3, SentKinds
      <3>. QED  BY <1>0, <2>1, <3>1, <3>2, EmptySeq DEF HandshakeInOrder
    <2>. QED  BY <2>2, <2>3
  <1>2. CASE Receive
    <2>1. /\ service \in {"initializing", "running"} /\ toHandler # <<>> /\ toHandler' = Tail(toHandler)
          /\ service' = IF service = "initializing" THEN "greeting" ELSE service
          /\ UNCHANGED <<sent, fromHandler, send, pc, cur>>
      BY <1>2 DEF Receive
    <2>2. CASE service = "initializing"
      <3>1. toHandler = <<None>>
        BY <1>0, <2>1, <2>2 DEF HandshakeInOrder
      <3>2. toHandler' = <<>>
        BY <2>1, <3>1
      <3>. QED  BY <1>0, <2>1, <2>2, <3>2 DEF HandshakeInOrder
    <2>3. CASE service = "running"
      <3>1. toHandler' \in Seq(Event)
        BY <1>0, <2>1, <2>3, Tailed DEF HandshakeInOrder
      <3>. QED  BY <1>0, <2>1, <2>3, <3>1 DEF HandshakeInOrder
    <2>. QED  BY <2>1, <2>2, <2>3
  <1>3. CASE Close \/ Drop
    BY <1>0, <1>3 DEF Close, Drop, HandshakeInOrder
  <1>4. CASE Quits
    <2>1. /\ pc' = "ended" /\ UNCHANGED <<service, toHandler, sent>>
          /\ \A m \in Msgs : send[m] = "none" => send'[m] = "none"
      BY <1>4, QuitsQuit DEF Quit
    <2>2. service # "new"
      BY <1>0, <1>4 DEF HandshakeInOrder, Quits, HandlerTerminated, Cancelled, HandshakeFailed, Answered
    <2>. QED  BY <1>0, <2>1, <2>2 DEF HandshakeInOrder
  <1>5. CASE TakeMessage
    <2>1. PICK m \in Msgs : /\ m = Head(fromHandler) /\ cur' = m /\ pc' = "posting"
                            /\ send' = IF pc = "wait_initialize" THEN [send EXCEPT ![m] = "ok"] ELSE send
                            /\ fromHandler # <<>> /\ UNCHANGED <<service, toHandler, sent>>
                            /\ pc \in Receiving
      BY <1>5, Tailed DEF TakeMessage, AfterPost
    <2>2. 1 \in DOMAIN fromHandler /\ m = fromHandler[1]
      BY <2>1, Tailed
    <2>3. CASE pc = "wait_initialize"
      <3>1. m = Initialize /\ service # "new"
        BY <1>0, <2>1, <2>2, <2>3 DEF HandshakeInOrder
      <3>. QED  BY <1>0, <2>1, <2>3, <3>1 DEF HandshakeInOrder
    <2>4. CASE pc # "wait_initialize"
      <3>1. m # Initialize /\ send[m] = "queued"
        BY <2>2, <2>4 DEF Ordered, InSendOrder
      <3>2. ~Early
        BY <1>0, <3>1 DEF HandshakeInOrder
      <3>. QED  BY <1>0, <2>1, <2>4, <3>1, <3>2 DEF HandshakeInOrder
    <2>. QED  BY <2>3, <2>4
  <1>6. CASE InitializeAnswered
    BY <1>0, <1>6 DEF InitializeAnswered, Answered, HandshakeInOrder
  <1>7. CASE HandInitialize
    <2>1. toHandler = <<>> /\ service = "initializing" /\ pc' = "wait_initialized"
          /\ toHandler' = Append(toHandler, None) /\ UNCHANGED <<service, sent, fromHandler, send>>
      BY <1>0, <1>7 DEF HandInitialize, HandshakeInOrder
    <2>2. toHandler' = <<None>>
      BY <2>1
    <2>. QED  BY <1>0, <2>1, <2>2 DEF HandshakeInOrder
  <1>8. CASE InitializedAnswered \/ \E m \in Requests : RequestAnswered(m)
    <2>1. /\ pc = "posting" /\ cur # Initialize /\ pc' \in {"get_common", "select"}
          /\ send' \in {[send EXCEPT ![cur] = "ok"], [send EXCEPT ![cur] = "failed"]}
          /\ UNCHANGED <<service, toHandler, sent>>
      BY <1>8 DEF InitializedAnswered, RequestAnswered, Answered
    <2>2. ~Early
      BY <1>0, <2>1 DEF HandshakeInOrder
    <2>. QED  BY <1>0, <2>1, <2>2 DEF HandshakeInOrder
  <1>9. CASE TakeServerMessage \/ AskForCommon \/ GetCommon \/ SkipCommon
    <2>1. /\ pc \in {"select", "get_common"} /\ pc' \in {"hand", "select", "get_common"}
          /\ UNCHANGED <<service, toHandler, sent, fromHandler, send>>
      BY <1>9 DEF TakeServerMessage, AskForCommon, GetCommon, SkipCommon
    <2>. QED  BY <1>0, <2>1 DEF HandshakeInOrder
  <1>10. CASE Hand
    <2>1. /\ pc = "hand" /\ pc' = "select" /\ toHandler' = Append(toHandler, cur)
          /\ UNCHANGED <<service, sent, fromHandler, send>> /\ cur \in Event
      BY <1>10 DEF Hand, Typed, Holding
    <2>2. ~Early
      BY <1>0, <2>1 DEF HandshakeInOrder
    <2>3. service \in {"running", "closing"} => toHandler' \in Seq(Event)
      BY <1>0, <2>1, Appended DEF HandshakeInOrder
    <2>. QED  BY <1>0, <2>1, <2>2, <2>3 DEF HandshakeInOrder
  <1>11. CASE Elsewhere
    <2>1. UNCHANGED <<service, toHandler, sent, fromHandler, send, pc, cur>>
      BY <1>11, ElsewhereRests
    <2>. QED  BY <1>0, <2>1 DEF HandshakeInOrder
  <1>. QED
    BY <1>1, <1>2, <1>3, <1>4, <1>5, <1>6, <1>7, <1>8, <1>9, <1>10, <1>11
    DEF Next, Worker, Quits, Elsewhere

\* ---- where a message is
\* What the client's side of a step leaves of the server.
AtClient ==
    \/ \E m \in Msgs : Send(m)
    \/ Receive \/ Close \/ Drop \/ HandlerTerminated \/ Cancelled \/ HandshakeFailed
    \/ InitializeAnswered \/ HandInitialize \/ InitializedAnswered \/ TakeServerMessage \/ Hand
    \/ AskForCommon \/ GetCommon \/ SkipCommon \/ AnswerLost \/ DeleteFails
    \/ \E m \in Requests : RequestAnswered(m)
    \/ \E k \in Streams : Yield(k) \/ Break(k) \/ Retry(k) \/ Resume(k) \/ Finish(k)
    \/ UNCHANGED vars
LEMMA ClientOnly ==
    ASSUME AtClient
    PROVE  UNCHANGED <<post, log, managed, events, session, serving, toService, rcvd, pending>>
  <1>1. ASSUME NEW k \in Streams, Yield(k) \/ Break(k) \/ Retry(k) \/ Resume(k) \/ Finish(k)
        PROVE  UNCHANGED <<post, log, managed, events, session, serving, toService, rcvd, pending>>
    BY <1>1 DEF Yield, Break, Retry, Resume, Finish
  <1>2. ASSUME NEW m \in Msgs, Send(m) \/ RequestAnswered(m)
        PROVE  UNCHANGED <<post, log, managed, events, session, serving, toService, rcvd, pending>>
    BY <1>2 DEF Send, RequestAnswered
  <1>3. CASE Quits
    BY <1>3, QuitsQuit DEF Quit
  <1>4. CASE \/ Receive \/ Close \/ Drop \/ InitializeAnswered \/ HandInitialize \/ InitializedAnswered
             \/ TakeServerMessage \/ Hand \/ AskForCommon \/ GetCommon \/ SkipCommon
             \/ AnswerLost \/ DeleteFails \/ UNCHANGED vars
    BY <1>4 DEF Receive, Close, Drop, InitializeAnswered, HandInitialize, InitializedAnswered,
         TakeServerMessage, Hand, AskForCommon, GetCommon, SkipCommon, AnswerLost, DeleteFails,
         deleteLocal, vars
  <1>. QED  BY <1>1, <1>2, <1>3, <1>4 DEF AtClient, Quits, Msgs

\* What remains are steps of the server's side, and TakeMessage.
LEMMA StepKinds ==
    ASSUME [Next]_vars
    PROVE  \/ AtClient \/ TakeMessage
           \/ PostInitialize \/ AnswerInitialize \/ RemoveHandle \/ SendClose
           \/ \E m \in Msgs : PostFails(m) \/ FindSession(m) \/ AskForStream(m) \/ PushMessage(m)
           \/ OpenStream \/ TakeClientMessage \/ HandOver \/ TakeClose \/ SessionEnds
           \/ ServiceReceives \/ ServiceStops
           \/ \E m \in Requests : Respond(m)
           \/ \E c \in Streams : Notify(c)
  BY DEF Next, Worker, Handlers, Session, AtClient

\* Steps of the server's side leave the client's alone.
LEMMA ServerOnly ==
    ASSUME \/ PostInitialize \/ AnswerInitialize \/ RemoveHandle \/ SendClose
           \/ \E m \in Msgs : PostFails(m) \/ FindSession(m) \/ AskForStream(m) \/ PushMessage(m)
           \/ OpenStream \/ TakeClientMessage \/ HandOver \/ TakeClose \/ SessionEnds
           \/ ServiceReceives \/ ServiceStops
           \/ \E m \in Requests : Respond(m)
           \/ \E c \in Streams : Notify(c)
    PROVE  UNCHANGED <<service, toHandler, got, send, sent, fromHandler, pc, cur, ct, sse>>
  <1>1. CASE \/ PostInitialize \/ AnswerInitialize \/ RemoveHandle \/ SendClose
             \/ \E m \in Msgs : PostFails(m) \/ FindSession(m) \/ AskForStream(m) \/ PushMessage(m)
    BY <1>1 DEF PostInitialize, AnswerInitialize, RemoveHandle, SendClose, PostFails, FindSession,
                AskForStream, PushMessage, deleteLocal
  <1>2. CASE \/ OpenStream \/ TakeClientMessage \/ HandOver \/ TakeClose \/ SessionEnds
             \/ ServiceReceives \/ ServiceStops
             \/ \E m \in Requests : Respond(m)
             \/ \E c \in Streams : Notify(c)
    BY <1>2 DEF OpenStream, TakeClientMessage, HandOver, TakeClose, SessionEnds, ServiceReceives,
                ServiceStops, Respond, Notify
  <1>. QED  BY <1>1, <1>2

\* What is sent is not taken yet; what is taken is not in the channel any more.
LEMMA StaysTaken ==
    ASSUME Typed, Ordered, [Next]_vars, NEW m \in Msgs, Untaken(m)'
    PROVE  Untaken(m)
  <1>. USE Queues
  <1>1. ASSUME NEW l \in Msgs, Send(l)
        PROVE  Untaken(m)
    <2>1. CASE UNCHANGED <<sent, fromHandler>>
      BY <2>1 DEF Untaken
    <2>2. CASE fromHandler' = Append(fromHandler, l) /\ sent' = Append(sent, l)
      <3>1. ToSet(fromHandler') = ToSet(fromHandler) \cup {l} /\ ToSet(sent') = ToSet(sent) \cup {l}
        BY <2>2, Appended
      <3>2. l \notin ToSet(sent)
        BY <1>1 DEF Send, Ordered, InSendOrder, ToSet
      <3>. QED  BY <3>1, <3>2 DEF Untaken
    <2>. QED  BY <1>1, <2>1, <2>2 DEF Send
  <1>2. CASE Quits
    BY <1>2, QuitsQuit, Emptied DEF Quit, Untaken
  <1>3. CASE TakeMessage
    <2>1. ToSet(fromHandler') \subseteq ToSet(fromHandler) /\ UNCHANGED sent
      BY <1>3, Tailed DEF TakeMessage
    <2>. QED  BY <2>1 DEF Untaken
  <1>4. CASE UNCHANGED <<sent, fromHandler>>
    BY <1>4 DEF Untaken
  <1>5. CASE \/ InitializeAnswered \/ HandInitialize \/ InitializedAnswered \/ TakeServerMessage \/ Hand
             \/ AskForCommon \/ GetCommon \/ SkipCommon \/ Receive \/ Close \/ Drop
             \/ \E l \in Requests : RequestAnswered(l)
    <2>1. UNCHANGED <<sent, fromHandler>>
      BY <1>5 DEF InitializeAnswered, HandInitialize, InitializedAnswered, TakeServerMessage, Hand,
                  AskForCommon, GetCommon, SkipCommon, Receive, Close, Drop, RequestAnswered
    <2>. QED  BY <2>1, <1>4
  <1>6. CASE Elsewhere
    BY <1>6, <1>4, ElsewhereRests
  <1>. QED  BY <1>1, <1>2, <1>3, <1>5, <1>6 DEF Next, Worker, Quits, Elsewhere

LEMMA Takes ==
    ASSUME Typed, Ordered, TakeMessage
    PROVE  \E m \in Msgs : /\ m = Head(fromHandler) /\ m \in ToSet(sent) /\ ~Untaken(m)' /\ Untaken(m)
                           /\ cur' = m /\ pc' = "posting" /\ post' = [post EXCEPT ![m] = "flying"]
                           /\ answer' = "none" /\ pc \in Receiving
                           /\ sent[Taken + 1] = m /\ Taken' = Taken + 1 /\ Taken + 1 \in DOMAIN sent
  <1>. USE Queues
  <1>1. PICK m \in Msgs : /\ m = Head(fromHandler) /\ fromHandler # <<>> /\ fromHandler' = Tail(fromHandler)
                          /\ UNCHANGED sent /\ pc \in Receiving
                          /\ cur' = m /\ pc' = "posting" /\ post' = [post EXCEPT ![m] = "flying"]
                          /\ answer' = "none"
    BY Tailed DEF TakeMessage, AfterPost
  <1>2. /\ Len(fromHandler) \in Nat \ {0} /\ Len(fromHandler') = Len(fromHandler) - 1
        /\ DOMAIN fromHandler = 1 .. Len(fromHandler) /\ DOMAIN fromHandler' = 1 .. Len(fromHandler) - 1
        /\ fromHandler[1] = m /\ \A x \in 1 .. Len(fromHandler) - 1 : fromHandler'[x] = fromHandler[x + 1]
    BY <1>1, Tailed
  <1>3. /\ Len(fromHandler) <= Len(sent) /\ \A i \in DOMAIN fromHandler : fromHandler[i] = sent[Taken + i]
        /\ \A i, j \in DOMAIN sent : sent[i] = sent[j] => i = j
    BY <1>1 DEF Ordered, InSendOrder, Receiving
  <1>4. Taken \in Nat /\ Taken' = Taken + 1 /\ Taken + Len(fromHandler) = Len(sent)
    BY <1>1, <1>2, <1>3 DEF Taken
  <1>5. 1 \in DOMAIN fromHandler /\ Taken + 1 \in DOMAIN sent /\ sent[Taken + 1] = m
    <2>. HIDE DEF Taken
    <2>1. 1 \in DOMAIN fromHandler /\ Taken + 1 \in 1 .. Len(sent)
      BY <1>2, <1>4
    <2>. QED  BY <1>2, <1>3, <2>1
  <1>6. m \in ToSet(sent) /\ m \in ToSet(fromHandler)
    BY <1>2, <1>5 DEF ToSet
  <1>7. ASSUME NEW x \in 1 .. Len(fromHandler) - 1
        PROVE  fromHandler'[x] # m
    <2>1. /\ x + 1 \in DOMAIN fromHandler /\ fromHandler'[x] = sent[Taken + (x + 1)]
          /\ Taken + (x + 1) \in DOMAIN sent /\ Taken + (x + 1) # Taken + 1
      <3>. HIDE DEF Taken
      <3>1. x + 1 \in 1 .. Len(fromHandler) /\ x \in Nat \ {0}
        BY <1>2
      <3>2. x + 1 \in DOMAIN fromHandler /\ fromHandler'[x] = fromHandler[x + 1]
        BY <1>2, <3>1
      <3>3. Taken + (x + 1) \in 1 .. Len(sent) /\ Taken + (x + 1) # Taken + 1
        BY <1>2, <1>4, <3>1
      <3>. QED  BY <3>2, <3>3, <1>3
    <2>. QED  BY <2>1, <1>3, <1>5
  <1>8. m \notin ToSet(fromHandler')
    BY <1>2, <1>7 DEF ToSet
  <1>. QED  BY <1>1, <1>4, <1>5, <1>6, <1>8 DEF Untaken

\* The kinds of an event tell letters and wishes apart.
LEMMA Envelopes ==
    /\ \A m, l : Letter(m) = Letter(l) => m = l
    /\ \A m, l : Wish(m) = Wish(l) => m = l
    /\ \A m, l : Wish(m) # Letter(l)
    /\ \A m \in Msgs : Letter(m) \in Mailbox /\ Wish(m) \in Mailbox
    /\ [kind |-> "close", of |-> None] \in Mailbox
    /\ \A m : Letter(m).kind = "message" /\ Letter(m).of = m /\ Wish(m).kind = "stream" /\ Wish(m).of = m
    /\ \A m, o : Letter(m) # [kind |-> "close", of |-> o] /\ Wish(m) # [kind |-> "close", of |-> o]
  BY DEF Letter, Wish, Mailbox

\* What the first event of the queue is, and what its taking leaves.
LEMMA FirstEvent ==
    ASSUME Typed, InPlace, events # <<>>
    PROVE  /\ Tail(events) \in Seq(Mailbox) /\ ToSet(events) = {Head(events)} \cup ToSet(Tail(events))
           /\ Head(events) \in Mailbox
           /\ Head(events).kind = "message" =>
                  \E m \in Msgs \ {Initialize} : Head(events) = Letter(m) /\ Head(events).of = m
                                                 /\ Letter(m) \notin ToSet(Tail(events))
           /\ Head(events).kind = "stream" =>
                  \E m \in Requests : Head(events) = Wish(m) /\ Head(events).of = m
                                      /\ Wish(m) \notin ToSet(Tail(events))
           /\ \A x : Single(events, x) => Single(Tail(events), x)
  <1>. USE Queues
  <1>1. /\ Tail(events) \in Seq(Mailbox) /\ ToSet(events) = {Head(events)} \cup ToSet(Tail(events))
        /\ Head(events) \in Mailbox
    BY Tailed
  <1>2. \A x : Single(events, x) =>
            Single(Tail(events), x) /\ (Head(events) = x => x \notin ToSet(Tail(events)))
    BY SingleTail
  <1>3. PICK e \in Mailbox : e = Head(events) /\ e \in ToSet(events)
    BY <1>1
  <1>k. \A x \in ToSet(events) :
            /\ x.kind = "message" => x.of \in Msgs \ {Initialize}
            /\ x.kind = "stream" => x.of \in Requests
    BY DEF InPlace, Kinds
  <1>4. ASSUME e.kind = "message"
        PROVE  \E m \in Msgs \ {Initialize} : e = Letter(m) /\ e.of = m /\ Letter(m) \notin ToSet(Tail(events))
    <2>1. PICK m \in Msgs \ {Initialize} : m = e.of
      BY <1>k, <1>3, <1>4
    <2>2. e = Letter(m)
      BY <1>3, <1>4, <2>1 DEF Letter, Mailbox
    <2>3. Single(events, Letter(m))
      BY DEF InPlace, Once
    <2>. QED  BY <1>2, <1>3, <2>1, <2>2, <2>3
  <1>5. ASSUME e.kind = "stream"
        PROVE  \E m \in Requests : e = Wish(m) /\ e.of = m /\ Wish(m) \notin ToSet(Tail(events))
    <2>1. PICK m \in Requests : m = e.of
      BY <1>k, <1>3, <1>5
    <2>2. e = Wish(m)
      BY <1>3, <1>5, <2>1 DEF Wish, Mailbox
    <2>3. Single(events, Wish(m))
      BY DEF InPlace, Once
    <2>. QED  BY <1>2, <1>3, <2>1, <2>2, <2>3
  <1>. QED  BY <1>1, <1>2, <1>3, <1>4, <1>5

\* What is pushed joins the queue.
LEMMA Pushed ==
    ASSUME Typed, NEW e \in Mailbox, events' = Append(events, e)
    PROVE  /\ events' \in Seq(Mailbox) /\ ToSet(events') = ToSet(events) \cup {e}
           /\ \A x : Single(events, x) /\ (x \in ToSet(events) => x # e) => Single(events', x)
  BY Queues, Appended, SingleAppend

LEMMA InPlaceSteps ==
    ASSUME Typed, Ordered, [Next]_vars
    PROVE  InPlace'
  <1>. USE Queues
  <1>0. InPlace /\ Begun
    BY DEF Ordered
  <1>a. \A m \in Msgs : Once(m) /\ (Untaken(m)' => Untaken(m))
    BY <1>0, StaysTaken DEF InPlace
  \* Steps that leave the queues, or take from them what is pending.
  <1>1. ASSUME UNCHANGED <<post, events, toService, rcvd>>, pending' \subseteq pending
        PROVE  InPlace'
    <2>1. Kinds' /\ Mailed' = Mailed /\ Wished' = Wished /\ Reached' = Reached
      BY <1>0, <1>1 DEF InPlace, Kinds, Mailed, Wished, Reached
    <2>2. ASSUME NEW m \in Msgs
          PROVE  Once(m)'
      BY <1>a, <1>1, <2>1 DEF Once, Places
    <2>. QED  BY <2>1, <2>2 DEF InPlace
  <1>2. CASE TakeMessage
    <2>1. PICK n \in Msgs : /\ ~Untaken(n)' /\ Untaken(n) /\ post' = [post EXCEPT ![n] = "flying"]
      BY <1>2, Takes
    <2>2. UNCHANGED <<events, toService, rcvd, pending>>
      BY <1>2 DEF TakeMessage
    <2>3. Kinds' /\ Mailed' = Mailed /\ Wished' = Wished /\ Reached' = Reached
      BY <1>0, <2>2 DEF InPlace, Kinds, Mailed, Wished, Reached
    <2>4. ASSUME NEW m \in Msgs
          PROVE  Once(m)'
      <3>1. Once(m) /\ Once(n)
        BY <1>a
      <3>2. CASE m = n
        BY <2>1, <2>2, <2>3, <3>1, <3>2 DEF Once, Places
      <3>3. CASE m # n
        BY <1>a, <2>1, <2>2, <2>3, <3>1, <3>3 DEF Once, Places
      <3>. QED  BY <3>2, <3>3
    <2>. QED  BY <2>3, <2>4 DEF InPlace
  \* Steps of the handlers.
  <1>3. ASSUME NEW n \in Msgs, UNCHANGED <<events, toService, rcvd, pending>>,
               \/ post' = [post EXCEPT ![n] = "none"]
               \/ n # Initialize /\ post[n] = "flying" /\ post' = [post EXCEPT ![n] = "found"]
        PROVE  InPlace'
    <2>1. Kinds' /\ Mailed' = Mailed /\ Wished' = Wished /\ Reached' = Reached
      BY <1>0, <1>3 DEF InPlace, Kinds, Mailed, Wished, Reached
    <2>2. ASSUME NEW m \in Msgs
          PROVE  Once(m)'
      <3>1. Once(m) /\ (Untaken(m)' => Untaken(m))
        BY <1>a
      <3>2. post'[m] = post[m] \/ post'[m] = "none"
            \/ (m # Initialize /\ post[m] = "flying" /\ post'[m] = "found")
        BY <1>3
      <3>. QED  BY <1>3, <2>1, <3>1, <3>2 DEF Once, Places
    <2>. QED  BY <2>1, <2>2 DEF InPlace
  <1>4. CASE SendClose
    <2>1. UNCHANGED <<post, toService, rcvd, pending>>
      BY <1>4 DEF SendClose, deleteLocal
    <2>2. PICK e \in Mailbox : e = [kind |-> "close", of |-> None] /\ events' = Append(events, e)
      BY <1>4, Envelopes DEF SendClose, Push
    <2>3. /\ ToSet(events') = ToSet(events) \cup {e}
          /\ \A x : Single(events, x) /\ (x \in ToSet(events) => x # e) => Single(events', x)
      BY <2>2, Pushed
    <2>4. \A m : Letter(m) # e /\ Wish(m) # e
      BY <2>2, Envelopes
    <2>5. Mailed' = Mailed /\ Wished' = Wished /\ Reached' = Reached
      BY <2>1, <2>3, <2>4 DEF Mailed, Wished, Reached
    <2>6. Kinds'
      <3>1. Kinds /\ e.kind # "message" /\ e.kind # "stream"
        BY <1>0, <2>2 DEF InPlace
      <3>. QED  BY <2>3, <3>1 DEF Kinds
    <2>7. ASSUME NEW m \in Msgs
          PROVE  Once(m)'
      <3>1. Once(m) /\ Single(events', Letter(m)) /\ Single(events', Wish(m))
        BY <1>a, <2>3, <2>4 DEF Once
      <3>. QED  BY <1>a, <2>1, <2>5, <3>1 DEF Once, Places
    <2>. QED  BY <2>6, <2>7 DEF InPlace
  <1>5. ASSUME NEW n \in Requests, AskForStream(n)
        PROVE  InPlace'
    <2>1. /\ UNCHANGED <<toService, rcvd, pending>> /\ post[n] = "found" /\ n \in Msgs \ {Initialize}
          /\ post' = [post EXCEPT ![n] = "opening"]
      BY <1>5 DEF AskForStream, Reaches
    <2>2. PICK e \in Mailbox : e = Wish(n) /\ events' = Append(events, e)
      BY <1>5, Envelopes DEF AskForStream, Push, Wish
    <2>3. /\ ToSet(events') = ToSet(events) \cup {e}
          /\ \A x : Single(events, x) /\ (x \in ToSet(events) => x # e) => Single(events', x)
      BY <2>2, Pushed
    <2>4. Mailed' = Mailed /\ Wished' = Wished \cup {n} /\ Reached' = Reached
      BY <2>1, <2>2, <2>3, Envelopes DEF Mailed, Wished, Reached
    <2>5. Once(n) /\ n \notin Wished /\ n \notin Places /\ n \notin pending /\ ~Untaken(n)'
      BY <1>a, <2>1 DEF Once
    <2>6. Kinds'
      BY <1>0, <2>2, <2>3, Envelopes DEF Kinds, InPlace
    <2>7. ASSUME NEW m \in Msgs
          PROVE  Once(m)'
      <3>1. Once(m) /\ Single(events', Letter(m)) /\ Single(events', Wish(m))
        <4>1. Single(events, Letter(m)) /\ Single(events, Wish(m)) /\ Letter(m) # e
          BY <1>a, <2>2, Envelopes DEF Once
        <4>2. Wish(m) \in ToSet(events) => Wish(m) # e
          BY <2>2, <2>5, Envelopes DEF Wished
        <4>. QED  BY <1>a, <2>3, <4>1, <4>2
      <3>2. CASE m = n
        BY <2>1, <2>4, <2>5, <3>1, <3>2 DEF Once, Places
      <3>3. CASE m # n
        BY <1>a, <2>1, <2>4, <3>1, <3>3 DEF Once, Places
      <3>. QED  BY <3>2, <3>3
    <2>. QED  BY <2>6, <2>7 DEF InPlace
  <1>6. ASSUME NEW n \in Msgs, PushMessage(n)
        PROVE  InPlace'
    <2>1. /\ UNCHANGED <<toService, rcvd, pending>> /\ post[n] \in {"found", "opened"} /\ n # Initialize
          /\ post[n] = "found" => n \notin Requests
          /\ post' = [post EXCEPT ![n] = "none"]
      BY <1>6 DEF PushMessage, Reaches
    <2>2. PICK e \in Mailbox : e = Letter(n) /\ events' = Append(events, e)
      BY <1>6, Envelopes DEF PushMessage, Push, Letter
    <2>3. /\ ToSet(events') = ToSet(events) \cup {e}
          /\ \A x : Single(events, x) /\ (x \in ToSet(events) => x # e) => Single(events', x)
      BY <2>2, Pushed
    <2>4. Mailed' = Mailed \cup {n} /\ Wished' = Wished /\ Reached' = Reached
      BY <2>1, <2>2, <2>3, Envelopes DEF Mailed, Wished, Reached
    <2>5. Once(n) /\ n \notin Wished /\ n \notin Places /\ ~Untaken(n)'
      BY <1>a, <2>1 DEF Once
    <2>6. Kinds'
      BY <1>0, <2>1, <2>2, <2>3, Envelopes DEF Kinds, InPlace
    <2>7. ASSUME NEW m \in Msgs
          PROVE  Once(m)'
      <3>1. Once(m) /\ Single(events', Letter(m)) /\ Single(events', Wish(m))
        <4>1. Single(events, Letter(m)) /\ Single(events, Wish(m)) /\ Wish(m) # e
          BY <1>a, <2>2, Envelopes DEF Once
        <4>2. Letter(m) \in ToSet(events) => Letter(m) # e
          BY <2>2, <2>5, Envelopes DEF Places, Mailed
        <4>. QED  BY <1>a, <2>3, <4>1, <4>2
      <3>2. CASE m = n
        BY <2>1, <2>4, <2>5, <3>1, <3>2 DEF Once, Places
      <3>3. CASE m # n
        BY <1>a, <2>1, <2>4, <3>1, <3>3 DEF Once, Places
      <3>. QED  BY <3>2, <3>3
    <2>. QED  BY <2>6, <2>7 DEF InPlace
  <1>7. CASE PostInitialize
    <2>1. /\ UNCHANGED <<events, rcvd, pending>> /\ post[Initialize] = "flying" /\ toService' = <<Initialize>>
          /\ post' = [post EXCEPT ![Initialize] = "found"]
      BY <1>7 DEF PostInitialize, Reaches
    <2>2. rcvd = <<>> /\ events = <<>> /\ pending = {} /\ toService = <<>>
      BY <1>0, <2>1 DEF Begun
    <2>3. ToSet(toService') = {Initialize} /\ \A x : Single(toService', x)
      <3>1. DOMAIN <<Initialize>> = {1} /\ <<Initialize>>[1] = Initialize
        OBVIOUS
      <3>. QED  BY <2>1, <3>1 DEF ToSet, Single
    <2>4. ToSet(events') = {} /\ ToSet(rcvd') = {} /\ pending' = {} /\ \A x : Single(events', x) /\ Single(rcvd', x)
      BY <2>1, <2>2, Emptied, SingleNone
    <2>5. Kinds' /\ Mailed' = {} /\ Wished' = {} /\ Reached' = {Initialize}
      BY <2>3, <2>4 DEF Kinds, Mailed, Wished, Reached
    <2>6. ASSUME NEW m \in Msgs
          PROVE  Once(m)'
      <3>1. Once(m) /\ (Untaken(m)' => Untaken(m) /\ post[m] = "none") /\ ~Untaken(Initialize)'
        BY <1>a, <2>1 DEF Once
      <3>2. CASE m = Initialize
        BY <2>1, <2>3, <2>4, <2>5, <3>1, <3>2 DEF Once, Places
      <3>3. CASE m # Initialize
        BY <2>1, <2>3, <2>4, <2>5, <3>1, <3>3 DEF Once, Places
      <3>. QED  BY <3>2, <3>3
    <2>. QED  BY <2>5, <2>6 DEF InPlace
  \* Steps of the worker and of its service.
  <1>8. CASE OpenStream
    <2>1. PICK n \in Requests : /\ Head(events) = Wish(n) /\ Wish(n) \notin ToSet(Tail(events))
                                /\ pending' = pending \cup {n} /\ events' = Tail(events)
                                /\ post' = [post EXCEPT ![n] = IF @ = "opening" THEN "opened" ELSE @]
      BY <1>0, <1>8, FirstEvent DEF OpenStream, Selects
    <2>2. UNCHANGED <<toService, rcvd>> /\ events # <<>> /\ n \in Msgs \ {Initialize}
      BY <1>8 DEF OpenStream, Selects
    <2>3. /\ ToSet(events) = {Wish(n)} \cup ToSet(events')
          /\ \A x : Single(events, x) => Single(events', x)
      BY <1>0, <2>1, <2>2, FirstEvent
    <2>4. Mailed' = Mailed /\ Wished' = Wished \ {n} /\ Reached' = Reached /\ n \in Wished
      BY <2>1, <2>2, <2>3, Envelopes DEF Mailed, Wished, Reached
    <2>5. Kinds'
      BY <1>0, <2>3 DEF Kinds, InPlace
    <2>6. ASSUME NEW m \in Msgs
          PROVE  Once(m)'
      <3>1. Once(m) /\ Single(events', Letter(m)) /\ Single(events', Wish(m))
        BY <1>a, <2>3 DEF Once
      <3>2. CASE m = n
        BY <1>a, <2>1, <2>2, <2>4, <3>1, <3>2 DEF Once, Places
      <3>3. CASE m # n
        BY <1>a, <2>1, <2>2, <2>4, <3>1, <3>3 DEF Once, Places
      <3>. QED  BY <3>2, <3>3
    <2>. QED  BY <2>5, <2>6 DEF InPlace
  <1>9. CASE HandOver
    <2>1. PICK n \in Msgs : /\ n # Initialize /\ Head(events) = Letter(n) /\ Letter(n) \notin ToSet(Tail(events))
                            /\ toService' = Append(toService, n) /\ events' = Tail(events)
      BY <1>0, <1>9, FirstEvent DEF HandOver, Begun
    <2>2. UNCHANGED <<post, rcvd, pending>> /\ events # <<>>
      BY <1>0, <1>9 DEF HandOver, Begun
    <2>3. /\ ToSet(events) = {Letter(n)} \cup ToSet(events')
          /\ \A x : Single(events, x) => Single(events', x)
      BY <1>0, <2>1, <2>2, FirstEvent
    <2>4. ToSet(toService') = ToSet(toService) \cup {n}
      BY <2>1, Appended
    <2>5. Mailed' = Mailed \ {n} /\ Wished' = Wished /\ Reached' = Reached \cup {n} /\ n \in Mailed
      BY <2>1, <2>2, <2>3, <2>4, Envelopes DEF Mailed, Wished, Reached
    <2>6. Kinds'
      BY <1>0, <2>3 DEF Kinds, InPlace
    <2>7. ASSUME NEW m \in Msgs
          PROVE  Once(m)'
      <3>1. Once(m) /\ Single(events', Letter(m)) /\ Single(events', Wish(m))
        BY <1>a, <2>3 DEF Once
      <3>2. Single(toService', m)
        <4>1. m = n => m \notin ToSet(toService)
          BY <2>5, <3>1 DEF Once, Reached
        <4>. QED  BY <2>1, <3>1, <4>1, SingleAppend DEF Once
      <3>3. CASE m = n
        BY <1>a, <2>2, <2>4, <2>5, <3>1, <3>2, <3>3 DEF Once, Places, Reached
      <3>4. CASE m # n
        BY <1>a, <2>2, <2>4, <2>5, <3>1, <3>2, <3>4 DEF Once, Places
      <3>. QED  BY <3>3, <3>4
    <2>. QED  BY <2>6, <2>7 DEF InPlace
  <1>10. CASE TakeClose \/ SessionEnds
    <2>1. /\ UNCHANGED <<toService, rcvd>> /\ events' = <<>> /\ pending' = {}
          /\ UNCHANGED post \/ post' = [post EXCEPT ![Initialize] = "none"]
      BY <1>10 DEF TakeClose, HandleClose, SessionEnds, WorkerEnds, Reaches
    <2>2. ToSet(events') = {} /\ \A x : Single(events', x)
      BY <2>1, Emptied, SingleNone
    <2>3. Kinds' /\ Mailed' = {} /\ Wished' = {} /\ Reached' = Reached
      BY <2>1, <2>2 DEF Kinds, Mailed, Wished, Reached
    <2>4. ASSUME NEW m \in Msgs
          PROVE  Once(m)'
      <3>1. Once(m) /\ (Untaken(m)' => Untaken(m)) /\ post'[m] \in {post[m], "none"}
        BY <1>a, <2>1
      <3>. QED  BY <2>1, <2>2, <2>3, <3>1 DEF Once, Places
    <2>. QED  BY <2>3, <2>4 DEF InPlace
  <1>11. CASE ServiceReceives
    <2>1. PICK n \in Msgs : /\ n = Head(toService) /\ toService # <<>>
                            /\ rcvd' = Append(rcvd, n) /\ toService' = Tail(toService)
      BY <1>11, Tailed DEF ServiceReceives
    <2>2. UNCHANGED <<post, events, pending>>
      BY <1>11 DEF ServiceReceives
    <2>3. /\ ToSet(toService) = {n} \cup ToSet(toService') /\ ToSet(rcvd') = ToSet(rcvd) \cup {n}
          /\ \A x : Single(toService, x) =>
                 Single(toService', x) /\ (n = x => x \notin ToSet(toService'))
      BY <2>1, Tailed, Appended, SingleTail
    <2>4. Kinds' /\ Mailed' = Mailed /\ Wished' = Wished /\ Reached' = Reached
      BY <1>0, <2>2, <2>3 DEF InPlace, Kinds, Mailed, Wished, Reached
    <2>5. ASSUME NEW m \in Msgs
          PROVE  Once(m)'
      <3>1. Once(m) /\ Single(toService', m)
        BY <1>a, <2>3 DEF Once
      <3>2. Single(rcvd', m)
        <4>1. n = m => m \notin ToSet(rcvd)
          BY <2>3, <3>1 DEF Once
        <4>. QED  BY <2>1, <3>1, <4>1, SingleAppend DEF Once
      <3>3. m \in ToSet(rcvd') => m \notin ToSet(toService')
        BY <2>3, <3>1 DEF Once
      <3>. QED  BY <1>a, <2>2, <2>4, <3>1, <3>2, <3>3 DEF Once, Places
    <2>. QED  BY <2>4, <2>5 DEF InPlace
  <1>12. ASSUME \/ AtClient \/ RemoveHandle \/ TakeClientMessage \/ ServiceStops
                \/ \E m \in Requests : Respond(m)
                \/ \E c \in Streams : Notify(c)
         PROVE  UNCHANGED <<post, events, toService, rcvd>> /\ pending' \subseteq pending
    BY <1>12, ClientOnly DEF RemoveHandle, deleteLocal, TakeClientMessage, ServiceStops, Respond, Notify
  <1>13. ASSUME NEW n \in Msgs, PostFails(n) \/ FindSession(n) \/ (AnswerInitialize /\ n = Initialize)
         PROVE  /\ UNCHANGED <<events, toService, rcvd, pending>>
                /\ \/ post' = [post EXCEPT ![n] = "none"]
                   \/ n # Initialize /\ post[n] = "flying" /\ post' = [post EXCEPT ![n] = "found"]
    BY <1>13 DEF PostFails, FindSession, AnswerInitialize, Reaches
  <1>14. CASE AnswerInitialize
    BY <1>3, <1>13, <1>14
  <1>15. ASSUME NEW n \in Msgs, AskForStream(n)
         PROVE  n \in Requests
    BY <1>15 DEF AskForStream
  <1>. QED
    BY <1>1, <1>2, <1>3, <1>4, <1>5, <1>6, <1>7, <1>8, <1>9, <1>10, <1>11, <1>12, <1>13, <1>14, <1>15,
       StepKinds

\* What is queued or received stays so, unless the session ends.
LEMMA PlacesStay ==
    ASSUME Typed, Ordered, [Next]_vars
    PROVE  /\ ToSet(rcvd) \subseteq ToSet(rcvd') /\ Reached \subseteq Reached'
           /\ session' # "ended" => Places \subseteq Places'
           /\ session = "ended" => session' = "ended"
  <1>. USE Queues
  <1>0. InPlace /\ Begun
    BY DEF Ordered
  <1>. DEFINE Goal == /\ ToSet(rcvd) \subseteq ToSet(rcvd') /\ Reached \subseteq Reached'
                      /\ session' # "ended" => Places \subseteq Places'
                      /\ session = "ended" => session' = "ended"
  <1>. SUFFICES Goal
    OBVIOUS
  <1>1. ASSUME UNCHANGED <<rcvd, toService>>,
               session' = "ended" \/ Mailed \subseteq Mailed',
               session = "ended" => session' = "ended"
        PROVE  Goal
    BY <1>1 DEF Places, Reached
  <1>2. CASE \/ AtClient \/ TakeMessage \/ AnswerInitialize \/ RemoveHandle \/ TakeClientMessage
             \/ ServiceStops \/ TakeClose \/ SessionEnds
             \/ \E m \in Msgs : PostFails(m) \/ FindSession(m)
             \/ \E m \in Requests : Respond(m)
             \/ \E c \in Streams : Notify(c)
    <2>1. /\ UNCHANGED <<rcvd, toService>> /\ (UNCHANGED events \/ session' = "ended")
          /\ session = "ended" => session' = "ended"
      BY <1>2, ClientOnly DEF TakeMessage, AnswerInitialize, RemoveHandle, deleteLocal, TakeClientMessage,
         Selects, ServiceStops, TakeClose, HandleClose, SessionEnds, WorkerEnds, PostFails, FindSession,
         Respond, Notify
    <2>2. UNCHANGED events => Mailed' = Mailed
      BY DEF Mailed
    <2>. QED  BY <1>1, <2>1, <2>2
  <1>3. CASE SendClose \/ \E m \in Msgs : AskForStream(m) \/ PushMessage(m)
    <2>1. /\ UNCHANGED <<rcvd, toService, session>>
          /\ \E e \in Mailbox : events' = Append(events, e)
      BY <1>3, Envelopes DEF SendClose, deleteLocal, AskForStream, PushMessage, Push, Letter, Wish
    <2>2. Mailed \subseteq Mailed'
      BY <2>1, Pushed DEF Mailed
    <2>. QED  BY <1>1, <2>1, <2>2
  <1>4. CASE PostInitialize
    <2>1. /\ UNCHANGED <<rcvd, events>> /\ toService = <<>> /\ session = "none"
      BY <1>0, <1>4 DEF PostInitialize, Begun, Reaches
    <2>2. ToSet(toService) = {} /\ UNCHANGED Mailed
      BY <2>1, Emptied DEF Mailed
    <2>. QED  BY <2>1, <2>2 DEF Places, Reached
  <1>5. CASE OpenStream
    <2>1. PICK n \in Requests : Head(events) = Wish(n)
      BY <1>0, <1>5, FirstEvent DEF OpenStream, Selects
    <2>2. UNCHANGED <<toService, rcvd, session>> /\ events # <<>> /\ events' = Tail(events)
      BY <1>5 DEF OpenStream, Selects
    <2>3. ToSet(events) = {Wish(n)} \cup ToSet(events')
      BY <1>0, <2>1, <2>2, FirstEvent
    <2>4. Mailed \subseteq Mailed'
      BY <2>3, Envelopes DEF Mailed
    <2>. QED  BY <1>1, <2>2, <2>4
  <1>6. CASE HandOver
    <2>1. PICK n \in Msgs : /\ Head(events) = Letter(n) /\ Head(events).of = n
                            /\ toService' = Append(toService, n) /\ events' = Tail(events)
      BY <1>0, <1>6, FirstEvent DEF HandOver, Begun
    <2>2. UNCHANGED rcvd /\ events # <<>> /\ session = "handing"
      BY <1>0, <1>6 DEF HandOver, Begun
    <2>3. /\ ToSet(events) = {Letter(n)} \cup ToSet(events')
          /\ ToSet(toService') = ToSet(toService) \cup {n}
      BY <1>0, <2>1, <2>2, FirstEvent, Appended
    <2>4. Mailed \subseteq Mailed' \cup {n}
      BY <2>3, Envelopes DEF Mailed
    <2>. QED  BY <2>2, <2>3, <2>4 DEF Places, Reached
  <1>7. CASE ServiceReceives
    <2>1. PICK n \in Msgs : /\ n = Head(toService) /\ toService # <<>>
                            /\ rcvd' = Append(rcvd, n) /\ toService' = Tail(toService)
      BY <1>7, Tailed DEF ServiceReceives
    <2>2. UNCHANGED <<events, session>>
      BY <1>7 DEF ServiceReceives
    <2>3. ToSet(toService) = {n} \cup ToSet(toService') /\ ToSet(rcvd') = ToSet(rcvd) \cup {n}
      BY <2>1, Tailed, Appended
    <2>4. Mailed' = Mailed
      BY <2>2 DEF Mailed
    <2>. QED  BY <2>2, <2>3, <2>4 DEF Places, Reached
  <1>. HIDE DEF Goal
  <1>. QED  BY <1>2, <1>3, <1>4, <1>5, <1>6, <1>7, StepKinds

\* ---- the session
LEMMA HeadAppend ==
    ASSUME NEW S, NEW s \in Seq(S), s # <<>>, NEW x \in S
    PROVE  Append(s, x) # <<>> /\ Head(Append(s, x)) = Head(s)
  <1>1. Len(s) \in Nat \ {0} /\ Head(s) = s[1]
    BY Tailed
  <1>2. /\ Append(s, x) \in Seq(S) /\ Len(Append(s, x)) = Len(s) + 1
        /\ \A k \in 1 .. Len(s) : Append(s, x)[k] = s[k]
    BY Appended
  <1>3. Append(s, x) # <<>> /\ Append(s, x)[1] = s[1]
    BY <1>1, <1>2, EmptySeq
  <1>4. Head(Append(s, x)) = Append(s, x)[1]
    BY <1>2, <1>3, Tailed
  <1>. QED  BY <1>1, <1>3, <1>4

\* Where the client waits for an answer, and with which message, changes when it takes one.
LEMMA PostingBefore ==
    ASSUME Typed, [Next]_vars
    PROVE  /\ pc' = "wait_initialize" => pc = "wait_initialize"
           /\ pc' = "posting" => TakeMessage \/ (pc = "posting" /\ UNCHANGED cur)
  <1>1. CASE Elsewhere
    BY <1>1, ElsewhereRests
  <1>2. CASE Quits
    BY <1>2, QuitsQuit DEF Quit
  <1>3. CASE TakeMessage
    BY <1>3 DEF TakeMessage, AfterPost
  <1>4. CASE \/ InitializeAnswered \/ HandInitialize \/ InitializedAnswered \/ TakeServerMessage \/ Hand
             \/ AskForCommon \/ GetCommon \/ SkipCommon \/ Receive \/ Close \/ Drop
             \/ \E l \in Msgs : RequestAnswered(l) \/ Send(l)
    BY <1>4 DEF InitializeAnswered, HandInitialize, InitializedAnswered, TakeServerMessage, Hand,
                AskForCommon, GetCommon, SkipCommon, Receive, Close, Drop, RequestAnswered, Send
  <1>. QED  BY <1>1, <1>2, <1>3, <1>4 DEF Next, Worker, Quits, Elsewhere, Msgs

\* What an answer comes from.
LEMMA AnswerBefore ==
    ASSUME Typed, Ordered, [Next]_vars, pc' = "posting"
    PROVE  /\ answer' = "json" => answer = "json" \/ (AnswerInitialize /\ cur = Initialize)
           /\ answer' \in {"accepted", "sse"} =>
                  answer = answer' \/ \E m \in Msgs : PushMessage(m) /\ cur = m
  <1>1. CASE Quits \/ TakeMessage
    BY <1>1, QuitsQuit DEF Quit, TakeMessage
  <1>2. CASE \/ InitializeAnswered \/ HandInitialize \/ InitializedAnswered \/ TakeServerMessage \/ Hand
             \/ AskForCommon \/ GetCommon \/ SkipCommon \/ Receive \/ Close \/ Drop \/ UNCHANGED vars
             \/ \E l \in Msgs : RequestAnswered(l) \/ Send(l)
    <2>1. UNCHANGED answer
      BY <1>2 DEF InitializeAnswered, HandInitialize, InitializedAnswered, TakeServerMessage, Hand,
                AskForCommon, GetCommon, SkipCommon, Receive, Close, Drop, RequestAnswered, Send, vars
    <2>. QED  BY <2>1
  <1>3. ASSUME NEW k \in Streams, Yield(k) \/ Break(k) \/ Retry(k) \/ Resume(k) \/ Finish(k)
        PROVE  UNCHANGED answer
    BY <1>3 DEF Yield, Break, Retry, Resume, Finish
  <1>4. CASE \/ PostInitialize \/ RemoveHandle \/ SendClose \/ DeleteFails
             \/ \E m \in Msgs : FindSession(m) \/ AskForStream(m)
             \/ OpenStream \/ TakeClientMessage \/ HandOver \/ TakeClose
             \/ ServiceReceives \/ ServiceStops
             \/ \E m \in Requests : Respond(m)
             \/ \E c \in Streams : Notify(c)
    <2>1. UNCHANGED answer
      BY <1>4 DEF PostInitialize, RemoveHandle, SendClose, DeleteFails, deleteLocal, FindSession,
                  AskForStream, OpenStream, TakeClientMessage, HandOver, TakeClose, ServiceReceives,
                  ServiceStops, Respond, Notify
    <2>. QED  BY <2>1
  <1>5. CASE AnswerLost \/ SessionEnds \/ \E m \in Msgs : PostFails(m)
    <2>1. answer' \in {answer, "failed"}
      BY <1>5 DEF AnswerLost, SessionEnds, PostFails, Reply
    <2>. QED  BY <2>1
  <1>6. CASE AnswerInitialize
    BY <1>6 DEF AnswerInitialize, Reply
  <1>7. ASSUME NEW m \in Msgs, PushMessage(m)
        PROVE  \/ answer' = answer
               \/ answer' \in {"accepted", "sse"} /\ cur = m
    BY <1>7 DEF PushMessage, Reply
  <1>. QED
    BY <1>1, <1>2, <1>3, <1>4, <1>5, <1>6, <1>7 DEF Next, Worker, Handlers, Session, Quits, Msgs

LEMMA BegunSteps ==
    ASSUME Typed, Ordered, [Next]_vars
    PROVE  Begun'
  <1>. USE Queues
  <1>0. InPlace /\ Begun /\ InSendOrder
    BY DEF Ordered
  <1>. DEFINE Server ==
           /\ session = "none" => rcvd = <<>> /\ toService = <<>> /\ ~managed
           /\ session \in {"none", "initializing"} =>
                  events = <<>> /\ pending = {} /\ \A c \in Streams : log[c] = <<>>
           /\ session = "handing" => events # <<>> /\ Head(events).kind = "message"
  <1>1. Server'
    <2>0. Server
      BY <1>0 DEF Begun
    <2>1. CASE AtClient \/ TakeMessage \/ ServiceStops \/ \E m \in Msgs : PostFails(m) \/ FindSession(m)
      <3>1. UNCHANGED <<session, rcvd, toService, managed, events, pending, log>>
        BY <2>1, ClientOnly DEF TakeMessage, ServiceStops, PostFails, FindSession
      <3>. QED  BY <2>0, <3>1
    <2>2. CASE PostInitialize
      <3>1. /\ session' = "initializing" /\ UNCHANGED <<events, pending, log>> /\ session = "none"
        BY <1>0, <2>2 DEF PostInitialize, Begun, Reaches
      <3>. QED  BY <2>0, <3>1
    <2>3. CASE \/ AnswerInitialize \/ OpenStream \/ HandOver \/ TakeClose \/ SessionEnds
               \/ \E m \in Requests : Respond(m)
               \/ \E c \in Streams : Notify(c)
      <3>1. session' \in {"select", "ended"}
        BY <2>3 DEF AnswerInitialize, OpenStream, HandOver, TakeClose, HandleClose, SessionEnds, WorkerEnds,
                    Respond, Notify, Selects
      <3>. QED  BY <3>1
    <2>4. CASE RemoveHandle
      BY <2>0, <2>4 DEF RemoveHandle, deleteLocal
    <2>5. CASE SendClose \/ \E m \in Msgs : AskForStream(m) \/ PushMessage(m)
      <3>1. UNCHANGED session /\ Running
        BY <2>5 DEF SendClose, deleteLocal, AskForStream, PushMessage, Push
      <3>3. PICK e \in Mailbox : events' = Append(events, e)
        BY <2>5, Envelopes DEF SendClose, deleteLocal, AskForStream, PushMessage, Push, Letter, Wish
      <3>2. session = "handing" => events' # <<>> /\ Head(events') = Head(events)
        <4>1. session = "handing" => events # <<>>
          BY <2>0
        <4>2. events # <<>> => Append(events, e) # <<>> /\ Head(Append(events, e)) = Head(events)
          BY HeadAppend
        <4>. QED  BY <3>3, <4>1, <4>2
      <3>. QED  BY <2>0, <3>1, <3>2 DEF Running
    <2>6. CASE TakeClientMessage
      BY <2>6 DEF TakeClientMessage, Selects
    <2>7. CASE ServiceReceives
      <3>1. UNCHANGED <<session, managed, events, pending, log>> /\ toService # <<>>
        BY <2>7 DEF ServiceReceives
      <3>. QED  BY <2>0, <3>1
    <2>. HIDE DEF Server
    <2>. QED  BY <2>1, <2>2, <2>3, <2>4, <2>5, <2>6, <2>7, StepKinds
  <1>2. /\ post'[Initialize] = "flying" => session' = "none"
        /\ pc' = "wait_initialize" => session' = "none" /\ \A m \in Msgs : post'[m] = "none"
    <2>0. /\ post[Initialize] = "flying" => session = "none"
          /\ pc = "wait_initialize" => session = "none" /\ \A m \in Msgs : post[m] = "none"
          /\ session = "none" => toService = <<>> /\ ~managed
          /\ pc' = "wait_initialize" => pc = "wait_initialize"
      BY <1>0, PostingBefore DEF Begun
    <2>1. CASE AtClient \/ ServiceStops \/ RemoveHandle \/ \E c \in Streams : Notify(c)
      <3>1. UNCHANGED <<session, post>>
        BY <2>1, ClientOnly DEF ServiceStops, RemoveHandle, deleteLocal, Notify
      <3>. QED  BY <2>0, <3>1
    <2>2. CASE TakeMessage
      <3>1. PICK m \in Msgs : /\ m = Head(fromHandler) /\ pc' = "posting" /\ post' = [post EXCEPT ![m] = "flying"]
                              /\ fromHandler # <<>>
        BY <2>2, Takes DEF TakeMessage
      <3>2. UNCHANGED session
        BY <2>2 DEF TakeMessage
      <3>3. m = Initialize => pc = "wait_initialize"
        <4>1. 1 \in DOMAIN fromHandler /\ fromHandler[1] = m
          BY <3>1, Tailed
        <4>. QED  BY <1>0, <4>1 DEF InSendOrder
      <3>. QED  BY <2>0, <3>1, <3>2, <3>3
    <2>3. CASE PostInitialize
      <3>1. post' = [post EXCEPT ![Initialize] = "found"] /\ post[Initialize] = "flying"
        BY <2>3 DEF PostInitialize, Reaches
      <3>. QED  BY <2>0, <3>1
    <2>4. CASE AnswerInitialize \/ SessionEnds \/ TakeClose \/ HandOver
      <3>1. /\ session # "none" /\ (UNCHANGED post \/ post' = [post EXCEPT ![Initialize] = "none"])
        BY <2>4 DEF AnswerInitialize, SessionEnds, Reaches, TakeClose, HandOver, Selects, Running
      <3>. QED  BY <2>0, <3>1
    <2>5. CASE \/ SendClose \/ TakeClientMessage \/ ServiceReceives
               \/ \E m \in Requests : Respond(m)
      <3>1. /\ session # "none" \/ toService # <<>>
            /\ session' = session \/ session = "select"
            /\ UNCHANGED post
        BY <2>5 DEF SendClose, deleteLocal, Push, Running, TakeClientMessage, Selects, ServiceReceives, Respond
      <3>. QED  BY <2>0, <3>1
    <2>6. ASSUME NEW m \in Msgs, PostFails(m) \/ FindSession(m) \/ AskForStream(m) \/ PushMessage(m)
          PROVE  /\ post'[Initialize] = "flying" => session' = "none"
                 /\ pc' = "wait_initialize" => session' = "none" /\ \A l \in Msgs : post'[l] = "none"
      <3>1. /\ UNCHANGED session /\ post[m] # "none"
            /\ \E s \in {"none", "found", "opening"} : post' = [post EXCEPT ![m] = s]
        BY <2>6 DEF PostFails, FindSession, AskForStream, PushMessage, Reaches
      <3>. QED  BY <2>0, <3>1
    <2>7. CASE OpenStream
      <3>1. /\ UNCHANGED session /\ session = "select"
            /\ \E m \in Requests : post' = [post EXCEPT ![m] = IF @ = "opening" THEN "opened" ELSE @]
        BY <1>0, <2>7, FirstEvent DEF OpenStream, Selects
      <3>. QED  BY <2>0, <3>1
    <2>. QED  BY <2>1, <2>2, <2>3, <2>4, <2>5, <2>6, <2>7, StepKinds
  <1>3. pc' = "posting" /\ cur' = Initialize /\ answer' = "json" => Initialize \in ToSet(rcvd')
    <2>. SUFFICES ASSUME pc' = "posting", cur' = Initialize, answer' = "json"
                  PROVE  Initialize \in ToSet(rcvd')
      OBVIOUS
    <2>1. pc = "posting" /\ UNCHANGED cur
      BY PostingBefore DEF TakeMessage
    <2>2. CASE answer = "json"
      BY <1>0, <2>1, <2>2, PlacesStay DEF Begun
    <2>3. CASE AnswerInitialize
      BY <2>3 DEF AnswerInitialize, Contains, ToSet
    <2>. QED  BY <2>2, <2>3, AnswerBefore
  <1>4. pc' = "posting" /\ answer' \in {"accepted", "sse"} => session' = "ended" \/ cur' \in Places'
    <2>. SUFFICES ASSUME pc' = "posting", answer' \in {"accepted", "sse"}
                  PROVE  session' = "ended" \/ cur' \in Places'
      OBVIOUS
    <2>1. pc = "posting" /\ UNCHANGED cur
      BY PostingBefore DEF TakeMessage
    <2>2. CASE answer = answer'
      BY <1>0, <2>1, <2>2, PlacesStay DEF Begun
    <2>3. ASSUME NEW m \in Msgs, PushMessage(m), cur = m
          PROVE  cur' \in Places'
      <3>1. Letter(m) \in Mailbox /\ events' = Append(events, Letter(m))
        BY <2>3, Envelopes DEF PushMessage, Push, Letter
      <3>2. m \in Mailed'
        BY <3>1, Pushed DEF Mailed
      <3>. QED  BY <2>1, <2>3, <3>2 DEF Places
    <2>. QED  BY <2>2, <2>3, AnswerBefore
  <1>. QED  BY <1>1, <1>2, <1>3, <1>4 DEF Begun

\* A new entry keeps a log distinct.
LEMMA EmitDistinct ==
    ASSUME Typed, LogsDistinct, NEW c \in Streams, NEW e \in Requests \cup Notes,
           Emit(c, e), e \notin ToSet(log[c])
    PROVE  /\ log' \in [Streams -> Seq(Requests \cup Notes)]
           /\ \A d \in Streams : \A i, j \in DOMAIN log'[d] : log'[d][i] = log'[d][j] => i = j
           /\ \A d \in Streams \ {c} : log'[d] = log[d]
           /\ ToSet(log'[c]) = ToSet(log[c]) \cup {e}
           /\ Len(log'[c]) = Len(log[c]) + 1
  <1>1. /\ log \in [Streams -> Seq(Requests \cup Notes)]
        /\ log' = [log EXCEPT ![c] = Append(@, e)]
        /\ \A d \in Streams : \A i, j \in DOMAIN log[d] : log[d][i] = log[d][j] => i = j
    BY DEF Typed, TypeOK, Emit, LogsDistinct
  <1>2. /\ log'[c] = Append(log[c], e) /\ \A d \in Streams \ {c} : log'[d] = log[d]
        /\ log[c] \in Seq(Requests \cup Notes)
    BY <1>1
  <1>3. /\ log'[c] \in Seq(Requests \cup Notes) /\ Len(log'[c]) = Len(log[c]) + 1
        /\ DOMAIN log[c] = 1 .. Len(log[c]) /\ DOMAIN log'[c] = 1 .. Len(log[c]) + 1
        /\ \A k \in 1 .. Len(log[c]) : log'[c][k] = log[c][k]
        /\ log'[c][Len(log[c]) + 1] = e
        /\ ToSet(log'[c]) = ToSet(log[c]) \cup {e} /\ Len(log[c]) \in Nat
    BY <1>2, Appended
  <1>4. \A i \in DOMAIN log[c] : log[c][i] # e
    BY DEF ToSet
  <1>5. \A i, j \in DOMAIN log'[c] : log'[c][i] = log'[c][j] => i = j
    BY SMTT(20), <1>1, <1>3, <1>4
  <1>6. log' \in [Streams -> Seq(Requests \cup Notes)]
    BY <1>1, <1>2, <1>3
  <1>. QED  BY <1>1, <1>2, <1>3, <1>5, <1>6

LEMMA NewNoteInNoLog ==
    ASSUME Typed, NEW n, NEW d \in Streams, ~Contains(log[d], n)
    PROVE  n \notin ToSet(log[d])
  <1>1. log[d] \in Seq(Requests \cup Notes)
    BY DEF Typed, TypeOK
  <1>. QED  BY <1>1, LenProperties DEF Contains, ToSet

LEMMA LogsSteps ==
    ASSUME Typed, Ordered, [Next]_vars
    PROVE  /\ log' \in [Streams -> Seq(Requests \cup Notes)]
           /\ LogsDistinct'
  <1>. USE Queues
  <1>0. log \in [Streams -> Seq(Requests \cup Notes)] /\ LogsDistinct
    BY DEF Typed, TypeOK, Ordered
  <1>1. ASSUME NEW m \in Requests, Respond(m)
        PROVE  log' \in [Streams -> Seq(Requests \cup Notes)] /\ LogsDistinct'
    <2>1. /\ m \in pending /\ pending' = pending \ {m} /\ UNCHANGED rcvd /\ Emit(Common, m)
          /\ Common \in Streams /\ m \in ToSet(rcvd)
      BY <1>1 DEF Respond, Streams, Contains, ToSet
    <2>2. m \notin ToSet(log[Common])
      BY <1>0, <2>1 DEF LogsDistinct
    <2>3. /\ log' \in [Streams -> Seq(Requests \cup Notes)]
          /\ \A d \in Streams : \A i, j \in DOMAIN log'[d] : log'[d][i] = log'[d][j] => i = j
          /\ ToSet(log'[Common]) = ToSet(log[Common]) \cup {m}
      BY <1>0, <2>1, <2>2, EmitDistinct
    <2>. QED  BY <1>0, <2>1, <2>3 DEF LogsDistinct
  <1>2. ASSUME NEW c \in Streams, Notify(c)
        PROVE  log' \in [Streams -> Seq(Requests \cup Notes)] /\ LogsDistinct'
    <2>1. PICK n \in Notes : /\ Emit(c, n) /\ \A d \in Streams : ~Contains(log[d], n)
      <3>1. Cardinality({n \in Notes : \E d \in Streams : Contains(log[d], n)}) < MaxNotes
        BY <1>2 DEF Notify
      <3>. QED  BY <1>2, <3>1, NewNote DEF Notify
    <2>2. n \notin ToSet(log[c]) /\ n \notin Requests
      BY <2>1, NewNoteInNoLog, StreamableHttpAssumption
    <2>3. /\ log' \in [Streams -> Seq(Requests \cup Notes)]
          /\ \A d \in Streams : \A i, j \in DOMAIN log'[d] : log'[d][i] = log'[d][j] => i = j
          /\ ToSet(log'[c]) = ToSet(log[c]) \cup {n}
          /\ \A d \in Streams \ {c} : log'[d] = log[d]
      BY <1>0, <2>1, <2>2, EmitDistinct
    <2>4. UNCHANGED <<rcvd, pending>> /\ Common \in Streams
      BY <1>2 DEF Notify, Streams
    <2>. QED  BY <1>0, <2>2, <2>3, <2>4 DEF LogsDistinct
  <1>3. CASE OpenStream
    <2>1. PICK n \in Requests : /\ Head(events) = Wish(n) /\ pending' = pending \cup {n}
      BY <1>3, FirstEvent DEF OpenStream, Selects, Ordered
    <2>2. UNCHANGED <<log, rcvd>> /\ events # <<>>
      BY <1>3 DEF OpenStream, Selects
    <2>3. n \in Wished
      BY <2>1, <2>2, FirstEvent DEF Wished, Ordered
    <2>4. n \notin ToSet(rcvd)
      BY <2>3 DEF Ordered, InPlace, Once, Places, Reached
    <2>. QED  BY <1>0, <2>1, <2>2, <2>4 DEF LogsDistinct
  <1>4. ASSUME UNCHANGED log, pending' \subseteq pending
        PROVE  log' \in [Streams -> Seq(Requests \cup Notes)] /\ LogsDistinct'
    BY <1>0, <1>4, PlacesStay DEF LogsDistinct
  <1>5. ASSUME \/ AtClient \/ TakeMessage
               \/ PostInitialize \/ AnswerInitialize \/ RemoveHandle \/ SendClose
               \/ \E m \in Msgs : PostFails(m) \/ FindSession(m) \/ AskForStream(m) \/ PushMessage(m)
               \/ TakeClientMessage \/ HandOver \/ TakeClose \/ SessionEnds
               \/ ServiceReceives \/ ServiceStops
        PROVE  UNCHANGED log /\ pending' \subseteq pending
    BY <1>5, ClientOnly DEF TakeMessage, PostInitialize, AnswerInitialize, RemoveHandle, SendClose, deleteLocal,
       PostFails, FindSession, AskForStream, PushMessage, TakeClientMessage, HandOver, TakeClose,
       HandleClose, SessionEnds, WorkerEnds, ServiceReceives, ServiceStops
  <1>. QED  BY <1>1, <1>2, <1>3, <1>4, <1>5, StepKinds

\* ---- types
LEMMA TaskFields ==
    ASSUME task \in [Streams -> TaskStates], NEW k \in Streams
    PROVE  /\ task[k] \in TaskStates /\ task[k].wire \in Seq(Event)
           /\ task[k].st \in {"none", "open", "retrying", "asking", "done"}
           /\ task[k].last \in Event \cup {None} /\ task[k].reads \in Streams \cup {None}
  BY DEF TaskStates

LEMMA Retasked ==
    ASSUME NEW t \in TaskStates, NEW s \in {"none", "open", "retrying", "asking", "done"},
           NEW w \in Seq(Event), NEW l \in Event \cup {None}, NEW r \in Streams \cup {None}
    PROVE  /\ [t EXCEPT !.st = s] \in TaskStates /\ [t EXCEPT !.reads = r] \in TaskStates
           /\ [t EXCEPT !.st = s, !.wire = w] \in TaskStates
           /\ [t EXCEPT !.last = l, !.wire = w] \in TaskStates
           /\ [t EXCEPT !.st = s, !.reads = r, !.wire = w] \in TaskStates
  BY DEF TaskStates

LEMMA SetTask ==
    ASSUME task \in [Streams -> TaskStates], NEW k \in Streams, NEW t \in TaskStates,
           task' = [task EXCEPT ![k] = t]
    PROVE  task' \in [Streams -> TaskStates]
  OBVIOUS


\* What a GET brings are events of the stream's log, in a row and up to its end; it starts no later
\* than at the last event that was seen, or where the cache starts.
LEMMA ConnectBrings ==
    ASSUME Typed, LogsFit, NEW k \in Streams, Connect(k)
    PROVE  \E c \in {Common} \cup pending, n \in Nat, w \in Seq(Event) :
               /\ c = IF task[k].last = None THEN Common ELSE task[k].last[1]
               /\ n >= 1 /\ (n = First(task[k].last) \/ n = Oldest(c)) /\ Oldest(c) <= n
               /\ w = [i \in 1 .. Len(log[c]) + 1 - n |-> <<c, n + i - 1>>]
               /\ reader' = [reader EXCEPT ![c] = k]
               /\ task' = [task EXCEPT ![k].st = "open", ![k].reads = c, ![k].wire = w]
               /\ c \in Streams
  <1>0. PICK c, n : /\ c = IF task[k].last = None THEN Common ELSE task[k].last[1]
                    /\ n = IF First(task[k].last) < Oldest(c) THEN Oldest(c) ELSE First(task[k].last)
    OBVIOUS
  <1>1. /\ c \in {Common} \cup pending
        /\ reader' = [reader EXCEPT ![c] = k]
        /\ task' = [task EXCEPT ![k].st = "open", ![k].reads = c,
                    ![k].wire = [i \in 1 .. Len(log[c]) + 1 - n |-> <<c, n + i - 1>>]]
    BY <1>0 DEF Connect
  <1>2. c \in Streams /\ log[c] \in Seq(Requests \cup Notes) /\ Len(log[c]) \in Nat
        /\ Len(log[c]) <= Bound
    BY <1>1, LenProperties DEF Typed, TypeOK, LogsFit, Streams
  <1>3. First(task[k].last) \in Nat /\ First(task[k].last) >= 1
    BY TaskFields DEF Typed, Holding, First, Event
  <1>4. Oldest(c) \in Nat /\ Oldest(c) >= 1
    BY <1>2, CapacityIsNumber DEF Oldest
  <1>5. /\ n \in Nat /\ n >= 1 /\ (n = First(task[k].last) \/ n = Oldest(c)) /\ Oldest(c) <= n
    BY <1>0, <1>3, <1>4
  <1>6. PICK w : w = [i \in 1 .. Len(log[c]) + 1 - n |-> <<c, n + i - 1>>]
    OBVIOUS
  <1>7. w \in Seq(Event)
    <2>1. PICK l \in Nat : 1 .. l = 1 .. Len(log[c]) + 1 - n /\ (l = Len(log[c]) + 1 - n \/ l = 0)
      <3>1. CASE Len(log[c]) + 1 - n \in Nat
        BY <3>1
      <3>2. CASE Len(log[c]) + 1 - n \notin Nat
        <4>1. Len(log[c]) \in Nat /\ n \in Nat
          BY <1>2, <1>5
        <4>2. 1 .. Len(log[c]) + 1 - n = 1 .. 0
          BY <3>2, <4>1
        <4>. QED  BY <4>2
      <3>. QED  BY <3>1, <3>2
    <2>2. \A i \in 1 .. l : <<c, n + i - 1>> \in Event
      BY SMTT(20), <1>2, <1>5, <2>1, BoundIsNumber DEF Event, Bound
    <2>3. w \in [1 .. l -> Event]
      BY <1>6, <2>1, <2>2
    <2>. QED  BY <2>3, SeqDef
  <1>. QED  BY <1>0, <1>1, <1>2, <1>5, <1>6, <1>7

LEMMA EmitTypes ==
    ASSUME Typed, Ordered, LogsFit', NEW c \in Streams, NEW e \in Requests \cup Notes, Emit(c, e)
    PROVE  /\ task' \in [Streams -> TaskStates]
           /\ \A k \in Streams : task'[k].st = task[k].st
           /\ <<c, Len(log[c]) + 1>> \in Event
  <1>1. /\ task \in [Streams -> TaskStates] /\ log \in [Streams -> Seq(Requests \cup Notes)]
        /\ reader \in [Streams -> Streams \cup {None}]
    BY DEF Typed, Holding, TypeOK
  <1>2. Len(log[c]) \in Nat /\ log[c] \in Seq(Requests \cup Notes)
    BY <1>1, LenProperties
  <1>3. log'[c] = Append(log[c], e) /\ Len(log'[c]) = Len(log[c]) + 1
    BY <1>1, <1>2, Appended DEF Emit
  <1>4. PICK x \in Event : x = <<c, Len(log[c]) + 1>>
    <2>1. Len(log'[c]) <= Bound
      BY DEF LogsFit
    <2>2. Len(log[c]) + 1 \in 1 .. Bound
      BY <1>2, <1>3, <2>1, BoundIsNumber
    <2>. QED  BY <2>2 DEF Event, Bound
  <1>5. CASE reader[c] = None
    BY <1>1, <1>4, <1>5 DEF Emit
  <1>6. CASE reader[c] # None
    <2>1. PICK k \in Streams : k = reader[c]
      BY <1>1, <1>6
    <2>2. task' = [task EXCEPT ![k].wire = Append(@, x)]
      BY <1>4, <1>6, <2>1 DEF Emit
    <2>3. Append(task[k].wire, x) \in Seq(Event)
      BY <1>1, TaskFields, Appended
    <2>. QED  BY ZenonT(30), <1>1, <1>4, <2>2, <2>3 DEF TaskStates
  <1>. QED  BY <1>5, <1>6
LEMMA TaskTypes ==
    ASSUME Typed, Ordered, LogsFit, LogsFit', [Next]_vars
    PROVE  /\ task' \in [Streams -> TaskStates]
           /\ reader' \in [Streams -> Streams \cup {None}]
  <1>. USE Queues
  <1>0. /\ task \in [Streams -> TaskStates] /\ reader \in [Streams -> Streams \cup {None}]
        /\ Requests \subseteq Streams /\ Common \in Streams /\ <<>> \in Seq(Event)
    BY DEF Typed, Holding, TypeOK, Streams
  <1>1. CASE Quits
    <2>1. /\ task' = [k \in Streams |-> [task[k] EXCEPT !.st = "done", !.wire = <<>>]]
          /\ reader' = [c \in Streams |-> None]
      BY <1>1, QuitsQuit DEF Quit, Stopped
    <2>2. \A k \in Streams : [task[k] EXCEPT !.st = "done", !.wire = <<>>] \in TaskStates
      BY ZenonT(30), <1>0, TaskFields DEF TaskStates
    <2>. QED  BY <1>0, <2>1, <2>2
  <1>2. ASSUME NEW m \in Requests, RequestAnswered(m)
        PROVE  task' \in [Streams -> TaskStates] /\ reader' \in [Streams -> Streams \cup {None}]
    <2>1. UNCHANGED reader /\ (UNCHANGED task \/ task' = [task EXCEPT ![m].st = "open"])
      BY <1>2 DEF RequestAnswered
    <2>2. [task[m] EXCEPT !.st = "open"] \in TaskStates /\ m \in Streams
      BY <1>0, TaskFields, Retasked
    <2>. QED  BY <1>0, <2>1, <2>2, SetTask
  <1>3. ASSUME NEW k \in Streams, Connect(k)
        PROVE  task' \in [Streams -> TaskStates] /\ reader' \in [Streams -> Streams \cup {None}]
    <2>1. PICK c \in Streams, w \in Seq(Event) :
              /\ reader' = [reader EXCEPT ![c] = k]
              /\ task' = [task EXCEPT ![k].st = "open", ![k].reads = c, ![k].wire = w]
      <3>1. PICK c \in {Common} \cup pending, n \in Nat, w \in Seq(Event) :
               /\ c = IF task[k].last = None THEN Common ELSE task[k].last[1]
               /\ n >= 1 /\ (n = First(task[k].last) \/ n = Oldest(c)) /\ Oldest(c) <= n
               /\ w = [i \in 1 .. Len(log[c]) + 1 - n |-> <<c, n + i - 1>>]
               /\ reader' = [reader EXCEPT ![c] = k]
               /\ task' = [task EXCEPT ![k].st = "open", ![k].reads = c, ![k].wire = w]
               /\ c \in Streams
        BY <1>3, ConnectBrings
      <3>. QED  BY <3>1
    <2>2. [task[k] EXCEPT !.st = "open", !.reads = c, !.wire = w] \in TaskStates
      BY <1>0, TaskFields, Retasked
    <2>3. task' = [task EXCEPT ![k] = [task[k] EXCEPT !.st = "open", !.reads = c, !.wire = w]]
      BY <1>0, <2>1
    <2>. QED  BY <1>0, <2>1, <2>2, <2>3, SetTask
  <1>4. ASSUME NEW k \in Streams, Yield(k) \/ Break(k) \/ Finish(k)
        PROVE  task' \in [Streams -> TaskStates] /\ reader' \in [Streams -> Streams \cup {None}]
    <2>1. reader' = reader \/ reader' = Leave(k)
      BY <1>4 DEF Yield, Break, Finish
    <2>2. reader' \in [Streams -> Streams \cup {None}]
      BY <1>0, <2>1 DEF Leave
    <2>3. CASE Yield(k)
      <3>1. /\ task[k].wire \in Seq(Event) /\ task[k].wire # <<>>
            /\ task' = [task EXCEPT ![k].last = Head(task[k].wire), ![k].wire = Tail(@)]
        BY <1>0, <2>3, TaskFields DEF Yield
      <3>2. Head(task[k].wire) \in Event /\ Tail(task[k].wire) \in Seq(Event)
        BY <3>1, Tailed
      <3>3. PICK h \in Event, w \in Seq(Event) : h = Head(task[k].wire) /\ w = Tail(task[k].wire)
        BY <3>2
      <3>4. /\ task' = [task EXCEPT ![k] = [task[k] EXCEPT !.last = h, !.wire = w]]
            /\ [task[k] EXCEPT !.last = h, !.wire = w] \in TaskStates
        BY <1>0, <3>1, <3>3, TaskFields, Retasked
      <3>. QED  BY <1>0, <2>2, <3>4, SetTask
    <2>4. CASE Break(k)
      <3>1. [task[k] EXCEPT !.st = "retrying", !.wire = <<>>] \in TaskStates
        BY <1>0, TaskFields, Retasked
      <3>2. task' = [task EXCEPT ![k] = [task[k] EXCEPT !.st = "retrying", !.wire = <<>>]]
        BY <1>0, <2>4 DEF Break
      <3>. QED  BY <1>0, <2>2, <3>1, <3>2, SetTask
    <2>5. CASE Finish(k)
      <3>1. Stopped(k) \in TaskStates
        BY <1>0, TaskFields, Retasked DEF Stopped
      <3>. QED  BY <1>0, <2>2, <2>5, <3>1, SetTask DEF Finish
    <2>. QED  BY <1>4, <2>3, <2>4, <2>5
  <1>5. ASSUME NEW m \in Msgs, PushMessage(m)
        PROVE  task' \in [Streams -> TaskStates] /\ reader' \in [Streams -> Streams \cup {None}]
    <2>1. \/ UNCHANGED <<task, reader>>
          \/ m \in Requests /\ reader' = [reader EXCEPT ![m] = m] /\ task' = [task EXCEPT ![m].reads = m]
      BY <1>5 DEF PushMessage, Reply
    <2>2. CASE m \in Requests /\ reader' = [reader EXCEPT ![m] = m] /\ task' = [task EXCEPT ![m].reads = m]
      <3>1. /\ [task[m] EXCEPT !.reads = m] \in TaskStates /\ m \in Streams
            /\ task' = [task EXCEPT ![m] = [task[m] EXCEPT !.reads = m]]
        BY <1>0, <2>2, TaskFields, Retasked
      <3>2. task' \in [Streams -> TaskStates]
        BY <1>0, <3>1, SetTask
      <3>. QED  BY <1>0, <2>2, <3>1, <3>2
    <2>. QED  BY <1>0, <2>1, <2>2
  <1>6. ASSUME NEW m \in Requests, Respond(m)
        PROVE  task' \in [Streams -> TaskStates] /\ reader' \in [Streams -> Streams \cup {None}]
    BY <1>0, <1>6, EmitTypes DEF Respond
  <1>7. ASSUME NEW c \in Streams, Notify(c)
        PROVE  task' \in [Streams -> TaskStates] /\ reader' \in [Streams -> Streams \cup {None}]
    <2>1. PICK n \in Notes : Emit(c, n)
      BY <1>7, NewNote DEF Notify
    <2>. QED  BY <1>0, <1>7, <2>1, EmitTypes DEF Notify
  <1>8. ASSUME NEW k \in Streams, Ask(k), UNCHANGED reader
        PROVE  task' \in [Streams -> TaskStates] /\ reader' \in [Streams -> Streams \cup {None}]
    <2>1. [task[k] EXCEPT !.st = "asking"] \in TaskStates
      BY <1>0, TaskFields, Retasked
    <2>2. task' = [task EXCEPT ![k] = [task[k] EXCEPT !.st = "asking"]]
      BY <1>0, <1>8 DEF Ask
    <2>. QED  BY <1>0, <1>8, <2>1, <2>2, SetTask
  <1>9. ASSUME UNCHANGED task, UNCHANGED reader \/ reader' = [c \in Streams |-> None]
        PROVE  task' \in [Streams -> TaskStates] /\ reader' \in [Streams -> Streams \cup {None}]
    BY <1>0, <1>9
  <1>10. CASE \/ TakeMessage \/ InitializeAnswered \/ HandInitialize \/ InitializedAnswered
              \/ TakeServerMessage \/ Hand \/ SkipCommon \/ Receive \/ Close \/ Drop
              \/ UNCHANGED vars \/ \E m \in Msgs : Send(m)
    <2>1. UNCHANGED <<task, reader>>
      BY <1>10 DEF TakeMessage, InitializeAnswered, HandInitialize, InitializedAnswered,
                TakeServerMessage, Hand, SkipCommon, Receive, Close, Drop, Send, vars
    <2>. QED  BY <1>9, <2>1
  <1>11. CASE \/ AnswerLost \/ PostInitialize \/ AnswerInitialize \/ RemoveHandle \/ SendClose \/ DeleteFails
              \/ \E m \in Msgs : PostFails(m) \/ FindSession(m) \/ AskForStream(m)
    <2>1. UNCHANGED <<task, reader>>
      BY <1>11 DEF AnswerLost, PostInitialize, AnswerInitialize, RemoveHandle, SendClose, DeleteFails,
                   deleteLocal, PostFails, FindSession, AskForStream
    <2>. QED  BY <1>9, <2>1
  <1>12. CASE \/ OpenStream \/ TakeClientMessage \/ HandOver \/ TakeClose \/ SessionEnds \/ ServiceReceives
              \/ ServiceStops
    <2>1. UNCHANGED task /\ (UNCHANGED reader \/ reader' = [c \in Streams |-> None])
      BY <1>12 DEF OpenStream, TakeClientMessage, HandOver, TakeClose, HandleClose, SessionEnds, WorkerEnds,
                   ServiceReceives, ServiceStops
    <2>. QED  BY <1>9, <2>1
  <1>. QED
    <2>1. /\ GetCommon => Connect(Common)
          /\ AskForCommon => Ask(Common) /\ UNCHANGED reader
          /\ \A k \in Streams : Resume(k) => Connect(k)
          /\ \A k \in Streams : Retry(k) => Ask(k) /\ UNCHANGED reader
      BY DEF GetCommon, AskForCommon, Resume, Retry
    <2>. QED
      BY <1>0, <1>1, <1>2, <1>3, <1>4, <1>5, <1>6, <1>7, <1>8, <1>10, <1>11, <1>12, <2>1
      DEF Next, Worker, Handlers, Session, Quits

ClientTyped ==
    /\ service \in {"new", "initializing", "greeting", "running", "closing", "dropped"}
    /\ send \in [Msgs -> {"none", "queued", "ok", "failed"}]
    /\ sent \in Seq(Msgs) /\ fromHandler \in Seq(Msgs) /\ sse \in Seq(Event) /\ got \in Seq(Event)
    /\ toHandler \in Seq(Event \cup {None})
    /\ Len(fromHandler) <= Capacity /\ Len(toHandler) <= Capacity /\ Len(sse) <= Capacity
    /\ pc \in Receiving \cup {"posting", "hand_initialize", "get_common", "hand", "ended"}
    /\ cur \in Msgs \cup Event \cup {None} /\ ct \in BOOLEAN
    /\ pc = "hand" => cur \in Event
    /\ pc = "posting" => cur \in Msgs
    /\ pc = "ended" => fromHandler = <<>> /\ sse = <<>>
WireTyped ==
    /\ delete \in {"none", "armed", "closing", "done", "failed"}
    /\ answer \in {"none", "json", "accepted", "sse", "failed"}
    /\ post \in [Msgs -> {"none", "flying", "found", "opening", "opened"}]
    /\ breaks \in 0 .. MaxBreaks
ServerTyped ==
    /\ rcvd \in Seq(Msgs) /\ toService \in Seq(Msgs) /\ events \in Seq(Mailbox)
    /\ Len(toService) <= SessionCapacity /\ Len(Queued) <= SessionCapacity
    /\ managed \in BOOLEAN /\ serving \in BOOLEAN /\ pending \subseteq Requests
    /\ session \in {"none", "initializing", "select", "handing", "ended"}
TasksDone == pc = "ended" => \A k \in Streams : task[k].st = "done"

LEMMA TypedParts ==
    Typed <=> /\ ClientTyped /\ WireTyped /\ ServerTyped /\ HandshakeInOrder /\ TasksDone
              /\ task \in [Streams -> TaskStates]
              /\ log \in [Streams -> Seq(Requests \cup Notes)]
              /\ reader \in [Streams -> Streams \cup {None}]
  <1>1. task \in [Streams -> TaskStates] =>
            \A k \in Streams :
                /\ task[k].st \in {"none", "open", "retrying", "asking", "done"} /\ task[k].wire \in Seq(Event)
                /\ task[k].last \in Event \cup {None} /\ task[k].reads \in Streams \cup {None}
    BY TaskFields
  <1>. QED
    BY <1>1 DEF Typed, TypeOK, Holding, ClientTyped, WireTyped, ServerTyped, TasksDone, Mailbox

LEMMA ClientTypes ==
    ASSUME Typed, Ordered, [Next]_vars
    PROVE  ClientTyped'
  <1>. USE Queues DEF Receiving
  <1>0. ClientTyped /\ Capacity \in Nat \ {0} /\ task \in [Streams -> TaskStates]
    BY TypedParts, StreamableHttpAssumption
  <1>1. ASSUME NEW m \in Msgs, Send(m)
        PROVE  ClientTyped'
    <2>1. /\ UNCHANGED <<toHandler, got, pc, cur, ct, sse>>
          /\ service' \in {"initializing", "running"}
          /\ send' \in {[send EXCEPT ![m] = "queued"], [send EXCEPT ![m] = "failed"]}
      BY <1>1, SentKinds DEF Send
    <2>2. CASE UNCHANGED <<fromHandler, sent>>
      BY ZenonT(30), <1>0, <2>1, <2>2 DEF ClientTyped
    <2>3. CASE /\ fromHandler' = Append(fromHandler, m) /\ sent' = Append(sent, m)
               /\ Room(fromHandler) /\ pc # "ended"
      <3>1. /\ sent' \in Seq(Msgs) /\ fromHandler' \in Seq(Msgs) /\ Len(fromHandler') <= Capacity
        BY <1>0, <2>3, Appended DEF Room
      <3>. QED  BY <1>0, <2>1, <2>3, <3>1 DEF ClientTyped
    <2>. QED  BY <1>1, <2>2, <2>3 DEF Send
  <1>2. CASE Receive
    <2>1. /\ toHandler # <<>> /\ toHandler' = Tail(toHandler)
          /\ UNCHANGED <<send, sent, ct, pc, cur, fromHandler, sse>>
      BY <1>2 DEF Receive
    <2>2. toHandler' \in Seq(Event \cup {None}) /\ Len(toHandler') <= Capacity
      BY <1>0, <2>1, Tailed DEF ClientTyped
    <2>3. CASE service = "initializing" /\ service' = "greeting" /\ UNCHANGED got
      BY <1>0, <2>1, <2>2, <2>3 DEF ClientTyped
    <2>4. CASE service = "running" /\ got' = Append(got, Head(toHandler)) /\ UNCHANGED service
      <3>1. Head(toHandler) \in Event
        BY <2>1, <2>4, Tailed DEF Typed, HandshakeInOrder
      <3>2. got' \in Seq(Event)
        BY <2>4, <3>1, Appended
      <3>. QED  BY <1>0, <2>1, <2>2, <2>4, <3>2 DEF ClientTyped
    <2>. QED  BY <1>2, <2>3, <2>4 DEF Receive
  <1>3. CASE Close \/ Drop
    <2>1. /\ service' \in {"closing", "dropped"} /\ ct' = TRUE
          /\ toHandler' = toHandler \/ toHandler' = <<>>
          /\ UNCHANGED <<got, send, sent, pc, cur, fromHandler, sse>>
      BY <1>3 DEF Close, Drop
    <2>2. toHandler' \in Seq(Event \cup {None}) /\ Len(toHandler') <= Capacity
      <3>1. Len(toHandler) <= Capacity
        BY <1>0 DEF ClientTyped
      <3>2. CASE toHandler' = toHandler
        BY <3>1, <3>2
      <3>3. CASE toHandler' = <<>>
        BY <1>0, <3>3
      <3>. QED  BY <2>1, <3>2, <3>3
    <2>. QED  BY <1>0, <2>1, <2>2 DEF ClientTyped
  <1>4. CASE Quits
    <2>1. /\ pc' = "ended" /\ cur' = None /\ ct' = TRUE /\ fromHandler' = <<>> /\ sse' = <<>>
          /\ send' = [m \in Msgs |-> IF send[m] = "queued" THEN "failed" ELSE send[m]]
          /\ UNCHANGED <<service, toHandler, got, sent>>
      BY <1>4, QuitsQuit DEF Quit
    <2>2. send' \in [Msgs -> {"none", "queued", "ok", "failed"}]
      BY <2>1
    <2>3. /\ fromHandler' \in Seq(Msgs) /\ sse' \in Seq(Event)
          /\ Len(fromHandler') <= Capacity /\ Len(sse') <= Capacity
      BY <1>0, <2>1, Emptied
    <2>4. UNCHANGED <<service, toHandler, got, sent>>
      BY <2>1
    <2>. QED  BY <1>0, <2>1, <2>2, <2>3, <2>4 DEF ClientTyped
  <1>5. CASE TakeMessage
    <2>1. PICK m \in Msgs : /\ m = Head(fromHandler) /\ cur' = m /\ pc' = "posting"
                            /\ fromHandler' = Tail(fromHandler) /\ fromHandler # <<>>
                            /\ send' \in {[send EXCEPT ![m] = "ok"], send}
                            /\ UNCHANGED <<service, toHandler, got, sent, ct, sse>>
      BY <1>5, Tailed DEF TakeMessage, AfterPost
    <2>2. fromHandler' \in Seq(Msgs) /\ Len(fromHandler') <= Capacity
      BY <1>0, <2>1, Tailed DEF ClientTyped
    <2>. QED  BY <1>0, <2>1, <2>2 DEF ClientTyped
  <1>6. ASSUME InitializeAnswered \/ InitializedAnswered \/ \E m \in Requests : RequestAnswered(m)
        PROVE  ClientTyped'
    <2>1. /\ pc' \in {"hand_initialize", "get_common", "select"}
          /\ UNCHANGED <<service, toHandler, got, sent, ct, cur, fromHandler, sse>>
          /\ \E m \in Msgs : send' \in {send, [send EXCEPT ![m] = "ok"], [send EXCEPT ![m] = "failed"]}
      BY <1>6 DEF InitializeAnswered, InitializedAnswered, RequestAnswered
    <2>. QED  BY ZenonT(30), <1>0, <2>1 DEF ClientTyped
  <1>7. CASE HandInitialize \/ Hand
    <2>1. /\ Room(toHandler) /\ pc' \in {"select", "wait_initialized"} /\ cur' \in {cur, None}
          /\ \E e \in Event \cup {None} : toHandler' = Append(toHandler, e)
          /\ UNCHANGED <<service, got, send, sent, ct, fromHandler, sse>>
      BY <1>0, <1>7 DEF HandInitialize, Hand, ClientTyped
    <2>2. toHandler' \in Seq(Event \cup {None}) /\ Len(toHandler') <= Capacity
      BY <1>0, <2>1, Appended DEF Room
    <2>. QED  BY <1>0, <2>1, <2>2 DEF ClientTyped
  <1>8. CASE TakeServerMessage
    <2>1. /\ sse # <<>> /\ pc' = "hand" /\ cur' = Head(sse) /\ sse' = Tail(sse)
          /\ UNCHANGED <<service, toHandler, got, send, sent, ct, fromHandler>>
      BY <1>8 DEF TakeServerMessage
    <2>2. sse' \in Seq(Event) /\ Len(sse') <= Capacity /\ cur' \in Event
      BY <1>0, <2>1, Tailed DEF ClientTyped
    <2>. QED  BY <1>0, <2>1, <2>2 DEF ClientTyped
  <1>9. CASE AskForCommon \/ GetCommon \/ SkipCommon
    <2>1. /\ pc' \in {"select", "get_common"} /\ cur' \in {cur, None}
          /\ UNCHANGED <<service, toHandler, got, send, sent, ct, fromHandler, sse>>
      BY <1>9 DEF AskForCommon, GetCommon, SkipCommon
    <2>. QED  BY <1>0, <2>1 DEF ClientTyped
  <1>10. ASSUME NEW k \in Streams, Yield(k)
         PROVE  ClientTyped'
    <2>1. /\ task[k].st = "open" /\ task[k].wire # <<>> /\ Room(sse)
          /\ sse' = Append(sse, Head(task[k].wire))
          /\ UNCHANGED <<service, toHandler, got, send, sent, ct, pc, cur, fromHandler>>
      BY <1>10 DEF Yield
    <2>2. sse' \in Seq(Event) /\ Len(sse') <= Capacity
      BY <1>0, <2>1, TaskFields, Tailed, Appended DEF Room
    <2>3. pc # "ended"
      BY <2>1, TypedParts DEF TasksDone
    <2>. QED  BY <1>0, <2>1, <2>2, <2>3 DEF ClientTyped
  <1>11. ASSUME NEW k \in Streams, Break(k) \/ Retry(k) \/ Resume(k) \/ Finish(k)
         PROVE  UNCHANGED <<service, toHandler, got, send, sent, ct, pc, cur, fromHandler, sse>>
    BY <1>11 DEF Break, Retry, Resume, Finish
  <1>12. CASE UNCHANGED <<service, toHandler, got, send, sent, ct, pc, cur, fromHandler, sse>>
    BY <1>0, <1>12 DEF ClientTyped
  <1>13. CASE Handlers \/ Session \/ UNCHANGED vars
    <2>1. UNCHANGED sse
      BY <1>13, ServerOnly DEF Handlers, Session, AnswerLost, DeleteFails, deleteLocal, vars
    <2>2. UNCHANGED <<service, toHandler, got, send, sent, fromHandler, pc, cur, ct>>
      BY <1>13, ElsewhereRests DEF Elsewhere
    <2>. QED  BY <1>12, <2>1, <2>2
  <1>. QED
    BY <1>1, <1>2, <1>3, <1>4, <1>5, <1>6, <1>7, <1>8, <1>9, <1>10, <1>11, <1>12, <1>13
    DEF Next, Worker, Quits

LEMMA WireTypes ==
    ASSUME Typed, Ordered, [Next]_vars
    PROVE  WireTyped'
  <1>. USE Queues
  <1>0. WireTyped
    BY TypedParts
  <1>1. post' \in [Msgs -> {"none", "flying", "found", "opening", "opened"}]
    <2>1. CASE \/ AtClient \/ RemoveHandle \/ SendClose \/ TakeClientMessage \/ HandOver \/ TakeClose
               \/ ServiceReceives \/ ServiceStops
               \/ \E m \in Requests : Respond(m)
               \/ \E c \in Streams : Notify(c)
      <3>1. UNCHANGED post
        BY <2>1, ClientOnly DEF RemoveHandle, SendClose, deleteLocal, TakeClientMessage, HandOver, TakeClose,
           ServiceReceives, ServiceStops, Respond, Notify
      <3>. QED  BY <3>1
    <2>2. CASE \/ TakeMessage \/ PostInitialize \/ AnswerInitialize \/ SessionEnds
               \/ \E m \in Msgs : PostFails(m) \/ FindSession(m) \/ AskForStream(m) \/ PushMessage(m)
      <3>1. UNCHANGED post \/ \E m, s : /\ s \in {"none", "flying", "found", "opening"}
                                        /\ post' = [post EXCEPT ![m] = s]
        BY <2>2 DEF TakeMessage, PostInitialize, AnswerInitialize, SessionEnds, PostFails, FindSession,
           AskForStream, PushMessage, Reaches
      <3>. QED  BY <3>1
    <2>3. CASE OpenStream
      <3>1. PICK n \in Requests : post' = [post EXCEPT ![n] = IF @ = "opening" THEN "opened" ELSE @]
        BY <2>3, FirstEvent DEF OpenStream, Selects, Ordered
      <3>. QED  BY <3>1
    <2>. QED  BY <2>1, <2>2, <2>3, StepKinds
  <1>2. answer' \in {"none", "json", "accepted", "sse", "failed"}
    <2>0. answer \in {"none", "json", "accepted", "sse", "failed"}
      BY <1>0 DEF WireTyped
    <2>1. CASE Quits \/ TakeMessage
      BY <2>1, QuitsQuit DEF Quit, TakeMessage
    <2>2. CASE \/ InitializeAnswered \/ HandInitialize \/ InitializedAnswered \/ TakeServerMessage \/ Hand
               \/ AskForCommon \/ GetCommon \/ SkipCommon \/ Receive \/ Close \/ Drop \/ UNCHANGED vars
               \/ \E l \in Msgs : RequestAnswered(l) \/ Send(l)
               \/ \E k \in Streams : Yield(k) \/ Break(k) \/ Retry(k) \/ Resume(k) \/ Finish(k)
      <3>1. UNCHANGED answer
        BY <2>2 DEF InitializeAnswered, HandInitialize, InitializedAnswered, TakeServerMessage, Hand,
                AskForCommon, GetCommon, SkipCommon, Receive, Close, Drop, RequestAnswered, Send,
                Yield, Break, Retry, Resume, Finish, vars
      <3>. QED  BY <2>0, <3>1
    <2>3. CASE \/ PostInitialize \/ RemoveHandle \/ SendClose \/ DeleteFails
               \/ \E m \in Msgs : FindSession(m) \/ AskForStream(m)
               \/ OpenStream \/ TakeClientMessage \/ HandOver \/ TakeClose
               \/ ServiceReceives \/ ServiceStops
               \/ \E m \in Requests : Respond(m)
               \/ \E c \in Streams : Notify(c)
      <3>1. UNCHANGED answer
        BY <2>3 DEF PostInitialize, RemoveHandle, SendClose, DeleteFails, deleteLocal, FindSession,
                  AskForStream, OpenStream, TakeClientMessage, HandOver, TakeClose, ServiceReceives,
                  ServiceStops, Respond, Notify
      <3>. QED  BY <2>0, <3>1
    <2>4. CASE AnswerLost \/ SessionEnds \/ AnswerInitialize \/ \E m \in Msgs : PostFails(m) \/ PushMessage(m)
      <3>1. answer' \in {answer, "json", "accepted", "sse", "failed"}
        BY <2>4 DEF AnswerLost, SessionEnds, AnswerInitialize, PostFails, PushMessage, Reply
      <3>. QED  BY <2>0, <3>1
    <2>. QED  BY <2>1, <2>2, <2>3, <2>4 DEF Next, Worker, Handlers, Session, Quits, Msgs
  <1>3. delete' \in {"none", "armed", "closing", "done", "failed"}
    <2>0. delete \in {"none", "armed", "closing", "done", "failed"}
      BY <1>0 DEF WireTyped
    <2>1. CASE InitializeAnswered \/ RemoveHandle \/ SendClose \/ DeleteFails
      BY <2>1 DEF InitializeAnswered, RemoveHandle, SendClose, DeleteFails
    <2>2. CASE Quits
      BY <2>0, <2>2, QuitsQuit DEF Quit
    <2>3. CASE \/ TakeMessage \/ HandInitialize \/ InitializedAnswered \/ TakeServerMessage \/ Hand
               \/ AskForCommon \/ GetCommon \/ SkipCommon \/ Receive \/ Close \/ Drop \/ UNCHANGED vars
               \/ \E l \in Msgs : RequestAnswered(l) \/ Send(l)
               \/ \E k \in Streams : Yield(k) \/ Break(k) \/ Retry(k) \/ Resume(k) \/ Finish(k)
      <3>1. UNCHANGED delete
        BY <2>3 DEF TakeMessage, HandInitialize, InitializedAnswered, TakeServerMessage, Hand,
                AskForCommon, GetCommon, SkipCommon, Receive, Close, Drop, RequestAnswered, Send,
                Yield, Break, Retry, Resume, Finish, vars
      <3>. QED  BY <2>0, <3>1
    <2>4. CASE \/ AnswerLost \/ PostInitialize \/ AnswerInitialize
               \/ \E m \in Msgs : PostFails(m) \/ FindSession(m) \/ AskForStream(m) \/ PushMessage(m)
               \/ Session
      <3>1. UNCHANGED delete
        BY <2>4 DEF AnswerLost, PostInitialize, AnswerInitialize, PostFails, FindSession, AskForStream,
           PushMessage, Session, OpenStream, TakeClientMessage, HandOver, TakeClose, SessionEnds,
           ServiceReceives, ServiceStops, Respond, Notify
      <3>. QED  BY <2>0, <3>1
    <2>. QED  BY <2>1, <2>2, <2>3, <2>4 DEF Next, Worker, Handlers, Quits, Msgs
  <1>4. breaks' \in 0 .. MaxBreaks
    <2>1. breaks' = breaks \/ (breaks < MaxBreaks /\ breaks' = breaks + 1)
      <3>1. CASE Quits
        BY <3>1, QuitsQuit DEF Quit
      <3>2. CASE \/ TakeMessage \/ InitializeAnswered \/ HandInitialize \/ InitializedAnswered
                 \/ TakeServerMessage \/ Hand \/ AskForCommon \/ GetCommon \/ SkipCommon
                 \/ Receive \/ Close \/ Drop \/ UNCHANGED vars
                 \/ \E l \in Msgs : RequestAnswered(l) \/ Send(l)
        BY <3>2 DEF TakeMessage, InitializeAnswered, HandInitialize, InitializedAnswered, TakeServerMessage, Hand,
                AskForCommon, GetCommon, SkipCommon, Receive, Close, Drop, RequestAnswered, Send, vars
      <3>3. ASSUME NEW k \in Streams, Yield(k) \/ Break(k) \/ Retry(k) \/ Resume(k) \/ Finish(k)
            PROVE  breaks' = breaks \/ (breaks < MaxBreaks /\ breaks' = breaks + 1)
        BY <3>3 DEF Yield, Break, Retry, Resume, Finish, ConnectionBreaks
      <3>4. CASE Handlers
        BY <3>4 DEF Handlers, AnswerLost, PostInitialize, AnswerInitialize, RemoveHandle, SendClose, DeleteFails,
           PostFails, FindSession, AskForStream, PushMessage, deleteLocal, ConnectionBreaks
      <3>5. CASE Session
        BY <3>5 DEF Session, OpenStream, TakeClientMessage, HandOver, TakeClose, SessionEnds,
           ServiceReceives, ServiceStops, Respond, Notify
      <3>. QED  BY <3>1, <3>2, <3>3, <3>4, <3>5 DEF Next, Worker, Quits, Msgs
    <2>2. breaks \in 0 .. MaxBreaks /\ MaxBreaks \in Nat
      BY <1>0, CapacityIsNumber DEF WireTyped
    <2>. QED  BY <2>1, <2>2
  <1>. QED  BY <1>1, <1>2, <1>3, <1>4 DEF WireTyped

\* What counts of the queue of the session leaves the message that is being handed over out.
LEMMA QueuedLength ==
    ASSUME NEW q \in Seq(Mailbox), NEW b \in BOOLEAN, b => q # <<>>
    PROVE  Len(IF b THEN Tail(q) ELSE q) = (IF b THEN Len(q) - 1 ELSE Len(q)) /\ Len(q) \in Nat
  BY Tailed, LenProperties

LEMMA ServerTypes ==
    ASSUME Typed, Ordered, [Next]_vars
    PROVE  ServerTyped'
  <1>. USE Queues
  <1>0. ServerTyped /\ SessionCapacity \in Nat \ {0} /\ Begun /\ Begun'
    BY TypedParts, CapacityIsNumber, BegunSteps DEF Ordered
  <1>1. /\ Len(Queued) = (IF session = "handing" THEN Len(events) - 1 ELSE Len(events))
        /\ Len(Queued) <= SessionCapacity /\ Len(events) \in Nat
    BY <1>0, QueuedLength DEF Queued, Begun, ServerTyped
  <1>. DEFINE Fits == events' \in Seq(Mailbox) /\ Len(Queued') <= SessionCapacity
  <1>2. ASSUME events' \in Seq(Mailbox),
               (IF session' = "handing" THEN Len(events') - 1 ELSE Len(events')) <= SessionCapacity
        PROVE  Fits
    <2>1. Len(Queued') = (IF session' = "handing" THEN Len(events') - 1 ELSE Len(events'))
      BY <1>0, <1>2, QueuedLength DEF Queued, Begun
    <2>. QED  BY <1>2, <2>1
  <1>3. Fits
    <2>. HIDE DEF Fits
    <2>1. CASE \/ AtClient \/ TakeMessage \/ PostInitialize \/ AnswerInitialize \/ RemoveHandle
               \/ ServiceReceives \/ ServiceStops \/ TakeClientMessage
               \/ \E m \in Msgs : PostFails(m) \/ FindSession(m)
               \/ \E m \in Requests : Respond(m)
               \/ \E c \in Streams : Notify(c)
      <3>1. UNCHANGED events /\ (session' = session \/ session # "handing")
        <4>1. CASE PostInitialize
          BY <1>0, <4>1 DEF PostInitialize, Reaches, Begun
        <4>2. CASE ~PostInitialize
          BY <2>1, <4>2, ClientOnly DEF TakeMessage, AnswerInitialize, RemoveHandle, deleteLocal,
             ServiceReceives, ServiceStops, TakeClientMessage, Selects, PostFails, FindSession, Respond, Notify
        <4>. QED  BY <4>1, <4>2
      <3>2. (IF session' = "handing" THEN Len(events') - 1 ELSE Len(events')) <= SessionCapacity
        BY <1>0, <1>1, <3>1
      <3>. QED  BY <1>2, <3>1, <3>2
    <2>2. CASE SendClose \/ \E m \in Msgs : AskForStream(m) \/ PushMessage(m)
      <3>1. UNCHANGED session /\ Len(Queued) < SessionCapacity
        BY <2>2 DEF SendClose, deleteLocal, AskForStream, PushMessage, Push
      <3>2. PICK e \in Mailbox : events' = Append(events, e)
        BY <2>2, Envelopes DEF SendClose, AskForStream, PushMessage, Push, Letter, Wish
      <3>3. events' \in Seq(Mailbox) /\ Len(events') = Len(events) + 1
        BY <3>2, Appended
      <3>4. (IF session' = "handing" THEN Len(events') - 1 ELSE Len(events')) <= SessionCapacity
        BY <1>0, <1>1, <3>1, <3>3
      <3>. QED  BY <1>2, <3>3, <3>4
    <2>3. CASE OpenStream \/ HandOver
      <3>1. events # <<>> /\ events' = Tail(events) /\ session' = "select" /\ session \in {"select", "handing"}
        BY <1>0, <2>3 DEF OpenStream, HandOver, Selects, Begun
      <3>2. events' \in Seq(Mailbox) /\ Len(events') = Len(events) - 1
        BY <3>1, Tailed
      <3>3. (IF session' = "handing" THEN Len(events') - 1 ELSE Len(events')) <= SessionCapacity
        <4>1. session' # "handing" /\ Len(events) <= SessionCapacity + 1 /\ SessionCapacity \in Nat
          BY <1>0, <1>1, <3>1
        <4>2. Len(events) \in Nat
          BY <1>1
        <4>. QED  BY <3>2, <4>1, <4>2
      <3>. QED  BY <1>2, <3>2, <3>3
    <2>4. CASE TakeClose \/ SessionEnds
      <3>1. events' = <<>> /\ session' = "ended"
        BY <2>4 DEF TakeClose, HandleClose, SessionEnds, WorkerEnds
      <3>2. events' \in Seq(Mailbox) /\ Len(events') = 0
        BY <3>1, Emptied
      <3>. QED  BY <1>0, <1>2, <3>1, <3>2
    <2>. QED  BY <2>1, <2>2, <2>3, <2>4, StepKinds
  <1>4. /\ rcvd' \in Seq(Msgs) /\ toService' \in Seq(Msgs) /\ Len(toService') <= SessionCapacity
    <2>0. Len(toService) <= SessionCapacity
      BY <1>0 DEF ServerTyped
    <2>1. CASE UNCHANGED <<rcvd, toService>>
      BY <2>0, <2>1
    <2>2. CASE PostInitialize
      <3>1. toService' = <<Initialize>> /\ UNCHANGED rcvd
        BY <2>2 DEF PostInitialize
      <3>2. <<Initialize>> \in Seq(Msgs) /\ Len(<<Initialize>>) = 1
        OBVIOUS
      <3>. QED  BY <1>0, <3>1, <3>2
    <2>3. CASE HandOver
      <3>1. PICK n \in Msgs : toService' = Append(toService, n)
        BY <1>0, <2>3, FirstEvent DEF HandOver, Begun, Ordered
      <3>2. Len(toService) < SessionCapacity /\ UNCHANGED rcvd
        BY <2>3 DEF HandOver
      <3>3. toService' \in Seq(Msgs) /\ Len(toService') = Len(toService) + 1 /\ Len(toService) \in Nat
        BY <3>1, Appended
      <3>. QED  BY <1>0, <3>2, <3>3
    <2>4. CASE ServiceReceives
      <3>1. PICK n \in Msgs : /\ n = Head(toService) /\ toService # <<>>
                              /\ rcvd' = Append(rcvd, n) /\ toService' = Tail(toService)
        BY <2>4, Tailed DEF ServiceReceives
      <3>2. /\ rcvd' \in Seq(Msgs) /\ toService' \in Seq(Msgs)
            /\ Len(toService) \in Nat \ {0} /\ Len(toService') = Len(toService) - 1
        BY <3>1, Tailed, Appended
      <3>. QED  BY <1>0, <2>0, <3>2
    <2>5. CASE \/ AtClient \/ TakeMessage \/ AnswerInitialize \/ RemoveHandle \/ SendClose
               \/ ServiceStops \/ TakeClientMessage \/ OpenStream \/ TakeClose \/ SessionEnds
               \/ \E m \in Msgs : PostFails(m) \/ FindSession(m) \/ AskForStream(m) \/ PushMessage(m)
               \/ \E m \in Requests : Respond(m)
               \/ \E c \in Streams : Notify(c)
      <3>1. UNCHANGED <<rcvd, toService>>
        BY <2>5, ClientOnly DEF TakeMessage, AnswerInitialize, RemoveHandle, SendClose, deleteLocal,
           ServiceStops, TakeClientMessage, OpenStream, TakeClose, SessionEnds, PostFails, FindSession,
           AskForStream, PushMessage, Respond, Notify
      <3>. QED  BY <2>1, <3>1
    <2>. QED  BY <2>2, <2>3, <2>4, <2>5, StepKinds
  <1>5. /\ managed' \in BOOLEAN /\ serving' \in BOOLEAN /\ pending' \subseteq Requests
        /\ session' \in {"none", "initializing", "select", "handing", "ended"}
    <2>0. /\ managed \in BOOLEAN /\ serving \in BOOLEAN /\ pending \subseteq Requests
          /\ session \in {"none", "initializing", "select", "handing", "ended"}
      BY <1>0 DEF ServerTyped
    <2>1. CASE \/ AtClient \/ TakeMessage \/ \E m \in Msgs : PostFails(m) \/ FindSession(m) \/ AskForStream(m) \/ PushMessage(m)
      <3>1. UNCHANGED <<managed, serving, pending, session>>
        BY <2>1, ClientOnly DEF TakeMessage, PostFails, FindSession, AskForStream, PushMessage
      <3>. QED  BY <2>0, <3>1
    <2>2. CASE PostInitialize \/ AnswerInitialize \/ RemoveHandle \/ SendClose
      <3>1. /\ managed' \in {managed, TRUE, FALSE} /\ serving' \in {serving, TRUE} /\ UNCHANGED pending
            /\ session' \in {session, "initializing", "select"}
        BY <2>2 DEF PostInitialize, AnswerInitialize, RemoveHandle, SendClose, deleteLocal
      <3>. QED  BY <2>0, <3>1
    <2>3. CASE OpenStream
      <3>1. PICK n \in Requests : pending' = pending \cup {n}
        BY <2>3, FirstEvent DEF OpenStream, Selects, Ordered
      <3>2. UNCHANGED <<managed, serving, session>>
        BY <2>3 DEF OpenStream
      <3>. QED  BY <2>0, <3>1, <3>2
    <2>4. CASE \/ TakeClientMessage \/ HandOver \/ TakeClose \/ SessionEnds \/ ServiceReceives \/ ServiceStops
               \/ \E m \in Requests : Respond(m)
               \/ \E c \in Streams : Notify(c)
      <3>1. /\ UNCHANGED managed /\ serving' \in {serving, FALSE} /\ pending' \subseteq pending
            /\ session' \in {session, "handing", "select", "ended"}
        BY <2>4 DEF TakeClientMessage, HandOver, TakeClose, HandleClose, SessionEnds, WorkerEnds,
                    ServiceReceives, ServiceStops, Respond, Notify
      <3>. QED  BY <2>0, <3>1
    <2>. QED  BY <2>1, <2>2, <2>3, <2>4, StepKinds
  <1>. QED  BY <1>3, <1>4, <1>5 DEF ServerTyped

LEMMA DoneSteps ==
    ASSUME Typed, Ordered, LogsFit', [Next]_vars
    PROVE  TasksDone'
  <1>. USE Queues
  <1>0. TasksDone /\ task \in [Streams -> TaskStates]
    BY TypedParts
  <1>1. CASE Quits
    <2>1. task' = [k \in Streams |-> [task[k] EXCEPT !.st = "done", !.wire = <<>>]]
      BY <1>1, QuitsQuit DEF Quit, Stopped
    <2>2. \A k \in Streams : task'[k].st = "done"
      BY <1>0, <2>1 DEF TaskStates
    <2>. QED  BY <2>2 DEF TasksDone
  <1>2. ASSUME \/ TakeMessage \/ InitializeAnswered \/ HandInitialize \/ InitializedAnswered
               \/ TakeServerMessage \/ Hand \/ AskForCommon \/ GetCommon \/ SkipCommon
               \/ \E m \in Requests : RequestAnswered(m)
        PROVE  pc' # "ended"
    BY <1>2 DEF TakeMessage, AfterPost, InitializeAnswered, HandInitialize, InitializedAnswered,
                TakeServerMessage, Hand, AskForCommon, GetCommon, SkipCommon, RequestAnswered
  <1>3. ASSUME NEW k \in Streams, Yield(k) \/ Break(k) \/ Retry(k) \/ Resume(k)
        PROVE  pc' # "ended"
    <2>1. UNCHANGED pc /\ task[k].st \in {"open", "retrying", "asking"}
      BY <1>3 DEF Yield, Break, Retry, Resume, Connect
    <2>. QED  BY <1>0, <2>1 DEF TasksDone
  <1>4. ASSUME UNCHANGED pc, \A k \in Streams : task'[k].st = task[k].st
        PROVE  TasksDone'
    BY <1>0, <1>4 DEF TasksDone
  <1>5. ASSUME NEW m \in Msgs, PushMessage(m)
        PROVE  UNCHANGED pc /\ \A k \in Streams : task'[k].st = task[k].st
    <2>1. UNCHANGED pc /\ (UNCHANGED task \/ task' = [task EXCEPT ![m].reads = m])
      BY <1>5 DEF PushMessage
    <2>2. ASSUME task' = [task EXCEPT ![m].reads = m], NEW k \in Streams
          PROVE  task'[k].st = task[k].st
      <3>1. CASE k = m
        BY <1>0, <2>2, <3>1 DEF TaskStates
      <3>2. CASE k # m
        BY <1>0, <2>2, <3>2
      <3>. QED  BY <3>1, <3>2
    <2>. QED  BY <2>1, <2>2
  <1>6. ASSUME NEW m \in Requests, Respond(m)
        PROVE  UNCHANGED pc /\ \A k \in Streams : task'[k].st = task[k].st
    BY <1>6, EmitTypes DEF Respond, Streams
  <1>7. ASSUME NEW c \in Streams, Notify(c)
        PROVE  UNCHANGED pc /\ \A k \in Streams : task'[k].st = task[k].st
    <2>1. PICK n \in Notes : Emit(c, n)
      BY <1>7, NewNote DEF Notify
    <2>. QED  BY <1>7, <2>1, EmitTypes DEF Notify
  <1>8. ASSUME NEW k \in Streams, Finish(k)
        PROVE  pc' # "ended"
    <2>1. UNCHANGED pc /\ task[k].st \in {"open", "retrying", "asking"}
      BY <1>8 DEF Finish
    <2>. QED  BY <1>0, <2>1 DEF TasksDone
  <1>9. ASSUME \/ Receive \/ Close \/ Drop \/ UNCHANGED vars
               \/ AnswerLost \/ PostInitialize \/ AnswerInitialize \/ RemoveHandle \/ SendClose \/ DeleteFails
               \/ \E m \in Msgs : Send(m) \/ PostFails(m) \/ FindSession(m) \/ AskForStream(m)
               \/ OpenStream \/ TakeClientMessage \/ HandOver \/ TakeClose \/ SessionEnds \/ ServiceReceives
               \/ ServiceStops
        PROVE  UNCHANGED <<pc, task>>
    <2>1. CASE \/ Receive \/ Close \/ Drop \/ UNCHANGED vars
               \/ AnswerLost \/ PostInitialize \/ AnswerInitialize \/ RemoveHandle \/ SendClose \/ DeleteFails
               \/ \E m \in Msgs : Send(m) \/ PostFails(m) \/ FindSession(m) \/ AskForStream(m)
      BY <2>1 DEF Receive, Close, Drop, AnswerLost, PostInitialize, AnswerInitialize, RemoveHandle, SendClose,
                DeleteFails, deleteLocal, Send, PostFails, FindSession, AskForStream, vars
    <2>2. CASE \/ OpenStream \/ TakeClientMessage \/ HandOver \/ TakeClose \/ SessionEnds \/ ServiceReceives
               \/ ServiceStops
      BY <2>2 DEF OpenStream, TakeClientMessage, HandOver, TakeClose, SessionEnds, ServiceReceives, ServiceStops
    <2>. QED  BY <1>9, <2>1, <2>2
  <1>10. pc' # "ended" => TasksDone'
    BY DEF TasksDone
  <1>. QED
    BY <1>1, <1>2, <1>3, <1>4, <1>5, <1>6, <1>7, <1>8, <1>9, <1>10 DEF Next, Worker, Handlers, Session, Quits

LEMMA FirstTyped == Init => Typed /\ Ordered
  <1>. SUFFICES ASSUME Init PROVE Typed /\ Ordered
    OBVIOUS
  <1>. USE Emptied, CapacityIsNumber DEF Init
  <1>1. ClientTyped /\ WireTyped
    <2>1. send \in [Msgs -> {"none", "queued", "ok", "failed"}]
      OBVIOUS
    <2>2. post \in [Msgs -> {"none", "flying", "found", "opening", "opened"}]
      OBVIOUS
    <2>3. /\ Len(fromHandler) <= Capacity /\ Len(toHandler) <= Capacity /\ Len(sse) <= Capacity
          /\ pc = "wait_initialize" /\ cur = None /\ ct \in BOOLEAN
      <3>1. fromHandler = <<>> /\ toHandler = <<>> /\ sse = <<>> /\ Capacity \in Nat
        OBVIOUS
      <3>2. pc = "wait_initialize" /\ cur = None /\ ct \in BOOLEAN
        OBVIOUS
      <3>. HIDE DEF Init
      <3>. QED  BY <3>1, <3>2
    <2>4. /\ sent \in Seq(Msgs) /\ fromHandler \in Seq(Msgs) /\ sse \in Seq(Event)
          /\ got \in Seq(Event) /\ toHandler \in Seq(Event \cup {None})
      OBVIOUS
    <2>5. service = "new" /\ delete = "none" /\ answer = "none" /\ breaks = 0 /\ 0 \in 0 .. MaxBreaks
      OBVIOUS
    <2>. HIDE DEF Init
    <2>. QED  BY <2>1, <2>2, <2>3, <2>4, <2>5 DEF ClientTyped, WireTyped, Receiving
  <1>2. ServerTyped /\ HandshakeInOrder /\ TasksDone
    <2>1. ServerTyped /\ TasksDone
      <3>1. /\ rcvd = <<>> /\ toService = <<>> /\ events = <<>> /\ session = "none" /\ pending = {}
            /\ managed = FALSE /\ serving = FALSE /\ pc = "wait_initialize"
        OBVIOUS
      <3>. HIDE DEF Init
      <3>2. /\ rcvd \in Seq(Msgs) /\ toService \in Seq(Msgs) /\ events \in Seq(Mailbox)
            /\ Len(toService) <= SessionCapacity /\ Len(events) <= SessionCapacity /\ Queued = events
        BY <3>1 DEF Queued
      <3>. QED  BY <3>1, <3>2 DEF ServerTyped, TasksDone
    <2>2. HandshakeInOrder
      BY DEF HandshakeInOrder, Opening, Early
    <2>. QED  BY <2>1, <2>2
  <1>3. /\ task \in [Streams -> TaskStates] /\ log \in [Streams -> Seq(Requests \cup Notes)]
        /\ reader \in [Streams -> Streams \cup {None}]
    BY DEF NoTask, TaskStates
  <1>4. Typed
    BY <1>1, <1>2, <1>3, TypedParts
  <1>5. Len(sent) = 0 /\ Len(fromHandler) = 0 /\ DOMAIN sent = {} /\ DOMAIN fromHandler = {}
    OBVIOUS
  <1>6. InSendOrder /\ Begun
    BY <1>5 DEF InSendOrder, Begun
  <1>7. LogsDistinct
    BY DEF LogsDistinct, Msgs, Streams
  <1>8. InPlace
    <2>1. /\ Mailed = {} /\ Wished = {} /\ Places = {} /\ pending = {} /\ Kinds
          /\ ToSet(rcvd) = {} /\ \A m \in Msgs : post[m] = "none"
      BY DEF Mailed, Wished, Places, Reached, Kinds
    <2>2. \A x : Single(rcvd, x) /\ Single(toService, x) /\ Single(events, x)
      BY SingleNone
    <2>. HIDE DEF Init
    <2>. QED  BY <2>1, <2>2 DEF InPlace, Once
  <1>. QED  BY <1>4, <1>6, <1>7, <1>8 DEF Ordered

LEMMA TypedSteps ==
    ASSUME Typed, Ordered, [Next]_vars
    PROVE  Typed' /\ Ordered'
  <1>1. log' \in [Streams -> Seq(Requests \cup Notes)] /\ LogsDistinct'
    BY LogsSteps
  <1>2. LogsFit
    BY DistinctLogsFit DEF Typed, TypeOK, Ordered, LogsDistinct, LogsFit
  <1>3. LogsFit'
    <2>1. \A c \in Streams : \A i, j \in DOMAIN log'[c] : log'[c][i] = log'[c][j] => i = j
      BY <1>1 DEF LogsDistinct
    <2>. QED  BY <1>1, <2>1, DistinctLogsFit DEF LogsFit
  <1>4. ClientTyped' /\ WireTyped' /\ ServerTyped' /\ HandshakeInOrder'
    BY ClientTypes, WireTypes, ServerTypes, HandshakeSteps
  <1>5. /\ TasksDone' /\ task' \in [Streams -> TaskStates]
        /\ reader' \in [Streams -> Streams \cup {None}]
    BY <1>2, <1>3, DoneSteps, TaskTypes
  <1>6. Typed'
    <2>1. \A k \in Streams :
              /\ task'[k].st \in {"none", "open", "retrying", "asking", "done"} /\ task'[k].wire \in Seq(Event)
              /\ task'[k].last \in Event \cup {None} /\ task'[k].reads \in Streams \cup {None}
      BY <1>5 DEF TaskStates
    <2>. QED
      BY <1>1, <1>4, <1>5, <2>1
      DEF Typed, TypeOK, Holding, ClientTyped, WireTyped, ServerTyped, TasksDone, Mailbox
  <1>7. Ordered'
    BY <1>1, SendOrderSteps, InPlaceSteps, BegunSteps DEF Ordered
  <1>. QED  BY <1>6, <1>7

\* Every variable has its type, and the channels their bounds: the numbers of events are bounded
\* because no log holds an entry twice (session.rs 85-106, 126-145), and the queue of the session
\* takes nothing that has no room (474-503).
THEOREM HttpTyping == Spec => []TypeOK
  <1>1. Typed /\ Ordered /\ [Next]_vars => Typed' /\ Ordered'
    BY TypedSteps
  <1>2. Typed => TypeOK
    BY DEF Typed
  <1>. QED  BY <1>1, <1>2, FirstTyped, PTL DEF Spec

\* ---- the order in which messages arrive
\* What is owed to a message that did not fail: those sent before it that did not fail.  The server's
\* service gets them first; where they are decides how far it is.
Owed == [m \in Msgs |->
            IF send[m] = "failed" THEN {}
            ELSE {l \in Msgs : /\ send[l] # "failed"
                               /\ \E x, y \in DOMAIN sent : x < y /\ sent[x] = l /\ sent[y] = m}]
Letters(S) == {Letter(l) : l \in S}
OwedLetters == [e \in Mailbox |-> IF e.kind = "message" THEN Letters(Owed[e.of]) ELSE {}]

InTurn(q, owed, had) == \A i \in DOMAIN q : owed[q[i]] \subseteq had \cup {q[j] : j \in 1 .. i - 1}

\* Once the worker has the answer to a message, that is in its place or has failed.
Done == IF pc = "posting" THEN Taken - 1 ELSE Taken
Ahead ==
    /\ InTurn(rcvd, Owed, {})
    /\ InTurn(toService, Owed, ToSet(rcvd))
    /\ InTurn(events, OwedLetters, Letters(Reached))
    /\ session # "ended" => \A m \in Msgs : post[m] # "none" => Owed[m] \subseteq Places
    /\ session # "ended" /\ pc # "ended" =>
           \A x \in 1 .. Done : send[sent[x]] = "failed" \/ sent[x] \in Places

LEMMA InTurnEmpty == \A owed, had : InTurn(<<>>, owed, had)
  BY DEF InTurn

LEMMA InTurnAppend ==
    ASSUME NEW S, NEW q \in Seq(S), NEW x \in S, NEW owed, NEW had,
           InTurn(q, owed, had), owed[x] \subseteq had \cup ToSet(q)
    PROVE  InTurn(Append(q, x), owed, had)
  <1>1. /\ DOMAIN q = 1 .. Len(q) /\ DOMAIN Append(q, x) = 1 .. Len(q) + 1 /\ Len(q) \in Nat
        /\ \A k \in 1 .. Len(q) : Append(q, x)[k] = q[k]
        /\ Append(q, x)[Len(q) + 1] = x
    BY Appended
  <1>2. ASSUME NEW i \in 1 .. Len(q) + 1
        PROVE  {Append(q, x)[j] : j \in 1 .. i - 1} = {q[j] : j \in 1 .. i - 1}
    <2>1. \A j \in 1 .. i - 1 : j \in 1 .. Len(q)
      BY <1>1
    <2>. QED  BY <1>1, <2>1
  <1>3. ASSUME NEW i \in 1 .. Len(q)
        PROVE  owed[Append(q, x)[i]] \subseteq had \cup {Append(q, x)[j] : j \in 1 .. i - 1}
    <2>1. i \in 1 .. Len(q) + 1 /\ Append(q, x)[i] = q[i]
      BY <1>1
    <2>. QED  BY <1>1, <1>2, <2>1 DEF InTurn
  <1>4. owed[x] \subseteq had \cup {Append(q, x)[j] : j \in 1 .. (Len(q) + 1) - 1}
    <2>1. (Len(q) + 1) - 1 = Len(q) /\ Len(q) + 1 \in 1 .. Len(q) + 1
      BY <1>1
    <2>2. ToSet(q) = {q[j] : j \in 1 .. Len(q)}
      BY <1>1 DEF ToSet
    <2>. QED  BY <1>2, <2>1, <2>2
  <1>5. \A i \in 1 .. Len(q) + 1 : i \in 1 .. Len(q) \/ i = Len(q) + 1
    BY <1>1, UpToNext
  <1>. QED  BY <1>1, <1>3, <1>4, <1>5 DEF InTurn

LEMMA InTurnTail ==
    ASSUME NEW S, NEW q \in Seq(S), q # <<>>, NEW owed, NEW had, InTurn(q, owed, had)
    PROVE  owed[Head(q)] \subseteq had /\ InTurn(Tail(q), owed, had \cup {Head(q)})
  <1>1. /\ Head(q) = q[1] /\ Len(q) \in Nat \ {0} /\ DOMAIN q = 1 .. Len(q)
        /\ DOMAIN Tail(q) = 1 .. Len(q) - 1
        /\ \A k \in 1 .. Len(q) - 1 : Tail(q)[k] = q[k + 1]
    BY Tailed
  <1>2. owed[Head(q)] \subseteq had
    <2>1. 1 \in DOMAIN q /\ 1 .. 1 - 1 = {}
      BY <1>1
    <2>2. owed[q[1]] \subseteq had \cup {q[j] : j \in 1 .. 1 - 1}
      BY <2>1 DEF InTurn
    <2>3. {q[j] : j \in 1 .. 1 - 1} = {}
      BY <2>1
    <2>. QED  BY <1>1, <2>2, <2>3
  <1>3. ASSUME NEW i \in 1 .. Len(q) - 1
        PROVE  owed[Tail(q)[i]] \subseteq (had \cup {Head(q)}) \cup {Tail(q)[j] : j \in 1 .. i - 1}
    <2>1. i + 1 \in DOMAIN q /\ Tail(q)[i] = q[i + 1] /\ (i + 1) - 1 = i
      BY <1>1
    <2>2. owed[q[i + 1]] \subseteq had \cup {q[j] : j \in 1 .. i}
      BY <2>1 DEF InTurn
    <2>3. ASSUME NEW j \in 1 .. i
          PROVE  q[j] \in {Head(q)} \cup {Tail(q)[k] : k \in 1 .. i - 1}
      <3>1. CASE j = 1
        BY <1>1, <3>1
      <3>2. CASE j # 1
        <4>1. j - 1 \in 1 .. i - 1 /\ j - 1 \in 1 .. Len(q) - 1 /\ (j - 1) + 1 = j
          BY <1>1, <3>2
        <4>2. Tail(q)[j - 1] = q[j]
          BY <1>1, <4>1
        <4>. QED  BY <4>1, <4>2
      <3>. QED  BY <3>1, <3>2
    <2>. QED  BY <2>1, <2>2, <2>3
  <1>. QED  BY <1>1, <1>2, <1>3 DEF InTurn

LEMMA InTurnMore ==
    ASSUME NEW S, NEW q \in Seq(S), NEW owed, NEW had, InTurn(q, owed, had), NEW less, NEW more,
           \A x \in ToSet(q) : less[x] \subseteq owed[x] /\ less[x] \cap had \subseteq more
    PROVE  InTurn(q, less, more)
  <1>. SUFFICES ASSUME NEW i \in DOMAIN q
                PROVE  less[q[i]] \subseteq more \cup {q[j] : j \in 1 .. i - 1}
    BY DEF InTurn
  <1>1. q[i] \in ToSet(q) /\ owed[q[i]] \subseteq had \cup {q[j] : j \in 1 .. i - 1}
    BY DEF InTurn, ToSet
  <1>. QED  BY <1>1

\* What failed, and what is through, stays so.
LEMMA OutcomesStay ==
    ASSUME Typed, Ordered, [Next]_vars
    PROVE  /\ \A m \in Msgs : send[m] = "failed" => send'[m] = "failed"
           /\ \A m \in Msgs : send[m] = "ok" => send'[m] = "ok"
  <1>. USE Queues
  <1>1. ASSUME NEW m \in Msgs, Send(m)
        PROVE  send[m] = "none" /\ \E s : send' = [send EXCEPT ![m] = s]
    BY <1>1 DEF Send
  <1>2. CASE Quits
    BY <1>2, QuitsQuit DEF Quit
  <1>3. CASE TakeMessage
    <2>1. PICK m \in Msgs : m = Head(fromHandler) /\ fromHandler # <<>>
      BY <1>3, Tailed DEF TakeMessage
    <2>2. 1 \in DOMAIN fromHandler /\ fromHandler[1] = m
      BY <2>1, Tailed
    <2>3. send[m] = "queued"
      BY <2>2 DEF Ordered, InSendOrder
    <2>4. UNCHANGED send \/ send' = [send EXCEPT ![m] = "ok"]
      BY <1>3, <2>1 DEF TakeMessage
    <2>. QED  BY <2>3, <2>4
  <1>4. CASE InitializedAnswered \/ \E m \in Requests : RequestAnswered(m)
    <2>1. PICK m \in Msgs \ {Initialize} :
              pc = "posting" /\ cur = m /\ \E s : send' = [send EXCEPT ![m] = s]
      BY <1>4 DEF InitializedAnswered, RequestAnswered, Answered
    <2>2. send[m] = "queued"
      BY <2>1 DEF Ordered, InSendOrder
    <2>. QED  BY <2>1, <2>2
  <1>5. CASE \/ InitializeAnswered \/ HandInitialize \/ TakeServerMessage \/ Hand
             \/ AskForCommon \/ GetCommon \/ SkipCommon \/ Receive \/ Close \/ Drop \/ Elsewhere
    <2>1. UNCHANGED send
      BY <1>5, ElsewhereRests DEF InitializeAnswered, HandInitialize, TakeServerMessage, Hand, AskForCommon,
         GetCommon, SkipCommon, Receive, Close, Drop
    <2>. QED  BY <2>1
  <1>. QED  BY <1>1, <1>2, <1>3, <1>4, <1>5 DEF Next, Worker, Quits, Elsewhere

\* What is sent grows at its end.
LEMMA SentGrows ==
    ASSUME Typed, Ordered, [Next]_vars
    PROVE  \/ UNCHANGED sent
           \/ \E m \in Msgs : /\ Send(m) /\ m \notin ToSet(sent) /\ pc # "ended"
                              /\ sent' = Append(sent, m) /\ fromHandler' = Append(fromHandler, m)
  <1>. USE Queues
  <1>1. ASSUME NEW m \in Msgs, Send(m)
        PROVE  \/ UNCHANGED sent
               \/ /\ m \notin ToSet(sent) /\ pc # "ended"
                  /\ sent' = Append(sent, m) /\ fromHandler' = Append(fromHandler, m)
    BY <1>1 DEF Send, Ordered, InSendOrder, ToSet
  <1>2. CASE Quits
    BY <1>2, QuitsQuit DEF Quit
  <1>3. CASE \/ TakeMessage \/ InitializeAnswered \/ HandInitialize \/ InitializedAnswered
             \/ TakeServerMessage \/ Hand \/ AskForCommon \/ GetCommon \/ SkipCommon
             \/ Receive \/ Close \/ Drop \/ Elsewhere
             \/ \E m \in Requests : RequestAnswered(m)
    BY <1>3, ElsewhereRests DEF TakeMessage, InitializeAnswered, HandInitialize, InitializedAnswered,
       TakeServerMessage, Hand, AskForCommon, GetCommon, SkipCommon, Receive, Close, Drop, RequestAnswered
  <1>. QED  BY <1>1, <1>2, <1>3 DEF Next, Worker, Quits, Elsewhere

\* What is owed to a message that was sent only shrinks.
LEMMA OwedShrinks ==
    ASSUME Typed, Ordered, [Next]_vars, NEW m \in Msgs, m \in ToSet(sent)
    PROVE  Owed'[m] \subseteq Owed[m]
  <1>. USE Queues
  <1>1. SUFFICES ASSUME NEW l \in Msgs, send'[m] # "failed", send'[l] # "failed",
                        NEW x \in DOMAIN sent', NEW y \in DOMAIN sent', x < y, sent'[x] = l, sent'[y] = m
                 PROVE  \E a, b \in DOMAIN sent : a < b /\ sent[a] = l /\ sent[b] = m
    BY OutcomesStay DEF Owed
  <1>2. CASE UNCHANGED sent
    BY <1>1, <1>2
  <1>3. ASSUME NEW n \in Msgs, n \notin ToSet(sent), sent' = Append(sent, n)
        PROVE  \E a, b \in DOMAIN sent : a < b /\ sent[a] = l /\ sent[b] = m
    <2>1. /\ DOMAIN sent = 1 .. Len(sent) /\ DOMAIN sent' = 1 .. Len(sent) + 1
          /\ \A k \in 1 .. Len(sent) : sent'[k] = sent[k]
          /\ sent'[Len(sent) + 1] = n
      BY <1>3, Appended
    <2>2. y \in 1 .. Len(sent)
      BY <1>1, <1>3, <2>1, UpToNext
    <2>3. x \in 1 .. Len(sent)
      BY <1>1, <2>1, <2>2
    <2>. QED  BY <1>1, <2>1, <2>2, <2>3
  <1>. QED  BY <1>2, <1>3, SentGrows

LEMMA PlacedWereSent ==
    ASSUME Typed, Ordered, NEW m \in Msgs, m \in Places \/ post[m] # "none"
    PROVE  m \in ToSet(sent)
  BY DEF Ordered, InPlace, Once, Untaken

\* What is owed to a letter, in letters.
LEMMA OwedLetter ==
    /\ \A m \in Msgs : OwedLetters[Letter(m)] = Letters(Owed[m])
    /\ \A m \in Msgs : OwedLetters[Wish(m)] = {}
    /\ OwedLetters[[kind |-> "close", of |-> None]] = {}
    /\ \A e \in Mailbox : e.kind # "message" => OwedLetters[e] = {}
  BY Envelopes DEF OwedLetters

LEMMA LettersIn ==
    /\ \A S, T : Letters(S) \subseteq Letters(T) => S \subseteq T
    /\ \A S, T : S \subseteq T => Letters(S) \subseteq Letters(T)
    /\ \A S, x : x \in Letters(S) <=> \E m \in S : x = Letter(m)
  BY Envelopes DEF Letters

\* When the worker takes a message, those sent before it are done.
LEMMA TakenInTurn ==
    ASSUME Typed, Ordered, Ahead, TakeMessage, session # "ended", NEW m \in Msgs, m = Head(fromHandler)
    PROVE  Owed[m] \subseteq Places
  <1>. USE Queues
  <1>1. pc \in Receiving /\ Taken + 1 \in DOMAIN sent /\ sent[Taken + 1] = m
    BY Takes
  <1>2. /\ \A x \in 1 .. Taken : send[sent[x]] = "failed" \/ sent[x] \in Places
        /\ \A i, j \in DOMAIN sent : sent[i] = sent[j] => i = j
    BY <1>1 DEF Ahead, Done, Receiving, Ordered, InSendOrder
  <1>3. SUFFICES ASSUME NEW l \in Msgs, send[l] # "failed",
                        NEW x \in DOMAIN sent, NEW y \in DOMAIN sent, x < y, sent[x] = l, sent[y] = m
                 PROVE  l \in Places
    BY DEF Owed
  <1>4. y = Taken + 1
    BY <1>1, <1>2, <1>3
  <1>5. x \in 1 .. Taken
    <2>1. Taken \in Nat
      BY DEF Taken, Ordered, InSendOrder
    <2>. QED  BY <1>3, <1>4, <2>1
  <1>. QED  BY <1>2, <1>3, <1>5

\* Only a message that is taken gets a handler.
LEMMA PostedBefore ==
    ASSUME Typed, Ordered, [Next]_vars, NEW m \in Msgs, post'[m] # "none"
    PROVE  post[m] # "none" \/ (TakeMessage /\ m = Head(fromHandler) /\ m \in ToSet(sent))
  <1>. USE Queues
  <1>1. CASE \/ AtClient \/ RemoveHandle \/ SendClose \/ TakeClientMessage \/ HandOver \/ TakeClose
             \/ ServiceReceives \/ ServiceStops
             \/ \E l \in Requests : Respond(l)
             \/ \E c \in Streams : Notify(c)
    <2>1. UNCHANGED post
      BY <1>1, ClientOnly DEF RemoveHandle, SendClose, deleteLocal, TakeClientMessage, HandOver, TakeClose,
         ServiceReceives, ServiceStops, Respond, Notify
    <2>. QED  BY <2>1
  <1>2. CASE TakeMessage
    <2>1. PICK l \in Msgs : l = Head(fromHandler) /\ l \in ToSet(sent) /\ post' = [post EXCEPT ![l] = "flying"]
      BY <1>2, Takes
    <2>. QED  BY <1>2, <2>1
  <1>3. ASSUME NEW l \in Msgs,
               \/ PostFails(l) \/ FindSession(l) \/ AskForStream(l) \/ PushMessage(l)
               \/ l = Initialize /\ (PostInitialize \/ AnswerInitialize)
        PROVE  post[m] # "none"
    <2>1. post[l] # "none" /\ \E s : post' = [post EXCEPT ![l] = s]
      BY <1>3 DEF PostFails, FindSession, AskForStream, PushMessage, PostInitialize, AnswerInitialize, Reaches
    <2>. QED  BY <2>1
  <1>4. CASE OpenStream
    <2>1. PICK l \in Requests : post' = [post EXCEPT ![l] = IF @ = "opening" THEN "opened" ELSE @]
      BY <1>4, FirstEvent DEF OpenStream, Selects, Ordered
    <2>. QED  BY <2>1
  <1>5. CASE SessionEnds
    BY <1>5 DEF SessionEnds, Reaches
  <1>. QED  BY <1>1, <1>2, <1>3, <1>4, <1>5, StepKinds

\* How far the worker is done grows by the message whose outcome it knows.
LEMMA DoneMoves ==
    ASSUME Typed, Ordered, [Next]_vars, pc' # "ended"
    PROVE  /\ pc # "ended" /\ Done \in Nat /\ Done' \in Nat /\ Done <= Taken /\ Taken <= Len(sent)
           /\ \A x \in DOMAIN sent : x \in DOMAIN sent' /\ sent'[x] = sent[x]
           /\ \/ Done' = Done
              \/ /\ Done' = Done + 1 /\ Done + 1 \in DOMAIN sent
                 /\ \/ send'[sent[Done + 1]] = "failed" \/ session = "ended"
                    \/ sent[Done + 1] \in Places
  <1>. USE Queues
  <1>0. Taken \in Nat /\ Taken <= Len(sent) /\ (pc = "posting" => Taken > 0 /\ cur = sent[Taken])
    BY DEF Taken, Ordered, InSendOrder
  <1>1. Done \in Nat /\ Done <= Taken /\ (pc = "posting" => Done + 1 = Taken) /\ (pc # "posting" => Done = Taken)
    <2>. HIDE DEF Taken
    <2>. QED  BY <1>0 DEF Done
  <1>2. \A x \in DOMAIN sent : x \in DOMAIN sent' /\ sent'[x] = sent[x]
    BY SentGrows, Appended
  <1>. DEFINE Moves ==
           /\ pc # "ended"
           /\ \/ Done' = Done
              \/ /\ Done' = Done + 1 /\ Done + 1 \in DOMAIN sent
                 /\ \/ send'[sent[Done + 1]] = "failed" \/ session = "ended"
                    \/ sent[Done + 1] \in Places
  <1>3. ASSUME NEW m \in Msgs, Send(m)
        PROVE  pc # "ended" /\ Done' = Done
    <2>1. UNCHANGED pc /\ (UNCHANGED <<sent, fromHandler>>
             \/ (sent' = Append(sent, m) /\ fromHandler' = Append(fromHandler, m)))
      BY <1>3 DEF Send
    <2>2. Taken' = Taken
      <3>1. PICK a \in Nat, b \in Nat : Len(sent) = a /\ Len(fromHandler) = b
        OBVIOUS
      <3>2. CASE UNCHANGED <<sent, fromHandler>>
        BY <3>2 DEF Taken
      <3>3. CASE sent' = Append(sent, m) /\ fromHandler' = Append(fromHandler, m)
        <4>1. Len(sent') = a + 1 /\ Len(fromHandler') = b + 1
          BY <3>1, <3>3, Appended
        <4>2. (a + 1) - (b + 1) = a - b
          OBVIOUS
        <4>. QED  BY <3>1, <4>1, <4>2 DEF Taken
      <3>. QED  BY <2>1, <3>2, <3>3
    <2>. QED  BY <2>1, <2>2 DEF Done
  <1>4. ASSUME TakeMessage
        PROVE  pc # "ended" /\ Done' = Done
    <2>1. pc' = "posting" /\ pc \in Receiving /\ Taken' = Taken + 1
      BY <1>4, Takes
    <2>2. Done' = Taken' - 1
      BY <1>4, <2>1 DEF Done
    <2>. HIDE DEF Taken
    <2>3. Taken' - 1 = Taken
      BY <1>0, <2>1
    <2>. QED  BY <1>1, <2>1, <2>2, <2>3 DEF Receiving
  <1>5. ASSUME InitializeAnswered \/ InitializedAnswered \/ \E m \in Requests : RequestAnswered(m)
        PROVE  Moves
    <2>1. /\ pc = "posting" /\ pc' # "posting" /\ UNCHANGED <<sent, fromHandler>>
          /\ \/ answer = "json" /\ cur = Initialize
             \/ answer \in {"accepted", "sse"}
             \/ send'[cur] = "failed"
      BY <1>5 DEF InitializeAnswered, InitializedAnswered, RequestAnswered, Answered
    <2>2. Taken' = Taken
      BY <2>1 DEF Taken
    <2>3. Done' = Taken
      BY <2>1, <2>2 DEF Done
    <2>4. send'[cur] = "failed" \/ session = "ended" \/ cur \in Places
      BY <2>1 DEF Ordered, Begun, Places, Reached
    <2>5. Done' = Done + 1 /\ Done + 1 \in DOMAIN sent /\ sent[Done + 1] = cur
      <3>. HIDE DEF Taken
      <3>. QED  BY <1>0, <1>1, <2>1, <2>3
    <2>. QED  BY <2>1, <2>4, <2>5
  <1>6. ASSUME \/ HandInitialize \/ TakeServerMessage \/ Hand \/ AskForCommon \/ GetCommon \/ SkipCommon
               \/ Receive \/ Close \/ Drop \/ Elsewhere
        PROVE  pc # "ended" /\ Done' = Done
    <2>1. UNCHANGED <<sent, fromHandler>> /\ ((pc = "posting") = (pc' = "posting")) /\ pc # "ended"
      BY <1>6, ElsewhereRests DEF HandInitialize, TakeServerMessage, Hand, AskForCommon, GetCommon,
         SkipCommon, Receive, Close, Drop
    <2>. QED  BY <2>1 DEF Done, Taken
  <1>7. Quits => pc' = "ended"
    BY QuitsQuit DEF Quit
  <1>8. Moves
    <2>. HIDE DEF Done
    <2>. QED  BY <1>3, <1>4, <1>5, <1>6, <1>7 DEF Next, Worker, Quits, Elsewhere
  <1>9. Done' \in Nat
    <2>. HIDE DEF Done
    <2>. QED  BY <1>1, <1>8
  <1>. QED  BY <1>0, <1>1, <1>2, <1>8, <1>9

\* The queues keep their order.
Lines ==
    /\ InTurn(rcvd, Owed, {})
    /\ InTurn(toService, Owed, ToSet(rcvd))
    /\ InTurn(events, OwedLetters, Letters(Reached))
LEMMA LinesSteps ==
    ASSUME Typed, Ordered, Ahead, [Next]_vars
    PROVE  Lines'
  <1>. USE Queues
  <1>0. Lines /\ InPlace /\ Begun
    BY DEF Ordered, Ahead, Lines
  <1>a. ASSUME UNCHANGED <<send, sent>>
        PROVE  Owed' = Owed /\ OwedLetters' = OwedLetters
    <2>1. Owed' = Owed
      BY <1>a DEF Owed
    <2>. QED  BY <2>1 DEF OwedLetters
  <1>1. CASE ServiceReceives
    <2>1. PICK n \in Msgs : /\ n = Head(toService) /\ toService # <<>>
                            /\ rcvd' = Append(rcvd, n) /\ toService' = Tail(toService)
      BY <1>1, Tailed DEF ServiceReceives
    <2>2. UNCHANGED <<send, sent, events>>
      BY <1>1 DEF ServiceReceives
    <2>3. ToSet(toService) = {n} \cup ToSet(toService') /\ ToSet(rcvd') = ToSet(rcvd) \cup {n}
      BY <2>1, Tailed, Appended
    <2>4. Owed[n] \subseteq ToSet(rcvd) /\ InTurn(toService', Owed, ToSet(rcvd) \cup {n})
      BY <1>0, <2>1, InTurnTail DEF Lines
    <2>5. InTurn(rcvd', Owed, {})
      BY <1>0, <2>1, <2>4, InTurnAppend DEF Lines
    <2>6. Reached' = Reached
      BY <2>3 DEF Reached
    <2>. QED  BY <1>0, <1>a, <2>2, <2>3, <2>4, <2>5, <2>6 DEF Lines
  <1>2. CASE HandOver
    <2>1. PICK n \in Msgs : /\ Head(events) = Letter(n)
                            /\ toService' = Append(toService, n) /\ events' = Tail(events)
      BY <1>0, <1>2, FirstEvent DEF HandOver, Begun
    <2>2. UNCHANGED <<send, sent, rcvd>> /\ events # <<>>
      BY <1>0, <1>2 DEF HandOver, Begun
    <2>3. ToSet(toService') = ToSet(toService) \cup {n}
      BY <2>1, Appended
    <2>4. /\ OwedLetters[Letter(n)] \subseteq Letters(Reached)
          /\ InTurn(events', OwedLetters, Letters(Reached) \cup {Letter(n)})
      BY <1>0, <2>1, <2>2, InTurnTail DEF Lines
    <2>5. Owed[n] \subseteq Reached
      <3>1. Letters(Owed[n]) \subseteq Letters(Reached)
        BY <2>4, OwedLetter
      <3>. QED  BY <3>1, LettersIn
    <2>6. InTurn(toService', Owed, ToSet(rcvd))
      BY <1>0, <2>1, <2>5, InTurnAppend DEF Lines, Reached
    <2>7. Letters(Reached') = Letters(Reached) \cup {Letter(n)}
      BY <2>2, <2>3 DEF Letters, Reached
    <2>. QED  BY <1>0, <1>a, <2>2, <2>4, <2>6, <2>7 DEF Lines
  <1>3. CASE PostInitialize
    <2>1. /\ UNCHANGED <<send, sent, events, rcvd>> /\ post[Initialize] = "flying" /\ toService' = <<Initialize>>
      BY <1>3 DEF PostInitialize, Reaches
    <2>2. rcvd = <<>> /\ events = <<>> /\ toService = <<>> /\ session = "none"
      BY <1>0, <2>1 DEF Begun
    <2>3. Places = {}
      BY <2>2, Emptied DEF Places, Reached, Mailed
    <2>4. Owed[Initialize] = {}
      BY <2>1, <2>2, <2>3 DEF Ahead
    <2>5. toService' = Append(<<>>, Initialize) /\ <<>> \in Seq(Msgs)
      BY <2>1
    <2>6. InTurn(toService', Owed, ToSet(rcvd))
      BY <2>4, <2>5, InTurnEmpty, InTurnAppend
    <2>. QED  BY <1>0, <1>a, <2>1, <2>2, <2>6, InTurnEmpty DEF Lines
  <1>4. ASSUME NEW e \in Mailbox, events' = Append(events, e), UNCHANGED <<send, sent, toService, rcvd>>,
               OwedLetters[e] \subseteq Letters(Reached) \cup ToSet(events)
        PROVE  Lines'
    <2>1. InTurn(events', OwedLetters, Letters(Reached))
      BY <1>0, <1>4, InTurnAppend DEF Lines
    <2>2. Reached' = Reached
      BY <1>4 DEF Reached
    <2>. QED  BY <1>0, <1>a, <1>4, <2>1, <2>2 DEF Lines
  <1>5. CASE SendClose \/ \E m \in Msgs : AskForStream(m)
    <2>1. UNCHANGED <<send, sent, toService, rcvd>>
      BY <1>5 DEF SendClose, deleteLocal, AskForStream
    <2>2. PICK e \in Mailbox : events' = Append(events, e) /\ e.kind # "message"
      BY <1>5, Envelopes DEF SendClose, AskForStream, Push, Wish
    <2>. QED  BY <1>4, <2>1, <2>2, OwedLetter
  <1>6. ASSUME NEW m \in Msgs, PushMessage(m)
        PROVE  Lines'
    <2>1. UNCHANGED <<send, sent, toService, rcvd>> /\ post[m] # "none" /\ session # "ended"
      BY <1>6 DEF PushMessage, Reaches, Push, Running
    <2>2. Letter(m) \in Mailbox /\ events' = Append(events, Letter(m))
      BY <1>6, Envelopes DEF PushMessage, Push, Letter
    <2>3. Owed[m] \subseteq Places
      BY <2>1 DEF Ahead
    <2>4. Letters(Places) \subseteq Letters(Reached) \cup ToSet(events)
      BY DEF Letters, Places, Mailed
    <2>5. OwedLetters[Letter(m)] \subseteq Letters(Reached) \cup ToSet(events)
      BY <2>3, <2>4, OwedLetter, LettersIn
    <2>. QED  BY <1>4, <2>1, <2>2, <2>5
  <1>7. CASE OpenStream
    <2>1. PICK n \in Requests : /\ Head(events) = Wish(n) /\ events' = Tail(events)
      BY <1>0, <1>7, FirstEvent DEF OpenStream, Selects
    <2>2. UNCHANGED <<send, sent, toService, rcvd>> /\ events # <<>>
      BY <1>7 DEF OpenStream, Selects
    <2>3. InTurn(events', OwedLetters, Letters(Reached) \cup {Wish(n)}) /\ events' \in Seq(Mailbox)
      BY <1>0, <2>1, <2>2, InTurnTail, Tailed DEF Lines
    <2>4. ASSUME NEW x \in Mailbox
          PROVE  OwedLetters[x] \cap (Letters(Reached) \cup {Wish(n)}) \subseteq Letters(Reached)
      <3>1. Wish(n) \notin OwedLetters[x]
        BY Envelopes DEF OwedLetters, Letters
      <3>. QED  BY <3>1
    <2>5. ToSet(events') \subseteq Mailbox
      BY <2>3, ElementOfSeq DEF ToSet
    <2>6. InTurn(events', OwedLetters, Letters(Reached))
      BY <2>3, <2>4, <2>5, InTurnMore
    <2>7. Reached' = Reached
      BY <2>2 DEF Reached
    <2>. QED  BY <1>0, <1>a, <2>2, <2>6, <2>7 DEF Lines
  <1>8. CASE TakeClose \/ SessionEnds
    <2>1. UNCHANGED <<send, sent, toService, rcvd>> /\ events' = <<>>
      BY <1>8 DEF TakeClose, HandleClose, SessionEnds, WorkerEnds
    <2>. QED  BY <1>0, <1>a, <2>1, InTurnEmpty DEF Lines
  <1>9. ASSUME UNCHANGED <<events, toService, rcvd>>
        PROVE  Lines'
    <2>1. \A m \in Msgs : m \in Places => Owed'[m] \subseteq Owed[m]
      BY PlacedWereSent, OwedShrinks
    <2>2. /\ \A x \in ToSet(rcvd) : x \in Msgs /\ x \in Places
          /\ \A x \in ToSet(toService) : x \in Msgs /\ x \in Places
          /\ \A x \in ToSet(events) : x \in Mailbox
      BY ElementOfSeq DEF ToSet, Places, Reached
    <2>3. InTurn(rcvd, Owed', {})
      BY <1>0, <2>1, <2>2, InTurnMore DEF Lines
    <2>4. InTurn(toService, Owed', ToSet(rcvd))
      BY <1>0, <2>1, <2>2, InTurnMore DEF Lines
    <2>5. ASSUME NEW x \in ToSet(events)
          PROVE  OwedLetters'[x] \subseteq OwedLetters[x]
      <3>1. CASE x.kind = "message"
        <4>1. PICK m \in Msgs : m = x.of /\ x = Letter(m)
          BY <1>0, <2>2, <3>1 DEF InPlace, Kinds, Letter, Mailbox
        <4>2. m \in Places
          BY <2>5, <4>1 DEF Places, Mailed
        <4>3. OwedLetters[x] = Letters(Owed[m]) /\ OwedLetters'[x] = Letters(Owed'[m])
          BY <2>2, <3>1, <4>1 DEF OwedLetters
        <4>. QED  BY <2>1, <4>2, <4>3, LettersIn
      <3>2. CASE x.kind # "message"
        BY <2>2, <3>2 DEF OwedLetters
      <3>. QED  BY <3>1, <3>2
    <2>6. InTurn(events, OwedLetters', Letters(Reached))
      BY <1>0, <2>5, InTurnMore DEF Lines
    <2>7. Reached' = Reached
      BY <1>9 DEF Reached
    <2>. QED  BY <1>9, <2>3, <2>4, <2>6, <2>7 DEF Lines
  <1>10. ASSUME \/ AtClient \/ TakeMessage \/ AnswerInitialize \/ RemoveHandle \/ TakeClientMessage
                \/ ServiceStops
                \/ \E m \in Msgs : PostFails(m) \/ FindSession(m)
                \/ \E m \in Requests : Respond(m)
                \/ \E c \in Streams : Notify(c)
         PROVE  UNCHANGED <<events, toService, rcvd>>
    BY <1>10, ClientOnly DEF TakeMessage, AnswerInitialize, RemoveHandle, deleteLocal, TakeClientMessage,
       ServiceStops, PostFails, FindSession, Respond, Notify
  <1>. QED
    BY <1>1, <1>2, <1>3, <1>5, <1>6, <1>7, <1>8, <1>9, <1>10, StepKinds

LEMMA AheadSteps ==
    ASSUME Typed, Ordered, Ahead, [Next]_vars
    PROVE  Ahead'
  <1>. USE Queues
  <1>1. Lines'
    BY LinesSteps
  <1>2. ASSUME session' # "ended", NEW m \in Msgs, post'[m] # "none"
        PROVE  Owed'[m] \subseteq Places'
    <2>1. session # "ended" /\ Places \subseteq Places'
      BY <1>2, PlacesStay
    <2>2. m \in ToSet(sent) /\ Owed[m] \subseteq Places
      <3>1. CASE post[m] # "none"
        BY <2>1, <3>1, PlacedWereSent DEF Ahead
      <3>2. CASE TakeMessage /\ m = Head(fromHandler) /\ m \in ToSet(sent)
        BY <2>1, <3>2, TakenInTurn
      <3>. QED  BY <1>2, <3>1, <3>2, PostedBefore
    <2>3. Owed'[m] \subseteq Owed[m]
      BY <2>2, OwedShrinks
    <2>. QED  BY <2>1, <2>2, <2>3
  <1>3. ASSUME session' # "ended", pc' # "ended", NEW x \in 1 .. Done'
        PROVE  send'[sent'[x]] = "failed" \/ sent'[x] \in Places'
    <2>1. session # "ended" /\ Places \subseteq Places'
      BY <1>3, PlacesStay
    <2>2. /\ pc # "ended" /\ Done \in Nat /\ Done' \in Nat /\ Done <= Taken /\ Taken <= Len(sent)
          /\ \A y \in DOMAIN sent : y \in DOMAIN sent' /\ sent'[y] = sent[y]
          /\ Done' = Done
             \/ /\ Done' = Done + 1 /\ Done + 1 \in DOMAIN sent
                /\ \/ send'[sent[Done + 1]] = "failed" \/ sent[Done + 1] \in Places
      BY <1>3, <2>1, DoneMoves
    <2>3. x \in 1 .. Done \/ (x = Done + 1 /\ Done' = Done + 1)
      BY <2>2, UpToNext
    <2>4. x \in DOMAIN sent /\ sent[x] \in Msgs
      <3>1. Taken \in Int
        BY DEF Taken
      <3>2. x \in DOMAIN sent
        <4>. HIDE DEF Taken
        <4>. QED  BY <2>2, <2>3, <3>1
      <3>. QED  BY <3>2, ElementOfSeq
    <2>5. CASE x \in 1 .. Done
      <3>1. send[sent[x]] = "failed" \/ sent[x] \in Places
        BY <2>1, <2>2, <2>5 DEF Ahead
      <3>. QED  BY <2>1, <2>2, <2>4, <3>1, OutcomesStay
    <2>6. CASE x = Done + 1 /\ Done' = Done + 1
      <3>1. Done' # Done
        BY <2>2, <2>6
      <3>. QED  BY <2>1, <2>2, <2>4, <2>6, <3>1
    <2>. QED  BY <2>3, <2>5, <2>6
  <1>. QED  BY <1>1, <1>2, <1>3 DEF Ahead, Lines

LEMMA FirstAhead == Init => Ahead
  <1>. SUFFICES ASSUME Init PROVE Ahead
    OBVIOUS
  <1>1. rcvd = <<>> /\ toService = <<>> /\ events = <<>> /\ \A m \in Msgs : post[m] = "none"
    BY DEF Init
  <1>2. 1 .. Done = {}
    <2>1. pc # "posting" /\ Len(sent) = 0 /\ Len(fromHandler) = 0
      BY DEF Init
    <2>. QED  BY <2>1 DEF Done, Taken
  <1>. QED  BY <1>1, <1>2, InTurnEmpty DEF Ahead

\* The server's service sees the messages of the client in the order they entered the channel and
\* none twice; one that did not fail comes after all before it that did not fail either: the worker
\* posts one at a time, and what is acknowledged is queued for the service (session.rs 474-487).
ServerSeesSendOrder ==
    /\ \A i, j \in DOMAIN rcvd : rcvd[i] = rcvd[j] => i = j
    /\ \A i \in DOMAIN rcvd : Contains(sent, rcvd[i])
    /\ \A i \in DOMAIN rcvd : \A x, y \in DOMAIN sent :
           x < y /\ sent[y] = rcvd[i] /\ send[sent[x]] # "failed" /\ send[sent[y]] # "failed"
               => \E j \in 1 .. i - 1 : rcvd[j] = sent[x]

\* The server's service receives what the client sent, each message once, and what did not fail in
\* the order it was sent and without a gap (streamable_http_client.rs 377-457, session.rs 474-487
\* and 676-705), wherever the worker and the session end.
THEOREM SendOrderKept == Spec => []ServerSeesSendOrder
  <1>1. Typed /\ Ordered /\ Ahead /\ [Next]_vars => Typed' /\ Ordered' /\ Ahead'
    BY TypedSteps, AheadSteps
  <1>2. Typed /\ Ordered /\ Ahead => ServerSeesSendOrder
    <2>. SUFFICES ASSUME Typed, Ordered, Ahead PROVE ServerSeesSendOrder
      OBVIOUS
    <2>. USE Queues
    <2>1. \A i \in DOMAIN rcvd : rcvd[i] \in Msgs /\ rcvd[i] \in ToSet(rcvd)
      BY ElementOfSeq DEF ToSet
    <2>2. \A i, j \in DOMAIN rcvd : rcvd[i] = rcvd[j] => i = j
      BY <2>1 DEF Ordered, InPlace, Once, Single
    <2>3. ASSUME NEW i \in DOMAIN rcvd
          PROVE  Contains(sent, rcvd[i])
      <3>1. rcvd[i] \in ToSet(sent)
        BY <2>1, PlacedWereSent DEF Places, Reached
      <3>. QED  BY <3>1 DEF Contains, ToSet
    <2>4. ASSUME NEW i \in DOMAIN rcvd, NEW x \in DOMAIN sent, NEW y \in DOMAIN sent,
                 x < y, sent[y] = rcvd[i], send[sent[x]] # "failed", send[sent[y]] # "failed"
          PROVE  \E j \in 1 .. i - 1 : rcvd[j] = sent[x]
      <3>1. sent[x] \in Msgs /\ sent[y] \in Msgs
        BY ElementOfSeq
      <3>2. sent[x] \in Owed[rcvd[i]]
        BY <2>4, <3>1 DEF Owed
      <3>3. Owed[rcvd[i]] \subseteq {} \cup {rcvd[j] : j \in 1 .. i - 1}
        BY DEF Ahead, InTurn
      <3>. QED  BY <3>2, <3>3
    <2>. QED  BY <2>2, <2>3, <2>4 DEF ServerSeesSendOrder
  <1>. QED  BY <1>1, <1>2, FirstTyped, FirstAhead, PTL DEF Spec

\* ---- the promise of a transport
\* What the service receives is next in the order of what did not fail.
LEMMA DeliversNext ==
    ASSUME Typed, Ordered, Ahead, ServiceReceives
    PROVE  Sending!Next
  <1>. USE Queues
  <1>1. PICK n \in Msgs : /\ n = Head(toService) /\ toService # <<>>
                          /\ rcvd' = Append(rcvd, n) /\ toService' = Tail(toService)
    BY Tailed DEF ServiceReceives
  <1>2. UNCHANGED <<sent, send>>
    BY DEF ServiceReceives
  <1>3. n \in ToSet(toService)
    BY <1>1, Tailed
  <1>4. n \notin ToSet(rcvd)
    BY <1>3 DEF Ordered, InPlace, Once
  <1>5. n \in ToSet(sent)
    BY <1>3, PlacedWereSent DEF Places, Reached
  <1>6. PICK k \in DOMAIN sent : sent[k] = n
    BY <1>5 DEF ToSet
  <1>7. Owed[n] \subseteq ToSet(rcvd)
    BY <1>1, InTurnTail DEF Ahead
  <1>8. ASSUME NEW i \in 1 .. k - 1, send[n] # "failed"
        PROVE  sent[i] \in ToSet(rcvd) \cup Told("failed")
    <2>1. i \in DOMAIN sent /\ i < k
      OBVIOUS
    <2>2. sent[i] \in Msgs
      BY <2>1, ElementOfSeq
    <2>3. send[sent[i]] # "failed" => sent[i] \in Owed[n]
      BY <1>6, <1>8, <2>1, <2>2 DEF Owed
    <2>. QED  BY <1>7, <2>2, <2>3 DEF Told
  <1>9. sent[k] \in Told("failed") \/ {sent[i] : i \in 1 .. k - 1} \subseteq ToSet(rcvd) \cup Told("failed")
    BY <1>6, <1>8 DEF Told
  <1>10. UNCHANGED <<Told("ok"), Told("failed")>>
    BY <1>2 DEF Told
  <1>11. ~Sending!Contains(rcvd, sent[k])
    BY <1>4, <1>6 DEF ToSet, Sending!Contains
  <1>12. Sending!ToSet(rcvd) = ToSet(rcvd)
    BY DEF ToSet, Sending!ToSet
  <1>13. Sending!Deliver(k)
    BY <1>1, <1>2, <1>6, <1>9, <1>10, <1>11, <1>12 DEF Sending!Deliver
  <1>. QED  BY <1>6, <1>13 DEF Sending!Next

\* The worker, its channel, the POSTs and the queue of the session implement Transport: the server's
\* service gets the messages of the client once and in the order they were sent, and one is passed
\* over only when its sender was told so, though what was acknowledged may be lost with all that
\* follows (streamable_http_client.rs 377-457, session.rs 474-487 and 676-705), for any number of
\* requests and any capacities.
THEOREM KeepsPromise == Spec => ImplementsTransport
  <1>1. Init => Sending!Init
    <2>1. Init => Told("ok") = {} /\ Told("failed") = {}
      BY DEF Init, Told
    <2>. QED  BY <2>1 DEF Init, Sending!Init
  <1>2. Typed /\ Ordered /\ Ahead /\ [Next]_vars => [Sending!Next]_(Sending!vars)
    <2>. SUFFICES ASSUME Typed, Ordered, Ahead, [Next]_vars
                  PROVE  Sending!Next \/ UNCHANGED Sending!vars
      OBVIOUS
    <2>. USE Queues
    <2>1. ASSUME NEW m \in Msgs, Send(m)
          PROVE  Sending!Next
      <3>1. UNCHANGED rcvd /\ send[m] = "none"
        BY <2>1 DEF Send
      <3>2. CASE sent' = Append(sent, m) /\ send' = [send EXCEPT ![m] = "queued"]
        <4>1. \A i \in DOMAIN sent : sent[i] # m
          BY <3>1 DEF Ordered, InSendOrder
        <4>2. Told("ok")' = Told("ok") /\ Told("failed")' = Told("failed")
          BY <3>1, <3>2 DEF Told
        <4>3. Sending!Send(m)
          BY <3>1, <3>2, <4>1, <4>2 DEF Sending!Send, Sending!Contains
        <4>. QED  BY <4>3 DEF Sending!Next
      <3>3. CASE sent' = sent /\ send' = [send EXCEPT ![m] = "failed"]
        <4>1. /\ Told("ok")' = Told("ok") /\ Told("failed")' = Told("failed") \cup {m}
              /\ m \notin Told("ok")
          BY <3>1, <3>3 DEF Told
        <4>2. Sending!Fail({m})
          BY <3>1, <3>3, <4>1 DEF Sending!Fail
        <4>. QED  BY <4>2 DEF Sending!Next
      <3>. QED  BY <2>1, <3>2, <3>3 DEF Send
    <2>2. CASE Quits
      <3>1. UNCHANGED <<sent, rcvd>>
        BY <2>2, QuitsQuit DEF Quit
      <3>2. send' = [m \in Msgs |-> IF send[m] = "queued" THEN "failed" ELSE send[m]]
        BY <2>2, QuitsQuit DEF Quit
      <3>3. /\ Told("ok")' = Told("ok")
            /\ Told("failed")' = Told("failed") \cup Told("queued")
            /\ Told("queued") \cap Told("ok") = {} /\ Told("queued") \in SUBSET Msgs
        BY <3>2 DEF Told
      <3>4. Sending!Fail(Told("queued"))
        BY <3>1, <3>3 DEF Sending!Fail
      <3>. QED  BY <3>3, <3>4 DEF Sending!Next
    <2>3. CASE TakeMessage
      <3>1. UNCHANGED <<sent, rcvd>> /\ fromHandler # <<>>
            /\ send' = IF pc = "wait_initialize" THEN [send EXCEPT ![Head(fromHandler)] = "ok"]
                       ELSE send
        BY <2>3 DEF TakeMessage
      <3>2. pc = "wait_initialize" => Head(fromHandler) = Initialize /\ send[Initialize] = "queued"
        <4>1. Head(fromHandler) = fromHandler[1] /\ 1 \in DOMAIN fromHandler
          BY <3>1, Tailed
        <4>2. pc = "wait_initialize" => Head(fromHandler) = Initialize
          BY <3>1 DEF Typed, HandshakeInOrder, Opening
        <4>. QED  BY <4>1, <4>2 DEF Ordered, InSendOrder
      <3>3. /\ Told("ok")' \ {Initialize} = Told("ok") \ {Initialize}
            /\ Told("failed")' = Told("failed")
        BY <3>1, <3>2 DEF Told
      <3>. QED  BY <3>1, <3>3 DEF Sending!vars
    <2>4. ASSUME NEW m \in Msgs \ {Initialize}, pc = "posting", cur = m,
                 send' = [send EXCEPT ![m] = "ok"], UNCHANGED <<sent, rcvd>>
          PROVE  Sending!Next
      <3>1. send[m] = "queued" /\ Taken > 0 /\ m = sent[Taken] /\ Len(fromHandler) <= Len(sent)
        BY <2>4 DEF Ordered, InSendOrder
      <3>2. /\ m \notin Told("failed") /\ Told("failed")' = Told("failed")
            /\ Told("ok")' \ {Initialize} = (Told("ok") \ {Initialize}) \cup {m}
        BY <2>4, <3>1 DEF Told
      <3>3. Taken \in DOMAIN sent
        BY <3>1 DEF Taken
      <3>4. Sending!Contains(sent, m)
        BY <3>1, <3>3 DEF Sending!Contains
      <3>5. Sending!Acknowledge(m)
        BY <2>4, <3>2, <3>4 DEF Sending!Acknowledge
      <3>. QED  BY <3>5 DEF Sending!Next
    <2>5. CASE InitializedAnswered
      BY <2>4, <2>5 DEF InitializedAnswered, Answered
    <2>6. ASSUME NEW m \in Requests, RequestAnswered(m)
          PROVE  Sending!Next
      <3>1. pc = "posting" /\ cur = m /\ UNCHANGED <<sent, rcvd>>
        BY <2>6 DEF RequestAnswered, Answered
      <3>2. CASE send' = [send EXCEPT ![m] = "ok"]
        BY <2>4, <3>1, <3>2
      <3>3. CASE send' = [send EXCEPT ![m] = "failed"]
        <4>1. send[m] = "queued"
          BY <3>1 DEF Ordered, InSendOrder
        <4>2. /\ Told("ok")' = Told("ok") /\ Told("failed")' = Told("failed") \cup {m}
              /\ m \notin Told("ok")
          BY <3>3, <4>1 DEF Told
        <4>3. Sending!Fail({m})
          BY <3>1, <4>2 DEF Sending!Fail
        <4>. QED  BY <4>3 DEF Sending!Next
      <3>. QED  BY <2>6, <3>2, <3>3 DEF RequestAnswered
    <2>7. ServiceReceives => Sending!Next
      BY DeliversNext
    <2>8. ASSUME UNCHANGED <<sent, rcvd, send>>
          PROVE  UNCHANGED Sending!vars
      BY <2>8 DEF Sending!vars, Told
    <2>9. ASSUME \/ InitializeAnswered \/ HandInitialize \/ TakeServerMessage \/ Hand
                 \/ AskForCommon \/ GetCommon \/ SkipCommon \/ Receive \/ Close \/ Drop
                 \/ \E k \in Streams : Yield(k) \/ Break(k) \/ Retry(k) \/ Resume(k) \/ Finish(k)
                 \/ Handlers \/ UNCHANGED vars
          PROVE  UNCHANGED <<sent, rcvd, send>>
      <3>1. UNCHANGED <<sent, send>>
        BY <2>9, ElsewhereRests DEF InitializeAnswered, HandInitialize, TakeServerMessage, Hand,
           AskForCommon, GetCommon, SkipCommon, Receive, Close, Drop, Elsewhere
      <3>2. CASE \/ InitializeAnswered \/ HandInitialize \/ TakeServerMessage \/ Hand
                 \/ AskForCommon \/ GetCommon \/ SkipCommon \/ Receive \/ Close \/ Drop
                 \/ \E k \in Streams : Yield(k) \/ Break(k) \/ Retry(k) \/ Resume(k) \/ Finish(k)
                 \/ AnswerLost \/ DeleteFails \/ UNCHANGED vars
        <4>1. UNCHANGED rcvd
          BY <3>2, ClientOnly DEF AtClient
        <4>. QED  BY <3>1, <4>1
      <3>3. CASE \/ PostInitialize \/ AnswerInitialize \/ RemoveHandle \/ SendClose
                 \/ \E m \in Msgs : PostFails(m) \/ FindSession(m) \/ AskForStream(m) \/ PushMessage(m)
        <4>1. UNCHANGED rcvd
          BY <3>3 DEF PostInitialize, AnswerInitialize, RemoveHandle, SendClose, deleteLocal, PostFails,
             FindSession, AskForStream, PushMessage
        <4>. QED  BY <3>1, <4>1
      <3>. QED  BY <2>9, <3>2, <3>3 DEF Handlers
    <2>10. ASSUME \/ OpenStream \/ TakeClientMessage \/ HandOver \/ TakeClose \/ SessionEnds \/ ServiceStops
                  \/ \E m \in Requests : Respond(m)
                  \/ \E c \in Streams : Notify(c)
           PROVE  UNCHANGED <<sent, rcvd, send>>
      BY <2>10, ServerOnly DEF OpenStream, TakeClientMessage, HandOver, TakeClose, SessionEnds, ServiceStops,
         Respond, Notify
    <2>. QED
      BY <2>1, <2>2, <2>3, <2>5, <2>6, <2>7, <2>8, <2>9, <2>10 DEF Next, Worker, Session, Quits
  <1>3. Typed /\ Ordered /\ Ahead /\ [Next]_vars => Typed' /\ Ordered' /\ Ahead'
    BY TypedSteps, AheadSteps
  <1>. QED
    BY <1>1, <1>2, <1>3, FirstTyped, FirstAhead, PTL DEF Spec, ImplementsTransport, Sending!Spec

\* ---- the line of events
\* What comes before was evicted from the cache of its stream.
Evicted == [c \in Streams |-> Oldest(c)]

\* An event follows those before it of its stream, but for those evicted.
InLine(q, old) ==
    \A i \in DOMAIN q : \A n \in 1 .. q[i][2] - 1 :
        n < old[q[i][1]] \/ \E j \in 1 .. i - 1 : q[j] = <<q[i][1], n>>

\* What was yielded stands in one line, on its way to the service's hands.
Given == IF Early THEN <<>> ELSE toHandler
Held == IF pc = "hand" THEN <<cur>> ELSE <<>>
Line == ((got \o Given) \o Held) \o sse

\* What a stream brings continues what it brought: b is the last event that was yielded or skipped,
\* as known or as evicted.  The task that has the receiver has everything up to the end of the log.
Behind(c, b) == \A n \in 1 .. b : n < Evicted[c] \/ <<c, n>> \in ToSet(Line)
Continues(k, b) ==
    /\ task[k].reads = None => b = 0 /\ task[k].wire = <<>>
    /\ task[k].reads # None => /\ Behind(task[k].reads, b)
                               /\ b + Len(task[k].wire) <= Len(log[task[k].reads])
    /\ \A i \in DOMAIN task[k].wire : task[k].wire[i] = <<task[k].reads, b + i>>
    /\ \A c \in Streams : reader[c] = k => /\ task[k].reads = c /\ task[k].st \in {"none", "open"}
                                           /\ b + Len(task[k].wire) = Len(log[c])
LastKept(k) ==
    task[k].last # None =>
        task[k].last \in ToSet(Line) /\ task[k].last[2] <= Len(log[task[k].last[1]])
Alive == service # "dropped" /\ pc # "ended"
Unbroken ==
    /\ InLine(got, Evicted)
    /\ service # "dropped" => InLine(Line, Evicted)
    /\ Alive => \A k \in Streams : (\E b \in Nat : Continues(k, b)) /\ LastKept(k)

\* A stream that was not asked for yet has no task.
Untouched ==
    Alive =>
        /\ \A m \in Requests : /\ \/ task[m] = NoTask \/ send[m] = "ok"
                                  \/ pc = "posting" /\ cur = m /\ answer = "sse"
                               /\ m \notin ToSet(rcvd) => log[m] = <<>>
        /\ send[Initialized] \in {"none", "queued"} => task[Common] = NoTask
        /\ pc = "get_common" => /\ send[Initialized] = "ok"
                                /\ task[Common] \in {NoTask, [NoTask EXCEPT !.st = "asking"]}

\* Logs only grow, and with them what is evicted.
LEMMA OldestOf ==
    ASSUME Typed, NEW c \in Streams
    PROVE  /\ Len(log[c]) \in Nat /\ Evicted[c] = Oldest(c) /\ Oldest(c) \in Nat \ {0}
           /\ Oldest(c) <= Len(log[c]) + 1
  <1>1. Len(log[c]) \in Nat
    BY LenProperties DEF Typed, TypeOK
  <1>2. PICK l \in Nat, s \in Nat \ {0} : l = Len(log[c]) /\ s = SessionCapacity
    BY <1>1, CapacityIsNumber
  <1>3. Oldest(c) = IF l > s THEN l - s + 1 ELSE 1
    BY <1>2 DEF Oldest
  <1>4. Oldest(c) \in Nat \ {0} /\ Oldest(c) <= l + 1
    BY <1>2, <1>3
  <1>. QED  BY <1>1, <1>2, <1>4 DEF Evicted

LEMMA LogsGrow ==
    ASSUME Typed, Ordered, [Next]_vars
    PROVE  \/ UNCHANGED log
           \/ /\ \E c \in Streams, e \in Requests \cup Notes : Emit(c, e)
              /\ \A d \in Streams : reader'[d] \in {reader[d], None}
  <1>0. reader \in [Streams -> Streams \cup {None}]
    BY TypedParts
  <1>1. ASSUME NEW m \in Requests, Respond(m)
        PROVE  /\ \E c \in Streams, e \in Requests \cup Notes : Emit(c, e)
               /\ \A d \in Streams : reader'[d] \in {reader[d], None}
    BY <1>0, <1>1 DEF Respond, Streams
  <1>2. ASSUME NEW c \in Streams, Notify(c)
        PROVE  /\ \E e \in Requests \cup Notes : Emit(c, e)
               /\ \A d \in Streams : reader'[d] \in {reader[d], None}
    BY <1>2, NewNote DEF Notify
  <1>3. CASE \/ AtClient \/ TakeMessage
             \/ PostInitialize \/ AnswerInitialize \/ RemoveHandle \/ SendClose
             \/ \E m \in Msgs : PostFails(m) \/ FindSession(m) \/ AskForStream(m) \/ PushMessage(m)
             \/ OpenStream \/ TakeClientMessage \/ HandOver \/ TakeClose \/ SessionEnds
             \/ ServiceReceives \/ ServiceStops
    <2>1. UNCHANGED log
      BY <1>3, ClientOnly DEF TakeMessage, PostInitialize, AnswerInitialize, RemoveHandle, SendClose,
         deleteLocal, PostFails, FindSession, AskForStream, PushMessage, OpenStream, TakeClientMessage,
         HandOver, TakeClose, SessionEnds, ServiceReceives, ServiceStops
    <2>. QED  BY <2>1
  <1>. QED  BY <1>1, <1>2, <1>3, StepKinds

LEMMA EmitLeaves ==
    ASSUME Typed, Ordered, [Next]_vars, NEW c \in Streams, NEW e \in Requests \cup Notes, Emit(c, e)
    PROVE  \A d \in Streams : reader'[d] \in {reader[d], None}
  <1>1. log \in [Streams -> Seq(Requests \cup Notes)] /\ log[c] \in Seq(Requests \cup Notes)
    BY TypedParts
  <1>2. PICK l \in Nat : l = Len(log[c]) /\ Len(Append(log[c], e)) = l + 1
    BY <1>1, Appended
  <1>3. log'[c] = Append(log[c], e)
    BY <1>1 DEF Emit
  <1>4. ~UNCHANGED log
    <2>1. l # l + 1
      BY <1>2
    <2>. QED  BY <1>2, <1>3, <2>1
  <1>. QED  BY <1>4, LogsGrow

LEMMA MoreEvicted ==
    ASSUME Typed, Typed', Ordered, [Next]_vars
    PROVE  \A c \in Streams : Len(log[c]) <= Len(log'[c]) /\ Evicted[c] <= Evicted'[c]
                              /\ Evicted[c] \in Nat /\ Evicted'[c] \in Nat
  <1>. SUFFICES ASSUME NEW c \in Streams
                PROVE  Len(log[c]) <= Len(log'[c]) /\ Evicted[c] <= Evicted'[c]
                       /\ Evicted[c] \in Nat /\ Evicted'[c] \in Nat
    OBVIOUS
  <1>1. log \in [Streams -> Seq(Requests \cup Notes)] /\ log[c] \in Seq(Requests \cup Notes)
    BY TypedParts
  <1>2. Len(log[c]) \in Nat /\ Len(log'[c]) \in Nat
    BY LenProperties DEF Typed, TypeOK
  <1>3. Len(log[c]) <= Len(log'[c])
    <2>1. CASE UNCHANGED log
      BY <1>2, <2>1
    <2>2. ASSUME NEW d \in Streams, NEW e \in Requests \cup Notes, Emit(d, e)
          PROVE  Len(log[c]) <= Len(log'[c])
      <3>1. log'[c] = log[c] \/ log'[c] = Append(log[c], e)
        BY <1>1, <2>2 DEF Emit
      <3>2. Len(log'[c]) = Len(log[c]) \/ Len(log'[c]) = Len(log[c]) + 1
        BY <1>1, <3>1, Appended
      <3>. QED  BY <1>2, <3>2
    <2>. QED  BY <2>1, <2>2, LogsGrow
  <1>4. PICK l \in Nat, m \in Nat, s \in Nat \ {0} :
            l = Len(log[c]) /\ m = Len(log'[c]) /\ s = SessionCapacity /\ l <= m
    BY <1>2, <1>3, CapacityIsNumber
  <1>5. /\ Evicted[c] = IF l > s THEN l - s + 1 ELSE 1
        /\ Evicted'[c] = IF m > s THEN m - s + 1 ELSE 1
    BY <1>4 DEF Evicted, Oldest
  <1>6. Evicted[c] <= Evicted'[c] /\ Evicted[c] \in Nat /\ Evicted'[c] \in Nat
    BY <1>4, <1>5
  <1>. QED  BY <1>3, <1>6

LEMMA Joined ==
    ASSUME NEW S, NEW s \in Seq(S), NEW t \in Seq(S)
    PROVE  /\ s \o t \in Seq(S) /\ Len(s \o t) = Len(s) + Len(t)
           /\ \A i \in 1 .. Len(s) : (s \o t)[i] = s[i]
           /\ Len(s) \in Nat /\ Len(t) \in Nat
           /\ DOMAIN s = 1 .. Len(s) /\ DOMAIN (s \o t) = 1 .. Len(s) + Len(t)
  BY ConcatProperties, LenProperties

\* The head of one queue may as well be the end of the one before it.
LEMMA HandedOn ==
    ASSUME NEW S, NEW s \in Seq(S), NEW t \in Seq(S), t # <<>>
    PROVE  Append(s, Head(t)) \o Tail(t) = s \o t
  <1>1. Head(t) \in S /\ Tail(t) \in Seq(S) /\ Len(Tail(t)) = Len(t) - 1 /\ Len(t) \in Nat \ {0}
        /\ Head(t) = t[1] /\ \A k \in 1 .. Len(t) - 1 : Tail(t)[k] = t[k + 1]
    BY Tailed
  <1>2. /\ Append(s, Head(t)) \in Seq(S) /\ Len(s) \in Nat /\ Len(Append(s, Head(t))) = Len(s) + 1
        /\ \A k \in 1 .. Len(s) : Append(s, Head(t))[k] = s[k]
        /\ Append(s, Head(t))[Len(s) + 1] = Head(t)
    BY <1>1, Appended
  <1>3. /\ Append(s, Head(t)) \o Tail(t) \in Seq(S)
        /\ Len(Append(s, Head(t)) \o Tail(t)) = Len(s) + Len(t)
        /\ \A i \in 1 .. Len(s) + Len(t) :
               (Append(s, Head(t)) \o Tail(t))[i] =
                   IF i <= Len(s) + 1 THEN Append(s, Head(t))[i] ELSE Tail(t)[i - (Len(s) + 1)]
    BY <1>1, <1>2, ConcatProperties
  <1>4. /\ s \o t \in Seq(S) /\ Len(s \o t) = Len(s) + Len(t)
        /\ \A i \in 1 .. Len(s) + Len(t) : (s \o t)[i] = IF i <= Len(s) THEN s[i] ELSE t[i - Len(s)]
    BY ConcatProperties
  <1>5. ASSUME NEW i \in 1 .. Len(s) + Len(t)
        PROVE  (Append(s, Head(t)) \o Tail(t))[i] = (s \o t)[i]
    <2>1. CASE i <= Len(s)
      BY <1>2, <1>3, <1>4, <2>1
    <2>2. CASE i = Len(s) + 1
      BY <1>1, <1>2, <1>3, <1>4, <2>2
    <2>3. CASE i > Len(s) + 1
      <3>1. i - (Len(s) + 1) \in 1 .. Len(t) - 1 /\ i - (Len(s) + 1) + 1 = i - Len(s)
        BY <1>1, <1>2, <2>3
      <3>. QED  BY <1>1, <1>2, <1>3, <1>4, <2>3, <3>1
    <2>. QED  BY <1>1, <1>2, <2>1, <2>2, <2>3
  <1>6. \A i \in 1 .. Len(s \o t) : (Append(s, Head(t)) \o Tail(t))[i] = (s \o t)[i]
    BY <1>4, <1>5
  <1>7. Len(Append(s, Head(t)) \o Tail(t)) = Len(s \o t)
    BY <1>3, <1>4
  <1>. QED  BY <1>3, <1>4, <1>6, <1>7, SeqEqual

LEMMA TwoJoined ==
    \A s, t, u \in Seq(Event) : \E v \in Seq(Event) : (s \o t) \o u = s \o v
  <1>. TAKE s, t, u \in Seq(Event)
  <1>1. t \o u \in Seq(Event)
    BY ConcatProperties
  <1>2. (s \o t) \o u = s \o (t \o u)
    BY ConcatAssociative
  <1>. QED  BY <1>1, <1>2

LEMMA JoinAppended ==
    ASSUME NEW S, NEW s \in Seq(S), NEW t \in Seq(S), NEW e \in S
    PROVE  s \o Append(t, e) = Append(s \o t, e)
  <1>1. /\ <<e>> \in Seq(S) /\ Append(t, e) = t \o <<e>> /\ s \o t \in Seq(S)
        /\ Append(s \o t, e) = (s \o t) \o <<e>>
    BY AppendIsConcat, ConcatProperties
  <1>. QED  BY <1>1, ConcatAssociative

\* A line stays one when its end is cut off, when more is evicted, and when an event joins it after
\* those before it.
LEMMA LineCut ==
    ASSUME NEW s \in Seq(Event), NEW t \in Seq(Event), NEW old, InLine(s \o t, old)
    PROVE  InLine(s, old)
  <1>1. /\ DOMAIN s = 1 .. Len(s) /\ DOMAIN (s \o t) = 1 .. Len(s) + Len(t)
        /\ \A i \in 1 .. Len(s) : (s \o t)[i] = s[i]
        /\ Len(s) \in Nat /\ Len(t) \in Nat
    BY Joined
  <1>2. ASSUME NEW i \in 1 .. Len(s), NEW n \in 1 .. s[i][2] - 1, ~(n < old[s[i][1]])
        PROVE  \E j \in 1 .. i - 1 : s[j] = <<s[i][1], n>>
    <2>1. i \in DOMAIN (s \o t) /\ (s \o t)[i] = s[i]
      BY <1>1
    <2>2. PICK j \in 1 .. i - 1 : (s \o t)[j] = <<s[i][1], n>>
      BY <1>2, <2>1 DEF InLine
    <2>3. j \in 1 .. Len(s)
      BY <1>1
    <2>. QED  BY <1>1, <2>2, <2>3
  <1>. QED  BY <1>1, <1>2 DEF InLine

LEMMA LineKept ==
    ASSUME NEW s \in Seq(Event), NEW old, NEW more, InLine(s, old),
           \A c \in Streams : old[c] \in Nat /\ more[c] \in Nat /\ old[c] <= more[c]
    PROVE  InLine(s, more)
  <1>. SUFFICES ASSUME NEW i \in DOMAIN s, NEW n \in 1 .. s[i][2] - 1, ~(n < more[s[i][1]])
                PROVE  \E j \in 1 .. i - 1 : s[j] = <<s[i][1], n>>
    BY DEF InLine
  <1>1. s[i] \in Event
    BY ElementOfSeq
  <1>2. PICK c \in Streams : c = s[i][1]
    BY <1>1 DEF Event
  <1>3. n \in Nat
    BY <1>1, BoundIsNumber DEF Event, Bound
  <1>4. ~(n < old[c])
    BY <1>2, <1>3
  <1>. QED  BY <1>2, <1>4 DEF InLine

LEMMA LineGrows ==
    ASSUME NEW s \in Seq(Event), NEW e \in Event, NEW old, InLine(s, old),
           \A n \in 1 .. e[2] - 1 : n < old[e[1]] \/ <<e[1], n>> \in ToSet(s)
    PROVE  InLine(Append(s, e), old)
  <1>1. /\ DOMAIN s = 1 .. Len(s) /\ DOMAIN Append(s, e) = 1 .. Len(s) + 1 /\ Len(s) \in Nat
        /\ \A i \in 1 .. Len(s) : Append(s, e)[i] = s[i]
        /\ Append(s, e)[Len(s) + 1] = e
    BY Appended
  <1>2. ASSUME NEW i \in 1 .. Len(s), NEW n \in 1 .. Append(s, e)[i][2] - 1,
               ~(n < old[Append(s, e)[i][1]])
        PROVE  \E j \in 1 .. i - 1 : Append(s, e)[j] = <<Append(s, e)[i][1], n>>
    <2>1. PICK j \in 1 .. i - 1 : s[j] = <<s[i][1], n>>
      BY <1>1, <1>2 DEF InLine
    <2>2. j \in 1 .. Len(s)
      BY <1>1
    <2>. QED  BY <1>1, <2>1, <2>2
  <1>3. ASSUME NEW n \in 1 .. e[2] - 1, ~(n < old[e[1]])
        PROVE  \E j \in 1 .. Len(s) : Append(s, e)[j] = <<e[1], n>>
    BY <1>1, <1>3 DEF ToSet
  <1>4. ASSUME NEW i \in 1 .. Len(s) + 1, NEW n \in 1 .. Append(s, e)[i][2] - 1,
               ~(n < old[Append(s, e)[i][1]])
        PROVE  \E j \in 1 .. i - 1 : Append(s, e)[j] = <<Append(s, e)[i][1], n>>
    <2>1. CASE i \in 1 .. Len(s)
      BY <1>2, <1>4, <2>1
    <2>2. CASE i = Len(s) + 1
      <3>1. n \in 1 .. e[2] - 1 /\ 1 .. i - 1 = 1 .. Len(s) /\ ~(n < old[e[1]])
        BY <1>1, <1>4, <2>2
      <3>. QED  BY <1>1, <1>3, <2>2, <3>1
    <2>. QED  BY <1>1, <2>1, <2>2
  <1>. QED  BY <1>1, <1>4 DEF InLine

LEMMA LineTyped ==
    ASSUME Typed, service # "dropped"
    PROVE  /\ got \in Seq(Event) /\ Given \in Seq(Event) /\ Held \in Seq(Event) /\ sse \in Seq(Event)
           /\ got \o Given \in Seq(Event) /\ (got \o Given) \o Held \in Seq(Event)
           /\ Line \in Seq(Event)
  <1>1. Given \in Seq(Event)
    BY Emptied DEF Typed, TypeOK, HandshakeInOrder, Given, Early
  <1>2. Held \in Seq(Event)
    <2>1. pc = "hand" => cur \in Event
      BY DEF Typed, Holding
    <2>. QED  BY <2>1 DEF Held
  <1>3. got \in Seq(Event) /\ sse \in Seq(Event)
    BY Queues
  <1>4. got \o Given \in Seq(Event)
    BY <1>1, <1>3, ConcatProperties
  <1>5. (got \o Given) \o Held \in Seq(Event)
    BY <1>2, <1>4, ConcatProperties
  <1>. QED  BY <1>1, <1>2, <1>3, <1>4, <1>5, ConcatProperties DEF Line

LEMMA YieldAdds ==
    ASSUME Typed, service # "dropped", NEW k \in Streams, Yield(k)
    PROVE  Line' = Append(Line, Head(task[k].wire))
  <1>. USE Queues
  <1>1. /\ task[k].wire \in Seq(Event) /\ task[k].wire # <<>> /\ sse' = Append(sse, Head(task[k].wire))
        /\ UNCHANGED <<got, toHandler, service, pc, cur>>
    BY TypedParts, TaskFields DEF Yield
  <1>2. Head(task[k].wire) \in Event
    BY <1>1, Tailed
  <1>3. ((got \o Given) \o Held)' = (got \o Given) \o Held
    BY <1>1 DEF Given, Held, Early
  <1>4. PICK s \in Seq(Event) : s = (got \o Given) \o Held
    BY LineTyped
  <1>5. s \o Append(sse, Head(task[k].wire)) = Append(s \o sse, Head(task[k].wire))
    BY <1>2, JoinAppended
  <1>. QED  BY <1>1, <1>3, <1>4, <1>5 DEF Line

\* An event is added to the line where a task yields it; a worker that quits cuts the line's end off.
LEMMA LineSteps ==
    ASSUME Typed, Ordered, [Next]_vars, service' # "dropped"
    PROVE  \/ UNCHANGED Line
           \/ \E k \in Streams : Yield(k) /\ Line' = Append(Line, Head(task[k].wire))
           \/ Quits /\ \E s, t \in Seq(Event) : Line' = s /\ Line = s \o t
  <1>. USE Queues
  <1>0. /\ HandshakeInOrder /\ task \in [Streams -> TaskStates]
        /\ \A k \in Streams : task[k].wire \in Seq(Event)
    BY TypedParts, TaskFields
  <1>1. CASE Receive
    <2>1. service \in {"initializing", "running"} /\ toHandler # <<>> /\ toHandler' = Tail(toHandler)
          /\ UNCHANGED <<pc, cur, sse>>
      BY <1>1 DEF Receive
    <2>2. CASE service = "initializing"
      BY <1>1, <2>1, <2>2 DEF Receive, Line, Given, Held, Early
    <2>3. CASE service = "running"
      <3>1. /\ got' = Append(got, Head(toHandler)) /\ Given = toHandler /\ Given' = Tail(toHandler)
        BY <1>1, <2>1, <2>3 DEF Receive, Given, Early
      <3>2. toHandler \in Seq(Event)
        BY <1>0, <2>3 DEF HandshakeInOrder
      <3>3. got' \o Given' = got \o Given
        BY SMTT(20), <2>1, <3>1, <3>2, HandedOn
      <3>. QED  BY <2>1, <3>3 DEF Line, Held
    <2>. QED  BY <2>1, <2>2, <2>3
  <1>2. CASE Hand
    <2>1. /\ pc = "hand" /\ pc' = "select" /\ toHandler' = Append(toHandler, cur) /\ service # "dropped"
          /\ UNCHANGED <<got, sse, service>> /\ ~Early
      BY <1>0, <1>2 DEF Hand, HandshakeInOrder, Opening, Early
    <2>2. PICK e \in Event : e = cur
      BY <2>1 DEF Typed, Holding
    <2>3. Given = toHandler /\ Given' = Append(Given, e) /\ Held = <<e>> /\ Held' = <<>>
      BY <2>1, <2>2 DEF Given, Held, Early
    <2>4. got \o Given' = Append(got \o Given, e) /\ (got \o Given) \o <<e>> = Append(got \o Given, e)
      <3>1. got \in Seq(Event) /\ Given \in Seq(Event) /\ got \o Given \in Seq(Event)
        BY <2>1, LineTyped
      <3>2. got \o Append(Given, e) = Append(got \o Given, e)
        BY <3>1, JoinAppended
      <3>3. (got \o Given) \o <<e>> = Append(got \o Given, e)
        BY <3>1, AppendIsConcat
      <3>. QED  BY <2>3, <3>2, <3>3
    <2>5. (got \o Given') \o <<>> = got \o Given'
      BY <2>1, <2>3, <2>4, LineTyped, Appended, ConcatEmptySeq
    <2>. QED  BY <2>1, <2>3, <2>4, <2>5 DEF Line
  <1>3. CASE TakeServerMessage
    <2>1. /\ pc = "select" /\ pc' = "hand" /\ cur' = Head(sse) /\ sse' = Tail(sse) /\ sse # <<>>
          /\ UNCHANGED <<got, toHandler, service>>
      BY <1>3 DEF TakeServerMessage
    <2>2. PICK s \in Seq(Event) : s = got \o Given
      BY <2>1, LineTyped
    <2>3. Held = <<>> /\ Held' = <<Head(sse)>> /\ (got \o Given)' = s
      BY <2>1, <2>2 DEF Held, Given, Early
    <2>4. s \o <<>> = s /\ s \o <<Head(sse)>> = Append(s, Head(sse))
      BY <2>1, ConcatEmptySeq, Tailed, AppendIsConcat
    <2>5. Append(s, Head(sse)) \o Tail(sse) = s \o sse
      BY <2>1, HandedOn
    <2>. QED  BY <2>1, <2>2, <2>3, <2>4, <2>5 DEF Line
  <1>4. ASSUME NEW k \in Streams, Yield(k)
        PROVE  Line' = Append(Line, Head(task[k].wire))
    BY <1>4, YieldAdds DEF Yield
  <1>5. CASE Quits
    <2>1. /\ pc' = "ended" /\ sse' = <<>> /\ UNCHANGED <<got, toHandler, service>>
      BY <1>5, QuitsQuit DEF Quit
    <2>2. PICK s \in Seq(Event) : s = got \o Given
      BY <2>1, LineTyped
    <2>3. Line' = (s \o <<>>) \o <<>>
      BY <2>1, <2>2 DEF Line, Held, Given, Early
    <2>4. Line' = s
      BY <2>3, ConcatEmptySeq
    <2>5. PICK t \in Seq(Event) : Line = s \o t
      <3>1. PICK h \in Seq(Event), u \in Seq(Event) : h = Held /\ u = sse
        BY <2>1, LineTyped
      <3>2. Line = (s \o h) \o u
        BY <2>2, <3>1 DEF Line
      <3>3. \E t \in Seq(Event) : (s \o h) \o u = s \o t
        BY ZenonT(30), TwoJoined
      <3>. QED  BY <3>2, <3>3
    <2>. QED  BY <1>5, <2>4, <2>5
  <1>6. ASSUME NEW m \in Msgs, Send(m)
        PROVE  UNCHANGED Line
    <2>1. UNCHANGED <<got, toHandler, pc, cur, sse>>
      BY <1>6 DEF Send
    <2>2. Given' = Given
      BY <1>0, <1>6, <2>1, SentKinds DEF HandshakeInOrder, Given, Early
    <2>. QED  BY <2>1, <2>2 DEF Line, Held
  <1>7. CASE HandInitialize
    <2>1. /\ pc = "hand_initialize" /\ pc' = "wait_initialized" /\ service # "dropped"
          /\ UNCHANGED <<got, sse, service>>
      BY <1>7 DEF HandInitialize
    <2>2. Early
      BY <1>0, <2>1 DEF HandshakeInOrder, Opening, Early
    <2>. QED  BY <2>1, <2>2 DEF Line, Held, Given, Early
  <1>8. CASE Close
    BY <1>8 DEF Close, Line, Held, Given, Early
  <1>9. CASE Drop
    BY <1>9 DEF Drop
  <1>10. ASSUME UNCHANGED <<got, toHandler, service, sse>>, pc # "hand", pc' # "hand"
         PROVE  UNCHANGED Line
    BY <1>10 DEF Line, Held, Given, Early
  <1>11. ASSUME \/ TakeMessage \/ InitializeAnswered \/ InitializedAnswered
                \/ AskForCommon \/ GetCommon \/ SkipCommon
                \/ \E m \in Requests : RequestAnswered(m)
         PROVE  UNCHANGED <<got, toHandler, service, sse>> /\ pc # "hand" /\ pc' # "hand"
    BY <1>11 DEF TakeMessage, AfterPost, Receiving, InitializeAnswered, InitializedAnswered,
                 AskForCommon, GetCommon, SkipCommon, RequestAnswered, Answered
  <1>12. ASSUME UNCHANGED <<got, toHandler, service, sse, pc, cur>>
         PROVE  UNCHANGED Line
    BY <1>12 DEF Line, Held, Given, Early
  <1>13. ASSUME \/ Handlers \/ Session \/ UNCHANGED vars
                \/ \E k \in Streams : Break(k) \/ Retry(k) \/ Resume(k) \/ Finish(k)
         PROVE  UNCHANGED <<got, toHandler, service, sse, pc, cur>>
    <2>1. CASE UNCHANGED vars \/ \E k \in Streams : Break(k) \/ Retry(k) \/ Resume(k) \/ Finish(k)
      BY <2>1 DEF Break, Retry, Resume, Finish, vars
    <2>2. CASE AnswerLost \/ DeleteFails
      BY <2>2 DEF AnswerLost, DeleteFails, deleteLocal
    <2>3. CASE (Handlers /\ ~AnswerLost /\ ~DeleteFails) \/ Session
      BY <2>3, ServerOnly DEF Handlers, Session
    <2>. QED  BY <1>13, <2>1, <2>2, <2>3
  <1>. QED
    BY <1>1, <1>2, <1>3, <1>4, <1>5, <1>6, <1>7, <1>8, <1>9, <1>10, <1>11, <1>12, <1>13
    DEF Next, Worker, Quits

\* Who is dropped stays so, and a worker that ended does.
LEMMA AliveBefore ==
    ASSUME Typed, Ordered, [Next]_vars
    PROVE  /\ service' # "dropped" => service # "dropped"
           /\ Alive' => Alive /\ ~Quits
  <1>1. service' # "dropped" => service # "dropped"
    <2>1. ASSUME NEW m \in Msgs, Send(m) PROVE service # "dropped"
      BY <2>1, MaySendCases DEF Send
    <2>2. ASSUME Receive \/ Close PROVE service # "dropped"
      BY <2>2 DEF Receive, Close
    <2>3. Drop => service' = "dropped"
      BY DEF Drop
    <2>4. Quits => UNCHANGED service
      BY QuitsQuit DEF Quit
    <2>5. ASSUME \/ TakeMessage \/ InitializeAnswered \/ HandInitialize \/ InitializedAnswered
                 \/ TakeServerMessage \/ Hand \/ AskForCommon \/ GetCommon \/ SkipCommon
                 \/ \E m \in Requests : RequestAnswered(m)
          PROVE  UNCHANGED service
      BY <2>5 DEF TakeMessage, InitializeAnswered, HandInitialize, InitializedAnswered,
                  TakeServerMessage, Hand, AskForCommon, GetCommon, SkipCommon, RequestAnswered
    <2>6. Elsewhere => UNCHANGED service
      BY ElsewhereRests
    <2>. QED  BY <2>1, <2>2, <2>3, <2>4, <2>5, <2>6 DEF Next, Worker, Handlers, Quits, Elsewhere
  <1>2. pc' # "ended" => pc # "ended" /\ ~Quits
    <2>1. Quits => pc' = "ended"
      BY QuitsQuit DEF Quit
    <2>2. ASSUME \/ TakeMessage \/ InitializeAnswered \/ HandInitialize \/ InitializedAnswered
                 \/ TakeServerMessage \/ Hand \/ AskForCommon \/ GetCommon \/ SkipCommon
                 \/ \E m \in Requests : RequestAnswered(m)
          PROVE  pc # "ended"
      BY <2>2 DEF TakeMessage, Receiving, InitializeAnswered, HandInitialize, InitializedAnswered,
                  TakeServerMessage, Hand, AskForCommon, GetCommon, SkipCommon, RequestAnswered, Answered
    <2>3. ASSUME Receive \/ Close \/ Drop \/ \E m \in Msgs : Send(m)
          PROVE  UNCHANGED pc
      BY <2>3 DEF Receive, Close, Drop, Send
    <2>4. Elsewhere => UNCHANGED pc
      BY ElsewhereRests
    <2>. QED  BY <2>1, <2>2, <2>3, <2>4 DEF Next, Worker, Handlers, Quits, Elsewhere
  <1>. QED  BY <1>1, <1>2 DEF Alive

LEMMA NobodyReads == \A k \in Streams : k # None
  BY StreamableHttpAssumption

\* The task that has the receiver is the one of a stream that was asked for.
LEMMA ReaderReads ==
    ASSUME Typed, Unbroken, Alive, NEW c \in Streams, NEW k \in Streams, reader[c] = k
    PROVE  /\ task[k].reads = c /\ task[k].st \in {"none", "open"} /\ task[k] # NoTask
           /\ \A d \in Streams : reader[d] = k => d = c
  <1>1. PICK b \in Nat : Continues(k, b)
    BY DEF Unbroken
  <1>2. \A d \in Streams : reader[d] = k => task[k].reads = d /\ task[k].st \in {"none", "open"}
    BY <1>1 DEF Continues
  <1>. QED  BY <1>2, NobodyReads DEF NoTask

\* The steps that make or change a task.
Tasked ==
    \/ AskForCommon \/ GetCommon
    \/ \E m \in Requests : RequestAnswered(m)
    \/ \E m \in Msgs : PushMessage(m)
    \/ \E k \in Streams : Yield(k) \/ Break(k) \/ Retry(k) \/ Resume(k) \/ Finish(k)
    \/ \E c \in Streams, e \in Requests \cup Notes : Emit(c, e)
LEMMA TaskedOnly ==
    ASSUME Typed, Ordered, [Next]_vars, ~Quits, ~Tasked
    PROVE  UNCHANGED <<task, log>> /\ \A c \in Streams : reader'[c] \in {reader[c], None}
  <1>1. UNCHANGED log
    BY LogsGrow DEF Tasked
  <1>2. CASE \/ TakeMessage \/ InitializeAnswered \/ HandInitialize \/ InitializedAnswered
             \/ TakeServerMessage \/ Hand \/ SkipCommon \/ Receive \/ Close \/ Drop \/ UNCHANGED vars
             \/ \E m \in Msgs : Send(m)
    <2>1. UNCHANGED <<task, reader>>
      BY <1>2 DEF TakeMessage, InitializeAnswered, HandInitialize, InitializedAnswered, TakeServerMessage,
         Hand, SkipCommon, Receive, Close, Drop, Send, vars
    <2>. QED  BY <1>1, <2>1
  <1>3. CASE \/ AnswerLost \/ PostInitialize \/ AnswerInitialize \/ RemoveHandle \/ SendClose \/ DeleteFails
             \/ \E m \in Msgs : PostFails(m) \/ FindSession(m) \/ AskForStream(m)
             \/ OpenStream \/ TakeClientMessage \/ HandOver \/ ServiceReceives \/ ServiceStops
    <2>1. UNCHANGED <<task, reader>>
      BY <1>3 DEF AnswerLost, PostInitialize, AnswerInitialize, RemoveHandle, SendClose, DeleteFails, deleteLocal,
         PostFails, FindSession, AskForStream, OpenStream, TakeClientMessage, HandOver, ServiceReceives,
         ServiceStops
    <2>. QED  BY <1>1, <2>1
  <1>4. CASE TakeClose \/ SessionEnds
    <2>1. UNCHANGED task /\ reader' = [c \in Streams |-> None]
      BY <1>4 DEF TakeClose, HandleClose, SessionEnds, WorkerEnds
    <2>. QED  BY <1>1, <2>1
  <1>5. /\ \A m \in Requests : ~Respond(m)
        /\ \A c \in Streams : ~Notify(c)
    <2>1. ASSUME NEW m \in Requests, Respond(m) PROVE FALSE
      BY <2>1 DEF Respond, Tasked, Streams
    <2>2. ASSUME NEW c \in Streams, Notify(c) PROVE FALSE
      BY <2>2, NewNote DEF Notify, Tasked
    <2>. QED  BY <2>1, <2>2
  <1>. QED
    BY <1>2, <1>3, <1>4, <1>5 DEF Next, Worker, Handlers, Session, Quits, Tasked

\* What a request's stream takes with it when its handler answers first.
LEMMA PushBrings ==
    ASSUME NEW m \in Msgs, PushMessage(m)
    PROVE  \/ UNCHANGED <<task, reader>>
           \/ /\ m \in Requests /\ pc = "posting" /\ cur = m /\ answer = "none" /\ answer' = "sse"
              /\ UNCHANGED <<pc, cur>>
              /\ reader' = [reader EXCEPT ![m] = m] /\ task' = [task EXCEPT ![m].reads = m]
  <1>1. CASE answer' = "sse" /\ answer = "none"
    BY <1>1 DEF PushMessage, Reply
  <1>2. CASE ~(answer' = "sse" /\ answer = "none")
    BY <1>2 DEF PushMessage
  <1>. QED  BY <1>1, <1>2

\* A task is made for a stream the client asked for.
LEMMA TaskMade ==
    ASSUME Typed, Ordered, Unbroken, Alive, [Next]_vars, ~Quits,
           NEW k \in Streams, task[k] = NoTask, task'[k] # NoTask
    PROVE  \/ k = Common /\ AskForCommon /\ task'[k] = [NoTask EXCEPT !.st = "asking"]
           \/ k \in Requests /\ send'[k] = "ok"
           \/ k \in Requests /\ pc' = "posting" /\ cur' = k /\ answer' = "sse"
           \/ k \in Requests /\ pc = "posting" /\ cur = k /\ answer = "sse" /\ send'[k] = "ok"
  <1>. USE Queues
  <1>0. /\ task \in [Streams -> TaskStates] /\ task[k].st = "none" /\ task[k].wire = <<>>
        /\ task[k].reads = None
    BY TypedParts DEF NoTask
  <1>1. ASSUME NEW m \in Requests, RequestAnswered(m)
        PROVE  k \in Requests /\ send'[k] = "ok"
    <2>1. task' = [task EXCEPT ![m].st = "open"] /\ send' = [send EXCEPT ![m] = "ok"]
      BY <1>1 DEF RequestAnswered
    <2>2. k = m
      BY <1>0, <2>1
    <2>. QED  BY <2>1, <2>2
  <1>2. ASSUME NEW m \in Msgs, PushMessage(m)
        PROVE  k \in Requests /\ pc' = "posting" /\ cur' = k /\ answer' = "sse"
    <2>1. /\ m \in Requests /\ pc' = "posting" /\ cur' = m /\ answer' = "sse"
          /\ task' = [task EXCEPT ![m].reads = m]
      BY <1>2, PushBrings
    <2>2. k = m
      BY <1>0, <2>1
    <2>. QED  BY <2>1, <2>2
  <1>3. CASE AskForCommon
    <2>1. task' = [task EXCEPT ![Common].st = "asking"] /\ Common \in Streams
      BY <1>3 DEF AskForCommon, Ask, Streams
    <2>2. k = Common
      BY <1>0, <2>1
    <2>. QED  BY <1>0, <1>3, <2>1, <2>2
  <1>4. ASSUME NEW j \in Streams, Connect(j)
        PROVE  FALSE
    <2>1. task[j].st = "asking" /\ \A i \in Streams : i # j => task'[i] = task[i]
      BY <1>0, <1>4 DEF Connect
    <2>. QED  BY <1>0, <2>1
  <1>5. ASSUME NEW j \in Streams, Yield(j) \/ Break(j) \/ Retry(j) \/ Resume(j) \/ Finish(j)
        PROVE  FALSE
    <2>1. ~Resume(j)
      BY <1>4 DEF Resume
    <2>2. task[j].st # "none" /\ \A i \in Streams : i # j => task'[i] = task[i]
      BY <1>0, <1>5, <2>1 DEF Yield, Break, Retry, Ask, Finish
    <2>. QED  BY <1>0, <2>2
  <1>6. GetCommon => FALSE
    BY <1>4 DEF GetCommon, Streams
  <1>7. ASSUME NEW c \in Streams, NEW e, Emit(c, e)
        PROVE  FALSE
    <2>1. reader[c] = k
      BY <1>0, <1>7 DEF Emit
    <2>. QED  BY <2>1, ReaderReads
  <1>8. Tasked
    BY TaskedOnly
  <1>. QED
    BY <1>1, <1>2, <1>3, <1>5, <1>6, <1>7, <1>8 DEF Tasked

\* While the worker waits for a POST that was answered, it stays there or takes the answer.
LEMMA AnsweredStays ==
    ASSUME Typed, Ordered, [Next]_vars, ~Quits, pc = "posting", answer = "sse"
    PROVE  \/ pc' = "posting" /\ cur' = cur /\ answer' = "sse"
           \/ cur \in Requests /\ RequestAnswered(cur) /\ send'[cur] = "ok"
  <1>. USE Queues
  <1>1. CASE Elsewhere
    <2>1. UNCHANGED <<pc, cur>>
      BY <1>1, ElsewhereRests
    <2>2. answer' = "sse"
      <3>1. ASSUME NEW k \in Streams, Yield(k) \/ Break(k) \/ Retry(k) \/ Resume(k) \/ Finish(k)
            PROVE  UNCHANGED answer
        BY <3>1 DEF Yield, Break, Retry, Resume, Finish
      <3>2. CASE Handlers
        BY <3>2 DEF Handlers, AnswerLost, PostInitialize, AnswerInitialize, RemoveHandle, SendClose, DeleteFails,
           deleteLocal, PostFails, FindSession, AskForStream, PushMessage, Reply
      <3>3. CASE Session
        BY <3>3 DEF Session, OpenStream, TakeClientMessage, HandOver, TakeClose, SessionEnds, ServiceReceives,
           ServiceStops, Respond, Notify, Reply
      <3>4. UNCHANGED vars => UNCHANGED answer
        BY DEF vars
      <3>. QED  BY <1>1, <3>1, <3>2, <3>3, <3>4 DEF Elsewhere
    <2>. QED  BY <2>1, <2>2
  <1>2. CASE Receive \/ Close \/ Drop \/ \E m \in Msgs : Send(m)
    BY <1>2 DEF Receive, Close, Drop, Send
  <1>3. CASE \/ TakeMessage \/ InitializeAnswered \/ HandInitialize \/ InitializedAnswered
             \/ TakeServerMessage \/ Hand \/ AskForCommon \/ GetCommon \/ SkipCommon
    BY <1>3 DEF TakeMessage, Receiving, InitializeAnswered, Answered, HandInitialize, InitializedAnswered,
       TakeServerMessage, Hand, AskForCommon, GetCommon, SkipCommon
  <1>4. ASSUME NEW m \in Requests, RequestAnswered(m)
        PROVE  m = cur /\ send'[m] = "ok"
    BY <1>4 DEF RequestAnswered, Answered
  <1>. QED  BY <1>1, <1>2, <1>3, <1>4 DEF Next, Worker, Quits, Elsewhere

\* The worker asks for the common stream when initialized is through.
LEMMA AsksAfter ==
    ASSUME Typed, Ordered, [Next]_vars, ~Quits, pc' = "get_common"
    PROVE  pc = "get_common" \/ (InitializedAnswered /\ send[Initialized] = "queued")
  <1>1. CASE \/ TakeMessage \/ InitializeAnswered \/ HandInitialize \/ TakeServerMessage \/ Hand
             \/ GetCommon \/ SkipCommon \/ \E m \in Requests : RequestAnswered(m)
    BY <1>1 DEF TakeMessage, AfterPost, InitializeAnswered, HandInitialize, TakeServerMessage, Hand,
       GetCommon, SkipCommon, RequestAnswered
  <1>2. CASE AskForCommon \/ Receive \/ Close \/ Drop \/ Elsewhere \/ \E m \in Msgs : Send(m)
    BY <1>2, ElsewhereRests DEF AskForCommon, Receive, Close, Drop, Send
  <1>3. CASE InitializedAnswered
    BY <1>3, Queues DEF InitializedAnswered, Answered, Ordered, InSendOrder
  <1>. QED  BY <1>1, <1>2, <1>3 DEF Next, Worker, Quits, Elsewhere

LEMMA UntouchedSteps ==
    ASSUME Typed, Typed', Ordered, Unbroken, Untouched, [Next]_vars
    PROVE  Untouched'
  <1>. USE Queues
  <1>. SUFFICES ASSUME Alive' PROVE Untouched'
    BY DEF Untouched
  <1>0. Alive /\ ~Quits
    BY AliveBefore
  <1>s. Common \in Streams /\ Requests \subseteq Streams /\ Common \notin Requests
    BY StreamableHttpAssumption DEF Streams
  <1>1. ASSUME NEW m \in Requests
        PROVE  task'[m] = NoTask \/ send'[m] = "ok" \/ (pc' = "posting" /\ cur' = m /\ answer' = "sse")
    <2>1. CASE task[m] = NoTask
      BY <1>0, <1>s, <2>1, TaskMade
    <2>2. CASE send[m] = "ok"
      BY <2>2, OutcomesStay
    <2>3. CASE pc = "posting" /\ cur = m /\ answer = "sse"
      BY <1>0, <2>3, AnsweredStays
    <2>. QED  BY <1>0, <2>1, <2>2, <2>3 DEF Untouched
  <1>2. ASSUME NEW m \in Requests, m \notin ToSet(rcvd')
        PROVE  log'[m] = <<>>
    <2>1. m \notin ToSet(rcvd) /\ log[m] = <<>> /\ m # Common /\ m \in Streams
      BY <1>0, <1>s, <1>2, PlacesStay DEF Untouched
    <2>2. ASSUME NEW l \in Requests, Respond(l)
          PROVE  log'[m] = log[m]
      BY <2>1, <2>2, TypedParts DEF Respond, Emit
    <2>3. ASSUME NEW c \in Streams, Notify(c)
          PROVE  log'[m] = log[m]
      BY <2>1, <2>3, TypedParts DEF Notify, Emit
    <2>4. CASE \A l \in Requests : ~Respond(l)
      <3>1. CASE \A c \in Streams : ~Notify(c)
        <4>1. CASE \/ AtClient \/ TakeMessage
                   \/ PostInitialize \/ AnswerInitialize \/ RemoveHandle \/ SendClose
                   \/ \E l \in Msgs : PostFails(l) \/ FindSession(l) \/ AskForStream(l) \/ PushMessage(l)
                   \/ OpenStream \/ TakeClientMessage \/ HandOver \/ TakeClose \/ SessionEnds
                   \/ ServiceReceives \/ ServiceStops
          <5>1. UNCHANGED log
            BY <4>1, ClientOnly DEF TakeMessage, PostInitialize, AnswerInitialize, RemoveHandle, SendClose,
               deleteLocal, PostFails, FindSession, AskForStream, PushMessage, OpenStream, TakeClientMessage,
               HandOver, TakeClose, SessionEnds, ServiceReceives, ServiceStops
          <5>. QED  BY <2>1, <5>1
        <4>. QED  BY <2>4, <3>1, <4>1, StepKinds
      <3>. QED  BY <2>1, <2>3, <3>1
    <2>. QED  BY <2>1, <2>2, <2>4
  <1>3. ASSUME send'[Initialized] \in {"none", "queued"}
        PROVE  task'[Common] = NoTask
    <2>1. send[Initialized] \in {"none", "queued"}
      BY <1>3, OutcomesStay
    <2>2. task[Common] = NoTask /\ ~AskForCommon
      BY <1>0, <2>1 DEF Untouched, AskForCommon
    <2>. QED  BY <1>0, <1>s, <2>2, TaskMade
  <1>4. ASSUME pc' = "get_common"
        PROVE  /\ send'[Initialized] = "ok"
               /\ task'[Common] \in {NoTask, [NoTask EXCEPT !.st = "asking"]}
    <2>1. CASE InitializedAnswered /\ send[Initialized] = "queued"
      <3>1. send'[Initialized] = "ok" /\ task[Common] = NoTask /\ UNCHANGED task
        BY <1>0, <2>1 DEF Untouched, InitializedAnswered
      <3>. QED  BY <3>1
    <2>2. CASE pc = "get_common"
      <3>1. send[Initialized] = "ok" /\ task[Common] \in {NoTask, [NoTask EXCEPT !.st = "asking"]}
        BY <1>0, <2>2 DEF Untouched
      <3>2. send'[Initialized] = "ok"
        BY <3>1, OutcomesStay
      <3>3. CASE task[Common] = NoTask
        BY <1>0, <1>s, <3>2, <3>3, TaskMade
      <3>4. CASE task[Common] = [NoTask EXCEPT !.st = "asking"]
        <4>0. task \in [Streams -> TaskStates] /\ task[Common].st = "asking"
          BY <3>4, TypedParts DEF NoTask
        <4>1. ~AskForCommon /\ ~GetCommon
          BY <1>4, <4>0 DEF AskForCommon, GetCommon
        <4>2. ASSUME NEW m \in Requests, RequestAnswered(m) PROVE FALSE
          BY <2>2, <4>2 DEF RequestAnswered, Answered
        <4>3. ASSUME NEW m \in Msgs, PushMessage(m) PROVE task'[Common] = task[Common]
          BY <1>s, <2>2, <4>0, <4>3, PushBrings
        <4>4. ASSUME NEW j \in Streams, Yield(j) \/ Break(j) \/ Retry(j) \/ Resume(j) \/ Finish(j)
              PROVE  task'[Common] = task[Common]
          <5>1. j # Common /\ ~Resume(j)
            BY <2>2, <4>0, <4>4 DEF Yield, Break, Retry, Resume, Finish
          <5>. QED  BY <1>s, <4>0, <4>4, <5>1 DEF Yield, Break, Retry, Ask, Finish
        <4>5. ASSUME NEW c \in Streams, NEW e, Emit(c, e)
              PROVE  task'[Common] = task[Common]
          <5>1. reader[c] # Common
            BY <1>0, <1>s, <4>0, ReaderReads
          <5>. QED  BY <1>s, <4>0, <4>5, <5>1 DEF Emit
        <4>6. task'[Common] = task[Common]
          BY <1>0, <4>1, <4>2, <4>3, <4>4, <4>5, TaskedOnly DEF Tasked
        <4>. QED  BY <3>2, <3>4, <4>6
      <3>. QED  BY <3>1, <3>3, <3>4
    <2>. QED  BY <1>0, <1>4, <2>1, <2>2, AsksAfter
  <1>. QED  BY <1>1, <1>2, <1>3, <1>4 DEF Untouched


\* What is left behind stays so.
LEMMA BehindKept ==
    ASSUME Typed, Typed', Ordered, [Next]_vars, ToSet(Line) \subseteq ToSet(Line)',
           NEW c \in Streams, NEW b \in Nat, Behind(c, b)
    PROVE  Behind(c, b)'
  <1>1. PICK x \in Nat, y \in Nat : x = Evicted[c] /\ y = Evicted'[c] /\ x <= y
    BY MoreEvicted
  <1>2. ASSUME NEW n \in 1 .. b, ~(n < y)
        PROVE  <<c, n>> \in ToSet(Line)'
    <2>1. ~(n < x)
      BY <1>1, <1>2
    <2>2. <<c, n>> \in ToSet(Line)
      BY <1>1, <2>1 DEF Behind
    <2>. QED  BY <2>2
  <1>. QED  BY <1>1, <1>2 DEF Behind

LEMMA LastStays ==
    ASSUME Typed, Typed', Ordered, [Next]_vars, ToSet(Line) \subseteq ToSet(Line)',
           NEW k \in Streams, LastKept(k), task'[k].last = task[k].last
    PROVE  LastKept(k)'
  <1>. SUFFICES ASSUME task[k].last # None
                PROVE  task[k].last \in ToSet(Line)' /\ task[k].last[2] <= Len(log'[task[k].last[1]])
    BY DEF LastKept
  <1>1. task[k].last \in Event
    BY TypedParts, TaskFields
  <1>2. PICK c \in Streams, n \in Nat : c = task[k].last[1] /\ n = task[k].last[2]
    BY <1>1, BoundIsNumber DEF Event, Bound
  <1>3. PICK x \in Nat, y \in Nat : x = Len(log[c]) /\ y = Len(log'[c]) /\ x <= y
    BY MoreEvicted, LenProperties DEF Typed, TypeOK
  <1>4. n <= x /\ task[k].last \in ToSet(Line)
    BY <1>2, <1>3 DEF LastKept
  <1>. QED  BY <1>2, <1>3, <1>4

\* A step elsewhere leaves what a task is about to bring in its place.
LEMMA StaysSteady ==
    ASSUME Typed, Typed', Ordered, [Next]_vars, ToSet(Line) \subseteq ToSet(Line)',
           NEW k \in Streams, NEW b \in Nat, Continues(k, b), LastKept(k),
           task'[k].wire = task[k].wire, task'[k].reads = task[k].reads, task'[k].last = task[k].last,
           \A c \in Streams : reader'[c] = k => /\ reader[c] = k /\ Len(log'[c]) = Len(log[c])
                                                /\ task'[k].st \in {"none", "open"}
    PROVE  (\E n \in Nat : Continues(k, n)') /\ LastKept(k)'
  <1>1. /\ task[k].wire \in Seq(Event) /\ Len(task[k].wire) \in Nat
        /\ task[k].reads \in Streams \cup {None}
    BY TypedParts, TaskFields, LenProperties
  <1>2. /\ task'[k].reads = None => b = 0 /\ task'[k].wire = <<>>
        /\ \A i \in DOMAIN task'[k].wire : task'[k].wire[i] = <<task'[k].reads, b + i>>
        /\ \A c \in Streams : reader'[c] = k => /\ task'[k].reads = c /\ task'[k].st \in {"none", "open"}
                                                /\ b + Len(task'[k].wire) = Len(log'[c])
    BY DEF Continues
  <1>3. ASSUME task'[k].reads # None
        PROVE  Behind(task[k].reads, b)' /\ b + Len(task'[k].wire) <= Len(log'[task'[k].reads])
    <2>1. PICK c \in Streams : c = task[k].reads
      BY <1>1, <1>3
    <2>2. PICK x \in Nat, y \in Nat : x = Len(log[c]) /\ y = Len(log'[c]) /\ x <= y
      BY MoreEvicted, LenProperties DEF Typed, TypeOK
    <2>3. b + Len(task[k].wire) <= x /\ Behind(c, b)
      BY <1>3, <2>1, <2>2 DEF Continues
    <2>4. Behind(c, b)'
      BY <2>3, BehindKept
    <2>5. b + Len(task[k].wire) <= y
      BY <1>1, <2>2, <2>3
    <2>. QED  BY <2>1, <2>2, <2>4, <2>5 DEF Behind
  <1>4. Continues(k, b)'
    BY <1>2, <1>3 DEF Continues, Behind
  <1>. QED  BY <1>4, LastStays

\* A task that gives up its connection leaves nothing behind.
LEMMA StopsSteady ==
    ASSUME Typed, Typed', Ordered, [Next]_vars, ToSet(Line) \subseteq ToSet(Line)',
           NEW k \in Streams, LastKept(k),
           task'[k].wire = <<>>, task'[k].last = task[k].last, \A c \in Streams : reader'[c] # k
    PROVE  (\E n \in Nat : Continues(k, n)') /\ LastKept(k)'
  <1>1. task'[k].reads \in Streams \cup {None} /\ \A c \in Streams : Len(log'[c]) \in Nat
    BY TypedParts, TaskFields, LenProperties DEF Typed, TypeOK
  <1>2. task'[k].reads # None => 0 + Len(task'[k].wire) <= Len(log'[task'[k].reads])
    BY <1>1
  <1>3. Continues(k, 0)'
    BY <1>2 DEF Continues, Behind
  <1>. QED  BY <1>3, LastStays

\* What is yielded follows what the stream brought before.
LEMMA YieldsNext ==
    ASSUME Typed, Typed', Ordered, [Next]_vars, ToSet(Line) \subseteq ToSet(Line)',
           NEW k \in Streams, NEW b \in Nat, Continues(k, b), Yield(k),
           service # "dropped", Line' = Append(Line, Head(task[k].wire))
    PROVE  /\ Head(task[k].wire) \in Event
           /\ \A n \in 1 .. Head(task[k].wire)[2] - 1 :
                  n < Evicted[Head(task[k].wire)[1]] \/ <<Head(task[k].wire)[1], n>> \in ToSet(Line)
           /\ Continues(k, b + 1)' /\ LastKept(k)'
  <1>0. task \in [Streams -> TaskStates] /\ task[k] \in TaskStates
    BY TypedParts
  <1>1. PICK w \in Seq(Event) : w = task[k].wire /\ w # <<>>
    BY <1>0, TaskFields DEF Yield
  <1>2. PICK e \in Event : /\ e = Head(w) /\ e = w[1] /\ Tail(w) \in Seq(Event)
                           /\ Len(w) \in Nat \ {0} /\ Len(Tail(w)) = Len(w) - 1
                           /\ DOMAIN w = 1 .. Len(w) /\ DOMAIN Tail(w) = 1 .. Len(w) - 1
                           /\ \A i \in 1 .. Len(w) - 1 : Tail(w)[i] = w[i + 1]
    BY <1>1, Tailed
  <1>3. PICK r \in Streams : r = task[k].reads /\ e = <<r, b + 1>>
    <2>1. 1 \in DOMAIN w
      BY <1>2
    <2>2. e = <<task[k].reads, b + 1>>
      BY <1>1, <1>2, <2>1 DEF Continues
    <2>. QED  BY <2>2, <1>2 DEF Event
  <1>4. /\ task'[k].wire = Tail(w) /\ task'[k].last = e /\ task'[k].reads = r /\ task'[k].st = task[k].st
        /\ UNCHANGED <<log, reader>>
    BY <1>0, <1>1, <1>2, <1>3 DEF Yield, TaskStates
  <1>5. /\ Behind(r, b)
        /\ \A i \in 1 .. Len(w) : w[i] = <<r, b + i>>
        /\ b + Len(w) <= Len(log[r])
        /\ \A c \in Streams : reader[c] = k => /\ r = c /\ task[k].st \in {"none", "open"}
                                               /\ b + Len(w) = Len(log[c])
    BY <1>1, <1>2, <1>3, NobodyReads DEF Continues
  <1>6. e \in ToSet(Line)'
    <2>1. Line \in Seq(Event)
      BY LineTyped
    <2>2. ToSet(Append(Line, e)) = ToSet(Line) \cup {e}
      BY <2>1, Appended
    <2>. QED  BY <1>1, <1>2, <2>2 DEF ToSet
  <1>7. Len(log[r]) \in Nat
    BY LenProperties DEF Typed, TypeOK
  <1>8. Behind(r, b + 1)'
    <2>1. Behind(r, b)'
      BY <1>5, BehindKept
    <2>2. \A n \in 1 .. b + 1 : n \in 1 .. b \/ n = b + 1
      OBVIOUS
    <2>. QED  BY <1>3, <1>6, <2>1, <2>2 DEF Behind
  <1>9. Continues(k, b + 1)'
    <2>1. \A i \in DOMAIN Tail(w) : Tail(w)[i] = <<r, b + 1 + i>>
      <3>1. \A i \in 1 .. Len(w) - 1 : i + 1 \in 1 .. Len(w) /\ b + (i + 1) = b + 1 + i
        BY <1>2
      <3>. QED  BY <1>2, <1>5, <3>1
    <2>2. b + 1 + Len(Tail(w)) = b + Len(w)
      BY <1>2
    <2>3. task'[k].reads # None /\ Behind(task[k].reads, b + 1)'
      BY <1>3, <1>4, <1>8, NobodyReads DEF Behind
    <2>4. b + 1 + Len(task'[k].wire) <= Len(log'[task'[k].reads])
      BY <1>4, <1>5, <2>2
    <2>5. \A c \in Streams : reader'[c] = k => /\ task'[k].reads = c /\ task'[k].st \in {"none", "open"}
                                               /\ b + 1 + Len(task'[k].wire) = Len(log'[c])
      BY <1>4, <1>5, <2>2
    <2>6. \A i \in DOMAIN task'[k].wire : task'[k].wire[i] = <<task'[k].reads, b + 1 + i>>
      BY <1>4, <2>1
    <2>. QED  BY <2>3, <2>4, <2>5, <2>6 DEF Continues
  <1>10. LastKept(k)'
    <2>1. e[1] = r /\ e[2] = b + 1
      BY <1>3
    <2>2. b + 1 <= Len(log[r])
      BY <1>2, <1>5, <1>7
    <2>. QED  BY <1>4, <1>6, <2>1, <2>2 DEF LastKept
  <1>11. \A n \in 1 .. e[2] - 1 : n < Evicted[e[1]] \/ <<e[1], n>> \in ToSet(Line)
    BY <1>3, <1>5 DEF Behind
  <1>. QED  BY <1>1, <1>2, <1>9, <1>10, <1>11

\* A GET replays from an event that was yielded, from the oldest that is cached, or everything, up to
\* the end of the log.
LEMMA ConnectsSteady ==
    ASSUME Typed, Typed', Ordered, [Next]_vars, ToSet(Line) \subseteq ToSet(Line)', Unbroken, Alive,
           NEW k \in Streams, Connect(k), UNCHANGED log
    PROVE  (\E n \in Nat : Continues(k, n)') /\ LastKept(k)'
  <1>0. task \in [Streams -> TaskStates] /\ task[k] \in TaskStates /\ task[k].last \in Event \cup {None}
        /\ reader \in [Streams -> Streams \cup {None}] /\ LastKept(k)
    BY TypedParts, TaskFields DEF Unbroken
  <1>1. LogsFit
    BY DistinctLogsFit DEF Typed, TypeOK, Ordered, LogsDistinct, LogsFit
  <1>2. PICK c \in {Common} \cup pending, n \in Nat, w \in Seq(Event) :
               /\ c = IF task[k].last = None THEN Common ELSE task[k].last[1]
               /\ n >= 1 /\ (n = First(task[k].last) \/ n = Oldest(c)) /\ Oldest(c) <= n
               /\ w = [i \in 1 .. Len(log[c]) + 1 - n |-> <<c, n + i - 1>>]
               /\ reader' = [reader EXCEPT ![c] = k]
               /\ task' = [task EXCEPT ![k].st = "open", ![k].reads = c, ![k].wire = w]
               /\ c \in Streams
    BY <1>1, ConnectBrings
  <1>3. /\ task'[k].wire = w /\ task'[k].reads = c /\ task'[k].st = "open" /\ task'[k].last = task[k].last
    BY <1>0, <1>2 DEF TaskStates
  <1>4. PICK x \in Nat, o \in Nat \ {0} : x = Len(log[c]) /\ o = Oldest(c) /\ o = Evicted[c] /\ o <= x + 1
    BY <1>2, OldestOf
  <1>5. n <= x + 1 /\ \A i \in 1 .. n - 1 : i < Evicted[c] \/ <<c, i>> \in ToSet(Line)
    <2>1. CASE n = o
      BY <1>4, <2>1
    <2>2. CASE task[k].last = None /\ n # o
      <3>1. n = 1
        BY <1>2, <1>4, <2>2 DEF First
      <3>. QED  BY <1>4, <3>1
    <2>3. CASE task[k].last # None /\ n # o
      <3>1. PICK e \in Event : e = task[k].last
        BY <1>0, <2>3
      <3>2. n = e[2] /\ c = e[1] /\ e \in ToSet(Line) /\ n <= x
        BY <1>0, <1>2, <1>4, <2>3, <3>1 DEF First, LastKept
      <3>3. InLine(Line, Evicted) /\ Line \in Seq(Event) /\ DOMAIN Line = 1 .. Len(Line) /\ Len(Line) \in Nat
        BY LineTyped, LenProperties DEF Unbroken, Alive
      <3>4. PICK j \in 1 .. Len(Line) : Line[j] = e
        BY <3>2, <3>3 DEF ToSet
      <3>5. ASSUME NEW i \in 1 .. n - 1, ~(i < Evicted[c])
            PROVE  <<c, i>> \in ToSet(Line)
        <4>1. PICK y \in 1 .. j - 1 : Line[y] = <<c, i>>
          BY <3>2, <3>3, <3>4, <3>5 DEF InLine
        <4>2. y \in DOMAIN Line
          BY <3>3
        <4>. QED  BY <4>1, <4>2 DEF ToSet
      <3>. QED  BY <3>2, <3>5
    <2>. QED  BY <2>1, <2>2, <2>3
  <1>6. PICK b \in Nat : b + 1 = n
    <2>1. \A y \in Nat : y >= 1 => y - 1 \in Nat /\ (y - 1) + 1 = y
      OBVIOUS
    <2>. QED  BY <1>2, <2>1
  <1>7. PICK l \in Nat : l = x + 1 - n
    <2>1. \A y, z \in Nat : z <= y + 1 => y + 1 - z \in Nat
      OBVIOUS
    <2>. QED  BY <1>5, <2>1
  <1>8. Len(w) = l /\ DOMAIN w = 1 .. l /\ \A i \in 1 .. l : w[i] = <<c, b + i>>
    <2>1. DOMAIN w = 1 .. l /\ \A i \in 1 .. l : w[i] = <<c, n + i - 1>>
      BY <1>2, <1>4, <1>7
    <2>2. DOMAIN w = 1 .. Len(w) /\ Len(w) \in Nat
      BY LenProperties
    <2>3. \A i \in 1 .. l : n + i - 1 = b + i
      BY <1>6
    <2>4. Len(w) = l
      <3>1. 1 .. l = 1 .. Len(w)
        BY <2>1, <2>2
      <3>2. Cardinality(1 .. l) = l /\ Cardinality(1 .. Len(w)) = Len(w)
        <4>1. \A y \in Nat : Cardinality(1 .. y) = y
          BY FS_Interval
        <4>. QED  BY <2>2, <4>1
      <3>. QED  BY <3>1, <3>2
    <2>. QED  BY <2>1, <2>3, <2>4
  <1>9. b + l = x /\ 1 .. b = 1 .. n - 1
    BY <1>6, <1>7
  <1>10. Continues(k, b)'
    <2>1. \A d \in Streams : reader'[d] = k => d = c
      <3>1. task[k].st = "asking"
        BY DEF Connect
      <3>2. \A d \in Streams : reader[d] # k
        BY <3>1, ReaderReads
      <3>. QED  BY <1>0, <1>2, <3>2
    <2>2. Behind(c, b)'
      <3>1. Behind(c, b)
        BY <1>5, <1>9 DEF Behind
      <3>. QED  BY <1>2, <3>1, BehindKept
    <2>3. task'[k].reads # None /\ Behind(task[k].reads, b)'
      BY <1>2, <1>3, <2>2, NobodyReads DEF Behind
    <2>4. b + Len(task'[k].wire) <= Len(log'[task'[k].reads])
      BY <1>3, <1>4, <1>8, <1>9
    <2>5. \A i \in DOMAIN task'[k].wire : task'[k].wire[i] = <<task'[k].reads, b + i>>
      BY <1>3, <1>8
    <2>6. \A d \in Streams : reader'[d] = k => /\ task'[k].reads = d /\ task'[k].st \in {"none", "open"}
                                               /\ b + Len(task'[k].wire) = Len(log'[d])
      BY <1>3, <1>4, <1>8, <1>9, <2>1
    <2>. QED  BY <2>3, <2>4, <2>5, <2>6 DEF Continues
  <1>11. LastKept(k)'
    BY <1>0, <1>3, LastStays
  <1>. QED  BY <1>10, <1>11

\* The task that reads a log gets the new entry behind what it has.
LEMMA EmitsSteady ==
    ASSUME Typed, Typed', Ordered, [Next]_vars, ToSet(Line) \subseteq ToSet(Line)', LogsFit', Unbroken, Alive,
           NEW c \in Streams, NEW e \in Requests \cup Notes, Emit(c, e),
           \A d \in Streams : reader'[d] \in {reader[d], None},
           NEW k \in Streams, NEW b \in Nat, Continues(k, b), LastKept(k)
    PROVE  (\E n \in Nat : Continues(k, n)') /\ LastKept(k)'
  <1>0. /\ task \in [Streams -> TaskStates] /\ task[k] \in TaskStates
        /\ task[k].wire \in Seq(Event) /\ log \in [Streams -> Seq(Requests \cup Notes)]
        /\ log[c] \in Seq(Requests \cup Notes) /\ Len(log[c]) \in Nat
        /\ reader \in [Streams -> Streams \cup {None}]
    BY TypedParts, TaskFields, LenProperties
  <1>1. /\ log' = [log EXCEPT ![c] = Append(@, e)]
        /\ Len(log'[c]) = Len(log[c]) + 1 /\ \A d \in Streams \ {c} : log'[d] = log[d]
    BY <1>0, Appended DEF Emit
  <1>2. \A d \in Streams : reader'[d] = k => reader[d] = k
    BY NobodyReads
  <1>3. CASE reader[c] # k
    <2>1. task'[k] = task[k]
      BY <1>0, <1>3 DEF Emit
    <2>2. \A d \in Streams : reader'[d] = k => /\ reader[d] = k /\ Len(log'[d]) = Len(log[d])
                                               /\ task'[k].st \in {"none", "open"}
      BY <1>1, <1>2, <1>3, <2>1 DEF Continues
    <2>. QED  BY <2>1, <2>2, StaysSteady
  <1>4. CASE reader[c] = k
    <2>1. PICK w \in Seq(Event), l \in Nat, x \in Nat : w = task[k].wire /\ l = Len(w) /\ x = Len(log[c])
      BY <1>0, LenProperties
    <2>2. /\ task[k].reads = c /\ task[k].st \in {"none", "open"} /\ b + l = x
          /\ Behind(c, b)
          /\ \A i \in DOMAIN w : w[i] = <<c, b + i>>
      BY <1>4, <2>1, NobodyReads DEF Continues
    <2>3. PICK y : y = <<c, x + 1>>
      OBVIOUS
    <2>4. /\ task'[k].wire = Append(w, y) /\ task'[k].reads = c /\ task'[k].st = task[k].st
          /\ task'[k].last = task[k].last
      BY <1>0, <1>4, <2>1, <2>2, <2>3, NobodyReads DEF Emit, TaskStates
    <2>5. y \in Event
      BY <2>1, <2>3, EmitTypes
    <2>6. /\ Len(Append(w, y)) = l + 1 /\ DOMAIN Append(w, y) = 1 .. l + 1
          /\ DOMAIN w = 1 .. l /\ \A i \in 1 .. l : Append(w, y)[i] = w[i]
          /\ Append(w, y)[l + 1] = y
      BY <2>1, <2>5, Appended
    <2>7. b + (l + 1) = x + 1
      <3>1. b \in Nat /\ l \in Nat /\ x \in Nat /\ b + l = x
        BY <2>1, <2>2
      <3>. QED  BY <3>1
    <2>8. ASSUME NEW i \in DOMAIN Append(w, y)
          PROVE  Append(w, y)[i] = <<c, b + i>>
      <3>1. i \in 1 .. l \/ i = l + 1
        BY <2>6, UpToNext
      <3>2. CASE i \in 1 .. l
        BY <2>2, <2>6, <3>2
      <3>3. CASE i = l + 1
        BY ZenonT(20), <2>3, <2>6, <2>7, <3>3
      <3>. QED  BY <3>1, <3>2, <3>3
    <2>9. b + Len(task'[k].wire) = Len(log'[c]) /\ Len(log'[c]) = x + 1
      BY <1>1, <2>1, <2>4, <2>6, <2>7
    <2>10. \A d \in Streams : reader'[d] = k => d = c
      BY <1>2, <1>4, ReaderReads
    <2>11. Behind(c, b)'
      BY <2>2, BehindKept
    <2>12. Continues(k, b)'
      <3>1. task'[k].reads # None /\ Behind(task[k].reads, b)'
        BY <2>4, <2>11, NobodyReads DEF Behind
      <3>2. b + Len(task'[k].wire) <= Len(log'[task'[k].reads])
        BY <2>1, <2>4, <2>9
      <3>3. \A i \in DOMAIN task'[k].wire : task'[k].wire[i] = <<task'[k].reads, b + i>>
        BY <2>4, <2>8
      <3>4. \A d \in Streams : reader'[d] = k => /\ task'[k].reads = d /\ task'[k].st \in {"none", "open"}
                                                 /\ b + Len(task'[k].wire) = Len(log'[d])
        BY <2>2, <2>4, <2>9, <2>10
      <3>. QED  BY <3>1, <3>2, <3>3, <3>4 DEF Continues
    <2>. QED  BY <2>4, <2>12, LastStays
  <1>. QED  BY <1>3, <1>4

LEMMA StaysPut ==
    ASSUME Typed, Typed', Ordered, [Next]_vars, ToSet(Line) \subseteq ToSet(Line)',
           NEW k \in Streams, NEW b \in Nat, Continues(k, b), LastKept(k), UNCHANGED log,
           task'[k].wire = task[k].wire, task'[k].reads = task[k].reads, task'[k].last = task[k].last,
           \A c \in Streams : reader'[c] = k => reader[c] = k /\ task'[k].st \in {task[k].st, "open"}
    PROVE  (\E n \in Nat : Continues(k, n)') /\ LastKept(k)'
  <1>1. \A c \in Streams : reader'[c] = k => /\ reader[c] = k /\ Len(log'[c]) = Len(log[c])
                                             /\ task'[k].st \in {"none", "open"}
    BY DEF Continues
  <1>. QED  BY <1>1, StaysSteady

\* A message is queued for the first time: its stream is new.
LEMMA FirstPushed ==
    ASSUME Typed, Ordered, Untouched, Alive, NEW m \in Requests, PushMessage(m),
           pc = "posting", cur = m, answer = "none"
    PROVE  task[m] = NoTask /\ log[m] = <<>>
  <1>. USE Queues
  <1>1. send[m] = "queued" /\ m # Initialize /\ m \in Msgs
    BY DEF Ordered, InSendOrder
  <1>2. post[m] # "none"
    BY <1>1 DEF PushMessage, Reaches
  <1>3. m \notin ToSet(rcvd)
    BY <1>1, <1>2 DEF Ordered, InPlace, Once, Places, Reached
  <1>. QED  BY <1>1, <1>3 DEF Untouched

\* The task of a stream goes on with what it brings, whoever takes a step.
LEMMA TasksSteady ==
    ASSUME Typed, Typed', Ordered, [Next]_vars, ToSet(Line) \subseteq ToSet(Line)', LogsFit', Unbroken,
           Untouched, Alive, ~Quits, service' # "dropped",
           NEW k \in Streams
    PROVE  (\E n \in Nat : Continues(k, n)') /\ LastKept(k)'
  <1>. USE Queues
  <1>0. /\ task \in [Streams -> TaskStates] /\ reader \in [Streams -> Streams \cup {None}]
        /\ log \in [Streams -> Seq(Requests \cup Notes)] /\ k # None
    BY TypedParts, NobodyReads
  <1>1. PICK b \in Nat : Continues(k, b)
    BY DEF Unbroken
  <1>2. LastKept(k)
    BY DEF Unbroken
  <1>3. ASSUME NEW j \in Streams, Yield(j)
        PROVE  (\E n \in Nat : Continues(k, n)') /\ LastKept(k)'
    <2>1. CASE k = j
      <3>1. Line' = Append(Line, Head(task[k].wire))
        BY <1>3, <2>1, YieldAdds DEF Alive
      <3>2. Continues(k, b + 1)' /\ LastKept(k)' /\ b + 1 \in Nat
        BY <1>1, <1>3, <2>1, <3>1, YieldsNext DEF Alive
      <3>. QED  BY <3>2
    <2>2. CASE k # j
      <3>1. task'[k] = task[k] /\ UNCHANGED <<log, reader>>
        BY <1>0, <1>3, <2>2 DEF Yield
      <3>. QED  BY <1>1, <1>2, <3>1, StaysPut
    <2>. QED  BY <2>1, <2>2
  <1>4. ASSUME NEW j \in Streams, Break(j) \/ Finish(j)
        PROVE  (\E n \in Nat : Continues(k, n)') /\ LastKept(k)'
    <2>1. UNCHANGED log /\ reader' = Leave(j)
      BY <1>4 DEF Break, Finish
    <2>2. CASE k = j
      <3>1. \A c \in Streams : reader'[c] # k
        BY <1>0, <2>1, <2>2 DEF Leave
      <3>2. task'[k].wire = <<>> /\ task'[k].last = task[k].last
        <4>1. CASE Break(j)
          BY <1>0, <2>2, <4>1 DEF Break, TaskStates
        <4>2. CASE Finish(j)
          BY <1>0, <2>2, <4>2 DEF Finish, Stopped, TaskStates
        <4>. QED  BY <1>4, <4>1, <4>2
      <3>. QED  BY <1>2, <3>1, <3>2, StopsSteady
    <2>3. CASE k # j
      <3>1. task'[k] = task[k] /\ \A c \in Streams : reader'[c] = k => reader[c] = k
        BY <1>0, <1>4, <2>1, <2>3 DEF Break, Finish, Leave
      <3>. QED  BY <1>1, <1>2, <2>1, <3>1, StaysPut
    <2>. QED  BY <2>1, <2>2, <2>3
  <1>5. ASSUME NEW j \in Streams, Connect(j), UNCHANGED log
        PROVE  (\E n \in Nat : Continues(k, n)') /\ LastKept(k)'
    <2>1. CASE k = j
      BY <1>5, <2>1, ConnectsSteady
    <2>2. CASE k # j
      <3>1. task'[k] = task[k] /\ \A c \in Streams : reader'[c] = k => reader[c] = k
        BY <1>0, <1>5, <2>2 DEF Connect
      <3>. QED  BY <1>1, <1>2, <1>5, <3>1, StaysPut
    <2>. QED  BY <2>1, <2>2
  <1>6. ASSUME NEW j \in Streams, Ask(j), UNCHANGED <<log, reader>>, task[j].st = "retrying" \/ task[j] = NoTask
        PROVE  (\E n \in Nat : Continues(k, n)') /\ LastKept(k)'
    <2>1. /\ task'[k].wire = task[k].wire /\ task'[k].reads = task[k].reads /\ task'[k].last = task[k].last
          /\ k # j => task'[k] = task[k]
      BY <1>0, <1>6 DEF Ask, TaskStates
    <2>2. \A c \in Streams : reader'[c] = k => reader[c] = k /\ k # j
      <3>1. task[j].st = "retrying" \/ task[j] = NoTask
        BY <1>6
      <3>. QED  BY <1>6, <3>1, ReaderReads
    <2>. QED  BY <1>1, <1>2, <1>6, <2>1, <2>2, StaysPut
  <1>7. ASSUME NEW m \in Msgs, PushMessage(m)
        PROVE  (\E n \in Nat : Continues(k, n)') /\ LastKept(k)'
    <2>1. UNCHANGED log
      BY <1>7 DEF PushMessage
    <2>2. CASE UNCHANGED <<task, reader>>
      BY <1>1, <1>2, <2>1, <2>2, StaysPut
    <2>3. CASE /\ m \in Requests /\ pc = "posting" /\ cur = m /\ answer = "none"
               /\ reader' = [reader EXCEPT ![m] = m] /\ task' = [task EXCEPT ![m].reads = m]
      <3>1. task[m] = NoTask /\ log[m] = <<>> /\ m \in Streams
        BY <1>7, <2>3, FirstPushed DEF Streams
      <3>2. CASE k = m
        <4>1. /\ task'[k].wire = <<>> /\ task'[k].reads = m /\ task'[k].last = None /\ task'[k].st = "none"
          BY <1>0, <2>3, <3>1, <3>2 DEF NoTask
        <4>2. \A c \in Streams : reader'[c] = k => c = m
          BY <1>0, <2>3, <3>1, <3>2, ReaderReads
        <4>3. Len(task'[k].wire) = 0 /\ Len(log'[m]) = 0
          BY <2>1, <3>1, <4>1, EmptySeq
        <4>4. Continues(k, 0)'
          <5>1. 0 + Len(task'[k].wire) <= Len(log'[task'[k].reads])
            BY <4>1, <4>3
          <5>2. \A c \in Streams : reader'[c] = k =>
                    /\ task'[k].reads = c /\ task'[k].st \in {"none", "open"}
                    /\ 0 + Len(task'[k].wire) = Len(log'[c])
            BY <4>1, <4>2, <4>3
          <5>. QED  BY <4>1, <5>1, <5>2, StreamableHttpAssumption DEF Continues, Behind
        <4>5. LastKept(k)'
          BY <4>1 DEF LastKept
        <4>. QED  BY <4>4, <4>5
      <3>3. CASE k # m
        <4>1. task'[k] = task[k] /\ \A c \in Streams : reader'[c] = k => reader[c] = k
          BY <1>0, <2>3, <3>3
        <4>. QED  BY <1>1, <1>2, <2>1, <4>1, StaysPut
      <3>. QED  BY <3>2, <3>3
    <2>. QED  BY <1>7, <2>2, <2>3, PushBrings
  <1>8. ASSUME NEW m \in Requests, RequestAnswered(m)
        PROVE  (\E n \in Nat : Continues(k, n)') /\ LastKept(k)'
    <2>1. UNCHANGED <<log, reader>> /\ (UNCHANGED task \/ task' = [task EXCEPT ![m].st = "open"])
      BY <1>8 DEF RequestAnswered
    <2>2. /\ task'[k].wire = task[k].wire /\ task'[k].reads = task[k].reads /\ task'[k].last = task[k].last
          /\ task'[k].st \in {task[k].st, "open"}
      <3>1. CASE UNCHANGED task
        BY <3>1
      <3>2. CASE task' = [task EXCEPT ![m].st = "open"]
        BY <1>0, <3>2 DEF TaskStates
      <3>. QED  BY <2>1, <3>1, <3>2
    <2>. QED  BY <1>1, <1>2, <2>1, <2>2, StaysPut
  <1>9. ASSUME NEW c \in Streams, NEW e \in Requests \cup Notes, Emit(c, e)
        PROVE  (\E n \in Nat : Continues(k, n)') /\ LastKept(k)'
    <2>1. \A d \in Streams : reader'[d] \in {reader[d], None}
      BY <1>9, EmitLeaves
    <2>. QED  BY <1>1, <1>2, <1>9, <2>1, EmitsSteady
  <1>10. CASE ~Tasked
    <2>1. UNCHANGED <<task, log>> /\ \A c \in Streams : reader'[c] \in {reader[c], None}
      BY <1>10, TaskedOnly
    <2>. QED  BY <1>0, <1>1, <1>2, <2>1, StaysPut
  <1>11. CASE AskForCommon
    <2>1. task[Common] = NoTask
      <3>1. task[Common] # [NoTask EXCEPT !.st = "asking"]
        BY <1>11 DEF AskForCommon, NoTask
      <3>. QED  BY <1>11, <3>1 DEF Untouched, AskForCommon
    <2>2. Ask(Common) /\ UNCHANGED <<log, reader>> /\ Common \in Streams
      BY <1>11 DEF AskForCommon, Streams
    <2>. QED  BY <1>6, <2>1, <2>2
  <1>12. CASE GetCommon
    BY <1>5, <1>12 DEF GetCommon, Streams
  <1>13. ASSUME NEW j \in Streams, Retry(j) \/ Resume(j)
         PROVE  (\E n \in Nat : Continues(k, n)') /\ LastKept(k)'
    <2>1. CASE Retry(j)
      BY <1>6, <2>1 DEF Retry
    <2>2. CASE Resume(j)
      BY <1>5, <2>2 DEF Resume
    <2>. QED  BY <1>13, <2>1, <2>2
  <1>. QED
    BY <1>3, <1>4, <1>7, <1>8, <1>9, <1>10, <1>11, <1>12, <1>13 DEF Tasked

LEMMA UnbrokenSteps ==
    ASSUME Typed, Typed', Ordered, LogsFit', Unbroken, Untouched, [Next]_vars
    PROVE  Unbroken'
  <1>. USE Queues
  <1>0. PICK old, more : /\ old = Evicted /\ more = Evicted'
                         /\ \A c \in Streams : old[c] \in Nat /\ more[c] \in Nat /\ old[c] <= more[c]
    BY MoreEvicted
  <1>1. service' # "dropped" => InLine(Line', more) /\ Line' \in Seq(Event)
    <2>. SUFFICES ASSUME service' # "dropped" PROVE InLine(Line', more) /\ Line' \in Seq(Event)
      OBVIOUS
    <2>1. service # "dropped"
      BY AliveBefore
    <2>2. PICK q \in Seq(Event) : q = Line /\ InLine(q, old)
      BY <1>0, <2>1, LineTyped DEF Unbroken
    <2>3. CASE UNCHANGED Line
      <3>1. InLine(q, more)
        BY <1>0, <2>2, LineKept
      <3>. QED  BY <2>2, <2>3, <3>1
    <2>4. ASSUME NEW k \in Streams, Yield(k), Line' = Append(Line, Head(task[k].wire))
          PROVE  InLine(Line', more) /\ Line' \in Seq(Event)
      <3>1. Alive
        <4>1. task[k].st = "open"
          BY <2>4 DEF Yield
        <4>. QED  BY <2>1, <4>1, TypedParts DEF Alive, TasksDone
      <3>2. PICK b \in Nat : Continues(k, b)
        BY <3>1 DEF Unbroken
      <3>3. ToSet(Line) \subseteq ToSet(Line)'
        <4>1. Head(task[k].wire) \in Event
          BY <2>4, TypedParts, TaskFields, Tailed DEF Yield
        <4>2. ToSet(Append(q, Head(task[k].wire))) = ToSet(q) \cup {Head(task[k].wire)}
          BY <4>1, Appended
        <4>3. ToSet(Line)' = ToSet(Append(q, Head(task[k].wire)))
          BY <2>2, <2>4 DEF ToSet
        <4>. QED  BY <2>2, <4>2, <4>3
      <3>4. PICK e \in Event : /\ e = Head(task[k].wire)
                               /\ \A n \in 1 .. e[2] - 1 : n < old[e[1]] \/ <<e[1], n>> \in ToSet(q)
        BY <1>0, <2>1, <2>2, <2>4, <3>2, <3>3, YieldsNext
      <3>5. InLine(Append(q, e), old) /\ Append(q, e) \in Seq(Event)
        BY <2>2, <3>4, LineGrows, Appended
      <3>6. InLine(Append(q, e), more)
        BY <1>0, <3>5, LineKept
      <3>7. Line' = Append(q, e)
        BY <2>2, <2>4, <3>4
      <3>. QED  BY <3>5, <3>6, <3>7
    <2>5. ASSUME NEW s \in Seq(Event), NEW t \in Seq(Event), Line' = s, Line = s \o t
          PROVE  InLine(Line', more) /\ Line' \in Seq(Event)
      <3>1. InLine(s, old)
        BY <2>2, <2>5, LineCut
      <3>2. InLine(s, more)
        BY <1>0, <3>1, LineKept
      <3>. QED  BY <2>5, <3>2
    <2>. QED  BY <2>2, <2>3, <2>4, <2>5, LineSteps
  <1>2. InLine(got', more)
    <2>1. CASE UNCHANGED got
      <3>1. PICK g \in Seq(Event) : g = got /\ InLine(g, old)
        BY <1>0 DEF Unbroken
      <3>2. InLine(g, more)
        BY <1>0, <3>1, LineKept
      <3>. QED  BY <2>1, <3>1, <3>2
    <2>2. CASE Receive /\ service = "running"
      <3>1. /\ service' = "running" /\ toHandler \in Seq(Event) /\ toHandler # <<>>
            /\ toHandler' = Tail(toHandler) /\ got' = Append(got, Head(toHandler))
            /\ UNCHANGED <<pc, cur, sse>>
        BY <2>2 DEF Receive, Typed, HandshakeInOrder
      <3>2. PICK g \in Seq(Event), t \in Seq(Event) : g = got' /\ t = Tail(toHandler)
        BY <3>1, Tailed, Appended
      <3>3. PICK h \in Seq(Event), s \in Seq(Event) : h = Held /\ s = sse
        BY <2>2, LineTyped
      <3>4. Given' = t /\ Held' = h /\ sse' = s
        BY <3>1, <3>2, <3>3 DEF Given, Held, Early
      <3>5. Line' = ((g \o t) \o h) \o s
        BY <3>2, <3>4 DEF Line
      <3>6. InLine(((g \o t) \o h) \o s, more)
        BY <1>1, <3>1, <3>5
      <3>7. g \o t \in Seq(Event) /\ (g \o t) \o h \in Seq(Event)
        BY ConcatProperties
      <3>8. InLine((g \o t) \o h, more)
        BY <3>6, <3>7, LineCut
      <3>9. InLine(g \o t, more)
        BY <3>7, <3>8, LineCut
      <3>10. InLine(g, more)
        BY <3>9, LineCut
      <3>. QED  BY <3>2, <3>10
    <2>3. ASSUME ~(Receive /\ service = "running") PROVE UNCHANGED got
      <3>1. Receive => UNCHANGED got
        BY <2>3 DEF Receive
      <3>2. ASSUME Close \/ Drop \/ \E m \in Msgs : Send(m) PROVE UNCHANGED got
        BY <3>2 DEF Close, Drop, Send
      <3>3. Quits => UNCHANGED got
        BY QuitsQuit DEF Quit
      <3>4. ASSUME \/ TakeMessage \/ InitializeAnswered \/ HandInitialize \/ InitializedAnswered
                   \/ TakeServerMessage \/ Hand \/ AskForCommon \/ GetCommon \/ SkipCommon
                   \/ \E m \in Requests : RequestAnswered(m)
            PROVE  UNCHANGED got
        BY <3>4 DEF TakeMessage, InitializeAnswered, HandInitialize, InitializedAnswered,
                    TakeServerMessage, Hand, AskForCommon, GetCommon, SkipCommon, RequestAnswered
      <3>5. Elsewhere => UNCHANGED got
        BY ElsewhereRests
      <3>. QED  BY <3>1, <3>2, <3>3, <3>4, <3>5 DEF Next, Worker, Quits, Elsewhere
    <2>. QED  BY <2>1, <2>2, <2>3
  <1>3. ASSUME Alive', NEW k \in Streams
        PROVE  (\E b \in Nat : Continues(k, b)') /\ LastKept(k)'
    <2>1. Alive /\ ~Quits /\ service' # "dropped" /\ Line \in Seq(Event)
      BY <1>3, AliveBefore, LineTyped DEF Alive
    <2>2. ToSet(Line) \subseteq ToSet(Line)'
      <3>1. CASE UNCHANGED Line
        BY <3>1 DEF ToSet
      <3>2. ASSUME NEW j \in Streams, Yield(j), Line' = Append(Line, Head(task[j].wire))
            PROVE  ToSet(Line) \subseteq ToSet(Line)'
        <4>1. task[j].wire \in Seq(Event) /\ task[j].wire # <<>>
          BY <3>2, TypedParts, TaskFields DEF Yield
        <4>2. ToSet(Append(Line, Head(task[j].wire))) = ToSet(Line) \cup {Head(task[j].wire)}
          BY <2>1, <4>1, Tailed, Appended
        <4>3. ToSet(Line)' = ToSet(Append(Line, Head(task[j].wire)))
          BY <3>2 DEF ToSet
        <4>. QED  BY <4>2, <4>3
      <3>. QED  BY <2>1, <3>1, <3>2, LineSteps
    <2>. QED  BY <2>1, <2>2, TasksSteady
  <1>4. InLine(got, Evicted)' /\ (service' # "dropped" => InLine(Line, Evicted)')
    BY <1>0, <1>1, <1>2 DEF InLine
  <1>. QED  BY <1>3, <1>4 DEF Unbroken

LEMMA FirstUnbroken == Init => Unbroken /\ Untouched
  <1>. SUFFICES ASSUME Init PROVE Unbroken /\ Untouched
    OBVIOUS
  <1>1. /\ got = <<>> /\ sse = <<>> /\ pc = "wait_initialize" /\ service = "new"
        /\ \A k \in Streams : task[k] = NoTask /\ reader[k] = None /\ log[k] = <<>>
        /\ Common \in Streams /\ Requests \subseteq Streams
    BY DEF Init, Streams
  <1>2. Line = <<>> /\ DOMAIN Line = {}
    <2>1. Given = <<>> /\ Held = <<>>
      BY <1>1 DEF Given, Held, Early
    <2>. QED  BY <1>1, <2>1 DEF Line
  <1>3. InLine(got, Evicted) /\ InLine(Line, Evicted)
    BY <1>1, <1>2 DEF InLine
  <1>4. ASSUME NEW k \in Streams PROVE Continues(k, 0) /\ LastKept(k)
    BY <1>1, NobodyReads DEF Continues, LastKept, NoTask
  <1>5. Untouched
    BY <1>1 DEF Untouched
  <1>. QED  BY <1>3, <1>4, <1>5 DEF Unbroken

\* However often streams break, the client's service is given an event of a stream only after all
\* events before it, but for those that the cache of the stream has evicted: the tasks yield into one
\* channel what follows what they yielded, a reconnection replays from an event already yielded or
\* from the oldest that is cached, and the worker that quits cuts off only the end of the line
\* (client_side_sse.rs 148-182, session.rs 105-145, streamable_http_client.rs 333-457).
THEOREM EventsInLine == Spec => []NothingSkipped
  <1>1. Typed /\ Ordered /\ Unbroken /\ Untouched /\ [Next]_vars
            => Typed' /\ Ordered' /\ Unbroken' /\ Untouched'
    <2>. SUFFICES ASSUME Typed, Ordered, Unbroken, Untouched, [Next]_vars
                  PROVE  Typed' /\ Ordered' /\ Unbroken' /\ Untouched'
      OBVIOUS
    <2>1. Typed' /\ Ordered'
      BY TypedSteps
    <2>2. LogsFit'
      <3>1. /\ log' \in [Streams -> Seq(Requests \cup Notes)]
            /\ \A c \in Streams : \A i, j \in DOMAIN log'[c] : log'[c][i] = log'[c][j] => i = j
        BY <2>1 DEF Typed, TypeOK, Ordered, LogsDistinct
      <3>. QED  BY <3>1, DistinctLogsFit DEF LogsFit
    <2>. QED  BY <2>1, <2>2, UnbrokenSteps, UntouchedSteps
  <1>2. Typed /\ Unbroken => NothingSkipped
    <2>. SUFFICES ASSUME Typed, Unbroken, NEW i \in DOMAIN got, NEW n \in 1 .. got[i][2] - 1
                  PROVE  n < Oldest(got[i][1]) \/ \E j \in 1 .. i - 1 : got[j] = <<got[i][1], n>>
      BY DEF NothingSkipped
    <2>1. got[i] \in Event
      BY Queues, ElementOfSeq
    <2>2. PICK c \in Streams : c = got[i][1]
      BY <2>1 DEF Event
    <2>3. Evicted[c] = Oldest(c)
      BY DEF Evicted
    <2>. QED  BY <2>2, <2>3 DEF Unbroken, InLine
  <1>. QED  BY <1>1, <1>2, FirstTyped, FirstUnbroken, PTL DEF Spec
=============================================================================
