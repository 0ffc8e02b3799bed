------------------------ MODULE StreamableSessionProofs ------------------------
(***************************************************************************)
(* What holds of a streamable HTTP session for any number of POSTs and     *)
(* requests, any capacity of its channels and any number of messages.      *)
(***************************************************************************)
EXTENDS StreamableSession, FiniteSetTheorems, SequenceTheorems, TLAPS

USE DEF httpVars, routeVars, streamVars, serviceVars

\* ---- the http request ids
\* The requests of a POST ask for one stream, once: it is asked for while the POST waits for it,
\* and its id is one of those already given.  Fewer ids are given than there are POSTs.
Given == {p \in Posts : http[p] # None}
AskedOnce ==
    /\ \A k \in DOMAIN events : events[k][1] = "establish" => post[events[k][2]] = "asking"
    /\ \A j, k \in DOMAIN events : events[j] = events[k] /\ events[j][1] = "establish" => j = k
    /\ \A p \in Posts : http[p] # None => post[p] \in {"placed", "pushed", "failed"}
    /\ worker = "ended" => events = <<>>
GivenInOrder ==
    /\ nextHttp = Cardinality(Given)
    /\ \A p \in Given : http[p] < nextHttp

\* What the worker waits to send is of the kind it waits for.
BlockedOn ==
    /\ worker = "handing" => blocked \in ClientMessages
    /\ worker = "pushing" => blocked \in {"stream"} \X (Streams \X Messages)

\* ---- the routes
\* A resource leads to the stream its request was posted for, and a stream not yet given has
\* neither resources nor a reader.
RoutedToPost ==
    \A key \in Resources : router[key] # None => router[key] = http[PostOf[key[2]]]
FreshStreams ==
    \A k \in HttpIds : k >= nextHttp =>
        k \notin open /\ resources[k] = {} /\ ~reading[k] /\ last[k] = -1

\* ---- the streams
\* A stream numbers its messages without a gap, and what the cache holds is the end of it.
Numbered == \A s \in Streams : \A k \in DOMAIN cache[s] :
                cache[s][k].index = cache[s][1].index + k - 1

\* A stream not yet given has been sent nothing.
FreshCaches == \A k \in HttpIds : k >= nextHttp => cache[k] = <<>>

\* What the client will be given: it is in the channel or about to be.
Coming(s, m) ==
    \/ \E j \in DOMAIN queue[s] : queue[s][j] = m
    \/ worker = "pushing" /\ blocked = <<"stream", <<s, m>>>>

\* The channel of a stream holds messages in the order of their numbers, none when nobody reads
\* it, and none that is newer than the cache.  It has no gap: with one message it holds all that
\* are cached after it.  What the client has not received is in it.
Ascending(q) == \A j, k \in DOMAIN q : j < k => q[j].index < q[k].index
InOrder(s) ==
    /\ Ascending(queue[s])
    /\ ~reading[s] => queue[s] = <<>>
    /\ \A k \in DOMAIN queue[s] : queue[s][k].index < NextIndex(s)
NoGap(s) ==
    queue[s] # <<>> =>
        \A k \in DOMAIN cache[s] :
            cache[s][k].index >= queue[s][1].index => Coming(s, cache[s][k])
Complete(s) ==
    reading[s] =>
        \A k \in DOMAIN cache[s] : cache[s][k].index > last[s] => Coming(s, cache[s][k])
Delivered(s) == InOrder(s) /\ NoGap(s) /\ Complete(s)
Delivery == \A s \in Streams : Delivered(s)

\* The message the worker waits to push is the newest of its stream, and not in the channel.
PushesNewest ==
    worker = "pushing" =>
        /\ cache[BlockedStream] # <<>>
        /\ BlockedMessage = cache[BlockedStream][Len(cache[BlockedStream])]
        /\ \A k \in DOMAIN queue[BlockedStream] :
              queue[BlockedStream][k].index < BlockedMessage.index

\* A stream that is to be resumed is not read, and is to be resumed where the client stopped.
Resumes(e, s) == e[1] = "resume" /\ e[2][1] = s
ResumesWhereLeft ==
    \A s \in Streams :
        /\ \A k \in DOMAIN events : Resumes(events[k], s) =>
              ~reading[s] /\ events[k][2][2] = ResumeIndex(s) /\ (s = Common \/ last[s] >= 0)
        /\ \A j, k \in DOMAIN events :
              Resumes(events[j], s) /\ Resumes(events[k], s) => j = k

-----------------------------------------------------------------------------
\* ---- queues
\* A message at the end of a queue leaves the others where they are.
LEMMA Appended ==
    ASSUME NEW S, NEW s \in Seq(S), NEW x \in S
    PROVE  /\ Append(s, x) \in Seq(S) /\ Append(s, x) # <<>>
           /\ Len(s) \in Nat /\ Len(Append(s, x)) = Len(s) + 1
           /\ DOMAIN s = 1 .. Len(s) /\ DOMAIN Append(s, x) = 1 .. (Len(s) + 1)
           /\ \A k \in DOMAIN s : Append(s, x)[k] = s[k]
           /\ Append(s, x)[Len(s) + 1] = x
           /\ \A k \in DOMAIN Append(s, x) : k \in DOMAIN s \/ k = Len(s) + 1
  BY AppendProperties, LenProperties

\* Without its head a queue holds the others, each one place further on.
LEMMA Tailed ==
    ASSUME NEW S, NEW s \in Seq(S), s # <<>>
    PROVE  /\ Tail(s) \in Seq(S) /\ Head(s) \in S /\ Head(s) = s[1]
           /\ Len(s) \in Nat \ {0} /\ Len(Tail(s)) = Len(s) - 1
           /\ DOMAIN s = 1 .. Len(s) /\ DOMAIN Tail(s) = 1 .. (Len(s) - 1)
           /\ \A k \in DOMAIN Tail(s) : k + 1 \in DOMAIN s /\ Tail(s)[k] = s[k + 1]
           /\ \A k \in DOMAIN s : k = 1 \/ (k - 1 \in DOMAIN Tail(s) /\ Tail(s)[k - 1] = s[k])
  BY HeadTailProperties, LenProperties, EmptySeq

\* What Raise adds to the events, and what the worker takes.
LEMMA Raised ==
    ASSUME TypeOK, NEW e \in Events, Raise(e)
    PROVE  /\ events' \in Seq(Events) /\ Len(events') <= Capacity
           /\ DOMAIN events \subseteq DOMAIN events'
           /\ \A k \in DOMAIN events : events'[k] = events[k]
           /\ \A k \in DOMAIN events' : k \in DOMAIN events \/ (k = Len(events) + 1 /\ events'[k] = e)
  <1>1. /\ events \in Seq(Events) /\ events' = Append(events, e) /\ Len(events) < Capacity
        /\ Capacity \in Nat
    BY StreamableSessionAssumption DEF TypeOK, Raise, StreamableSessionAssumption
  <1>2. /\ events' \in Seq(Events) /\ Len(events) \in Nat /\ Len(events') = Len(events) + 1
        /\ DOMAIN events = 1 .. Len(events) /\ DOMAIN events' = 1 .. (Len(events) + 1)
        /\ \A k \in DOMAIN events : events'[k] = events[k]
        /\ events'[Len(events) + 1] = e
        /\ \A k \in DOMAIN events' : k \in DOMAIN events \/ k = Len(events) + 1
    BY <1>1, Appended
  <1>. QED  BY <1>1, <1>2

LEMMA Taken ==
    ASSUME TypeOK, NEW e, Takes(e)
    PROVE  /\ e \in Events /\ events' \in Seq(Events) /\ Len(events') <= Capacity
           /\ 1 \in DOMAIN events /\ events[1] = e
           /\ \A k \in DOMAIN events' : k + 1 \in DOMAIN events /\ events'[k] = events[k + 1] /\ k >= 1
  BY Tailed, StreamableSessionAssumption DEF TypeOK, Takes, StreamableSessionAssumption

\* What an event may be.
LEMMA EventType ==
    /\ \A p \in Posts : <<"establish", p>> \in Events /\ <<"post", p>> \in Events
    /\ \A r \in Requests : <<"cancelled", r>> \in Events
    /\ \A k \in HttpIds : <<"closeStream", k>> \in Events
    /\ <<"close", None>> \in Events
    /\ \A s \in Streams, i \in Nat : <<"resume", <<s, i>>>> \in Events
  BY DEF Events, ClientMessages

\* Handing a message to the service, or waiting to.
LEMMA HandType ==
    ASSUME TypeOK, BlockedOn, worker = "selecting", NEW m \in ClientMessages, Hand(m)
    PROVE  /\ toHandler' \in Seq(ClientMessages) /\ Len(toHandler') <= Capacity
           /\ worker' \in {"selecting", "handing"}
           /\ blocked' \in {None} \cup ClientMessages \cup ({"stream"} \X (Streams \X Messages))
           /\ BlockedOn'
           /\ UNCHANGED <<state, service>>
  <1>1. toHandler \in Seq(ClientMessages) /\ Len(toHandler) <= Capacity /\ Capacity \in Nat
    BY StreamableSessionAssumption DEF TypeOK, StreamableSessionAssumption
  <1>2. CASE Len(toHandler) < Capacity
    <2>1. toHandler' = Append(toHandler, m) /\ UNCHANGED <<worker, blocked, state, service>>
      BY <1>2 DEF Hand
    <2>2. toHandler' \in Seq(ClientMessages) /\ Len(toHandler') <= Capacity
      BY <1>1, <1>2, <2>1, Appended
    <2>. QED  BY <2>1, <2>2 DEF TypeOK, BlockedOn
  <1>3. CASE ~(Len(toHandler) < Capacity)
    <2>1. worker' = "handing" /\ blocked' = m /\ UNCHANGED <<toHandler, state, service>>
      BY <1>3 DEF Hand
    <2>. QED  BY <1>1, <2>1 DEF BlockedOn
  <1>. QED  BY <1>2, <1>3

LEMMA UnregisterType ==
    ASSUME TypeOK, NEW key \in Resources, Unregister(key)
    PROVE  /\ open' \subseteq open
           /\ resources' \in [HttpIds -> SUBSET Resources]
           /\ router' \in [Resources -> HttpIds \cup {None}]
  BY DEF TypeOK, Unregister

LEMMA RegisterType ==
    ASSUME TypeOK, NEW p \in Posts, Register(p)
    PROVE  /\ open' = open
           /\ resources' \in [HttpIds -> SUBSET Resources]
           /\ router' \in [Resources -> HttpIds \cup {None}]
  <1>. DEFINE keys == UNION {KeysOf(r) : r \in {r \in Requests : PostOf[r] = p}}
  <1>1. keys \subseteq Resources
    BY DEF KeysOf, IdKey, TokenKey, Resources
  <1>2. CASE http[p] \in open
    <2>1. http[p] \in HttpIds
      BY <1>2 DEF TypeOK
    <2>2. /\ open' = open
          /\ resources' = [resources EXCEPT ![http[p]] = @ \cup keys]
          /\ router' = [key \in Resources |-> IF key \in keys THEN http[p] ELSE router[key]]
      BY <1>2 DEF Register
    <2>. QED  BY <1>1, <2>1, <2>2 DEF TypeOK
  <1>3. CASE http[p] \notin open
    BY <1>3 DEF Register, TypeOK
  <1>. QED  BY <1>2, <1>3

\* The index of the next message of a stream follows that of the last one.
LEMMA NextIndexType ==
    ASSUME TypeOK, NEW s \in Streams
    PROVE  /\ NextIndex(s) \in Nat
           /\ cache[s] \in Seq(Messages) /\ Len(cache[s]) \in Nat /\ DOMAIN cache[s] = 1 .. Len(cache[s])
           /\ cache[s] # <<>> => /\ Len(cache[s]) \in DOMAIN cache[s] /\ 1 \in DOMAIN cache[s]
                                 /\ NextIndex(s) = cache[s][Len(cache[s])].index + 1
           /\ \A k \in DOMAIN cache[s] : cache[s][k] \in Messages /\ cache[s][k].index \in Nat
  <1>1. cache[s] \in Seq(Messages)
    BY DEF TypeOK
  <1>2. Len(cache[s]) \in Nat /\ DOMAIN cache[s] = 1 .. Len(cache[s])
    BY <1>1, LenProperties
  <1>3. \A k \in DOMAIN cache[s] : cache[s][k] \in Messages
    BY <1>1, <1>2, ElementOfSeq
  <1>4. \A k \in DOMAIN cache[s] : cache[s][k].index \in Nat
    BY <1>3 DEF Messages
  <1>5. cache[s] # <<>> => Len(cache[s]) \in DOMAIN cache[s] /\ 1 \in DOMAIN cache[s]
    BY <1>1, <1>2, EmptySeq
  <1>. QED  BY <1>1, <1>2, <1>3, <1>4, <1>5 DEF NextIndex

\* What the cache of a stream holds after a message: all but perhaps the oldest, and it.
LEMMA CachedMessage ==
    ASSUME TypeOK, NEW s \in Streams, NEW m \in Messages, cache' = Cached(s, m)
    PROVE  /\ cache' \in [Streams -> Seq(Messages)]
           /\ \A t \in Streams \ {s} : cache'[t] = cache[t]
           /\ Len(cache'[s]) \in Nat /\ Len(cache'[s]) <= Capacity /\ cache'[s] # <<>>
           /\ DOMAIN cache'[s] = 1 .. Len(cache'[s])
           /\ Len(cache'[s]) \in DOMAIN cache'[s] /\ cache'[s][Len(cache'[s])] = m
           /\ \E d \in {0, 1} :
                /\ Len(cache'[s]) = Len(cache[s]) + 1 - d /\ (d = 0 <=> Len(cache[s]) < Capacity)
                /\ \A k \in DOMAIN cache'[s] : k # Len(cache'[s]) =>
                      k + d \in DOMAIN cache[s] /\ cache'[s][k] = cache[s][k + d]
  <1>. DEFINE kept == IF Len(cache[s]) >= Capacity THEN Tail(cache[s]) ELSE cache[s]
  <1>1. Capacity \in Nat \ {0} /\ cache[s] \in Seq(Messages) /\ Len(cache[s]) <= Capacity
    BY StreamableSessionAssumption DEF TypeOK, StreamableSessionAssumption
  <1>2. cache' = [cache EXCEPT ![s] = Append(kept, m)] /\ cache'[s] = Append(kept, m)
    BY DEF Cached, TypeOK
  <1>. HIDE DEF kept
  <1>3. CASE Len(cache[s]) >= Capacity
    <2>1. cache[s] # <<>> /\ kept = Tail(cache[s])
      BY <1>1, <1>3, EmptySeq DEF kept
    <2>2. /\ kept \in Seq(Messages) /\ Len(kept) = Len(cache[s]) - 1 /\ Len(cache[s]) \in Nat \ {0}
          /\ DOMAIN kept = 1 .. Len(kept)
          /\ \A k \in DOMAIN kept : k + 1 \in DOMAIN cache[s] /\ kept[k] = cache[s][k + 1]
      BY <1>1, <1>3, <2>1, Tailed
    <2>3. /\ Append(kept, m) \in Seq(Messages) /\ Append(kept, m) # <<>>
          /\ Len(Append(kept, m)) = Len(kept) + 1
          /\ DOMAIN Append(kept, m) = 1 .. (Len(kept) + 1)
          /\ \A k \in DOMAIN kept : Append(kept, m)[k] = kept[k]
          /\ Append(kept, m)[Len(kept) + 1] = m
      BY <2>2, Appended
    <2>4. /\ Len(cache'[s]) = Len(cache[s]) + 1 - 1 /\ (1 = 0 <=> Len(cache[s]) < Capacity)
          /\ \A k \in DOMAIN cache'[s] : k # Len(cache'[s]) =>
                      k + 1 \in DOMAIN cache[s] /\ cache'[s][k] = cache[s][k + 1]
      BY <1>1, <1>2, <1>3, <2>2, <2>3
    <2>. QED  BY <1>1, <1>2, <2>2, <2>3, <2>4 DEF TypeOK
  <1>4. CASE Len(cache[s]) < Capacity
    <2>1. kept = cache[s]
      BY <1>1, <1>4, LenProperties DEF kept
    <2>2. /\ Append(kept, m) \in Seq(Messages) /\ Append(kept, m) # <<>> /\ Len(kept) \in Nat
          /\ Len(Append(kept, m)) = Len(kept) + 1
          /\ DOMAIN kept = 1 .. Len(kept)
          /\ DOMAIN Append(kept, m) = 1 .. (Len(kept) + 1)
          /\ \A k \in DOMAIN kept : Append(kept, m)[k] = kept[k]
          /\ Append(kept, m)[Len(kept) + 1] = m
      BY <1>1, <2>1, Appended
    <2>3. /\ Len(cache'[s]) = Len(cache[s]) + 1 - 0 /\ (0 = 0 <=> Len(cache[s]) < Capacity)
          /\ \A k \in DOMAIN cache'[s] : k # Len(cache'[s]) =>
                      k + 0 \in DOMAIN cache[s] /\ cache'[s][k] = cache[s][k + 0]
      BY <1>2, <1>4, <2>1, <2>2
    <2>. QED  BY <1>1, <1>2, <1>4, <2>1, <2>2, <2>3 DEF TypeOK
  <1>. QED  BY <1>1, <1>3, <1>4, LenProperties

\* Sending on a stream keeps the types.
LEMMA EmitType ==
    ASSUME TypeOK, BlockedOn, worker = "selecting", NEW s \in Streams, NEW m \in Messages, Emit(s, m)
    PROVE  /\ cache' \in [Streams -> Seq(Messages)]
           /\ \A t \in Streams : Len(cache'[t]) <= Capacity
           /\ queue' \in [Streams -> Seq(Messages)]
           /\ \A t \in Streams : Len(queue'[t]) <= Capacity
           /\ worker' \in {"selecting", "pushing"}
           /\ blocked' \in {None} \cup ClientMessages \cup ({"stream"} \X (Streams \X Messages))
           /\ BlockedOn'
  <1>1. cache' = Cached(s, m)
    BY DEF Emit
  <1>2. /\ cache' \in [Streams -> Seq(Messages)]
        /\ \A t \in Streams : Len(cache'[t]) <= Capacity
    BY <1>1, CachedMessage DEF TypeOK
  <1>3. CASE UNCHANGED <<queue, worker, blocked>>
    BY <1>2, <1>3 DEF TypeOK, BlockedOn
  <1>4. CASE /\ Len(queue[s]) < Capacity /\ queue' = [queue EXCEPT ![s] = Append(@, m)]
             /\ UNCHANGED <<worker, blocked>>
    <2>1. queue[s] \in Seq(Messages) /\ Capacity \in Nat
      BY StreamableSessionAssumption DEF TypeOK, StreamableSessionAssumption
    <2>2. /\ queue' \in [Streams -> Seq(Messages)]
          /\ \A t \in Streams : Len(queue'[t]) <= Capacity
      BY <1>4, <2>1, Appended DEF TypeOK
    <2>. QED  BY <1>2, <1>4, <2>2 DEF TypeOK, BlockedOn
  <1>5. CASE worker' = "pushing" /\ blocked' = <<"stream", <<s, m>>>> /\ UNCHANGED queue
    BY <1>2, <1>5 DEF TypeOK, BlockedOn
  <1>. QED  BY <1>3, <1>4, <1>5 DEF Emit

\* A resumed stream is filled with what the cache has from the index on.
LEMMA ReplayMessages ==
    ASSUME TypeOK, NEW s \in Streams, NEW i \in Nat
    PROVE  /\ Replay(s, i) \in Seq(Messages) /\ Len(Replay(s, i)) <= Len(cache[s])
           /\ \E d \in Nat :
                /\ d = IF cache[s] = <<>> \/ i < cache[s][1].index THEN 0 ELSE i - cache[s][1].index
                /\ DOMAIN Replay(s, i) = 1 .. (Len(cache[s]) - d)
                /\ \A k \in DOMAIN Replay(s, i) :
                      k + d \in DOMAIN cache[s] /\ Replay(s, i)[k] = cache[s][k + d]
  <1>. DEFINE d == IF cache[s] = <<>> \/ i < cache[s][1].index THEN 0 ELSE i - cache[s][1].index
  <1>1. d \in Nat /\ Len(cache[s]) \in Nat /\ DOMAIN cache[s] = 1 .. Len(cache[s])
    BY NextIndexType
  <1>2. \A k \in (d + 1) .. Len(cache[s]) : cache[s][k] \in Messages
    BY <1>1, NextIndexType
  <1>. DEFINE r == SubSeq(cache[s], d + 1, Len(cache[s]))
  <1>. HIDE DEF d
  <1>3. /\ r \in Seq(Messages)
        /\ Len(r) = IF d + 1 <= Len(cache[s]) THEN Len(cache[s]) - (d + 1) + 1 ELSE 0
        /\ \A k \in 1 .. (Len(cache[s]) - (d + 1) + 1) : r[k] = cache[s][d + 1 + k - 1]
    BY <1>1, <1>2, SubSeqProperties
  <1>4. Replay(s, i) = r
    BY DEF Replay, d
  <1>. HIDE DEF r
  <1>5. DOMAIN r = 1 .. Len(r)
    BY <1>3, LenProperties
  <1>6. DOMAIN r = 1 .. (Len(cache[s]) - d) /\ Len(r) <= Len(cache[s])
    BY <1>1, <1>3, <1>5
  <1>7. \A k \in DOMAIN r : k + d \in DOMAIN cache[s] /\ r[k] = cache[s][k + d]
    BY <1>1, <1>3, <1>6
  <1>8. d = IF cache[s] = <<>> \/ i < cache[s][1].index THEN 0 ELSE i - cache[s][1].index
    BY DEF d
  <1>. QED  BY <1>1, <1>3, <1>4, <1>6, <1>7, <1>8

-----------------------------------------------------------------------------
\* ---- typing
\* The id a stream is given is one that no POST has, and one of HttpIds.
LEMMA EstablishedId ==
    ASSUME TypeOK, AskedOnce, GivenInOrder, NEW p \in Posts, WorkerEstablish(p)
    PROVE  /\ nextHttp \in HttpIds /\ http[p] = None /\ post[p] = "asking"
           /\ \A k \in DOMAIN events' : events'[k] # <<"establish", p>>
  <1>1. 1 \in DOMAIN events /\ events[1] = <<"establish", p>>
    BY Taken DEF WorkerEstablish
  <1>2. post[p] = "asking" /\ http[p] = None
    BY <1>1 DEF AskedOnce
  <1>3. Given \in SUBSET Posts /\ p \notin Given /\ IsFiniteSet(Posts)
    BY <1>2, StreamableSessionAssumption DEF Given, StreamableSessionAssumption
  <1>4. Cardinality(Given) <= Cardinality(Posts) /\ Cardinality(Given) # Cardinality(Posts)
          /\ Cardinality(Posts) \in Nat /\ Cardinality(Given) \in Nat
    BY <1>3, FS_Subset, FS_CardinalityType
  <1>5. nextHttp \in HttpIds
    BY <1>4 DEF GivenInOrder, HttpIds
  <1>6. ASSUME NEW k \in DOMAIN events', events'[k] = <<"establish", p>>
        PROVE  FALSE
    <2>1. k + 1 \in DOMAIN events /\ events[k + 1] = <<"establish", p>> /\ k >= 1
      BY <1>6, Taken DEF WorkerEstablish
    <2>2. k + 1 = 1
      BY <1>1, <2>1 DEF AskedOnce
    <2>3. k \in Nat
      BY Taken, LenProperties DEF WorkerEstablish
    <2>. QED  BY <2>1, <2>2, <2>3
  <1>. QED  BY <1>2, <1>5, <1>6

\* Events that no POST waits for, and the worker taking one, leave the asking as it is.
LEMMA AskedAfterRaise ==
    ASSUME TypeOK, AskedOnce, NEW e \in Events, Raise(e), e[1] # "establish",
           UNCHANGED http,
           \A p \in Posts : post'[p] = post[p] \/ (post[p] # "asking" /\ http[p] = None)
                              \/ (post[p] = "placed" /\ post'[p] = "pushed")
    PROVE  AskedOnce'
  <1>1. worker' = worker /\ worker # "ended"
    BY DEF Raise
  <1>2. \A k \in DOMAIN events' : events'[k][1] = "establish" =>
              k \in DOMAIN events /\ events'[k] = events[k] /\ events[k][2] \in Posts
    <2>1. \A k \in DOMAIN events : events[k] \in Events
      BY LenProperties, ElementOfSeq DEF TypeOK
    <2>2. \A x \in Events : x[1] = "establish" => x[2] \in Posts
      BY DEF Events, ClientMessages
    <2>. QED  BY <2>1, <2>2, Raised
  <1>3. \A k \in DOMAIN events' : events'[k][1] = "establish" => post'[events'[k][2]] = "asking"
    BY <1>2 DEF AskedOnce
  <1>4. \A j, k \in DOMAIN events' : events'[j] = events'[k] /\ events'[j][1] = "establish" => j = k
    BY <1>2 DEF AskedOnce
  <1>5. \A p \in Posts : http'[p] # None => post'[p] \in {"placed", "pushed", "failed"}
    BY DEF AskedOnce
  <1>. QED  BY <1>1, <1>3, <1>4, <1>5 DEF AskedOnce

LEMMA AskedAfterTake ==
    ASSUME TypeOK, AskedOnce, NEW e, Takes(e), UNCHANGED <<post, http>>, worker' # "ended"
    PROVE  AskedOnce'
  <1>1. \A k \in DOMAIN events' : k + 1 \in DOMAIN events /\ events'[k] = events[k + 1] /\ k \in Nat
    <2>1. DOMAIN events' \subseteq Nat
      BY Taken, LenProperties
    <2>. QED  BY <2>1, Taken
  <1>2. \A j, k \in Nat : j + 1 = k + 1 => j = k
    OBVIOUS
  <1>. QED  BY <1>1, <1>2 DEF AskedOnce

LEMMA AskedElse ==
    ASSUME AskedOnce, UNCHANGED <<post, http, events>>, worker' = "ended" => events = <<>>
    PROVE  AskedOnce'
  BY DEF AskedOnce

\* Nobody asks any more once the worker has ended.
LEMMA AskedAfterEnd ==
    ASSUME AskedOnce, UNCHANGED http, events' = <<>>,
           \A p \in Posts : http[p] # None /\ post[p] \in {"placed", "pushed", "failed"}
                               => post'[p] \in {"placed", "pushed", "failed"}
    PROVE  AskedOnce'
  <1>1. DOMAIN events' = {}
    OBVIOUS
  <1>. QED  BY <1>1 DEF AskedOnce

\* Only the worker gives ids, one at a time.
LEMMA HttpSteps ==
    ASSUME Next
    PROVE  (\E p \in Posts : WorkerEstablish(p)) \/ UNCHANGED <<http, nextHttp>>
  BY DEF Next, ClientStep, StartPost, AskForStream, PushPost, PostFails, CancelRequest, Get, Receive,
         Disconnect, CloseStream, Delete, SendClose, DeleteFails, DropManager, Raise, WorkerEvent,
         WorkerPost, WorkerCancelled, WorkerCloseStream, WorkerResume, WorkerClosed,
         WorkerAbandoned, WorkerEnds, WorkerWaits, HandContinues, PushContinues,
         WorkerCancelledByTransport, WorkerFromHandler, ServiceReceive, ServiceStops, ServiceEnds,
         Terminated, vars

\* Type correctness, for every value of the constants, and with it that ids are given in order
\* to the POSTs that asked, which is why there are enough of them.
LEMMA TypeSteps ==
    ASSUME TypeOK, BlockedOn, AskedOnce, GivenInOrder, [Next]_vars
    PROVE  TypeOK' /\ BlockedOn'
  <1>1. ASSUME NEW p \in Posts, StartPost(p) PROVE TypeOK' /\ BlockedOn'
    BY <1>1 DEF TypeOK, BlockedOn, StartPost, Move
  <1>2. ASSUME NEW p \in Posts, AskForStream(p) PROVE TypeOK' /\ BlockedOn'
    <2>1. events' \in Seq(Events) /\ Len(events') <= Capacity
      BY <1>2, Raised, EventType DEF AskForStream
    <2>. QED  BY <1>2, <2>1 DEF TypeOK, BlockedOn, AskForStream, Move, Raise
  <1>3. ASSUME NEW p \in Posts, PushPost(p) PROVE TypeOK' /\ BlockedOn'
    <2>1. events' \in Seq(Events) /\ Len(events') <= Capacity
      BY <1>3, Raised, EventType DEF PushPost
    <2>. QED  BY <1>3, <2>1 DEF TypeOK, BlockedOn, PushPost, Move, Raise
  <1>4. ASSUME NEW p \in Posts, PostFails(p) PROVE TypeOK' /\ BlockedOn'
    BY <1>4 DEF TypeOK, BlockedOn, PostFails, Move
  <1>5. ASSUME NEW r \in Requests, CancelRequest(r) PROVE TypeOK' /\ BlockedOn'
    <2>1. events' \in Seq(Events) /\ Len(events') <= Capacity
      BY <1>5, Raised, EventType DEF CancelRequest
    <2>. QED  BY <1>5, <2>1 DEF TypeOK, BlockedOn, CancelRequest, Raise
  <1>6. ASSUME NEW s \in Streams, Get(s) PROVE TypeOK' /\ BlockedOn'
    <2>1. ResumeIndex(s) \in Nat
      BY DEF TypeOK, ResumeIndex
    <2>2. <<"resume", <<s, ResumeIndex(s)>>>> \in Events
      BY <2>1, EventType
    <2>3. events' \in Seq(Events) /\ Len(events') <= Capacity
      BY <1>6, <2>2, Raised DEF Get
    <2>. QED  BY <1>6, <2>3 DEF TypeOK, BlockedOn, Get, Raise
  <1>7. ASSUME NEW s \in Streams, Receive(s) PROVE TypeOK' /\ BlockedOn'
    <2>1. /\ Tail(queue[s]) \in Seq(Messages) /\ Len(Tail(queue[s])) <= Capacity
          /\ Head(queue[s]) \in Messages
      <3>1. queue[s] \in Seq(Messages) /\ queue[s] # <<>> /\ Len(queue[s]) <= Capacity /\ Capacity \in Nat
        BY <1>7, StreamableSessionAssumption DEF TypeOK, Receive, StreamableSessionAssumption
      <3>. QED  BY <3>1, Tailed
    <2>2. Head(queue[s]).index \in Nat
      BY <2>1 DEF Messages
    <2>3. /\ queue' \in [Streams -> Seq(Messages)] /\ last' \in [Streams -> Nat \cup {-1}]
          /\ \A t \in Streams : Len(cache'[t]) <= Capacity /\ Len(queue'[t]) <= Capacity
      BY <1>7, <2>1, <2>2 DEF TypeOK, Receive
    <2>. QED  BY <1>7, <2>3 DEF TypeOK, BlockedOn, Receive
  <1>8. ASSUME NEW s \in Streams, Disconnect(s) PROVE TypeOK' /\ BlockedOn'
    <2>1. /\ queue' \in [Streams -> Seq(Messages)]
          /\ \A t \in Streams : Len(cache'[t]) <= Capacity /\ Len(queue'[t]) <= Capacity
      BY <1>8, EmptySeq, StreamableSessionAssumption DEF TypeOK, Disconnect, StreamableSessionAssumption
    <2>. QED  BY <1>8, <2>1 DEF TypeOK, BlockedOn, Disconnect
  <1>9. ASSUME NEW k \in HttpIds, CloseStream(k) PROVE TypeOK' /\ BlockedOn'
    <2>1. events' \in Seq(Events) /\ Len(events') <= Capacity
      BY <1>9, Raised, EventType DEF CloseStream
    <2>. QED  BY <1>9, <2>1 DEF TypeOK, BlockedOn, CloseStream, Raise
  <1>10. CASE Delete \/ DropManager \/ DeleteFails
    BY <1>10 DEF TypeOK, BlockedOn, Delete, DropManager, DeleteFails
  <1>11. CASE SendClose
    <2>1. events' \in Seq(Events) /\ Len(events') <= Capacity
      BY <1>11, Raised, EventType DEF SendClose
    <2>. QED  BY <1>11, <2>1 DEF TypeOK, BlockedOn, SendClose, Raise
  <1>12. ASSUME NEW p \in Posts, WorkerEstablish(p) PROVE TypeOK' /\ BlockedOn'
    <2>1. nextHttp \in HttpIds /\ nextHttp + 1 \in Nat
      BY <1>12, EstablishedId DEF TypeOK
    <2>2. events' \in Seq(Events) /\ Len(events') <= Capacity
      BY <1>12, Taken DEF WorkerEstablish
    <2>. QED  BY <1>12, <2>1, <2>2 DEF TypeOK, BlockedOn, WorkerEstablish, Streams
  <1>13. ASSUME NEW p \in Posts, WorkerPost(p) PROVE TypeOK' /\ BlockedOn'
    <2>1. events' \in Seq(Events) /\ Len(events') <= Capacity /\ worker = "selecting"
      BY <1>13, Taken DEF WorkerPost, Takes, Selecting
    <2>2. <<"post", p>> \in ClientMessages
      BY DEF ClientMessages
    <2>3. /\ toHandler' \in Seq(ClientMessages) /\ Len(toHandler') <= Capacity
          /\ worker' \in {"selecting", "handing"}
          /\ blocked' \in {None} \cup ClientMessages \cup ({"stream"} \X (Streams \X Messages))
          /\ BlockedOn' /\ UNCHANGED <<state, service>>
      BY <1>13, <2>1, <2>2, HandType DEF WorkerPost
    <2>4. /\ open' = open /\ resources' \in [HttpIds -> SUBSET Resources]
          /\ router' \in [Resources -> HttpIds \cup {None}]
      BY <1>13, RegisterType DEF WorkerPost
    <2>. QED  BY <1>13, <2>1, <2>3, <2>4 DEF TypeOK, WorkerPost
  <1>14. ASSUME NEW r \in Requests, WorkerCancelled(r) PROVE TypeOK' /\ BlockedOn'
    <2>1. events' \in Seq(Events) /\ Len(events') <= Capacity /\ worker = "selecting"
      BY <1>14, Taken DEF WorkerCancelled, Takes, Selecting
    <2>2. <<"cancelled", r>> \in ClientMessages /\ IdKey(r) \in Resources
      BY DEF ClientMessages, IdKey, Resources
    <2>3. /\ toHandler' \in Seq(ClientMessages) /\ Len(toHandler') <= Capacity
          /\ worker' \in {"selecting", "handing"}
          /\ blocked' \in {None} \cup ClientMessages \cup ({"stream"} \X (Streams \X Messages))
          /\ BlockedOn' /\ UNCHANGED <<state, service>>
      BY <1>14, <2>1, <2>2, HandType DEF WorkerCancelled
    <2>4. /\ open' \subseteq open /\ resources' \in [HttpIds -> SUBSET Resources]
          /\ router' \in [Resources -> HttpIds \cup {None}]
      BY <1>14, <2>2, UnregisterType DEF WorkerCancelled
    <2>. QED  BY <1>14, <2>1, <2>3, <2>4 DEF TypeOK, WorkerCancelled
  <1>15. ASSUME NEW k \in HttpIds, WorkerCloseStream(k) PROVE TypeOK' /\ BlockedOn'
    <2>1. events' \in Seq(Events) /\ Len(events') <= Capacity
      BY <1>15, Taken DEF WorkerCloseStream
    <2>. QED  BY <1>15, <2>1 DEF TypeOK, BlockedOn, WorkerCloseStream
  <1>16. ASSUME NEW s \in Streams, NEW i \in 0 .. MaxEvents, WorkerResume(s, i)
         PROVE  TypeOK' /\ BlockedOn'
    <2>1. events' \in Seq(Events) /\ Len(events') <= Capacity
      BY <1>16, Taken DEF WorkerResume
    <2>2. Replay(s, i) \in Seq(Messages) /\ Len(Replay(s, i)) <= Capacity
      <3>1. /\ Replay(s, i) \in Seq(Messages) /\ Len(Replay(s, i)) <= Len(cache[s])
            /\ Len(cache[s]) <= Capacity
        BY ReplayMessages DEF TypeOK
      <3>2. Len(Replay(s, i)) \in Nat /\ Len(cache[s]) \in Nat /\ Capacity \in Nat
        BY <3>1, NextIndexType, LenProperties, StreamableSessionAssumption
        DEF StreamableSessionAssumption
      <3>. QED  BY <3>1, <3>2
    <2>3. /\ queue' \in [Streams -> Seq(Messages)] /\ reading' \in [Streams -> BOOLEAN]
          /\ \A t \in Streams : Len(cache'[t]) <= Capacity /\ Len(queue'[t]) <= Capacity
      BY <1>16, <2>2 DEF TypeOK, WorkerResume
    <2>. QED  BY <1>16, <2>1, <2>3 DEF TypeOK, BlockedOn, WorkerResume
  <1>17. CASE WorkerEnds /\ worker = "selecting"
    <2>1. events' \in Seq(Events) /\ Len(events') <= Capacity
      BY <1>17, EmptySeq, StreamableSessionAssumption DEF WorkerEnds, StreamableSessionAssumption
    <2>. QED  BY <1>17, <2>1 DEF TypeOK, BlockedOn, WorkerEnds
  <1>18. CASE HandContinues
    <2>1. /\ toHandler \in Seq(ClientMessages) /\ blocked \in ClientMessages
          /\ Len(toHandler) < Capacity /\ Capacity \in Nat
      BY <1>18, StreamableSessionAssumption DEF TypeOK, BlockedOn, HandContinues, StreamableSessionAssumption
    <2>2. toHandler' \in Seq(ClientMessages) /\ Len(toHandler') <= Capacity
      BY <1>18, <2>1, Appended DEF HandContinues
    <2>. QED  BY <1>18, <2>2 DEF TypeOK, BlockedOn, HandContinues
  <1>19. CASE PushContinues
    <2>1. BlockedStream \in Streams /\ BlockedMessage \in Messages
      BY <1>19 DEF PushContinues, BlockedOn, BlockedStream, BlockedMessage
    <2>2. /\ queue' \in [Streams -> Seq(Messages)]
          /\ \A t \in Streams : Len(cache'[t]) <= Capacity /\ Len(queue'[t]) <= Capacity
      <3>1. CASE UNCHANGED queue
        BY <1>19, <3>1 DEF PushContinues, TypeOK
      <3>2. CASE /\ Len(queue[BlockedStream]) < Capacity
                 /\ queue' = [queue EXCEPT ![BlockedStream] = Append(@, BlockedMessage)]
        <4>1. queue[BlockedStream] \in Seq(Messages) /\ Capacity \in Nat
          BY <2>1, StreamableSessionAssumption DEF TypeOK, StreamableSessionAssumption
        <4>2. /\ Append(queue[BlockedStream], BlockedMessage) \in Seq(Messages)
              /\ Len(Append(queue[BlockedStream], BlockedMessage)) <= Capacity
          BY <2>1, <3>2, <4>1, Appended
        <4>. QED  BY <1>19, <2>1, <3>2, <4>2 DEF TypeOK, PushContinues
      <3>. QED  BY <1>19, <3>1, <3>2 DEF PushContinues
    <2>. QED  BY <1>19, <2>2 DEF TypeOK, BlockedOn, PushContinues
  <1>20. ASSUME NEW m \in Outgoing, WorkerFromHandler(m) PROVE TypeOK' /\ BlockedOn'
    <2>1. worker = "selecting"
      BY <1>20 DEF WorkerFromHandler, Selecting
    <2>2. /\ open' \subseteq open /\ resources' \in [HttpIds -> SUBSET Resources]
          /\ router' \in [Resources -> HttpIds \cup {None}]
          /\ state' \in [Requests -> {"none", "working", "answered"}]
      <3>1. CASE m[1] = "response"
        <4>1. m[2] \in Requests /\ IdKey(m[2]) \in Resources
          BY <3>1 DEF Outgoing, IdKey, Resources
        <4>. QED  BY <1>20, <3>1, <4>1, UnregisterType DEF WorkerFromHandler, TypeOK
      <3>2. CASE m[1] # "response"
        BY <1>20, <3>2 DEF WorkerFromHandler, TypeOK
      <3>. QED  BY <3>1, <3>2
    <2>3. CASE UNCHANGED <<cache, queue, worker, blocked>>
      BY <1>20, <2>2, <2>3 DEF TypeOK, BlockedOn, WorkerFromHandler
    <2>4. CASE Route(m) \in Streams /\ Emit(Route(m), Message(NextIndex(Route(m)), m))
      <3>1. Message(NextIndex(Route(m)), m) \in Messages
        BY <2>4, NextIndexType DEF Message, Messages
      <3>2. /\ cache' \in [Streams -> Seq(Messages)]
            /\ \A t \in Streams : Len(cache'[t]) <= Capacity
            /\ queue' \in [Streams -> Seq(Messages)]
            /\ \A t \in Streams : Len(queue'[t]) <= Capacity
            /\ worker' \in {"selecting", "pushing"}
            /\ blocked' \in {None} \cup ClientMessages \cup ({"stream"} \X (Streams \X Messages))
            /\ BlockedOn'
        BY <2>1, <2>4, <3>1, EmitType
      <3>. QED  BY <1>20, <2>2, <3>2 DEF TypeOK, WorkerFromHandler
    <2>. QED
      <3>1. open' \subseteq HttpIds
        BY <2>2 DEF TypeOK
      <3>. QED  BY <1>20, <2>3, <2>4, <3>1 DEF WorkerFromHandler, HandleServerMessage, Streams
  <1>21. CASE ServiceReceive
    <2>1. toHandler' \in Seq(ClientMessages) /\ Len(toHandler') <= Capacity
      <3>1. toHandler \in Seq(ClientMessages) /\ toHandler # <<>> /\ Len(toHandler) <= Capacity /\ Capacity \in Nat
        BY <1>21, StreamableSessionAssumption DEF TypeOK, ServiceReceive, StreamableSessionAssumption
      <3>. QED  BY <1>21, <3>1, Tailed DEF ServiceReceive
    <2>. QED  BY <1>21, <2>1 DEF TypeOK, BlockedOn, ServiceReceive
  <1>22. CASE ServiceStops
    BY <1>22 DEF TypeOK, BlockedOn, ServiceStops
  <1>23. CASE ServiceEnds
    <2>1. toHandler' \in Seq(ClientMessages) /\ Len(toHandler') <= Capacity
      BY <1>23, EmptySeq, StreamableSessionAssumption DEF ServiceEnds, StreamableSessionAssumption
    <2>. QED  BY <1>23, <2>1 DEF TypeOK, BlockedOn, ServiceEnds
  <1>24. CASE UNCHANGED vars
    BY <1>24 DEF TypeOK, BlockedOn, vars
  <1>. QED
    BY <1>1, <1>2, <1>3, <1>4, <1>5, <1>6, <1>7, <1>8, <1>9, <1>10, <1>11, <1>12, <1>13, <1>14,
       <1>15, <1>16, <1>17, <1>18, <1>19, <1>20, <1>21, <1>22, <1>23, <1>24
    DEF Next, ClientStep, WorkerEvent, WorkerClosed, WorkerAbandoned, WorkerWaits, Selecting,
        WorkerCancelledByTransport, Terminated

\* The POSTs that ask are those whose event waits.
LEMMA AskedSteps ==
    ASSUME TypeOK, BlockedOn, AskedOnce, GivenInOrder, [Next]_vars
    PROVE  AskedOnce'
  <1>1. ASSUME NEW p \in Posts, StartPost(p) PROVE AskedOnce'
    BY <1>1 DEF AskedOnce, StartPost, Move, TypeOK
  <1>2. ASSUME NEW p \in Posts, AskForStream(p) PROVE AskedOnce'
    <2>1. /\ post[p] = "begun" /\ post' = [post EXCEPT ![p] = "asking"] /\ UNCHANGED <<http, worker>>
          /\ Raise(<<"establish", p>>) /\ <<"establish", p>> \in Events /\ worker # "ended"
      BY <1>2, EventType DEF AskForStream, Move, Raise
    <2>2. \A k \in DOMAIN events' : events'[k][1] = "establish" =>
              \/ k \in DOMAIN events /\ events'[k] = events[k] /\ events[k][2] \in Posts \ {p}
              \/ k = Len(events) + 1 /\ events'[k] = <<"establish", p>>
      <3>1. \A k \in DOMAIN events : events[k] \in Events
        BY LenProperties, ElementOfSeq DEF TypeOK
      <3>2. \A x \in Events : x[1] = "establish" => x[2] \in Posts
        BY DEF Events, ClientMessages
      <3>. QED  BY <2>1, <3>1, <3>2, Raised DEF AskedOnce
    <2>3. \A k \in DOMAIN events' : events'[k][1] = "establish" => post'[events'[k][2]] = "asking"
      BY <2>1, <2>2 DEF AskedOnce, TypeOK
    <2>4. \A j, k \in DOMAIN events' : events'[j] = events'[k] /\ events'[j][1] = "establish" => j = k
      BY <2>2 DEF AskedOnce
    <2>5. \A q \in Posts : http'[q] # None => post'[q] \in {"placed", "pushed", "failed"}
      BY <2>1 DEF AskedOnce, TypeOK
    <2>. QED  BY <2>1, <2>3, <2>4, <2>5 DEF AskedOnce
  <1>3. ASSUME NEW p \in Posts, PushPost(p) PROVE AskedOnce'
    <2>1. <<"post", p>> \in Events /\ <<"post", p>>[1] # "establish"
      BY EventType
    <2>2. /\ Raise(<<"post", p>>) /\ UNCHANGED http
          /\ \A q \in Posts : post'[q] = post[q] \/ (post[q] = "placed" /\ post'[q] = "pushed")
      BY <1>3 DEF PushPost, Move, TypeOK
    <2>. QED  BY <2>1, <2>2, AskedAfterRaise
  <1>4. ASSUME NEW p \in Posts, PostFails(p) PROVE AskedOnce'
    <2>1. events' = <<>> /\ UNCHANGED http
      BY <1>4 DEF PostFails, AskedOnce
    <2>2. \A q \in Posts : post'[q] \in {post[q], "failed"}
      BY <1>4 DEF PostFails, Move, TypeOK
    <2>. QED  BY <2>1, <2>2, AskedAfterEnd
  <1>5. ASSUME NEW r \in Requests, CancelRequest(r) PROVE AskedOnce'
    <2>1. <<"cancelled", r>> \in Events /\ <<"cancelled", r>>[1] # "establish"
      BY EventType
    <2>. QED  BY <1>5, <2>1, AskedAfterRaise DEF CancelRequest
  <1>6. ASSUME NEW s \in Streams, Get(s) PROVE AskedOnce'
    <2>1. ResumeIndex(s) \in Nat
      BY DEF TypeOK, ResumeIndex
    <2>2. /\ <<"resume", <<s, ResumeIndex(s)>>>> \in Events
          /\ <<"resume", <<s, ResumeIndex(s)>>>>[1] # "establish"
      BY <2>1, EventType
    <2>. QED  BY <1>6, <2>2, AskedAfterRaise DEF Get
  <1>7. ASSUME NEW k \in HttpIds, CloseStream(k) PROVE AskedOnce'
    <2>1. <<"closeStream", k>> \in Events /\ <<"closeStream", k>>[1] # "establish"
      BY EventType
    <2>. QED  BY <1>7, <2>1, AskedAfterRaise DEF CloseStream
  <1>8. CASE SendClose
    <2>1. <<"close", None>> \in Events /\ <<"close", None>>[1] # "establish"
      BY EventType
    <2>2. Raise(<<"close", None>>) /\ UNCHANGED <<post, http>>
      BY <1>8 DEF SendClose
    <2>. QED  BY <2>1, <2>2, AskedAfterRaise
  <1>9. ASSUME NEW p \in Posts, WorkerEstablish(p) PROVE AskedOnce'
    <2>1. /\ post' = [post EXCEPT ![p] = "placed"] /\ http' = [http EXCEPT ![p] = nextHttp]
          /\ post[p] = "asking" /\ worker' = worker /\ worker = "selecting"
      BY <1>9, EstablishedId DEF WorkerEstablish, Takes, Selecting
    <2>2. \A k \in DOMAIN events' :
             k + 1 \in DOMAIN events /\ events'[k] = events[k + 1] /\ k \in Nat
               /\ events'[k] \in Events /\ events'[k] # <<"establish", p>>
      <3>1. events' \in Seq(Events)
        BY <1>9, Taken DEF WorkerEstablish
      <3>2. DOMAIN events' \subseteq Nat /\ \A k \in DOMAIN events' : events'[k] \in Events
        BY <3>1, LenProperties, ElementOfSeq
      <3>. QED  BY <1>9, <3>2, Taken, EstablishedId DEF WorkerEstablish
    <2>3. \A x \in Events : x[1] = "establish" /\ x # <<"establish", p>> => x[2] # p
      BY DEF Events, ClientMessages
    <2>4. \A k \in DOMAIN events' : events'[k][1] = "establish" => post'[events'[k][2]] = "asking"
      BY <2>1, <2>2, <2>3 DEF AskedOnce, TypeOK
    <2>5. \A j, k \in DOMAIN events' : events'[j] = events'[k] /\ events'[j][1] = "establish" => j = k
      <3>1. \A j, k \in Nat : j + 1 = k + 1 => j = k
        OBVIOUS
      <3>. QED  BY <2>2, <3>1 DEF AskedOnce
    <2>6. \A q \in Posts : http'[q] # None => post'[q] \in {"placed", "pushed", "failed"}
      BY <2>1 DEF AskedOnce, TypeOK
    <2>. QED  BY <2>1, <2>4, <2>5, <2>6 DEF AskedOnce
  <1>10. ASSUME NEW e, Takes(e), UNCHANGED httpVars, worker' \in {worker, "handing"} PROVE AskedOnce'
    BY <1>10, AskedAfterTake DEF Takes, Selecting
  <1>11. CASE WorkerEnds
    <2>1. events' = <<>> /\ UNCHANGED httpVars
      BY <1>11 DEF WorkerEnds
    <2>. QED  BY <2>1, AskedAfterEnd
  <1>12. ASSUME NEW m \in ClientMessages, Hand(m) PROVE worker' \in {worker, "handing"}
    BY <1>12 DEF Hand
  <1>13. ASSUME NEW p \in Posts, WorkerPost(p) PROVE AskedOnce'
    BY <1>13, <1>10, <1>12 DEF WorkerPost, ClientMessages
  <1>14. ASSUME NEW r \in Requests, WorkerCancelled(r) PROVE AskedOnce'
    BY <1>14, <1>10, <1>12 DEF WorkerCancelled, ClientMessages
  <1>15. ASSUME NEW k \in HttpIds, WorkerCloseStream(k) PROVE AskedOnce'
    BY <1>15, <1>10 DEF WorkerCloseStream
  <1>16. ASSUME NEW s \in Streams, NEW i \in 0 .. MaxEvents, WorkerResume(s, i) PROVE AskedOnce'
    BY <1>16, <1>10 DEF WorkerResume
  <1>17. ASSUME NEW m \in Outgoing, WorkerFromHandler(m) PROVE AskedOnce'
    <2>1. UNCHANGED <<post, http, events>> /\ worker' \in {worker, "pushing"} /\ worker = "selecting"
      BY <1>17 DEF WorkerFromHandler, HandleServerMessage, Emit, Selecting
    <2>. QED  BY <2>1, AskedElse
  <1>18. CASE \/ Delete \/ DeleteFails \/ DropManager \/ HandContinues \/ PushContinues
              \/ (\E s \in Streams : Receive(s) \/ Disconnect(s))
              \/ ServiceReceive \/ ServiceStops \/ ServiceEnds \/ UNCHANGED vars
    <2>1. UNCHANGED <<post, http, events>> /\ worker' \in {worker, "selecting"}
      BY <1>18 DEF Delete, DeleteFails, DropManager, HandContinues, PushContinues, Receive, Disconnect,
                   ServiceReceive, ServiceStops, ServiceEnds, vars
    <2>. QED  BY <2>1, AskedElse DEF AskedOnce
  <1>. QED
    BY <1>1, <1>2, <1>3, <1>4, <1>5, <1>6, <1>7, <1>8, <1>9, <1>11, <1>13, <1>14, <1>15, <1>16,
       <1>17, <1>18
    DEF Next, ClientStep, WorkerEvent, WorkerClosed, WorkerAbandoned, WorkerWaits,
        WorkerCancelledByTransport, Terminated

\* The ids given are those below the next one.
LEMMA GivenSteps ==
    ASSUME TypeOK, AskedOnce, GivenInOrder, [Next]_vars
    PROVE  GivenInOrder'
  <1>1. ASSUME NEW p \in Posts, WorkerEstablish(p) PROVE GivenInOrder'
    <2>1. nextHttp \in HttpIds /\ nextHttp # None /\ http[p] = None /\ nextHttp \in Nat
      BY <1>1, EstablishedId, StreamableSessionAssumption
      DEF StreamableSessionAssumption, Streams, TypeOK
    <2>2. http' = [http EXCEPT ![p] = nextHttp] /\ nextHttp' = nextHttp + 1
      BY <1>1 DEF WorkerEstablish
    <2>3. Given' = Given \cup {p} /\ p \notin Given
      BY <2>1, <2>2 DEF Given, TypeOK
    <2>4. IsFiniteSet(Given)
      <3>1. Given \in SUBSET Posts /\ IsFiniteSet(Posts)
        BY StreamableSessionAssumption DEF Given, StreamableSessionAssumption
      <3>. QED  BY <3>1, FS_Subset
    <2>5. Cardinality(Given') = Cardinality(Given) + 1
      BY <2>3, <2>4, FS_AddElement
    <2>6. \A q \in Given : http'[q] = http[q] /\ http[q] \in Nat
      BY <2>1, <2>2 DEF Given, TypeOK, HttpIds
    <2>7. http'[p] = nextHttp
      BY <2>2 DEF TypeOK
    <2>8. \A q \in Given' : http'[q] < nextHttp'
      BY <2>1, <2>2, <2>3, <2>6, <2>7 DEF GivenInOrder
    <2>. QED  BY <2>2, <2>5, <2>8 DEF GivenInOrder
  <1>2. CASE UNCHANGED <<http, nextHttp>>
    BY <1>2 DEF GivenInOrder, Given
  <1>. QED  BY <1>1, <1>2, HttpSteps DEF vars

\* Types, and with them that ids are given in order to the POSTs that asked, once each: without
\* that the ids might run out.
LEMMA IdsInOrder == Spec => [](TypeOK /\ BlockedOn /\ AskedOnce /\ GivenInOrder)
  <1>1. Init => TypeOK /\ BlockedOn /\ AskedOnce /\ GivenInOrder
    <2>. SUFFICES ASSUME Init PROVE TypeOK /\ BlockedOn /\ AskedOnce /\ GivenInOrder
      OBVIOUS
    <2>1. Given = {} /\ nextHttp = 0 /\ events = <<>> /\ worker = "selecting"
      BY DEF Init, Given
    <2>2. Capacity \in Nat
      BY StreamableSessionAssumption DEF StreamableSessionAssumption
    <2>3. TypeOK
      BY <2>2, EmptySeq DEF Init, TypeOK
    <2>. QED  BY <2>1, <2>3, FS_EmptySet DEF Init, BlockedOn, AskedOnce, GivenInOrder
  <1>2. TypeOK /\ BlockedOn /\ AskedOnce /\ GivenInOrder /\ [Next]_vars
          => (TypeOK /\ BlockedOn /\ AskedOnce /\ GivenInOrder)'
    BY TypeSteps, AskedSteps, GivenSteps
  <1>. QED  BY <1>1, <1>2, PTL DEF Spec

\* Type correctness of a session, for every value of the constants: there is an id for every
\* stream that is asked for, and no channel or cache holds more than its capacity.
THEOREM SessionTyping == Spec => []TypeOK
  BY IdsInOrder, PTL

-----------------------------------------------------------------------------
\* ---- the routes
\* The requests of one POST have one stream, which they keep.
Routing == RoutedToPost /\ FreshStreams /\ RoutesAgree

LEMMA IdNumbers ==
    /\ HttpIds \subseteq Nat /\ HttpIds \subseteq Streams /\ Common \notin HttpIds
    /\ None \notin HttpIds /\ None # Common
  <1>1. Cardinality(Posts) \in Nat
    BY FS_CardinalityType, StreamableSessionAssumption DEF StreamableSessionAssumption
  <1>. QED  BY <1>1, StreamableSessionAssumption DEF StreamableSessionAssumption, HttpIds, Streams

LEMMA PostOfKey ==
    ASSUME NEW key \in Resources
    PROVE  key[2] \in Requests /\ PostOf[key[2]] \in Posts
  BY StreamableSessionAssumption DEF StreamableSessionAssumption, Resources

\* A new stream has no resources, and no resource leads to it.
LEMMA EstablishRoutes ==
    ASSUME TypeOK, AskedOnce, GivenInOrder, Routing, NEW p \in Posts, WorkerEstablish(p)
    PROVE  Routing'
  <1>1. /\ nextHttp \in HttpIds /\ nextHttp \in Nat /\ nextHttp # None /\ http[p] = None
        /\ http' = [http EXCEPT ![p] = nextHttp] /\ nextHttp' = nextHttp + 1
        /\ open' = open \cup {nextHttp} /\ reading' = [reading EXCEPT ![nextHttp] = TRUE]
        /\ UNCHANGED <<resources, router, last>>
    BY EstablishedId, IdNumbers DEF WorkerEstablish
  <1>2. RoutedToPost'
    BY <1>1, PostOfKey DEF Routing, RoutedToPost, TypeOK
  <1>3. FreshStreams'
    <2>1. ASSUME NEW k \in HttpIds, k >= nextHttp + 1
          PROVE  k \notin open' /\ resources'[k] = {} /\ ~reading'[k] /\ last'[k] = -1
      <3>1. k >= nextHttp /\ k # nextHttp
        BY <1>1, <2>1, IdNumbers
      <3>. QED  BY <1>1, <3>1, IdNumbers DEF Routing, FreshStreams, TypeOK
    <2>. QED  BY <1>1, <2>1 DEF FreshStreams
  <1>4. ASSUME NEW key \in Resources
        PROVE  router[key] # nextHttp /\ resources[nextHttp] = {}
    <2>1. nextHttp >= nextHttp
      BY <1>1
    <2>2. CASE router[key] # None
      <3>1. router[key] = http[PostOf[key[2]]] /\ PostOf[key[2]] \in Given
        BY <2>2, PostOfKey DEF Routing, RoutedToPost, Given
      <3>2. router[key] < nextHttp /\ router[key] \in Nat
        BY <2>2, <3>1, IdNumbers DEF GivenInOrder, TypeOK
      <3>. QED  BY <1>1, <2>1, <3>2 DEF Routing, FreshStreams
    <2>. QED  BY <1>1, <2>1, <2>2 DEF Routing, FreshStreams
  <1>5. RoutesAgree'
    BY <1>1, <1>4 DEF Routing, RoutesAgree
  <1>. QED  BY <1>2, <1>3, <1>5 DEF Routing

\* What a resource led to is forgotten on both sides.
LEMMA UnregisterRoutes ==
    ASSUME TypeOK, Routing, NEW key \in Resources, Unregister(key),
           UNCHANGED <<http, nextHttp, reading, last>>
    PROVE  Routing'
  <1>1. open' \subseteq open /\ \A x \in Resources : router'[x] = IF x = key THEN None ELSE router[x]
    BY DEF Unregister, TypeOK
  <1>2. RoutedToPost'
    BY <1>1 DEF Routing, RoutedToPost
  <1>3. \A k \in HttpIds : resources'[k] = IF k = router[key] /\ k \in open
                                           THEN resources[k] \ {key} ELSE resources[k]
    BY DEF Unregister
  <1>4. FreshStreams'
    BY <1>1, <1>3 DEF Routing, FreshStreams
  <1>5. RoutesAgree'
    <2>1. ASSUME NEW k \in open', NEW x \in Resources
          PROVE  router'[x] = k <=> x \in resources'[k]
      <3>1. k \in open /\ k \in HttpIds /\ k # None /\ (router[x] = k <=> x \in resources[k])
        BY <1>1, IdNumbers DEF Routing, RoutesAgree, TypeOK
      <3>2. CASE x = key
        BY <1>1, <1>3, <3>1, <3>2
      <3>3. CASE x # key
        BY <1>1, <1>3, <3>1, <3>3
      <3>. QED  BY <3>2, <3>3
    <2>. QED  BY <2>1 DEF RoutesAgree
  <1>. QED  BY <1>2, <1>4, <1>5 DEF Routing

\* A POST registers its own requests, for its own stream.
LEMMA RegisterRoutes ==
    ASSUME TypeOK, GivenInOrder, Routing, NEW p \in Posts, Register(p),
           UNCHANGED <<http, nextHttp, reading, last>>
    PROVE  Routing'
  <1>. DEFINE keys == UNION {KeysOf(r) : r \in {r \in Requests : PostOf[r] = p}}
  <1>1. CASE http[p] \notin open
    BY <1>1 DEF Register, Routing, RoutedToPost, FreshStreams, RoutesAgree
  <1>2. CASE http[p] \in open
    <2>1. /\ open' = open /\ http[p] \in HttpIds /\ http[p] # None
          /\ \A k \in HttpIds : resources'[k] = IF k = http[p] THEN resources[k] \cup keys
                                                ELSE resources[k]
          /\ \A key \in Resources : router'[key] = IF key \in keys THEN http[p] ELSE router[key]
      <3>1. /\ open' = open
            /\ resources' = [resources EXCEPT ![http[p]] = @ \cup keys]
            /\ router' = [key \in Resources |-> IF key \in keys THEN http[p] ELSE router[key]]
        BY <1>2 DEF Register
      <3>2. open' = open /\ http[p] \in HttpIds /\ http[p] # None
        BY <1>2, <3>1, IdNumbers DEF TypeOK
      <3>. QED  BY <3>1, <3>2 DEF TypeOK
    <2>2. \A key \in keys : key \in Resources /\ PostOf[key[2]] = p
      BY DEF KeysOf, IdKey, TokenKey, Resources
    <2>. HIDE DEF keys
    <2>3. RoutedToPost'
      BY <2>1, <2>2 DEF Routing, RoutedToPost
    <2>4. FreshStreams'
      <3>1. http[p] < nextHttp /\ http[p] \in Nat /\ nextHttp \in Nat
        BY <2>1, IdNumbers DEF GivenInOrder, Given, TypeOK
      <3>2. \A k \in HttpIds : k >= nextHttp => k # http[p]
        BY <3>1, IdNumbers
      <3>. QED  BY <2>1, <3>2 DEF Routing, FreshStreams
    <2>5. RoutesAgree'
      <3>1. ASSUME NEW k \in open, NEW key \in Resources
            PROVE  router'[key] = k <=> key \in resources'[k]
        <4>1. k \in HttpIds /\ k # None /\ (router[key] = k <=> key \in resources[k])
          BY IdNumbers DEF Routing, RoutesAgree, TypeOK
        <4>2. CASE key \in keys
          <5>1. router'[key] = http[p] /\ router[key] \in {None, http[p]}
            BY <2>1, <2>2, <4>2 DEF Routing, RoutedToPost
          <5>. QED  BY <2>1, <4>1, <4>2, <5>1
        <4>3. CASE key \notin keys
          BY <2>1, <4>1, <4>3
        <4>. QED  BY <4>2, <4>3
      <3>. QED  BY <2>1, <3>1 DEF RoutesAgree
    <2>. QED  BY <2>3, <2>4, <2>5 DEF Routing
  <1>. QED  BY <1>1, <1>2

\* The routes are kept by every step.
LEMMA RoutesKept == Spec => []Routing
  <1>1. Init => Routing
    BY IdNumbers DEF Init, Routing, RoutedToPost, FreshStreams, RoutesAgree
  <1>2. TypeOK /\ AskedOnce /\ GivenInOrder /\ Routing /\ [Next]_vars => Routing'
    <2>. SUFFICES ASSUME TypeOK, AskedOnce, GivenInOrder, Routing, [Next]_vars PROVE Routing'
      OBVIOUS
    <2>1. ASSUME NEW p \in Posts, WorkerEstablish(p) PROVE Routing'
      BY <2>1, EstablishRoutes
    <2>2. ASSUME NEW p \in Posts, WorkerPost(p) PROVE Routing'
      BY <2>2, RegisterRoutes DEF WorkerPost
    <2>3. ASSUME NEW r \in Requests, WorkerCancelled(r) PROVE Routing'
      <3>1. IdKey(r) \in Resources
        BY DEF IdKey, Resources
      <3>. QED  BY <2>3, <3>1, UnregisterRoutes DEF WorkerCancelled
    <2>4. ASSUME NEW m \in Outgoing, WorkerFromHandler(m) PROVE Routing'
      <3>1. CASE m[1] = "response"
        <4>1. IdKey(m[2]) \in Resources
          BY <3>1 DEF Outgoing, IdKey, Resources
        <4>. QED  BY <2>4, <3>1, <4>1, UnregisterRoutes DEF WorkerFromHandler
      <3>2. CASE m[1] # "response"
        BY <2>4, <3>2 DEF WorkerFromHandler, Routing, RoutedToPost, FreshStreams, RoutesAgree
      <3>. QED  BY <3>1, <3>2
    <2>5. CASE (\E k \in HttpIds : WorkerCloseStream(k)) \/ WorkerEnds
      <3>1. open' \subseteq open /\ UNCHANGED <<http, nextHttp, resources, router, reading, last>>
        BY <2>5 DEF WorkerCloseStream, WorkerEnds
      <3>. QED  BY <3>1 DEF Routing, RoutedToPost, FreshStreams, RoutesAgree
    <2>6. ASSUME \/ \E s \in Streams, i \in 0 .. MaxEvents : WorkerResume(s, i)
                 \/ \E s \in Streams : Receive(s) \/ Disconnect(s)
          PROVE  Routing'
      <3>1. PICK s \in Streams :
                  /\ s \in HttpIds => s \in open \/ reading[s] \/ UNCHANGED <<reading, last>>
                  /\ \A t \in Streams \ {s} : reading'[t] = reading[t] /\ last'[t] = last[t]
                  /\ UNCHANGED <<http, nextHttp, open, resources, router>>
        <4>1. ASSUME NEW s \in Streams, NEW i \in 0 .. MaxEvents, WorkerResume(s, i)
              PROVE  /\ s \in HttpIds => s \in open \/ reading[s] \/ UNCHANGED <<reading, last>>
                     /\ \A t \in Streams \ {s} : reading'[t] = reading[t] /\ last'[t] = last[t]
                     /\ UNCHANGED <<http, nextHttp, open, resources, router>>
          <5>1. CASE UNCHANGED reading
            BY <4>1, <5>1, IdNumbers DEF WorkerResume
          <5>. QED  BY <4>1, <5>1, IdNumbers DEF WorkerResume, TypeOK
        <4>2. ASSUME NEW s \in Streams, Receive(s) \/ Disconnect(s)
              PROVE  /\ s \in HttpIds => s \in open \/ reading[s] \/ UNCHANGED <<reading, last>>
                     /\ \A t \in Streams \ {s} : reading'[t] = reading[t] /\ last'[t] = last[t]
                     /\ UNCHANGED <<http, nextHttp, open, resources, router>>
          BY <4>2 DEF Receive, Disconnect, TypeOK
        <4>. QED  BY <2>6, <4>1, <4>2
      <3>. QED  BY <3>1, IdNumbers DEF Routing, RoutedToPost, FreshStreams, RoutesAgree
    <2>7. ASSUME \/ \E p \in Posts : StartPost(p) \/ AskForStream(p) \/ PushPost(p) \/ PostFails(p)
                 \/ \E r \in Requests : CancelRequest(r)
                 \/ \E s \in Streams : Get(s)
                 \/ \E k \in HttpIds : CloseStream(k)
                 \/ Delete \/ SendClose \/ DeleteFails \/ DropManager
                 \/ WorkerWaits \/ ServiceReceive \/ ServiceStops \/ ServiceEnds \/ UNCHANGED vars
          PROVE  Routing'
      <3>1. UNCHANGED <<http, nextHttp, open, resources, router, reading, last>>
        BY <2>7 DEF StartPost, AskForStream, PushPost, PostFails, CancelRequest, Get, CloseStream,
                    Delete, SendClose, DeleteFails, DropManager, Raise, WorkerWaits, HandContinues,
                    PushContinues, ServiceReceive, ServiceStops, ServiceEnds, vars
      <3>. QED  BY <3>1 DEF Routing, RoutedToPost, FreshStreams, RoutesAgree
    <2>. QED
      BY <2>1, <2>2, <2>3, <2>4, <2>5, <2>6, <2>7
      DEF Next, ClientStep, WorkerEvent, WorkerClosed, WorkerAbandoned, WorkerCancelledByTransport,
          Terminated
  <1>. QED  BY <1>1, <1>2, IdsInOrder, PTL DEF Spec

\* The two halves of the routing table of a session agree, however streams are opened, resumed
\* and closed: no stream is closed under a request that is still running, or kept for none.
THEOREM RoutingAgrees == Spec => []RoutesAgree
  <1>1. Routing => RoutesAgree
    BY DEF Routing
  <1>. QED  BY <1>1, RoutesKept, PTL

-----------------------------------------------------------------------------
\* ---- the numbers of the messages
\* Only a message of the service changes a cache: that of the stream it is routed to, which is
\* open or the common one.
LEMMA CacheSteps ==
    ASSUME TypeOK, [Next]_vars
    PROVE  \/ UNCHANGED cache
           \/ \E m \in Outgoing, s \in Streams :
                 /\ WorkerFromHandler(m) /\ worker = "selecting"
                 /\ Emit(s, Message(NextIndex(s), m)) /\ Message(NextIndex(s), m) \in Messages
                 /\ s = Common \/ s \in open
  <1>1. ASSUME NEW m \in Outgoing, WorkerFromHandler(m)
        PROVE  \/ UNCHANGED cache
               \/ \E s \in Streams :
                     /\ worker = "selecting"
                     /\ Emit(s, Message(NextIndex(s), m)) /\ Message(NextIndex(s), m) \in Messages
                     /\ s = Common \/ s \in open
    <2>1. open' \subseteq open /\ worker = "selecting"
      <3>1. CASE m[1] = "response"
        <4>1. IdKey(m[2]) \in Resources
          BY <3>1 DEF Outgoing, IdKey, Resources
        <4>. QED  BY <1>1, <3>1, <4>1, UnregisterType DEF WorkerFromHandler, Selecting
      <3>2. CASE m[1] # "response"
        BY <1>1, <3>2 DEF WorkerFromHandler, Selecting
      <3>. QED  BY <3>1, <3>2
    <2>2. CASE Route(m) = Common \/ Route(m) \in open'
      <3>1. Route(m) \in Streams /\ (Route(m) = Common \/ Route(m) \in open)
        BY <2>1, <2>2 DEF TypeOK, Streams
      <3>2. Emit(Route(m), Message(NextIndex(Route(m)), m))
        BY <1>1, <2>2 DEF WorkerFromHandler, HandleServerMessage
      <3>3. Message(NextIndex(Route(m)), m) \in Messages
        BY <3>1, NextIndexType DEF Message, Messages
      <3>. QED  BY <2>1, <3>1, <3>2, <3>3
    <2>3. CASE ~(Route(m) = Common \/ Route(m) \in open')
      BY <1>1, <2>3 DEF WorkerFromHandler, HandleServerMessage
    <2>. QED  BY <2>2, <2>3
  <1>2. ASSUME Next, ~\E m \in Outgoing : WorkerFromHandler(m)
        PROVE  UNCHANGED cache
    BY <1>2 DEF Next, ClientStep, StartPost, AskForStream, PushPost, PostFails, CancelRequest, Get,
         Receive, Disconnect, CloseStream, Delete, SendClose, DeleteFails, DropManager, Raise,
         WorkerEvent, WorkerEstablish, WorkerPost, WorkerCancelled, WorkerCloseStream, WorkerResume,
         WorkerClosed, WorkerAbandoned, WorkerEnds, WorkerWaits, HandContinues, PushContinues,
         WorkerCancelledByTransport, ServiceReceive, ServiceStops, ServiceEnds, Terminated, vars
  <1>. QED  BY <1>1, <1>2 DEF vars

\* The first index and the length of a cache determine the next index.
LEMMA NumbersOf ==
    ASSUME TypeOK, Numbered, NEW s \in Streams, cache[s] # <<>>
    PROVE  /\ NextIndex(s) = cache[s][1].index + Len(cache[s]) /\ cache[s][1].index \in Nat
           /\ Len(cache[s]) \in Nat
           /\ \A k \in DOMAIN cache[s] : k \in 1 .. Len(cache[s])
                                          /\ cache[s][k].index = cache[s][1].index + k - 1
  <1>1. /\ Len(cache[s]) \in Nat /\ DOMAIN cache[s] = 1 .. Len(cache[s])
        /\ Len(cache[s]) \in DOMAIN cache[s] /\ 1 \in DOMAIN cache[s]
        /\ NextIndex(s) = cache[s][Len(cache[s])].index + 1
        /\ cache[s][1].index \in Nat
    BY NextIndexType
  <1>2. \A k \in DOMAIN cache[s] : cache[s][k].index = cache[s][1].index + k - 1
    BY DEF Numbered
  <1>3. cache[s][Len(cache[s])].index = cache[s][1].index + Len(cache[s]) - 1
    BY <1>1, <1>2
  <1>4. NextIndex(s) = cache[s][1].index + Len(cache[s])
    BY <1>1, <1>3
  <1>. QED  BY <1>1, <1>2, <1>4

\* A message gets a number of its own, the next one.
LEMMA NumberedEmit ==
    ASSUME TypeOK, Numbered, NEW s \in Streams, NEW m \in Messages, m.index = NextIndex(s),
           cache' = Cached(s, m)
    PROVE  /\ Numbered'
           /\ \A k \in DOMAIN cache[s] : cache[s][k].index < m.index
           /\ NextIndex(s)' = m.index + 1
  <1>1. PICK d \in {0, 1} :
                /\ Len(cache'[s]) = Len(cache[s]) + 1 - d
                /\ \A k \in DOMAIN cache'[s] : k # Len(cache'[s]) =>
                      k + d \in DOMAIN cache[s] /\ cache'[s][k] = cache[s][k + d]
    BY CachedMessage
  <1>2. /\ \A t \in Streams \ {s} : cache'[t] = cache[t]
        /\ Len(cache'[s]) \in Nat /\ cache'[s] # <<>>
        /\ DOMAIN cache'[s] = 1 .. Len(cache'[s])
        /\ Len(cache'[s]) \in DOMAIN cache'[s] /\ cache'[s][Len(cache'[s])] = m
    BY CachedMessage
  <1>3. NextIndex(s)' = m.index + 1
    BY <1>2 DEF NextIndex
  <1>4. CASE cache[s] = <<>>
    <2>1. Len(cache[s]) = 0 /\ DOMAIN cache[s] = {}
      BY <1>4
    <2>2. Len(cache'[s]) = 1
      BY <1>1, <1>2, <2>1
    <2>3. \A k \in DOMAIN cache'[s] : cache'[s][k].index = cache'[s][1].index + k - 1
      <3>1. m.index \in Nat
        BY NextIndexType
      <3>. QED  BY <1>2, <2>2, <3>1
    <2>. QED  BY <1>2, <1>3, <2>1, <2>3 DEF Numbered
  <1>5. CASE cache[s] # <<>>
    <2>1. PICK f \in Nat, n \in Nat :
             /\ f = cache[s][1].index /\ n = Len(cache[s]) /\ m.index = f + n
             /\ \A k \in DOMAIN cache[s] : k \in 1 .. n /\ cache[s][k].index = f + k - 1
      BY <1>5, NumbersOf
    <2>2. \A k \in DOMAIN cache'[s] : cache'[s][k].index = f + d + k - 1
      <3>1. ASSUME NEW k \in DOMAIN cache'[s]
            PROVE  cache'[s][k].index = f + d + k - 1
        <4>1. k \in Nat /\ d \in Nat
          BY <1>2
        <4>2. CASE k = Len(cache'[s])
          <5>1. cache'[s][k].index = f + n /\ k = n + 1 - d
            BY <1>1, <1>2, <2>1, <4>2
          <5>. QED  BY <4>1, <5>1
        <4>3. CASE k # Len(cache'[s])
          <5>1. cache'[s][k].index = f + (k + d) - 1
            BY <1>1, <2>1, <4>3
          <5>. QED  BY <4>1, <5>1
        <4>. QED  BY <4>2, <4>3
      <3>. QED  BY <3>1
    <2>3. 1 \in DOMAIN cache'[s] /\ d \in Nat /\ DOMAIN cache'[s] \subseteq Nat
      BY <1>2
    <2>4. \A k \in DOMAIN cache'[s] : cache'[s][k].index = cache'[s][1].index + k - 1
      <3>1. cache'[s][1].index = f + d + 1 - 1
        BY <2>2, <2>3
      <3>2. \A k \in Nat : f + d + k - 1 = (f + d + 1 - 1) + k - 1
        BY <2>1, <2>3
      <3>. QED  BY <2>2, <2>3, <3>1, <3>2
    <2>5. \A k \in DOMAIN cache[s] : cache[s][k].index < m.index
      BY <2>1
    <2>. QED  BY <1>2, <1>3, <2>4, <2>5 DEF Numbered
  <1>. QED  BY <1>4, <1>5

\* The messages of a stream are numbered without a gap, and before it is given there are none.
LEMMA NumbersKept == Spec => [](Numbered /\ FreshCaches)
  <1>1. Init => Numbered /\ FreshCaches
    BY IdNumbers DEF Init, Numbered, FreshCaches, Streams
  <1>2. TypeOK /\ Routing /\ AskedOnce /\ GivenInOrder /\ Numbered /\ FreshCaches /\ [Next]_vars
          => Numbered' /\ FreshCaches'
    <2>. SUFFICES ASSUME TypeOK, Routing, AskedOnce, GivenInOrder, Numbered, FreshCaches, [Next]_vars
                  PROVE  Numbered' /\ FreshCaches'
      OBVIOUS
    <2>1. nextHttp \in Nat /\ nextHttp' \in {nextHttp, nextHttp + 1}
      BY HttpSteps DEF WorkerEstablish, vars, TypeOK
    <2>2. \A k \in HttpIds : k >= nextHttp' => k >= nextHttp
      BY <2>1, IdNumbers
    <2>3. CASE UNCHANGED cache
      BY <2>2, <2>3 DEF Numbered, FreshCaches
    <2>4. ASSUME NEW m \in Outgoing, NEW s \in Streams, s = Common \/ s \in open,
                 Emit(s, Message(NextIndex(s), m)), Message(NextIndex(s), m) \in Messages
          PROVE  Numbered' /\ FreshCaches'
      <3>1. cache' = Cached(s, Message(NextIndex(s), m)) /\ Message(NextIndex(s), m).index = NextIndex(s)
        BY <2>4 DEF Emit, Message
      <3>2. Numbered' /\ \A t \in Streams \ {s} : cache'[t] = cache[t]
        BY <2>4, <3>1, NumberedEmit, CachedMessage
      <3>3. \A k \in HttpIds : k >= nextHttp => k # s
        BY <2>4, IdNumbers DEF Routing, FreshStreams
      <3>4. FreshCaches'
        BY <2>2, <3>2, <3>3, IdNumbers DEF FreshCaches
      <3>. QED  BY <3>2, <3>4
    <2>. QED  BY <2>3, <2>4, CacheSteps
  <1>. QED  BY <1>1, <1>2, IdsInOrder, RoutesKept, PTL DEF Spec

\* What a stream is sent next has a higher index than anything it still remembers, though
\* the cache evicts (session.rs 107, 115).
IdsGrow ==
    [][\A s \in Streams : cache'[s] # cache[s] =>
          \A k \in DOMAIN cache[s] : cache[s][k].index < cache'[s][Len(cache'[s])].index]_vars

\* An event id names one message of its stream for good, whatever the cache has evicted, for any
\* capacity of it: what a stream is sent has a higher index than all it still remembers.
THEOREM EventIdsGrow == Spec => IdsGrow
  <1>1. TypeOK /\ Numbered /\ [Next]_vars
          => [\A s \in Streams : cache'[s] # cache[s] =>
                \A k \in DOMAIN cache[s] : cache[s][k].index < cache'[s][Len(cache'[s])].index]_vars
    <2>. SUFFICES ASSUME TypeOK, Numbered, [Next]_vars, NEW s \in Streams, cache'[s] # cache[s],
                         NEW k \in DOMAIN cache[s]
                  PROVE  cache[s][k].index < cache'[s][Len(cache'[s])].index
      OBVIOUS
    <2>1. PICK m \in Outgoing, t \in Streams :
                /\ Emit(t, Message(NextIndex(t), m)) /\ Message(NextIndex(t), m) \in Messages
      BY CacheSteps
    <2>2. /\ cache' = Cached(t, Message(NextIndex(t), m))
          /\ Message(NextIndex(t), m).index = NextIndex(t)
      BY <2>1 DEF Emit, Message
    <2>3. t = s
      BY <2>1, <2>2, CachedMessage
    <2>. QED  BY <2>1, <2>2, <2>3, NumberedEmit, CachedMessage
  <1>. QED  BY <1>1, IdsInOrder, NumbersKept, PTL DEF Spec, IdsGrow

-----------------------------------------------------------------------------
\* ---- what is to be resumed
\* An event that resumes a stream is its kind, the stream and an index.
LEMMA ResumeEvent ==
    ASSUME TypeOK, NEW k \in DOMAIN events, NEW s, Resumes(events[k], s)
    PROVE  s \in Streams /\ events[k] = <<"resume", <<s, events[k][2][2]>>>>
  <1>1. events[k] \in Events
    BY LenProperties, ElementOfSeq DEF TypeOK
  <1>2. events[k] \in {"resume"} \X (Streams \X Nat)
    BY <1>1 DEF Resumes, Events, ClientMessages
  <1>. QED  BY <1>2 DEF Resumes

LEMMA ResumesAfterRaise ==
    ASSUME TypeOK, ResumesWhereLeft, NEW e \in Events, Raise(e), e[1] # "resume"
    PROVE  ResumesWhereLeft'
  <1>1. UNCHANGED <<reading, last>>
    BY DEF Raise
  <1>2. \A s : \A k \in DOMAIN events' : Resumes(events'[k], s) =>
              k \in DOMAIN events /\ events'[k] = events[k]
    BY Raised DEF Resumes
  <1>. QED  BY <1>1, <1>2 DEF ResumesWhereLeft, ResumeIndex

LEMMA ResumesAfterTake ==
    ASSUME TypeOK, ResumesWhereLeft, NEW e, Takes(e),
           \A s \in Streams : \/ reading'[s] = reading[s] /\ last'[s] = last[s]
                              \/ \A k \in DOMAIN events' : ~Resumes(events'[k], s)
    PROVE  ResumesWhereLeft'
  <1>1. \A k \in DOMAIN events' : k + 1 \in DOMAIN events /\ events'[k] = events[k + 1] /\ k \in Nat
    <2>1. DOMAIN events' \subseteq Nat
      BY Taken, LenProperties
    <2>. QED  BY <2>1, Taken
  <1>2. \A j, k \in Nat : j + 1 = k + 1 => j = k
    OBVIOUS
  <1>3. ASSUME NEW s \in Streams, NEW k \in DOMAIN events', Resumes(events'[k], s)
        PROVE  (~reading[s] /\ events[k][2][2] = ResumeIndex(s) /\ (s = Common \/ last[s] >= 0))'
    <2>1. /\ k + 1 \in DOMAIN events /\ events'[k] = events[k + 1]
          /\ reading'[s] = reading[s] /\ last'[s] = last[s]
      BY <1>1, <1>3
    <2>. QED  BY <1>3, <2>1 DEF ResumesWhereLeft, ResumeIndex
  <1>4. ASSUME NEW s \in Streams, NEW j \in DOMAIN events', NEW k \in DOMAIN events',
               Resumes(events'[j], s), Resumes(events'[k], s)
        PROVE  j = k
    <2>1. j + 1 = k + 1
      BY <1>1, <1>4 DEF ResumesWhereLeft
    <2>. QED  BY <1>1, <1>2, <2>1
  <1>. QED  BY <1>3, <1>4 DEF ResumesWhereLeft

LEMMA ResumesElse ==
    ASSUME ResumesWhereLeft, UNCHANGED events,
           \A s \in Streams : \/ reading'[s] = reading[s] /\ last'[s] = last[s]
                              \/ reading[s]
    PROVE  ResumesWhereLeft'
  BY DEF ResumesWhereLeft, ResumeIndex

LEMMA ResumesSteps ==
    ASSUME TypeOK, BlockedOn, AskedOnce, GivenInOrder, Routing, ResumesWhereLeft, [Next]_vars
    PROVE  ResumesWhereLeft'
  <1>1. ASSUME NEW s \in Streams, Get(s) PROVE ResumesWhereLeft'
    <2>. DEFINE e == <<"resume", <<s, ResumeIndex(s)>>>>
    <2>1. e \in Events
      <3>1. ResumeIndex(s) \in Nat
        BY DEF TypeOK, ResumeIndex
      <3>. QED  BY <3>1, EventType
    <2>2. /\ Raise(e) /\ UNCHANGED <<reading, last>> /\ ~reading[s] /\ (s = Common \/ last[s] >= 0)
          /\ \A k \in DOMAIN events : events[k] # e
      BY <1>1 DEF Get, Raise, Waiting
    <2>3. \A k \in DOMAIN events : ~Resumes(events[k], s)
      BY <2>2, ResumeEvent DEF ResumesWhereLeft
    <2>4. Resumes(e, s) /\ e[2][2] = ResumeIndex(s) /\ \A t \in Streams : Resumes(e, t) => t = s
      BY DEF Resumes
    <2>. HIDE DEF e
    <2>5. \A k \in DOMAIN events' : \/ k \in DOMAIN events /\ events'[k] = events[k]
                                    \/ k = Len(events) + 1 /\ events'[k] = e
      BY <2>1, <2>2, Raised
    <2>6. ASSUME NEW t \in Streams, NEW k \in DOMAIN events', Resumes(events'[k], t)
          PROVE  (~reading[t] /\ events[k][2][2] = ResumeIndex(t) /\ (t = Common \/ last[t] >= 0))'
      <3>1. CASE k \in DOMAIN events /\ events'[k] = events[k]
        BY <2>2, <2>6, <3>1 DEF ResumesWhereLeft, ResumeIndex
      <3>2. CASE events'[k] = e
        <4>1. t = s
          BY <2>4, <2>6, <3>2
        <4>. QED  BY <2>2, <2>4, <3>2, <4>1 DEF ResumeIndex
      <3>. QED  BY <2>5, <3>1, <3>2
    <2>7. ASSUME NEW t \in Streams, NEW j \in DOMAIN events', NEW k \in DOMAIN events',
                 Resumes(events'[j], t), Resumes(events'[k], t)
          PROVE  j = k
      BY <2>3, <2>4, <2>5, <2>7 DEF ResumesWhereLeft
    <2>. QED  BY <2>6, <2>7 DEF ResumesWhereLeft
  <1>2. ASSUME \/ \E p \in Posts : AskForStream(p) \/ PushPost(p)
               \/ \E r \in Requests : CancelRequest(r)
               \/ \E k \in HttpIds : CloseStream(k)
               \/ SendClose
        PROVE  ResumesWhereLeft'
    <2>1. \E e \in Events : Raise(e) /\ e[1] # "resume"
      BY <1>2, EventType DEF AskForStream, PushPost, CancelRequest, CloseStream, SendClose
    <2>. QED  BY <2>1, ResumesAfterRaise
  <1>3. ASSUME NEW s \in Streams, NEW i \in 0 .. MaxEvents, WorkerResume(s, i)
        PROVE  ResumesWhereLeft'
    <2>1. /\ Takes(<<"resume", <<s, i>>>>) /\ UNCHANGED last
          /\ \A t \in Streams \ {s} : reading'[t] = reading[t]
      BY <1>3 DEF WorkerResume, TypeOK
    <2>2. \A k \in DOMAIN events' : ~Resumes(events'[k], s)
      <3>1. ASSUME NEW k \in DOMAIN events', Resumes(events'[k], s) PROVE FALSE
        <4>1. /\ 1 \in DOMAIN events /\ Resumes(events[1], s)
              /\ k + 1 \in DOMAIN events /\ events'[k] = events[k + 1] /\ k >= 1
          BY <2>1, Taken DEF Resumes
        <4>2. k + 1 = 1
          BY <3>1, <4>1 DEF ResumesWhereLeft
        <4>3. k \in Nat
          BY <2>1, Taken, LenProperties
        <4>. QED  BY <4>1, <4>2, <4>3
      <3>. QED  BY <3>1
    <2>. QED  BY <2>1, <2>2, ResumesAfterTake
  <1>4. ASSUME NEW p \in Posts, WorkerEstablish(p) PROVE ResumesWhereLeft'
    <2>1. /\ Takes(<<"establish", p>>) /\ UNCHANGED last /\ nextHttp \in HttpIds
          /\ \A t \in Streams \ {nextHttp} : reading'[t] = reading[t]
      BY <1>4, EstablishedId DEF WorkerEstablish, TypeOK
    <2>2. last[nextHttp] = -1 /\ nextHttp # Common /\ nextHttp \in Streams
      <3>1. nextHttp >= nextHttp
        BY <2>1, IdNumbers
      <3>. QED  BY <2>1, <3>1, IdNumbers DEF Routing, FreshStreams
    <2>3. \A k \in DOMAIN events' : ~Resumes(events'[k], nextHttp)
      <3>1. ASSUME NEW k \in DOMAIN events', Resumes(events'[k], nextHttp) PROVE FALSE
        <4>1. k + 1 \in DOMAIN events /\ Resumes(events[k + 1], nextHttp)
          BY <2>1, <3>1, Taken
        <4>2. last[nextHttp] >= 0
          BY <2>2, <4>1 DEF ResumesWhereLeft
        <4>. QED  BY <2>2, <4>2
      <3>. QED  BY <3>1
    <2>. QED  BY <2>1, <2>3, ResumesAfterTake
  <1>5. ASSUME \/ \E p \in Posts : WorkerPost(p)
               \/ \E r \in Requests : WorkerCancelled(r)
               \/ \E k \in HttpIds : WorkerCloseStream(k)
        PROVE  ResumesWhereLeft'
    <2>1. UNCHANGED <<reading, last>> /\ \E e : Takes(e)
      BY <1>5 DEF WorkerPost, WorkerCancelled, WorkerCloseStream
    <2>. QED  BY <2>1, ResumesAfterTake
  <1>6. CASE WorkerEnds
    <2>1. DOMAIN events' = {}
      BY <1>6 DEF WorkerEnds
    <2>. QED  BY <2>1 DEF ResumesWhereLeft
  <1>7. ASSUME \/ \E s \in Streams : Receive(s) \/ Disconnect(s)
               \/ \E m \in Outgoing : WorkerFromHandler(m)
               \/ \E p \in Posts : StartPost(p) \/ PostFails(p)
               \/ Delete \/ DeleteFails \/ DropManager \/ WorkerWaits
               \/ ServiceReceive \/ ServiceStops \/ ServiceEnds \/ UNCHANGED vars
        PROVE  ResumesWhereLeft'
    <2>1. /\ UNCHANGED events
          /\ \A s \in Streams : (reading'[s] = reading[s] /\ last'[s] = last[s]) \/ reading[s]
      BY <1>7 DEF Receive, Disconnect, WorkerFromHandler, StartPost, PostFails, Delete, DeleteFails,
                  DropManager, WorkerWaits, HandContinues, PushContinues, ServiceReceive, ServiceStops,
                  ServiceEnds, vars, TypeOK
    <2>. QED  BY <2>1, ResumesElse
  <1>. QED
    BY <1>1, <1>2, <1>3, <1>4, <1>5, <1>6, <1>7
    DEF Next, ClientStep, WorkerEvent, WorkerClosed, WorkerAbandoned, WorkerCancelledByTransport,
        Terminated

\* The client resumes where it stopped reading.
LEMMA ResumesInPlace == Spec => []ResumesWhereLeft
  <1>1. Init => ResumesWhereLeft
    BY DEF Init, ResumesWhereLeft
  <1>. QED  BY <1>1, ResumesSteps, IdsInOrder, RoutesKept, PTL DEF Spec

-----------------------------------------------------------------------------
\* ---- what the client is given
\* A stream that a step does not touch is given what it was.
LEMMA DeliveredElse ==
    ASSUME NEW s \in Streams, Delivered(s), cache'[s] = cache[s], queue'[s] = queue[s],
           reading'[s] = reading[s], last'[s] = last[s],
           \A m : worker = "pushing" /\ blocked = <<"stream", <<s, m>>>>
                    => worker' = "pushing" /\ blocked' = blocked
    PROVE  Delivered(s)'
  <1>1. \A m : Coming(s, m) => Coming(s, m)'
    BY DEF Coming
  <1>2. NextIndex(s)' = NextIndex(s)
    BY DEF NextIndex
  <1>. QED  BY <1>1, <1>2 DEF Delivered, InOrder, NoGap, Complete, Ascending

\* The messages in the channel of a stream.
LEMMA QueueType ==
    ASSUME TypeOK, NEW s \in Streams
    PROVE  /\ queue[s] \in Seq(Messages) /\ Len(queue[s]) \in Nat
           /\ DOMAIN queue[s] = 1 .. Len(queue[s])
           /\ queue[s] # <<>> => 1 \in DOMAIN queue[s] /\ Len(queue[s]) \in DOMAIN queue[s]
           /\ \A k \in DOMAIN queue[s] : queue[s][k] \in Messages /\ queue[s][k].index \in Nat
  <1>1. queue[s] \in Seq(Messages)
    BY DEF TypeOK
  <1>2. Len(queue[s]) \in Nat /\ DOMAIN queue[s] = 1 .. Len(queue[s])
    BY <1>1, LenProperties
  <1>3. \A k \in DOMAIN queue[s] : queue[s][k] \in Messages
    BY <1>1, <1>2, ElementOfSeq
  <1>4. \A k \in DOMAIN queue[s] : queue[s][k].index \in Nat
    BY <1>3 DEF Messages
  <1>5. queue[s] # <<>> => 1 \in DOMAIN queue[s] /\ Len(queue[s]) \in DOMAIN queue[s]
    BY <1>1, <1>2, EmptySeq
  <1>. QED  BY <1>1, <1>2, <1>3, <1>4, <1>5

\* The newest message of a stream enters its channel, which holds all that came before it.
LEMMA PushDelivers ==
    ASSUME TypeOK, TypeOK', NEW s \in Streams, NEW m \in Messages,
           Ascending(queue[s]), \A k \in DOMAIN queue[s] : queue[s][k].index < m.index,
           queue'[s] = Append(queue[s], m), reading'[s], last'[s] = last[s],
           NextIndex(s)' = m.index + 1,
           \A k \in DOMAIN cache'[s] :
              \/ cache'[s][k] = m
              \/ /\ cache'[s][k].index < m.index
                 /\ \/ queue[s] # <<>> /\ cache'[s][k].index >= queue[s][1].index
                    \/ cache'[s][k].index > last[s]
                    => \E j \in DOMAIN queue[s] : queue[s][j] = cache'[s][k]
    PROVE  Delivered(s)'
  <1>1. /\ DOMAIN queue[s] = 1 .. Len(queue[s]) /\ Len(queue[s]) \in Nat
        /\ DOMAIN queue'[s] = 1 .. (Len(queue[s]) + 1)
        /\ \A k \in DOMAIN queue[s] : queue'[s][k] = queue[s][k] /\ k \in DOMAIN queue'[s]
        /\ queue'[s][Len(queue[s]) + 1] = m /\ Len(queue[s]) + 1 \in DOMAIN queue'[s]
        /\ \A k \in DOMAIN queue'[s] : k \in DOMAIN queue[s] \/ k = Len(queue[s]) + 1
    BY QueueType, Appended
  <1>2. m.index \in Nat /\ \A k \in DOMAIN queue[s] : queue[s][k].index \in Nat
    BY QueueType DEF Messages
  <1>3. InOrder(s)'
    <2>1. ASSUME NEW j \in DOMAIN queue'[s], NEW k \in DOMAIN queue'[s], j < k
          PROVE  queue'[s][j].index < queue'[s][k].index
      <3>1. j \in DOMAIN queue[s]
        BY <1>1, <2>1
      <3>2. CASE k \in DOMAIN queue[s]
        BY <1>1, <2>1, <3>1, <3>2 DEF Ascending
      <3>3. CASE k = Len(queue[s]) + 1
        BY <1>1, <3>1, <3>3
      <3>. QED  BY <1>1, <3>2, <3>3
    <2>2. \A k \in DOMAIN queue'[s] : queue'[s][k].index < m.index + 1
      BY <1>1, <1>2
    <2>. QED  BY <2>1, <2>2 DEF InOrder, Ascending
  <1>4. \A x : x = m \/ (\E j \in DOMAIN queue[s] : queue[s][j] = x) => Coming(s, x)'
    BY <1>1 DEF Coming
  <1>5. NoGap(s)'
    <2>1. CASE queue[s] = <<>>
      <3>1. queue'[s][1] = m
        BY <1>1, <2>1
      <3>2. \A k \in DOMAIN cache'[s] : cache'[s][k].index >= m.index => cache'[s][k] = m
        <4>1. cache'[s] \in Seq(Messages)
          BY DEF TypeOK
        <4>2. \A k \in DOMAIN cache'[s] : cache'[s][k] \in Messages
          BY <4>1, LenProperties, ElementOfSeq
        <4>3. \A k \in DOMAIN cache'[s] : cache'[s][k].index \in Nat
          BY <4>2 DEF Messages
        <4>. QED  BY <1>2, <4>3
      <3>. QED  BY <1>4, <3>1, <3>2 DEF NoGap
    <2>2. CASE queue[s] # <<>>
      <3>1. queue'[s][1] = queue[s][1]
        BY <1>1, <2>2, QueueType
      <3>. QED  BY <1>4, <2>2, <3>1 DEF NoGap
    <2>. QED  BY <2>1, <2>2
  <1>6. Complete(s)'
    BY <1>4 DEF Complete
  <1>. QED  BY <1>3, <1>5, <1>6 DEF Delivered

\* A message sent on a stream is in its channel, or the worker waits to push it there.
LEMMA EmitDelivers ==
    ASSUME TypeOK, TypeOK', Numbered, Delivery, worker = "selecting",
           NEW s \in Streams, NEW m \in Messages, m.index = NextIndex(s), Emit(s, m),
           UNCHANGED <<reading, last>>
    PROVE  Delivery' /\ PushesNewest'
  <1>1. /\ cache' = Cached(s, m)
        /\ \A t \in Streams \ {s} : cache'[t] = cache[t]
        /\ cache'[s] # <<>> /\ cache'[s][Len(cache'[s])] = m
        /\ \A k \in DOMAIN cache'[s] : cache'[s][k] = m \/ \E j \in DOMAIN cache[s] : cache'[s][k] = cache[s][j]
    BY CachedMessage DEF Emit
  <1>2. /\ \A k \in DOMAIN cache[s] : cache[s][k].index < m.index
        /\ NextIndex(s)' = m.index + 1
    BY <1>1, NumberedEmit
  <1>3. \A k \in DOMAIN queue[s] : queue[s][k].index < m.index
    BY DEF Delivery, Delivered, InOrder
  <1>4. ASSUME NEW t \in Streams \ {s}, queue'[t] = queue[t] PROVE Delivered(t)'
    BY <1>1, <1>4, DeliveredElse DEF Delivery
  <1>5. Ascending(queue[s]) /\ NoGap(s) /\ Complete(s) /\ (~reading[s] => queue[s] = <<>>)
    BY DEF Delivery, Delivered, InOrder
  <1>6. \A x : Coming(s, x) <=> \E j \in DOMAIN queue[s] : queue[s][j] = x
    BY DEF Coming
  <1>7. CASE ~reading[s] /\ UNCHANGED <<queue, worker, blocked>>
    <2>1. Delivered(s)'
      BY <1>5, <1>7 DEF Delivered, InOrder, NoGap, Complete, Ascending
    <2>. QED  BY <1>4, <1>7, <2>1 DEF Delivery, PushesNewest
  <1>8. CASE /\ reading[s] /\ queue' = [queue EXCEPT ![s] = Append(@, m)]
             /\ UNCHANGED <<worker, blocked>>
    <2>1. queue'[s] = Append(queue[s], m) /\ \A t \in Streams \ {s} : queue'[t] = queue[t]
      BY <1>8 DEF TypeOK
    <2>2. \A k \in DOMAIN cache'[s] :
              \/ cache'[s][k] = m
              \/ /\ cache'[s][k].index < m.index
                 /\ \/ queue[s] # <<>> /\ cache'[s][k].index >= queue[s][1].index
                    \/ cache'[s][k].index > last[s]
                    => \E j \in DOMAIN queue[s] : queue[s][j] = cache'[s][k]
      BY <1>1, <1>2, <1>5, <1>6, <1>8 DEF NoGap, Complete
    <2>3. reading'[s] /\ last'[s] = last[s]
      BY <1>8
    <2>4. Delivered(s)'
      BY <1>2, <1>3, <1>5, <2>1, <2>2, <2>3, PushDelivers
    <2>. QED  BY <1>4, <1>8, <2>1, <2>4 DEF Delivery, PushesNewest
  <1>9. CASE worker' = "pushing" /\ blocked' = <<"stream", <<s, m>>>> /\ UNCHANGED queue
    <2>1. BlockedStream' = s /\ BlockedMessage' = m
      BY <1>9 DEF BlockedStream, BlockedMessage
    <2>2. \A x : x = m \/ Coming(s, x) => Coming(s, x)'
      BY <1>6, <1>9 DEF Coming
    <2>3. NextIndex(s) \in Nat /\ \A k \in DOMAIN queue[s] : queue[s][k].index \in Nat
      BY NextIndexType, QueueType
    <2>4. InOrder(s)'
      BY <1>2, <1>3, <1>5, <1>9, <2>3 DEF InOrder, Ascending
    <2>5. NoGap(s)' /\ Complete(s)'
      BY <1>1, <1>5, <1>9, <2>2 DEF NoGap, Complete
    <2>6. Delivered(s)'
      BY <2>4, <2>5 DEF Delivered
    <2>7. PushesNewest'
      BY <1>1, <1>3, <1>9, <2>1 DEF PushesNewest
    <2>. QED  BY <1>4, <1>9, <2>6, <2>7 DEF Delivery
  <1>. QED  BY <1>7, <1>8, <1>9 DEF Emit

\* The message the worker waits to push enters the channel, or its reader has left.
LEMMA PushContinuesDelivers ==
    ASSUME TypeOK, TypeOK', BlockedOn, Numbered, Delivery, PushesNewest, PushContinues
    PROVE  Delivery' /\ PushesNewest'
  <1>1. PICK s \in Streams, m \in Messages : blocked = <<"stream", <<s, m>>>>
    BY DEF PushContinues, BlockedOn
  <1>2. /\ worker = "pushing" /\ worker' = "selecting" /\ BlockedStream = s /\ BlockedMessage = m
        /\ UNCHANGED <<cache, reading, last>>
    BY <1>1 DEF PushContinues, BlockedStream, BlockedMessage
  <1>3. /\ cache[s] # <<>> /\ m = cache[s][Len(cache[s])]
        /\ \A k \in DOMAIN queue[s] : queue[s][k].index < m.index
    BY <1>2 DEF PushesNewest
  <1>4. PushesNewest'
    BY <1>2 DEF PushesNewest
  <1>5. ASSUME NEW t \in Streams \ {s}, queue'[t] = queue[t] PROVE Delivered(t)'
    BY <1>1, <1>2, <1>5, DeliveredElse DEF Delivery
  <1>6. CASE ~reading[s] /\ UNCHANGED queue
    <2>1. Delivered(s)'
      BY <1>2, <1>6 DEF Delivery, Delivered, InOrder, NoGap, Complete, Ascending
    <2>. QED  BY <1>4, <1>5, <1>6, <2>1 DEF Delivery
  <1>7. CASE reading[s] /\ queue' = [queue EXCEPT ![s] = Append(@, m)]
    <2>1. queue'[s] = Append(queue[s], m) /\ \A t \in Streams \ {s} : queue'[t] = queue[t]
      BY <1>7 DEF TypeOK
    <2>2. PICK f \in Nat, n \in Nat :
             /\ f = cache[s][1].index /\ n = Len(cache[s]) /\ NextIndex(s) = f + n
             /\ \A k \in DOMAIN cache[s] : k \in 1 .. n /\ cache[s][k].index = f + k - 1
      BY <1>3, NumbersOf
    <2>3. n \in DOMAIN cache[s]
      BY <1>3, <2>2, NextIndexType
    <2>4. m.index = f + n - 1
      BY <1>3, <2>2, <2>3
    <2>5. NextIndex(s)' = m.index + 1
      <3>1. NextIndex(s)' = NextIndex(s)
        BY <1>2 DEF NextIndex
      <3>. QED  BY <2>2, <2>4, <3>1
    <2>6. ASSUME NEW k \in DOMAIN cache[s], cache[s][k] # m
          PROVE  /\ cache[s][k].index < m.index
                 /\ \/ queue[s] # <<>> /\ cache[s][k].index >= queue[s][1].index
                    \/ cache[s][k].index > last[s]
                    => \E j \in DOMAIN queue[s] : queue[s][j] = cache[s][k]
      <3>1. k # n /\ k \in 1 .. n
        BY <1>3, <2>2, <2>6
      <3>2. cache[s][k].index < m.index
        BY <2>2, <2>4, <3>1
      <3>3. Coming(s, cache[s][k]) => \E j \in DOMAIN queue[s] : queue[s][j] = cache[s][k]
        BY <1>1, <2>6 DEF Coming
      <3>. QED  BY <1>7, <3>2, <3>3 DEF Delivery, Delivered, NoGap, Complete
    <2>7. Ascending(queue[s]) /\ reading'[s] /\ last'[s] = last[s] /\ cache'[s] = cache[s]
      BY <1>2, <1>7 DEF Delivery, Delivered, InOrder
    <2>8. Delivered(s)'
      BY <1>3, <2>1, <2>5, <2>6, <2>7, PushDelivers
    <2>. QED  BY <1>4, <1>5, <2>1, <2>8 DEF Delivery
  <1>. QED  BY <1>2, <1>6, <1>7 DEF PushContinues

\* The client takes the oldest message of the channel.
LEMMA ReceiveDelivers ==
    ASSUME TypeOK, BlockedOn, Delivery, PushesNewest, NEW s \in Streams, Receive(s)
    PROVE  Delivery' /\ PushesNewest'
  <1>1. /\ queue[s] # <<>> /\ reading[s] /\ queue'[s] = Tail(queue[s])
        /\ \A t \in Streams \ {s} : queue'[t] = queue[t] /\ last'[t] = last[t]
        /\ last'[s] = Head(queue[s]).index
        /\ UNCHANGED <<cache, reading, worker, blocked>>
    BY DEF Receive, TypeOK
  <1>2. /\ Head(queue[s]) = queue[s][1] /\ 1 \in DOMAIN queue[s]
        /\ \A k \in DOMAIN queue'[s] : /\ k + 1 \in DOMAIN queue[s] /\ queue'[s][k] = queue[s][k + 1]
                                       /\ k \in Nat
        /\ \A k \in DOMAIN queue[s] : k = 1 \/ \E j \in DOMAIN queue'[s] : queue'[s][j] = queue[s][k]
        /\ DOMAIN queue'[s] = 1 .. (Len(queue[s]) - 1) /\ Len(queue[s]) \in Nat
    <2>1. queue[s] \in Seq(Messages) /\ queue[s] # <<>>
      BY <1>1, QueueType
    <2>2. /\ Head(queue[s]) = queue[s][1] /\ Len(queue[s]) \in Nat \ {0}
          /\ DOMAIN queue[s] = 1 .. Len(queue[s])
          /\ DOMAIN queue'[s] = 1 .. (Len(queue[s]) - 1)
          /\ \A k \in DOMAIN queue'[s] : k + 1 \in DOMAIN queue[s] /\ queue'[s][k] = queue[s][k + 1]
          /\ \A k \in DOMAIN queue[s] :
                k = 1 \/ (k - 1 \in DOMAIN queue'[s] /\ queue'[s][k - 1] = queue[s][k])
      BY <1>1, <2>1, Tailed
    <2>. QED  BY <2>2
  <1>3. /\ Ascending(queue[s]) /\ NoGap(s)
        /\ \A k \in DOMAIN queue[s] : queue[s][k].index < NextIndex(s)
    BY DEF Delivery, Delivered, InOrder
  <1>4. NextIndex(s)' = NextIndex(s)
    BY <1>1 DEF NextIndex
  <1>5. \A k \in DOMAIN queue[s] : queue[s][k].index \in Nat
    BY QueueType
  <1>6. ASSUME NEW k \in DOMAIN cache[s], cache[s][k].index > last'[s]
        PROVE  Coming(s, cache[s][k])'
    <2>1. cache[s][k].index \in Nat /\ last'[s] \in Nat /\ last'[s] = queue[s][1].index
      BY <1>1, <1>2, <1>5, NextIndexType
    <2>2. Coming(s, cache[s][k]) /\ cache[s][k] # queue[s][1]
      BY <1>1, <1>3, <1>6, <2>1 DEF NoGap
    <2>. QED  BY <1>1, <1>2, <2>2 DEF Coming
  <1>7. InOrder(s)'
    <2>1. ASSUME NEW j \in DOMAIN queue'[s], NEW k \in DOMAIN queue'[s], j < k
          PROVE  queue'[s][j].index < queue'[s][k].index
      <3>1. j + 1 < k + 1 /\ j + 1 \in DOMAIN queue[s] /\ k + 1 \in DOMAIN queue[s]
        BY <1>2, <2>1
      <3>. QED  BY <1>2, <1>3, <3>1 DEF Ascending
    <2>. QED  BY <1>1, <1>2, <1>3, <1>4, <2>1 DEF InOrder, Ascending
  <1>8. NoGap(s)'
    <2>. SUFFICES ASSUME queue'[s] # <<>>, NEW k \in DOMAIN cache[s],
                         cache[s][k].index >= queue'[s][1].index
                  PROVE  Coming(s, cache[s][k])'
      BY <1>1 DEF NoGap
    <2>1. 1 \in DOMAIN queue'[s]
      <3>1. queue'[s] \in Seq(Messages)
        BY <1>1, QueueType, Tailed
      <3>. QED  BY <3>1, EmptySeq, LenProperties
    <2>2. queue'[s][1] = queue[s][2] /\ 2 \in DOMAIN queue[s]
      <3>1. 1 + 1 \in DOMAIN queue[s] /\ queue'[s][1] = queue[s][1 + 1] /\ 1 + 1 = 2
        BY <1>2, <2>1
      <3>. QED  BY <3>1
    <2>3. last'[s] < queue'[s][1].index /\ last'[s] \in Nat /\ queue'[s][1].index \in Nat
      BY <1>1, <1>2, <1>3, <1>5, <2>2 DEF Ascending
    <2>4. cache[s][k].index \in Nat
      BY NextIndexType
    <2>. QED  BY <1>6, <2>3, <2>4
  <1>9. Delivered(s)'
    BY <1>1, <1>6, <1>7, <1>8 DEF Delivered, Complete
  <1>10. ASSUME NEW t \in Streams \ {s} PROVE Delivered(t)'
    BY <1>1, <1>10, DeliveredElse DEF Delivery
  <1>11. PushesNewest'
    <2>. SUFFICES ASSUME worker = "pushing" PROVE PushesNewest'
      BY <1>1 DEF PushesNewest
    <2>1. BlockedStream \in Streams /\ BlockedStream' = BlockedStream /\ BlockedMessage' = BlockedMessage
      BY <1>1 DEF BlockedOn, BlockedStream, BlockedMessage
    <2>2. \A k \in DOMAIN queue'[BlockedStream] :
             \E j \in DOMAIN queue[BlockedStream] : queue'[BlockedStream][k] = queue[BlockedStream][j]
      <3>1. CASE BlockedStream = s
        BY <1>2, <3>1
      <3>2. CASE BlockedStream # s
        BY <1>1, <2>1, <3>2
      <3>. QED  BY <3>1, <3>2
    <2>. QED  BY <1>1, <2>1, <2>2 DEF PushesNewest
  <1>. QED  BY <1>9, <1>10, <1>11 DEF Delivery

\* A resumed stream is given all that the cache has from where the client stopped.
LEMMA ResumeDelivers ==
    ASSUME TypeOK, Numbered, Delivery, ResumesWhereLeft,
           NEW s \in Streams, NEW i \in 0 .. MaxEvents, WorkerResume(s, i)
    PROVE  Delivery' /\ PushesNewest'
  <1>1. /\ worker = "selecting" /\ UNCHANGED <<cache, last, worker, blocked>>
        /\ Takes(<<"resume", <<s, i>>>>) /\ i \in Nat
    BY StreamableSessionAssumption DEF WorkerResume, Takes, Selecting, StreamableSessionAssumption
  <1>2. i = ResumeIndex(s)
    <2>1. 1 \in DOMAIN events /\ events[1] = <<"resume", <<s, i>>>>
      BY <1>1, Taken
    <2>2. Resumes(events[1], s) /\ events[1][2][2] = i
      BY <2>1 DEF Resumes
    <2>. QED  BY <2>1, <2>2 DEF ResumesWhereLeft
  <1>3. PushesNewest'
    BY <1>1 DEF PushesNewest
  <1>4. ASSUME NEW t \in Streams, queue'[t] = queue[t], reading'[t] = reading[t] PROVE Delivered(t)'
    BY <1>1, <1>4, DeliveredElse DEF Delivery
  <1>5. CASE UNCHANGED <<reading, queue>>
    BY <1>3, <1>4, <1>5 DEF Delivery
  <1>6. CASE /\ reading' = [reading EXCEPT ![s] = TRUE]
             /\ queue' = [queue EXCEPT ![s] = Replay(s, i)]
    <2>1. /\ queue'[s] = Replay(s, i) /\ reading'[s]
          /\ \A t \in Streams \ {s} : queue'[t] = queue[t] /\ reading'[t] = reading[t]
      BY <1>6 DEF TypeOK
    <2>2. PICK d \in Nat :
             /\ d = IF cache[s] = <<>> \/ i < cache[s][1].index THEN 0 ELSE i - cache[s][1].index
             /\ DOMAIN queue'[s] = 1 .. (Len(cache[s]) - d)
             /\ \A k \in DOMAIN queue'[s] : k + d \in DOMAIN cache[s] /\ queue'[s][k] = cache[s][k + d]
      <3>1. \E d \in Nat :
               /\ d = IF cache[s] = <<>> \/ i < cache[s][1].index THEN 0 ELSE i - cache[s][1].index
               /\ DOMAIN Replay(s, i) = 1 .. (Len(cache[s]) - d)
               /\ \A k \in DOMAIN Replay(s, i) :
                     k + d \in DOMAIN cache[s] /\ Replay(s, i)[k] = cache[s][k + d]
        BY <1>1, ReplayMessages
      <3>. QED  BY <2>1, <3>1, Zenon
    <2>3. queue'[s] \in Seq(Messages)
      BY <1>1, <2>1, ReplayMessages
    <2>4. CASE cache[s] = <<>>
      <3>1. DOMAIN queue'[s] = {} /\ cache'[s] = <<>>
        BY <1>1, <2>2, <2>4
      <3>2. queue'[s] = <<>>
        <4>. SUFFICES ASSUME queue'[s] # <<>> PROVE FALSE
          OBVIOUS
        <4>1. Len(queue'[s]) \in Nat \ {0} /\ DOMAIN queue'[s] = 1 .. Len(queue'[s])
          BY <2>3, EmptySeq, LenProperties
        <4>2. 1 \in DOMAIN queue'[s]
          BY <4>1
        <4>. QED  BY <3>1, <4>2
      <3>3. Delivered(s)'
        BY <2>1, <3>1, <3>2 DEF Delivered, InOrder, Ascending, NoGap, Complete
      <3>. QED  BY <1>3, <1>4, <2>1, <3>3 DEF Delivery
    <2>5. CASE cache[s] # <<>>
      <3>1. PICK f \in Nat, n \in Nat :
               /\ f = cache[s][1].index /\ n = Len(cache[s]) /\ NextIndex(s) = f + n
               /\ DOMAIN cache[s] = 1 .. n
               /\ \A k \in DOMAIN cache[s] : cache[s][k].index = f + k - 1
        BY <2>5, NumbersOf, NextIndexType
      <3>2. NextIndex(s)' = f + n
        <4>1. NextIndex(s)' = NextIndex(s)
          BY <1>1 DEF NextIndex
        <4>. QED  BY <3>1, <4>1
      <3>3. /\ DOMAIN queue'[s] = 1 .. (n - d)
            /\ \A k \in DOMAIN queue'[s] : queue'[s][k].index = f + (k + d) - 1
        BY <2>2, <3>1
      <3>4. \A k \in 1 .. n : k - d >= 1 =>
               k - d \in DOMAIN queue'[s] /\ queue'[s][k - d] = cache[s][k]
        <4>1. ASSUME NEW k \in 1 .. n, k - d >= 1
              PROVE  k - d \in DOMAIN queue'[s] /\ queue'[s][k - d] = cache[s][k]
          <5>1. k - d \in 1 .. (n - d) /\ (k - d) + d = k
            BY <4>1
          <5>. QED  BY <2>2, <3>3, <5>1
        <4>. QED  BY <4>1
      <3>5. ASSUME NEW k \in 1 .. n, k - d >= 1 PROVE Coming(s, cache[s][k])'
        BY <1>1, <3>4, <3>5 DEF Coming
      <3>6. InOrder(s)'
        <4>1. \A j, k \in DOMAIN queue'[s] : j < k => queue'[s][j].index < queue'[s][k].index
          BY <3>3
        <4>2. \A k \in DOMAIN queue'[s] : queue'[s][k].index < f + n
          BY <3>3
        <4>. QED  BY <2>1, <3>2, <4>1, <4>2 DEF InOrder, Ascending
      <3>7. NoGap(s)'
        <4>. SUFFICES ASSUME queue'[s] # <<>>, NEW k \in 1 .. n,
                             cache[s][k].index >= queue'[s][1].index
                      PROVE  k - d >= 1
          BY <1>1, <3>1, <3>5 DEF NoGap
        <4>1. 1 \in DOMAIN queue'[s]
          BY <2>3, EmptySeq, LenProperties
        <4>2. queue'[s][1].index = f + (1 + d) - 1 /\ cache[s][k].index = f + k - 1
          BY <3>1, <3>3, <4>1
        <4>. QED  BY <4>2
      <3>8. Complete(s)'
        <4>. SUFFICES ASSUME NEW k \in 1 .. n, cache[s][k].index > last[s]
                      PROVE  k - d >= 1
          BY <1>1, <3>1, <3>5 DEF Complete
        <4>1. f + k - 1 > last[s] /\ last[s] \in Nat \cup {-1}
          BY <3>1 DEF TypeOK
        <4>2. i = IF last[s] < 0 THEN 0 ELSE last[s]
          BY <1>2 DEF ResumeIndex
        <4>3. d = IF i < f THEN 0 ELSE i - f
          BY <2>2, <2>5, <3>1
        <4>. QED  BY <1>1, <4>1, <4>2, <4>3
      <3>9. Delivered(s)'
        BY <3>6, <3>7, <3>8 DEF Delivered
      <3>. QED  BY <1>3, <1>4, <2>1, <3>9 DEF Delivery
    <2>. QED  BY <2>4, <2>5
  <1>. QED  BY <1>5, <1>6 DEF WorkerResume

\* A new stream has nothing to give.
LEMMA EstablishDelivers ==
    ASSUME TypeOK, AskedOnce, GivenInOrder, Routing, FreshCaches, Delivery,
           NEW p \in Posts, WorkerEstablish(p)
    PROVE  Delivery' /\ PushesNewest'
  <1>1. PICK s \in HttpIds : s = nextHttp
    BY EstablishedId
  <1>2. /\ s \in Streams /\ s >= nextHttp
        /\ reading' = [reading EXCEPT ![s] = TRUE] /\ worker = "selecting"
        /\ UNCHANGED <<cache, queue, last, worker, blocked>>
    BY <1>1, IdNumbers DEF WorkerEstablish, Takes, Selecting
  <1>3. cache[s] = <<>> /\ queue[s] = <<>>
    BY <1>2 DEF FreshCaches, Routing, FreshStreams, Delivery, Delivered, InOrder
  <1>4. Delivered(s)'
    BY <1>2, <1>3 DEF Delivered, InOrder, Ascending, NoGap, Complete, TypeOK
  <1>5. ASSUME NEW t \in Streams \ {s} PROVE Delivered(t)'
    <2>1. reading'[t] = reading[t]
      BY <1>2 DEF TypeOK
    <2>. QED  BY <1>2, <2>1, DeliveredElse DEF Delivery
  <1>6. PushesNewest'
    BY <1>2 DEF PushesNewest
  <1>. QED  BY <1>4, <1>5, <1>6 DEF Delivery

\* What the steps do to the channels.
LEMMA DeliverySteps ==
    ASSUME TypeOK, TypeOK', BlockedOn, AskedOnce, GivenInOrder, Routing, Numbered, FreshCaches,
           ResumesWhereLeft, Delivery, PushesNewest, [Next]_vars
    PROVE  Delivery' /\ PushesNewest'
  <1>1. ASSUME UNCHANGED <<cache, queue, reading, last>>, worker # "pushing", worker' # "pushing"
        PROVE  Delivery' /\ PushesNewest'
    <2>1. ASSUME NEW s \in Streams PROVE Delivered(s)'
      BY <1>1, DeliveredElse DEF Delivery
    <2>. QED  BY <1>1, <2>1 DEF Delivery, PushesNewest
  <1>2. ASSUME UNCHANGED <<cache, queue, reading, last, worker, blocked>>
        PROVE  Delivery' /\ PushesNewest'
    <2>1. ASSUME NEW s \in Streams PROVE Delivered(s)'
      BY <1>2, DeliveredElse DEF Delivery
    <2>. QED  BY <1>2, <2>1 DEF Delivery, PushesNewest, BlockedStream, BlockedMessage
  <1>3. ASSUME NEW s \in Streams, Receive(s) PROVE Delivery' /\ PushesNewest'
    BY <1>3, ReceiveDelivers
  <1>4. ASSUME NEW s \in Streams, Disconnect(s) PROVE Delivery' /\ PushesNewest'
    <2>1. /\ queue'[s] = <<>> /\ ~reading'[s] /\ UNCHANGED <<cache, last, worker, blocked>>
          /\ \A t \in Streams \ {s} : queue'[t] = queue[t] /\ reading'[t] = reading[t]
      BY <1>4 DEF Disconnect, TypeOK
    <2>2. Delivered(s)'
      BY <2>1 DEF Delivered, InOrder, Ascending, NoGap, Complete
    <2>3. ASSUME NEW t \in Streams \ {s} PROVE Delivered(t)'
      BY <2>1, DeliveredElse DEF Delivery
    <2>4. PushesNewest'
      <3>. SUFFICES ASSUME worker = "pushing" PROVE PushesNewest'
        BY <2>1 DEF PushesNewest
      <3>1. BlockedStream \in Streams /\ BlockedStream' = BlockedStream /\ BlockedMessage' = BlockedMessage
        BY <2>1 DEF BlockedOn, BlockedStream, BlockedMessage
      <3>2. queue'[BlockedStream] \in {queue[BlockedStream], <<>>}
        BY <2>1, <3>1
      <3>. QED  BY <2>1, <3>1, <3>2 DEF PushesNewest
    <2>. QED  BY <2>2, <2>3, <2>4 DEF Delivery
  <1>5. CASE PushContinues
    BY <1>5, PushContinuesDelivers
  <1>6. ASSUME NEW s \in Streams, NEW i \in 0 .. MaxEvents, WorkerResume(s, i)
        PROVE  Delivery' /\ PushesNewest'
    BY <1>6, ResumeDelivers
  <1>7. ASSUME NEW p \in Posts, WorkerEstablish(p) PROVE Delivery' /\ PushesNewest'
    BY <1>7, EstablishDelivers
  <1>8. ASSUME NEW m \in Outgoing, WorkerFromHandler(m) PROVE Delivery' /\ PushesNewest'
    <2>1. UNCHANGED <<reading, last>> /\ worker = "selecting"
      BY <1>8 DEF WorkerFromHandler, Selecting
    <2>2. CASE Route(m) = Common \/ Route(m) \in open'
      <3>1. Route(m) \in Streams
        BY <2>2, IdNumbers DEF TypeOK, Streams
      <3>2. Emit(Route(m), Message(NextIndex(Route(m)), m))
        BY <1>8, <2>2 DEF WorkerFromHandler, HandleServerMessage
      <3>3. /\ Message(NextIndex(Route(m)), m) \in Messages
            /\ Message(NextIndex(Route(m)), m).index = NextIndex(Route(m))
        BY <3>1, NextIndexType DEF Message, Messages
      <3>. QED  BY <2>1, <3>1, <3>2, <3>3, EmitDelivers
    <2>3. CASE ~(Route(m) = Common \/ Route(m) \in open')
      BY <1>2, <1>8, <2>1, <2>3 DEF WorkerFromHandler, HandleServerMessage
    <2>. QED  BY <2>2, <2>3
  <1>9. ASSUME \/ \E p \in Posts : WorkerPost(p)
               \/ \E r \in Requests : WorkerCancelled(r)
               \/ \E k \in HttpIds : WorkerCloseStream(k)
               \/ HandContinues
               \/ (WorkerEnds /\ worker = "selecting")
        PROVE  Delivery' /\ PushesNewest'
    <2>1. /\ UNCHANGED <<cache, queue, reading, last>> /\ worker # "pushing"
          /\ worker' # "pushing"
      BY <1>9 DEF WorkerPost, WorkerCancelled, WorkerCloseStream, Hand, HandContinues, WorkerEnds,
                  Takes, Selecting
    <2>. QED  BY <1>1, <2>1
  <1>10. ASSUME \/ \E p \in Posts : StartPost(p) \/ AskForStream(p) \/ PushPost(p) \/ PostFails(p)
                \/ \E r \in Requests : CancelRequest(r)
                \/ \E s \in Streams : Get(s)
                \/ \E k \in HttpIds : CloseStream(k)
                \/ Delete \/ SendClose \/ DeleteFails \/ DropManager
                \/ ServiceReceive \/ ServiceStops \/ ServiceEnds \/ UNCHANGED vars
         PROVE  Delivery' /\ PushesNewest'
    <2>1. UNCHANGED <<cache, queue, reading, last, worker, blocked>>
      BY <1>10 DEF StartPost, AskForStream, PushPost, PostFails, CancelRequest, Get, CloseStream,
                   Delete, SendClose, DeleteFails, DropManager, Raise, ServiceReceive, ServiceStops,
                   ServiceEnds, vars
    <2>. QED  BY <1>2, <2>1
  <1>. QED
    BY <1>3, <1>4, <1>5, <1>6, <1>7, <1>8, <1>9, <1>10
    DEF Next, ClientStep, WorkerEvent, WorkerClosed, WorkerAbandoned, WorkerCancelledByTransport,
        WorkerWaits, Selecting, Terminated

\* The channels of the streams that are read hold what is still to be given.
LEMMA DeliveryKept == Spec => [](Delivery /\ PushesNewest)
  <1>1. Init => Delivery /\ PushesNewest
    BY DEF Init, Delivery, Delivered, InOrder, Ascending, NoGap, Complete, PushesNewest
  <1>. QED
    BY <1>1, DeliverySteps, IdsInOrder, RoutesKept, NumbersKept, ResumesInPlace, PTL DEF Spec

\* A stream that is read holds every cached message its client has not received, for any capacity
\* and any number of readers that leave and come back: nothing is lost between the cache and the
\* channel that resume puts in its place.
THEOREM DeliversAll == Spec => []NothingLost
  <1>1. Delivery => NothingLost
    BY DEF Delivery, Delivered, Complete, Coming, NothingLost
  <1>. QED  BY <1>1, DeliveryKept, PTL

-----------------------------------------------------------------------------
\* ---- the log a client follows
\* The client has received nothing that is still to be sent, and its channel holds nothing older
\* than what it received last.
Behind(s) ==
    /\ last[s] < NextIndex(s)
    /\ \A k \in DOMAIN queue[s] : queue[s][k].index >= last[s]
Follows == \A s \in Streams : Behind(s)

\* The next index and the oldest event of a stream depend on its cache alone.
LEMMA SameCache ==
    ASSUME NEW s \in Streams, cache'[s] = cache[s]
    PROVE  NextIndex(s)' = NextIndex(s) /\ Oldest(s)' = Oldest(s)
  BY DEF NextIndex, Oldest

\* A stream goes on following when nothing it has not received is taken from its channel.
LEMMA FollowsElse ==
    ASSUME NEW s \in Streams, Behind(s), cache'[s] = cache[s], last'[s] = last[s],
           \A k \in DOMAIN queue'[s] : \E j \in DOMAIN queue[s] : queue'[s][k] = queue[s][j]
    PROVE  Behind(s)'
  BY SameCache DEF Behind

\* A message at the end of a channel, no older than the last the client received.
LEMMA FollowsPush ==
    ASSUME TypeOK, NEW s \in Streams, NEW m \in Messages, queue' = [queue EXCEPT ![s] = Append(@, m)],
           m.index >= last[s], \A k \in DOMAIN queue[s] : queue[s][k].index >= last[s]
    PROVE  /\ \A k \in DOMAIN queue'[s] : queue'[s][k].index >= last[s]
           /\ \A t \in Streams \ {s} : queue'[t] = queue[t]
  <1>1. queue'[s] = Append(queue[s], m) /\ \A t \in Streams \ {s} : queue'[t] = queue[t]
    BY DEF TypeOK
  <1>2. /\ \A k \in DOMAIN queue[s] : queue'[s][k] = queue[s][k]
        /\ queue'[s][Len(queue[s]) + 1] = m
        /\ \A k \in DOMAIN queue'[s] : k \in DOMAIN queue[s] \/ k = Len(queue[s]) + 1
    BY <1>1, QueueType, Appended
  <1>. QED  BY <1>1, <1>2

\* A message sent on a stream is newer than what the client received.
LEMMA EmitFollows ==
    ASSUME TypeOK, Numbered, Follows, NEW s \in Streams, NEW m \in Messages,
           m.index = NextIndex(s), Emit(s, m), UNCHANGED last
    PROVE  Follows'
  <1>1. NextIndex(s)' = m.index + 1 /\ \A t \in Streams \ {s} : cache'[t] = cache[t]
    BY NumberedEmit, CachedMessage DEF Emit
  <1>2. m.index \in Nat /\ last[s] \in Nat \cup {-1} /\ last[s] < m.index
    BY DEF Messages, TypeOK, Follows, Behind
  <1>3. CASE UNCHANGED queue
    <2>1. Behind(s)'
      BY <1>1, <1>2, <1>3 DEF Follows, Behind
    <2>. QED  BY <1>1, <1>3, <2>1, FollowsElse DEF Follows
  <1>4. CASE queue' = [queue EXCEPT ![s] = Append(@, m)]
    <2>1. /\ \A k \in DOMAIN queue'[s] : queue'[s][k].index >= last[s]
          /\ \A t \in Streams \ {s} : queue'[t] = queue[t]
      BY <1>2, <1>4, FollowsPush DEF Follows, Behind
    <2>2. Behind(s)'
      BY <1>1, <1>2, <2>1 DEF Behind
    <2>. QED  BY <1>1, <2>1, <2>2, FollowsElse DEF Follows
  <1>. QED  BY <1>3, <1>4 DEF Emit

\* The message the worker waited to push is the newest of its stream.
LEMMA PushFollows ==
    ASSUME TypeOK, BlockedOn, Numbered, PushesNewest, Follows, PushContinues
    PROVE  Follows'
  <1>1. PICK s \in Streams, m \in Messages : blocked = <<"stream", <<s, m>>>>
    BY DEF PushContinues, BlockedOn
  <1>2. /\ worker = "pushing" /\ BlockedStream = s /\ BlockedMessage = m
        /\ UNCHANGED <<cache, last>>
    BY <1>1 DEF PushContinues, BlockedStream, BlockedMessage
  <1>3. CASE UNCHANGED queue
    BY <1>2, <1>3, FollowsElse DEF Follows
  <1>4. CASE queue' = [queue EXCEPT ![s] = Append(@, m)]
    <2>1. NextIndex(s) = m.index + 1
      BY <1>2, NextIndexType DEF PushesNewest
    <2>2. m.index \in Nat /\ last[s] \in Nat \cup {-1} /\ last[s] < m.index + 1
      BY <2>1 DEF Messages, TypeOK, Follows, Behind
    <2>3. /\ \A k \in DOMAIN queue'[s] : queue'[s][k].index >= last[s]
          /\ \A t \in Streams \ {s} : queue'[t] = queue[t]
      BY <1>4, <2>2, FollowsPush DEF Follows, Behind
    <2>4. Behind(s)'
      BY <1>2, <2>3, SameCache DEF Follows, Behind
    <2>. QED  BY <1>2, <2>3, <2>4, FollowsElse DEF Follows
  <1>. QED  BY <1>2, <1>3, <1>4 DEF PushContinues

\* What the client takes from the channel is older than what stays in it.
LEMMA ReceiveFollows ==
    ASSUME TypeOK, Delivery, Follows, NEW s \in Streams, Receive(s)
    PROVE  /\ Follows'
           /\ reading[s] /\ queue[s] # <<>> /\ 1 \in DOMAIN queue[s] /\ UNCHANGED cache
           /\ last' = [last EXCEPT ![s] = queue[s][1].index]
           /\ queue[s][1].index \in Nat
  <1>1. /\ queue[s] # <<>> /\ reading[s] /\ queue'[s] = Tail(queue[s])
        /\ \A t \in Streams \ {s} : queue'[t] = queue[t] /\ last'[t] = last[t]
        /\ last' = [last EXCEPT ![s] = Head(queue[s]).index]
        /\ UNCHANGED cache
    BY DEF Receive, TypeOK
  <1>2. queue[s] \in Seq(Messages)
    BY QueueType
  <1>3. /\ Head(queue[s]) = queue[s][1]
        /\ \A k \in DOMAIN Tail(queue[s]) : k + 1 \in DOMAIN queue[s] /\ Tail(queue[s])[k] = queue[s][k + 1]
        /\ DOMAIN Tail(queue[s]) = 1 .. (Len(queue[s]) - 1) /\ Len(queue[s]) \in Nat
    BY <1>1, <1>2, Tailed
  <1>4. 1 \in DOMAIN queue[s] /\ \A k \in DOMAIN queue[s] : queue[s][k].index \in Nat
    BY <1>1, QueueType
  <1>5. Ascending(queue[s]) /\ \A k \in DOMAIN queue[s] : queue[s][k].index < NextIndex(s)
    BY DEF Delivery, Delivered, InOrder
  <1>6. last'[s] = queue[s][1].index
    BY <1>1, <1>3 DEF TypeOK
  <1>7. ASSUME NEW k \in DOMAIN queue'[s] PROVE queue'[s][k].index >= last'[s]
    <2>1. k + 1 \in DOMAIN queue[s] /\ queue'[s][k] = queue[s][k + 1] /\ 1 < k + 1
      BY <1>1, <1>3, <1>7
    <2>2. queue[s][1].index < queue[s][k + 1].index
      BY <1>4, <1>5, <2>1 DEF Ascending
    <2>. QED  BY <1>4, <1>6, <2>1, <2>2
  <1>8. last'[s] < NextIndex(s)'
    BY <1>1, <1>4, <1>5, <1>6, SameCache
  <1>9. Behind(s)'
    BY <1>7, <1>8 DEF Behind
  <1>10. ASSUME NEW t \in Streams \ {s} PROVE Behind(t)'
    BY <1>1, <1>10, FollowsElse DEF Follows
  <1>. QED  BY <1>1, <1>3, <1>4, <1>9, <1>10 DEF Follows

\* A resumed stream is filled from where the client stopped.
LEMMA ResumeFollows ==
    ASSUME TypeOK, Numbered, ResumesWhereLeft, Follows,
           NEW s \in Streams, NEW i \in 0 .. MaxEvents, WorkerResume(s, i)
    PROVE  Follows'
  <1>1. UNCHANGED <<cache, last>> /\ Takes(<<"resume", <<s, i>>>>) /\ i \in Nat
    BY StreamableSessionAssumption DEF WorkerResume, StreamableSessionAssumption
  <1>2. i = ResumeIndex(s)
    <2>1. 1 \in DOMAIN events /\ events[1] = <<"resume", <<s, i>>>>
      BY <1>1, Taken
    <2>2. Resumes(events[1], s) /\ events[1][2][2] = i
      BY <2>1 DEF Resumes
    <2>. QED  BY <2>1, <2>2 DEF ResumesWhereLeft
  <1>3. CASE UNCHANGED queue
    BY <1>1, <1>3, FollowsElse DEF Follows
  <1>4. CASE queue' = [queue EXCEPT ![s] = Replay(s, i)]
    <2>1. queue'[s] = Replay(s, i) /\ \A t \in Streams \ {s} : queue'[t] = queue[t]
      BY <1>4 DEF TypeOK
    <2>2. ASSUME NEW k \in DOMAIN Replay(s, i) PROVE Replay(s, i)[k].index >= last[s]
      <3>1. PICK d \in Nat :
               /\ d = IF cache[s] = <<>> \/ i < cache[s][1].index THEN 0 ELSE i - cache[s][1].index
               /\ DOMAIN Replay(s, i) = 1 .. (Len(cache[s]) - d)
               /\ k + d \in DOMAIN cache[s] /\ Replay(s, i)[k] = cache[s][k + d]
        BY <1>1, <2>2, ReplayMessages
      <3>2. cache[s] # <<>>
        BY <3>1
      <3>3. PICK f \in Nat, n \in Nat :
               /\ f = cache[s][1].index
               /\ \A j \in DOMAIN cache[s] : j \in 1 .. n /\ cache[s][j].index = f + j - 1
        BY <3>2, NumbersOf
      <3>4. k \in Nat /\ k >= 1
        BY <3>1, NextIndexType
      <3>5. Replay(s, i)[k].index = f + (k + d) - 1
        BY <3>1, <3>3
      <3>6. d = IF i < f THEN 0 ELSE i - f
        BY <3>1, <3>2, <3>3
      <3>7. last[s] \in Nat \cup {-1} /\ i = IF last[s] < 0 THEN 0 ELSE last[s]
        BY <1>2 DEF TypeOK, ResumeIndex
      <3>8. f + (k + d) - 1 >= i /\ i >= last[s]
        BY <1>1, <3>4, <3>6, <3>7
      <3>. QED  BY <1>1, <3>4, <3>5, <3>7, <3>8
    <2>3. Behind(s)'
      BY <1>1, <2>1, <2>2, SameCache DEF Follows, Behind
    <2>. QED  BY <1>1, <2>1, <2>3, FollowsElse DEF Follows
  <1>. QED  BY <1>3, <1>4 DEF WorkerResume

\* What the steps do to what the client follows.
LEMMA FollowSteps ==
    ASSUME TypeOK, TypeOK', BlockedOn, AskedOnce, GivenInOrder, Routing, Numbered, FreshCaches,
           ResumesWhereLeft, Delivery, PushesNewest, Follows, [Next]_vars
    PROVE  Follows'
  <1>1. ASSUME UNCHANGED <<cache, last>>,
               \A s \in Streams : queue'[s] = queue[s] \/ queue'[s] = <<>>
        PROVE  Follows'
    BY <1>1, FollowsElse DEF Follows
  <1>2. ASSUME NEW s \in Streams, Receive(s) PROVE Follows'
    BY <1>2, ReceiveFollows
  <1>3. ASSUME NEW s \in Streams, Disconnect(s) PROVE Follows'
    BY <1>1, <1>3 DEF Disconnect, TypeOK
  <1>4. CASE PushContinues
    BY <1>4, PushFollows
  <1>5. ASSUME NEW s \in Streams, NEW i \in 0 .. MaxEvents, WorkerResume(s, i) PROVE Follows'
    BY <1>5, ResumeFollows
  <1>6. ASSUME NEW m \in Outgoing, WorkerFromHandler(m) PROVE Follows'
    <2>1. UNCHANGED last
      BY <1>6 DEF WorkerFromHandler
    <2>2. CASE UNCHANGED cache /\ UNCHANGED queue
      BY <1>1, <2>1, <2>2
    <2>3. ASSUME NEW s \in Streams, Emit(s, Message(NextIndex(s), m)),
                 Message(NextIndex(s), m) \in Messages
          PROVE  Follows'
      <3>1. Message(NextIndex(s), m).index = NextIndex(s)
        BY DEF Message
      <3>. QED  BY <2>1, <2>3, <3>1, EmitFollows
    <2>4. CASE Route(m) = Common \/ Route(m) \in open'
      <3>1. Route(m) \in Streams
        BY <2>4, IdNumbers DEF TypeOK, Streams
      <3>2. Emit(Route(m), Message(NextIndex(Route(m)), m))
        BY <1>6, <2>4 DEF WorkerFromHandler, HandleServerMessage
      <3>3. Message(NextIndex(Route(m)), m) \in Messages
        BY <3>1, NextIndexType DEF Message, Messages
      <3>. QED  BY <2>3, <3>1, <3>2, <3>3
    <2>5. CASE ~(Route(m) = Common \/ Route(m) \in open')
      BY <1>6, <2>2, <2>5 DEF WorkerFromHandler, HandleServerMessage
    <2>. QED  BY <2>4, <2>5
  <1>7. ASSUME UNCHANGED <<cache, queue, last>> PROVE Follows'
    BY <1>1, <1>7
  <1>8. ASSUME \/ \E p \in Posts : WorkerEstablish(p) \/ WorkerPost(p)
               \/ \E r \in Requests : WorkerCancelled(r)
               \/ \E k \in HttpIds : WorkerCloseStream(k)
               \/ WorkerEnds \/ HandContinues
        PROVE  UNCHANGED <<cache, queue, last>>
    BY <1>8 DEF WorkerEstablish, WorkerPost, WorkerCancelled, WorkerCloseStream, WorkerEnds, HandContinues
  <1>9. ASSUME \/ \E p \in Posts : StartPost(p) \/ AskForStream(p) \/ PushPost(p) \/ PostFails(p)
               \/ \E r \in Requests : CancelRequest(r)
               \/ \E s \in Streams : Get(s)
               \/ \E k \in HttpIds : CloseStream(k)
               \/ Delete \/ SendClose \/ DeleteFails \/ DropManager
               \/ ServiceReceive \/ ServiceStops \/ ServiceEnds \/ UNCHANGED vars
        PROVE  UNCHANGED <<cache, queue, last>>
    BY <1>9 DEF StartPost, AskForStream, PushPost, PostFails, CancelRequest, Get, CloseStream,
                Delete, SendClose, DeleteFails, DropManager, Raise, ServiceReceive, ServiceStops,
                ServiceEnds, vars
  <1>. QED
    BY <1>2, <1>3, <1>4, <1>5, <1>6, <1>7, <1>8, <1>9
    DEF Next, ClientStep, WorkerEvent, WorkerClosed, WorkerAbandoned, WorkerCancelledByTransport,
        WorkerWaits, Terminated

\* The client has received nothing that is still to come.
LEMMA FollowsKept == Spec => []Follows
  <1>1. Init => Follows
    BY DEF Init, Follows, Behind, NextIndex
  <1>. QED
    BY <1>1, FollowSteps, IdsInOrder, RoutesKept, NumbersKept, ResumesInPlace, DeliveryKept, PTL
    DEF Spec

\* A message sent on a stream is an event of its log.
LEMMA EmitPublishes ==
    ASSUME TypeOK, Numbered, NEW s \in Streams, NEW m \in Messages, m.index = NextIndex(s),
           Emit(s, m), UNCHANGED last
    PROVE  Logged!Publish(s)
  <1>1. PICK d \in {0, 1} :
                /\ Len(cache'[s]) = Len(cache[s]) + 1 - d /\ (d = 0 <=> Len(cache[s]) < Capacity)
                /\ \A k \in DOMAIN cache'[s] : k # Len(cache'[s]) =>
                      k + d \in DOMAIN cache[s] /\ cache'[s][k] = cache[s][k + d]
    BY CachedMessage DEF Emit
  <1>2. /\ \A t \in Streams \ {s} : cache'[t] = cache[t]
        /\ Len(cache'[s]) \in Nat /\ cache'[s] # <<>>
        /\ DOMAIN cache'[s] = 1 .. Len(cache'[s]) /\ cache'[s][Len(cache'[s])] = m
    BY CachedMessage DEF Emit
  <1>3. NextIndex(s)' = NextIndex(s) + 1 /\ Numbered'
    BY NumberedEmit DEF Emit
  <1>4. \A t \in Streams \ {s} : NextIndex(t)' = NextIndex(t) /\ Oldest(t)' = Oldest(t)
    BY <1>2, SameCache
  <1>5. Oldest(s)' = IF NextIndex(s) - Oldest(s) < Capacity THEN Oldest(s) ELSE Oldest(s) + 1
    <2>1. CASE cache[s] = <<>>
      <3>1. Len(cache[s]) = 0 /\ Capacity \in Nat \ {0} /\ NextIndex(s) = 0 /\ Oldest(s) = 0
        BY <2>1, StreamableSessionAssumption DEF StreamableSessionAssumption, NextIndex, Oldest
      <3>2. Len(cache'[s]) = 1
        BY <1>1, <3>1
      <3>3. Oldest(s)' = 0
        BY <1>2, <3>1, <3>2 DEF Oldest
      <3>. QED  BY <3>1, <3>3
    <2>2. CASE cache[s] # <<>>
      <3>1. PICK f \in Nat, n \in Nat :
               /\ f = cache[s][1].index /\ n = Len(cache[s]) /\ NextIndex(s) = f + n
               /\ \A k \in DOMAIN cache[s] : k \in 1 .. n /\ cache[s][k].index = f + k - 1
        BY <2>2, NumbersOf
      <3>2. 1 \in DOMAIN cache'[s] /\ Oldest(s) = f /\ Oldest(s)' = cache'[s][1].index
        BY <1>2, <2>2, <3>1, EmptySeq DEF Oldest
      <3>3. cache'[s][1].index = f + d
        <4>1. CASE Len(cache'[s]) = 1
          <5>1. n = d /\ cache'[s][1] = m
            BY <1>1, <1>2, <3>1, <4>1
          <5>. QED  BY <3>1, <5>1
        <4>2. CASE Len(cache'[s]) # 1
          <5>1. 1 + d \in DOMAIN cache[s] /\ cache'[s][1] = cache[s][1 + d]
            BY <1>1, <3>2, <4>2
          <5>. QED  BY <3>1, <5>1
        <4>. QED  BY <4>1, <4>2
      <3>4. d = IF n < Capacity THEN 0 ELSE 1
        BY <1>1, <3>1
      <3>5. NextIndex(s) - Oldest(s) = n
        BY <3>1, <3>2
      <3>. QED  BY <3>2, <3>3, <3>4, <3>5
    <2>. QED  BY <2>1, <2>2
  <1>. QED  BY <1>3, <1>4, <1>5 DEF Logged!Publish

\* What the client receives comes next, or what it misses is forgotten, or it has it already.
LEMMA ReceiveReads ==
    ASSUME TypeOK, BlockedOn, Numbered, Delivery, PushesNewest, Follows, NEW s \in Streams, Receive(s)
    PROVE  \/ UNCHANGED <<cache, last>>
           \/ UNCHANGED cache /\ \E i \in last[s] + 1 .. NextIndex(s) - 1 : Logged!Receive(s, i)
  <1>1. /\ reading[s] /\ queue[s] # <<>> /\ 1 \in DOMAIN queue[s] /\ UNCHANGED cache
        /\ last' = [last EXCEPT ![s] = queue[s][1].index]
    BY ReceiveFollows
  <1>2. PICK i \in Nat : i = queue[s][1].index
    BY ReceiveFollows
  <1>3. /\ i >= last[s] /\ i < NextIndex(s) /\ last[s] \in Nat \cup {-1} /\ NextIndex(s) \in Nat
    BY <1>1, <1>2, NextIndexType DEF Follows, Behind, Delivery, Delivered, InOrder, TypeOK
  <1>4. CASE i = last[s]
    BY <1>1, <1>2, <1>4 DEF TypeOK
  <1>5. CASE i # last[s]
    <2>1. i \in last[s] + 1 .. NextIndex(s) - 1
      BY <1>3, <1>5
    <2>2. ASSUME NEW j \in last[s] + 1 .. i - 1 PROVE j < Oldest(s)
      <3>1. CASE cache[s] = <<>>
        BY <1>3, <3>1 DEF NextIndex
      <3>2. CASE cache[s] # <<>>
        <4>1. PICK f \in Nat, n \in Nat :
                 /\ f = cache[s][1].index /\ n = Len(cache[s]) /\ NextIndex(s) = f + n
                 /\ DOMAIN cache[s] = 1 .. n
                 /\ \A k \in DOMAIN cache[s] : cache[s][k].index = f + k - 1
          BY <3>2, NumbersOf, NextIndexType
        <4>. SUFFICES ASSUME j >= f PROVE FALSE
          BY <1>3, <3>2, <4>1 DEF Oldest
        <4>2. j \in Int /\ last[s] < j /\ j < i
          BY <1>3
        <4>3. PICK k \in 1 .. n : k = j - f + 1
          <5>1. j < f + n
            BY <1>3, <4>1, <4>2
          <5>2. j - f + 1 \in 1 .. n
            BY <4>2, <5>1
          <5>. QED  BY <5>2
        <4>4. cache[s][k].index = j
          <5>1. cache[s][k].index = f + k - 1
            BY <4>1
          <5>2. k \in Int /\ f + k - 1 = j
            BY <4>2, <4>3
          <5>. QED  BY <5>1, <5>2
        <4>5. Coming(s, cache[s][k])
          BY <1>1, <4>1, <4>2, <4>4 DEF Delivery, Delivered, Complete
        <4>6. ASSUME NEW h \in DOMAIN queue[s], queue[s][h] = cache[s][k] PROVE FALSE
          <5>1. queue[s][h].index = j /\ h \in Nat /\ h >= 1
            BY <4>4, <4>6, QueueType
          <5>2. h = 1 \/ i < j
            BY <1>1, <1>2, <5>1 DEF Delivery, Delivered, InOrder, Ascending
          <5>. QED  BY <1>2, <4>2, <5>1, <5>2
        <4>7. ASSUME worker = "pushing", blocked = <<"stream", <<s, cache[s][k]>>>> PROVE FALSE
          <5>1. BlockedStream = s /\ BlockedMessage = cache[s][k]
            BY <4>7 DEF BlockedStream, BlockedMessage
          <5>2. i < j
            BY <1>1, <1>2, <4>4, <4>7, <5>1 DEF PushesNewest
          <5>. QED  BY <4>2, <5>2
        <4>. QED  BY <4>5, <4>6, <4>7 DEF Coming
      <3>. QED  BY <3>1, <3>2
    <2>3. UNCHANGED <<[t \in Streams |-> NextIndex(t)], [t \in Streams |-> Oldest(t)]>>
      BY <1>1, SameCache
    <2>4. \A j \in last[s] + 1 .. i - 1 : j < [t \in Streams |-> Oldest(t)][s]
      BY <2>2
    <2>5. Logged!Receive(s, i)
      BY <1>1, <1>2, <2>3, <2>4 DEF Logged!Receive
    <2>. QED  BY <1>1, <2>1, <2>5
  <1>. QED  BY <1>4, <1>5

\* Whoever reads a stream of a session, leaves and resumes it as often as it likes receives its
\* events in order, and misses only what the cache of the stream has evicted, for any capacity and
\* any number of streams and events: a session implements EventLog.
THEOREM FollowsLog == Spec => ImplementsEventLog
  <1>1. Init => Logged!Init
    BY DEF Init, NextIndex, Oldest, Logged!Init
  <1>2. TypeOK /\ BlockedOn /\ Numbered /\ Delivery /\ PushesNewest /\ Follows /\ [Next]_vars
          => [Logged!Next]_(Logged!vars)
    <2>. SUFFICES ASSUME TypeOK, BlockedOn, Numbered, Delivery, PushesNewest, Follows, [Next]_vars
                  PROVE  Logged!Next \/ UNCHANGED Logged!vars
      OBVIOUS
    <2>1. ASSUME UNCHANGED <<cache, last>> PROVE UNCHANGED Logged!vars
      BY <2>1, SameCache DEF Logged!vars
    <2>2. ASSUME NEW s \in Streams, Receive(s) PROVE Logged!Next \/ UNCHANGED Logged!vars
      BY <2>1, <2>2, ReceiveReads DEF Logged!Next
    <2>3. ASSUME NEW m \in Outgoing, NEW s \in Streams, WorkerFromHandler(m),
                 Emit(s, Message(NextIndex(s), m)), Message(NextIndex(s), m) \in Messages
          PROVE  Logged!Next
      <3>1. Message(NextIndex(s), m).index = NextIndex(s) /\ UNCHANGED last
        BY <2>3 DEF Message, WorkerFromHandler
      <3>2. Logged!Publish(s)
        BY <2>3, <3>1, EmitPublishes
      <3>. QED  BY <3>2 DEF Logged!Next
    <2>4. UNCHANGED last \/ \E s \in Streams : Receive(s)
      BY DEF Next, ClientStep, StartPost, AskForStream, PushPost, PostFails, CancelRequest, Get,
             Disconnect, CloseStream, Delete, SendClose, DeleteFails, DropManager, Raise, WorkerEvent,
             WorkerEstablish, WorkerPost, WorkerCancelled, WorkerCloseStream, WorkerResume,
             WorkerClosed, WorkerAbandoned, WorkerEnds, WorkerWaits, HandContinues, PushContinues,
             WorkerCancelledByTransport, WorkerFromHandler, ServiceReceive, ServiceStops, ServiceEnds,
             Terminated, vars
    <2>. QED  BY <2>1, <2>2, <2>3, <2>4, CacheSteps
  <1>. QED
    BY <1>1, <1>2, FollowsKept, DeliveryKept, IdsInOrder, NumbersKept, PTL
    DEF Spec, ImplementsEventLog, Logged!Spec

=============================================================================
