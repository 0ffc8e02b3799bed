------------------------------- MODULE SseProofs -------------------------------
(***************************************************************************)
(* What holds of the SSE transport for any number of sessions and POSTs,   *)
(* any capacity of its channels and any retry policy.                      *)
(***************************************************************************)
EXTENDS Sse, SequenceTheorems, TLAPS

USE DEF client, server

\* ---- the channels
\* The channels of every session are sequences, and a client that reads, reads a session.
Channels ==
    /\ Attached => stream \in Sessions
    /\ toService \in [Sessions -> Seq(Posts)]
    /\ toClient \in [Sessions -> Seq(Posts \cup {Endpoint})]

\* ---- the retries
\* The count the policy is asked with is that of the failures since the stream was connected, though
\* it is reset where the stream breaks and not where it is connected; and no attempt is made that
\* the policy did not grant.
Counted ==
    /\ st \in {"opening", "starting", "connected"} => failed = 0
    /\ st \in {"retrying", "waiting"} =>
           failed = times /\ (times = 0 \/ MaxTimes = None \/ times < MaxTimes)

\* ---- the sessions
\* A session not yet made has nothing, and poll_close removes only a session whose service ended.
Fresh == \A s \in Sessions : s > used => ~conn[s] /\ svc[s] = "none" /\ ~removal[s]
RemovedAfterEnd == \A s \in Sessions : removal[s] => svc[s] = "ended"

\* ---- facts about the operators of the model
LEMMA Appended ==
    ASSUME NEW S, NEW s \in Seq(S), NEW x \in S
    PROVE  Append(s, x) \in Seq(S) /\ Len(Append(s, x)) = Len(s) + 1 /\ Len(s) \in Nat
  BY AppendProperties, LenProperties

LEMMA Tailed ==
    ASSUME NEW S, NEW s \in Seq(S), s # <<>>
    PROVE  /\ Head(s) \in S /\ Tail(s) \in Seq(S)
           /\ Len(s) \in Nat /\ Len(Tail(s)) = Len(s) - 1
  BY HeadTailProperties, LenProperties

\* Both bounds are numbers, and an attempt is counted within them.
LEMMA RetriesAreNumbers == Retries \subseteq Nat /\ 0 \in Retries
  BY SseAssumption DEF Retries

States == {"opening", "starting", "connected", "retrying", "waiting", "ended", "terminated",
           "panicked", "broken"}

\* A failed attempt concerns the client alone.
LEMMA AttemptTypes ==
    ASSUME TypeOK, AttemptFailed, st \in {"opening", "retrying"}
    PROVE  /\ st' \in States /\ times' \in Retries /\ failed' \in Nat
           /\ UNCHANGED <<stream, endpoint>> /\ ~Attached'
  BY RetriesAreNumbers DEF AttemptFailed, Policy, States, TypeOK, Attached

\* ---- types
LEMMA TypeSteps ==
    ASSUME TypeOK, Channels, [Next]_vars
    PROVE  TypeOK' /\ Channels'
  <1>. DEFINE Goal == TypeOK' /\ Channels'
  <1>0. /\ st \in States /\ times \in Retries /\ failed \in Nat
        /\ MaxSessions \in Nat /\ Capacity \in Nat \ {0} /\ used \in Nat
        /\ Retries \subseteq Nat /\ 0 \in Retries
    BY SseAssumption, RetriesAreNumbers DEF TypeOK, States
  <1>1. ASSUME UNCHANGED <<post, got, toClient, server>>,
               st' \in States, times' \in Retries, failed' \in Nat,
               {stream, endpoint}' \subseteq Sessions \cup {None}, Attached' => stream' \in Sessions
        PROVE  Goal
    BY <1>1 DEF TypeOK, Channels, States
  <1>2. CASE StartEvent \/ NextEvent
    <2>1. toClient[stream] # <<>> /\ toClient' = [toClient EXCEPT ![stream] = Tail(@)]
      BY <1>2 DEF StartEvent, NextEvent, Taken
    <2>2. ASSUME NEW s \in Sessions
          PROVE  /\ toClient'[s] \in Seq(Posts \cup {Endpoint}) /\ Len(toClient'[s]) <= Capacity
      BY <1>0, <2>1, Tailed DEF TypeOK, Channels
    <2>3. toClient' \in [Sessions -> Seq(Posts \cup {Endpoint})]
      BY <2>1, <2>2 DEF Channels
    <2>4. stream \in Sessions /\ Head(toClient[stream]) \in Posts \cup {Endpoint}
      BY <1>2, <2>1, Tailed DEF Channels, StartEvent, NextEvent, Attached
    <2>5. CASE StartEvent
      BY <2>2, <2>3, <2>4, <2>5 DEF StartEvent, TypeOK, Channels
    <2>6. CASE NextEvent
      BY <2>2, <2>3, <2>4, <2>6 DEF NextEvent, TypeOK, Channels, Attached
    <2>. QED  BY <1>2, <2>5, <2>6
  <1>3. CASE StreamError \/ StreamEnds \/ ConnectFails \/ SleepEnds
    BY <1>0, <1>1, <1>3, AttemptTypes
    DEF StreamError, StreamEnds, ConnectFails, SleepEnds, StartCount, TypeOK, States, Attached, Channels
  <1>4. CASE SseHandler
    <2>1. PICK s \in Sessions : s = used + 1
      BY <1>0, <1>4 DEF SseHandler, Sessions
    <2>2. /\ st \in {"opening", "retrying"}
          /\ used' = s /\ txs' = txs \cup {s} /\ conn' = [conn EXCEPT ![s] = TRUE]
          /\ cleanup' = [cleanup EXCEPT ![s] = "waiting"] /\ svc' = [svc EXCEPT ![s] = "queued"]
          /\ toClient' = [toClient EXCEPT ![s] = <<Endpoint>>]
          /\ UNCHANGED <<post, got, removal, toService, pending, accepting>>
          /\ \/ st' \in {"starting", "connected"} /\ stream' = s /\ failed' = 0 /\ UNCHANGED <<times, endpoint>>
             \/ AttemptFailed
      BY <1>4, <2>1 DEF SseHandler, Enter
    <2>3. /\ st' \in States /\ times' \in Retries /\ failed' \in Nat
          /\ {stream, endpoint}' \subseteq Sessions \cup {None} /\ (Attached' => stream' \in Sessions)
      BY <1>0, <2>2, AttemptTypes DEF TypeOK, States
    <2>4. /\ <<Endpoint>> \in Seq(Posts \cup {Endpoint}) /\ Len(<<Endpoint>>) <= Capacity
      BY <1>0
    <2>5. /\ toClient' \in [Sessions -> Seq(Posts \cup {Endpoint})]
          /\ \A r \in Sessions : Len(toClient'[r]) <= Capacity
      BY <2>2, <2>4 DEF TypeOK, Channels
    <2>6. used' \in 0 .. MaxSessions /\ txs' \subseteq 1 .. used'
      BY <1>0, <2>1, <2>2 DEF TypeOK, Sessions
    <2>. QED  BY <2>2, <2>3, <2>5, <2>6 DEF TypeOK, Channels, States
  <1>5. CASE SseHandlerRefused
    <2>1. used' \in 0 .. MaxSessions /\ txs' \subseteq 1 .. used'
      <3>1. used' = used + 1 /\ txs' = txs \cup {used + 1} /\ used < MaxSessions
        BY <1>5 DEF SseHandlerRefused, Enter
      <3>2. \A s \in txs : s \in 1 .. used
        BY DEF TypeOK
      <3>. QED  BY <1>0, <3>1, <3>2
    <2>2. /\ st' \in States /\ times' \in Retries /\ failed' \in Nat
          /\ UNCHANGED <<stream, endpoint>> /\ ~Attached'
      BY <1>5, AttemptTypes DEF SseHandlerRefused
    <2>. QED  BY <1>5, <2>1, <2>2 DEF SseHandlerRefused, TypeOK, Channels, States
  <1>6. ASSUME NEW m \in Posts, Send(m) \/ FindSession(m) \/ PostFails(m)
        PROVE  Goal
    BY <1>6 DEF Send, FindSession, PostFails, SetPost, TypeOK, Channels, Attached
  <1>7. ASSUME NEW m \in Posts, PostMessage(m)
        PROVE  Goal
    <2>1. post' \in [Posts -> {"none", "sent", "holding", "accepted", "not_found", "gone", "lost"}]
      BY <1>7 DEF PostMessage, SetPost, TypeOK
    <2>2. /\ toService' \in [Sessions -> Seq(Posts)]
          /\ \A s \in Sessions : Len(toService'[s]) <= Capacity
      <3>1. CASE UNCHANGED toService
        BY <3>1 DEF TypeOK, Channels
      <3>2. CASE /\ Room(toService[endpoint])
                 /\ toService' = [toService EXCEPT ![endpoint] = Append(@, m)]
        <4>1. ASSUME NEW s \in Sessions
              PROVE  toService'[s] \in Seq(Posts) /\ Len(toService'[s]) <= Capacity
          <5>1. toService[s] \in Seq(Posts) /\ Len(toService[s]) <= Capacity
            BY DEF TypeOK, Channels
          <5>2. CASE s = endpoint
            BY <1>0, <3>2, <5>1, <5>2, Appended DEF Room, Channels
          <5>. QED  BY <3>2, <5>1, <5>2 DEF Channels
        <4>. QED  BY <3>2, <4>1 DEF Channels
      <3>. QED  BY <1>7, <3>1, <3>2 DEF PostMessage
    <2>. QED  BY <1>7, <2>1, <2>2 DEF PostMessage, TypeOK, Channels, Attached
  <1>8. ASSUME NEW s \in Sessions, NextTransport(s) \/ Cleanup(s) \/ Removal(s)
        PROVE  Goal
    BY ZenonT(30), <1>8 DEF NextTransport, Cleanup, Removal, Remove, TypeOK, Channels, Attached
  <1>9. ASSUME NEW s \in Sessions, ServiceReceive(s)
        PROVE  Goal
    <2>1. /\ toService' \in [Sessions -> Seq(Posts)] /\ Head(toService[s]) \in Posts
          /\ \A r \in Sessions : Len(toService'[r]) <= Capacity
      BY <1>0, <1>9, Tailed DEF ServiceReceive, TypeOK, Channels
    <2>. QED  BY <1>9, <2>1 DEF ServiceReceive, TypeOK, Channels, Attached
  <1>10. ASSUME NEW s \in Sessions, NEW m \in Posts, ServiceReply(s, m)
         PROVE  Goal
    <2>1. /\ toClient' \in [Sessions -> Seq(Posts \cup {Endpoint})]
          /\ \A r \in Sessions : Len(toClient'[r]) <= Capacity
      <3>1. CASE UNCHANGED toClient
        BY <3>1 DEF TypeOK, Channels
      <3>2. CASE Room(toClient[s]) /\ toClient' = [toClient EXCEPT ![s] = Append(@, m)]
        BY <1>0, <3>2, Appended DEF Room, TypeOK, Channels
      <3>. QED  BY <1>10, <3>1, <3>2 DEF ServiceReply, Reply
    <2>. QED  BY <1>10, <2>1 DEF ServiceReply, TypeOK, Channels, Attached
  <1>11. ASSUME NEW s \in Sessions, End(s) \/ Disconnect(s)
         PROVE  Goal
    <2>1. <<>> \in Seq(Posts) /\ <<>> \in Seq(Posts \cup {Endpoint}) /\ Len(<<>>) <= Capacity
      BY <1>0
    <2>2. CASE Disconnect(s)
      BY <2>1, <2>2 DEF Disconnect, TypeOK, Channels, Attached
    <2>3. CASE End(s)
      <3>1. /\ removal' \in [Sessions -> BOOLEAN] /\ pending' \in [Sessions -> SUBSET Posts]
            /\ svc' \in [Sessions -> {"none", "queued", "running", "ended"}]
        BY <2>3 DEF End, TypeOK
      <3>2. toService' \in [Sessions -> Seq(Posts)] /\ \A r \in Sessions : Len(toService'[r]) <= Capacity
        BY <2>1, <2>3 DEF End, TypeOK, Channels
      <3>. QED  BY <2>3, <3>1, <3>2 DEF End, TypeOK, Channels, Attached
    <2>. QED  BY <1>11, <2>2, <2>3
  <1>12. CASE DropServer \/ UNCHANGED vars
    BY <1>12 DEF DropServer, vars, TypeOK, Channels, Attached
  <1>. QED
    BY <1>2, <1>3, <1>4, <1>5, <1>6, <1>7, <1>8, <1>9, <1>10, <1>11, <1>12
    DEF Next, ClientTurns, Handlers, Service, ServiceInputEnds, ServiceStops

LEMMA ChannelTyping == Spec => [](TypeOK /\ Channels)
  <1>1. Init => TypeOK /\ Channels
    <2>. SUFFICES ASSUME Init PROVE TypeOK /\ Channels
      OBVIOUS
    <2>1. /\ <<>> \in Seq(Posts) /\ <<>> \in Seq(Posts \cup {Endpoint})
          /\ Len(<<>>) <= Capacity /\ 0 \in 0 .. MaxSessions
      BY SseAssumption
    <2>. QED  BY <2>1, RetriesAreNumbers DEF Init, TypeOK, Channels, Attached
  <1>. QED  BY <1>1, TypeSteps, PTL DEF Spec

\* Every variable has its type: the channels of a session hold requests and the endpoint event, never
\* more than their places, and the count of the retries stays where the policy is defined.
THEOREM SseTyping == Spec => []TypeOK
  <1>. QED  BY ChannelTyping, PTL

\* ---- the retries
LEMMA CountSteps ==
    ASSUME TypeOK, Counted, GivesUpAfterMaxTimes, [Next]_vars
    PROVE  Counted' /\ GivesUpAfterMaxTimes'
  <1>. DEFINE Goal == Counted' /\ GivesUpAfterMaxTimes'
  <1>0. /\ failed \in Nat /\ times \in Nat /\ MaxTimes \in Nat \cup {None} /\ None \notin Nat
    BY SseAssumption, RetriesAreNumbers DEF TypeOK
  <1>1. ASSUME st \in {"opening", "retrying"}, AttemptFailed
        PROVE  Goal
    BY <1>0, <1>1 DEF AttemptFailed, Policy, Counted, GivesUpAfterMaxTimes
  <1>2. CASE ConnectFails \/ SseHandler \/ SseHandlerRefused
    BY <1>1, <1>2 DEF ConnectFails, SseHandler, SseHandlerRefused, Counted, GivesUpAfterMaxTimes
  <1>3. CASE StartEvent \/ NextEvent \/ StreamError \/ StreamEnds \/ SleepEnds
    BY <1>3 DEF StartEvent, NextEvent, StreamError, StreamEnds, SleepEnds, Attached, Running,
                StartCount, Counted, GivesUpAfterMaxTimes
  <1>4. CASE \/ \E m \in Posts : Send(m) \/ FindSession(m) \/ PostMessage(m) \/ PostFails(m)
             \/ \E s \in Sessions : Service(s) \/ Disconnect(s) \/ Cleanup(s) \/ Removal(s)
             \/ DropServer \/ UNCHANGED vars
    <2>1. UNCHANGED client
      BY <1>4 DEF Send, FindSession, PostMessage, PostFails, Service, NextTransport, ServiceReceive,
                  ServiceReply, ServiceInputEnds, ServiceStops, End, Disconnect, Cleanup, Removal,
                  DropServer, vars
    <2>. QED  BY <2>1 DEF Counted, GivesUpAfterMaxTimes
  <1>. QED  BY <1>2, <1>3, <1>4 DEF Next, ClientTurns, Handlers

\* However often the stream broke and was connected before, the client gives up after exactly as many
\* failures in a row as its policy allows, at least one: for every policy, with or without a limit.
THEOREM GivesUpInTime == Spec => []GivesUpAfterMaxTimes
  <1>1. Init => Counted /\ GivesUpAfterMaxTimes
    BY DEF Init, Counted, GivesUpAfterMaxTimes
  <1>. QED  BY <1>1, CountSteps, SseTyping, PTL DEF Spec

\* ---- the sessions
LEMMA SessionSteps ==
    ASSUME TypeOK, Fresh, RemovedAfterEnd, OpenSessionIsFound, [Next]_vars
    PROVE  Fresh' /\ RemovedAfterEnd' /\ OpenSessionIsFound'
  <1>. DEFINE Goal == Fresh' /\ RemovedAfterEnd' /\ OpenSessionIsFound'
  <1>. USE DEF Receiving
  <1>0. /\ conn \in [Sessions -> BOOLEAN] /\ removal \in [Sessions -> BOOLEAN] /\ used \in Nat
        /\ svc \in [Sessions -> {"none", "queued", "running", "ended"}] /\ txs \subseteq 1 .. used
        /\ Sessions \subseteq Nat
    BY DEF TypeOK, Sessions
  <1>1. CASE SseHandler
    <2>1. PICK s \in Sessions : s = used + 1
      BY <1>0, <1>1, SseAssumption DEF SseHandler, Sessions
    <2>2. /\ used' = s /\ txs' = txs \cup {s} /\ conn' = [conn EXCEPT ![s] = TRUE]
          /\ svc' = [svc EXCEPT ![s] = "queued"] /\ UNCHANGED removal
      BY <1>1, <2>1 DEF SseHandler, Enter
    <2>3. ~removal[s] /\ \A r \in Sessions : r > used' => r > used /\ r # s
      BY <1>0, <2>1, <2>2 DEF Fresh
    <2>. QED  BY <1>0, <2>2, <2>3 DEF Fresh, RemovedAfterEnd, OpenSessionIsFound
  <1>2. CASE SseHandlerRefused
    BY <1>0, <1>2 DEF SseHandlerRefused, Enter, Fresh, RemovedAfterEnd, OpenSessionIsFound
  <1>3. ASSUME NEW s \in Sessions, NextTransport(s)
        PROVE  Goal
    BY <1>0, <1>3 DEF NextTransport, Fresh, RemovedAfterEnd, OpenSessionIsFound
  <1>4. ASSUME NEW s \in Sessions, End(s)
        PROVE  Goal
    BY <1>0, <1>4 DEF End, Fresh, RemovedAfterEnd, OpenSessionIsFound
  <1>5. ASSUME NEW s \in Sessions, Disconnect(s)
        PROVE  Goal
    BY <1>0, <1>5 DEF Disconnect, Fresh, RemovedAfterEnd, OpenSessionIsFound
  <1>6. ASSUME NEW s \in Sessions, Cleanup(s)
        PROVE  Goal
    BY <1>0, <1>6 DEF Cleanup, Closed, Fresh, RemovedAfterEnd, OpenSessionIsFound
  <1>7. ASSUME NEW s \in Sessions, Removal(s)
        PROVE  Goal
    BY <1>0, <1>7 DEF Removal, Remove, Fresh, RemovedAfterEnd, OpenSessionIsFound
  <1>8. CASE \/ ClientTurns \/ DropServer \/ UNCHANGED vars
             \/ \E m \in Posts : Send(m) \/ FindSession(m) \/ PostMessage(m) \/ PostFails(m)
             \/ \E s \in Sessions : ServiceReceive(s) \/ \E m \in Posts : ServiceReply(s, m)
    <2>1. UNCHANGED <<used, txs, conn, removal, svc>>
      BY <1>8 DEF ClientTurns, StartEvent, NextEvent, StreamError, StreamEnds, ConnectFails, SleepEnds,
                  DropServer, vars, Send, FindSession, PostMessage, PostFails, ServiceReceive, ServiceReply
    <2>. QED  BY <2>1 DEF Fresh, RemovedAfterEnd, OpenSessionIsFound
  <1>. QED
    BY <1>1, <1>2, <1>3, <1>4, <1>5, <1>6, <1>7, <1>8
    DEF Next, Handlers, Service, ServiceInputEnds, ServiceStops

\* A POST finds the session whose stream is open and whose service is there, however the two tasks
\* that clean up after other sessions, and after its own, are scheduled.
THEOREM SessionsAreFound == Spec => []OpenSessionIsFound
  <1>1. Init => Fresh /\ RemovedAfterEnd /\ OpenSessionIsFound
    BY DEF Init, Fresh, RemovedAfterEnd, OpenSessionIsFound
  <1>. QED  BY <1>1, SessionSteps, SseTyping, PTL DEF Spec
=============================================================================
