------------------------------- MODULE EventLog -------------------------------
(***************************************************************************)
(* What the streams of a session promise a client that reads them, leaves  *)
(* and comes back, without the worker, its channels and the HTTP requests: *)
(* the events of a stream are numbered from 0 on, the newest Capacity of   *)
(* them are remembered, and a client receives them in the order of their   *)
(* numbers and misses only what was forgotten.                             *)
(***************************************************************************)
EXTENDS Integers

CONSTANTS Streams, Capacity

VARIABLES
    end,        \* the number the next event of each stream will have
    oldest,     \* the first event that is remembered, end when there is none
    last        \* the last event the client received, -1 for none

vars == <<end, oldest, last>>

Init ==
    /\ end = [s \in Streams |-> 0]
    /\ oldest = [s \in Streams |-> 0]
    /\ last = [s \in Streams |-> -1]

\* One more event; the oldest is forgotten when there were Capacity already.
Publish(s) ==
    /\ end' = [end EXCEPT ![s] = @ + 1]
    /\ oldest' = [oldest EXCEPT ![s] = IF end[s] - @ < Capacity THEN @ ELSE @ + 1]
    /\ UNCHANGED last

\* The client receives event i, and what it had not received before that is forgotten.
Receive(s, i) ==
    /\ \A j \in last[s] + 1 .. i - 1 : j < oldest[s]
    /\ last' = [last EXCEPT ![s] = i]
    /\ UNCHANGED <<end, oldest>>

\* A resumed stream may begin with the event the client received last, again: that
\* changes nothing here.
Next == \E s \in Streams : Publish(s) \/ \E i \in last[s] + 1 .. end[s] - 1 : Receive(s, i)

Spec == Init /\ [][Next]_vars
=============================================================================
