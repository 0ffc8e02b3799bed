------------------------------ MODULE Transport ------------------------------
(***************************************************************************)
(* What a transport that acknowledges promises the service that sends over *)
(* it, without workers, channels and HTTP: messages reach the other side   *)
(* once and in the order they were sent, and one is passed over only when  *)
(* its sender was told that it failed.  What was acknowledged is lost only *)
(* together with everything sent after it.                                 *)
(***************************************************************************)
EXTENDS Naturals, Sequences, SequencesExt

CONSTANT Messages

VARIABLES
    sent,           \* the messages in the order they were sent
    delivered,      \* those that reached the other side, in order
    acknowledged,   \* the messages whose senders were told that they are through
    failed          \* the messages whose senders were told that they are not

vars == <<sent, delivered, acknowledged, failed>>

Init == sent = <<>> /\ delivered = <<>> /\ acknowledged = {} /\ failed = {}

Send(m) ==
    /\ ~Contains(sent, m) /\ sent' = Append(sent, m)
    /\ UNCHANGED <<delivered, acknowledged, failed>>

\* Everything sent before the k-th message was delivered or failed.  One that failed may
\* arrive late: its connection broke while it was under way.
Deliver(k) ==
    /\ ~Contains(delivered, sent[k])
    /\ sent[k] \in failed \/ {sent[i] : i \in 1 .. k - 1} \subseteq ToSet(delivered) \cup failed
    /\ delivered' = Append(delivered, sent[k])
    /\ UNCHANGED <<sent, acknowledged, failed>>

\* It is accepted, and cannot be passed over any more.
Acknowledge(m) ==
    /\ m \notin failed /\ Contains(sent, m) /\ acknowledged' = acknowledged \cup {m}
    /\ UNCHANGED <<sent, delivered, failed>>

\* Whether messages that failed arrive is open: the answer may have been lost, or they were
\* never sent because the transport is closed.
Fail(ms) ==
    /\ ms \cap acknowledged = {} /\ failed' = failed \cup ms
    /\ UNCHANGED <<sent, delivered, acknowledged>>

Next ==
    \/ \E m \in Messages : Send(m) \/ Acknowledge(m)
    \/ \E k \in DOMAIN sent : Deliver(k)
    \/ \E ms \in SUBSET Messages : Fail(ms)

Spec == Init /\ [][Next]_vars
=============================================================================
