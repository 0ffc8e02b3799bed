---------------------------- MODULE RequestCalls ----------------------------
(***************************************************************************)
(* What Peer::send_request promises its callers, without the loop, its     *)
(* channels and its tasks: a call returns at most once, and whatever it    *)
(* returns has a cause that came before.                                   *)
(***************************************************************************)
CONSTANTS Calls, Timed

VARIABLES
    phase,          \* idle, pending, returned or dropped
    outcome,        \* what the call returned
    answered,       \* calls the remote has answered
    failed,         \* calls of which a message could not be sent
    cancelAsked,    \* calls somebody asked to cancel
    up              \* the service has not begun to stop

vars == <<phase, outcome, answered, failed, cancelAsked, up>>

Init ==
    /\ phase = [c \in Calls |-> "idle"]
    /\ outcome = [c \in Calls |-> "None"]
    /\ answered = {} /\ failed = {} /\ cancelAsked = {}
    /\ up = TRUE

Begun == {c \in Calls : phase[c] # "idle"}

Justified(c, o) ==
    \/ o \in {"Ok", "McpError"} /\ c \in answered
    \/ o = "TransportSend" /\ c \in failed
    \/ o = "TransportClosed" /\ (~up \/ c \in failed)
    \/ o \in {"Cancelled", "CancelSent"} /\ c \in cancelAsked
    \/ o = "Timeout" /\ c \in Timed \cap cancelAsked

Move(c, from, to) ==
    /\ phase[c] = from
    /\ phase' = [phase EXCEPT ![c] = to]
    /\ UNCHANGED <<answered, failed, cancelAsked, up>>

Begin(c) == Move(c, "idle", "pending") /\ UNCHANGED outcome
Drop(c) == Move(c, "pending", "dropped") /\ UNCHANGED outcome
Return(c, o) ==
    /\ Justified(c, o)
    /\ Move(c, "pending", "returned")
    /\ outcome' = [outcome EXCEPT ![c] = o]

\* The remote answers, perhaps several requests in one batch, perhaps twice.
Answer == /\ \E C \in SUBSET Begun : answered' = answered \cup C
          /\ UNCHANGED <<phase, outcome, failed, cancelAsked, up>>
Fail(c) == failed' = failed \cup {c} /\ UNCHANGED <<phase, outcome, answered, cancelAsked, up>>
AskCancel(c) == cancelAsked' = cancelAsked \cup {c}
                /\ UNCHANGED <<phase, outcome, answered, failed, up>>
Stop == up' = FALSE /\ UNCHANGED <<phase, outcome, answered, failed, cancelAsked>>

Outcomes == {"Ok", "McpError", "TransportSend", "TransportClosed", "Cancelled",
             "CancelSent", "Timeout"}

Next ==
    \/ \E c \in Calls : Begin(c) \/ Drop(c) \/ (\E o \in Outcomes : Return(c, o))
    \/ \E c \in Begun : Fail(c) \/ AskCancel(c)
    \/ Answer \/ Stop

Spec == Init /\ [][Next]_vars
=============================================================================
