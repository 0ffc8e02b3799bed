---------------------------- MODULE MCServiceLoop ----------------------------
(***************************************************************************)
(* Instances of ServiceLoop for TLC.  RemoteId is a function of the        *)
(* requests: each its own id, or two of them the same.                     *)
(***************************************************************************)
EXTENDS ServiceLoop

CONSTANTS q1, q2, q3

OwnIds == [h \in Requests |-> CASE h = q1 -> 1 [] h = q2 -> 2 [] OTHER -> 3]
SharedIds == [h \in Requests |-> IF h = q3 THEN 2 ELSE 1]

=============================================================================
