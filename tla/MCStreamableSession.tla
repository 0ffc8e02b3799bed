------------------------- MODULE MCStreamableSession -------------------------
(***************************************************************************)
(* Instances of StreamableSession for TLC: two requests, one POST each or  *)
(* both in one batch.                                                      *)
(***************************************************************************)
EXTENDS StreamableSession

CONSTANTS p1, p2, r1, r2

OnePost == [r \in Requests |-> p1]
OwnPosts == [r \in Requests |-> IF r = r1 THEN p1 ELSE p2]

\* A full cache evicts on one stream at a time.
FewEvents == NextIndex(0) + NextIndex(Common) <= MaxEvents

\* While a message waits for room on one stream, there may be one more on the other.
MostEvents == NextIndex(0) + NextIndex(Common) <= MaxEvents + 1
=============================================================================
