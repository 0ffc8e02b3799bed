--------------------------- MODULE MCStreamableHttp ---------------------------
(***************************************************************************)
(* Instances of StreamableHttp for TLC.                                    *)
(***************************************************************************)
EXTENDS StreamableHttp

CONSTANTS r1, r2

\* The requests are alike: the one that is sent first is called r1.  The server's service
\* sends notifications while there is one request, and unless it stops.
FewThings ==
    /\ send[r2] # "none" => send[r1] # "none"
    /\ send[r2] # "none" \/ ~serving => \A c \in Streams : ToSet(log[c]) \cap Notes = {}
=============================================================================
