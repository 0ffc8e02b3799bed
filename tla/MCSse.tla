-------------------------------- MODULE MCSse --------------------------------
(***************************************************************************)
(* Instances of Sse for TLC.                                               *)
(***************************************************************************)
EXTENDS Sse

CONSTANTS m1, m2

\* The POSTs are alike: the one that is sent first is called m1.
FirstIsM1 == post[m2] # "none" => post[m1] # "none"
=============================================================================
