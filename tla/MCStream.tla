------------------------------ MODULE MCStream ------------------------------
(***************************************************************************)
(* Instances of Stream for TLC.                                             *)
(***************************************************************************)
EXTENDS Stream, TLC

CONSTANTS s1, s2, everybody, staff

\* A member of staff and a visitor.
TwoStreams == s1 :> <<everybody, staff>> @@ s2 :> <<everybody>>
=============================================================================
