------------------------------ MODULE MCPhotos ------------------------------
(***************************************************************************)
(* Instances of Photos for TLC.                                             *)
(***************************************************************************)
EXTENDS Photos

CONSTANTS env, spare
TwoAccounts == <<env, spare>>
=============================================================================
