------------------------------- MODULE Sessions -------------------------------
(***************************************************************************)
(* What the people who sign in have at the server: their accounts and the   *)
(* streams of their consoles.  They share no state: a stream is opened with *)
(* the role of the moment and never looks at the account again.             *)
(***************************************************************************)
EXTENDS Accounts, Stream

\* TypeOK of the accounts, the desk's requests and the events from Clerk, and of
\* the streams, the fan-out table and the commands to Redis.
SessionsTypeOK == AccountsTypeOK /\ StreamTypeOK
=============================================================================
