----------------------------- MODULE MCSessions -----------------------------
(***************************************************************************)
(* What the people who sign in have at the server, their accounts and their *)
(* streams, in one run for TLC.  The situation is chosen at the start and   *)
(* kept (plan): two desk requests at a time about two admins; one desk      *)
(* request at a time against the visits of an admin and of a second         *)
(* account, which may be new; or streams that come and go.                  *)
(***************************************************************************)
EXTENDS Sessions, MCStream

CONSTANTS u1, u2, d1, d2

VARIABLE plan

\* The desk against itself, against bans at Clerk and events that arrive late.
Desks ==
  /\ plan = "desks"
  /\ \/ \E s \in Slot : DeskSteps(s)
     \/ \E u \in User : BanAtClerk(u)
     \/ \E e \in events : Webhook(e)

Visits ==
  /\ plan = "visits"
  /\ \/ DeskSteps(d1)
     \/ \E u \in User : VisitSteps(u)
     \/ EditProfile(u2)
     \/ \E e \in events : Webhook(e)

\* The module whose turn it is not rests.
Signed == (Desks \/ Visits) /\ UNCHANGED streamVars
Streams == plan = "streams" /\ StreamNext /\ UNCHANGED accountVars

\* One admin, where the accounts rest.
Begin ==
  /\ StreamInit /\ AccountsInit /\ envAdmins \subseteq {u2} /\ row[u1] # NULL
  /\ \/ plan = "desks" /\ row[u2] # NULL /\ envAdmins = {}
     \/ plan = "visits"
     \/ plan = "streams" /\ row[u2] = NULL /\ envAdmins = {}

PlanSpec ==
  /\ Begin
  /\ [][(Signed \/ Streams) /\ UNCHANGED plan]_<<accountVars, streamVars, plan>>
  /\ \/ plan = "visits" /\ AccountsFairness
     \/ plan = "streams" /\ StreamFairness
     \/ plan = "desks"

\* In the other situations nobody visits.
CacheOfVisitorsSettles == plan = "visits" => CacheSettles
=============================================================================
