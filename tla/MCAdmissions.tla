---------------------------- MODULE MCAdmissions ----------------------------
(***************************************************************************)
(* The two halves of admissions in one run for TLC, chosen at the start and *)
(* kept (plan): registrations (Registration), with four requests if nothing *)
(* is approved and the desk only deletes, with three otherwise, and the     *)
(* list students are admitted by (Roster).                                  *)
(***************************************************************************)
EXTENDS MCRegistration, Roster

CONSTANTS v1, v2, x1, x2

VARIABLE plan

\* Two files about the same two students, which differ in every row.
TwoFiles == (x1 :> [f \in FormNumber |-> v1]) @@ (x2 :> [f \in FormNumber |-> v2])

Registering ==
  /\ Next /\ UNCHANGED rosterVars
  /\ \/ /\ plan = "students"
        /\ \A h \in Handler : /\ op'[h].kind \in {"idle", "lookup", "submit", "delete"}
                              /\ op'[h].kind = "submit" => ~op'[h].auto
     \/ plan = "desk" /\ started' < MaxOps

\* One preview and one student by hand at a time; once writes have crossed, the
\* requests that are being served are the last.
Listing ==
  /\ plan = "roster" /\ RosterNext /\ UNCHANGED vars
  /\ Cardinality(staged') <= 1
  /\ Cardinality({f \in FormNumber : byHand'[f] # Absent}) <= 1
  /\ crossed => \A a \in Admin : request[a] = NoRequest => request'[a] = NoRequest

AdmissionsInit == Init /\ RosterInit /\ plan \in {"students", "desk", "roster"}
AdmissionsSpec ==
  AdmissionsInit /\ [][(Registering \/ Listing) /\ UNCHANGED plan]_<<vars, rosterVars, plan>>

Alike == Symmetry \cup Permutations(Admin)
=============================================================================
