------------------------------ MODULE MCScans ------------------------------
(***************************************************************************)
(* Three situations of a scan in one run for TLC, chosen at the start and   *)
(* kept (plan): two situations of the sync endpoint, each with a pass of    *)
(* its own, and every input of decideScan: every kind of thing to read,     *)
(* every kind of row, a gate with and without a schedule, and clocks that   *)
(* run ahead of and behind the manifest.                                    *)
(***************************************************************************)
EXTENDS MCSyncServer, Verdicts

VARIABLE plan

Attempts == OnePass \cup TypedIn(c2)

\* Two overlapping requests for the single-use pass.
Race == /\ plan = "race" /\ RaceNext
        /\ pass'[c2] = NULL
        /\ \A e \in Event : scan'[e] # NULL => scan'[e].claim \in OnePass

\* One scan of the other pass, against every write of the control room and an attempt
\* of its own.
WithDesk == /\ plan = "desk" /\ Next
            /\ pass'[c1] = NULL
            /\ scan'[1] # NULL => scan'[1].claim \notin OnePass
            /\ scan'[2] = NULL
            /\ Cardinality({r \in Request : req'[r] # Idle}) <= 1

-----------------------------------------------------------------------------
Thing(method, form, code, signature, notAfter) ==
  [method |-> method, form |-> form, code |-> code, signature |-> signature, notAfter |-> notAfter]

AllRaws ==
  {Thing("QR", "ENVELOPE", c1, s, n) : s \in {"VALID", "INVALID", "UNKNOWN_KEY"}, n \in {1, 3}}
    \cup {Thing(m, "DIGITS", c1, "ABSENT", NULL) : m \in Methods}
    \cup {Thing(m, "OTHER", NULL, "ABSENT", NULL) : m \in Methods}

Rows == [status : PassStatuses, registration : RegistrationStatuses, checkedIn : BOOLEAN,
         scanLimit : {NULL, 0, 1, 2}, scansCount : {NULL, 0, 1, 2}]

Schedules == [opensAt : {NULL, 2}, closesAt : {NULL, 3}]

-----------------------------------------------------------------------------
\* The module whose turn it is not rests.
Sync == (Race \/ WithDesk) /\ UNCHANGED verdictVars
Judging == plan = "verdict" /\ VerdictNext /\ UNCHANGED vars

ScansInit ==
  /\ Init
  /\ \/ plan = "verdict" /\ VerdictInit
     \/ /\ plan \in {"race", "desk"}
        /\ raw = Thing("QR", "OTHER", NULL, "ABSENT", NULL) /\ known = NULL
        /\ gate = [opensAt |-> NULL, closesAt |-> NULL] /\ at = 0 /\ generatedAt = 0
ScansSpec == ScansInit /\ [][(Sync \/ Judging) /\ UNCHANGED plan]_<<vars, verdictVars, plan>>
=============================================================================
