------------------------------ MODULE Arrivals ------------------------------
(***************************************************************************)
(* What the gate promises (D2, D9 and D23 of docs/01-decisions.md): every   *)
(* attempt gets one final verdict; a pass is inside because of one attempt, *)
(* and that attempt's verdict is ADMITTED; an attempt on a single-use pass   *)
(* is ADMITTED only by bringing it in.  The control room may reverse an      *)
(* arrival, which rewrites no verdict.                                       *)
(***************************************************************************)
CONSTANTS NULL, Attempt, Pass, MultiUse, Outcome

VARIABLES verdict,  \* what is on record of each attempt, or NULL
          entered   \* the attempt that brought each pass in, or NULL

vars == <<verdict, entered>>

Init == /\ verdict = [a \in Attempt |-> NULL]
        /\ entered = [p \in Pass |-> NULL]

Record(a, p, o) ==
  /\ verdict[a] = NULL
  /\ verdict' = [verdict EXCEPT ![a] = [pass |-> p, outcome |-> o]]

Refuse(a, p, o) == o # "ADMITTED" /\ Record(a, p, o) /\ UNCHANGED entered

Enter(a, p) ==
  /\ entered[p] = NULL
  /\ Record(a, p, "ADMITTED")
  /\ entered' = [entered EXCEPT ![p] = a]

\* A pass with several scans comes through again.
EnterAgain(a, p) == p \in MultiUse /\ Record(a, p, "ADMITTED") /\ UNCHANGED entered

Reverse(p) ==
  /\ entered[p] # NULL
  /\ entered' = [entered EXCEPT ![p] = NULL]
  /\ UNCHANGED verdict

Next ==
  \/ \E a \in Attempt :
       \/ \E p \in Pass \cup {NULL}, o \in Outcome : Refuse(a, p, o)
       \/ \E p \in Pass : Enter(a, p) \/ EnterAgain(a, p)
  \/ \E p \in Pass : Reverse(p)

Spec == Init /\ [][Next]_vars
=============================================================================
