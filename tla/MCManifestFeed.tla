--------------------------- MODULE MCManifestFeed ---------------------------
(***************************************************************************)
(* Instances of ManifestFeed for TLC: two situations in one run.  The       *)
(* situation is chosen at the start and kept (plan).                        *)
(***************************************************************************)
EXTENDS ManifestFeed

CONSTANTS c1, d1, h1, k1, k2

VARIABLE plan

\* A sign-out empties the store under a refresh that holds a delta for it.
Emptied(d) == d \in mixed \/ (phone[d] = NULL /\ fetch[d][k1] # Idle /\ fetch[d][k1].since # NULL)

\* Every write of the control room, and one refresh at a time; from such a sign-out
\* on the control room rests.
One == /\ plan = "one" /\ Next
       /\ \A d \in Device : fetch'[d][k2] = Idle
       /\ (\E d \in Device : Emptied(d)') => /\ \A h \in Handler : desk[h] = Idle
                                            /\ UNCHANGED <<pass, clock, desk>>

\* A phone with the manifest of an issued pass, which is revoked while two refreshes
\* overlap.
Overlap ==
  /\ plan = "overlap"
  /\ \/ \E c \in Code, h \in Handler : RevokePass(h, c)
     \/ \E h \in Handler : BumpManifestVersion(h) \/ CacheDel(h)
     \/ Expire
     \/ \E d \in Device, k \in Slot : \/ Serve(d, k) \/ Fail(d, k)
                                      \/ \E force \in BOOLEAN : Ask(d, k, force)

IssuedPass == [status |-> "ACTIVE", rejected |-> FALSE, stamp |-> 0, arrivedAt |-> NULL]
Holding == [meta |-> [version |-> 1, generatedAt |-> 0],
            rows |-> [c \in Code |-> [status |-> "ACTIVE", inside |-> FALSE]]]

Begin == \/ plan = "one" /\ Init
         \/ /\ plan = "overlap"
            /\ pass = [c \in Code |-> IssuedPass] /\ phone = [d \in Device |-> Holding]
            /\ version = 1 /\ clock = 0 /\ cache = NULL
            /\ desk = [h \in Handler |-> Idle]
            /\ fetch = [d \in Device |-> [k \in Slot |-> Idle]]
            /\ untold = {} /\ slipped = [d \in Device |-> {}] /\ mixed = {}

PlanSpec == /\ Begin /\ [][(One \/ Overlap) /\ UNCHANGED plan]_<<vars, plan>>
            /\ Others /\ \A d \in Device : Timer(d, k1)
=============================================================================
