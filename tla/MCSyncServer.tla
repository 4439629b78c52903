---------------------------- MODULE MCSyncServer ----------------------------
(***************************************************************************)
(* Instances of SyncServer for TLC.                                         *)
(***************************************************************************)
EXTENDS SyncServer, TLC

CONSTANTS c1, c2, d1, d2, r1, r2

QR(c, sig)  == [method |-> "QR", form |-> "ENVELOPE", code |-> c, signature |-> sig, notAfter |-> 9]
Keypad(c)   == [method |-> "MANUAL_CODE", form |-> "DIGITS", code |-> c,
                signature |-> "ABSENT", notAfter |-> NULL]
BareQR(c)   == [method |-> "QR", form |-> "DIGITS", code |-> c,
                signature |-> "ABSENT", notAfter |-> NULL]

Scan(raw, t, outcome, overridden, guests) ==
  [raw |-> raw, scannedAt |-> t, outcome |-> outcome,
   overridden |-> overridden, guests |-> guests]

Symmetry == Permutations(Device) \cup Permutations(Request)

\* One pass, let in by the phone that read it.
OnePass == {Scan(QR(c1, "VALID"), 0, "ADMITTED", FALSE, 0)}

\* A pass typed in, and one the phone refused.
TypedIn(c) == {Scan(Keypad(c), 0, o, FALSE, 0) : o \in {"ADMITTED", "REVOKED"}}

\* A pass let in before the gate opens, by a volunteer's override.
EarlyOverride == {Scan(Keypad(c1), 0, "ADMITTED", TRUE, 0)}

\* Every step but the control room's changes to a pass.
RaceNext == \/ \E r \in Request : Serve(r) \/ Crash(r)
            \/ \E c \in Code : IssuePass(c) \/ RecordManualCheckIn(c, 0) \/ ReverseCheckIn(c)
            \/ Phones
RaceSpec == Init /\ [][RaceNext]_vars
=============================================================================
