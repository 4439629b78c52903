------------------------------- MODULE MCGate -------------------------------
(***************************************************************************)
(* Instances of Gate for TLC.                                               *)
(***************************************************************************)
EXTENDS Gate, TLC

CONSTANTS c1, d1, d2, r1, r2, k1, k2

QR(c)     == [method |-> "QR", form |-> "ENVELOPE", code |-> c,
              signature |-> "VALID", notAfter |-> 9]
Keypad(c) == [method |-> "MANUAL_CODE", form |-> "DIGITS", code |-> c,
              signature |-> "ABSENT", notAfter |-> NULL]

OneQR == {QR(c1)}
OneCode == {Keypad(c1)}

Clock == 0..MaxNow + MaxEvent + 2
Claims == [raw : Raw, scannedAt : Clock, outcome : Outcomes, overridden : BOOLEAN,
           guests : 0..MaxGuests]

Symmetry == Permutations(Device) \cup Permutations(Request) \cup Permutations(Slot)

\* The gate is open: every pass is issued and every phone holds its manifest of
\* time 1. The registrations were last written at time t: for t = 2 they were
\* reopened and approved again after the manifest, so deltas carry their rows.
Companions == IF MaxGuests > 0 THEN MaxGuests - 1 ELSE 0
IssuedPass == [status |-> "ACTIVE", registration |-> "APPROVED", scanLimit |-> 1,
               guestCount |-> Companions]
IssuedRow == [status |-> "ACTIVE", registration |-> "APPROVED", checkedIn |-> FALSE,
              scanLimit |-> 1, scansCount |-> 0, guestCount |-> Companions]
Opened(t) ==
  /\ scan = [e \in Event |-> NULL] /\ scanEvent = [e \in Event |-> NULL]
  /\ pass = [c \in Code |-> IssuedPass] /\ checkIn = [c \in Code |-> NULL]
  /\ scanCount = [d \in Device |-> 0] /\ blocked = {} /\ reversed = {}
  /\ req = [r \in Request |-> Server!Idle]
  /\ store = [d \in Device |-> [c \in Code |-> IssuedRow]]
  /\ meta = [d \in Device |-> [version |-> 1, generatedAt |-> 1]]
  /\ queue = [d \in Device |-> [e \in Event |-> NULL]]
  /\ busy = [d \in Device |-> NULL] /\ drain = [d \in Device |-> Phone!NotDraining]
  /\ refresh = [d \in Device |-> [k \in Slot |-> NULL]] /\ wiped = {}
  /\ network = [d \in Device |-> "up"]
  /\ now = t /\ version = 1 /\ stamp = [c \in Code |-> t]
  /\ letIn = [d \in Device |-> {}] /\ overtaken = [d \in Device |-> {}]
  /\ unbacked = [d \in Device |-> {}]

\* Scans on their way to the server over a good network, with lost answers, crashes,
\* blocked phones and head counts to correct, on a page that stays open.
DeliveryNext == \/ \E d \in Device : Scanning(d) \/ Delivering(d)
                \/ \E d \in Device, e \in Event, n \in 0..MaxGuests : Amend(d, e, n)
                \/ \E r \in Request : Serve(r) \/ Forget(r) \/ Crash(r)
LossSpec == Opened(1) /\ [][DeliveryNext \/ \E d \in Device : SetBlocked(d)]_vars

\* A page that stays open and refreshes while it scans and drains.
RefreshNext == \/ \E d \in Device : Scanning(d) \/ Delivering(d) \/ Refreshing(d)
               \/ \E r \in Request : Serve(r) \/ Forget(r)

\* The same with a desk and a clock.
DeskNext == RefreshNext \/ Tick
            \/ \E c \in Code : DeskQuiet(c) \/ DeskRevoking(c) \/ DeskBump(c)
DeskSpec == Opened(1) /\ [][DeskNext]_vars
=============================================================================
