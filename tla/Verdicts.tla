------------------------------ MODULE Verdicts ------------------------------
(***************************************************************************)
(* One scan as decideScan sees it, under the changes that happen around it: *)
(* the clock runs, the pass is used, a newer manifest arrives.  The state   *)
(* is an input of the function; the properties relate its verdicts.         *)
(***************************************************************************)
EXTENDS ScanDecision

CONSTANTS Raw,      \* the things a scanner can read
          Known,    \* rows a manifest can hold for the code, without NULL
          Window,   \* gate schedules [opensAt, closesAt]
          MaxTime,
          MaxManifestAge

Things == [method : Methods, form : {"ENVELOPE", "DIGITS", "OTHER"}, code : {r.code : r \in Raw},
           signature : Signatures, notAfter : Int \cup {NULL}]
KnownRow == [status : PassStatuses, registration : RegistrationStatuses, checkedIn : BOOLEAN,
             scanLimit : Nat \cup {NULL}, scansCount : Nat \cup {NULL}]
Schedule == [opensAt : Int \cup {NULL}, closesAt : Int \cup {NULL}]

ASSUME RawsAreThings == Raw \subseteq Things
ASSUME RowsAreRows == Known \subseteq KnownRow /\ NULL \notin KnownRow
ASSUME WindowsAreSchedules == Window \subseteq Schedule
ASSUME MaxTimeIsNatural == MaxTime \in Nat

VARIABLES raw, known, gate, at, generatedAt

verdictVars == <<raw, known, gate, at, generatedAt>>

Ctx == [generatedAt |-> generatedAt, maxAge |-> MaxManifestAge,
        opensAt |-> gate.opensAt, closesAt |-> gate.closesAt]
Decide(parsed) == DecideScan(ScanInput(parsed, raw.method, at), known, Ctx)
OnDevice == Decide(DeviceParse(raw))
OnServer == Decide(ServerParse(raw))

VerdictInit ==
  /\ raw \in Raw
  /\ known \in Known \cup {NULL}
  /\ gate \in Window
  /\ at \in 0..MaxTime
  /\ generatedAt \in 0..MaxTime

Wait    == at < MaxTime /\ at' = at + 1 /\ UNCHANGED <<raw, known, gate, generatedAt>>
Refresh == generatedAt' = at /\ UNCHANGED <<raw, known, gate, at>>

\* Wrong on purpose: the count that decides is not touched.
UsedUncounted(row) == [row EXCEPT !.checkedIn = TRUE]

\* markCheckedInLocally, or the count of ADMITTED scan events going up by one.
UsedOnce(row) == [row EXCEPT !.scansCount = ScansUsed(row) + 1, !.checkedIn = TRUE]
Use     == /\ OnDevice.admits /\ known # NULL
           /\ known' = UsedOnce(known)
           /\ UNCHANGED <<raw, gate, at, generatedAt>>

VerdictNext == Wait \/ Refresh \/ Use
VerdictSpec == VerdictInit /\ [][VerdictNext]_verdictVars

-----------------------------------------------------------------------------
\* decideScan lets a pass in exactly under the conditions its header lists,
\* except that without a row it lets nobody in (see SignedStrangerWalksIn).
InWindow(parsed) == /\ ~After(at, parsed.notAfter)
                    /\ ~Before(at, gate.opensAt) /\ ~After(at, gate.closesAt)
AdmitsExactlyWhen ==
  LET parsed == DeviceParse(raw) IN
  OnDevice.admits <=>
    /\ parsed.code # NULL
    /\ parsed.signature \in {"VALID", "ABSENT"}
    /\ known # NULL
    /\ known.status = "ACTIVE" /\ known.registration = "APPROVED"
    /\ ScansUsed(known) < ScanLimit(known)
    /\ OnDevice.clockSuspect \/ InWindow(parsed)

\* A verdict the volunteer may override never hides a pass that is revoked,
\* unapproved or used up, nor a QR whose signature failed (rule 7 comes last).
OverridesAreSoft ==
  OnDevice.overridable =>
    /\ DeviceParse(raw).signature \in {"VALID", "ABSENT"}
    /\ known # NULL => /\ known.status = "ACTIVE" /\ known.registration = "APPROVED"
                       /\ ScansUsed(known) < ScanLimit(known)

\* What the clock has closed it does not open again: an expired pass or a closed
\* gate stays so while the clock runs.
ExpiryIsFinal ==
  [][Wait /\ OnDevice.reason \in {"PASS_EXPIRED", "GATE_CLOSED"}
       => OnDevice.reason' \in {"PASS_EXPIRED", "GATE_CLOSED"}]_verdictVars

\* A single-use pass that was just let in is refused on the next scan.
SecondScanIsDuplicate ==
  [][Use /\ ScanLimit(known) = 1 => OnDevice.outcome' = "DUPLICATE"]_verdictVars

-----------------------------------------------------------------------------
(* What the code's comments say of the two sides.                           *)

\* decide.ts: "the offline verdict and the online verdict can never disagree".
BothSidesAgree == OnDevice.outcome = OnServer.outcome

\* decide.ts, rule 3: a valid signature admits a pass this device has never
\* heard of.
SignedStrangerWalksIn ==
  (/\ raw.method = "QR" /\ raw.form = "ENVELOPE" /\ raw.signature = "VALID"
   /\ known = NULL /\ at <= raw.notAfter)
     => OnDevice.admits
=============================================================================
