---------------------------- MODULE VerdictsProofs ----------------------------
(***************************************************************************)
(* Proofs about Verdicts: decideScan on the phone, for every thing a        *)
(* scanner can read, every row, every schedule and every clock.             *)
(***************************************************************************)
EXTENDS Verdicts, TLAPS

VerdictTypeOK ==
  /\ raw \in Raw /\ known \in KnownRow \cup {NULL} /\ gate \in Window
  /\ at \in 0..MaxTime /\ generatedAt \in 0..MaxTime

-----------------------------------------------------------------------------
(* What decideScan returns, and for which reason.                           *)

\* What the phone makes of a thing: a window it can have only an end, and a signature.
LEMMA ParsedFacts ==
  ASSUME NEW r \in Things
  PROVE  LET parsed == DeviceParse(r) IN
         /\ parsed.notBefore = NULL /\ parsed.notAfter \in Int \cup {NULL}
         /\ parsed.signature \in Signatures
BY DEF Things, DeviceParse, FromEnvelope, Unsigned, Signatures

\* A row's count and limit are numbers, whatever the manifest leaves out.
LEMMA CountFacts ==
  ASSUME NEW k \in KnownRow
  PROVE  /\ ScansUsed(k) \in Nat /\ ScanLimit(k) \in Nat
         /\ UsedOnce(k) \in KnownRow /\ ScanLimit(UsedOnce(k)) = ScanLimit(k)
         /\ ScansUsed(UsedOnce(k)) = ScansUsed(k) + 1
         /\ UsedOnce(k).status = k.status /\ UsedOnce(k).registration = k.registration
<1>1. ScansUsed(k) \in Nat /\ ScanLimit(k) \in Nat
  BY DEF KnownRow, ScansUsed, ScanLimit
<1>. DEFINE n == ScansUsed(k) + 1
<1>2. n \in Nat /\ n # NULL
  BY <1>1, NullIsNotANumber
<1>. HIDE DEF n
<1>3. UsedOnce(k) = [k EXCEPT !.scansCount = n, !.checkedIn = TRUE]
  BY DEF UsedOnce, n
<1>4. /\ UsedOnce(k) \in KnownRow /\ UsedOnce(k).scansCount = n
      /\ UsedOnce(k).scanLimit = k.scanLimit
      /\ UsedOnce(k).status = k.status /\ UsedOnce(k).registration = k.registration
  BY <1>2, <1>3 DEF KnownRow
<1>. QED BY <1>1, <1>2, <1>4 DEF ScansUsed, ScanLimit, n

\* A window without a beginning, at a gate: in it, outside it, and for how long.
LEMMA WindowFacts ==
  ASSUME NEW input, NEW ctx, input.notBefore = NULL
  PROVE  /\ WindowReason(input, ctx) = "OK" <=>
              /\ ~After(input.scannedAt, input.notAfter)
              /\ ~Before(input.scannedAt, ctx.opensAt) /\ ~After(input.scannedAt, ctx.closesAt)
         /\ WindowReason(input, ctx) \in WindowReasons \cup {"OK"}
         /\ WindowReason(input, ctx) # "PASS_NOT_YET_VALID"
         /\ WindowReason(input, ctx) \in {"PASS_EXPIRED", "GATE_CLOSED"} =>
              \/ After(input.scannedAt, input.notAfter)
              \/ ~Before(input.scannedAt, ctx.opensAt) /\ After(input.scannedAt, ctx.closesAt)
BY DEF WindowReason, WindowReasons, Before

\* Without a row nobody is let in: a pass of this issuer has no beginning, so that its
\* window is never complete.
LEMMA StrangerFacts ==
  ASSUME NEW input, NEW ctx, input.notBefore = NULL
  PROVE  /\ UnknownReason(input, ctx) \notin AdmitReasons \cup {"GATE_CLOSED", "GATE_NOT_OPEN"}
         /\ UnknownReason(input, ctx) = "PASS_EXPIRED" <=>
              input.signature = "VALID" /\ After(input.scannedAt, input.notAfter)
         /\ UnknownReason(input, ctx) # "PASS_NOT_YET_VALID"
BY DEF UnknownReason, SignedWindowOk, AdmitReasons, Before

\* With a row, the pass comes before the window.
LEMMA RowFacts ==
  ASSUME NEW input, NEW ctx, NEW k \in KnownRow, input.notBefore = NULL
  PROVE  LET reason == KnownReason(input, k, ctx)
             usable == /\ k.status = "ACTIVE" /\ k.registration = "APPROVED"
                       /\ ScansUsed(k) < ScanLimit(k)
         IN
         /\ reason \in AdmitReasons <=>
              usable /\ (ClockSuspect(input, ctx) \/ WindowReason(input, ctx) = "OK")
         /\ reason \in WindowReasons \cup {"MANIFEST_TOO_OLD"} =>
              usable /\ ~ClockSuspect(input, ctx) /\ reason = WindowReason(input, ctx)
         /\ usable /\ ~ClockSuspect(input, ctx) => reason = WindowReason(input, ctx)
<1>1. ScansUsed(k) \in Nat /\ ScanLimit(k) \in Nat
  BY CountFacts
<1>2. k.status \in {"ACTIVE", "REVOKED"}
  BY DEF KnownRow, PassStatuses
<1>3. WindowReason(input, ctx) \in WindowReasons \cup {"OK"}
  BY WindowFacts
<1>4. ~(ScansUsed(k) >= ScanLimit(k)) <=> ScansUsed(k) < ScanLimit(k)
  BY <1>1
<1>5. k.registration # "APPROVED" => KnownReason(input, k, ctx) \in NotApprovedReasons \cup {"PASS_REVOKED"}
  BY DEF KnownReason, NotApprovedReasons
<1>. QED BY <1>2, <1>3, <1>4, <1>5 DEF KnownReason, AdmitReasons, WindowReasons, NotApprovedReasons

\* The phone's verdict, told apart by what it has parsed and whether it holds a row.
Input == ScanInput(DeviceParse(raw), raw.method, at)

LEMMA DeviceFacts ==
  ASSUME VerdictTypeOK
  PROVE  LET parsed == DeviceParse(raw) IN
         /\ Input.notBefore = NULL /\ Input.notAfter = parsed.notAfter /\ Input.code = parsed.code
         /\ Input.signature = parsed.signature /\ Input.scannedAt = at
         /\ parsed.notAfter \in Int \cup {NULL} /\ parsed.signature \in Signatures
         /\ OnDevice.reason = DecideReason(Input, known, Ctx)
         /\ OnDevice.outcome = OutcomeOf(OnDevice.reason)
         /\ OnDevice.admits <=> OnDevice.reason \in AdmitReasons
         /\ OnDevice.overridable <=> OnDevice.reason \in WindowReasons \cup {"MANIFEST_TOO_OLD"}
         /\ OnDevice.clockSuspect <=> ClockSuspect(Input, Ctx)
<1>1. raw \in Things
  BY RawsAreThings DEF VerdictTypeOK
<1>2. /\ Input.notBefore = DeviceParse(raw).notBefore /\ Input.notAfter = DeviceParse(raw).notAfter
      /\ Input.code = DeviceParse(raw).code /\ Input.signature = DeviceParse(raw).signature
      /\ Input.scannedAt = at
  BY DEF Input, ScanInput
<1>3. OnDevice = DecideScan(Input, known, Ctx)
  BY DEF OnDevice, Decide, Input
<1>. QED BY <1>1, <1>2, <1>3, ParsedFacts DEF DecideScan

LEMMA UnreadableFacts ==
  ASSUME VerdictTypeOK,
         Input.code = NULL \/ Input.signature \in {"INVALID", "UNKNOWN_KEY"}
  PROVE  OnDevice.reason \in InvalidReasons
BY DeviceFacts DEF DecideReason, InvalidReasons

LEMMA ReadableFacts ==
  ASSUME VerdictTypeOK, Input.code # NULL, Input.signature \in {"VALID", "ABSENT"}
  PROVE  OnDevice.reason = IF known = NULL THEN UnknownReason(Input, Ctx) ELSE KnownReason(Input, known, Ctx)
BY DeviceFacts DEF DecideReason

LEMMA AdmitsExactly == VerdictTypeOK => AdmitsExactlyWhen
<1>. SUFFICES ASSUME VerdictTypeOK PROVE AdmitsExactlyWhen
  OBVIOUS
<1>. DEFINE parsed == DeviceParse(raw)
            readable == parsed.code # NULL /\ parsed.signature \in {"VALID", "ABSENT"}
<1>1. CASE ~readable
  <2>1. Input.code = NULL \/ Input.signature \in {"INVALID", "UNKNOWN_KEY"}
    BY <1>1, DeviceFacts DEF Signatures
  <2>2. ~OnDevice.admits
    BY <2>1, UnreadableFacts, DeviceFacts DEF InvalidReasons, AdmitReasons
  <2>. QED BY <1>1, <2>2 DEF AdmitsExactlyWhen
<1>2. CASE readable /\ known = NULL
  <2>1. ~OnDevice.admits
    BY <1>2, DeviceFacts, ReadableFacts, StrangerFacts
  <2>. QED BY <1>2, <2>1 DEF AdmitsExactlyWhen
<1>3. CASE readable /\ known # NULL
  <2>1. known \in KnownRow /\ OnDevice.reason = KnownReason(Input, known, Ctx)
    BY <1>3, DeviceFacts, ReadableFacts DEF VerdictTypeOK
  <2>2. WindowReason(Input, Ctx) = "OK" <=> InWindow(parsed)
    BY DeviceFacts, WindowFacts DEF InWindow, Ctx
  <2>3. OnDevice.admits <=>
          /\ known.status = "ACTIVE" /\ known.registration = "APPROVED"
          /\ ScansUsed(known) < ScanLimit(known)
          /\ OnDevice.clockSuspect \/ InWindow(parsed)
    BY <2>1, <2>2, DeviceFacts, RowFacts
  <2>. QED BY <1>3, <2>3 DEF AdmitsExactlyWhen
<1>. QED BY <1>1, <1>2, <1>3

LEMMA SoftOverrides == VerdictTypeOK => OverridesAreSoft
<1>. SUFFICES ASSUME VerdictTypeOK, OnDevice.overridable PROVE OverridesAreSoft
  BY DEF OverridesAreSoft
<1>1. OnDevice.reason \in WindowReasons \cup {"MANIFEST_TOO_OLD"}
  BY DeviceFacts
<1>2. Input.code # NULL /\ Input.signature \in {"VALID", "ABSENT"}
  BY <1>1, UnreadableFacts, DeviceFacts DEF InvalidReasons, WindowReasons, Signatures
<1>3. ASSUME known # NULL
      PROVE  /\ known.status = "ACTIVE" /\ known.registration = "APPROVED"
             /\ ScansUsed(known) < ScanLimit(known)
  BY <1>1, <1>2, <1>3, ReadableFacts, DeviceFacts, RowFacts DEF VerdictTypeOK
<1>. QED BY <1>2, <1>3, DeviceFacts DEF OverridesAreSoft

-----------------------------------------------------------------------------
(* Steps.                                                                   *)

LEMMA VerdictTypeStep == VerdictTypeOK /\ [VerdictNext]_verdictVars => VerdictTypeOK'
<1>. SUFFICES ASSUME VerdictTypeOK, [VerdictNext]_verdictVars PROVE VerdictTypeOK'
  OBVIOUS
<1>1. CASE Wait
  BY <1>1, MaxTimeIsNatural DEF Wait, VerdictTypeOK
<1>2. CASE Refresh
  BY <1>2 DEF Refresh, VerdictTypeOK
<1>3. CASE Use
  BY <1>3, CountFacts DEF Use, VerdictTypeOK
<1>4. CASE UNCHANGED verdictVars
  BY <1>4 DEF verdictVars, VerdictTypeOK
<1>. QED BY <1>1, <1>2, <1>3, <1>4 DEF VerdictNext

\* A moment later a clock that was right is right, and what is over is over.
LEMMA LaterFacts ==
  ASSUME VerdictTypeOK, Wait
  PROVE  /\ Input'.notAfter = Input.notAfter /\ Input'.notBefore = NULL
         /\ Input'.code = Input.code /\ Input'.signature = Input.signature
         /\ Ctx' = Ctx /\ known' = known
         /\ After(at, Input.notAfter) => After(at', Input.notAfter)
         /\ After(at, gate.closesAt) => After(at', gate.closesAt)
         /\ ~Before(at, gate.opensAt) => ~Before(at', gate.opensAt)
         /\ ~ClockSuspect(Input, Ctx) => ~ClockSuspect(Input', Ctx')
<1>1. at' = at + 1 /\ at \in Int /\ generatedAt \in Int /\ UNCHANGED <<raw, known, gate, generatedAt>>
  BY DEF Wait, VerdictTypeOK
<1>2. VerdictTypeOK'
  BY VerdictTypeStep DEF VerdictNext
<1>3. gate.opensAt \in Int \cup {NULL} /\ gate.closesAt \in Int \cup {NULL}
  BY WindowsAreSchedules DEF VerdictTypeOK, Schedule
<1>4. /\ Input.notAfter \in Int \cup {NULL} /\ Input.scannedAt = at
      /\ Input.notAfter = DeviceParse(raw).notAfter /\ Input.code = DeviceParse(raw).code
      /\ Input.signature = DeviceParse(raw).signature /\ Input.notBefore = DeviceParse(raw).notBefore
      /\ Input.notBefore = NULL
  BY DeviceFacts, RawsAreThings, ParsedFacts DEF VerdictTypeOK
<1>5. /\ Input'.notAfter = DeviceParse(raw').notAfter /\ Input'.code = DeviceParse(raw').code
      /\ Input'.signature = DeviceParse(raw').signature /\ Input'.notBefore = DeviceParse(raw').notBefore
      /\ Input'.scannedAt = at'
  BY DEF Input, ScanInput
<1>6. Ctx' = Ctx /\ Ctx.generatedAt = generatedAt
  BY <1>1 DEF Ctx
<1>7. ~ClockSuspect(Input, Ctx) => ~ClockSuspect(Input', Ctx')
  BY <1>1, <1>4, <1>5, <1>6, SkewToleranceIsNatural DEF ClockSuspect
<1>8. /\ Input'.notAfter = Input.notAfter /\ Input'.notBefore = NULL
      /\ Input'.code = Input.code /\ Input'.signature = Input.signature
  BY <1>1, <1>4, <1>5
<1>9. /\ After(at, Input.notAfter) => After(at', Input.notAfter)
      /\ After(at, gate.closesAt) => After(at', gate.closesAt)
      /\ ~Before(at, gate.opensAt) => ~Before(at', gate.opensAt)
  BY <1>1, <1>3, <1>4 DEF After, Before
<1>. QED BY <1>1, <1>6, <1>7, <1>8, <1>9

LEMMA ExpiryStep ==
  ASSUME VerdictTypeOK, Wait, OnDevice.reason \in {"PASS_EXPIRED", "GATE_CLOSED"}
  PROVE  OnDevice.reason' \in {"PASS_EXPIRED", "GATE_CLOSED"}
<1>1. VerdictTypeOK'
  BY VerdictTypeStep DEF VerdictNext
<1>2. Input.code # NULL /\ Input.signature \in {"VALID", "ABSENT"}
  BY UnreadableFacts, DeviceFacts DEF InvalidReasons, Signatures
<1>3. OnDevice.reason = IF known = NULL THEN UnknownReason(Input, Ctx) ELSE KnownReason(Input, known, Ctx)
  BY <1>2, ReadableFacts
<1>4. OnDevice.reason' = IF known = NULL THEN UnknownReason(Input', Ctx') ELSE KnownReason(Input', known, Ctx')
  <2>1. OnDevice.reason' = DecideReason(Input', known', Ctx')
    BY DEF OnDevice, Decide, Input, DecideScan
  <2>. QED BY <2>1, <1>2, LaterFacts DEF DecideReason
<1>5. CASE known = NULL
  <2>1. Input.signature = "VALID" /\ After(at, Input.notAfter)
    BY <1>3, <1>5, StrangerFacts, DeviceFacts
  <2>2. Input'.signature = "VALID" /\ After(Input'.scannedAt, Input'.notAfter) /\ Input'.notBefore = NULL
    BY <2>1, LaterFacts DEF Input, ScanInput
  <2>. QED BY <2>2, <1>4, <1>5, StrangerFacts
<1>6. CASE known # NULL
  <2>1. known \in KnownRow
    BY <1>6 DEF VerdictTypeOK
  <2>2. /\ known.status = "ACTIVE" /\ known.registration = "APPROVED"
        /\ ScansUsed(known) < ScanLimit(known)
        /\ ~ClockSuspect(Input, Ctx) /\ WindowReason(Input, Ctx) \in {"PASS_EXPIRED", "GATE_CLOSED"}
    BY <2>1, <1>3, <1>6, RowFacts, DeviceFacts DEF WindowReasons
  <2>3. \/ After(at, Input.notAfter)
        \/ ~Before(at, gate.opensAt) /\ After(at, gate.closesAt)
    BY <2>2, WindowFacts, DeviceFacts DEF Ctx
  <2>4. Input'.scannedAt = at' /\ Ctx'.opensAt = gate.opensAt /\ Ctx'.closesAt = gate.closesAt
    BY LaterFacts DEF Input, ScanInput, Ctx
  <2>5. WindowReason(Input', Ctx') \in {"PASS_EXPIRED", "GATE_CLOSED"}
    BY <2>3, <2>4, LaterFacts DEF WindowReason, Before
  <2>6. KnownReason(Input', known, Ctx') = WindowReason(Input', Ctx')
    BY <2>1, <2>2, LaterFacts, RowFacts
  <2>. QED BY <2>5, <2>6, <1>4, <1>6
<1>. QED BY <1>5, <1>6

LEMMA SecondScanStep ==
  ASSUME VerdictTypeOK, Use, ScanLimit(known) = 1
  PROVE  OnDevice.outcome' = "DUPLICATE"
<1>1. known \in KnownRow /\ known' = UsedOnce(known) /\ UNCHANGED <<raw, gate, at, generatedAt>>
  BY DEF Use, VerdictTypeOK
<1>2. /\ Input.code # NULL /\ Input.signature \in {"VALID", "ABSENT"}
      /\ known.status = "ACTIVE" /\ known.registration = "APPROVED"
  BY AdmitsExactly, DeviceFacts DEF Use, AdmitsExactlyWhen
<1>3. /\ known' \in KnownRow /\ known' # NULL
      /\ ScansUsed(known') >= ScanLimit(known')
      /\ known'.status = "ACTIVE" /\ known'.registration = "APPROVED"
  BY <1>1, <1>2, CountFacts, RowsAreRows
<1>4. Input' = Input
  BY <1>1 DEF Input
<1>5. OnDevice.reason' = DecideReason(Input', known', Ctx') /\ OnDevice.outcome' = OutcomeOf(OnDevice.reason')
  BY DEF OnDevice, Decide, Input, DecideScan
<1>6. OnDevice.reason' = "ALREADY_CHECKED_IN"
  BY <1>2, <1>3, <1>4, <1>5 DEF DecideReason, KnownReason
<1>. QED BY <1>5, <1>6 DEF OutcomeOf, AdmitReasons, WindowReasons, NotApprovedReasons

-----------------------------------------------------------------------------
(* Theorems.                                                                *)

\* Nothing that happens around a scan takes the state out of the inputs of decideScan.
THEOREM VerdictTypes == VerdictSpec => []VerdictTypeOK
<1>1. VerdictInit => VerdictTypeOK
  BY RowsAreRows DEF VerdictInit, VerdictTypeOK
<1>. QED BY <1>1, VerdictTypeStep, PTL DEF VerdictSpec

\* The phone lets a pass in exactly when the header of decide.ts says so, whatever it
\* reads, whatever the manifest says of the pass and whatever the clocks show, except
\* that it lets nobody in whom its manifest does not hold.
THEOREM AdmitsExactlyThen == VerdictSpec => []AdmitsExactlyWhen
BY VerdictTypes, AdmitsExactly, PTL

\* A verdict a volunteer may override (rule 7 and the age of the manifest) hides no
\* revoked, unapproved or used-up pass and no failed signature.
THEOREM OnlySoftOverrides == VerdictSpec => []OverridesAreSoft
BY VerdictTypes, SoftOverrides, PTL

\* What the clock has closed it does not open again, although a clock that runs behind
\* the manifest suspends the window: running on, it never falls behind.
THEOREM ExpiryStays == VerdictSpec => ExpiryIsFinal
<1>1. VerdictTypeOK /\ [VerdictNext]_verdictVars =>
        [Wait /\ OnDevice.reason \in {"PASS_EXPIRED", "GATE_CLOSED"}
           => OnDevice.reason' \in {"PASS_EXPIRED", "GATE_CLOSED"}]_verdictVars
  BY ExpiryStep
<1>. QED BY <1>1, VerdictTypes, PTL DEF VerdictSpec, ExpiryIsFinal

\* A pass of one scan that was let in is a duplicate the next moment, whichever of
\* checkedIn and scansCount the manifest carries (ScansUsed in decide.ts).
THEOREM SecondScan == VerdictSpec => SecondScanIsDuplicate
<1>1. VerdictTypeOK /\ [VerdictNext]_verdictVars =>
        [Use /\ ScanLimit(known) = 1 => OnDevice.outcome' = "DUPLICATE"]_verdictVars
  BY SecondScanStep
<1>. QED BY <1>1, VerdictTypes, PTL DEF VerdictSpec, SecondScanIsDuplicate
=============================================================================
