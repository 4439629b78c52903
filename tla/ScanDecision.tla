---------------------------- MODULE ScanDecision ----------------------------
(***************************************************************************)
(* The verdict on one scan: decideScan of packages/core/src/scan/decide.ts, *)
(* the pure function that the offline scanner and the sync endpoint both    *)
(* run, and the two parsers that prepare its input.  The display strings    *)
(* (message, badge, tone) and the name and programme of the student are     *)
(* left out.  Times are integers on one scale; NULL is the code's null or   *)
(* undefined.                                                               *)
(*                                                                          *)
(* A printed or typed thing ("raw") is a record                             *)
(*   [method, form, code, signature, notAfter]                              *)
(* whose form says what the scanner reads: a pass ENVELOPE, a string with   *)
(* ten DIGITS in it, or OTHER.                                              *)
(***************************************************************************)
EXTENDS Integers

CONSTANTS NULL, ClockSkewTolerance

ASSUME NullIsNotANumber == NULL \notin Int
ASSUME SkewToleranceIsNatural == ClockSkewTolerance \in Nat

Methods == {"QR", "BARCODE", "MANUAL_CODE"}
Signatures == {"VALID", "INVALID", "UNKNOWN_KEY", "ABSENT"}
PassStatuses == {"ACTIVE", "REVOKED"}
RegistrationStatuses == {"DRAFT", "PENDING_REVIEW", "APPROVED", "REVISION_REQUESTED"}
Outcomes == {"ADMITTED", "DUPLICATE", "REVOKED", "NOT_APPROVED", "OUT_OF_WINDOW",
             "STALE_MANIFEST", "INVALID"}

-----------------------------------------------------------------------------
(* Parsing.                                                                 *)

Digits(raw) == IF raw.form = "DIGITS" THEN raw.code ELSE NULL

Unsigned(code) == [code |-> code, signature |-> "ABSENT", notBefore |-> NULL, notAfter |-> NULL]

FromEnvelope(raw) == [code |-> raw.code, signature |-> raw.signature,
                      notBefore |-> NULL, notAfter |-> raw.notAfter]

\* The device reads a QR that is no envelope as if it were a barcode.  (A browser
\* without crypto.subtle would drop the signature too; it has no camera either.)
DeviceParse(raw) == IF raw.method = "QR" /\ raw.form = "ENVELOPE"
                      THEN FromEnvelope(raw)
                      ELSE Unsigned(Digits(raw))

\* The server gives such a QR no code at all.
ServerParse(raw) == IF raw.method # "QR" THEN Unsigned(Digits(raw))
                    ELSE IF raw.form = "ENVELOPE" THEN FromEnvelope(raw)
                    ELSE Unsigned(NULL)

ScanInput(parsed, method, scannedAt) ==
  [code |-> parsed.code, method |-> method, signature |-> parsed.signature,
   notBefore |-> parsed.notBefore, notAfter |-> parsed.notAfter, scannedAt |-> scannedAt]

-----------------------------------------------------------------------------
(* The decision.  known is NULL or a record                                 *)
(*   [status, registration, checkedIn, scanLimit, scansCount],              *)
(* ctx is [generatedAt, maxAge, opensAt, closesAt].                         *)

Before(t, bound) == bound # NULL /\ t < bound
After(t, bound)  == bound # NULL /\ t > bound

\* Wrong on purpose: takes a clock that runs ahead for the suspect one.
ClockAhead(input, ctx) == input.scannedAt > ctx.generatedAt + ClockSkewTolerance

ClockSuspect(input, ctx) == input.scannedAt < ctx.generatedAt - ClockSkewTolerance

ScanLimit(known) == IF known.scanLimit = NULL THEN 1 ELSE known.scanLimit

ScansUsed(known) == IF known.scansCount # NULL THEN known.scansCount
                    ELSE IF known.checkedIn THEN 1 ELSE 0

SignedWindowOk(input, ctx) ==
  /\ input.notBefore # NULL
  /\ input.notAfter # NULL
  /\ \/ ClockSuspect(input, ctx)
     \/ ~Before(input.scannedAt, input.notBefore) /\ ~After(input.scannedAt, input.notAfter)

\* Rule 3: the code is in no row the caller holds.
UnknownReason(input, ctx) ==
  LET signed == input.signature = "VALID" IN
  IF signed /\ SignedWindowOk(input, ctx)                  THEN "OK_SIGNATURE_ONLY"
  ELSE IF signed /\ After(input.scannedAt, input.notAfter)   THEN "PASS_EXPIRED"
  ELSE IF signed /\ Before(input.scannedAt, input.notBefore) THEN "PASS_NOT_YET_VALID"
  ELSE IF \/ ClockSuspect(input, ctx)
          \/ input.scannedAt - ctx.generatedAt > ctx.maxAge  THEN "MANIFEST_TOO_OLD"
  ELSE "NOT_IN_MANIFEST"

\* Rule 7: the pass's window, then the gate's.
WindowReason(input, ctx) ==
  IF Before(input.scannedAt, input.notBefore)    THEN "PASS_NOT_YET_VALID"
  ELSE IF After(input.scannedAt, input.notAfter) THEN "PASS_EXPIRED"
  ELSE IF Before(input.scannedAt, ctx.opensAt)   THEN "GATE_NOT_OPEN"
  ELSE IF After(input.scannedAt, ctx.closesAt)   THEN "GATE_CLOSED"
  ELSE "OK"

\* Wrong on purpose: the last scan of a pass is off by one.
KnownReasonOffByOne(input, known, ctx) ==
  IF known.status = "REVOKED" THEN "PASS_REVOKED"
  ELSE IF known.registration # "APPROVED" THEN "REGISTRATION_PENDING"
  ELSE IF ScansUsed(known) > ScanLimit(known) THEN "ALREADY_CHECKED_IN"
  ELSE IF ClockSuspect(input, ctx) THEN "OK"
  ELSE WindowReason(input, ctx)

\* Wrong on purpose: the window is looked at before the pass.
KnownReasonWindowFirst(input, known, ctx) ==
  IF ~ClockSuspect(input, ctx) /\ WindowReason(input, ctx) # "OK" THEN WindowReason(input, ctx)
  ELSE IF known.status = "REVOKED" THEN "PASS_REVOKED"
  ELSE IF known.registration # "APPROVED" THEN "REGISTRATION_PENDING"
  ELSE IF ScansUsed(known) >= ScanLimit(known) THEN "ALREADY_CHECKED_IN"
  ELSE "OK"

\* Rules 4 to 8: the caller holds a row for the code.
KnownReason(input, known, ctx) ==
  IF known.status = "REVOKED" THEN "PASS_REVOKED"
  ELSE IF known.registration # "APPROVED"
    THEN CASE known.registration = "REVISION_REQUESTED" -> "REGISTRATION_REVISION"
           [] known.registration = "DRAFT" -> "REGISTRATION_DRAFT"
           [] OTHER -> "REGISTRATION_PENDING"
  ELSE IF ScansUsed(known) >= ScanLimit(known) THEN "ALREADY_CHECKED_IN"
  ELSE IF ClockSuspect(input, ctx) THEN "OK"
  ELSE WindowReason(input, ctx)

DecideReason(input, known, ctx) ==
  IF input.code = NULL THEN IF input.method = "QR" THEN "NOT_OUR_CODE" ELSE "NO_CODE"
  ELSE IF input.signature = "INVALID"     THEN "SIGNATURE_FAILED"
  ELSE IF input.signature = "UNKNOWN_KEY" THEN "SIGNING_KEY_UNKNOWN"
  ELSE IF known = NULL THEN UnknownReason(input, ctx)
  ELSE KnownReason(input, known, ctx)

AdmitReasons == {"OK", "OK_SIGNATURE_ONLY"}
WindowReasons == {"PASS_EXPIRED", "PASS_NOT_YET_VALID", "GATE_NOT_OPEN", "GATE_CLOSED"}
NotApprovedReasons == {"REGISTRATION_REVISION", "REGISTRATION_DRAFT", "REGISTRATION_PENDING"}

InvalidReasons == {"NOT_OUR_CODE", "NO_CODE", "SIGNATURE_FAILED", "SIGNING_KEY_UNKNOWN",
                   "NOT_IN_MANIFEST"}
Reasons == AdmitReasons \cup WindowReasons \cup NotApprovedReasons \cup InvalidReasons
             \cup {"PASS_REVOKED", "ALREADY_CHECKED_IN", "MANIFEST_TOO_OLD"}

\* Each return statement of decideScan pairs one reason with one outcome.
OutcomeOf(reason) ==
  CASE reason \in AdmitReasons         -> "ADMITTED"
    [] reason \in WindowReasons        -> "OUT_OF_WINDOW"
    [] reason \in NotApprovedReasons   -> "NOT_APPROVED"
    [] reason = "PASS_REVOKED"         -> "REVOKED"
    [] reason = "ALREADY_CHECKED_IN"   -> "DUPLICATE"
    [] reason = "MANIFEST_TOO_OLD"     -> "STALE_MANIFEST"
    [] OTHER                           -> "INVALID"

DecideScan(input, known, ctx) ==
  LET reason == DecideReason(input, known, ctx)
  IN [reason       |-> reason,
      outcome      |-> OutcomeOf(reason),
      admits       |-> reason \in AdmitReasons,
      overridable  |-> reason \in WindowReasons \cup {"MANIFEST_TOO_OLD"},
      clockSuspect |-> ClockSuspect(input, ctx)]
=============================================================================
