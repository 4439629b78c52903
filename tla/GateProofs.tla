------------------------------ MODULE GateProofs ------------------------------
(***************************************************************************)
(* Proofs about Gate, for any phones, passes, scans and requests.           *)
(*                                                                          *)
(* The server of the gate is module SyncServer, so what SyncServerProofs    *)
(* proves of it is proved here once more by instance: S is that module with *)
(* any claim a phone can queue and any date.  Each step of the gate is a    *)
(* step of S or leaves its variables alone (ServerStep), and the invariants *)
(* of S become invariants of the gate.                                      *)
(***************************************************************************)
EXTENDS Gate, TLAPS

S == INSTANCE SyncServerProofs WITH Claim <- AnyClaim, Time <- Int

-----------------------------------------------------------------------------
(* The operators of Server, which Gate instantiates, and those of S are the  *)
(* same ones: none of them mentions Claim or Time.                           *)
LEMMA SameParse ==
  \A raw : Server!ServerParse(raw) = S!ServerParse(raw)
BY DEF S!ServerParse, Server!ServerParse, S!Unsigned, Server!Unsigned, S!Digits,
       Server!Digits, S!FromEnvelope, Server!FromEnvelope

LEMMA SameDecision ==
  \A i, k, c : Server!DecideScan(i, k, c) = S!DecideScan(i, k, c)
BY DEF S!DecideScan, Server!DecideScan, S!DecideReason, Server!DecideReason, S!KnownReason,
       Server!KnownReason, S!UnknownReason, Server!UnknownReason, S!WindowReason,
       Server!WindowReason, S!SignedWindowOk, Server!SignedWindowOk, S!ClockSuspect,
       Server!ClockSuspect, S!Before, Server!Before, S!After, Server!After, S!ScansUsed,
       Server!ScansUsed, S!ScanLimit, Server!ScanLimit, S!OutcomeOf, Server!OutcomeOf,
       S!AdmitReasons, Server!AdmitReasons, S!WindowReasons, Server!WindowReasons,
       S!NotApprovedReasons, Server!NotApprovedReasons

LEMMA SameRest ==
  /\ \A T : Server!Oldest(T) = S!Oldest(T)
  /\ \A l : Server!ToKnownPass(l) = S!ToKnownPass(l)
  /\ \A p, m, t : Server!ScanInput(p, m, t) = S!ScanInput(p, m, t)
  /\ \A o, s, k, c : Server!ServerOutcome(o, s, k, c) = S!ServerOutcome(o, s, k, c)
BY DEF S!Oldest, Server!Oldest, S!ToKnownPass, Server!ToKnownPass, S!ScanInput,
       Server!ScanInput, S!ServerOutcome, Server!ServerOutcome

\* processEvent judges alike.
LEMMA SameVerdict ==
  ASSUME NEW q
  PROVE  Server!Verdict(q) = S!Verdict(q)
<1>1. PICK claim : claim = q.body[S!Oldest(q.todo)]
  OBVIOUS
<1>2. q.body[Server!Oldest(q.todo)] = claim
  BY <1>1, SameRest
<1>3. PICK parsed : parsed = S!ServerParse(claim.raw)
  OBVIOUS
<1>4. Server!ServerParse(claim.raw) = parsed
  BY <1>3, SameParse
<1>5. PICK known : known = IF q.live = NULL THEN NULL ELSE S!ToKnownPass(q.live)
  OBVIOUS
<1>6. (IF q.live = NULL THEN NULL ELSE Server!ToKnownPass(q.live)) = known
  BY <1>5, SameRest
<1>7. PICK input : input = S!ScanInput(parsed, claim.raw.method, claim.scannedAt)
  OBVIOUS
<1>8. Server!ScanInput(parsed, claim.raw.method, claim.scannedAt) = input
  BY <1>7, SameRest
<1>9. PICK ctx : ctx = [generatedAt |-> q.gen, maxAge |-> MaxAge,
                        opensAt |-> OpensAt, closesAt |-> ClosesAt]
  OBVIOUS
<1>10. PICK decision : decision = S!DecideScan(input, known, ctx)
  OBVIOUS
<1>11. Server!DecideScan(input, known, ctx) = decision
  BY <1>10, SameDecision
<1>12. PICK outcome :
         outcome = S!ServerOutcome(decision.outcome, parsed.signature, known, parsed.code)
  OBVIOUS
<1>13. Server!ServerOutcome(decision.outcome, parsed.signature, known, parsed.code) = outcome
  BY <1>12, SameRest
<1>14. S!Verdict(q) =
         [code |-> parsed.code, outcome |-> outcome, reason |-> decision.reason,
          admits |-> /\ outcome = "ADMITTED"
                     /\ decision.admits \/ (claim.overridden /\ decision.overridable)
                     /\ q.live # NULL]
  BY <1>1, <1>3, <1>5, <1>7, <1>9, <1>10, <1>12, Zenon DEF S!Verdict
<1>15. Server!Verdict(q) =
         [code |-> parsed.code, outcome |-> outcome, reason |-> decision.reason,
          admits |-> /\ outcome = "ADMITTED"
                     /\ decision.admits \/ (claim.overridden /\ decision.overridable)
                     /\ q.live # NULL]
  BY <1>2, <1>4, <1>6, <1>8, <1>9, <1>11, <1>13, Zenon DEF Server!Verdict
<1>. QED BY <1>14, <1>15

\* Sets are counted alike.
LEMMA SameCardinality ==
  /\ \A T : Server!Cardinality(T) = S!Cardinality(T)
  /\ \A T : Server!Cardinality(T) = Cardinality(T)
BY DEF Server!Cardinality, S!Cardinality, Cardinality

\* The rows and answers that the steps write.
LEMMA SameHelpers ==
  /\ \A q, how : Server!Ended(q, how) = S!Ended(q, how)
  /\ \A q, e, o, a, w, n : Server!Answered(q, e, o, a, w, n) = S!Answered(q, e, o, a, w, n)
  /\ \A v, l, o, w : Server!Row(v, l, o, w) = S!Row(v, l, o, w)
  /\ \A q, v : Server!CollidedWith(q, v) = S!CollidedWith(q, v)
  /\ \A c, w : Server!Exists(c, w) <=> S!Exists(c, w)
  /\ \A q, c : Server!Taken(q, c) <=> S!Taken(q, c)
  /\ \A q, e : Server!GuestsLetIn(q, e) = S!GuestsLetIn(q, e)
  /\ \A e : Server!Recorded(e) <=> S!Recorded(e)
  /\ \A q : Server!FreshResults(q) = S!FreshResults(q)
  /\ Server!Unused = S!Unused
  /\ \A c : Server!AdmittedEvents(c) = S!AdmittedEvents(c)
<1>1. Server!Event = S!Event
  BY DEF Server!Event, S!Event
<1>2. \A q, how : Server!Ended(q, how) = S!Ended(q, how)
  BY <1>1 DEF Server!Ended, S!Ended
<1>3. \A q, e, o, a, w, n : Server!Answered(q, e, o, a, w, n) = S!Answered(q, e, o, a, w, n)
  BY DEF Server!Answered, S!Answered
<1>4. \A v, l, o, w : Server!Row(v, l, o, w) = S!Row(v, l, o, w)
  BY DEF Server!Row, S!Row
<1>5. /\ \A q, v : Server!CollidedWith(q, v) = S!CollidedWith(q, v)
      /\ \A c, w : Server!Exists(c, w) <=> S!Exists(c, w)
      /\ \A q, c : Server!Taken(q, c) <=> S!Taken(q, c)
      /\ \A q, e : Server!GuestsLetIn(q, e) = S!GuestsLetIn(q, e)
  BY DEF Server!CollidedWith, S!CollidedWith, Server!Exists, S!Exists, Server!Taken, S!Taken,
         Server!GuestsLetIn, S!GuestsLetIn
<1>6. \A e : Server!Recorded(e) <=> S!Recorded(e)
  BY DEF Server!Recorded, S!Recorded
<1>7. \A q : Server!FreshResults(q) = S!FreshResults(q)
  BY DEF Server!FreshResults, S!FreshResults
<1>8. Server!Unused = S!Unused
  BY <1>1 DEF Server!Unused, S!Unused
<1>9. \A c : Server!AdmittedEvents(c) = S!AdmittedEvents(c)
  BY <1>1 DEF Server!AdmittedEvents, S!AdmittedEvents
<1>. QED BY <1>2, <1>3, <1>4, <1>5, <1>6, <1>7, <1>8, <1>9

\* The steps of processEvent and syncScans.
LEMMA SameServe ==
  ASSUME NEW r \in Request, Server!Serve(r)
  PROVE  S!Serve(r)
<1>1. /\ Server!Verdict(req[r]) = S!Verdict(req[r])
      /\ Server!Oldest(req[r].todo) = S!Oldest(req[r].todo)
  BY SameVerdict, SameRest
<1>2. CASE Server!Resolve(r)
  <2>1. S!Resolve(r)
    BY <1>2, SameHelpers DEF Server!Resolve, S!Resolve, Server!tables, S!tables
  <2>. QED BY <2>1 DEF S!Serve
<1>3. CASE Server!Replay(r)
  <2>1. S!Replay(r)
    BY <1>1, <1>3, SameHelpers DEF Server!Replay, S!Replay, Server!tables, S!tables
  <2>. QED BY <2>1 DEF S!Serve
<1>4. CASE Server!FindNothing(r)
  <2>1. S!FindNothing(r)
    BY <1>1, <1>4, SameHelpers DEF Server!FindNothing, S!FindNothing, Server!tables, S!tables
  <2>. QED BY <2>1 DEF S!Serve
<1>5. CASE Server!Read(r)
  <2>1. Server!CurrentCode(req[r]) = S!CurrentCode(req[r])
    BY <1>1, SameParse DEF Server!CurrentCode, S!CurrentCode
  <2>2. Server!Snapshot(S!CurrentCode(req[r])) = S!Snapshot(S!CurrentCode(req[r]))
    BY SameHelpers, SameCardinality DEF Server!Snapshot, S!Snapshot
  <2>3. S!Read(r)
    BY <1>5, <2>1, <2>2 DEF Server!Read, S!Read, Server!tables, S!tables
  <2>. QED BY <2>3 DEF S!Serve
<1>6. CASE Server!Refuse(r)
  <2>1. S!Refuse(r)
    BY <1>1, <1>6, SameHelpers DEF Server!Refuse, S!Refuse
  <2>. QED BY <2>1 DEF S!Serve
<1>7. CASE Server!Admit(r)
  <2>1. S!Admit(r)
    BY <1>1, <1>7, SameHelpers DEF Server!Admit, S!Admit
  <2>. QED BY <2>1 DEF S!Serve
<1>8. CASE Server!Collide(r)
  <2>1. S!Collide(r)
    BY <1>1, <1>8, SameHelpers DEF Server!Collide, S!Collide, Server!tables, S!tables
  <2>. QED BY <2>1 DEF S!Serve
<1>9. CASE Server!FindWinner(r)
  <2>1. S!FindWinner(r)
    BY <1>1, <1>9 DEF Server!FindWinner, S!FindWinner, Server!tables, S!tables
  <2>. QED BY <2>1 DEF S!Serve
<1>10. CASE Server!Concede(r)
  <2>1. S!Concede(r)
    BY <1>1, <1>10, SameHelpers DEF Server!Concede, S!Concede
  <2>. QED BY <2>1 DEF S!Serve
<1>11. CASE Server!Violate(r)
  <2>1. S!Violate(r)
    BY <1>1, <1>11, SameHelpers DEF Server!Violate, S!Violate, Server!tables, S!tables
  <2>. QED BY <2>1 DEF S!Serve
<1>12. CASE Server!Finish(r)
  <2>1. S!Finish(r)
    BY <1>12, SameHelpers, SameCardinality DEF Server!Finish, S!Finish, Server!tables, S!tables
  <2>. QED BY <2>1 DEF S!Serve
<1>. QED BY <1>2, <1>3, <1>4, <1>5, <1>6, <1>7, <1>8, <1>9, <1>10, <1>11, <1>12 DEF Server!Serve

LEMMA SameCrash ==
  ASSUME NEW r \in Request, Server!Crash(r)
  PROVE  S!Crash(r)
BY SameHelpers DEF Server!Crash, S!Crash, Server!tables, S!tables

\* The control room.
LEMMA SameDesk ==
  ASSUME NEW c \in Code,
         \/ Server!IssuePass(c) \/ Server!Revoke(c) \/ Server!Restore(c)
         \/ Server!ReverseCheckIn(c) \/ Server!UndoRegistrationReview(c)
         \/ \E s \in {"APPROVED", "REVISION_REQUESTED", "REJECTED"} : Server!Review(c, s)
         \/ \E n \in 0..MaxLimit : Server!AdjustPassQrLife(c, n)
         \/ \E g \in 0..MaxGuests : Server!RecordManualCheckIn(c, g)
  PROVE  S!Desk(c)
<1>1. CASE Server!IssuePass(c)
  BY <1>1 DEF Server!IssuePass, S!IssuePass, S!Desk
<1>2. CASE Server!Revoke(c) \/ Server!Restore(c) \/ Server!UndoRegistrationReview(c)
  BY <1>2 DEF Server!Revoke, S!Revoke, Server!Restore, S!Restore, S!Desk,
              Server!UndoRegistrationReview, S!UndoRegistrationReview
<1>3. CASE Server!ReverseCheckIn(c)
  <2>1. S!ReverseCheckIn(c)
    BY <1>3 DEF Server!ReverseCheckIn, S!ReverseCheckIn, Server!Event, S!Event,
                Server!Recorded, S!Recorded
  <2>. QED BY <2>1 DEF S!Desk
<1>4. CASE \E s \in {"APPROVED", "REVISION_REQUESTED", "REJECTED"} : Server!Review(c, s)
  BY <1>4 DEF Server!Review, S!Review, S!Desk
<1>5. CASE \E n \in 0..MaxLimit : Server!AdjustPassQrLife(c, n)
  BY <1>5 DEF Server!AdjustPassQrLife, S!AdjustPassQrLife, S!Desk
<1>6. CASE \E g \in 0..MaxGuests : Server!RecordManualCheckIn(c, g)
  <2>1. PICK g \in 0..MaxGuests : Server!RecordManualCheckIn(c, g)
    BY <1>6
  <2>2. Server!Unused = S!Unused /\ Server!Oldest(Server!Unused) = S!Oldest(S!Unused)
    BY SameHelpers, SameRest
  <2>3. S!RecordManualCheckIn(c, g)
    BY <2>1, <2>2 DEF Server!RecordManualCheckIn, S!RecordManualCheckIn
  <2>. QED BY <2>3 DEF S!Desk
<1>. QED BY <1>1, <1>2, <1>3, <1>4, <1>5, <1>6

\* What reaches the server from the phones.
LEMMA SamePhones ==
  /\ \A d, c : Server!Take(d, c) => S!Take(d, c)
  /\ \A e, n : Server!AmendGuests(e, n) => S!AmendGuests(e, n)
  /\ \A r, d, T, gen : Server!Post(r, d, T, gen) => S!Post(r, d, T, gen)
  /\ \A r : Server!Collect(r) => S!Collect(r)
  /\ \A d : Server!SetBlocked(d) => S!SetBlocked(d)
<1>1. Server!Unused = S!Unused /\ Server!Oldest(Server!Unused) = S!Oldest(S!Unused)
  BY SameHelpers, SameRest
<1>2. \A d, c : Server!Take(d, c) => S!Take(d, c)
  BY <1>1 DEF Server!Take, S!Take, Server!tables, S!tables
<1>3. \A e, n : Server!AmendGuests(e, n) => S!AmendGuests(e, n)
  BY DEF Server!AmendGuests, S!AmendGuests, Server!tables, S!tables
<1>4. \A d, b, gen : Server!NewRequest(d, b, gen) = S!NewRequest(d, b, gen)
  BY DEF Server!NewRequest, S!NewRequest, Server!Event, S!Event
<1>5. \A r, d, T, gen : Server!Post(r, d, T, gen) => S!Post(r, d, T, gen)
  BY <1>4 DEF Server!Post, S!Post, Server!Idle, S!Idle, Server!tables, S!tables
<1>6. \A r : Server!Collect(r) => S!Collect(r)
  BY DEF Server!Collect, S!Collect, Server!Idle, S!Idle, Server!tables, S!tables
<1>7. \A d : Server!SetBlocked(d) => S!SetBlocked(d)
  BY DEF Server!SetBlocked, S!SetBlocked, Server!tables, S!tables
<1>. QED BY <1>2, <1>3, <1>5, <1>6, <1>7

-----------------------------------------------------------------------------
(* The assumptions of SyncServerProofs hold for the gate.                   *)

LEMMA ServerAssumptions ==
  /\ S!NullIsNotANumber /\ S!SkewToleranceIsNatural
  /\ S!ClaimsAreClaims /\ S!ClaimsCanBeAmended
  /\ S!CodesAreNotNull /\ S!MultiUseCodes
  /\ S!TimesAreIntegers /\ S!BoundsAreNatural /\ S!NullIsNoRow
<1>1. S!NullIsNotANumber /\ S!SkewToleranceIsNatural
  BY NullIsNotANumber, SkewToleranceIsNatural DEF S!NullIsNotANumber, S!SkewToleranceIsNatural
<1>2. Outcomes = S!Outcomes
  BY DEF Outcomes, S!Outcomes
<1>3. S!ClaimsAreClaims
  BY <1>2 DEF S!ClaimsAreClaims, AnyClaim
<1>4. S!ClaimsCanBeAmended
  BY BoundsAreNatural DEF S!ClaimsCanBeAmended, AnyClaim
<1>5. S!CodesAreNotNull /\ S!MultiUseCodes
  BY CodesAreCodes DEF S!CodesAreNotNull, S!MultiUseCodes
<1>6. S!TimesAreIntegers /\ S!BoundsAreNatural
  BY BoundsAreNatural DEF S!TimesAreIntegers, S!BoundsAreNatural
<1>7. S!NullIsNoRow
  <2>1. /\ S!PassRow = Server!PassRow /\ S!CheckInRow = Server!CheckInRow
        /\ S!EventRow = Server!EventRow /\ S!KnownPass = Server!KnownPass
        /\ S!Result = Server!Result /\ S!Live = Server!Live
        /\ S!ScanRow = [dev : Device, claim : AnyClaim]
    <3>1. S!PassRow = Server!PassRow /\ S!KnownPass = Server!KnownPass
      BY DEF S!PassRow, Server!PassRow, S!KnownPass, Server!KnownPass, S!PassStatuses,
             Server!PassStatuses, S!RegistrationStatuses, Server!RegistrationStatuses
    <3>2. S!CheckInRow = Server!CheckInRow
      BY DEF S!CheckInRow, Server!CheckInRow, S!Event, Server!Event
    <3>3. S!EventRow = Server!EventRow
      BY DEF S!EventRow, Server!EventRow, S!Event, Server!Event, S!Outcomes, Server!Outcomes,
             S!Reasons, Server!Reasons, S!AdmitReasons, Server!AdmitReasons,
             S!WindowReasons, Server!WindowReasons, S!NotApprovedReasons,
             Server!NotApprovedReasons, S!InvalidReasons, Server!InvalidReasons
    <3>4. S!Result = Server!Result
      BY DEF S!Result, Server!Result, S!Event, Server!Event, S!Outcomes, Server!Outcomes
    <3>5. S!Live = Server!Live
      BY <3>1, <3>2 DEF S!Live, Server!Live
    <3>. QED BY <3>1, <3>2, <3>3, <3>4, <3>5 DEF S!ScanRow
  <2>. QED BY <2>1, NullIsNoRow DEF S!NullIsNoRow
<1>. QED BY <1>1, <1>3, <1>4, <1>5, <1>6, <1>7

-----------------------------------------------------------------------------
(* What the phones hold, for TypeOK and for every invariant below.           *)

Drains ==
  [pc : {"idle"}] \cup [pc : {"ready"}, gen : Nat]
    \cup [pc : {"waiting"}, gen : Nat, batch : (SUBSET Event) \ {{}}, req : Request]
    \cup [pc : {"fold"}, gen : Nat, rest : SUBSET Event,
          codes : UNION {[T -> Code \cup {NULL}] : T \in SUBSET Event}]

Refreshes ==
  [pc : {"asked"}, since : Phone!Meta \cup {NULL}]
    \cup [pc : {"answered"}, response : Phone!Response]
    \cup [pc : {"protected"}, response : Phone!Response, codes : SUBSET (Code \cup {NULL})]

\* The entries a drain may yet count a failure for.
Tried(q) == IF q.pc = "waiting" THEN q.batch ELSE IF q.pc = "fold" THEN q.rest ELSE {}

StoresOK == /\ store \in [Device -> [Code -> Phone!Row \cup {NULL}]]
            /\ meta \in [Device -> Phone!Meta \cup {NULL}]

QueuesOK == queue \in [Device -> [Event -> Phone!Entry \cup {NULL}]]

CallsOK == /\ busy \in [Device -> ScansUnderWay \cup {NULL}]
           /\ drain \in [Device -> Drains]
           /\ refresh \in [Device -> [Slot -> Refreshes \cup {NULL}]]
           /\ wiped \subseteq Device
           /\ network \in [Device -> Phone!Networks]

ClockOK == /\ now \in Nat /\ version \in 1..MaxVersion
           /\ stamp \in [Code -> 0..now]

\* An entry under way stays in the outbox and has a failure left: this is why the
\* count in the outbox never passes MAX_ATTEMPTS.
AttemptsLeft ==
  \A d \in Device : \A e \in Tried(drain[d]) :
    queue[d][e] # NULL /\ queue[d][e].attempts < MaxAttempts

\* The histories.
LetInOK == /\ letIn \in [Device -> SUBSET Code] /\ overtaken \in [Device -> SUBSET Code]
           /\ unbacked \in [Device -> SUBSET Code]

GateTypes == StoresOK /\ QueuesOK /\ CallsOK /\ ClockOK /\ AttemptsLeft /\ LetInOK

LEMMA SameEvents == Phone!Event = Event /\ Server!Event = Event /\ S!Event = Event
BY DEF Phone!Event, Server!Event, S!Event, Event

\* What performScan makes of a thing it reads.
LEMMA JudgeTypes ==
  ASSUME StoresOK, now \in Nat, NEW d \in Device, NEW raw \in Raw, NEW override \in BOOLEAN
  PROVE  LET j == Phone!Judge(d, raw, override, now) IN
         j.code \in Code \cup {NULL} /\ j.admitted \in BOOLEAN /\ j.claim \in AnyClaim
<1>1. PICK parsed : parsed = Phone!DeviceParse(raw)
  OBVIOUS
<1>2. parsed.code \in Code \cup {NULL}
  BY <1>1, RawsNameCodes DEF Phone!DeviceParse, Phone!FromEnvelope, Phone!Unsigned, Phone!Digits
<1>3. PICK known : known = Phone!Find(d, parsed.code)
  OBVIOUS
<1>4. known \in Phone!Row \cup {NULL}
  BY <1>3 DEF Phone!Find, StoresOK
<1>5. PICK decision : decision =
        Phone!DecideScan(Phone!ScanInput(parsed, raw.method, now), known,
          [generatedAt |-> meta[d].generatedAt, maxAge |-> MaxAge,
           opensAt |-> OpensAt, closesAt |-> ClosesAt])
  OBVIOUS
<1>6. PICK reason : decision = [reason |-> reason, outcome |-> Phone!OutcomeOf(reason),
                                admits |-> reason \in Phone!AdmitReasons,
                                overridable |-> reason \in Phone!WindowReasons \cup {"MANIFEST_TOO_OLD"},
                                clockSuspect |-> decision.clockSuspect]
  BY <1>5 DEF Phone!DecideScan
<1>7. decision.outcome \in Outcomes
  BY <1>6 DEF Phone!OutcomeOf, Outcomes
<1>8. decision.admits \in BOOLEAN /\ decision.overridable \in BOOLEAN
  <2>. DEFINE admits == reason \in Phone!AdmitReasons
              overridable == reason \in Phone!WindowReasons \cup {"MANIFEST_TOO_OLD"}
  <2>1. admits \in BOOLEAN
    OBVIOUS
  <2>2. overridable \in BOOLEAN
    OBVIOUS
  <2>. HIDE DEF admits, overridable
  <2>3. decision = [reason |-> reason, outcome |-> Phone!OutcomeOf(reason), admits |-> admits,
                    overridable |-> overridable, clockSuspect |-> decision.clockSuspect]
    BY <1>6, Zenon DEF admits, overridable
  <2>4. decision.admits = admits /\ decision.overridable = overridable
    BY <2>3
  <2>. QED BY <2>1, <2>2, <2>4
<1>9. PICK overridden \in BOOLEAN : overridden = (override /\ decision.overridable)
  BY <1>8
<1>10. PICK admitted \in BOOLEAN : admitted = (decision.admits \/ overridden)
  BY <1>8
<1>11. PICK claim :
         claim = [raw |-> raw, scannedAt |-> now, overridden |-> overridden,
                  outcome |-> IF overridden THEN "ADMITTED" ELSE decision.outcome,
                  guests |-> IF admitted /\ known # NULL THEN known.guestCount ELSE 0]
  OBVIOUS
<1>12. Phone!Judge(d, raw, override, now) =
         [code |-> parsed.code, admitted |-> admitted, claim |-> claim]
  BY <1>1, <1>3, <1>5, <1>9, <1>10, <1>11, Zenon DEF Phone!Judge
<1>13. claim \in AnyClaim
  <2>1. (IF overridden THEN "ADMITTED" ELSE decision.outcome) \in Outcomes
    BY <1>7 DEF Outcomes
  <2>2. (IF admitted /\ known # NULL THEN known.guestCount ELSE 0) \in Nat
    BY <1>4 DEF Phone!Row
  <2>. QED BY <1>11, <2>1, <2>2 DEF AnyClaim
<1>. QED BY <1>2, <1>12, <1>13

LEMMA StartScanTypes ==
  ASSUME GateTypes, NEW d \in Device, StartScan(d)
  PROVE  GateTypes'
<1>1. PICK raw \in Raw, override \in BOOLEAN : Phone!StartScan(d, raw, override, now)
  BY DEF StartScan
<1>2. PICK j : j = Phone!Judge(d, raw, override, now)
  OBVIOUS
<1>3. j.code \in Code \cup {NULL} /\ j.admitted \in BOOLEAN /\ j.claim \in AnyClaim
  BY <1>2, JudgeTypes DEF GateTypes, ClockOK
<1>4. PICK scanning : scanning =
        [pc |-> IF j.admitted /\ j.code # NULL THEN "mark" ELSE "enqueue",
         code |-> j.code, admitted |-> j.admitted, claim |-> j.claim]
  OBVIOUS
<1>5. scanning \in ScansUnderWay
  BY <1>3, <1>4 DEF ScansUnderWay
<1>6. /\ busy' = [busy EXCEPT ![d] = scanning]
      /\ UNCHANGED <<store, meta, queue, drain, refresh, wiped, network>>
  BY <1>1, <1>2, <1>4 DEF Phone!StartScan
<1>7. UNCHANGED rest
  BY DEF StartScan
<1>. QED BY <1>5, <1>6, <1>7 DEF GateTypes, StoresOK, QueuesOK, CallsOK, ClockOK, AttemptsLeft,
                                 LetInOK, rest

\* markCheckedInLocally: the row says that it was used.
LEMMA MarkedRow ==
  ASSUME NEW row \in Phone!Row
  PROVE  /\ Phone!Marked(row) \in Phone!Row
         /\ Phone!Marked(row) # NULL /\ row # NULL
         /\ Phone!Marked(row).scansCount >= 1
         /\ Phone!Marked(row).scanLimit = row.scanLimit
<1>1. row.scansCount \in Nat /\ row.scansCount # NULL /\ row # NULL
  BY NullIsNotANumber, NullIsNoRow DEF Phone!Row
<1>2. Phone!ScansUsed(row) = row.scansCount
  BY <1>1 DEF Phone!ScansUsed
<1>3. Phone!Marked(row) = [row EXCEPT !.scansCount = row.scansCount + 1, !.checkedIn = TRUE]
  BY <1>1, <1>2 DEF Phone!Marked
<1>4. /\ Phone!Marked(row) \in Phone!Row
      /\ Phone!Marked(row).scansCount = row.scansCount + 1
      /\ Phone!Marked(row).scanLimit = row.scanLimit
  <2>1. PICK n \in Nat : n = row.scansCount + 1
    BY <1>1
  <2>2. PICK marked : marked = [row EXCEPT !.scansCount = n, !.checkedIn = TRUE]
    OBVIOUS
  <2>3. /\ marked \in Phone!Row
        /\ marked.scansCount = n /\ marked.scanLimit = row.scanLimit
    BY <2>2 DEF Phone!Row
  <2>4. Phone!Marked(row) = marked
    BY <1>3, <2>1, <2>2
  <2>. QED BY <2>1, <2>3, <2>4
<1>. QED BY <1>1, <1>4, NullIsNoRow

LEMMA MarkStore ==
  ASSUME StoresOK, NEW d \in Device, NEW code, Phone!MarkLocally(d, code)
  PROVE  /\ store' \in [Device -> [Code -> Phone!Row \cup {NULL}]]
         /\ \A p \in Device, c \in Code :
              \/ store'[p][c] = store[p][c]
              \/ store[p][c] \in Phone!Row /\ store'[p][c] = Phone!Marked(store[p][c])
         /\ (code \in Code /\ store[d][code] # NULL) =>
              store'[d][code] = Phone!Marked(store[d][code])
         /\ \A p \in Device, c \in Code :
              (p # d \/ c # code) => store'[p][c] = store[p][c]
<1>1. CASE code \notin Code
  BY <1>1 DEF Phone!MarkLocally, StoresOK
<1>2. CASE code \in Code
  <2>1. PICK row : row = Phone!Marked(store[d][code])
    OBVIOUS
  <2>2. store' = [store EXCEPT ![d][code] = row]
    BY <1>2, <2>1 DEF Phone!MarkLocally
  <2>3. store[d][code] \in Phone!Row \cup {NULL}
    BY <1>2 DEF StoresOK
  <2>4. row \in Phone!Row \cup {NULL} /\ (store[d][code] = NULL => row = NULL)
    BY <2>1, <2>3, MarkedRow DEF Phone!Marked
  <2>5. /\ store'[d][code] = row
        /\ \A p \in Device, c \in Code : (p # d \/ c # code) => store'[p][c] = store[p][c]
    BY <1>2, <2>2 DEF StoresOK
  <2>6. store' \in [Device -> [Code -> Phone!Row \cup {NULL}]]
    BY <1>2, <2>2, <2>4 DEF StoresOK
  <2>. QED BY <2>1, <2>3, <2>4, <2>5, <2>6
<1>. QED BY <1>1, <1>2

LEMMA MarkScanTypes ==
  ASSUME GateTypes, NEW d \in Device, MarkScan(d)
  PROVE  GateTypes'
<1>1. busy[d] \in ScansUnderWay
  BY DEF MarkScan, Phone!MarkScan, GateTypes, CallsOK
<1>2. [busy[d] EXCEPT !.pc = "enqueue"] \in ScansUnderWay
  BY <1>1 DEF ScansUnderWay
<1>3. /\ busy' = [busy EXCEPT ![d] = [busy[d] EXCEPT !.pc = "enqueue"]]
      /\ UNCHANGED <<meta, queue, drain, refresh, wiped, network, now, stamp, version>>
  BY DEF MarkScan, Phone!MarkScan
<1>4. store' \in [Device -> [Code -> Phone!Row \cup {NULL}]]
  BY MarkStore DEF MarkScan, Phone!MarkScan, GateTypes
<1>5. LetInOK'
  <2>1. PICK marked : /\ marked = IF Phone!Find(d, busy[d].code) = NULL THEN {} ELSE {busy[d].code}
                      /\ letIn' = [letIn EXCEPT ![d] = letIn[d] \cup marked]
                      /\ overtaken' = [overtaken EXCEPT ![d] = overtaken[d] \ marked]
                      /\ UNCHANGED unbacked
    BY DEF MarkScan
  <2>2. marked \subseteq Code
    BY <2>1 DEF Phone!Find
  <2>. QED BY <2>1, <2>2 DEF GateTypes, LetInOK
<1>. QED BY <1>2, <1>3, <1>4, <1>5 DEF GateTypes, StoresOK, QueuesOK, CallsOK, ClockOK,
                                       AttemptsLeft

LEMMA EnqueueTypes ==
  ASSUME GateTypes, NEW d \in Device, Enqueue(d)
  PROVE  GateTypes'
<1>1. PICK e : e = Server!Oldest(Server!Unused)
  OBVIOUS
<1>2. e \in Event
  <2>1. S!Unused # {} /\ e = S!Oldest(S!Unused)
    BY <1>1, SameHelpers, SameRest DEF Enqueue
  <2>. QED BY <2>1, S!UnusedEvent, ServerAssumptions, SameEvents DEF S!UnusedEvent
<1>3. Phone!Enqueue(d, e)
  BY <1>1 DEF Enqueue
<1>4. busy[d] \in ScansUnderWay
  BY <1>3 DEF Phone!Enqueue, GateTypes, CallsOK
<1>5. PICK entry : entry = [code |-> busy[d].code, admitted |-> busy[d].admitted, attempts |-> 0]
  OBVIOUS
<1>6. entry \in Phone!Entry /\ entry.attempts < MaxAttempts
  BY <1>4, <1>5, BatchesAreBounded DEF ScansUnderWay, Phone!Entry
<1>7. /\ queue' = [queue EXCEPT ![d][e] = entry] /\ busy' = [busy EXCEPT ![d] = NULL]
      /\ UNCHANGED <<store, meta, drain, refresh, wiped, network>> /\ UNCHANGED rest
  BY <1>3, <1>5 DEF Phone!Enqueue, Enqueue
<1>8. QueuesOK'
  BY <1>2, <1>6, <1>7 DEF GateTypes, QueuesOK
<1>9. AttemptsLeft'
  <2>1. \A p \in Device, f \in Event : queue'[p][f] = queue[p][f] \/ queue'[p][f] = entry
    BY <1>2, <1>7 DEF GateTypes, QueuesOK
  <2>2. \A p \in Device : Tried(drain[p]) \subseteq Event
    BY DEF GateTypes, CallsOK, Drains, Tried
  <2>. QED BY <1>6, <1>7, <2>1, <2>2, NullIsNoRow DEF GateTypes, AttemptsLeft
<1>. QED BY <1>7, <1>8, <1>9 DEF GateTypes, StoresOK, CallsOK, ClockOK, LetInOK, rest


\* drainOutbox up to the request: a batch holds entries that may still be sent.
LEMMA DrainTypes ==
  ASSUME GateTypes, NEW d \in Device,
         StartDrain(d) \/ EndDrain(d) \/ \E r \in Request : SendBatch(d, r)
  PROVE  GateTypes'
<1>. DEFINE Keeps == /\ UNCHANGED <<store, meta, queue, busy, refresh, wiped, network>>
                     /\ UNCHANGED rest
<1>1. ASSUME NEW q \in Drains, drain' = [drain EXCEPT ![d] = q], Keeps,
             \A e \in Tried(q) : queue[d][e] # NULL /\ queue[d][e].attempts < MaxAttempts
      PROVE  GateTypes'
  <2>1. AttemptsLeft'
    BY <1>1 DEF GateTypes, CallsOK, AttemptsLeft
  <2>. QED BY <1>1, <2>1 DEF GateTypes, StoresOK, QueuesOK, CallsOK, ClockOK, LetInOK, rest
<1>2. CASE StartDrain(d)
  <2>1. PICK gen : gen = IF meta[d] = NULL THEN 0 ELSE meta[d].generatedAt
    OBVIOUS
  <2>2. gen \in Nat
    BY <2>1 DEF GateTypes, StoresOK, Phone!Meta
  <2>3. PICK q : q = [pc |-> "ready", gen |-> gen]
    OBVIOUS
  <2>4. q \in Drains /\ Tried(q) = {}
    BY <2>2, <2>3 DEF Drains, Tried
  <2>5. drain' = [drain EXCEPT ![d] = q] /\ Keeps
    BY <1>2, <2>1, <2>3 DEF StartDrain, Phone!StartDrain
  <2>. QED BY <1>1, <2>4, <2>5
<1>3. CASE EndDrain(d)
  <2>1. Phone!NotDraining \in Drains /\ Tried(Phone!NotDraining) = {}
    BY DEF Phone!NotDraining, Drains, Tried
  <2>2. drain' = [drain EXCEPT ![d] = Phone!NotDraining] /\ Keeps
    BY <1>3 DEF EndDrain, Phone!EndDrain
  <2>. QED BY <1>1, <2>1, <2>2
<1>4. ASSUME NEW r \in Request, SendBatch(d, r) PROVE GateTypes'
  <2>1. drain[d] \in Drains /\ drain[d].pc = "ready"
    BY <1>4 DEF SendBatch, Phone!SendBatch, GateTypes, CallsOK
  <2>2. drain[d].gen \in Nat
    BY <2>1 DEF Drains
  <2>3. PICK q : q = [pc |-> "waiting", gen |-> drain[d].gen, batch |-> Phone!NextBatch(d),
                      req |-> r]
    OBVIOUS
  <2>4. \A e \in Phone!NextBatch(d) :
          e \in Event /\ queue[d][e] # NULL /\ queue[d][e].attempts < MaxAttempts
    BY SameEvents DEF Phone!NextBatch, Phone!Sendable, Phone!Queued
  <2>5. q \in Drains /\ Tried(q) = Phone!NextBatch(d)
    <3>1. Phone!NextBatch(d) \in (SUBSET Event) \ {{}}
      BY <1>4, <2>4 DEF SendBatch, Phone!SendBatch
    <3>. QED BY <2>2, <2>3, <3>1 DEF Drains, Tried
  <2>6. drain' = [drain EXCEPT ![d] = q] /\ Keeps
    BY <1>4, <2>3 DEF SendBatch, Phone!SendBatch
  <2>. QED BY <1>1, <2>4, <2>5, <2>6
<1>. QED BY <1>2, <1>3, <1>4

\* recordFailure on entries that have a failure left.
LEMMA FailureTypes ==
  ASSUME QueuesOK, NEW d \in Device, NEW batch \in SUBSET Event, Phone!RecordFailure(d, batch),
         \A e \in batch : queue[d][e] # NULL => queue[d][e].attempts < MaxAttempts
  PROVE  /\ QueuesOK'
         /\ \A p \in Device \ {d} : queue'[p] = queue[p]
         /\ \A p \in Device, e \in Event : queue'[p][e] = NULL <=> queue[p][e] = NULL
<1>1. PICK entries : entries =
        [e \in Event |-> IF e \in batch /\ queue[d][e] # NULL
                         THEN [queue[d][e] EXCEPT !.attempts = queue[d][e].attempts + 1]
                         ELSE queue[d][e]]
  OBVIOUS
<1>2. queue' = [queue EXCEPT ![d] = entries]
  <2>1. queue' = [queue EXCEPT ![d] = [e \in Event |->
                    IF e \in batch /\ queue[d][e] # NULL
                    THEN [queue[d][e] EXCEPT !.attempts = queue[d][e].attempts + 1]
                    ELSE queue[d][e]]]
    BY Zenon DEF Phone!RecordFailure, Phone!Event, Event
  <2>. QED BY <1>1, <2>1, Zenon
<1>3. \A e \in Event : /\ entries[e] \in Phone!Entry \cup {NULL}
                       /\ entries[e] = NULL <=> queue[d][e] = NULL
  <2>. SUFFICES ASSUME NEW e \in Event
                PROVE  /\ entries[e] \in Phone!Entry \cup {NULL}
                       /\ entries[e] = NULL <=> queue[d][e] = NULL
    OBVIOUS
  <2>1. CASE e \in batch /\ queue[d][e] # NULL
    <3>1. queue[d][e] \in Phone!Entry /\ queue[d][e].attempts < MaxAttempts
      BY <2>1 DEF QueuesOK
    <3>2. queue[d][e].attempts + 1 \in 0..MaxAttempts
      BY <3>1, BatchesAreBounded DEF Phone!Entry
    <3>3. [queue[d][e] EXCEPT !.attempts = queue[d][e].attempts + 1] \in Phone!Entry
      BY <3>1, <3>2 DEF Phone!Entry
    <3>. QED BY <1>1, <2>1, <3>3, NullIsNoRow
  <2>2. CASE ~(e \in batch /\ queue[d][e] # NULL)
    BY <1>1, <2>2 DEF QueuesOK
  <2>. QED BY <2>1, <2>2
<1>4. entries \in [Event -> Phone!Entry \cup {NULL}]
  BY <1>1, <1>3
<1>5. /\ QueuesOK'
      /\ queue'[d] = entries /\ \A p \in Device \ {d} : queue'[p] = queue[p]
  BY <1>2, <1>4 DEF QueuesOK
<1>. QED BY <1>3, <1>5

\* A drain that is given up counts a failure for each entry of its batch.
LEMMA FailedTypes ==
  ASSUME GateTypes, NEW d \in Device, Phone!Failed(d), UNCHANGED rest
  PROVE  GateTypes'
<1>1. drain[d] \in Drains /\ drain[d].pc = "waiting"
  BY DEF Phone!Failed, GateTypes, CallsOK
<1>2. drain[d].batch \in SUBSET Event /\ Tried(drain[d]) = drain[d].batch
  BY <1>1 DEF Drains, Tried
<1>3. /\ QueuesOK'
      /\ \A p \in Device \ {d} : queue'[p] = queue[p]
  BY <1>2, FailureTypes DEF Phone!Failed, GateTypes, AttemptsLeft
<1>4. Phone!NotDraining \in Drains /\ Tried(Phone!NotDraining) = {}
  BY DEF Phone!NotDraining, Drains, Tried
<1>5. /\ drain' = [drain EXCEPT ![d] = Phone!NotDraining]
      /\ UNCHANGED <<store, meta, busy, refresh, wiped, network>>
  BY DEF Phone!Failed
<1>6. AttemptsLeft'
  BY <1>3, <1>4, <1>5 DEF GateTypes, CallsOK, AttemptsLeft
<1>. QED BY <1>3, <1>4, <1>5, <1>6 DEF GateTypes, StoresOK, CallsOK, ClockOK, LetInOK, rest

\* A drain that is left through its finally touches no entry.
LEMMA UnreadableTypes ==
  ASSUME GateTypes, NEW d \in Device, GarbledAnswer(d)
  PROVE  GateTypes'
<1>1. Phone!NotDraining \in Drains /\ Tried(Phone!NotDraining) = {}
  BY DEF Phone!NotDraining, Drains, Tried
<1>2. /\ drain' = [drain EXCEPT ![d] = Phone!NotDraining]
      /\ UNCHANGED <<store, meta, queue, busy, refresh, wiped, network>> /\ UNCHANGED rest
  BY DEF GarbledAnswer, Phone!Unreadable
<1>3. AttemptsLeft'
  BY <1>1, <1>2 DEF GateTypes, CallsOK, AttemptsLeft
<1>. QED BY <1>1, <1>2, <1>3 DEF GateTypes, StoresOK, QueuesOK, CallsOK, ClockOK, LetInOK, rest

\* acknowledge and the start of the fold.
LEMMA AcknowledgeTypes ==
  ASSUME GateTypes, NEW d \in Device, NEW done, NEW collided,
         Phone!Acknowledge(d, done, collided), UNCHANGED rest
  PROVE  GateTypes'
<1>1. drain[d] \in Drains /\ drain[d].pc = "waiting"
  BY DEF Phone!Acknowledge, GateTypes, CallsOK
<1>2. drain[d].batch \in SUBSET Event /\ Tried(drain[d]) = drain[d].batch /\ drain[d].gen \in Nat
  BY <1>1 DEF Drains, Tried
<1>3. PICK entries : entries = [e \in Event |-> IF e \in done \cap drain[d].batch THEN NULL
                                                ELSE queue[d][e]]
  OBVIOUS
<1>4. queue' = [queue EXCEPT ![d] = entries]
  BY <1>3, SameEvents DEF Phone!Acknowledge
<1>5. entries \in [Event -> Phone!Entry \cup {NULL}]
  BY <1>3 DEF GateTypes, QueuesOK
<1>6. QueuesOK' /\ queue'[d] = entries /\ \A p \in Device \ {d} : queue'[p] = queue[p]
  BY <1>4, <1>5 DEF GateTypes, QueuesOK
<1>7. PICK T : T = {f \in collided \cap drain[d].batch : queue[d][f].code # NULL}
  OBVIOUS
<1>8. PICK codes : codes = [e \in T |-> queue[d][e].code]
  OBVIOUS
<1>9. PICK q : q = [pc |-> "fold", gen |-> drain[d].gen, rest |-> drain[d].batch \ done,
                    codes |-> codes]
  OBVIOUS
<1>10. /\ drain' = [drain EXCEPT ![d] = q]
       /\ UNCHANGED <<store, meta, busy, refresh, wiped, network>>
  BY <1>7, <1>8, <1>9 DEF Phone!Acknowledge
<1>11. q \in Drains
  <2>1. \A e \in T : queue[d][e] \in Phone!Entry
    BY <1>2, <1>7 DEF GateTypes, AttemptsLeft, QueuesOK
  <2>2. codes \in [T -> Code \cup {NULL}]
    BY <1>8, <2>1 DEF Phone!Entry
  <2>3. T \in SUBSET Event /\ codes \in UNION {[U -> Code \cup {NULL}] : U \in SUBSET Event}
    BY <1>2, <1>7, <2>2
  <2>. QED BY <1>2, <1>7, <1>9, <2>3 DEF Drains
<1>12. AttemptsLeft'
  <2>1. Tried(q) = drain[d].batch \ done
    BY <1>9 DEF Tried
  <2>2. \A e \in drain[d].batch \ done : queue'[d][e] = queue[d][e]
    BY <1>2, <1>3, <1>6
  <2>. QED BY <1>2, <1>6, <1>10, <2>1, <2>2 DEF GateTypes, CallsOK, AttemptsLeft
<1>. QED BY <1>6, <1>10, <1>11, <1>12 DEF GateTypes, StoresOK, CallsOK, ClockOK, LetInOK, rest


\* markCheckedInLocally for a collision, one code at a time.
LEMMA FoldTypes ==
  ASSUME GateTypes, NEW d \in Device, Fold(d)
  PROVE  GateTypes'
<1>1. drain[d] \in Drains /\ drain[d].pc = "fold"
  BY DEF Fold, Phone!Fold, GateTypes, CallsOK
<1>2. /\ drain[d].rest \in SUBSET Event /\ drain[d].gen \in Nat
      /\ drain[d].codes \in UNION {[T -> Code \cup {NULL}] : T \in SUBSET Event}
  BY <1>1 DEF Drains
<1>3. PICK T \in SUBSET Event : drain[d].codes \in [T -> Code \cup {NULL}]
  BY <1>2
<1>4. PICK e : e = Phone!Oldest(DOMAIN drain[d].codes)
  OBVIOUS
<1>5. PICK codes : codes = [f \in T \ {e} |-> drain[d].codes[f]]
  OBVIOUS
<1>6. PICK q : q = [drain[d] EXCEPT !.codes = codes]
  OBVIOUS
<1>7. codes \in UNION {[U -> Code \cup {NULL}] : U \in SUBSET Event}
  <2>1. codes \in [T \ {e} -> Code \cup {NULL}] /\ T \ {e} \in SUBSET Event
    BY <1>3, <1>5
  <2>. QED BY <2>1
<1>8. q \in Drains /\ Tried(q) = Tried(drain[d])
  <2>1. drain[d] \in [pc : {"fold"}, gen : Nat, rest : SUBSET Event,
                      codes : UNION {[U -> Code \cup {NULL}] : U \in SUBSET Event}]
    BY <1>1 DEF Drains
  <2>2. q = [pc |-> "fold", gen |-> drain[d].gen, rest |-> drain[d].rest, codes |-> codes]
    BY <1>6, <2>1
  <2>. QED BY <1>1, <1>2, <1>7, <2>2 DEF Drains, Tried
<1>9. /\ drain' = [drain EXCEPT ![d] = q]
      /\ UNCHANGED <<meta, queue, busy, refresh, wiped, network>> /\ UNCHANGED rest
      /\ \E code : Phone!MarkLocally(d, code)
  <2>1. DOMAIN drain[d].codes = T
    BY <1>3
  <2>2. drain' = [drain EXCEPT ![d].codes = [f \in DOMAIN drain[d].codes \ {e} |->
                                                drain[d].codes[f]]]
    BY <1>4 DEF Fold, Phone!Fold
  <2>3. drain' = [drain EXCEPT ![d].codes = codes]
    BY <1>5, <2>1, <2>2
  <2>4. drain' = [drain EXCEPT ![d] = q]
    BY <1>6, <2>3
  <2>. QED BY <2>4 DEF Fold, Phone!Fold
<1>10. store' \in [Device -> [Code -> Phone!Row \cup {NULL}]]
  BY <1>9, MarkStore DEF GateTypes
<1>11. AttemptsLeft'
  BY <1>8, <1>9 DEF GateTypes, CallsOK, AttemptsLeft
<1>. QED BY <1>8, <1>9, <1>10, <1>11 DEF GateTypes, StoresOK, QueuesOK, CallsOK, ClockOK, LetInOK,
                                         rest

LEMMA FoldedTypes ==
  ASSUME GateTypes, NEW d \in Device, Folded(d)
  PROVE  GateTypes'
<1>1. drain[d] \in Drains /\ drain[d].pc = "fold"
  BY DEF Folded, Phone!Folded, GateTypes, CallsOK
<1>2. drain[d].rest \in SUBSET Event /\ Tried(drain[d]) = drain[d].rest /\ drain[d].gen \in Nat
  BY <1>1 DEF Drains, Tried
<1>3. /\ QueuesOK'
      /\ \A p \in Device \ {d} : queue'[p] = queue[p]
  BY <1>2, FailureTypes DEF Folded, Phone!Folded, GateTypes, AttemptsLeft
<1>4. PICK q : q = IF drain[d].rest = {} THEN [pc |-> "ready", gen |-> drain[d].gen]
                   ELSE Phone!NotDraining
  OBVIOUS
<1>5. q \in Drains /\ Tried(q) = {}
  BY <1>2, <1>4 DEF Phone!NotDraining, Drains, Tried
<1>6. /\ drain' = [drain EXCEPT ![d] = q]
      /\ UNCHANGED <<store, meta, busy, refresh, wiped, network>> /\ UNCHANGED rest
  BY <1>4 DEF Folded, Phone!Folded
<1>7. AttemptsLeft'
  BY <1>3, <1>5, <1>6 DEF GateTypes, CallsOK, AttemptsLeft
<1>. QED BY <1>3, <1>5, <1>6, <1>7 DEF GateTypes, StoresOK, CallsOK, ClockOK, LetInOK, rest

\* A step that leaves the phones alone, the clock apart.
LEMMA PhonesRest ==
  ASSUME GateTypes, UNCHANGED <<store, meta, queue, busy, drain, refresh, wiped, network, letIn, overtaken, unbacked>>,
         ClockOK'
  PROVE  GateTypes'
BY DEF GateTypes, StoresOK, QueuesOK, CallsOK, AttemptsLeft, LetInOK

\* What buildManifest answers with, whatever the registrations and scans are.
LEMMA ManifestTypes ==
  ASSUME S!TypeOK, ClockOK, NEW since
  PROVE  BuildManifest(since) \in Phone!Response
<1>1. ASSUME NEW c \in Code, pass[c] # NULL, pass[c].registration # "REJECTED"
      PROVE  ToManifestPass(c) \in Phone!Row
  <2>1. pass[c] \in S!PassRow
    BY <1>1 DEF S!TypeOK
  <2>2. /\ pass[c].status \in Phone!PassStatuses
        /\ pass[c].registration \in Phone!RegistrationStatuses
        /\ pass[c].scanLimit \in Nat /\ pass[c].guestCount \in Nat
    BY <1>1, <2>1, BoundsAreNatural DEF S!PassRow, S!PassStatuses, Phone!PassStatuses,
       S!RegistrationStatuses, Phone!RegistrationStatuses
  <2>3. Cardinality(Server!AdmittedEvents(c)) \in Nat
    <3>1. S!AdmittedEvents(c) \in SUBSET S!Event
      BY DEF S!AdmittedEvents
    <3>2. S!Cardinality(S!AdmittedEvents(c)) \in Nat
      BY <3>1, S!EventCounts, ServerAssumptions DEF S!EventCounts
    <3>. QED BY <3>2, SameHelpers, SameCardinality
  <2>4. PICK in \in BOOLEAN : in = (checkIn[c] # NULL)
    OBVIOUS
  <2>5. PICK n \in Nat : n = Cardinality(Server!AdmittedEvents(c))
    BY <2>3
  <2>6. ToManifestPass(c) =
          [status |-> pass[c].status, registration |-> pass[c].registration,
           checkedIn |-> in, scanLimit |-> pass[c].scanLimit,
           scansCount |-> n, guestCount |-> pass[c].guestCount]
    BY <2>4, <2>5, Zenon DEF ToManifestPass
  <2>. QED BY <2>2, <2>6 DEF Phone!Row
<1>2. PICK delta \in BOOLEAN : delta = (since # NULL /\ since.version = version)
  OBVIOUS
<1>3. PICK rows : rows = [c \in Code |->
        IF pass[c] # NULL /\ pass[c].registration # "REJECTED"
           /\ (delta => stamp[c] > since.generatedAt)
          THEN ToManifestPass(c) ELSE NULL]
  OBVIOUS
<1>4. rows \in [Code -> Phone!Row \cup {NULL}]
  BY <1>1, <1>3
<1>5. PICK full \in BOOLEAN : full = ~delta
  OBVIOUS
<1>6. BuildManifest(since) = [version |-> version, generatedAt |-> now, full |-> full,
                              rows |-> rows]
  BY <1>2, <1>3, <1>5, Zenon DEF BuildManifest
<1>7. version \in Nat /\ now \in Nat
  BY BoundsAreNatural DEF ClockOK
<1>. QED BY <1>4, <1>6, <1>7 DEF Phone!Response

\* A protected row keeps what the phone knows of its own scans.
LEMMA MergedRow ==
  ASSUME NEW local \in Phone!Row, NEW row \in Phone!Row
  PROVE  /\ Phone!Merged(local, row) \in Phone!Row
         /\ Phone!Merged(local, row).scansCount >= local.scansCount
         /\ Phone!Merged(local, row).scanLimit = row.scanLimit
<1>1. /\ local.scansCount \in Nat /\ row.scansCount \in Nat
      /\ local.checkedIn \in BOOLEAN /\ row.checkedIn \in BOOLEAN
  BY DEF Phone!Row
<1>2. Phone!ScansUsed(local) = local.scansCount /\ Phone!ScansUsed(row) = row.scansCount
  BY <1>1, NullIsNotANumber DEF Phone!ScansUsed
<1>3. PICK n \in Nat : /\ n = IF local.scansCount > row.scansCount THEN local.scansCount
                              ELSE row.scansCount
                       /\ n >= local.scansCount
  BY <1>1
<1>4. PICK in \in BOOLEAN : in = (local.checkedIn \/ row.checkedIn)
  BY <1>1
<1>5. PICK merged : merged = [row EXCEPT !.checkedIn = in, !.scansCount = n]
  OBVIOUS
<1>6. /\ merged \in Phone!Row
      /\ merged.scansCount = n /\ merged.scanLimit = row.scanLimit
  BY <1>5 DEF Phone!Row
<1>7. Phone!Merged(local, row) = merged
  BY <1>2, <1>3, <1>4, <1>5, Zenon DEF Phone!Merged
<1>. QED BY <1>3, <1>6, <1>7


LEMMA AppliedRows ==
  ASSUME StoresOK, NEW d \in Device, NEW response \in Phone!Response, NEW codes
  PROVE  /\ Phone!Applied(d, response, codes) \in [Code -> Phone!Row \cup {NULL}]
         /\ \A c \in Code :
              LET row == Phone!Applied(d, response, codes)[c] IN
              /\ (~response.full /\ response.rows[c] = NULL) => row = store[d][c]
              /\ (~response.full /\ c \in codes /\ store[d][c] # NULL /\ response.rows[c] # NULL)
                   => row # NULL /\ row.scansCount >= store[d][c].scansCount
              /\ (response.full \/ c \notin codes) /\ response.rows[c] # NULL
                   => row = response.rows[c]
              /\ row # NULL => \/ row = store[d][c]
                               \/ response.rows[c] # NULL
                                  /\ row.scanLimit = response.rows[c].scanLimit
<1>1. response.rows \in [Code -> Phone!Row \cup {NULL}]
  BY DEF Phone!Response
<1>2. PICK base : base = IF response.full THEN [c \in Code |-> NULL] ELSE store[d]
  OBVIOUS
<1>3. base \in [Code -> Phone!Row \cup {NULL}]
  BY <1>2 DEF StoresOK
<1>4. Phone!Applied(d, response, codes) =
        [c \in Code |-> IF response.rows[c] = NULL THEN base[c]
                        ELSE IF c \in codes /\ base[c] # NULL
                             THEN Phone!Merged(base[c], response.rows[c])
                             ELSE response.rows[c]]
  BY <1>2 DEF Phone!Applied
<1>5. \A c \in Code : Phone!Applied(d, response, codes)[c] \in Phone!Row \cup {NULL}
  BY <1>1, <1>3, <1>4, MergedRow
<1>6. Phone!Applied(d, response, codes) \in [Code -> Phone!Row \cup {NULL}]
  BY <1>4, <1>5
<1>7. \A c \in Code : base[c] = NULL \/ base[c] = store[d][c]
  BY <1>2
<1>8. ASSUME NEW c \in Code, ~response.full, c \in codes, store[d][c] # NULL,
             response.rows[c] # NULL
      PROVE  LET row == Phone!Applied(d, response, codes)[c] IN
             row # NULL /\ row.scansCount >= store[d][c].scansCount
  <2>1. base[c] = store[d][c] /\ base[c] \in Phone!Row /\ response.rows[c] \in Phone!Row
    BY <1>1, <1>2, <1>3, <1>8
  <2>2. Phone!Applied(d, response, codes)[c] = Phone!Merged(base[c], response.rows[c])
    BY <1>4, <1>8, <2>1
  <2>. QED BY <2>1, <2>2, MergedRow, NullIsNoRow
<1>9. ASSUME NEW c \in Code, Phone!Applied(d, response, codes)[c] # NULL
      PROVE  LET row == Phone!Applied(d, response, codes)[c] IN
             \/ row = store[d][c]
             \/ response.rows[c] # NULL /\ row.scanLimit = response.rows[c].scanLimit
  BY <1>1, <1>3, <1>4, <1>7, <1>9, MergedRow
<1>10. ASSUME NEW c \in Code, ~response.full, response.rows[c] = NULL
       PROVE  Phone!Applied(d, response, codes)[c] = store[d][c]
  BY <1>2, <1>4, <1>10
<1>11. ASSUME NEW c \in Code, response.full \/ c \notin codes, response.rows[c] # NULL
       PROVE  Phone!Applied(d, response, codes)[c] = response.rows[c]
  BY <1>2, <1>4, <1>11
<1>. QED BY <1>6, <1>8, <1>9, <1>10, <1>11

LEMMA RefreshKinds ==
  ASSUME CallsOK, NEW d \in Device, NEW k \in Slot, refresh[d][k] # NULL
  PROVE  /\ refresh[d][k] \in Refreshes
         /\ refresh[d][k].pc \in {"asked", "answered", "protected"}
         /\ refresh[d][k].pc = "asked" => refresh[d][k].since \in Phone!Meta \cup {NULL}
         /\ refresh[d][k].pc # "asked" => refresh[d][k].response \in Phone!Response
         /\ refresh[d][k].pc = "protected" => refresh[d][k].codes \in SUBSET (Code \cup {NULL})
<1>1. refresh[d][k] \in Refreshes
  BY DEF CallsOK
<1>. QED BY <1>1 DEF Refreshes

\* A refresh that moves on touches no store before applyManifest.
LEMMA RefreshMoves ==
  ASSUME GateTypes, NEW d \in Device, NEW k \in Slot, NEW a \in Refreshes \cup {NULL},
         refresh' = [refresh EXCEPT ![d][k] = a],
         UNCHANGED <<store, meta, queue, busy, drain, wiped, network>>, UNCHANGED rest
  PROVE  GateTypes'
BY DEF GateTypes, StoresOK, QueuesOK, CallsOK, ClockOK, AttemptsLeft, LetInOK, rest

\* refreshManifest up to the transaction.
LEMMA RefreshTypes ==
  ASSUME GateTypes, S!TypeOK, NEW d \in Device, NEW k \in Slot,
         \/ \E force \in BOOLEAN : AskManifest(d, k, force)
         \/ ServeManifest(d, k) \/ DropManifest(d, k) \/ Protect(d, k)
  PROVE  GateTypes'
<1>. DEFINE Keeps == /\ UNCHANGED <<store, meta, queue, busy, drain, wiped, network>> /\ UNCHANGED rest
<1>1. ASSUME NEW force \in BOOLEAN, AskManifest(d, k, force) PROVE GateTypes'
  <2>1. PICK since : since = IF force THEN NULL ELSE meta[d]
    OBVIOUS
  <2>2. PICK a : a = [pc |-> "asked", since |-> since]
    OBVIOUS
  <2>3. a \in Refreshes
    BY <2>1, <2>2 DEF GateTypes, StoresOK, Refreshes
  <2>4. refresh' = [refresh EXCEPT ![d][k] = a] /\ Keeps
    BY <1>1, <2>1, <2>2 DEF AskManifest, Phone!AskManifest
  <2>. QED BY <2>3, <2>4, RefreshMoves
<1>2. CASE ServeManifest(d, k)
  <2>1. PICK response : response = BuildManifest(refresh[d][k].since)
    OBVIOUS
  <2>2. response \in Phone!Response
    BY <2>1, ManifestTypes DEF GateTypes
  <2>3. PICK a : a = [pc |-> "answered", response |-> response]
    OBVIOUS
  <2>4. a \in Refreshes
    BY <2>2, <2>3 DEF Refreshes
  <2>5. refresh' = [refresh EXCEPT ![d][k] = a] /\ Keeps
    BY <1>2, <2>1, <2>3 DEF ServeManifest, Phone!Receive
  <2>. QED BY <2>4, <2>5, RefreshMoves
<1>3. CASE DropManifest(d, k)
  <2>1. refresh' = [refresh EXCEPT ![d][k] = NULL] /\ Keeps
    BY <1>3 DEF DropManifest, Phone!DropManifest
  <2>. QED BY <2>1, RefreshMoves
<1>4. CASE Protect(d, k)
  <2>1. refresh[d][k] # NULL /\ refresh[d][k].pc = "answered"
    BY <1>4 DEF Protect, Phone!Protect
  <2>2. refresh[d][k].response \in Phone!Response
    BY <2>1, RefreshKinds DEF GateTypes
  <2>3. Phone!PendingAdmitted(d) \in SUBSET (Code \cup {NULL})
    <3>1. \A e \in Event : queue[d][e] # NULL => queue[d][e].code \in Code \cup {NULL}
      BY DEF GateTypes, QueuesOK, Phone!Entry
    <3>. QED BY <3>1, SameEvents DEF Phone!PendingAdmitted, Phone!Queued
  <2>4. PICK a : a = [pc |-> "protected", response |-> refresh[d][k].response,
                      codes |-> Phone!PendingAdmitted(d)]
    OBVIOUS
  <2>5. a \in Refreshes
    BY <2>2, <2>3, <2>4 DEF Refreshes
  <2>6. refresh' = [refresh EXCEPT ![d][k] = a] /\ Keeps
    BY <1>4, <2>4 DEF Protect, Phone!Protect
  <2>. QED BY <2>5, <2>6, RefreshMoves
<1>. QED BY <1>1, <1>2, <1>3, <1>4

LEMMA ApplyTypes ==
  ASSUME GateTypes, NEW d \in Device, NEW k \in Slot, ApplyManifest(d, k)
  PROVE  GateTypes'
<1>1. PICK a : a = refresh[d][k]
  OBVIOUS
<1>2. a # NULL /\ a.pc = "protected"
  BY <1>1 DEF ApplyManifest, Phone!Apply
<1>3. a.response \in Phone!Response
  BY <1>1, <1>2, RefreshKinds DEF GateTypes
<1>4. PICK rows : rows = Phone!Applied(d, a.response, a.codes)
  OBVIOUS
<1>5. rows \in [Code -> Phone!Row \cup {NULL}]
  BY <1>3, <1>4, AppliedRows DEF GateTypes
<1>6. PICK m : m = [version |-> a.response.version, generatedAt |-> a.response.generatedAt]
  OBVIOUS
<1>7. m \in Phone!Meta
  BY <1>3, <1>6 DEF Phone!Response, Phone!Meta
<1>8. /\ store' = [store EXCEPT ![d] = rows] /\ meta' = [meta EXCEPT ![d] = m]
      /\ refresh' = [refresh EXCEPT ![d][k] = NULL]
      /\ UNCHANGED <<queue, busy, drain, wiped, network, now, stamp, version>>
  BY <1>1, <1>4, <1>6 DEF ApplyManifest, Phone!Apply
<1>9. LetInOK'
  <2>1. PICK taken, owed : /\ letIn' = [letIn EXCEPT ![d] = letIn[d] \ (taken \ owed)]
                           /\ overtaken' = [overtaken EXCEPT ![d] =
                                              letIn'[d] \cap (overtaken[d] \cup owed)]
    BY DEF ApplyManifest
  <2>2. PICK gone : unbacked' = [unbacked EXCEPT ![d] = unbacked[d] \ gone]
    BY DEF ApplyManifest
  <2>3. letIn' \in [Device -> SUBSET Code]
    BY <2>1 DEF GateTypes, LetInOK
  <2>4. overtaken' \in [Device -> SUBSET Code]
    BY <2>1, <2>3 DEF GateTypes, LetInOK
  <2>5. unbacked' \in [Device -> SUBSET Code]
    BY <2>2 DEF GateTypes, LetInOK
  <2>. QED BY <2>3, <2>4, <2>5 DEF LetInOK
<1>. QED BY <1>5, <1>7, <1>8, <1>9 DEF GateTypes, StoresOK, QueuesOK, CallsOK, ClockOK,
                                       AttemptsLeft

LEMMA ReconnectTypes ==
  ASSUME GateTypes, NEW d \in Device, Reconnect(d)
  PROVE  GateTypes'
<1>1. PICK n \in Phone!Networks : network' = [network EXCEPT ![d] = n]
  BY DEF Reconnect, Phone!Reconnect
<1>2. UNCHANGED <<store, meta, queue, busy, drain, refresh, wiped>> /\ UNCHANGED rest
  BY DEF Reconnect, Phone!Reconnect
<1>. QED BY <1>1, <1>2 DEF GateTypes, StoresOK, QueuesOK, CallsOK, ClockOK, AttemptsLeft,
                           LetInOK, rest

LEMMA LeaveTypes ==
  ASSUME GateTypes, NEW d \in Device, Reload(d) \/ SignOut(d)
  PROVE  GateTypes'
<1>1. CASE Reload(d)
  <2>1. Phone!NotDraining \in Drains /\ Tried(Phone!NotDraining) = {}
    BY DEF Phone!NotDraining, Drains, Tried
  <2>2. /\ busy' = [busy EXCEPT ![d] = NULL] /\ drain' = [drain EXCEPT ![d] = Phone!NotDraining]
        /\ refresh' = [refresh EXCEPT ![d] = [k \in Slot |-> NULL]]
        /\ wiped' = wiped \ {d} /\ UNCHANGED <<store, meta, queue, network, now, stamp, version>>
    BY <1>1 DEF Reload, Phone!Reload
  <2>3. AttemptsLeft'
    BY <2>1, <2>2 DEF GateTypes, CallsOK, AttemptsLeft
  <2>4. LetInOK'
    BY <1>1 DEF Reload, GateTypes, LetInOK
  <2>. QED BY <2>1, <2>2, <2>3, <2>4 DEF GateTypes, StoresOK, QueuesOK, CallsOK, ClockOK
<1>2. CASE SignOut(d)
  <2>1. /\ store' = [store EXCEPT ![d] = [c \in Code |-> NULL]]
        /\ meta' = [meta EXCEPT ![d] = NULL] /\ wiped' = wiped \cup {d}
        /\ UNCHANGED <<queue, busy, drain, refresh, network, now, stamp, version>>
        /\ letIn' = [letIn EXCEPT ![d] = {}] /\ overtaken' = [overtaken EXCEPT ![d] = {}]
        /\ unbacked' = [unbacked EXCEPT ![d] = {}]
    BY <1>2 DEF SignOut, Phone!SignOut
  <2>. QED BY <2>1 DEF GateTypes, StoresOK, QueuesOK, CallsOK, ClockOK, LetInOK, AttemptsLeft
<1>. QED BY <1>1, <1>2

\* The server's writes move the clock and the stamps, and the version within its bound.
LEMMA StampTypes ==
  ASSUME ClockOK, StampWrites, version' \in 1..MaxVersion
  PROVE  ClockOK'
<1>1. PICK written : /\ now' = IF written = {} THEN now ELSE now + 1
                     /\ stamp' = [c \in Code |-> IF c \in written THEN now' ELSE stamp[c]]
  BY DEF StampWrites
<1>2. now' \in Nat /\ now' >= now
  BY <1>1 DEF ClockOK
<1>3. \A c \in Code : stamp[c] \in 0..now' /\ now' \in 0..now'
  BY <1>2 DEF ClockOK
<1>. QED BY <1>1, <1>2, <1>3 DEF ClockOK

LEMMA ServerWritesTypes ==
  ASSUME GateTypes,
         \/ \E r \in Request : Serve(r) \/ Crash(r) \/ Forget(r)
         \/ \E c \in Code : DeskBump(c) \/ DeskRevoking(c) \/ DeskQuiet(c)
         \/ \E d \in Device : SetBlocked(d) \/ \E e \in Event, n \in 0..MaxGuests : Amend(d, e, n)
         \/ Tick
  PROVE  GateTypes'
<1>1. UNCHANGED <<store, meta, queue, busy, drain, refresh, wiped, network, letIn, overtaken, unbacked>>
  BY DEF Serve, Crash, Forget, DeskBump, DeskRevoking, DeskQuiet, SetBlocked, Amend, Tick,
         phone, rest
<1>2. ClockOK'
  <2>1. CASE \/ \E r \in Request : Crash(r) \/ Forget(r)
             \/ \E d \in Device : SetBlocked(d)
             \/ \E d \in Device, e \in Event, n \in 0..MaxGuests : Amend(d, e, n)
    BY <2>1 DEF Crash, Forget, SetBlocked, Amend, rest, GateTypes, ClockOK
  <2>2. CASE Tick
    BY <2>2 DEF Tick, GateTypes, ClockOK
  <2>3. CASE (\E r \in Request : Serve(r)) \/ \E c \in Code : DeskQuiet(c)
    BY <2>3, StampTypes DEF Serve, DeskQuiet, GateTypes, ClockOK
  <2>4. ASSUME NEW c \in Code, DeskBump(c) PROVE ClockOK'
    <3>1. version' \in 1..MaxVersion
      BY <2>4, BoundsAreNatural DEF DeskBump, GateTypes, ClockOK
    <3>. QED BY <2>4, <3>1, StampTypes DEF DeskBump, GateTypes
  <2>5. ASSUME NEW c \in Code, DeskRevoking(c) PROVE ClockOK'
    <3>1. version' \in 1..MaxVersion
      BY <2>5, BoundsAreNatural DEF DeskRevoking, GateTypes, ClockOK
    <3>. QED BY <2>5, <3>1, StampTypes DEF DeskRevoking, GateTypes
  <2>. QED BY <2>1, <2>2, <2>3, <2>4, <2>5
<1>. QED BY <1>1, <1>2, PhonesRest

LEMMA GateTypesInit == Init => GateTypes
<1>. SUFFICES ASSUME Init PROVE GateTypes
  OBVIOUS
<1>1. Phone!NotDraining \in Drains /\ Tried(Phone!NotDraining) = {}
  BY DEF Phone!NotDraining, Drains, Tried
<1>2. QueuesOK
  BY SameEvents DEF Init, Phone!PhoneInit, QueuesOK
<1>. QED BY <1>1, <1>2, BoundsAreNatural DEF Init, Phone!PhoneInit, GateTypes, StoresOK,
            Phone!Networks, CallsOK, ClockOK, AttemptsLeft, LetInOK

LEMMA GateTypesStep ==
  ASSUME GateTypes, S!TypeOK, [Next]_vars
  PROVE  GateTypes'
<1>1. ASSUME NEW d \in Device, NEW r \in Request, Answer(d, r) PROVE GateTypes'
  BY <1>1, AcknowledgeTypes, FailedTypes DEF Answer
<1>2. ASSUME NEW d \in Device, NEW r \in Request, GiveUp(d, r) PROVE GateTypes'
  BY <1>2, FailedTypes DEF GiveUp
<1>3. ASSUME NEW d \in Device, Scanning(d) PROVE GateTypes'
  BY <1>3, StartScanTypes, MarkScanTypes, EnqueueTypes DEF Scanning
<1>4. ASSUME NEW d \in Device, Draining(d) PROVE GateTypes'
  BY <1>1, <1>2, <1>4, DrainTypes, FoldTypes, FoldedTypes, UnreadableTypes DEF Draining, Delivering
<1>5. ASSUME NEW d \in Device, Refreshing(d) PROVE GateTypes'
  BY <1>5, RefreshTypes, ApplyTypes DEF Refreshing
<1>6. CASE UNCHANGED vars
  BY <1>6 DEF vars, phone, rest, GateTypes, StoresOK, QueuesOK, CallsOK, ClockOK, AttemptsLeft,
              LetInOK
<1>. QED BY <1>3, <1>4, <1>5, <1>6, LeaveTypes, ReconnectTypes, ServerWritesTypes
         DEF Next, Running


-----------------------------------------------------------------------------
(* A step of the gate is a step of SyncServer or leaves the server alone, so *)
(* what SyncServerProofs proves of the server holds at the gate: the phones  *)
(* here post no other batches than the ones module SyncServer allows them.   *)

LEMMA ServerStep ==
  ASSUME GateTypes, [Next]_vars
  PROVE  [S!Next]_(S!vars)
<1>. DEFINE Quiet == UNCHANGED <<scan, pass, checkIn, scanEvent, scanCount, blocked, req, reversed>>
<1>1. ASSUME Quiet PROVE [S!Next]_(S!vars)
  BY <1>1 DEF S!vars
<1>2. ASSUME NEW d \in Device, Scanning(d) PROVE [S!Next]_(S!vars)
  <2>1. CASE StartScan(d) \/ MarkScan(d)
    BY <1>1, <2>1 DEF StartScan, MarkScan, server
  <2>2. CASE Enqueue(d)
    <3>1. busy[d] \in ScansUnderWay
      BY <2>2 DEF Enqueue, Phone!Enqueue, GateTypes, CallsOK
    <3>2. S!Take(d, busy[d].claim) /\ busy[d].claim \in AnyClaim
      BY <2>2, <3>1, SamePhones DEF Enqueue, ScansUnderWay
    <3>. QED BY <3>2 DEF S!Next, S!Phones
  <2>. QED BY <1>2, <2>1, <2>2 DEF Scanning
<1>3. ASSUME NEW d \in Device, NEW r \in Request, SendBatch(d, r) PROVE [S!Next]_(S!vars)
  <2>1. drain[d] \in Drains /\ drain[d].pc = "ready"
    BY <1>3 DEF SendBatch, Phone!SendBatch, GateTypes, CallsOK
  <2>2. drain[d].gen \in Int
    BY <2>1 DEF Drains
  <2>3. Phone!NextBatch(d) \in SUBSET S!Event
    BY SameEvents DEF Phone!NextBatch, Phone!Sendable, Phone!Queued
  <2>4. S!Post(r, d, Phone!NextBatch(d), drain[d].gen)
    BY <1>3, SamePhones DEF SendBatch
  <2>. QED BY <2>2, <2>3, <2>4 DEF S!Next, S!Phones
<1>4. ASSUME NEW r \in Request, Server!Collect(r) PROVE [S!Next]_(S!vars)
  BY <1>4, SamePhones DEF S!Next, S!Phones
<1>5. ASSUME NEW d \in Device, Draining(d) PROVE [S!Next]_(S!vars)
  <2>1. CASE StartDrain(d) \/ EndDrain(d) \/ Fold(d) \/ Folded(d)
             \/ GarbledAnswer(d) \/ \E r \in Request : GiveUp(d, r)
    BY <1>1, <2>1 DEF StartDrain, EndDrain, Fold, Folded, GarbledAnswer, GiveUp, server
  <2>2. ASSUME NEW r \in Request, Answer(d, r) PROVE [S!Next]_(S!vars)
    BY <1>4, <2>2 DEF Answer
  <2>. QED BY <1>3, <1>5, <2>1, <2>2 DEF Draining, Delivering
<1>6. ASSUME NEW d \in Device, Refreshing(d) \/ Reload(d) \/ SignOut(d) \/ Reconnect(d)
      PROVE  [S!Next]_(S!vars)
  BY <1>1, <1>6 DEF Refreshing, AskManifest, ServeManifest, DropManifest, Protect, ApplyManifest,
                    Reload, SignOut, Reconnect, server
<1>7. ASSUME NEW d \in Device, NEW e \in Event, NEW n \in 0..MaxGuests, Amend(d, e, n)
      PROVE  [S!Next]_(S!vars)
  <2>1. S!AmendGuests(e, n) /\ e \in S!Event
    BY <1>7, SamePhones, SameEvents DEF Amend
  <2>. QED BY <2>1 DEF S!Next, S!Phones
<1>8. ASSUME NEW r \in Request, Serve(r) \/ Crash(r) PROVE [S!Next]_(S!vars)
  <2>1. S!Serve(r) \/ S!Crash(r)
    BY <1>8, SameServe, SameCrash DEF Serve, Crash
  <2>. QED BY <2>1 DEF S!Next
<1>9. ASSUME NEW c \in Code, DeskBump(c) \/ DeskRevoking(c) \/ DeskQuiet(c)
      PROVE  [S!Next]_(S!vars)
  <2>1. S!Desk(c)
    <3>1. CASE DeskBump(c)
      BY <3>1, SameDesk DEF DeskBump
    <3>2. CASE DeskRevoking(c)
      BY <3>2, SameDesk DEF DeskRevoking
    <3>3. CASE DeskQuiet(c)
      BY <3>3, SameDesk DEF DeskQuiet
    <3>. QED BY <1>9, <3>1, <3>2, <3>3
  <2>. QED BY <2>1 DEF S!Next
<1>10. ASSUME NEW r \in Request, Forget(r) PROVE [S!Next]_(S!vars)
  BY <1>4, <1>10 DEF Forget
<1>11. ASSUME NEW d \in Device, SetBlocked(d) PROVE [S!Next]_(S!vars)
  BY <1>11, SamePhones DEF SetBlocked, S!Next
<1>12. ASSUME Tick \/ UNCHANGED vars PROVE [S!Next]_(S!vars)
  BY <1>1, <1>12 DEF Tick, vars, server
<1>. QED BY <1>2, <1>5, <1>6, <1>7, <1>8, <1>9, <1>10, <1>11, <1>12 DEF Next, Running

\* What the server keeps: its own inductive invariant, and that its answers are on
\* record, its arrivals within what their passes cover, its counts of scans that
\* there are, and its collisions real.
ServerInv == S!IInv /\ S!AnswersAreOnRecord /\ S!GuestInv /\ S!CountInv /\ S!CollisionInv

GateInv == GateTypes /\ ServerInv

LEMMA GateInvInit == Init => GateInv
<1>. SUFFICES ASSUME Init PROVE GateInv
  OBVIOUS
<1>1. S!Init
  BY SameEvents DEF Init, Server!Init, S!Init, Server!Idle, S!Idle
<1>2. S!IInv
  BY <1>1, S!InvInit, ServerAssumptions DEF S!InvInit
<1>3. S!GuestInv
  BY <1>1, S!GuestInit, ServerAssumptions DEF S!GuestInit
<1>4. S!AnswersAreOnRecord
  BY <1>1 DEF S!Init, S!AnswersAreOnRecord
<1>5. S!CountInv /\ S!CollisionInv
  BY <1>1, S!CountInit, S!CollisionInit, ServerAssumptions DEF S!CountInit, S!CollisionInit
<1>. QED BY <1>2, <1>3, <1>4, <1>5, GateTypesInit DEF GateInv, ServerInv

LEMMA GateInvStep ==
  ASSUME GateInv, [Next]_vars
  PROVE  GateInv' /\ [S!Next]_(S!vars)
<1>1. [S!Next]_(S!vars)
  BY ServerStep DEF GateInv
<1>2. S!TypeOK
  BY DEF GateInv, ServerInv, S!IInv
<1>3. S!IInv'
  BY <1>1, S!InvStep, ServerAssumptions DEF S!InvStep, GateInv, ServerInv
<1>4. S!AnswersAreOnRecord'
  BY <1>1, <1>2, S!AnswersStep, ServerAssumptions DEF S!AnswersStep, GateInv, ServerInv
<1>5. S!GuestInv'
  BY <1>1, <1>2, S!GuestStep, ServerAssumptions DEF S!GuestStep, GateInv, ServerInv
<1>6. S!CountInv'
  BY <1>1, <1>2, S!CountStep, ServerAssumptions DEF S!CountStep, GateInv, ServerInv
<1>7. S!CollisionInv'
  BY <1>1, S!CollisionStep, ServerAssumptions DEF S!CollisionStep, GateInv, ServerInv
<1>8. GateTypes'
  BY <1>2, GateTypesStep DEF GateInv
<1>. QED BY <1>1, <1>3, <1>4, <1>5, <1>6, <1>7, <1>8 DEF GateInv, ServerInv

\* The stores of every phone and the server's tables keep their shapes, and the
\* server keeps its promises whatever the phones do.
THEOREM GateInvariant == Spec => []GateInv
BY GateInvInit, GateInvStep, PTL DEF Spec

\* However a head count is corrected on the phone (amendQueuedGuests) and whenever it
\* arrives, no check-in has more companions than its pass covers.
THEOREM CompanionsAllowed == Spec => []CompanionsAreAllowed
<1>1. GateInv => CompanionsAreAllowed
  BY DEF GateInv, ServerInv, S!GuestInv, S!ArrivalsAreCovered, S!Covered, CompanionsAreAllowed
<1>. QED BY <1>1, GateInvariant, PTL

\* With phones that scan offline, retry, give up on requests and overlap, the server
\* still lets a single-use pass in once unless the desk has reversed its arrival, and
\* tells of a collision only on a pass that an attempt on record was let in on.
THEOREM GateLetsInOnce == Spec => [](Server!SingleUseAdmitsOnce /\ S!ToldOfCollisions)
<1>1. GateInv => Server!SingleUseAdmitsOnce
  BY SameHelpers DEF GateInv, ServerInv, S!IInv, S!ArrivalIsAlone, Server!SingleUseAdmitsOnce
<1>2. GateInv => S!ToldOfCollisions
  BY DEF GateInv, ServerInv, S!CollisionInv, S!RequestsAreHonest, S!HonestRequest,
         S!ToldOfCollisions
<1>. QED BY <1>1, <1>2, GateInvariant, PTL

\* A scan that a phone sends again after a lost answer, a reload or a partial answer
\* (drainOutbox) is counted once on its device.
THEOREM GateCountsOnce == Spec => []Server!NoScanCountedTwice
<1>1. GateInv => S!NoScanCountedTwice
  BY S!CountsWhatIsThere, ServerAssumptions DEF S!CountsWhatIsThere, GateInv, ServerInv
<1>2. S!NoScanCountedTwice => Server!NoScanCountedTwice
  BY SameHelpers, SameEvents, SameCardinality DEF S!NoScanCountedTwice, Server!NoScanCountedTwice
<1>. QED BY <1>1, <1>2, GateInvariant, PTL

\* The promise that SyncServer names and the one of SyncServerProofs are the same.
LEMMA SamePromise ==
  /\ S!A!Init => Server!Promise!Init
  /\ S!A!Next => Server!Promise!Next
  /\ UNCHANGED S!A!vars => UNCHANGED Server!Promise!vars
<1>1. S!A!Init => Server!Promise!Init
  BY SameEvents, SMT DEF S!A!Init, Server!Promise!Init, S!Verdicts, S!Entry, S!Entered
<1>2. UNCHANGED S!A!vars => UNCHANGED Server!Promise!vars
  BY SameEvents, SMT DEF S!A!vars, Server!Promise!vars, S!Verdicts, S!Entry, S!Entered
<1>3. \A a, p, o : Server!Promise!Record(a, p, o) <=> S!A!Record(a, p, o)
  BY SameEvents, SMT DEF S!A!Record, Server!Promise!Record, S!Verdicts, S!Entry
<1>4. \A a, p, o : Server!Promise!Refuse(a, p, o) <=> S!A!Refuse(a, p, o)
  BY <1>3, SMT DEF S!A!Refuse, Server!Promise!Refuse, S!Entered
<1>5. \A a, p : Server!Promise!Enter(a, p) <=> S!A!Enter(a, p)
  BY <1>3, SMT DEF S!A!Enter, Server!Promise!Enter, S!Entered
<1>6. \A a, p : Server!Promise!EnterAgain(a, p) <=> S!A!EnterAgain(a, p)
  BY <1>3, SMT DEF S!A!EnterAgain, Server!Promise!EnterAgain, S!Entered
<1>7. \A p : Server!Promise!Reverse(p) <=> S!A!Reverse(p)
  BY SameEvents, SMT DEF S!A!Reverse, Server!Promise!Reverse, S!Entered, S!Verdicts, S!Entry
<1>8. S!A!Next <=>
        \/ \E a \in Event :
             \/ \E p \in Code \cup {NULL}, o \in S!Outcome : S!A!Refuse(a, p, o)
             \/ \E p \in Code : S!A!Enter(a, p) \/ S!A!EnterAgain(a, p)
        \/ \E p \in Code : S!A!Reverse(p)
  BY SameEvents, SMT DEF S!A!Next
<1>9. Server!Promise!Next <=>
        \/ \E a \in Event :
             \/ \E p \in Code \cup {NULL}, o \in Server!Outcomes \cup {"NOT_FOUND"} :
                   Server!Promise!Refuse(a, p, o)
             \/ \E p \in Code : Server!Promise!Enter(a, p) \/ Server!Promise!EnterAgain(a, p)
        \/ \E p \in Code : Server!Promise!Reverse(p)
  BY SameEvents, SMT DEF Server!Promise!Next
<1>10. S!Outcome = Server!Outcomes \cup {"NOT_FOUND"}
  BY DEF S!Outcome, S!Outcomes, Server!Outcomes
<1>11. S!A!Next => Server!Promise!Next
  BY <1>4, <1>5, <1>6, <1>7, <1>8, <1>9, <1>10
<1>. QED BY <1>1, <1>2, <1>11

\* The phones, the network, the endpoint and the desk together keep the promise of
\* module Arrivals: the composed system implements the abstract one.
THEOREM GateImplements == Spec => Server!KeepsThePromise
<1>1. Init => Server!Promise!Init
  <2>1. Init => S!Init
    BY SameEvents DEF Init, Server!Init, S!Init, Server!Idle, S!Idle
  <2>2. S!Init => S!A!Init
    BY S!InitMaps, ServerAssumptions DEF S!InitMaps
  <2>. QED BY <2>1, <2>2, SamePromise
<1>2. ASSUME GateInv, [Next]_vars
      PROVE  [Server!Promise!Next]_(Server!Promise!vars)
  <2>1. S!A!Next \/ UNCHANGED S!A!vars
    BY <1>2, GateInvStep, S!StepMaps, ServerAssumptions DEF S!StepMaps, GateInv, ServerInv
  <2>. QED BY <2>1, SamePromise
<1>. QED BY <1>1, <1>2, GateInvariant, PTL
         DEF Spec, Server!KeepsThePromise, Server!Promise!Spec


-----------------------------------------------------------------------------
(* No scan is lost: an entry leaves the outbox only for an answer, and an     *)
(* answer is on record.                                                       *)

LEMMA EntryStays ==
  ASSUME GateInv, [Next]_vars, NEW d \in Device, NEW e \in Event, queue[d][e] # NULL
  PROVE  queue'[d][e] # NULL \/ Server!Recorded(e)
<1>1. ASSUME queue' = queue PROVE queue'[d][e] # NULL
  BY <1>1
<1>2. ASSUME NEW p \in Device, Enqueue(p) PROVE queue'[d][e] # NULL
  <2>1. PICK f, entry : queue' = [queue EXCEPT ![p][f] = entry] /\ entry \in Phone!Entry
    <3>1. busy[p] \in ScansUnderWay
      BY <1>2 DEF Enqueue, Phone!Enqueue, GateInv, GateTypes, CallsOK
    <3>2. PICK entry : entry = [code |-> busy[p].code, admitted |-> busy[p].admitted,
                                attempts |-> 0]
      OBVIOUS
    <3>3. entry \in Phone!Entry
      BY <3>1, <3>2, BatchesAreBounded DEF ScansUnderWay, Phone!Entry
    <3>. QED BY <1>2, <3>2, <3>3 DEF Enqueue, Phone!Enqueue
  <2>2. queue'[d][e] = queue[d][e] \/ queue'[d][e] = entry
    BY <2>1 DEF GateInv, GateTypes, QueuesOK
  <2>. QED BY <2>1, <2>2, NullIsNoRow
<1>3. ASSUME NEW p \in Device, Phone!Failed(p) PROVE queue'[d][e] # NULL
  <2>1. drain[p] \in Drains /\ drain[p].pc = "waiting"
    BY <1>3 DEF Phone!Failed, GateInv, GateTypes, CallsOK
  <2>2. drain[p].batch \in SUBSET Event /\ Tried(drain[p]) = drain[p].batch
    BY <2>1 DEF Drains, Tried
  <2>. QED BY <1>3, <2>2, FailureTypes DEF Phone!Failed, GateInv, GateTypes, AttemptsLeft
<1>4. ASSUME NEW p \in Device, Folded(p) PROVE queue'[d][e] # NULL
  <2>1. drain[p] \in Drains /\ drain[p].pc = "fold"
    BY <1>4 DEF Folded, Phone!Folded, GateInv, GateTypes, CallsOK
  <2>2. drain[p].rest \in SUBSET Event /\ Tried(drain[p]) = drain[p].rest
    BY <2>1 DEF Drains, Tried
  <2>. QED BY <1>4, <2>2, FailureTypes DEF Folded, Phone!Folded, GateInv, GateTypes, AttemptsLeft
<1>5. ASSUME NEW p \in Device, NEW r \in Request, Answer(p, r)
      PROVE  queue'[d][e] # NULL \/ Server!Recorded(e)
  <2>1. CASE Phone!Failed(p)
    BY <1>3, <2>1
  <2>2. CASE ~Phone!Failed(p)
    <3>1. PICK done : done = {f \in Event : req[r].results[f] # NULL}
      OBVIOUS
    <3>2. /\ req[r].pc = "ok"
          /\ \E collided : Phone!Acknowledge(p, done, collided)
      BY <1>5, <2>2, <3>1 DEF Answer
    <3>3. queue' = [queue EXCEPT ![p] = [f \in Event |->
                      IF f \in done \cap drain[p].batch THEN NULL ELSE queue[p][f]]]
      BY <3>2, SameEvents DEF Phone!Acknowledge
    <3>4. queue'[d][e] = queue[d][e] \/ e \in done
      BY <3>3 DEF GateInv, GateTypes, QueuesOK
    <3>5. e \in done => Server!Recorded(e)
      <4>1. req[r] # S!Idle
        BY <3>2 DEF S!Idle
      <4>2. e \in done => S!Recorded(e)
        BY <3>1, <4>1, SameEvents DEF GateInv, ServerInv, S!AnswersAreOnRecord
      <4>. QED BY <4>2, SameHelpers
    <3>. QED BY <3>4, <3>5
  <2>. QED BY <2>1, <2>2
<1>6. ASSUME NEW p \in Device, \/ Scanning(p) \/ Draining(p) \/ Refreshing(p)
                                \/ Reload(p) \/ SignOut(p) \/ Reconnect(p)
                                \/ \E f \in Event, n \in 0..MaxGuests : Amend(p, f, n)
      PROVE  queue'[d][e] # NULL \/ Server!Recorded(e)
  <2>1. CASE Scanning(p)
    <3>1. StartScan(p) \/ MarkScan(p) => queue' = queue
      BY DEF StartScan, MarkScan, Phone!StartScan, Phone!MarkScan
    <3>. QED BY <1>1, <1>2, <2>1, <3>1 DEF Scanning
  <2>2. CASE Draining(p)
    <3>1. (\/ StartDrain(p) \/ EndDrain(p) \/ Fold(p) \/ GarbledAnswer(p)
           \/ \E r \in Request : SendBatch(p, r)) => queue' = queue
      BY DEF StartDrain, EndDrain, Fold, SendBatch, GarbledAnswer, Phone!StartDrain,
             Phone!EndDrain, Phone!Fold, Phone!SendBatch, Phone!Unreadable
    <3>2. (\E r \in Request : GiveUp(p, r)) => Phone!Failed(p)
      BY DEF GiveUp
    <3>. QED BY <1>1, <1>3, <1>4, <1>5, <2>2, <3>1, <3>2 DEF Draining, Delivering
  <2>3. CASE Refreshing(p) \/ Reload(p) \/ SignOut(p) \/ Reconnect(p)
             \/ \E f \in Event, n \in 0..MaxGuests : Amend(p, f, n)
    BY <1>1, <2>3 DEF Refreshing, AskManifest, ServeManifest, DropManifest, Protect, ApplyManifest,
         Reload, SignOut, Amend, Phone!AskManifest, Phone!Receive, Phone!DropManifest,
         Phone!Protect, Phone!Apply, Phone!Reload, Phone!SignOut, Reconnect, Phone!Reconnect, phone
  <2>. QED BY <1>6, <2>1, <2>2, <2>3
<1>7. ASSUME \/ \E r \in Request : Serve(r) \/ Crash(r) \/ Forget(r)
             \/ \E c \in Code : DeskBump(c) \/ DeskRevoking(c) \/ DeskQuiet(c)
             \/ \E p \in Device : SetBlocked(p)
             \/ Tick \/ UNCHANGED vars
      PROVE  queue'[d][e] # NULL
  BY <1>1, <1>7 DEF Serve, Crash, Forget, DeskBump, DeskRevoking, DeskQuiet, SetBlocked, Tick, vars,
                    phone
<1>. QED BY <1>6, <1>7 DEF Next, Running

\* A scan keeps its phone, and a new one is in that phone's outbox: Enqueue stores
\* the entry and shows the verdict in one transaction (enqueueScan).
LEMMA ScanOrigin ==
  ASSUME GateInv, [Next]_vars, NEW e \in Event, scan'[e] # NULL
  PROVE  \/ scan[e] # NULL /\ scan'[e].dev = scan[e].dev
         \/ queue'[scan'[e].dev][e] # NULL
<1>1. scan \in [Event -> S!ScanRow \cup {NULL}]
  BY SameEvents DEF GateInv, ServerInv, S!IInv, S!TypeOK
<1>2. CASE scan' = scan
  BY <1>2
<1>3. ASSUME NEW d \in Device, Enqueue(d)
      PROVE  \/ scan[e] # NULL /\ scan'[e].dev = scan[e].dev
             \/ queue'[scan'[e].dev][e] # NULL
  <2>1. PICK f : f = Server!Oldest(Server!Unused)
    OBVIOUS
  <2>2. busy[d] \in ScansUnderWay
    BY <1>3 DEF Enqueue, Phone!Enqueue, GateInv, GateTypes, CallsOK
  <2>3. PICK entry : entry = [code |-> busy[d].code, admitted |-> busy[d].admitted,
                              attempts |-> 0]
    OBVIOUS
  <2>4. entry \in Phone!Entry
    BY <2>2, <2>3, BatchesAreBounded DEF ScansUnderWay, Phone!Entry
  <2>5. queue' = [queue EXCEPT ![d][f] = entry]
    BY <1>3, <2>1, <2>3 DEF Enqueue, Phone!Enqueue
  <2>6. scan' = [scan EXCEPT ![f] = [dev |-> d, claim |-> busy[d].claim]]
    BY <1>3, <2>1 DEF Enqueue, Server!Take
  <2>7. CASE e = f
    <3>1. scan'[e].dev = d
      BY <1>1, <2>6, <2>7
    <3>2. queue'[d][e] = entry
      BY <2>5, <2>7 DEF GateInv, GateTypes, QueuesOK
    <3>. QED BY <2>4, <3>1, <3>2, NullIsNoRow
  <2>8. CASE e # f
    BY <1>1, <2>6, <2>8
  <2>. QED BY <2>7, <2>8
<1>4. ASSUME NEW d \in Device, NEW f \in Event, NEW n \in 0..MaxGuests, Amend(d, f, n)
      PROVE  scan[e] # NULL /\ scan'[e].dev = scan[e].dev
  <2>1. scan[f] # NULL /\ scan' = [scan EXCEPT ![f].claim.guests = n]
    BY <1>4 DEF Amend, Server!AmendGuests
  <2>2. scan[f] \in S!ScanRow
    BY <1>1, <2>1
  <2>. QED BY <1>1, <2>1, <2>2 DEF S!ScanRow
<1>5. ASSUME \/ \E d \in Device : \/ StartScan(d) \/ MarkScan(d) \/ Draining(d) \/ Refreshing(d)
                                  \/ Reload(d) \/ SignOut(d) \/ SetBlocked(d) \/ Reconnect(d)
             \/ \E r \in Request : Crash(r) \/ Forget(r)
             \/ \E c \in Code : DeskBump(c) \/ DeskRevoking(c) \/ DeskQuiet(c)
             \/ Tick \/ UNCHANGED vars
      PROVE  scan' = scan
  <2>1. ASSUME NEW d \in Device, StartScan(d) \/ MarkScan(d) \/ Refreshing(d)
                                 \/ Reload(d) \/ SignOut(d) \/ SetBlocked(d) \/ Reconnect(d)
        PROVE  scan' = scan
    BY <2>1 DEF StartScan, MarkScan, Refreshing, AskManifest, ServeManifest, DropManifest, Protect,
                ApplyManifest, Reload, SignOut, Reconnect, SetBlocked, Server!SetBlocked, server
  <2>2. ASSUME NEW d \in Device, Draining(d) PROVE scan' = scan
    BY <2>2 DEF Draining, Delivering, StartDrain, EndDrain, Fold, Folded, SendBatch, Answer, GiveUp,
                GarbledAnswer, Server!Post, Server!Collect, server
  <2>3. ASSUME NEW r \in Request, Crash(r) \/ Forget(r) PROVE scan' = scan
    BY <2>3 DEF Crash, Forget, Server!Crash, Server!Collect
  <2>4. ASSUME NEW c \in Code, DeskBump(c) \/ DeskRevoking(c) \/ DeskQuiet(c) PROVE scan' = scan
    BY <2>4 DEF DeskBump, DeskRevoking, DeskQuiet, Server!Revoke, Server!Restore,
         Server!AdjustPassQrLife, Server!IssuePass, Server!RecordManualCheckIn,
         Server!ReverseCheckIn, Server!Review, Server!UndoRegistrationReview
  <2>. QED BY <1>5, <2>1, <2>2, <2>3, <2>4 DEF Tick, vars, server
<1>6. ASSUME NEW r \in Request, Serve(r) PROVE scan' = scan
  BY <1>6 DEF Serve, Server!Serve, Server!Resolve, Server!Replay, Server!FindNothing, Server!Read,
       Server!Refuse, Server!Admit, Server!Collide, Server!FindWinner, Server!Concede,
       Server!Violate, Server!Finish
<1>. QED BY <1>2, <1>3, <1>4, <1>5, <1>6 DEF Next, Running, Scanning

LEMMA NoScanLostStep ==
  ASSUME GateInv, NoScanLost, [Next]_vars
  PROVE  NoScanLost'
<1>. SUFFICES ASSUME NEW e \in Event, scan'[e] # NULL
              PROVE  queue'[scan'[e].dev][e] # NULL \/ Server!Recorded(e)'
  BY SameEvents DEF NoScanLost, Phone!Queued, Phone!Event, Event
<1>1. CASE queue'[scan'[e].dev][e] # NULL
  BY <1>1
<1>2. CASE scan[e] # NULL /\ scan'[e].dev = scan[e].dev
  <2>1. scan[e].dev \in Device
    BY <1>2, SameEvents DEF GateInv, ServerInv, S!IInv, S!TypeOK, S!ScanRow
  <2>2. queue[scan[e].dev][e] # NULL \/ Server!Recorded(e)
    BY <1>2 DEF NoScanLost, Phone!Queued
  <2>3. Server!Recorded(e) => Server!Recorded(e)'
    <3>1. S!Recorded(e) => S!Recorded(e)'
      BY GateInvStep, S!RecordIsFinal, ServerAssumptions, SameEvents DEF S!RecordIsFinal, GateInv,
         ServerInv, S!IInv
    <3>. QED BY <3>1 DEF S!Recorded, Server!Recorded
  <2>4. queue[scan[e].dev][e] # NULL => queue'[scan[e].dev][e] # NULL \/ Server!Recorded(e)
    BY <2>1, EntryStays
  <2>. QED BY <1>2, <2>2, <2>3, <2>4
<1>. QED BY <1>1, <1>2, ScanOrigin

\* Every scan whose verdict a volunteer has seen is in its phone's outbox until the
\* server has it on record: only an acknowledged entry is deleted (outbox.ts), and
\* syncScans acknowledges nothing it has not written.
THEOREM ScansAreKept == Spec => []NoScanLost
<1>1. Init => NoScanLost
  BY DEF Init, Server!Init, Server!Event, Event, NoScanLost
<1>. QED BY <1>1, NoScanLostStep, GateInvariant, PTL DEF Spec


-----------------------------------------------------------------------------
(* A phone lets a single-use pass in once.  A pass it has let in, and that no   *)
(* manifest has overtaken, has a row that says it was used (LetInMarked), and    *)
(* no row of a single-use pass allows a second scan (RowsAreSingle), be it in    *)
(* the store or in an answer on its way.                                         *)

LetInMarked ==
  \A d \in Device : \A c \in letIn[d] \ overtaken[d] : store[d][c] # NULL /\ store[d][c].scansCount >= 1

SingleRow(row) == row # NULL => row.scanLimit <= 1

RowsAreSingle ==
  \A d \in Device, c \in Code \ MultiUse :
    /\ SingleRow(store[d][c])
    /\ \A k \in Slot : (refresh[d][k] # NULL /\ refresh[d][k].pc # "asked") =>
         SingleRow(refresh[d][k].response.rows[c])

RepeatInv == LetInMarked /\ RowsAreSingle /\ NoRepeatBetweenManifests

\* performScan does not admit, nor let the volunteer override, a single-use pass that
\* the phone has marked: the scan limit is looked at before any window.
LEMMA MarkedIsRefused ==
  ASSUME GateTypes, LetInMarked, RowsAreSingle, NEW d \in Device, NEW raw \in Raw,
         NEW override \in BOOLEAN, Phone!Judge(d, raw, override, now).code \in letIn[d] \ (MultiUse \cup overtaken[d])
  PROVE  ~Phone!Judge(d, raw, override, now).admitted
<1>1. PICK parsed : parsed = Phone!DeviceParse(raw)
  OBVIOUS
<1>2. PICK known : known = Phone!Find(d, parsed.code)
  OBVIOUS
<1>3. PICK input : input = Phone!ScanInput(parsed, raw.method, now)
  OBVIOUS
<1>4. PICK ctx : ctx = [generatedAt |-> meta[d].generatedAt, maxAge |-> MaxAge,
                        opensAt |-> OpensAt, closesAt |-> ClosesAt]
  OBVIOUS
<1>5. PICK decision : decision = Phone!DecideScan(input, known, ctx)
  OBVIOUS
<1>. DEFINE admitted == decision.admits \/ (override /\ decision.overridable)
<1>6. \E claim : Phone!Judge(d, raw, override, now) =
         [code |-> parsed.code, admitted |-> admitted, claim |-> claim]
  BY <1>1, <1>2, <1>3, <1>4, <1>5, Zenon DEF Phone!Judge
<1>. HIDE DEF admitted
<1>7. /\ Phone!Judge(d, raw, override, now).code = parsed.code
      /\ Phone!Judge(d, raw, override, now).admitted = admitted
  BY <1>6
<1>8. parsed.code \in letIn[d] \ (MultiUse \cup overtaken[d]) /\ parsed.code \in Code
  BY <1>7 DEF GateTypes, LetInOK
<1>9. /\ known = store[d][parsed.code] /\ known # NULL /\ known \in Phone!Row
      /\ known.scansCount >= 1 /\ known.scanLimit <= 1
  BY <1>2, <1>8 DEF Phone!Find, LetInMarked, RowsAreSingle, SingleRow, GateTypes, StoresOK
<1>10. Phone!ScansUsed(known) >= Phone!ScanLimit(known)
  BY <1>9, NullIsNotANumber DEF Phone!Row, Phone!ScansUsed, Phone!ScanLimit
<1>11. PICK reason : reason = Phone!DecideReason(input, known, ctx)
  OBVIOUS
<1>12. Phone!KnownReason(input, known, ctx) \in
         {"PASS_REVOKED", "REGISTRATION_REVISION", "REGISTRATION_DRAFT", "REGISTRATION_PENDING",
          "ALREADY_CHECKED_IN"}
  BY <1>10 DEF Phone!KnownReason
<1>13. reason \in {"NOT_OUR_CODE", "NO_CODE", "SIGNATURE_FAILED", "SIGNING_KEY_UNKNOWN",
                   "PASS_REVOKED", "REGISTRATION_REVISION", "REGISTRATION_DRAFT",
                   "REGISTRATION_PENDING", "ALREADY_CHECKED_IN"}
  BY <1>9, <1>11, <1>12 DEF Phone!DecideReason
<1>14. /\ reason \notin Phone!AdmitReasons
       /\ reason \notin Phone!WindowReasons \cup {"MANIFEST_TOO_OLD"}
  BY <1>13 DEF Phone!AdmitReasons, Phone!WindowReasons
<1>15. ~decision.admits /\ ~decision.overridable
  BY <1>5, <1>11, <1>14 DEF Phone!DecideScan
<1>16. ~admitted
  BY <1>15 DEF admitted
<1>. QED BY <1>7, <1>16

\* A row of a manifest allows one scan, if its pass is worth one.
LEMMA ManifestRowsAreSingle ==
  ASSUME GateInv, NEW since, NEW c \in Code \ MultiUse
  PROVE  SingleRow(BuildManifest(since).rows[c])
<1>1. PICK row : row = BuildManifest(since).rows[c]
  OBVIOUS
<1>2. row = NULL \/ (pass[c] # NULL /\ row = ToManifestPass(c))
  BY <1>1 DEF BuildManifest
<1>3. row # NULL => row.scanLimit = pass[c].scanLimit /\ pass[c] # NULL
  BY <1>2 DEF ToManifestPass
<1>4. pass[c] # NULL => pass[c].scanLimit <= 1
  BY DEF GateInv, ServerInv, S!IInv, S!LimitsAreSingle
<1>. QED BY <1>1, <1>3, <1>4 DEF SingleRow

\* Marking a row, by a scan or a collision, forgets nothing.
LEMMA MarksKeep ==
  ASSUME GateTypes, LetInMarked, RowsAreSingle, NEW d \in Device, NEW code,
         Phone!MarkLocally(d, code), UNCHANGED refresh,
         \A p \in Device : \A c \in letIn'[p] \ overtaken'[p] :
           \/ c \in letIn[p] \ overtaken[p]
           \/ p = d /\ c = code /\ code \in Code /\ store[d][code] # NULL
  PROVE  LetInMarked' /\ RowsAreSingle'
<1>1. \A p \in Device, c \in Code :
        \/ store'[p][c] = store[p][c]
        \/ store[p][c] \in Phone!Row /\ store'[p][c] = Phone!Marked(store[p][c])
  BY MarkStore DEF GateTypes
<1>2. (code \in Code /\ store[d][code] # NULL) =>
        store[d][code] \in Phone!Row /\ store'[d][code] = Phone!Marked(store[d][code])
  BY MarkStore DEF GateTypes, StoresOK
<1>3. ASSUME NEW p \in Device, NEW c \in letIn'[p] \ overtaken'[p]
      PROVE  store'[p][c] # NULL /\ store'[p][c].scansCount >= 1
  <2>1. CASE c \in letIn[p] \ overtaken[p]
    <3>1. c \in Code /\ store[p][c] # NULL /\ store[p][c].scansCount >= 1
      BY <2>1 DEF GateTypes, LetInOK, LetInMarked
    <3>. QED BY <1>1, <3>1, MarkedRow
  <2>2. CASE c \notin letIn[p] \ overtaken[p]
    <3>1. p = d /\ c = code /\ code \in Code /\ store[d][code] # NULL
      BY <1>3, <2>2
    <3>. QED BY <1>2, <3>1, MarkedRow
  <2>. QED BY <2>1, <2>2
<1>4. ASSUME NEW p \in Device, NEW c \in Code \ MultiUse PROVE SingleRow(store'[p][c])
  BY <1>1, MarkedRow DEF RowsAreSingle, SingleRow
<1>. QED BY <1>3, <1>4 DEF LetInMarked, RowsAreSingle, SingleRow


LEMMA RepeatScanning ==
  ASSUME GateInv, RepeatInv, NEW d \in Device, Scanning(d)
  PROVE  RepeatInv'
<1>1. CASE StartScan(d)
  <2>1. PICK raw \in Raw, override \in BOOLEAN : Phone!StartScan(d, raw, override, now)
    BY <1>1 DEF StartScan
  <2>2. PICK j : j = Phone!Judge(d, raw, override, now)
    OBVIOUS
  <2>3. PICK pc : pc = IF j.admitted /\ j.code # NULL THEN "mark" ELSE "enqueue"
    OBVIOUS
  <2>4. PICK scanning : scanning = [pc |-> pc, code |-> j.code, admitted |-> j.admitted,
                                    claim |-> j.claim]
    OBVIOUS
  <2>5. /\ busy' = [busy EXCEPT ![d] = scanning]
        /\ UNCHANGED <<store, refresh, letIn, overtaken>>
    BY <1>1, <2>1, <2>2, <2>3, <2>4 DEF Phone!StartScan, StartScan, rest
  <2>6. scanning.pc = "mark" => scanning.code \notin letIn[d] \ (MultiUse \cup overtaken[d])
    <3>1. pc = "mark" => j.admitted
      BY <2>3
    <3>2. j.admitted => j.code \notin letIn[d] \ (MultiUse \cup overtaken[d])
      BY <2>2, MarkedIsRefused DEF GateInv, RepeatInv
    <3>. QED BY <2>4, <3>1, <3>2
  <2>7. NoRepeatBetweenManifests'
    BY <2>5, <2>6 DEF GateInv, GateTypes, CallsOK, RepeatInv, NoRepeatBetweenManifests
  <2>. QED BY <2>5, <2>7 DEF RepeatInv, LetInMarked, RowsAreSingle
<1>2. CASE MarkScan(d)
  <2>1. /\ busy[d] # NULL /\ busy[d] \in ScansUnderWay
        /\ busy' = [busy EXCEPT ![d].pc = "enqueue"] /\ UNCHANGED refresh
        /\ Phone!MarkLocally(d, busy[d].code)
    BY <1>2 DEF MarkScan, Phone!MarkScan, GateInv, GateTypes, CallsOK
  <2>2. PICK marked : /\ marked = IF Phone!Find(d, busy[d].code) = NULL THEN {} ELSE {busy[d].code}
                      /\ letIn' = [letIn EXCEPT ![d] = letIn[d] \cup marked]
                      /\ overtaken' = [overtaken EXCEPT ![d] = overtaken[d] \ marked]
    BY <1>2 DEF MarkScan
  <2>5. /\ letIn'[d] = letIn[d] \cup marked /\ overtaken'[d] = overtaken[d] \ marked
        /\ \A p \in Device : p # d => letIn'[p] = letIn[p] /\ overtaken'[p] = overtaken[p]
    BY <2>2 DEF GateInv, GateTypes, LetInOK
  <2>6. \A c \in marked : /\ c = busy[d].code /\ busy[d].code \in Code
                          /\ store[d][busy[d].code] # NULL
    BY <2>2 DEF Phone!Find
  <2>3. LetInMarked' /\ RowsAreSingle'
    <3>1. \A p \in Device : \A c \in letIn'[p] \ overtaken'[p] :
            \/ c \in letIn[p] \ overtaken[p]
            \/ p = d /\ c = busy[d].code /\ busy[d].code \in Code /\ store[d][busy[d].code] # NULL
      BY <2>5, <2>6
    <3>. QED BY <2>1, <3>1, MarksKeep DEF GateInv, RepeatInv
  <2>4. NoRepeatBetweenManifests'
    <3>1. busy'[d].pc = "enqueue"
      BY <2>1 DEF GateInv, GateTypes, CallsOK, ScansUnderWay
    <3>2. \A p \in Device \ {d} : busy'[p] = busy[p] /\ letIn'[p] = letIn[p]
                                   /\ overtaken'[p] = overtaken[p]
      BY <2>1, <2>5 DEF GateInv, GateTypes, CallsOK
    <3>. QED BY <3>1, <3>2 DEF RepeatInv, NoRepeatBetweenManifests
  <2>. QED BY <2>3, <2>4 DEF RepeatInv
<1>3. CASE Enqueue(d)
  <2>1. busy' = [busy EXCEPT ![d] = NULL] /\ UNCHANGED <<store, refresh, letIn, overtaken>>
    BY <1>3 DEF Enqueue, Phone!Enqueue, rest
  <2>. QED BY <2>1 DEF GateInv, GateTypes, CallsOK, RepeatInv, LetInMarked, RowsAreSingle,
              NoRepeatBetweenManifests
<1>. QED BY <1>1, <1>2, <1>3 DEF Scanning

LEMMA RepeatRest ==
  ASSUME RepeatInv, UNCHANGED <<store, refresh, letIn, overtaken, busy>>
  PROVE  RepeatInv'
BY DEF RepeatInv, LetInMarked, RowsAreSingle, NoRepeatBetweenManifests

LEMMA RepeatDraining ==
  ASSUME GateInv, RepeatInv, NEW d \in Device, Draining(d)
  PROVE  RepeatInv'
<1>1. CASE Fold(d)
  <2>1. /\ \E code : Phone!MarkLocally(d, code)
        /\ UNCHANGED <<refresh, letIn, overtaken, busy>>
    BY <1>1 DEF Fold, Phone!Fold, rest
  <2>2. LetInMarked' /\ RowsAreSingle'
    BY <2>1, MarksKeep DEF GateInv, RepeatInv
  <2>. QED BY <2>1, <2>2 DEF RepeatInv, NoRepeatBetweenManifests
<1>2. ASSUME ~Fold(d) PROVE UNCHANGED <<store, refresh, letIn, overtaken, busy>>
  BY <1>2 DEF Draining, Delivering, StartDrain, EndDrain, Folded, SendBatch, Answer, GiveUp,
     GarbledAnswer, Phone!StartDrain, Phone!EndDrain, Phone!Folded, Phone!SendBatch, Phone!Failed,
     Phone!Unreadable, Phone!Acknowledge, rest
<1>. QED BY <1>1, <1>2, RepeatRest

\* A refresh that moves on, with rows that allow one scan.
LEMMA RepeatMoves ==
  ASSUME GateInv, RepeatInv, NEW d \in Device, NEW k \in Slot, NEW a,
         refresh' = [refresh EXCEPT ![d][k] = a], UNCHANGED <<store, letIn, overtaken, busy>>,
         (a # NULL /\ a.pc # "asked") =>
           \A c \in Code \ MultiUse : SingleRow(a.response.rows[c])
  PROVE  RepeatInv'
<1>1. \A p \in Device, l \in Slot : refresh'[p][l] = IF p = d /\ l = k THEN a ELSE refresh[p][l]
  BY DEF GateInv, GateTypes, CallsOK
<1>2. RowsAreSingle'
  <2>1. ASSUME NEW p \in Device, NEW c \in Code \ MultiUse, NEW l \in Slot,
               refresh'[p][l] # NULL, refresh'[p][l].pc # "asked"
        PROVE  SingleRow(refresh'[p][l].response.rows[c])
    BY <1>1, <2>1 DEF RepeatInv, RowsAreSingle
  <2>. QED BY <2>1 DEF RepeatInv, RowsAreSingle, SingleRow
<1>. QED BY <1>2 DEF RepeatInv, LetInMarked, NoRepeatBetweenManifests

LEMMA RepeatRefreshing ==
  ASSUME GateInv, RepeatInv, NEW d \in Device, Refreshing(d)
  PROVE  RepeatInv'
<1>. DEFINE Keeps == UNCHANGED <<store, letIn, overtaken, busy>>
<1>1. ASSUME NEW k \in Slot, NEW force \in BOOLEAN, AskManifest(d, k, force)
      PROVE  RepeatInv'
  <2>1. PICK a : a = [pc |-> "asked", since |-> IF force THEN NULL ELSE meta[d]]
    OBVIOUS
  <2>2. refresh' = [refresh EXCEPT ![d][k] = a] /\ Keeps /\ a.pc = "asked"
    BY <1>1, <2>1 DEF AskManifest, Phone!AskManifest, rest
  <2>. QED BY <2>2, RepeatMoves
<1>2. ASSUME NEW k \in Slot, ServeManifest(d, k) PROVE RepeatInv'
  <2>1. PICK response : response = BuildManifest(refresh[d][k].since)
    OBVIOUS
  <2>2. PICK a : a = [pc |-> "answered", response |-> response]
    OBVIOUS
  <2>3. refresh' = [refresh EXCEPT ![d][k] = a] /\ Keeps
    BY <1>2, <2>1, <2>2 DEF ServeManifest, Phone!Receive, rest
  <2>4. \A c \in Code \ MultiUse : SingleRow(a.response.rows[c])
    BY <2>1, <2>2, ManifestRowsAreSingle
  <2>. QED BY <2>3, <2>4, RepeatMoves
<1>3. ASSUME NEW k \in Slot, DropManifest(d, k) PROVE RepeatInv'
  BY <1>3, RepeatMoves DEF DropManifest, Phone!DropManifest, rest
<1>4. ASSUME NEW k \in Slot, Protect(d, k) PROVE RepeatInv'
  <2>1. refresh[d][k] # NULL /\ refresh[d][k].pc = "answered"
    BY <1>4 DEF Protect, Phone!Protect
  <2>2. PICK a : a = [pc |-> "protected", response |-> refresh[d][k].response,
                      codes |-> Phone!PendingAdmitted(d)]
    OBVIOUS
  <2>3. refresh' = [refresh EXCEPT ![d][k] = a] /\ Keeps
    BY <1>4, <2>2 DEF Protect, Phone!Protect, rest
  <2>4. \A c \in Code \ MultiUse : SingleRow(a.response.rows[c])
    BY <2>1, <2>2 DEF RepeatInv, RowsAreSingle
  <2>. QED BY <2>3, <2>4, RepeatMoves
<1>5. ASSUME NEW k \in Slot, ApplyManifest(d, k) PROVE RepeatInv'
  <2>1. PICK a : a = refresh[d][k]
    OBVIOUS
  <2>2. a # NULL /\ a.pc = "protected"
    BY <1>5, <2>1 DEF ApplyManifest, Phone!Apply
  <2>3. a.response \in Phone!Response
    BY <2>1, <2>2, RefreshKinds DEF GateInv, GateTypes
  <2>4. PICK rows : rows = Phone!Applied(d, a.response, a.codes)
    OBVIOUS
  <2>5. /\ store' = [store EXCEPT ![d] = rows] /\ refresh' = [refresh EXCEPT ![d][k] = NULL]
        /\ UNCHANGED busy
    BY <1>5, <2>1, <2>4 DEF ApplyManifest, Phone!Apply
  <2>12. PICK owed : /\ letIn' = [letIn EXCEPT ![d] = letIn[d] \ (TakenBack(a) \ owed)]
                     /\ overtaken' = [overtaken EXCEPT ![d] =
                                        letIn'[d] \cap (overtaken[d] \cup owed)]
    BY <1>5, <2>1 DEF ApplyManifest
  <2>13. \A p \in Device : p # d => letIn'[p] = letIn[p] /\ overtaken'[p] = overtaken[p]
    BY <2>12 DEF GateInv, GateTypes, LetInOK
  <2>14. /\ letIn'[d] = letIn[d] \ (TakenBack(a) \ owed)
         /\ overtaken'[d] = letIn'[d] \cap (overtaken[d] \cup owed)
    BY <2>12 DEF GateInv, GateTypes, LetInOK
  <2>15. letIn'[d] \ overtaken'[d] \subseteq (letIn[d] \ overtaken[d]) \ TakenBack(a)
    BY <2>14
  <2>6. \A p \in Device : letIn'[p] \ overtaken'[p] \subseteq letIn[p] \ overtaken[p]
    BY <2>13, <2>15
  <2>7. ASSUME NEW p \in Device, NEW c \in letIn'[p] \ overtaken'[p]
        PROVE  store'[p][c] # NULL /\ store'[p][c].scansCount >= 1
    <3>1. c \in Code /\ store[p][c] # NULL /\ store[p][c].scansCount >= 1
      BY <2>6, <2>7 DEF GateInv, GateTypes, LetInOK, RepeatInv, LetInMarked
    <3>2. CASE p # d
      BY <2>5, <3>1, <3>2 DEF GateInv, GateTypes, StoresOK
    <3>3. CASE p = d
      <4>1. store'[d][c] = rows[c]
        BY <2>5 DEF GateInv, GateTypes, StoresOK
      <4>2. c \notin TakenBack(a)
        BY <2>7, <2>15, <3>3
      <4>3. CASE ~a.response.full /\ a.response.rows[c] = NULL
        <5>1. rows[c] = store[d][c]
          BY <2>3, <2>4, <3>1, <4>3, AppliedRows DEF GateInv, GateTypes
        <5>. QED BY <3>1, <3>3, <4>1, <5>1
      <4>4. CASE ~a.response.full /\ a.response.rows[c] # NULL /\ c \in a.codes
        <5>1. rows[c] # NULL /\ rows[c].scansCount >= store[d][c].scansCount
          BY <2>3, <2>4, <3>1, <3>3, <4>4, AppliedRows DEF GateInv, GateTypes
        <5>2. rows[c].scansCount \in Nat /\ store[d][c].scansCount \in Nat
          <6>1. rows[c] \in Phone!Row
            BY <2>3, <2>4, <3>1, <5>1, AppliedRows DEF GateInv, GateTypes
          <6>2. store[d][c] \in Phone!Row
            BY <3>1, <3>3 DEF GateInv, GateTypes, StoresOK
          <6>. QED BY <6>1, <6>2 DEF Phone!Row
        <5>. QED BY <3>1, <3>3, <4>1, <5>1, <5>2
      <4>5. CASE a.response.full \/ (a.response.rows[c] # NULL /\ c \notin a.codes)
        <5>1. a.response.rows[c] # NULL /\ ScansUsed(a.response.rows[c]) # 0
          BY <3>1, <4>2, <4>5 DEF TakenBack, Replaced
        <5>2. a.response.rows[c] \in Phone!Row
          BY <2>3, <3>1, <5>1 DEF Phone!Response
        <5>3. a.response.rows[c].scansCount >= 1
          BY <5>1, <5>2, NullIsNotANumber DEF Phone!Row, ScansUsed
        <5>4. rows[c] = a.response.rows[c]
          BY <2>3, <2>4, <3>1, <4>5, <5>1, AppliedRows DEF GateInv, GateTypes
        <5>. QED BY <3>3, <4>1, <5>1, <5>3, <5>4
      <4>. QED BY <4>3, <4>4, <4>5
    <3>. QED BY <3>2, <3>3
  <2>8. ASSUME NEW p \in Device, NEW c \in Code \ MultiUse PROVE SingleRow(store'[p][c])
    <3>1. CASE p # d
      BY <2>5, <3>1 DEF GateInv, GateTypes, StoresOK, RepeatInv, RowsAreSingle
    <3>2. CASE p = d
      <4>1. store'[d][c] = rows[c]
        BY <2>5 DEF GateInv, GateTypes, StoresOK
      <4>2. rows[c] # NULL => \/ rows[c] = store[d][c]
                              \/ a.response.rows[c] # NULL
                                 /\ rows[c].scanLimit = a.response.rows[c].scanLimit
        BY <2>3, <2>4, AppliedRows DEF GateInv, GateTypes
      <4>3. SingleRow(store[d][c]) /\ SingleRow(a.response.rows[c])
        BY <2>1, <2>2 DEF RepeatInv, RowsAreSingle
      <4>. QED BY <3>2, <4>1, <4>2, <4>3 DEF SingleRow
    <3>. QED BY <3>1, <3>2
  <2>9. ASSUME NEW p \in Device, NEW c \in Code \ MultiUse, NEW l \in Slot,
               refresh'[p][l] # NULL, refresh'[p][l].pc # "asked"
        PROVE  SingleRow(refresh'[p][l].response.rows[c])
    <3>1. refresh'[p][l] = refresh[p][l]
      BY <2>5, <2>9 DEF GateInv, GateTypes, CallsOK
    <3>. QED BY <2>9, <3>1 DEF RepeatInv, RowsAreSingle
  <2>10. LetInMarked' /\ RowsAreSingle'
    BY <2>7, <2>8, <2>9 DEF LetInMarked, RowsAreSingle, SingleRow
  <2>11. NoRepeatBetweenManifests'
    BY <2>5, <2>6 DEF RepeatInv, NoRepeatBetweenManifests
  <2>. QED BY <2>10, <2>11 DEF RepeatInv
<1>. QED BY <1>1, <1>2, <1>3, <1>4, <1>5 DEF Refreshing

LEMMA RepeatLeaving ==
  ASSUME GateInv, RepeatInv, NEW d \in Device, Reload(d) \/ SignOut(d)
  PROVE  RepeatInv'
<1>1. CASE Reload(d)
  <2>1. /\ busy' = [busy EXCEPT ![d] = NULL]
        /\ refresh' = [refresh EXCEPT ![d] = [k \in Slot |-> NULL]]
        /\ UNCHANGED <<store, letIn, overtaken>>
    BY <1>1 DEF Reload, Phone!Reload, rest
  <2>2. \A p \in Device, k \in Slot : refresh'[p][k] = NULL \/ refresh'[p][k] = refresh[p][k]
    BY <2>1 DEF GateInv, GateTypes, CallsOK
  <2>3. \A p \in Device : busy'[p] = NULL \/ busy'[p] = busy[p]
    BY <2>1 DEF GateInv, GateTypes, CallsOK
  <2>4. RowsAreSingle'
    BY <2>1, <2>2 DEF RepeatInv, RowsAreSingle, SingleRow
  <2>. QED BY <2>1, <2>3, <2>4 DEF RepeatInv, LetInMarked, NoRepeatBetweenManifests
<1>2. CASE SignOut(d)
  <2>1. /\ store' = [store EXCEPT ![d] = [c \in Code |-> NULL]]
        /\ letIn' = [letIn EXCEPT ![d] = {}] /\ overtaken' = [overtaken EXCEPT ![d] = {}]
        /\ UNCHANGED <<busy, refresh>>
    BY <1>2 DEF SignOut, Phone!SignOut
  <2>2. \A p \in Device : /\ letIn'[p] = IF p = d THEN {} ELSE letIn[p]
                          /\ p # d => overtaken'[p] = overtaken[p]
    BY <2>1 DEF GateInv, GateTypes, LetInOK
  <2>3. \A p \in Device : p # d => store'[p] = store[p]
    BY <2>1 DEF GateInv, GateTypes, StoresOK
  <2>4. \A c \in Code : store'[d][c] = NULL
    BY <2>1 DEF GateInv, GateTypes, StoresOK
  <2>5. LetInMarked'
    <3>1. ASSUME NEW p \in Device, NEW c \in letIn'[p] \ overtaken'[p]
          PROVE  store'[p][c] # NULL /\ store'[p][c].scansCount >= 1
      <4>1. p # d
        BY <2>2, <3>1
      <4>2. c \in letIn[p] \ overtaken[p] /\ store'[p] = store[p]
        BY <2>2, <2>3, <3>1, <4>1
      <4>. QED BY <4>2 DEF RepeatInv, LetInMarked
    <3>. QED BY <3>1 DEF LetInMarked
  <2>6. RowsAreSingle'
    BY <2>1, <2>3, <2>4 DEF RepeatInv, RowsAreSingle, SingleRow
  <2>7. NoRepeatBetweenManifests'
    <3>1. ASSUME NEW p \in Device, busy'[p] # NULL, busy'[p].pc = "mark"
          PROVE  busy'[p].code \notin letIn'[p] \ (MultiUse \cup overtaken'[p])
      <4>1. CASE p = d
        BY <2>2, <4>1
      <4>2. CASE p # d
        BY <2>1, <2>2, <3>1, <4>2 DEF RepeatInv, NoRepeatBetweenManifests
      <4>. QED BY <4>1, <4>2
    <3>. QED BY <3>1 DEF NoRepeatBetweenManifests
  <2>. QED BY <2>5, <2>6, <2>7 DEF RepeatInv
<1>. QED BY <1>1, <1>2

LEMMA RepeatStep ==
  ASSUME GateInv, RepeatInv, [Next]_vars
  PROVE  RepeatInv'
<1>1. ASSUME \/ \E r \in Request : Serve(r) \/ Crash(r) \/ Forget(r)
             \/ \E c \in Code : DeskBump(c) \/ DeskRevoking(c) \/ DeskQuiet(c)
             \/ \E p \in Device : \/ SetBlocked(p)
                                  \/ \E f \in Event, n \in 0..MaxGuests : Amend(p, f, n)
                                  \/ Reconnect(p)
             \/ Tick \/ UNCHANGED vars
      PROVE  UNCHANGED <<store, refresh, letIn, overtaken, busy>>
  BY <1>1 DEF Serve, Crash, Forget, DeskBump, DeskRevoking, DeskQuiet, SetBlocked, Amend, Tick,
              Reconnect, Phone!Reconnect, vars, phone, rest
<1>. QED BY <1>1, RepeatRest, RepeatScanning, RepeatDraining, RepeatRefreshing, RepeatLeaving
         DEF Next, Running

\* A phone that has let a single-use pass in does not let it in again before the server,
\* with no scan on the way and nobody in on the pass, lets it forget, save where a
\* manifest has overtaken the scan (overtaken): markCheckedInLocally marks the row before
\* the verdict is stored, and applyManifest merges a protected row instead of replacing it.
THEOREM NoRepeats == Spec => []NoRepeatBetweenManifests
<1>1. Init => RepeatInv
  BY DEF Init, Phone!PhoneInit, RepeatInv, LetInMarked, RowsAreSingle, SingleRow,
         NoRepeatBetweenManifests
<1>2. RepeatInv => NoRepeatBetweenManifests
  BY DEF RepeatInv
<1>. QED BY <1>1, <1>2, RepeatStep, GateInvariant, PTL DEF Spec


-----------------------------------------------------------------------------
(* A phone that calls a pass used has grounds.  Two of the four kinds of       *)
(* grounds never go away (Backed): a scan of the phone's own and an admission   *)
(* on record.  A mark whose scan is not stored yet becomes the first kind when  *)
(* it is, and the fourth if a reload cuts it off.                              *)

OwnScan(d, c) ==
  \E e \in Event : /\ scan[e] # NULL /\ scan[e].dev = d
                   /\ scan[e].claim.outcome = "ADMITTED"
                   /\ DeviceParse(scan[e].claim.raw).code = c

Backed(d, c) == OwnScan(d, c) \/ Server!AdmittedEvents(c) # {}

Used(row) == row # NULL /\ row.checkedIn

\* What a manifest on its way, a drain and a scan in progress may yet make of a row.
RowsOnTheWay ==
  \A d \in Device, k \in Slot : (refresh[d][k] # NULL /\ refresh[d][k].pc # "asked") =>
    \A c \in Code : Used(refresh[d][k].response.rows[c]) => Server!AdmittedEvents(c) # {}

FoldsInside ==
  \A d \in Device, c \in Code :
    (drain[d].pc = "fold" /\ \E e \in DOMAIN drain[d].codes : drain[d].codes[e] = c) =>
      Server!AdmittedEvents(c) # {}

Judged(s) ==
  /\ s.code = DeviceParse(s.claim.raw).code
  /\ s.admitted => s.claim.outcome = "ADMITTED"
  /\ s.pc = "mark" => s.admitted

ScansAreJudged == \A d \in Device : busy[d] # NULL => Judged(busy[d])

EntriesAreScans ==
  \A d \in Device, e \in Event : queue[d][e] # NULL =>
    scan[e] # NULL /\ queue[d][e].code = DeviceParse(scan[e].claim.raw).code

GroundsInv == /\ UsedHasGrounds /\ RowsOnTheWay /\ FoldsInside
              /\ ScansAreJudged /\ EntriesAreScans

LEMMA GroundsAreThese ==
  UsedHasGrounds <=>
    \A d \in Device, c \in Code :
      Used(store[d][c]) => Backed(d, c) \/ MarkedFor(d, c) \/ c \in unbacked[d]
BY DEF UsedHasGrounds, Used, Backed, OwnScan

LEMMA AdmissionStays ==
  ASSUME GateInv, [Next]_vars, NEW c, Server!AdmittedEvents(c) # {}
  PROVE  Server!AdmittedEvents(c)' # {}
<1>1. S!AdmittedEvents(c) # {}
  BY SameHelpers
<1>2. S!AdmittedEvents(c)' # {}
  BY <1>1, GateInvStep, S!AdmissionStays, ServerAssumptions
     DEF S!AdmissionStays, GateInv, ServerInv, S!IInv
<1>. QED BY <1>2, SameEvents DEF S!AdmittedEvents, Server!AdmittedEvents

LEMMA ScanStays ==
  ASSUME GateInv, [Next]_vars, NEW e \in Event, scan[e] # NULL
  PROVE  /\ scan'[e] # NULL /\ scan'[e].dev = scan[e].dev
         /\ scan'[e].claim.raw = scan[e].claim.raw
         /\ scan'[e].claim.outcome = scan[e].claim.outcome
BY GateInvStep, S!ScanStays, ServerAssumptions, SameEvents
   DEF S!ScanStays, GateInv, ServerInv, S!IInv

LEMMA BackedStays ==
  ASSUME GateInv, [Next]_vars, NEW d, NEW c, Backed(d, c)
  PROVE  Backed(d, c)'
<1>1. CASE Server!AdmittedEvents(c) # {}
  BY <1>1, AdmissionStays DEF Backed
<1>2. CASE OwnScan(d, c)
  <2>1. PICK e \in Event : /\ scan[e] # NULL /\ scan[e].dev = d
                           /\ scan[e].claim.outcome = "ADMITTED"
                           /\ DeviceParse(scan[e].claim.raw).code = c
    BY <1>2 DEF OwnScan
  <2>2. /\ scan'[e] # NULL /\ scan'[e].dev = scan[e].dev
        /\ scan'[e].claim.raw = scan[e].claim.raw
        /\ scan'[e].claim.outcome = scan[e].claim.outcome
    BY <2>1, ScanStays
  <2>. QED BY <2>1, <2>2 DEF Backed, OwnScan
<1>. QED BY <1>1, <1>2 DEF Backed

\* What the store says, what the page works on and the history give as grounds.
LEMMA UsedRest ==
  ASSUME GateInv, UsedHasGrounds, [Next]_vars, UNCHANGED <<store, busy, unbacked>>
  PROVE  UsedHasGrounds'
<1>1. \A d, c : Backed(d, c) => Backed(d, c)'
  BY BackedStays
<1>2. \A d \in Device, c \in Code :
        Used(store'[d][c]) => Backed(d, c)' \/ MarkedFor(d, c)' \/ c \in unbacked'[d]
  BY <1>1, GroundsAreThese DEF MarkedFor
<1>. QED BY <1>2 DEF UsedHasGrounds, Used, Backed, OwnScan

LEMMA RowsRest ==
  ASSUME GateInv, RowsOnTheWay, [Next]_vars,
         \A d \in Device, k \in Slot : \/ refresh'[d][k] = NULL \/ refresh'[d][k] = refresh[d][k]
                                       \/ refresh'[d][k].pc = "asked"
                                       \/ /\ refresh[d][k] # NULL /\ refresh[d][k].pc # "asked"
                                          /\ refresh'[d][k].response = refresh[d][k].response
  PROVE  RowsOnTheWay'
<1>1. ASSUME NEW d \in Device, NEW k \in Slot, refresh'[d][k] # NULL, refresh'[d][k].pc # "asked",
             NEW c \in Code, Used(refresh'[d][k].response.rows[c])
      PROVE  Server!AdmittedEvents(c)' # {}
  <2>1. Server!AdmittedEvents(c) # {}
    BY <1>1 DEF RowsOnTheWay
  <2>. QED BY <2>1, AdmissionStays
<1>. QED BY <1>1 DEF RowsOnTheWay, Used

\* A drain whose codes are fewer, or none.
LEMMA FoldsRest ==
  ASSUME GateInv, FoldsInside, [Next]_vars,
         \A d \in Device : drain'[d].pc = "fold" =>
           /\ drain[d].pc = "fold"
           /\ \A e \in DOMAIN drain'[d].codes :
                e \in DOMAIN drain[d].codes /\ drain'[d].codes[e] = drain[d].codes[e]
  PROVE  FoldsInside'
<1>1. ASSUME NEW d \in Device, NEW c \in Code, drain'[d].pc = "fold",
             NEW e \in DOMAIN drain'[d].codes, drain'[d].codes[e] = c
      PROVE  Server!AdmittedEvents(c)' # {}
  <2>1. Server!AdmittedEvents(c) # {}
    BY <1>1 DEF FoldsInside
  <2>. QED BY <2>1, AdmissionStays
<1>. QED BY <1>1 DEF FoldsInside

LEMMA EntriesRest ==
  ASSUME GateInv, EntriesAreScans, [Next]_vars,
         \A d \in Device, e \in Event : queue'[d][e] # NULL =>
           queue[d][e] # NULL /\ queue'[d][e].code = queue[d][e].code
  PROVE  EntriesAreScans'
<1>1. ASSUME NEW d \in Device, NEW e \in Event, queue'[d][e] # NULL
      PROVE  scan'[e] # NULL /\ queue'[d][e].code = DeviceParse(scan'[e].claim.raw).code
  <2>1. scan[e] # NULL /\ queue'[d][e].code = DeviceParse(scan[e].claim.raw).code
    BY <1>1 DEF EntriesAreScans
  <2>2. scan'[e] # NULL /\ scan'[e].claim.raw = scan[e].claim.raw
    BY <2>1, ScanStays
  <2>. QED BY <2>1, <2>2
<1>. QED BY <1>1 DEF EntriesAreScans

\* A scan that lets somebody in carries that verdict, and the code it was read with.
LEMMA JudgeSays ==
  ASSUME NEW d, NEW raw, NEW override \in BOOLEAN
  PROVE  LET j == Phone!Judge(d, raw, override, now) IN
         /\ j.code = DeviceParse(j.claim.raw).code
         /\ j.admitted => j.claim.outcome = "ADMITTED"
<1>1. PICK parsed : parsed = Phone!DeviceParse(raw)
  OBVIOUS
<1>2. parsed.code = DeviceParse(raw).code
  BY <1>1 DEF Phone!DeviceParse, Phone!FromEnvelope, Phone!Unsigned, Phone!Digits, DeviceParse,
     FromEnvelope, Unsigned, Digits
<1>3. PICK known : known = Phone!Find(d, parsed.code)
  OBVIOUS
<1>4. PICK decision : decision =
        Phone!DecideScan(Phone!ScanInput(parsed, raw.method, now), known,
          [generatedAt |-> meta[d].generatedAt, maxAge |-> MaxAge,
           opensAt |-> OpensAt, closesAt |-> ClosesAt])
  OBVIOUS
<1>5. PICK reason : decision = [reason |-> reason, outcome |-> Phone!OutcomeOf(reason),
                                admits |-> reason \in Phone!AdmitReasons,
                                overridable |-> reason \in Phone!WindowReasons \cup {"MANIFEST_TOO_OLD"},
                                clockSuspect |-> decision.clockSuspect]
  BY <1>4 DEF Phone!DecideScan
<1>6. decision.outcome = Phone!OutcomeOf(reason)
  BY <1>5
<1>. DEFINE admits == reason \in Phone!AdmitReasons
            overridable == reason \in Phone!WindowReasons \cup {"MANIFEST_TOO_OLD"}
<1>7. admits \in BOOLEAN /\ overridable \in BOOLEAN
  OBVIOUS
<1>8. admits => Phone!OutcomeOf(reason) = "ADMITTED"
  <2>1. admits => reason \in {"OK", "OK_SIGNATURE_ONLY"}
    BY DEF Phone!AdmitReasons
  <2>2. /\ Phone!OutcomeOf("OK") = "ADMITTED"
        /\ Phone!OutcomeOf("OK_SIGNATURE_ONLY") = "ADMITTED"
    BY DEF Phone!OutcomeOf, Phone!AdmitReasons, Phone!WindowReasons, Phone!NotApprovedReasons
  <2>. QED BY <2>1, <2>2
<1>. HIDE DEF admits, overridable
<1>9. decision = [reason |-> reason, outcome |-> Phone!OutcomeOf(reason), admits |-> admits,
                  overridable |-> overridable, clockSuspect |-> decision.clockSuspect]
  BY <1>5, Zenon DEF admits, overridable
<1>10. decision.admits = admits /\ decision.overridable = overridable
  BY <1>9
<1>11. PICK overridden \in BOOLEAN : overridden = (override /\ decision.overridable)
  BY <1>7, <1>10
<1>12. PICK admitted \in BOOLEAN : admitted = (decision.admits \/ overridden)
  BY <1>7, <1>10
<1>13. PICK outcome : outcome = IF overridden THEN "ADMITTED" ELSE decision.outcome
  OBVIOUS
<1>14. admitted => outcome = "ADMITTED"
  BY <1>6, <1>8, <1>10, <1>12, <1>13
<1>15. PICK claim : claim = [raw |-> raw, scannedAt |-> now, overridden |-> overridden,
         outcome |-> outcome,
         guests |-> IF admitted /\ known # NULL THEN known.guestCount ELSE 0]
  OBVIOUS
<1>16. Phone!Judge(d, raw, override, now) =
         [code |-> parsed.code, admitted |-> admitted, claim |-> claim]
  BY <1>1, <1>3, <1>4, <1>11, <1>12, <1>13, <1>15, Zenon DEF Phone!Judge
<1>. QED BY <1>2, <1>14, <1>15, <1>16

\* Grounds found before or after the step.
LEMMA UsedMoves ==
  ASSUME GateInv, [Next]_vars,
         \A d \in Device, c \in Code : Used(store'[d][c]) =>
           Backed(d, c) \/ Backed(d, c)' \/ MarkedFor(d, c)' \/ c \in unbacked'[d]
  PROVE  UsedHasGrounds'
<1>1. \A d, c : Backed(d, c) => Backed(d, c)'
  BY BackedStays
<1>2. \A d \in Device, c \in Code :
        Used(store'[d][c]) => Backed(d, c)' \/ MarkedFor(d, c)' \/ c \in unbacked'[d]
  BY <1>1
<1>. QED BY <1>2 DEF UsedHasGrounds, Used, Backed, OwnScan

LEMMA GroundsRest ==
  ASSUME GateInv, GroundsInv, [Next]_vars,
         UNCHANGED <<store, busy, unbacked, refresh, drain, queue>>
  PROVE  GroundsInv'
<1>1. UsedHasGrounds'
  BY UsedRest DEF GroundsInv
<1>2. RowsOnTheWay'
  BY RowsRest DEF GroundsInv
<1>3. FoldsInside'
  BY FoldsRest DEF GroundsInv
<1>4. EntriesAreScans'
  BY EntriesRest DEF GroundsInv
<1>. QED BY <1>1, <1>2, <1>3, <1>4 DEF GroundsInv, ScansAreJudged

LEMMA GroundsStart ==
  ASSUME GateInv, GroundsInv, [Next]_vars, NEW d \in Device, StartScan(d)
  PROVE  GroundsInv'
<1>1. PICK raw \in Raw, override \in BOOLEAN : Phone!StartScan(d, raw, override, now)
  BY DEF StartScan
<1>2. PICK j : j = Phone!Judge(d, raw, override, now)
  OBVIOUS
<1>3. PICK pc : pc = IF j.admitted /\ j.code # NULL THEN "mark" ELSE "enqueue"
  OBVIOUS
<1>4. PICK scanning : scanning = [pc |-> pc, code |-> j.code, admitted |-> j.admitted,
                                  claim |-> j.claim]
  OBVIOUS
<1>5. /\ busy[d] = NULL /\ busy' = [busy EXCEPT ![d] = scanning]
      /\ UNCHANGED <<store, unbacked, refresh, drain, queue>>
  BY <1>1, <1>2, <1>3, <1>4 DEF Phone!StartScan, StartScan, rest
<1>6. /\ busy'[d] = scanning
      /\ \A p \in Device \ {d} : busy'[p] = busy[p]
  BY <1>5 DEF GateInv, GateTypes, CallsOK
<1>7. Judged(scanning)
  <2>1. j.code = DeviceParse(j.claim.raw).code /\ (j.admitted => j.claim.outcome = "ADMITTED")
    BY <1>2, JudgeSays
  <2>. QED BY <1>3, <1>4, <2>1 DEF Judged
<1>8. ScansAreJudged'
  BY <1>6, <1>7 DEF GroundsInv, ScansAreJudged, Judged
<1>9. UsedHasGrounds'
  <2>1. \A p \in Device, c \in Code : MarkedFor(p, c) => MarkedFor(p, c)'
    BY <1>5, <1>6 DEF MarkedFor
  <2>. QED BY <1>5, <2>1, GroundsAreThese, UsedMoves DEF GroundsInv
<1>10. RowsOnTheWay' /\ FoldsInside' /\ EntriesAreScans'
  BY <1>5, RowsRest, FoldsRest, EntriesRest DEF GroundsInv
<1>. QED BY <1>8, <1>9, <1>10 DEF GroundsInv

LEMMA GroundsMark ==
  ASSUME GateInv, GroundsInv, [Next]_vars, NEW d \in Device, MarkScan(d)
  PROVE  GroundsInv'
<1>1. PICK s \in ScansUnderWay : s = busy[d] /\ s.pc = "mark"
  BY NullIsNoRow DEF MarkScan, Phone!MarkScan, GateInv, GateTypes, CallsOK
<1>2. PICK marked : marked = [s EXCEPT !.pc = "enqueue"]
  OBVIOUS
<1>3. /\ busy' = [busy EXCEPT ![d] = marked] /\ busy[d] # NULL
      /\ UNCHANGED <<unbacked, refresh, drain, queue>>
      /\ Phone!MarkLocally(d, s.code)
  BY <1>1, <1>2 DEF MarkScan, Phone!MarkScan
<1>4. /\ marked.pc = "enqueue" /\ marked.code = s.code /\ marked.admitted = s.admitted
      /\ marked.claim = s.claim /\ marked \in ScansUnderWay
  BY <1>2 DEF ScansUnderWay
<1>5. busy'[d] = marked /\ \A p \in Device \ {d} : busy'[p] = busy[p]
  BY <1>3 DEF GateInv, GateTypes, CallsOK
<1>6. Judged(s) /\ s.admitted
  BY <1>1, <1>3 DEF GroundsInv, ScansAreJudged, Judged
<1>7. ScansAreJudged'
  <2>1. Judged(marked)
    BY <1>4, <1>6 DEF Judged
  <2>. QED BY <1>5, <2>1 DEF GroundsInv, ScansAreJudged, Judged
<1>8. UsedHasGrounds'
  <2>1. \A p \in Device, c \in Code : MarkedFor(p, c) => MarkedFor(p, c)'
    BY <1>1, <1>5 DEF MarkedFor
  <2>2. MarkedFor(d, s.code)'
    BY <1>4, <1>5, <1>6, NullIsNoRow DEF MarkedFor
  <2>3. ASSUME NEW p \in Device, NEW c \in Code, Used(store'[p][c])
        PROVE  Backed(p, c) \/ MarkedFor(p, c)' \/ c \in unbacked'[p]
    <3>1. CASE p = d /\ c = s.code
      BY <2>2, <3>1
    <3>2. CASE p # d \/ c # s.code
      <4>1. store'[p][c] = store[p][c]
        BY <1>3, <3>2, MarkStore DEF GateInv, GateTypes
      <4>2. Used(store[p][c])
        BY <2>3, <4>1
      <4>3. Backed(p, c) \/ MarkedFor(p, c) \/ c \in unbacked[p]
        BY <4>2, GroundsAreThese DEF GroundsInv
      <4>. QED BY <1>3, <2>1, <4>3
    <3>. QED BY <3>1, <3>2
  <2>. QED BY <2>3, UsedMoves
<1>9. RowsOnTheWay' /\ FoldsInside' /\ EntriesAreScans'
  BY <1>3, RowsRest, FoldsRest, EntriesRest DEF GroundsInv
<1>. QED BY <1>7, <1>8, <1>9 DEF GroundsInv

\* The mark becomes the phone's own scan when its entry is stored.
LEMMA GroundsEnqueue ==
  ASSUME GateInv, GroundsInv, [Next]_vars, NEW d \in Device, Enqueue(d)
  PROVE  GroundsInv'
<1>1. PICK e : e = Server!Oldest(Server!Unused)
  OBVIOUS
<1>2. e \in Event /\ scan[e] = NULL
  <2>1. S!Unused # {} /\ e = S!Oldest(S!Unused)
    BY <1>1, SameHelpers, SameRest DEF Enqueue
  <2>. QED BY <2>1, S!UnusedEvent, ServerAssumptions, SameEvents DEF S!UnusedEvent
<1>3. PICK s \in ScansUnderWay : s = busy[d] /\ s.pc = "enqueue" /\ busy[d] # NULL
  BY DEF Enqueue, Phone!Enqueue, GateInv, GateTypes, CallsOK
<1>4. Judged(s)
  BY <1>3 DEF GroundsInv, ScansAreJudged
<1>5. PICK entry : entry = [code |-> s.code, admitted |-> s.admitted, attempts |-> 0]
  OBVIOUS
<1>6. PICK row : row = [dev |-> d, claim |-> s.claim]
  OBVIOUS
<1>7. /\ queue' = [queue EXCEPT ![d][e] = entry] /\ busy' = [busy EXCEPT ![d] = NULL]
      /\ scan' = [scan EXCEPT ![e] = row]
      /\ UNCHANGED <<store, unbacked, refresh, drain>>
  BY <1>1, <1>3, <1>5, <1>6 DEF Enqueue, Phone!Enqueue, Server!Take, rest
<1>8. scan'[e] = row /\ row # NULL
  <2>1. scan'[e] = row
    BY <1>2, <1>7, SameEvents DEF GateInv, ServerInv, S!IInv, S!TypeOK
  <2>2. row \in [dev : Device, claim : AnyClaim]
    BY <1>3, <1>6 DEF ScansUnderWay
  <2>. QED BY <2>1, <2>2, NullIsNoRow
<1>9. busy'[d] = NULL /\ \A p \in Device \ {d} : busy'[p] = busy[p]
  BY <1>7 DEF GateInv, GateTypes, CallsOK
<1>10. UsedHasGrounds'
  <2>1. \A p \in Device \ {d}, c \in Code : MarkedFor(p, c) => MarkedFor(p, c)'
    BY <1>9 DEF MarkedFor
  <2>2. \A c \in Code : MarkedFor(d, c) => OwnScan(d, c)'
    <3>1. \A c \in Code : MarkedFor(d, c) =>
             s.claim.outcome = "ADMITTED" /\ DeviceParse(s.claim.raw).code = c
      BY <1>3, <1>4 DEF MarkedFor, Judged
    <3>2. scan'[e].dev = d /\ scan'[e].claim = s.claim
      BY <1>6, <1>8
    <3>. QED BY <1>2, <1>8, <3>1, <3>2 DEF OwnScan
  <2>3. ASSUME NEW p \in Device, NEW c \in Code, Used(store'[p][c])
        PROVE  Backed(p, c) \/ Backed(p, c)' \/ MarkedFor(p, c)' \/ c \in unbacked'[p]
    <3>1. Backed(p, c) \/ MarkedFor(p, c) \/ c \in unbacked[p]
      BY <1>7, <2>3, GroundsAreThese DEF GroundsInv
    <3>2. OwnScan(p, c)' => Backed(p, c)'
      BY DEF Backed
    <3>. QED BY <1>7, <2>1, <2>2, <3>1, <3>2
  <2>. QED BY <2>3, UsedMoves
<1>11. EntriesAreScans'
  <2>1. ASSUME NEW p \in Device, NEW f \in Event, queue'[p][f] # NULL
        PROVE  scan'[f] # NULL /\ queue'[p][f].code = DeviceParse(scan'[f].claim.raw).code
    <3>1. CASE p = d /\ f = e
      <4>1. queue'[p][f] = entry
        BY <1>7, <3>1 DEF GateInv, GateTypes, QueuesOK
      <4>2. entry.code = s.code /\ row.claim = s.claim
        BY <1>5, <1>6
      <4>. QED BY <1>4, <1>8, <3>1, <4>1, <4>2 DEF Judged
    <3>2. CASE p # d \/ f # e
      <4>1. queue'[p][f] = queue[p][f]
        BY <1>7, <3>2 DEF GateInv, GateTypes, QueuesOK
      <4>2. scan[f] # NULL /\ queue[p][f].code = DeviceParse(scan[f].claim.raw).code
        BY <2>1, <4>1 DEF GroundsInv, EntriesAreScans
      <4>3. scan'[f] # NULL /\ scan'[f].claim.raw = scan[f].claim.raw
        BY <4>2, ScanStays
      <4>. QED BY <4>1, <4>2, <4>3
    <3>. QED BY <3>1, <3>2
  <2>. QED BY <2>1 DEF EntriesAreScans
<1>12. ScansAreJudged'
  BY <1>9 DEF GroundsInv, ScansAreJudged, Judged
<1>13. RowsOnTheWay' /\ FoldsInside'
  BY <1>7, RowsRest, FoldsRest DEF GroundsInv
<1>. QED BY <1>10, <1>11, <1>12, <1>13 DEF GroundsInv

\* A failure is counted on entries that keep their codes.
LEMMA FailuresKeepCodes ==
  ASSUME QueuesOK, NEW d \in Device, NEW batch, Phone!RecordFailure(d, batch)
  PROVE  \A p \in Device, e \in Event : queue'[p][e] # NULL =>
           queue[p][e] # NULL /\ queue'[p][e].code = queue[p][e].code
<1>1. PICK entries : entries =
        [e \in Event |-> IF e \in batch /\ queue[d][e] # NULL
                         THEN [queue[d][e] EXCEPT !.attempts = queue[d][e].attempts + 1]
                         ELSE queue[d][e]]
  OBVIOUS
<1>2. queue' = [queue EXCEPT ![d] = entries]
  <2>1. queue' = [queue EXCEPT ![d] = [e \in Event |->
                    IF e \in batch /\ queue[d][e] # NULL
                    THEN [queue[d][e] EXCEPT !.attempts = queue[d][e].attempts + 1]
                    ELSE queue[d][e]]]
    BY Zenon DEF Phone!RecordFailure, Phone!Event, Event
  <2>. QED BY <1>1, <2>1, Zenon
<1>3. ASSUME NEW e \in Event, entries[e] # NULL
      PROVE  queue[d][e] # NULL /\ entries[e].code = queue[d][e].code
  <2>1. CASE e \in batch /\ queue[d][e] # NULL
    <3>1. PICK n : n = queue[d][e].attempts + 1
      OBVIOUS
    <3>2. PICK entry \in Phone!Entry : entry = queue[d][e]
      BY <2>1 DEF QueuesOK
    <3>3. entries[e] = [entry EXCEPT !.attempts = n]
      BY <1>1, <2>1, <3>1, <3>2
    <3>4. entries[e].code = entry.code
      BY <3>2, <3>3 DEF Phone!Entry
    <3>. QED BY <2>1, <3>2, <3>4
  <2>2. CASE ~(e \in batch /\ queue[d][e] # NULL)
    BY <1>1, <1>3, <2>2
  <2>. QED BY <2>1, <2>2
<1>4. queue'[d] = entries /\ \A p \in Device \ {d} : queue'[p] = queue[p]
  BY <1>2 DEF QueuesOK
<1>. QED BY <1>3, <1>4

\* An answer: a collision is told of a pass that is inside, and the entry it is about was
\* read with that pass's code.
LEMMA GroundsAnswer ==
  ASSUME GateInv, GroundsInv, [Next]_vars, NEW d \in Device, NEW r \in Request, Answer(d, r),
         req[r].pc = "ok"
  PROVE  GroundsInv'
<1>1. PICK results : results = req[r].results
  OBVIOUS
<1>2. PICK done, collided :
        /\ collided = {e \in Event : results[e] # NULL /\ results[e].collidedWith # NULL}
        /\ Phone!Acknowledge(d, done, collided)
  BY <1>1 DEF Answer
<1>3. drain[d] \in Drains /\ drain[d].pc = "waiting"
  BY <1>2 DEF Phone!Acknowledge, GateInv, GateTypes, CallsOK
<1>4. PICK batch : batch = drain[d].batch
  OBVIOUS
<1>5. batch \in SUBSET Event /\ \A e \in batch : queue[d][e] # NULL
  BY <1>3, <1>4 DEF Drains, Tried, GateInv, GateTypes, AttemptsLeft
<1>6. PICK T : T = {f \in collided \cap batch : queue[d][f].code # NULL}
  OBVIOUS
<1>7. PICK codes : codes = [e \in T |-> queue[d][e].code]
  OBVIOUS
<1>8. PICK q : q = [pc |-> "fold", gen |-> drain[d].gen, rest |-> batch \ done, codes |-> codes]
  OBVIOUS
<1>9. /\ drain' = [drain EXCEPT ![d] = q]
      /\ UNCHANGED <<store, busy, refresh>>
  BY <1>2, <1>4, <1>6, <1>7, <1>8 DEF Phone!Acknowledge
<1>10. queue' = [queue EXCEPT ![d] = [e \in Event |-> IF e \in done \cap batch THEN NULL
                                                      ELSE queue[d][e]]]
  BY <1>2, <1>4, SameEvents DEF Phone!Acknowledge
<1>11. EntriesAreScans'
  BY <1>10, EntriesRest DEF GroundsInv, GateInv, GateTypes, QueuesOK
<1>12. ASSUME NEW e \in T, NEW c \in Code, codes[e] = c
       PROVE  Server!AdmittedEvents(c) # {}
  <2>1. /\ e \in Event /\ queue[d][e] # NULL /\ queue[d][e].code = c
        /\ results[e] # NULL /\ results[e].collidedWith # NULL
    BY <1>2, <1>5, <1>6, <1>7, <1>12
  <2>2. req[r] # S!Idle
    BY DEF S!Idle
  <2>3. S!HonestRequest(req[r])
    BY <2>2 DEF GateInv, ServerInv, S!CollisionInv, S!RequestsAreHonest
  <2>4. S!Inside(e)
    BY <1>1, <2>1, <2>3, SameEvents DEF S!HonestRequest
  <2>5. PICK raw : raw = scan[e].claim.raw
    OBVIOUS
  <2>6. S!ServerParse(raw).code \in Code /\ S!AdmittedEvents(S!ServerParse(raw).code) # {}
    BY <2>4, <2>5 DEF S!Inside
  <2>7. c = DeviceParse(raw).code
    BY <2>1, <2>5 DEF GroundsInv, EntriesAreScans
  <2>8. S!ServerParse(raw).code = DeviceParse(raw).code
    BY <2>6, CodesAreCodes DEF S!ServerParse, S!Unsigned, S!Digits, S!FromEnvelope, DeviceParse,
       Unsigned, Digits, FromEnvelope
  <2>. QED BY <2>6, <2>7, <2>8, SameHelpers
<1>13. FoldsInside'
  <2>1. /\ drain'[d] = q /\ \A p \in Device \ {d} : drain'[p] = drain[p]
    BY <1>9 DEF GateInv, GateTypes, CallsOK
  <2>2. q.codes = codes /\ DOMAIN codes = T
    BY <1>7, <1>8
  <2>3. ASSUME NEW p \in Device, NEW c \in Code, drain'[p].pc = "fold",
               NEW e \in DOMAIN drain'[p].codes, drain'[p].codes[e] = c
        PROVE  Server!AdmittedEvents(c) # {}
    <3>1. CASE p = d
      BY <1>12, <2>1, <2>2, <2>3, <3>1
    <3>2. CASE p # d
      BY <2>1, <2>3, <3>2 DEF GroundsInv, FoldsInside
    <3>. QED BY <3>1, <3>2
  <2>. QED BY <2>3, AdmissionStays DEF FoldsInside
<1>14. UNCHANGED unbacked
  BY DEF Answer, rest
<1>15. UsedHasGrounds' /\ RowsOnTheWay'
  BY <1>9, <1>14, UsedRest, RowsRest DEF GroundsInv
<1>. QED BY <1>9, <1>11, <1>13, <1>15 DEF GroundsInv, ScansAreJudged

\* The other steps of a drain.
LEMMA GroundsDraining ==
  ASSUME GateInv, GroundsInv, [Next]_vars, NEW d \in Device, Draining(d)
  PROVE  GroundsInv'
<1>1. ASSUME UNCHANGED <<store, busy, unbacked, refresh>>,
             \A p \in Device : drain'[p].pc = "fold" => drain'[p] = drain[p],
             \A p \in Device, e \in Event : queue'[p][e] # NULL =>
               queue[p][e] # NULL /\ queue'[p][e].code = queue[p][e].code
      PROVE  GroundsInv'
  <2>1. UsedHasGrounds' /\ RowsOnTheWay'
    BY <1>1, UsedRest, RowsRest DEF GroundsInv
  <2>2. FoldsInside'
    BY <1>1, FoldsRest DEF GroundsInv
  <2>3. EntriesAreScans'
    BY <1>1, EntriesRest DEF GroundsInv
  <2>. QED BY <1>1, <2>1, <2>2, <2>3 DEF GroundsInv, ScansAreJudged
<1>2. ASSUME NEW q, q.pc # "fold", drain' = [drain EXCEPT ![d] = q]
      PROVE  \A p \in Device : drain'[p].pc = "fold" => drain'[p] = drain[p]
  <2>1. drain'[d] = q /\ \A p \in Device \ {d} : drain'[p] = drain[p]
    BY <1>2 DEF GateInv, GateTypes, CallsOK
  <2>. QED BY <1>2, <2>1
<1>3. Phone!NotDraining.pc # "fold"
  BY DEF Phone!NotDraining
<1>4. CASE StartDrain(d) \/ EndDrain(d) \/ GarbledAnswer(d) \/ \E r \in Request : SendBatch(d, r)
  <2>1. UNCHANGED <<store, busy, unbacked, refresh, queue>>
    BY <1>4 DEF StartDrain, EndDrain, SendBatch, GarbledAnswer, Phone!StartDrain,
                Phone!EndDrain, Phone!SendBatch, Phone!Unreadable, rest
  <2>2. \E q : q.pc # "fold" /\ drain' = [drain EXCEPT ![d] = q]
    <3>1. CASE StartDrain(d)
      <4>1. PICK gen : gen = IF meta[d] = NULL THEN 0 ELSE meta[d].generatedAt
        OBVIOUS
      <4>2. PICK q : q = [pc |-> "ready", gen |-> gen]
        OBVIOUS
      <4>3. drain' = [drain EXCEPT ![d] = q]
        BY <3>1, <4>1, <4>2 DEF StartDrain, Phone!StartDrain
      <4>4. q.pc # "fold"
        BY <4>2
      <4>. QED BY <4>3, <4>4
    <3>2. CASE EndDrain(d) \/ GarbledAnswer(d)
      BY <1>3, <3>2 DEF EndDrain, Phone!EndDrain, GarbledAnswer, Phone!Unreadable
    <3>3. ASSUME NEW r \in Request, SendBatch(d, r)
          PROVE  \E q : q.pc # "fold" /\ drain' = [drain EXCEPT ![d] = q]
      <4>1. PICK q : /\ q = [pc |-> "waiting", gen |-> drain[d].gen,
                             batch |-> Phone!NextBatch(d), req |-> r]
                     /\ drain' = [drain EXCEPT ![d] = q]
        BY <3>3 DEF SendBatch, Phone!SendBatch
      <4>. QED BY <4>1
    <3>. QED BY <1>4, <3>1, <3>2, <3>3
  <2>. QED BY <1>1, <1>2, <2>1, <2>2
<1>5. ASSUME Phone!Failed(d), UNCHANGED unbacked PROVE GroundsInv'
  <2>1. /\ drain' = [drain EXCEPT ![d] = Phone!NotDraining]
        /\ UNCHANGED <<store, busy, refresh>>
        /\ Phone!RecordFailure(d, drain[d].batch)
    BY <1>5 DEF Phone!Failed
  <2>2. \A p \in Device, e \in Event : queue'[p][e] # NULL =>
          queue[p][e] # NULL /\ queue'[p][e].code = queue[p][e].code
    BY <2>1, FailuresKeepCodes DEF GateInv, GateTypes
  <2>. QED BY <1>1, <1>2, <1>3, <1>5, <2>1, <2>2
<1>6. CASE Folded(d)
  <2>1. PICK q : /\ q = IF drain[d].rest = {} THEN [pc |-> "ready", gen |-> drain[d].gen]
                        ELSE Phone!NotDraining
                 /\ drain' = [drain EXCEPT ![d] = q]
                 /\ UNCHANGED <<store, busy, refresh, unbacked>>
                 /\ Phone!RecordFailure(d, drain[d].rest)
    BY <1>6 DEF Folded, Phone!Folded, rest
  <2>2. q.pc # "fold"
    BY <1>3, <2>1
  <2>3. \A p \in Device, e \in Event : queue'[p][e] # NULL =>
          queue[p][e] # NULL /\ queue'[p][e].code = queue[p][e].code
    BY <2>1, FailuresKeepCodes DEF GateInv, GateTypes
  <2>. QED BY <1>1, <1>2, <2>1, <2>2, <2>3
<1>7. ASSUME NEW r \in Request, Answer(d, r) \/ GiveUp(d, r) PROVE GroundsInv'
  <2>1. UNCHANGED unbacked
    BY <1>7 DEF Answer, GiveUp, rest
  <2>2. CASE Answer(d, r) /\ req[r].pc = "ok"
    BY <2>2, GroundsAnswer
  <2>3. CASE ~(Answer(d, r) /\ req[r].pc = "ok")
    <3>1. Phone!Failed(d)
      BY <1>7, <2>3 DEF Answer, GiveUp
    <3>. QED BY <1>5, <2>1, <3>1
  <2>. QED BY <2>2, <2>3
<1>8. CASE Fold(d)
  <2>1. drain[d] \in Drains /\ drain[d].pc = "fold"
    BY <1>8 DEF Fold, Phone!Fold, GateInv, GateTypes, CallsOK
  <2>2. PICK T \in SUBSET Event : drain[d].codes \in [T -> Code \cup {NULL}]
    BY <2>1 DEF Drains
  <2>3. T # {} /\ DOMAIN drain[d].codes = T
    BY <1>8, <2>2 DEF Fold, Phone!Fold
  <2>4. PICK e \in T : e = Phone!Oldest(T)
    <3>1. S!Oldest(T) \in T
      BY <2>3, SameEvents, S!OldestIsElement, ServerAssumptions DEF S!OldestIsElement
    <3>. QED BY <3>1 DEF S!Oldest, Phone!Oldest
  <2>5. PICK code : code = drain[d].codes[e]
    OBVIOUS
  <2>6. PICK codes : codes = [f \in T \ {e} |-> drain[d].codes[f]]
    OBVIOUS
  <2>7. /\ Phone!MarkLocally(d, code)
        /\ drain' = [drain EXCEPT ![d].codes = codes]
        /\ UNCHANGED <<queue, busy, refresh, unbacked>>
    BY <1>8, <2>3, <2>4, <2>5, <2>6 DEF Fold, Phone!Fold, rest
  <2>8. code \in Code => Server!AdmittedEvents(code) # {}
    BY <2>1, <2>3, <2>4, <2>5 DEF GroundsInv, FoldsInside
  <2>9. UsedHasGrounds'
    <3>1. ASSUME NEW p \in Device, NEW c \in Code, Used(store'[p][c])
          PROVE  Backed(p, c) \/ MarkedFor(p, c)' \/ c \in unbacked'[p]
      <4>1. CASE p = d /\ c = code
        BY <2>8, <4>1 DEF Backed
      <4>2. CASE p # d \/ c # code
        <5>1. store'[p][c] = store[p][c]
          BY <2>7, <4>2, MarkStore DEF GateInv, GateTypes
        <5>2. Backed(p, c) \/ MarkedFor(p, c) \/ c \in unbacked[p]
          BY <3>1, <5>1, GroundsAreThese DEF GroundsInv
        <5>. QED BY <2>7, <5>2 DEF MarkedFor
      <4>. QED BY <4>1, <4>2
    <3>. QED BY <3>1, UsedMoves
  <2>10. FoldsInside'
    <3>1. drain'[d].codes = codes /\ \A p \in Device \ {d} : drain'[p] = drain[p]
      <4>1. PICK q \in Drains : q = drain[d] /\ q.pc = "fold"
        BY <2>1
      <4>2. q \in [pc : {"fold"}, gen : Nat, rest : SUBSET Event,
                   codes : UNION {[U -> Code \cup {NULL}] : U \in SUBSET Event}]
        BY <4>1 DEF Drains
      <4>3. drain'[d] = [q EXCEPT !.codes = codes]
        BY <2>7, <4>1 DEF GateInv, GateTypes, CallsOK
      <4>4. drain'[d].codes = codes
        BY <4>2, <4>3
      <4>5. \A p \in Device \ {d} : drain'[p] = drain[p]
        BY <2>7 DEF GateInv, GateTypes, CallsOK
      <4>. QED BY <4>4, <4>5
    <3>2. \A f \in DOMAIN codes : f \in DOMAIN drain[d].codes /\ codes[f] = drain[d].codes[f]
      BY <2>3, <2>6
    <3>3. ASSUME NEW p \in Device, drain'[p].pc = "fold"
          PROVE  /\ drain[p].pc = "fold"
                 /\ \A f \in DOMAIN drain'[p].codes :
                      f \in DOMAIN drain[p].codes /\ drain'[p].codes[f] = drain[p].codes[f]
      BY <2>1, <3>1, <3>2, <3>3
    <3>. QED BY <3>3, FoldsRest DEF GroundsInv
  <2>11. RowsOnTheWay' /\ EntriesAreScans'
    BY <2>7, RowsRest, EntriesRest DEF GroundsInv
  <2>. QED BY <2>7, <2>9, <2>10, <2>11 DEF GroundsInv, ScansAreJudged
<1>. QED BY <1>4, <1>6, <1>7, <1>8 DEF Draining, Delivering

\* A row of a manifest is checked in only for a pass with an arrival, and an arrival
\* has its attempt on record.
LEMMA ManifestRowsAreInside ==
  ASSUME GateInv, NEW since, NEW c \in Code, Used(BuildManifest(since).rows[c])
  PROVE  Server!AdmittedEvents(c) # {}
<1>1. PICK row : row = BuildManifest(since).rows[c]
  OBVIOUS
<1>2. row # NULL /\ row.checkedIn
  BY <1>1 DEF Used
<1>3. row = ToManifestPass(c)
  BY <1>1, <1>2 DEF BuildManifest
<1>4. PICK in \in BOOLEAN : in = (checkIn[c] # NULL)
  OBVIOUS
<1>5. ToManifestPass(c) =
        [status |-> pass[c].status, registration |-> pass[c].registration,
         checkedIn |-> in, scanLimit |-> pass[c].scanLimit,
         scansCount |-> Cardinality(Server!AdmittedEvents(c)), guestCount |-> pass[c].guestCount]
  BY <1>4, Zenon DEF ToManifestPass
<1>6. row.checkedIn = in
  BY <1>3, <1>5
<1>7. checkIn[c] # NULL
  BY <1>2, <1>4, <1>6
<1>8. S!AdmittedEvents(c) # {}
  BY <1>7 DEF GateInv, ServerInv, S!IInv, S!ArrivalHasAttempt
<1>. QED BY <1>8, SameHelpers

\* applyManifest leaves a pass used because the phone held it so and was to keep it, or
\* because the manifest says so.
LEMMA AppliedGrounds ==
  ASSUME StoresOK, NEW d \in Device, NEW response \in Phone!Response, NEW codes,
         NEW c \in Code, Used(Phone!Applied(d, response, codes)[c])
  PROVE  \/ Used(response.rows[c])
         \/ /\ Used(store[d][c])
            /\ ~response.full /\ (response.rows[c] = NULL \/ c \in codes)
<1>1. PICK row : row = response.rows[c]
  OBVIOUS
<1>2. row \in Phone!Row \cup {NULL}
  BY <1>1 DEF Phone!Response
<1>3. PICK local : local = IF response.full THEN NULL ELSE store[d][c]
  OBVIOUS
<1>4. local \in Phone!Row \cup {NULL}
  BY <1>3 DEF StoresOK
<1>5. PICK base : base = IF response.full THEN [x \in Code |-> NULL] ELSE store[d]
  OBVIOUS
<1>6. base[c] = local
  BY <1>3, <1>5
<1>7. Phone!Applied(d, response, codes)[c] =
        IF row = NULL THEN local
        ELSE IF c \in codes /\ local # NULL THEN Phone!Merged(local, row) ELSE row
  BY <1>1, <1>5, <1>6 DEF Phone!Applied
<1>8. CASE row = NULL
  BY <1>1, <1>3, <1>7, <1>8 DEF Used
<1>9. CASE row # NULL /\ ~(c \in codes /\ local # NULL)
  BY <1>1, <1>7, <1>9
<1>10. CASE row # NULL /\ c \in codes /\ local # NULL
  <2>1. local.checkedIn \in BOOLEAN /\ row.checkedIn \in BOOLEAN
    BY <1>2, <1>4, <1>10 DEF Phone!Row
  <2>2. PICK in \in BOOLEAN : in = (local.checkedIn \/ row.checkedIn)
    BY <2>1
  <2>3. PICK n : n = IF Phone!ScansUsed(local) > Phone!ScansUsed(row) THEN Phone!ScansUsed(local)
                     ELSE Phone!ScansUsed(row)
    OBVIOUS
  <2>4. PICK merged : merged = [row EXCEPT !.checkedIn = in, !.scansCount = n]
    OBVIOUS
  <2>5. merged.checkedIn = in
    BY <1>2, <1>10, <2>4 DEF Phone!Row
  <2>6. Phone!Merged(local, row) = merged
    BY <2>2, <2>3, <2>4, Zenon DEF Phone!Merged
  <2>7. in
    BY <1>7, <1>10, <2>5, <2>6 DEF Used
  <2>8. local.checkedIn \/ row.checkedIn
    BY <2>2, <2>7
  <2>. QED BY <1>1, <1>3, <1>10, <2>8 DEF Used
<1>. QED BY <1>8, <1>9, <1>10


LEMMA GroundsRefreshing ==
  ASSUME GateInv, GroundsInv, [Next]_vars, NEW d \in Device, Refreshing(d)
  PROVE  GroundsInv'
<1>. DEFINE Keeps == UNCHANGED <<store, busy, unbacked, drain, queue>>
<1>1. ASSUME Keeps PROVE UsedHasGrounds' /\ FoldsInside' /\ EntriesAreScans' /\ ScansAreJudged'
  <2>1. UsedHasGrounds'
    BY <1>1, UsedRest DEF GroundsInv
  <2>2. FoldsInside' /\ EntriesAreScans'
    BY <1>1, FoldsRest, EntriesRest DEF GroundsInv
  <2>. QED BY <1>1, <2>1, <2>2 DEF GroundsInv, ScansAreJudged
<1>2. ASSUME NEW k \in Slot, NEW a, refresh' = [refresh EXCEPT ![d][k] = a]
      PROVE  \A p \in Device, l \in Slot :
               refresh'[p][l] = IF p = d /\ l = k THEN a ELSE refresh[p][l]
  BY <1>2 DEF GateInv, GateTypes, CallsOK
<1>3. ASSUME NEW k \in Slot, NEW force \in BOOLEAN, AskManifest(d, k, force) PROVE GroundsInv'
  <2>1. PICK a : a = [pc |-> "asked", since |-> IF force THEN NULL ELSE meta[d]]
    OBVIOUS
  <2>2. refresh' = [refresh EXCEPT ![d][k] = a] /\ Keeps /\ a.pc = "asked"
    BY <1>3, <2>1 DEF AskManifest, Phone!AskManifest, rest
  <2>3. RowsOnTheWay'
    BY <1>2, <2>2, RowsRest DEF GroundsInv
  <2>. QED BY <1>1, <2>2, <2>3 DEF GroundsInv
<1>4. ASSUME NEW k \in Slot, ServeManifest(d, k) PROVE GroundsInv'
  <2>1. PICK response : response = BuildManifest(refresh[d][k].since)
    OBVIOUS
  <2>2. PICK a : a = [pc |-> "answered", response |-> response]
    OBVIOUS
  <2>3. refresh' = [refresh EXCEPT ![d][k] = a] /\ Keeps
    BY <1>4, <2>1, <2>2 DEF ServeManifest, Phone!Receive, rest
  <2>4. \A p \in Device, l \in Slot :
          refresh'[p][l] = IF p = d /\ l = k THEN a ELSE refresh[p][l]
    BY <2>3 DEF GateInv, GateTypes, CallsOK
  <2>5. \A c \in Code : Used(a.response.rows[c]) => Server!AdmittedEvents(c) # {}
    BY <2>1, <2>2, ManifestRowsAreInside
  <2>6. ASSUME NEW p \in Device, NEW l \in Slot, refresh'[p][l] # NULL,
               refresh'[p][l].pc # "asked", NEW c \in Code, Used(refresh'[p][l].response.rows[c])
        PROVE  Server!AdmittedEvents(c)' # {}
    <3>1. Server!AdmittedEvents(c) # {}
      <4>1. CASE p = d /\ l = k
        <5>1. refresh'[p][l] = a
          BY <2>4, <4>1
        <5>2. Used(a.response.rows[c])
          BY <2>6, <5>1 DEF Used
        <5>. QED BY <2>5, <5>2
      <4>2. CASE ~(p = d /\ l = k)
        <5>1. refresh'[p][l] = refresh[p][l]
          BY <2>4, <4>2
        <5>. QED BY <2>6, <5>1 DEF GroundsInv, RowsOnTheWay
      <4>. QED BY <4>1, <4>2
    <3>. QED BY <3>1, AdmissionStays
  <2>7. RowsOnTheWay'
    BY <2>6 DEF RowsOnTheWay, Used
  <2>. QED BY <1>1, <2>3, <2>7 DEF GroundsInv
<1>5. ASSUME NEW k \in Slot, DropManifest(d, k) PROVE GroundsInv'
  <2>1. refresh' = [refresh EXCEPT ![d][k] = NULL] /\ Keeps
    BY <1>5 DEF DropManifest, Phone!DropManifest, rest
  <2>2. RowsOnTheWay'
    BY <1>2, <2>1, RowsRest DEF GroundsInv
  <2>. QED BY <1>1, <2>1, <2>2 DEF GroundsInv
<1>6. ASSUME NEW k \in Slot, Protect(d, k) PROVE GroundsInv'
  <2>1. refresh[d][k] # NULL /\ refresh[d][k].pc = "answered"
    BY <1>6 DEF Protect, Phone!Protect
  <2>2. PICK a : a = [pc |-> "protected", response |-> refresh[d][k].response,
                      codes |-> Phone!PendingAdmitted(d)]
    OBVIOUS
  <2>3. refresh' = [refresh EXCEPT ![d][k] = a] /\ Keeps
    BY <1>6, <2>2 DEF Protect, Phone!Protect, rest
  <2>4. a.response = refresh[d][k].response
    BY <2>2
  <2>5. RowsOnTheWay'
    BY <1>2, <2>1, <2>3, <2>4, RowsRest DEF GroundsInv
  <2>. QED BY <1>1, <2>3, <2>5 DEF GroundsInv
<1>7. ASSUME NEW k \in Slot, ApplyManifest(d, k) PROVE GroundsInv'
  <2>1. PICK a : a = refresh[d][k]
    OBVIOUS
  <2>2. a # NULL /\ a.pc = "protected"
    BY <1>7, <2>1 DEF ApplyManifest, Phone!Apply
  <2>3. a.response \in Phone!Response
    BY <2>1, <2>2, RefreshKinds DEF GateInv, GateTypes
  <2>4. PICK rows : rows = Phone!Applied(d, a.response, a.codes)
    OBVIOUS
  <2>5. /\ store' = [store EXCEPT ![d] = rows] /\ refresh' = [refresh EXCEPT ![d][k] = NULL]
        /\ unbacked' = [unbacked EXCEPT ![d] = unbacked[d] \ Replaced(a)]
        /\ UNCHANGED <<busy, drain, queue>>
    BY <1>7, <2>1, <2>4 DEF ApplyManifest, Phone!Apply
  <2>6. ASSUME NEW p \in Device, NEW c \in Code, Used(store'[p][c])
        PROVE  Backed(p, c) \/ MarkedFor(p, c)' \/ c \in unbacked'[p]
    <3>1. MarkedFor(p, c) => MarkedFor(p, c)'
      BY <2>5 DEF MarkedFor
    <3>2. Used(store[p][c]) => Backed(p, c) \/ MarkedFor(p, c) \/ c \in unbacked[p]
      BY GroundsAreThese DEF GroundsInv
    <3>3. CASE p # d
      <4>1. store'[p][c] = store[p][c] /\ unbacked'[p] = unbacked[p]
        BY <2>5, <3>3 DEF GateInv, GateTypes, StoresOK, LetInOK
      <4>. QED BY <2>6, <3>1, <3>2, <4>1
    <3>4. CASE p = d
      <4>1. store'[p][c] = rows[c] /\ unbacked'[p] = unbacked[d] \ Replaced(a)
        BY <2>5, <3>4 DEF GateInv, GateTypes, StoresOK, LetInOK
      <4>2. Used(Phone!Applied(d, a.response, a.codes)[c])
        BY <2>4, <2>6, <4>1
      <4>3. \/ Used(a.response.rows[c])
            \/ /\ Used(store[d][c])
               /\ ~a.response.full /\ (a.response.rows[c] = NULL \/ c \in a.codes)
        BY <2>3, <4>2, AppliedGrounds DEF GateInv, GateTypes
      <4>4. CASE Used(a.response.rows[c])
        <5>1. Server!AdmittedEvents(c) # {}
          BY <2>1, <2>2, <4>4 DEF GroundsInv, RowsOnTheWay
        <5>. QED BY <5>1 DEF Backed
      <4>5. CASE /\ Used(store[d][c])
                 /\ ~a.response.full /\ (a.response.rows[c] = NULL \/ c \in a.codes)
        BY <3>1, <3>2, <3>4, <4>1, <4>5 DEF Replaced
      <4>. QED BY <4>3, <4>4, <4>5
    <3>. QED BY <3>3, <3>4
  <2>7. UsedHasGrounds'
    BY <2>6, UsedMoves
  <2>8. RowsOnTheWay'
    BY <1>2, <2>5, RowsRest DEF GroundsInv
  <2>9. FoldsInside' /\ EntriesAreScans'
    BY <2>5, FoldsRest, EntriesRest DEF GroundsInv
  <2>. QED BY <2>5, <2>7, <2>8, <2>9 DEF GroundsInv, ScansAreJudged
<1>. QED BY <1>3, <1>4, <1>5, <1>6, <1>7 DEF Refreshing

\* A reload in the middle of a scan leaves a mark without grounds, a sign-out no marks.
LEMMA GroundsLeaving ==
  ASSUME GateInv, GroundsInv, [Next]_vars, NEW d \in Device, Reload(d) \/ SignOut(d)
  PROVE  GroundsInv'
<1>1. CASE Reload(d)
  <2>1. /\ busy' = [busy EXCEPT ![d] = NULL]
        /\ drain' = [drain EXCEPT ![d] = Phone!NotDraining]
        /\ refresh' = [refresh EXCEPT ![d] = [k \in Slot |-> NULL]]
        /\ UNCHANGED <<store, queue>>
    BY <1>1 DEF Reload, Phone!Reload
  <2>2. unbacked' = [unbacked EXCEPT ![d] =
           unbacked[d] \cup {c \in Code : MarkedFor(d, c) /\ store[d][c] # NULL}]
    BY <1>1 DEF Reload
  <2>3. busy'[d] = NULL /\ \A p \in Device \ {d} : busy'[p] = busy[p]
    BY <2>1 DEF GateInv, GateTypes, CallsOK
  <2>4. ASSUME NEW p \in Device, NEW c \in Code, Used(store'[p][c])
        PROVE  Backed(p, c) \/ MarkedFor(p, c)' \/ c \in unbacked'[p]
    <3>1. Used(store[p][c])
      BY <2>1, <2>4
    <3>2. Backed(p, c) \/ MarkedFor(p, c) \/ c \in unbacked[p]
      BY <3>1, GroundsAreThese DEF GroundsInv
    <3>3. CASE p # d
      <4>1. unbacked'[p] = unbacked[p] /\ (MarkedFor(p, c) => MarkedFor(p, c)')
        BY <2>2, <2>3, <3>3 DEF GateInv, GateTypes, LetInOK, MarkedFor
      <4>. QED BY <3>2, <4>1
    <3>4. CASE p = d
      <4>1. unbacked'[d] = unbacked[d] \cup {x \in Code : MarkedFor(d, x) /\ store[d][x] # NULL}
        BY <2>2 DEF GateInv, GateTypes, LetInOK
      <4>2. store[d][c] # NULL
        BY <3>1, <3>4 DEF Used
      <4>. QED BY <3>2, <3>4, <4>1, <4>2
    <3>. QED BY <3>3, <3>4
  <2>5. UsedHasGrounds'
    BY <2>4, UsedMoves
  <2>6. RowsOnTheWay'
    <3>1. \A p \in Device, k \in Slot : refresh'[p][k] = NULL \/ refresh'[p][k] = refresh[p][k]
      BY <2>1 DEF GateInv, GateTypes, CallsOK
    <3>. QED BY <3>1, RowsRest DEF GroundsInv
  <2>7. FoldsInside'
    <3>1. drain'[d] = Phone!NotDraining /\ \A p \in Device \ {d} : drain'[p] = drain[p]
      BY <2>1 DEF GateInv, GateTypes, CallsOK
    <3>2. Phone!NotDraining.pc # "fold"
      BY DEF Phone!NotDraining
    <3>3. \A p \in Device : drain'[p].pc = "fold" => drain'[p] = drain[p]
      BY <3>1, <3>2
    <3>. QED BY <3>3, FoldsRest DEF GroundsInv
  <2>8. EntriesAreScans'
    BY <2>1, EntriesRest DEF GroundsInv
  <2>9. ScansAreJudged'
    BY <2>3 DEF GroundsInv, ScansAreJudged, Judged
  <2>. QED BY <2>5, <2>6, <2>7, <2>8, <2>9 DEF GroundsInv
<1>2. CASE SignOut(d)
  <2>1. /\ store' = [store EXCEPT ![d] = [c \in Code |-> NULL]]
        /\ unbacked' = [unbacked EXCEPT ![d] = {}]
        /\ UNCHANGED <<queue, busy, drain, refresh>>
    BY <1>2 DEF SignOut, Phone!SignOut
  <2>2. ASSUME NEW p \in Device, NEW c \in Code, Used(store'[p][c])
        PROVE  Backed(p, c) \/ MarkedFor(p, c)' \/ c \in unbacked'[p]
    <3>1. p # d
      BY <2>1, <2>2 DEF Used, GateInv, GateTypes, StoresOK
    <3>2. store'[p][c] = store[p][c] /\ unbacked'[p] = unbacked[p]
      BY <2>1, <3>1 DEF GateInv, GateTypes, StoresOK, LetInOK
    <3>3. Backed(p, c) \/ MarkedFor(p, c) \/ c \in unbacked[p]
      BY <2>2, <3>2, GroundsAreThese DEF GroundsInv
    <3>. QED BY <2>1, <3>2, <3>3 DEF MarkedFor
  <2>3. UsedHasGrounds'
    BY <2>2, UsedMoves
  <2>4. RowsOnTheWay' /\ FoldsInside' /\ EntriesAreScans'
    BY <2>1, RowsRest, FoldsRest, EntriesRest DEF GroundsInv
  <2>. QED BY <2>1, <2>3, <2>4 DEF GroundsInv, ScansAreJudged
<1>. QED BY <1>1, <1>2

LEMMA GroundsStep ==
  ASSUME GateInv, GroundsInv, [Next]_vars
  PROVE  GroundsInv'
<1>1. ASSUME \/ \E r \in Request : Serve(r) \/ Crash(r) \/ Forget(r)
             \/ \E c \in Code : DeskBump(c) \/ DeskRevoking(c) \/ DeskQuiet(c)
             \/ \E p \in Device : \/ SetBlocked(p)
                                  \/ \E f \in Event, n \in 0..MaxGuests : Amend(p, f, n)
                                  \/ Reconnect(p)
             \/ Tick \/ UNCHANGED vars
      PROVE  UNCHANGED <<store, busy, unbacked, refresh, drain, queue>>
  BY <1>1 DEF Serve, Crash, Forget, DeskBump, DeskRevoking, DeskQuiet, SetBlocked, Amend, Tick,
              Reconnect, Phone!Reconnect, vars, phone, rest
<1>2. ASSUME NEW d \in Device, Scanning(d) PROVE GroundsInv'
  BY <1>2, GroundsStart, GroundsMark, GroundsEnqueue DEF Scanning
<1>. QED BY <1>1, <1>2, GroundsRest, GroundsDraining, GroundsRefreshing, GroundsLeaving
         DEF Next, Running

\* A phone that calls a pass used has grounds: a scan of its own, or an admission on
\* record, be it told of by a manifest (applyManifest) or by a collision (drainOutbox),
\* late, out of order or since reversed.  Only a reload that cuts a scan off between
\* markCheckedInLocally and the outbox leaves a mark that nothing backs.
THEOREM UsedIsGrounded == Spec => []UsedHasGrounds
<1>1. Init => GroundsInv
  <2>. SUFFICES ASSUME Init PROVE GroundsInv
    OBVIOUS
  <2>1. Phone!NotDraining.pc # "fold"
    BY DEF Phone!NotDraining
  <2>2. EntriesAreScans
    BY SameEvents DEF Init, Phone!PhoneInit, EntriesAreScans
  <2>. QED BY <2>1, <2>2 DEF Init, Phone!PhoneInit, GroundsInv, UsedHasGrounds, RowsOnTheWay,
              FoldsInside, ScansAreJudged
<1>2. GroundsInv => UsedHasGrounds
  BY DEF GroundsInv
<1>. QED BY <1>1, <1>2, GroundsStep, GateInvariant, PTL DEF Spec


-----------------------------------------------------------------------------
(* TypeOK itself, for a Claim and a Time that bound nothing: TLC needs them   *)
(* finite, the system does not.                                              *)

LEMMA PhoneShapes == GateTypes => Phone!PhoneTypeOK
<1>. SUFFICES ASSUME GateTypes PROVE Phone!PhoneTypeOK
  OBVIOUS
<1>1. queue \in [Device -> [Phone!Event -> Phone!Entry \cup {NULL}]]
  BY SameEvents DEF GateTypes, QueuesOK
<1>2. ASSUME NEW d \in Device, busy[d] # NULL
      PROVE  busy[d].pc \in {"mark", "enqueue"} /\ busy[d].code \in Code \cup {NULL}
  <2>1. busy[d] \in ScansUnderWay
    BY <1>2 DEF GateTypes, CallsOK
  <2>. QED BY <2>1 DEF ScansUnderWay
<1>3. ASSUME NEW d \in Device PROVE Phone!DrainOK(drain[d])
  <2>1. PICK q \in Drains : q = drain[d]
    BY DEF GateTypes, CallsOK
  <2>2. CASE q \in [pc : {"idle"}]
    BY <2>1, <2>2 DEF Phone!DrainOK, Phone!NotDraining
  <2>3. CASE q \in [pc : {"ready"}, gen : Nat]
    BY <2>1, <2>3 DEF Phone!DrainOK
  <2>4. CASE q \in [pc : {"waiting"}, gen : Nat, batch : (SUBSET Event) \ {{}}, req : Request]
    BY <2>1, <2>4, SameEvents DEF Phone!DrainOK
  <2>5. CASE q \in [pc : {"fold"}, gen : Nat, rest : SUBSET Event,
                    codes : UNION {[T -> Code \cup {NULL}] : T \in SUBSET Event}]
    <3>1. PICK T \in SUBSET Event : q.codes \in [T -> Code \cup {NULL}]
      BY <2>5
    <3>2. DOMAIN q.codes \subseteq Phone!Event /\ \A e \in DOMAIN q.codes : q.codes[e] \in Code \cup {NULL}
      BY <3>1, SameEvents
    <3>3. q.pc = "fold" /\ q.gen \in Nat /\ q.rest \subseteq Phone!Event
      BY <2>5, SameEvents
    <3>. QED BY <2>1, <3>2, <3>3 DEF Phone!DrainOK
  <2>. QED BY <2>2, <2>3, <2>4, <2>5 DEF Drains
<1>4. ASSUME NEW d \in Device, NEW k \in Slot PROVE Phone!RefreshOK(refresh[d][k])
  BY RefreshKinds DEF GateTypes, Phone!RefreshOK
<1>. QED BY <1>1, <1>2, <1>3, <1>4 DEF GateTypes, StoresOK, CallsOK, Phone!PhoneTypeOK

LEMMA ServerShapes ==
  ASSUME Claim = AnyClaim, Time = Int, S!TypeOK
  PROVE  Server!TypeOK
<1>1. /\ S!PassRow = Server!PassRow /\ S!CheckInRow = Server!CheckInRow
      /\ S!EventRow = Server!EventRow /\ S!ScanRow = Server!ScanRow
      /\ S!BusyRequest = Server!BusyRequest /\ S!Idle = Server!Idle
  <2>1. S!PassRow = Server!PassRow
    BY DEF S!PassRow, Server!PassRow, S!PassStatuses, Server!PassStatuses,
           S!RegistrationStatuses, Server!RegistrationStatuses
  <2>2. S!CheckInRow = Server!CheckInRow
    BY DEF S!CheckInRow, Server!CheckInRow, S!Event, Server!Event
  <2>3. S!EventRow = Server!EventRow
    BY DEF S!EventRow, Server!EventRow, S!Event, Server!Event, S!Outcomes, Server!Outcomes,
           S!Reasons, Server!Reasons, S!AdmitReasons, Server!AdmitReasons,
           S!WindowReasons, Server!WindowReasons, S!NotApprovedReasons,
           Server!NotApprovedReasons, S!InvalidReasons, Server!InvalidReasons
  <2>4. S!ScanRow = Server!ScanRow
    BY DEF S!ScanRow, Server!ScanRow
  <2>5. S!Live = Server!Live
    BY <2>1, <2>2 DEF S!Live, Server!Live
  <2>6. S!Result = Server!Result
    BY DEF S!Result, Server!Result, S!Event, Server!Event, S!Outcomes, Server!Outcomes
  <2>7. S!Bodies = Server!Bodies
    BY DEF S!Bodies, Server!Bodies, S!Event, Server!Event
  <2>8. S!BusyRequest = Server!BusyRequest
    BY <2>5, <2>6, <2>7, SameEvents DEF S!BusyRequest, Server!BusyRequest
  <2>. QED BY <2>1, <2>2, <2>3, <2>4, <2>8 DEF S!Idle, Server!Idle
<1>2. \A q : S!RequestOK(q) => Server!RequestOK(q)
  <2>1. \A q : Server!CurrentCode(q) = S!CurrentCode(q)
    BY SameRest, SameParse DEF Server!CurrentCode, S!CurrentCode
  <2>. QED BY <2>1 DEF S!RequestOK, Server!RequestOK
<1>. QED BY <1>1, <1>2, SameEvents DEF S!TypeOK, Server!TypeOK

\* Tables, stores, calls and clock keep their shapes; in particular an outbox entry
\* never counts more than MAX_ATTEMPTS failures, and the manifest version is bounded.
THEOREM TypesKept ==
  ASSUME Claim = AnyClaim, Time = Int
  PROVE  Spec => []TypeOK
<1>1. GateInv => TypeOK
  BY PhoneShapes, ServerShapes DEF GateInv, ServerInv, S!IInv, GateTypes, ClockOK, LetInOK, TypeOK
<1>. QED BY <1>1, GateInvariant, PTL
=============================================================================
