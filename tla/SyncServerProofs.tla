-------------------------- MODULE SyncServerProofs --------------------------
(***************************************************************************)
(* Proofs about SyncServer, for any number of devices, passes, events and   *)
(* requests.                                                                *)
(***************************************************************************)
EXTENDS SyncServer, FiniteSetTheorems, WellFoundedInduction, TLAPS

-----------------------------------------------------------------------------
(* Helpers.                                                                 *)

\* A nonempty set of events has an oldest: the loop over a batch
\* (processEvent, one event after the other) always has a current event.
LEMMA OldestIsElement ==
  ASSUME NEW S \in SUBSET Event, S # {}
  PROVE  Oldest(S) \in S /\ \A f \in S : Oldest(S) <= f
<1>. DEFINE UpTo(n) == {k \in S : k <= n}
<1>. DEFINE Family == {UpTo(n) : n \in S}
<1>1. S \in SUBSET Nat /\ IsFiniteSet(Event)
  BY BoundsAreNatural, FS_Interval DEF Event
<1>2. Family \subseteq FiniteSubsetsOf(Event)
  <2>. SUFFICES ASSUME NEW n \in S PROVE UpTo(n) \in FiniteSubsetsOf(Event)
    OBVIOUS
  <2>1. UpTo(n) \in SUBSET Event
    OBVIOUS
  <2>2. IsFiniteSet(UpTo(n))
    BY <1>1, <2>1, FS_Subset
  <2>. QED BY <2>1, <2>2 DEF FiniteSubsetsOf
<1>3. Family # {}
  OBVIOUS
<1>4. PICK D \in Family : \A E \in Family : ~ (<<E, D>> \in StrictSubsetOrdering(Event))
  BY <1>2, <1>3, FS_StrictSubsetOrderingWellFounded, WFMin
<1>5. PICK n \in S : D = UpTo(n)
  BY <1>4
<1>6. \A f \in S : n <= f
  <2>. SUFFICES ASSUME NEW f \in S, f < n PROVE FALSE
    BY <1>1
  <2>1. UpTo(f) \subseteq UpTo(n) /\ UpTo(f) # UpTo(n)
    <3>1. \A k \in S : k <= f => k <= n
      BY <1>1
    <3>2. n \in UpTo(n) /\ n \notin UpTo(f)
      BY <1>1
    <3>. QED BY <3>1, <3>2
  <2>2. UpTo(f) \in SUBSET Event /\ UpTo(n) \in SUBSET Event
    OBVIOUS
  <2>3. <<UpTo(f), UpTo(n)>> \in StrictSubsetOrdering(Event)
    BY <2>1, <2>2 DEF StrictSubsetOrdering
  <2>. QED BY <1>4, <1>5, <2>3
<1>. QED BY <1>6 DEF Oldest

\* A count of events is a number.
LEMMA EventCounts ==
  ASSUME NEW S \in SUBSET Event
  PROVE  IsFiniteSet(S) /\ Cardinality(S) \in Nat
<1>1. IsFiniteSet(Event)
  BY BoundsAreNatural, FS_Interval DEF Event
<1>. QED BY <1>1, FS_Subset, FS_CardinalityType

\* What decideScan returns: an outcome that is ADMITTED exactly when the scan
\* admits, and on a row it holds it admits only below the scan limit.
LEMMA DecisionFacts ==
  ASSUME NEW input, NEW known, NEW ctx
  PROVE  LET d == DecideScan(input, known, ctx) IN
         /\ d.reason \in Reasons
         /\ d.outcome \in Outcomes
         /\ d.admits <=> d.outcome = "ADMITTED"
         /\ d.admits /\ known # NULL => ~(ScansUsed(known) >= ScanLimit(known))
<1>. DEFINE reason == DecideReason(input, known, ctx)
<1>1. reason \in Reasons
  <2>. USE DEF Reasons, AdmitReasons, WindowReasons, NotApprovedReasons, InvalidReasons
  <2>1. UnknownReason(input, ctx) \in Reasons
    BY DEF UnknownReason
  <2>2. WindowReason(input, ctx) \in Reasons
    BY DEF WindowReason
  <2>3. KnownReason(input, known, ctx) \in Reasons
    BY <2>2 DEF KnownReason
  <2>. QED BY <2>1, <2>3 DEF DecideReason
<1>2. /\ OutcomeOf(reason) \in Outcomes
      /\ reason \in AdmitReasons <=> OutcomeOf(reason) = "ADMITTED"
  BY DEF OutcomeOf, Outcomes, AdmitReasons, WindowReasons, NotApprovedReasons
<1>3. ASSUME reason \in AdmitReasons, known # NULL
      PROVE  ~(ScansUsed(known) >= ScanLimit(known))
  BY <1>3 DEF DecideReason, KnownReason, AdmitReasons
<1>. QED BY <1>1, <1>2, <1>3 DEF DecideScan

\* The server's verdict on a request's current event: only a verdict that admits
\* is written down as ADMITTED, it needs a pass, and that pass had a scan left in
\* the snapshot (processEvent steps 3 and 4).
LEMMA VerdictFacts ==
  ASSUME NEW q \in BusyRequest
  PROVE  LET v == Verdict(q) IN
         /\ v.code = CurrentCode(q)
         /\ v.outcome \in Outcomes \cup {"NOT_FOUND"}
         /\ v.reason \in Reasons
         /\ v.admits <=> v.outcome = "ADMITTED"
         /\ v.admits => q.live # NULL /\ q.live.used < q.live.row.scanLimit
<1>. DEFINE claim == q.body[Oldest(q.todo)]
            parsed == ServerParse(claim.raw)
            known == IF q.live = NULL THEN NULL ELSE ToKnownPass(q.live)
            input == ScanInput(parsed, claim.raw.method, claim.scannedAt)
            ctx == [generatedAt |-> q.gen, maxAge |-> MaxAge,
                    opensAt |-> OpensAt, closesAt |-> ClosesAt]
            d == DecideScan(input, known, ctx)
            outcome == ServerOutcome(d.outcome, parsed.signature, known, parsed.code)
            override == claim.overridden /\ d.overridable
            v == Verdict(q)
<1>1. /\ d.reason \in Reasons /\ d.outcome \in Outcomes
      /\ d.admits <=> d.outcome = "ADMITTED"
      /\ d.admits /\ known # NULL => ~(ScansUsed(known) >= ScanLimit(known))
  BY DecisionFacts
<1>2. /\ v.code = parsed.code /\ v.outcome = outcome /\ v.reason = d.reason
      /\ v.admits <=> outcome = "ADMITTED" /\ (d.admits \/ override) /\ q.live # NULL
  BY DEF Verdict
<1>3. q.live # NULL => q.live \in Live
  BY DEF BusyRequest
<1>4. q.live # NULL => /\ known \in KnownPass
                       /\ known.scansCount = q.live.used
                       /\ known.scanLimit = q.live.row.scanLimit
  <2>. SUFFICES ASSUME q.live \in Live, known = ToKnownPass(q.live)
       PROVE  /\ known \in KnownPass
              /\ known.scansCount = q.live.used
              /\ known.scanLimit = q.live.row.scanLimit
    BY <1>3
  <2>1. q.live.row \in PassRow /\ q.live.used \in Nat
    BY DEF Live
  <2>2. /\ q.live.row.status \in PassStatuses /\ q.live.row.scanLimit \in Nat
        /\ q.live.row.registration \in RegistrationStatuses \cup {"REJECTED"}
    BY <2>1, BoundsAreNatural DEF PassRow
  <2>3. (IF q.live.row.registration = "REJECTED" THEN "REVISION_REQUESTED"
         ELSE q.live.row.registration) \in RegistrationStatuses
    BY <2>2 DEF RegistrationStatuses
  <2>4. (q.live.checkIn # NULL) \in BOOLEAN
    OBVIOUS
  <2>5. /\ ToKnownPass(q.live) \in KnownPass
        /\ ToKnownPass(q.live).scansCount = q.live.used
        /\ ToKnownPass(q.live).scanLimit = q.live.row.scanLimit
    BY <2>1, <2>2, <2>3, <2>4 DEF ToKnownPass, KnownPass
  <2>. HIDE DEF known
  <2>. QED BY <2>5
<1>5. q.live # NULL => known # NULL /\ outcome \in {d.outcome, "INVALID"}
  BY <1>4, NullIsNoRow DEF ServerOutcome
<1>6. q.live = NULL => outcome \in {"INVALID", "NOT_FOUND"}
  BY DEF ServerOutcome
<1>7. outcome \in Outcomes \cup {"NOT_FOUND"}
  BY <1>1, <1>5, <1>6 DEF Outcomes
<1>8. outcome = "ADMITTED" => q.live # NULL /\ d.admits
  BY <1>1, <1>5, <1>6
<1>9. q.live # NULL /\ d.admits => q.live.used < q.live.row.scanLimit
  <2>. SUFFICES ASSUME q.live # NULL, d.admits PROVE q.live.used < q.live.row.scanLimit
    OBVIOUS
  <2>1. /\ known.scansCount \in Nat /\ known.scanLimit \in Nat
    BY <1>4 DEF KnownPass
  <2>2. ScansUsed(known) = known.scansCount /\ ScanLimit(known) = known.scanLimit
    BY <2>1, NullIsNotANumber DEF ScansUsed, ScanLimit
  <2>3. known # NULL
    BY <1>5
  <2>. QED BY <1>1, <1>4, <2>1, <2>2, <2>3
<1>. HIDE DEF claim, parsed, known, input, ctx, d, outcome, override
<1>. QED BY <1>1, <1>2, <1>7, <1>8, <1>9 DEF CurrentCode, parsed, claim

-----------------------------------------------------------------------------
(* Type correctness.                                                        *)

\* The request a handler leaves behind is well formed after each kind of update.
LEMMA AnsweredOK ==
  ASSUME NEW q \in BusyRequest, RequestOK(q), NEW e \in Event,
         NEW outcome \in Outcomes \cup {"NOT_FOUND"}, NEW agreed \in BOOLEAN,
         NEW dup \in Event \cup {NULL}, NEW fresh \in BOOLEAN
  PROVE  LET p == Answered(q, e, outcome, agreed, dup, fresh) IN
         p \in BusyRequest /\ RequestOK(p)
<1>. DEFINE result == [outcome |-> outcome, agreed |-> agreed, collidedWith |-> dup,
                       fresh |-> fresh]
            p == Answered(q, e, outcome, agreed, dup, fresh)
<1>1. result \in Result
  BY DEF Result
<1>2. [q.results EXCEPT ![e] = result] \in [Event -> Result \cup {NULL}]
  BY <1>1 DEF BusyRequest
<1>3. p \in BusyRequest
  BY <1>2 DEF Answered, BusyRequest
<1>4. p.pc = "find" /\ p.live = NULL /\ p.todo = q.todo \ {e} /\ p.body = q.body
  BY DEF Answered, BusyRequest
<1>. HIDE DEF p
<1>5. RequestOK(p)
  BY <1>4 DEF RequestOK
<1>. QED BY <1>3, <1>5 DEF p

LEMMA EndedOK ==
  ASSUME NEW q \in BusyRequest, NEW how \in {"conflict", "error"}
  PROVE  Ended(q, how) \in BusyRequest /\ RequestOK(Ended(q, how))
<1>1. Ended(q, how) \in BusyRequest
  BY DEF Ended, BusyRequest
<1>2. Ended(q, how).pc = how /\ Ended(q, how).live = NULL /\ Ended(q, how).todo = {}
  BY DEF Ended, BusyRequest
<1>. QED BY <1>1, <1>2 DEF RequestOK

\* A step that replaces one request by a well-formed one keeps them all so.
LEMMA RequestUpdate ==
  ASSUME TypeOK, NEW r \in Request, NEW q \in BusyRequest, RequestOK(q),
         req' = [req EXCEPT ![r] = q]
  PROVE  /\ req' \in [Request -> BusyRequest \cup {Idle}]
         /\ \A s \in Request : req'[s] # Idle => RequestOK(req'[s])
BY DEF TypeOK

\* The current event of a request that works on one.
LEMMA CurrentEvent ==
  ASSUME NEW q \in BusyRequest, RequestOK(q), q.todo # {}
  PROVE  Oldest(q.todo) \in Event /\ Oldest(q.todo) \in q.todo /\ q.body[Oldest(q.todo)] \in Claim
<1>1. q.todo \in SUBSET Event /\ q.body \in Bodies
  BY DEF BusyRequest
<1>2. Oldest(q.todo) \in q.todo
  BY <1>1, OldestIsElement
<1>3. PICK S \in SUBSET Event : q.body \in [S -> Claim]
  BY <1>1 DEF Bodies
<1>4. Oldest(q.todo) \in S
  BY <1>2, <1>3 DEF RequestOK
<1>. QED BY <1>1, <1>2, <1>3, <1>4

LEMMA ActiveRequest ==
  ASSUME TypeOK, NEW r \in Request, req[r].pc # "idle"
  PROVE  req[r] \in BusyRequest /\ RequestOK(req[r])
BY DEF TypeOK, Idle

\* Steps of a request that write no table.
LEMMA TypeQuietServe ==
  ASSUME TypeOK, NEW r \in Request,
         \/ Resolve(r) \/ Replay(r) \/ FindNothing(r) \/ Read(r) \/ Collide(r)
         \/ FindWinner(r) \/ Violate(r) \/ Crash(r)
  PROVE  TypeOK'
<1>. DEFINE q == req[r]
<1>1. q \in BusyRequest /\ RequestOK(q)
  BY ActiveRequest
     DEF Resolve, Replay, FindNothing, Read, Collide, FindWinner, Violate, Crash
<1>2. SUFFICES \E p \in BusyRequest : RequestOK(p) /\ req' = [req EXCEPT ![r] = p]
  <2>1. UNCHANGED <<scan, tables, scanCount, blocked, reversed>>
    BY DEF Resolve, Replay, FindNothing, Read, Collide, FindWinner, Violate, Crash
  <2>. QED BY <2>1, RequestUpdate DEF TypeOK, tables
<1>3. CASE Resolve(r)
  <2>1. CASE q.dev \in blocked
    BY <1>1, <1>3, <2>1, EndedOK DEF Resolve
  <2>2. CASE q.dev \notin blocked
    <3>1. [q EXCEPT !.pc = "find"] \in BusyRequest
      BY <1>1 DEF BusyRequest
    <3>2. q.live = NULL
      BY <1>1, <1>3 DEF Resolve, RequestOK
    <3>3. RequestOK([q EXCEPT !.pc = "find"])
      BY <1>1, <3>2 DEF RequestOK, BusyRequest
    <3>. QED BY <1>3, <2>2, <3>1, <3>3 DEF Resolve
  <2>. QED BY <2>1, <2>2
<1>4. CASE Replay(r)
  <2>. DEFINE e == Oldest(q.todo)
              row == scanEvent[e]
  <2>1. e \in Event
    BY <1>1, <1>4, CurrentEvent DEF Replay
  <2>2. row \in EventRow
    BY <1>4, <2>1 DEF TypeOK, Replay, Recorded
  <2>3. row.outcome \in Outcomes \cup {"NOT_FOUND"} /\ row.duplicateOf \in Event \cup {NULL}
    BY <2>2 DEF EventRow
  <2>. DEFINE p == Answered(q, e, row.outcome, q.body[e].outcome = row.outcome,
                            row.duplicateOf, FALSE)
  <2>4. (q.body[e].outcome = row.outcome) \in BOOLEAN
    OBVIOUS
  <2>5. p \in BusyRequest /\ RequestOK(p)
    BY <1>1, <2>1, <2>3, <2>4, AnsweredOK
  <2>6. req' = [req EXCEPT ![r] = p]
    BY <1>4 DEF Replay
  <2>. QED BY <2>5, <2>6
<1>5. CASE FindNothing(r)
  <2>1. [q EXCEPT !.pc = "read"] \in BusyRequest
    BY <1>1 DEF BusyRequest
  <2>2. q.live = NULL /\ q.todo # {}
    BY <1>1, <1>5 DEF FindNothing, RequestOK
  <2>3. RequestOK([q EXCEPT !.pc = "read"])
    BY <1>1, <2>2 DEF RequestOK, BusyRequest
  <2>. QED BY <1>5, <2>1, <2>3 DEF FindNothing
<1>6. CASE Read(r)
  <2>. DEFINE code == CurrentCode(q)
              live == IF code = NULL \/ code \notin Code THEN NULL
                      ELSE IF pass[code] = NULL THEN NULL
                      ELSE Snapshot(code)
              p == [q EXCEPT !.pc = "write", !.live = live]
  <2>1. live \in Live \cup {NULL}
    <3>. SUFFICES ASSUME code \in Code, pass[code] # NULL PROVE Snapshot(code) \in Live
      OBVIOUS
    <3>1. pass[code] \in PassRow /\ checkIn[code] \in CheckInRow \cup {NULL}
      BY DEF TypeOK
    <3>2. Cardinality(AdmittedEvents(code)) \in Nat
      BY EventCounts DEF AdmittedEvents
    <3>. QED BY <3>1, <3>2 DEF Snapshot, Live
  <2>2. p \in BusyRequest
    BY <1>1, <2>1 DEF BusyRequest
  <2>3. q.todo # {}
    BY <1>1, <1>6 DEF Read, RequestOK
  <2>4. p.pc = "write" /\ p.live = live /\ p.todo = q.todo /\ p.body = q.body
    BY <1>1 DEF BusyRequest
  <2>5. live # NULL => CurrentCode(q) \in Code
    OBVIOUS
  <2>6. CurrentCode(p) = CurrentCode(q)
    BY <2>4 DEF CurrentCode
  <2>7. req' = [req EXCEPT ![r] = p]
    BY <1>6 DEF Read
  <2>. HIDE DEF p, live
  <2>8. RequestOK(p)
    BY <1>1, <2>3, <2>4, <2>5, <2>6 DEF RequestOK
  <2>. QED BY <2>2, <2>7, <2>8
<1>7. CASE Collide(r)
  <2>. DEFINE p == [q EXCEPT !.pc = "collided"]
  <2>1. q.live # NULL /\ q.pc = "write"
    BY <1>1, <1>7, VerdictFacts DEF Collide
  <2>2. p \in BusyRequest
    BY <1>1 DEF BusyRequest
  <2>3. p.pc = "collided" /\ p.live = q.live /\ p.todo = q.todo /\ p.body = q.body
    BY <1>1 DEF BusyRequest
  <2>4. CurrentCode(p) = CurrentCode(q)
    BY <2>3 DEF CurrentCode
  <2>5. req' = [req EXCEPT ![r] = p]
    BY <1>7 DEF Collide
  <2>. HIDE DEF p
  <2>6. RequestOK(p)
    BY <1>1, <2>1, <2>3, <2>4 DEF RequestOK
  <2>. QED BY <2>2, <2>5, <2>6
<1>8. CASE FindWinner(r)
  <2>. DEFINE row == checkIn[Verdict(q).code]
              winner == IF row = NULL THEN NULL ELSE row.winner
              p == [q EXCEPT !.pc = "concede", !.winner = winner]
  <2>1. q.live # NULL /\ q.pc = "collided" /\ Verdict(q).code \in Code
    BY <1>1, <1>8, VerdictFacts DEF FindWinner, RequestOK
  <2>2. winner \in Event \cup {NULL}
    BY <2>1 DEF TypeOK, CheckInRow
  <2>3. p \in BusyRequest
    BY <1>1, <2>2 DEF BusyRequest
  <2>4. p.pc = "concede" /\ p.live = q.live /\ p.todo = q.todo /\ p.body = q.body
    BY <1>1 DEF BusyRequest
  <2>5. CurrentCode(p) = CurrentCode(q)
    BY <2>4 DEF CurrentCode
  <2>6. req' = [req EXCEPT ![r] = p]
    BY <1>8 DEF FindWinner
  <2>. HIDE DEF p
  <2>7. RequestOK(p)
    BY <1>1, <2>1, <2>4, <2>5 DEF RequestOK
  <2>. QED BY <2>3, <2>6, <2>7
<1>9. CASE Violate(r) \/ Crash(r)
  BY <1>1, <1>9, EndedOK DEF Violate, Crash
<1>. QED BY <1>3, <1>4, <1>5, <1>6, <1>7, <1>8, <1>9

\* What the writing steps put into the tables.
LEMMA WrittenRow ==
  ASSUME TypeOK, NEW q \in BusyRequest, RequestOK(q), q.pc \in {"write", "concede"},
         NEW outcome \in Outcomes \cup {"NOT_FOUND"}, NEW dup \in Event \cup {NULL},
         NEW reason \in Reasons
  PROVE  Row([Verdict(q) EXCEPT !.reason = reason], q.live, outcome, dup) \in EventRow
<1>. DEFINE v == [Verdict(q) EXCEPT !.reason = reason]
<1>1. v.code = CurrentCode(q) /\ v.reason = reason
  BY VerdictFacts DEF Verdict
<1>2. (IF q.live = NULL THEN NULL ELSE v.code) \in Code \cup {NULL}
  BY <1>1 DEF RequestOK
<1>. HIDE DEF v
<1>. QED BY <1>1, <1>2 DEF Row, EventRow, v

LEMMA CollidedWithType ==
  ASSUME NEW q \in BusyRequest
  PROVE  CollidedWith(q, Verdict(q)) \in Event \cup {NULL}
<1>1. q.live # NULL => q.live \in Live
  BY DEF BusyRequest
<1>. QED BY <1>1 DEF CollidedWith, Live, CheckInRow

LEMMA TypeWritingServe ==
  ASSUME TypeOK, NEW r \in Request, Refuse(r) \/ Admit(r) \/ Concede(r) \/ Finish(r)
  PROVE  TypeOK'
<1>. DEFINE q == req[r]
            e == Oldest(q.todo)
<1>1. q \in BusyRequest /\ RequestOK(q)
  BY ActiveRequest DEF Refuse, Admit, Concede, Finish
<1>2. ~Finish(r) => e \in Event /\ q.body[e] \in Claim
  BY <1>1, CurrentEvent DEF Refuse, Admit, Concede, RequestOK
<1>3. Verdict(q) = [Verdict(q) EXCEPT !.reason = Verdict(q).reason]
  BY DEF Verdict
<1>4. CASE Refuse(r)
  <2>. DEFINE v == Verdict(q)
              dup == CollidedWith(q, v)
              row == Row(v, q.live, v.outcome, dup)
              p == Answered(q, e, v.outcome, q.body[e].outcome = v.outcome, dup, TRUE)
  <2>1. v.outcome \in Outcomes \cup {"NOT_FOUND"} /\ v.reason \in Reasons
        /\ dup \in Event \cup {NULL}
    BY <1>1, VerdictFacts, CollidedWithType
  <2>2. row \in EventRow
    BY <1>1, <1>3, <1>4, <2>1, WrittenRow DEF Refuse
  <2>3. (q.body[e].outcome = v.outcome) \in BOOLEAN
    OBVIOUS
  <2>4. p \in BusyRequest /\ RequestOK(p)
    BY <1>1, <1>2, <1>4, <2>1, <2>3, AnsweredOK DEF Refuse, Finish
  <2>5. /\ scanEvent' = [scanEvent EXCEPT ![e] = row] /\ req' = [req EXCEPT ![r] = p]
        /\ UNCHANGED <<scan, pass, checkIn, scanCount, blocked, reversed>>
    BY <1>4 DEF Refuse
  <2>. HIDE DEF v, dup, row, p
  <2>. QED BY <2>2, <2>4, <2>5, RequestUpdate DEF TypeOK
<1>5. CASE Admit(r)
  <2>. DEFINE v == Verdict(q)
              row == Row(v, q.live, "ADMITTED", NULL)
              guests == GuestsLetIn(q, e)
              p == Answered(q, e, "ADMITTED", q.body[e].outcome = "ADMITTED", NULL, TRUE)
  <2>1. v.reason \in Reasons /\ q.live # NULL /\ v.code \in Code
    BY <1>1, <1>5, VerdictFacts DEF Admit, RequestOK
  <2>2. row \in EventRow
    BY <1>1, <1>3, <1>5, <2>1, WrittenRow DEF Admit, Outcomes
  <2>3. e \in Event /\ q.body[e].guests \in Nat
    BY <1>2, <1>5, ClaimsAreClaims DEF Admit, Finish
  <2>4. q.live.row.guestCount \in 0..MaxGuests
    BY <1>1, <2>1 DEF BusyRequest, Live, PassRow
  <2>5. guests \in 0..MaxGuests
    BY <2>3, <2>4, BoundsAreNatural DEF GuestsLetIn
  <2>6. [winner |-> e, guests |-> guests] \in CheckInRow
    BY <2>3, <2>5 DEF CheckInRow
  <2>7. checkIn' \in [Code -> CheckInRow \cup {NULL}]
    BY <1>5, <2>1, <2>6 DEF Admit, TypeOK
  <2>8. (q.body[e].outcome = "ADMITTED") \in BOOLEAN
    OBVIOUS
  <2>9. p \in BusyRequest /\ RequestOK(p)
    BY <1>1, <2>3, <2>8, AnsweredOK DEF Outcomes
  <2>10. /\ scanEvent' = [scanEvent EXCEPT ![e] = row] /\ req' = [req EXCEPT ![r] = p]
         /\ UNCHANGED <<scan, pass, scanCount, blocked, reversed>>
    BY <1>5 DEF Admit
  <2>. HIDE DEF v, row, p
  <2>. QED BY <2>2, <2>3, <2>7, <2>9, <2>10, RequestUpdate DEF TypeOK
<1>6. CASE Concede(r)
  <2>. DEFINE v == [Verdict(q) EXCEPT !.reason = "ALREADY_CHECKED_IN"]
              row == Row(v, q.live, "DUPLICATE", q.winner)
              p == Answered(q, e, "DUPLICATE", FALSE, q.winner, TRUE)
  <2>1. q.winner \in Event \cup {NULL}
    BY <1>1 DEF BusyRequest
  <2>2. row \in EventRow
    BY <1>1, <1>6, <2>1, WrittenRow DEF Concede, Outcomes, Reasons
  <2>3. p \in BusyRequest /\ RequestOK(p)
    BY <1>1, <1>2, <1>6, <2>1, AnsweredOK DEF Concede, Finish, Outcomes
  <2>4. /\ scanEvent' = [scanEvent EXCEPT ![e] = row] /\ req' = [req EXCEPT ![r] = p]
        /\ UNCHANGED <<scan, pass, checkIn, scanCount, blocked, reversed>>
    BY <1>6 DEF Concede
  <2>. HIDE DEF v, row, p
  <2>. QED BY <2>2, <2>3, <2>4, RequestUpdate DEF TypeOK
<1>7. CASE Finish(r)
  <2>. DEFINE p == [q EXCEPT !.pc = "ok"]
  <2>1. FreshResults(q) \in SUBSET Event
    <3>1. PICK S \in SUBSET Event : q.body \in [S -> Claim]
      BY <1>1 DEF BusyRequest, Bodies
    <3>. QED BY <3>1 DEF FreshResults
  <2>2. Cardinality(FreshResults(q)) \in Nat
    BY <2>1, EventCounts
  <2>3. q.dev \in Device /\ scanCount[q.dev] \in Nat
    BY <1>1 DEF BusyRequest, TypeOK
  <2>4. scanCount' \in [Device -> Nat]
    BY <1>7, <2>2, <2>3 DEF Finish, TypeOK
  <2>5. p \in BusyRequest
    BY <1>1 DEF BusyRequest
  <2>6. p.pc = "ok" /\ p.live = q.live /\ p.todo = q.todo /\ p.body = q.body
    BY <1>1 DEF BusyRequest
  <2>7. q.live = NULL
    BY <1>1, <1>7 DEF Finish, RequestOK
  <2>8. req' = [req EXCEPT ![r] = p] /\ UNCHANGED <<scan, tables, blocked, reversed>>
    BY <1>7 DEF Finish
  <2>. HIDE DEF p
  <2>9. RequestOK(p)
    BY <1>1, <2>6, <2>7 DEF RequestOK
  <2>. QED BY <2>4, <2>5, <2>8, <2>9, RequestUpdate DEF TypeOK, tables
<1>. QED BY <1>4, <1>5, <1>6, <1>7

LEMMA UnusedEvent ==
  ASSUME Unused # {}
  PROVE  Oldest(Unused) \in Event /\ scan[Oldest(Unused)] = NULL /\ ~Recorded(Oldest(Unused))
<1>1. Unused \in SUBSET Event
  BY DEF Unused
<1>2. Oldest(Unused) \in Unused
  BY <1>1, OldestIsElement
<1>. QED BY <1>2 DEF Unused, Recorded

LEMMA TypeDesk ==
  ASSUME TypeOK, NEW c \in Code, Desk(c)
  PROVE  TypeOK'
<1>1. CASE IssuePass(c) \/ Revoke(c) \/ Restore(c) \/ UndoRegistrationReview(c)
           \/ (\E s \in {"APPROVED", "REVISION_REQUESTED", "REJECTED"} : Review(c, s))
           \/ (\E n \in 0..MaxLimit : AdjustPassQrLife(c, n))
  <2>1. \E row \in PassRow : pass' = [pass EXCEPT ![c] = row]
    <3>1. CASE IssuePass(c)
      <4>1. PICK g \in 0..MaxGuests :
              pass' = [pass EXCEPT ![c] = [status |-> "ACTIVE", registration |-> "APPROVED",
                                           scanLimit |-> 1, guestCount |-> g]]
        BY <3>1 DEF IssuePass
      <4>2. [status |-> "ACTIVE", registration |-> "APPROVED", scanLimit |-> 1,
             guestCount |-> g] \in PassRow
        BY BoundsAreNatural DEF PassRow, PassStatuses, RegistrationStatuses
      <4>. QED BY <4>1, <4>2
    <3>2. CASE ~IssuePass(c)
      <4>1. pass[c] \in PassRow
        BY <1>1, <3>2 DEF Revoke, Restore, Review, UndoRegistrationReview, AdjustPassQrLife, TypeOK
      <4>2. CASE Revoke(c) \/ Restore(c)
        <5>1. \A s \in {"ACTIVE", "REVOKED"} : [pass[c] EXCEPT !.status = s] \in PassRow
          BY <4>1 DEF PassRow, PassStatuses
        <5>. QED BY <4>2, <5>1 DEF Revoke, Restore, TypeOK
      <4>3. CASE \E s \in {"APPROVED", "REVISION_REQUESTED", "REJECTED"} : Review(c, s)
        <5>1. PICK s \in {"APPROVED", "REVISION_REQUESTED", "REJECTED"} : Review(c, s)
          BY <4>3
        <5>. DEFINE row == [pass[c] EXCEPT !.registration = s,
                            !.status = IF s = "REJECTED" THEN "REVOKED" ELSE pass[c].status]
        <5>2. row \in PassRow
          BY <4>1 DEF PassRow, PassStatuses, RegistrationStatuses
        <5>3. pass' = [pass EXCEPT ![c] = row]
          BY <4>1, <5>1 DEF Review, PassRow, TypeOK
        <5>. QED BY <5>2, <5>3
      <4>4. CASE \E n \in 0..MaxLimit : AdjustPassQrLife(c, n)
        <5>1. \A n \in 0..MaxLimit : [pass[c] EXCEPT !.scanLimit = n] \in PassRow
          BY <4>1 DEF PassRow
        <5>. QED BY <4>4, <5>1 DEF AdjustPassQrLife, TypeOK
      <4>5. CASE UndoRegistrationReview(c)
        <5>. DEFINE row == [pass[c] EXCEPT !.registration = "PENDING_REVIEW", !.status = "REVOKED"]
        <5>1. row \in PassRow
          BY <4>1 DEF PassRow, PassStatuses, RegistrationStatuses
        <5>2. pass' = [pass EXCEPT ![c] = row]
          BY <4>1, <4>5 DEF UndoRegistrationReview, PassRow, TypeOK
        <5>. QED BY <5>1, <5>2
      <4>. QED BY <1>1, <3>2, <4>2, <4>3, <4>4, <4>5
    <3>. QED BY <3>1, <3>2
  <2>2. UNCHANGED <<scan, checkIn, scanEvent, scanCount, blocked, req, reversed>>
    BY <1>1 DEF IssuePass, Revoke, Restore, Review, UndoRegistrationReview, AdjustPassQrLife
  <2>. QED BY <2>1, <2>2 DEF TypeOK
<1>2. CASE \E g \in 0..MaxGuests : RecordManualCheckIn(c, g)
  <2>1. PICK g \in 0..MaxGuests : RecordManualCheckIn(c, g)
    BY <1>2
  <2>. DEFINE e == Oldest(Unused)
  <2>2. e \in Event
    BY <2>1, UnusedEvent DEF RecordManualCheckIn
  <2>3. [code |-> c, outcome |-> "ADMITTED", reason |-> "admin_override",
         duplicateOf |-> NULL] \in EventRow
    BY DEF EventRow, Outcomes
  <2>4. [winner |-> e, guests |-> g] \in CheckInRow
    BY <2>2 DEF CheckInRow
  <2>. QED BY <2>1, <2>2, <2>3, <2>4 DEF RecordManualCheckIn, TypeOK
<1>3. CASE ReverseCheckIn(c)
  <2>1. \A e \in Event : Recorded(e) =>
          scanEvent[e] \in EventRow /\ [scanEvent[e] EXCEPT !.duplicateOf = NULL] \in EventRow
    BY DEF TypeOK, Recorded, EventRow
  <2>2. scanEvent' \in [Event -> EventRow \cup {NULL}]
    BY <1>3, <2>1 DEF ReverseCheckIn, TypeOK
  <2>3. checkIn' \in [Code -> CheckInRow \cup {NULL}]
    BY <1>3 DEF ReverseCheckIn, TypeOK
  <2>. QED BY <1>3, <2>2, <2>3 DEF ReverseCheckIn, TypeOK
<1>. QED BY <1>1, <1>2, <1>3 DEF Desk

LEMMA TypePhones ==
  ASSUME TypeOK, Phones \/ \E d \in Device : SetBlocked(d)
  PROVE  TypeOK'
<1>1. ASSUME NEW d \in Device, SetBlocked(d) PROVE TypeOK'
  BY <1>1 DEF SetBlocked, TypeOK, tables
<1>2. ASSUME NEW d \in Device, NEW c \in Claim, Take(d, c) PROVE TypeOK'
  <2>1. Oldest(Unused) \in Event /\ [dev |-> d, claim |-> c] \in ScanRow
    BY <1>2, UnusedEvent DEF Take, ScanRow
  <2>. QED BY <1>2, <2>1 DEF Take, TypeOK, tables
<1>3. ASSUME NEW e \in Event, NEW n \in 0..MaxGuests, AmendGuests(e, n) PROVE TypeOK'
  <2>1. scan[e] \in ScanRow
    BY <1>3 DEF AmendGuests, TypeOK
  <2>2. [scan[e].claim EXCEPT !.guests = n] \in Claim
    BY <2>1, ClaimsCanBeAmended DEF ScanRow
  <2>3. [scan[e] EXCEPT !.claim = [scan[e].claim EXCEPT !.guests = n]] \in ScanRow
    BY <2>1, <2>2 DEF ScanRow
  <2>4. scan' = [scan EXCEPT ![e] = [scan[e] EXCEPT !.claim = [scan[e].claim EXCEPT !.guests = n]]]
    BY <1>3, <2>1 DEF AmendGuests, ScanRow, TypeOK
  <2>. QED BY <1>3, <2>3, <2>4 DEF AmendGuests, TypeOK, tables
<1>4. ASSUME NEW r \in Request, NEW d \in Device, NEW S \in SUBSET Event, NEW gen \in Time,
             Post(r, d, S, gen)
      PROVE  TypeOK'
  <2>. DEFINE body == [e \in S |-> scan[e].claim]
              p == NewRequest(d, body, gen)
  <2>1. \A e \in S : scan[e] \in ScanRow
    BY <1>4 DEF Post, TypeOK
  <2>2. body \in [S -> Claim]
    BY <2>1 DEF ScanRow
  <2>3. body \in Bodies /\ DOMAIN body = S
    BY <2>2 DEF Bodies
  <2>. HIDE DEF body
  <2>4. p \in BusyRequest
    BY <2>3 DEF NewRequest, BusyRequest
  <2>5. p.pc = "resolve" /\ p.live = NULL /\ p.todo = DOMAIN p.body
    BY DEF NewRequest
  <2>6. req' = [req EXCEPT ![r] = p] /\ UNCHANGED <<scan, tables, scanCount, blocked, reversed>>
    BY <1>4 DEF Post, body
  <2>. HIDE DEF p
  <2>7. RequestOK(p)
    BY <2>5 DEF RequestOK
  <2>. QED BY <2>4, <2>6, <2>7, RequestUpdate DEF TypeOK, tables
<1>5. ASSUME NEW r \in Request, Collect(r) PROVE TypeOK'
  BY <1>5 DEF Collect, TypeOK, tables
<1>. QED BY <1>1, <1>2, <1>3, <1>4, <1>5 DEF Phones

LEMMA TypeInit == Init => TypeOK
BY DEF Init, TypeOK

LEMMA TypeStep == TypeOK /\ [Next]_vars => TypeOK'
<1>. SUFFICES ASSUME TypeOK, [Next]_vars PROVE TypeOK'
  OBVIOUS
<1>1. ASSUME NEW r \in Request, Serve(r) \/ Crash(r) PROVE TypeOK'
  BY <1>1, TypeQuietServe, TypeWritingServe DEF Serve
<1>2. CASE UNCHANGED vars
  BY <1>2 DEF TypeOK, vars, tables
<1>. QED BY <1>1, <1>2, TypeDesk, TypePhones DEF Next

\* Whatever the phones post, the requests do and the desk changes, every table,
\* counter and request keeps its type.
THEOREM TypeCorrect == Spec => []TypeOK
BY TypeInit, TypeStep, PTL DEF Spec

-----------------------------------------------------------------------------
(* A single-use pass is admitted once.  SingleUseAdmitsOnce is not inductive: *)
(* the server decides from a snapshot that may be old by the time it writes.  *)
(* What carries the proof is that the one admitted attempt is the one the     *)
(* check-in names (ArrivalIsAlone), so that an Admit that finds no check-in   *)
(* finds no admitted attempt either, and that a snapshot with a check-in has  *)
(* counted it (SnapshotsAreSound), so that such a snapshot admits nobody.     *)

SnapshotOK(q) ==
  q.live # NULL =>
    /\ CurrentCode(q) \notin MultiUse => q.live.row.scanLimit <= 1
    /\ q.live.checkIn # NULL => q.live.used >= 1

SnapshotsAreSound == \A r \in Request : req[r] # Idle => SnapshotOK(req[r])

LimitsAreSingle == \A c \in Code \ MultiUse : pass[c] # NULL => pass[c].scanLimit <= 1

ArrivalIsAlone ==
  \A c \in Code \ (MultiUse \cup reversed) : \A e \in AdmittedEvents(c) :
    checkIn[c] # NULL /\ checkIn[c].winner = e

IInv == /\ TypeOK /\ ArrivalHasAttempt
        /\ LimitsAreSingle /\ SnapshotsAreSound /\ ArrivalIsAlone

\* One new row adds its event to the admitted ones of its code, if it is ADMITTED.
LEMMA AdmittedAfterInsert ==
  ASSUME TypeOK, NEW e \in Event, ~Recorded(e), NEW row \in EventRow,
         scanEvent' = [scanEvent EXCEPT ![e] = row], NEW c \in Code
  PROVE  AdmittedEvents(c)' = IF row.code = c /\ row.outcome = "ADMITTED"
                              THEN AdmittedEvents(c) \cup {e} ELSE AdmittedEvents(c)
<1>1. row # NULL
  BY NullIsNoRow
<1>2. scanEvent'[e] = row /\ \A f \in Event \ {e} : scanEvent'[f] = scanEvent[f]
  BY DEF TypeOK
<1>. QED BY <1>1, <1>2 DEF AdmittedEvents, Recorded

\* A step that replaces one request by one with a sound snapshot.
LEMMA SnapshotUpdate ==
  ASSUME TypeOK, SnapshotsAreSound, NEW r \in Request, NEW q, SnapshotOK(q),
         req' = [req EXCEPT ![r] = q]
  PROVE  SnapshotsAreSound'
BY DEF TypeOK, SnapshotsAreSound

LEMMA NoSnapshot ==
  ASSUME NEW q, q.live = NULL PROVE SnapshotOK(q)
BY DEF SnapshotOK

LEMMA SnapshotStep ==
  ASSUME IInv, Next
  PROVE  SnapshotsAreSound'
<1>. USE DEF IInv
<1>1. ASSUME NEW r \in Request, Serve(r) \/ Crash(r) PROVE SnapshotsAreSound'
  <2>. DEFINE q == req[r]
  <2>1. q \in BusyRequest /\ RequestOK(q) /\ SnapshotOK(q)
    <3>1. q.pc # "idle"
      BY <1>1 DEF Serve, Resolve, Replay, FindNothing, Read, Refuse, Admit, Collide,
                  FindWinner, Concede, Violate, Finish, Crash
    <3>. QED BY <3>1, ActiveRequest DEF SnapshotsAreSound, Idle
  <2>2. \A how \in {"conflict", "error"} : SnapshotOK(Ended(q, how))
    BY <2>1, NoSnapshot DEF Ended, BusyRequest
  <2>3. \A e, outcome, agreed, dup, fresh :
          SnapshotOK(Answered(q, e, outcome, agreed, dup, fresh))
    BY <2>1, NoSnapshot DEF Answered, BusyRequest
  <2>4. \A pc : q.live = NULL => SnapshotOK([q EXCEPT !.pc = pc])
    BY <2>1, NoSnapshot DEF BusyRequest
  <2>5. CASE Resolve(r)
    BY <2>1, <2>2, <2>4, <2>5, SnapshotUpdate DEF Resolve, RequestOK
  <2>6. CASE Replay(r) \/ Refuse(r) \/ Admit(r) \/ Concede(r)
    <3>1. \E e, outcome, agreed, dup, fresh :
            req' = [req EXCEPT ![r] = Answered(q, e, outcome, agreed, dup, fresh)]
      <4>1. CASE Replay(r)
        BY <4>1 DEF Replay
      <4>2. CASE Refuse(r)
        BY <4>2 DEF Refuse
      <4>3. CASE Admit(r)
        BY <4>3 DEF Admit
      <4>4. CASE Concede(r)
        BY <4>4 DEF Concede
      <4>. QED BY <2>6, <4>1, <4>2, <4>3, <4>4
    <3>. QED BY <2>3, <3>1, SnapshotUpdate
  <2>7. CASE FindNothing(r) \/ Finish(r)
    BY <2>1, <2>4, <2>7, SnapshotUpdate DEF FindNothing, Finish, RequestOK
  <2>8. CASE Violate(r) \/ Crash(r)
    BY <2>2, <2>8, SnapshotUpdate DEF Violate, Crash
  <2>9. CASE Collide(r)
    <3>. DEFINE p == [q EXCEPT !.pc = "collided"]
    <3>1. p.live = q.live /\ p.todo = q.todo /\ p.body = q.body
      BY <2>1 DEF BusyRequest
    <3>2. SnapshotOK(p)
      BY <2>1, <3>1 DEF SnapshotOK, CurrentCode
    <3>. QED BY <2>9, <3>2, SnapshotUpdate DEF Collide
  <2>10. CASE FindWinner(r)
    <3>. DEFINE row == checkIn[Verdict(q).code]
                p == [q EXCEPT !.pc = "concede",
                               !.winner = IF row = NULL THEN NULL ELSE row.winner]
    <3>1. p.live = q.live /\ p.todo = q.todo /\ p.body = q.body
      BY <2>1 DEF BusyRequest
    <3>2. SnapshotOK(p)
      BY <2>1, <3>1 DEF SnapshotOK, CurrentCode
    <3>. QED BY <2>10, <3>2, SnapshotUpdate DEF FindWinner
  <2>11. CASE Read(r)
    <3>. DEFINE code == CurrentCode(q)
                live == IF code = NULL \/ code \notin Code THEN NULL
                        ELSE IF pass[code] = NULL THEN NULL
                        ELSE Snapshot(code)
                p == [q EXCEPT !.pc = "write", !.live = live]
    <3>1. p.live = live /\ CurrentCode(p) = code
      BY <2>1 DEF BusyRequest, CurrentCode
    <3>2. ASSUME code \in Code, pass[code] # NULL, live = Snapshot(code) PROVE SnapshotOK(p)
      <4>1. live.row = pass[code] /\ live.checkIn = checkIn[code]
            /\ live.used = Cardinality(AdmittedEvents(code))
        BY <3>2 DEF Snapshot
      <4>2. code \notin MultiUse => live.row.scanLimit <= 1
        BY <3>2, <4>1 DEF LimitsAreSingle
      <4>3. live.checkIn # NULL => live.used >= 1
        <5>. SUFFICES ASSUME checkIn[code] # NULL PROVE Cardinality(AdmittedEvents(code)) >= 1
          BY <4>1
        <5>1. AdmittedEvents(code) # {}
          BY <3>2 DEF ArrivalHasAttempt
        <5>2. IsFiniteSet(AdmittedEvents(code)) /\ Cardinality(AdmittedEvents(code)) \in Nat
          BY EventCounts DEF AdmittedEvents
        <5>. QED BY <5>1, <5>2, FS_EmptySet
      <4>. QED BY <3>1, <4>2, <4>3 DEF SnapshotOK
    <3>3. live = NULL \/ (code \in Code /\ pass[code] # NULL /\ live = Snapshot(code))
      OBVIOUS
    <3>4. req' = [req EXCEPT ![r] = p]
      BY <2>11 DEF Read
    <3>. HIDE DEF p, live
    <3>5. SnapshotOK(p)
      BY <3>1, <3>2, <3>3 DEF SnapshotOK
    <3>. QED BY <3>4, <3>5, SnapshotUpdate
  <2>. QED BY <1>1, <2>5, <2>6, <2>7, <2>8, <2>9, <2>10, <2>11 DEF Serve
<1>2. ASSUME NEW r \in Request, NEW d \in Device, NEW S \in SUBSET Event, NEW gen \in Time,
             Post(r, d, S, gen)
      PROVE  SnapshotsAreSound'
  <2>1. \A body : SnapshotOK(NewRequest(d, body, gen))
    BY NoSnapshot DEF NewRequest
  <2>. QED BY <1>2, <2>1, SnapshotUpdate DEF Post
<1>3. ASSUME NEW r \in Request, Collect(r) PROVE SnapshotsAreSound'
  BY <1>3 DEF Collect, SnapshotsAreSound, TypeOK
<1>4. ASSUME UNCHANGED req PROVE SnapshotsAreSound'
  BY <1>4 DEF SnapshotsAreSound
<1>5. ASSUME NEW c \in Code, Desk(c) PROVE UNCHANGED req
  BY <1>5 DEF Desk, IssuePass, Revoke, Restore, Review, UndoRegistrationReview,
              AdjustPassQrLife, RecordManualCheckIn, ReverseCheckIn
<1>. QED BY <1>1, <1>2, <1>3, <1>4, <1>5 DEF Next, Phones, Take, AmendGuests, SetBlocked

\* The steps that write an attempt write one that is not on record yet, answer with
\* its outcome, and two of them never write ADMITTED.
LEMMA WritesAnAttempt ==
  ASSUME TypeOK, NEW r \in Request, Refuse(r) \/ Admit(r) \/ Concede(r)
  PROVE  \E f \in Event, row \in EventRow : \E agreed, dup :
           /\ ~Recorded(f) /\ f \in req[r].todo
           /\ Refuse(r) \/ Concede(r) => row.outcome # "ADMITTED"
           /\ scanEvent' = [scanEvent EXCEPT ![f] = row]
           /\ req' = [req EXCEPT ![r] = Answered(req[r], f, row.outcome, agreed, dup, TRUE)]
<1>. DEFINE q == req[r]
            e == Oldest(q.todo)
            v == Verdict(q)
<1>1. q \in BusyRequest /\ RequestOK(q)
  BY ActiveRequest DEF Refuse, Admit, Concede
<1>2. e \in Event /\ ~Recorded(e) /\ e \in q.todo
  BY <1>1, CurrentEvent DEF Refuse, Admit, Concede, RequestOK
<1>3. v = [v EXCEPT !.reason = v.reason]
  BY DEF Verdict
<1>4. /\ v.outcome \in Outcomes \cup {"NOT_FOUND"} /\ v.reason \in Reasons
      /\ CollidedWith(q, v) \in Event \cup {NULL}
  BY <1>1, VerdictFacts, CollidedWithType
<1>5. CASE Refuse(r)
  <2>. DEFINE row == Row(v, q.live, v.outcome, CollidedWith(q, v))
  <2>1. row \in EventRow /\ row.outcome = v.outcome /\ v.outcome # "ADMITTED"
    BY <1>1, <1>3, <1>4, <1>5, WrittenRow, VerdictFacts DEF Refuse, Row
  <2>2. /\ scanEvent' = [scanEvent EXCEPT ![e] = row]
        /\ req' = [req EXCEPT ![r] = Answered(q, e, v.outcome, q.body[e].outcome = v.outcome,
                                              CollidedWith(q, v), TRUE)]
    BY <1>5 DEF Refuse
  <2>. HIDE DEF row, v, e
  <2>. QED BY <1>2, <2>1, <2>2
<1>6. CASE Admit(r)
  <2>. DEFINE row == Row(v, q.live, "ADMITTED", NULL)
  <2>1. row \in EventRow /\ row.outcome = "ADMITTED"
    BY <1>1, <1>3, <1>4, <1>6, WrittenRow DEF Admit, Row, Outcomes
  <2>2. /\ scanEvent' = [scanEvent EXCEPT ![e] = row]
        /\ req' = [req EXCEPT ![r] = Answered(q, e, "ADMITTED", q.body[e].outcome = "ADMITTED",
                                              NULL, TRUE)]
    BY <1>6 DEF Admit
  <2>3. ~Refuse(r) /\ ~Concede(r)
    BY <1>6 DEF Admit, Refuse, Concede
  <2>. HIDE DEF row, v, e
  <2>. QED BY <1>2, <2>1, <2>2, <2>3
<1>7. CASE Concede(r)
  <2>. DEFINE w == [v EXCEPT !.reason = "ALREADY_CHECKED_IN"]
              row == Row(w, q.live, "DUPLICATE", q.winner)
  <2>1. q.winner \in Event \cup {NULL} /\ q.pc = "concede"
    BY <1>1, <1>7 DEF BusyRequest, Concede
  <2>2. row \in EventRow /\ row.outcome = "DUPLICATE"
    BY <1>1, <2>1, WrittenRow DEF Row, Outcomes, Reasons
  <2>3. /\ scanEvent' = [scanEvent EXCEPT ![e] = row]
        /\ req' = [req EXCEPT ![r] = Answered(q, e, "DUPLICATE", FALSE, q.winner, TRUE)]
    BY <1>7 DEF Concede
  <2>. HIDE DEF row, w, v, e
  <2>. QED BY <1>2, <2>2, <2>3
<1>. QED BY <1>5, <1>6, <1>7

\* A refused attempt adds to nobody's admitted events.
LEMMA RefusalStep ==
  ASSUME IInv, NEW r \in Request, Refuse(r) \/ Concede(r)
  PROVE  ArrivalHasAttempt' /\ LimitsAreSingle' /\ ArrivalIsAlone'
<1>1. PICK e \in Event, row \in EventRow :
        ~Recorded(e) /\ row.outcome # "ADMITTED" /\ scanEvent' = [scanEvent EXCEPT ![e] = row]
  BY WritesAnAttempt DEF IInv
<1>2. \A c \in Code : AdmittedEvents(c)' = AdmittedEvents(c)
  BY <1>1, AdmittedAfterInsert DEF IInv
<1>3. UNCHANGED <<pass, checkIn, reversed>>
  BY DEF Refuse, Concede
<1>. QED BY <1>2, <1>3 DEF IInv, ArrivalHasAttempt, LimitsAreSingle, ArrivalIsAlone

\* Event e lets pass c in: it is put on record as ADMITTED, and c either was not
\* inside and now is because of e, or may be scanned more than once.
LetsIn(c, e) ==
  /\ ~Recorded(e)
  /\ \E row \in EventRow : /\ row.code = c /\ row.outcome = "ADMITTED"
                           /\ scanEvent' = [scanEvent EXCEPT ![e] = row]
  /\ \/ /\ checkIn[c] = NULL
        /\ \E arrival \in CheckInRow : /\ arrival.winner = e
                                       /\ checkIn' = [checkIn EXCEPT ![c] = arrival]
     \/ c \in MultiUse /\ UNCHANGED checkIn
  /\ UNCHANGED <<pass, reversed>>

LEMMA AdmitLetsIn ==
  ASSUME IInv, NEW r \in Request, Admit(r)
  PROVE  \E c \in Code, e \in Event : LetsIn(c, e)
<1>. DEFINE q == req[r]
            e == Oldest(q.todo)
            c == CurrentCode(q)
            row == Row(Verdict(q), q.live, "ADMITTED", NULL)
            arrival == [winner |-> e, guests |-> GuestsLetIn(q, e)]
<1>1. q \in BusyRequest /\ RequestOK(q) /\ SnapshotOK(q) /\ q.pc = "write"
  BY ActiveRequest DEF IInv, Admit, SnapshotsAreSound, Idle
<1>2. e \in Event /\ ~Recorded(e) /\ scanEvent' = [scanEvent EXCEPT ![e] = row]
  BY <1>1, CurrentEvent DEF Admit, RequestOK
<1>3. /\ q.live # NULL /\ c \in Code /\ Verdict(q).code = c
      /\ q.live.used < q.live.row.scanLimit
      /\ Verdict(q).reason \in Reasons
  BY <1>1, VerdictFacts DEF Admit, RequestOK
<1>4. row \in EventRow /\ row.code = c /\ row.outcome = "ADMITTED"
  <2>1. row.code = c /\ row.outcome = "ADMITTED"
    BY <1>3 DEF Row
  <2>2. Verdict(q) = [Verdict(q) EXCEPT !.reason = Verdict(q).reason]
    BY DEF Verdict
  <2>3. row \in EventRow
    BY <1>1, <1>3, <2>2, WrittenRow DEF IInv, Outcomes
  <2>. QED BY <2>1, <2>3
<1>5. arrival \in CheckInRow /\ arrival.winner = e
  <2>1. q.body[e] \in Claim
    BY <1>1, CurrentEvent DEF RequestOK
  <2>2. q.body[e].guests \in Nat /\ q.live.row.guestCount \in 0..MaxGuests
    BY <1>1, <1>3, <2>1, ClaimsAreClaims DEF BusyRequest, Live, PassRow
  <2>3. GuestsLetIn(q, e) \in 0..MaxGuests
    BY <2>2, BoundsAreNatural DEF GuestsLetIn
  <2>. QED BY <1>2, <2>3 DEF CheckInRow
<1>6. /\ UNCHANGED <<pass, reversed>>
      /\ q.live.checkIn = NULL => checkIn[c] = NULL
      /\ checkIn' = IF q.live.checkIn # NULL THEN checkIn
                    ELSE [checkIn EXCEPT ![c] = arrival]
  BY <1>3 DEF Admit, Taken
<1>7. q.live.checkIn # NULL => c \in MultiUse
  <2>1. q.live.used \in Nat /\ q.live.row.scanLimit \in Nat
    BY <1>1, <1>3, BoundsAreNatural DEF BusyRequest, Live, PassRow
  <2>. QED BY <1>1, <1>3, <2>1 DEF SnapshotOK
<1>. HIDE DEF row, arrival, e, c
<1>8. LetsIn(c, e)
  BY <1>2, <1>4, <1>5, <1>6, <1>7 DEF LetsIn
<1>. QED BY <1>2, <1>3, <1>8

LEMMA ManualLetsIn ==
  ASSUME IInv, NEW c \in Code, NEW g \in 0..MaxGuests, RecordManualCheckIn(c, g)
  PROVE  \E e \in Event : LetsIn(c, e)
<1>. DEFINE e == Oldest(Unused)
            row == [code |-> c, outcome |-> "ADMITTED", reason |-> "admin_override",
                    duplicateOf |-> NULL]
            arrival == [winner |-> e, guests |-> g]
<1>1. e \in Event /\ ~Recorded(e)
  BY UnusedEvent DEF RecordManualCheckIn
<1>2. row \in EventRow /\ row.code = c /\ row.outcome = "ADMITTED"
  BY DEF EventRow, Outcomes
<1>3. arrival \in CheckInRow /\ arrival.winner = e
  BY <1>1 DEF CheckInRow
<1>4. /\ scanEvent' = [scanEvent EXCEPT ![e] = row] /\ checkIn' = [checkIn EXCEPT ![c] = arrival]
      /\ checkIn[c] = NULL /\ UNCHANGED <<pass, reversed>>
  BY DEF RecordManualCheckIn
<1>. HIDE DEF row, arrival, e
<1>5. LetsIn(c, e)
  BY <1>1, <1>2, <1>3, <1>4 DEF LetsIn
<1>. QED BY <1>1, <1>5

\* A single-use pass comes in with its first and only admitted attempt.
LEMMA LetsInStep ==
  ASSUME IInv, NEW d \in Code, NEW e \in Event, LetsIn(d, e)
  PROVE  ArrivalHasAttempt' /\ LimitsAreSingle' /\ ArrivalIsAlone'
<1>1. \A c \in Code : AdmittedEvents(c)' = IF c = d THEN AdmittedEvents(c) \cup {e}
                                           ELSE AdmittedEvents(c)
  BY AdmittedAfterInsert DEF IInv, LetsIn
<1>2. \/ /\ checkIn[d] = NULL
         /\ checkIn'[d] # NULL /\ checkIn'[d].winner = e
         /\ \A c \in Code \ {d} : checkIn'[c] = checkIn[c]
      \/ d \in MultiUse /\ UNCHANGED checkIn
  BY NullIsNoRow DEF IInv, TypeOK, LetsIn
<1>3. UNCHANGED <<pass, reversed>>
  BY DEF LetsIn
<1>4. ArrivalHasAttempt'
  BY <1>1, <1>2 DEF IInv, ArrivalHasAttempt
<1>5. ArrivalIsAlone'
  BY <1>1, <1>2, <1>3 DEF IInv, ArrivalIsAlone
<1>. QED BY <1>3, <1>4, <1>5 DEF IInv, LimitsAreSingle

\* A reversal takes the arrival away and leaves every verdict alone.
LEMMA ReversalKeepsVerdicts ==
  ASSUME TypeOK, NEW c \in Code, ReverseCheckIn(c), NEW e \in Event
  PROVE  /\ scanEvent'[e] = NULL <=> scanEvent[e] = NULL
         /\ scanEvent[e] # NULL => /\ scanEvent'[e].code = scanEvent[e].code
                                   /\ scanEvent'[e].outcome = scanEvent[e].outcome
<1>1. \/ scanEvent'[e] = scanEvent[e]
      \/ scanEvent[e] # NULL /\ scanEvent'[e] = [scanEvent[e] EXCEPT !.duplicateOf = NULL]
  BY DEF ReverseCheckIn, Recorded
<1>2. scanEvent[e] # NULL => scanEvent[e] \in EventRow
  BY DEF TypeOK
<1>3. scanEvent[e] # NULL =>
        /\ [scanEvent[e] EXCEPT !.duplicateOf = NULL] \in EventRow
        /\ [scanEvent[e] EXCEPT !.duplicateOf = NULL].code = scanEvent[e].code
        /\ [scanEvent[e] EXCEPT !.duplicateOf = NULL].outcome = scanEvent[e].outcome
  BY <1>2 DEF EventRow
<1>. QED BY <1>1, <1>3, NullIsNoRow

\* The desk: a manual check-in is an arrival with its own attempt, and a reversal
\* leaves every verdict alone.
LEMMA DeskStep ==
  ASSUME IInv, NEW d \in Code, Desk(d)
  PROVE  ArrivalHasAttempt' /\ LimitsAreSingle' /\ ArrivalIsAlone'
<1>1. CASE IssuePass(d) \/ Revoke(d) \/ Restore(d) \/ UndoRegistrationReview(d)
           \/ (\E s \in {"APPROVED", "REVISION_REQUESTED", "REJECTED"} : Review(d, s))
           \/ (\E n \in 0..MaxLimit : AdjustPassQrLife(d, n))
  <2>1. UNCHANGED <<checkIn, scanEvent, reversed>>
    BY <1>1 DEF IssuePass, Revoke, Restore, Review, UndoRegistrationReview, AdjustPassQrLife
  <2>2. /\ \A c \in Code \ {d} : pass'[c] = pass[c]
        /\ d \notin MultiUse => (pass'[d] # NULL => pass'[d].scanLimit <= 1)
    <3>1. CASE IssuePass(d)
      BY <3>1 DEF IssuePass, IInv, TypeOK
    <3>2. CASE Revoke(d) \/ Restore(d) \/ UndoRegistrationReview(d)
           \/ (\E s \in {"APPROVED", "REVISION_REQUESTED", "REJECTED"} : Review(d, s))
      <4>1. pass[d] \in PassRow
        BY <3>2 DEF Revoke, Restore, Review, UndoRegistrationReview, IInv, TypeOK
      <4>2. pass'[d].scanLimit = pass[d].scanLimit /\ \A c \in Code \ {d} : pass'[c] = pass[c]
        BY <3>2, <4>1 DEF Revoke, Restore, Review, UndoRegistrationReview, IInv, TypeOK, PassRow
      <4>. QED BY <3>2, <4>2 DEF IInv, LimitsAreSingle, Revoke, Restore, Review,
                                       UndoRegistrationReview
    <3>3. ASSUME NEW n \in 0..MaxLimit, AdjustPassQrLife(d, n)
          PROVE  /\ \A c \in Code \ {d} : pass'[c] = pass[c]
                 /\ d \notin MultiUse => (pass'[d] # NULL => pass'[d].scanLimit <= 1)
      <4>1. pass[d] \in PassRow
        BY <3>3 DEF AdjustPassQrLife, IInv, TypeOK
      <4>2. pass'[d].scanLimit = n /\ \A c \in Code \ {d} : pass'[c] = pass[c]
        BY <3>3, <4>1 DEF AdjustPassQrLife, IInv, TypeOK, PassRow
      <4>3. n \in Nat
        BY BoundsAreNatural
      <4>. QED BY <3>3, <4>2, <4>3 DEF AdjustPassQrLife
    <3>. QED BY <1>1, <3>1, <3>2, <3>3
  <2>3. LimitsAreSingle'
    BY <2>2 DEF IInv, LimitsAreSingle
  <2>. QED BY <2>1, <2>3 DEF IInv, ArrivalHasAttempt, ArrivalIsAlone, AdmittedEvents
<1>2. CASE \E g \in 0..MaxGuests : RecordManualCheckIn(d, g)
  <2>1. PICK g \in 0..MaxGuests : RecordManualCheckIn(d, g)
    BY <1>2
  <2>. QED BY <2>1, ManualLetsIn, LetsInStep
<1>3. CASE ReverseCheckIn(d)
  <2>1. \A e \in Event : /\ scanEvent'[e] = NULL <=> scanEvent[e] = NULL
                         /\ scanEvent[e] # NULL => /\ scanEvent'[e].code = scanEvent[e].code
                                                   /\ scanEvent'[e].outcome = scanEvent[e].outcome
    BY <1>3, ReversalKeepsVerdicts DEF IInv
  <2>2. \A c \in Code : AdmittedEvents(c)' = AdmittedEvents(c)
    BY <2>1 DEF AdmittedEvents
  <2>3. /\ pass' = pass /\ reversed' = reversed \cup {d} /\ checkIn' = [checkIn EXCEPT ![d] = NULL]
    BY <1>3 DEF ReverseCheckIn
  <2>4. \A c \in Code : checkIn'[c] = IF c = d THEN NULL ELSE checkIn[c]
    BY <2>3 DEF IInv, TypeOK
  <2>5. ArrivalHasAttempt'
    BY <2>2, <2>4 DEF IInv, ArrivalHasAttempt
  <2>6. ArrivalIsAlone'
    BY <2>2, <2>3, <2>4 DEF IInv, ArrivalIsAlone
  <2>. QED BY <2>3, <2>5, <2>6 DEF IInv, LimitsAreSingle
<1>. QED BY <1>1, <1>2, <1>3 DEF Desk

\* Everything else leaves the passes, the check-ins and the attempts alone.
LEMMA QuietStep ==
  ASSUME IInv, UNCHANGED <<pass, checkIn, scanEvent, reversed>>
  PROVE  ArrivalHasAttempt' /\ LimitsAreSingle' /\ ArrivalIsAlone'
BY DEF IInv, ArrivalHasAttempt, LimitsAreSingle, ArrivalIsAlone, AdmittedEvents

LEMMA StepKinds ==
  ASSUME Next
  PROVE  \/ \E r \in Request : Refuse(r) \/ Concede(r) \/ Admit(r)
         \/ \E c \in Code : Desk(c)
         \/ UNCHANGED <<pass, checkIn, scanEvent, reversed>>
<1>1. ASSUME NEW r \in Request, Serve(r) \/ Crash(r), ~(Refuse(r) \/ Concede(r) \/ Admit(r))
      PROVE  UNCHANGED <<pass, checkIn, scanEvent, reversed>>
  BY <1>1 DEF Serve, Resolve, Replay, FindNothing, Read, Collide, FindWinner, Violate, Finish,
              Crash, tables
<1>2. ASSUME Phones \/ \E d \in Device : SetBlocked(d)
      PROVE  UNCHANGED <<pass, checkIn, scanEvent, reversed>>
  BY <1>2 DEF Phones, Take, AmendGuests, Post, Collect, SetBlocked, tables
<1>. QED BY <1>1, <1>2 DEF Next

LEMMA InvInit == Init => IInv
BY TypeInit DEF Init, IInv, ArrivalHasAttempt, LimitsAreSingle, SnapshotsAreSound,
                ArrivalIsAlone, AdmittedEvents

LEMMA InvStep == IInv /\ [Next]_vars => IInv'
<1>. SUFFICES ASSUME IInv, [Next]_vars PROVE IInv'
  OBVIOUS
<1>1. TypeOK'
  BY TypeStep DEF IInv
<1>2. CASE Next
  <2>1. ArrivalHasAttempt' /\ LimitsAreSingle' /\ ArrivalIsAlone'
    BY <1>2, StepKinds, RefusalStep, AdmitLetsIn, LetsInStep, DeskStep, QuietStep
  <2>. QED BY <1>1, <1>2, <2>1, SnapshotStep DEF IInv
<1>3. CASE UNCHANGED vars
  <2>1. ArrivalHasAttempt' /\ LimitsAreSingle' /\ ArrivalIsAlone'
    BY <1>3, QuietStep DEF vars, tables
  <2>2. SnapshotsAreSound'
    BY <1>3 DEF IInv, SnapshotsAreSound, vars
  <2>. QED BY <1>1, <2>1, <2>2 DEF IInv
<1>. QED BY <1>2, <1>3

\* The inductive invariant holds in every reachable state.
THEOREM Invariant == Spec => []IInv
BY InvInit, InvStep, PTL DEF Spec

\* Every check-in names an attempt on record that was ADMITTED on the same pass,
\* through every race, crash and reversal (processEvent steps 6 and 7).
THEOREM ArrivalsHaveAttempts == Spec => []ArrivalHasAttempt
<1>1. IInv => ArrivalHasAttempt
  BY DEF IInv
<1>. QED BY <1>1, Invariant, PTL

\* A single-use pass whose check-in is not reversed has at most one ADMITTED
\* attempt, for any number of phones, requests, retries and overlaps.
THEOREM SingleUse == Spec => []SingleUseAdmitsOnce
<1>1. IInv => SingleUseAdmitsOnce
  BY DEF IInv, ArrivalIsAlone, SingleUseAdmitsOnce
<1>. QED BY <1>1, Invariant, PTL

-----------------------------------------------------------------------------
(* Verdicts are final and answers are on record.                            *)

\* A row of ScanEvent keeps its pass and its outcome for good.
LEMMA RecordIsFinal ==
  ASSUME TypeOK, [Next]_vars, NEW e \in Event, Recorded(e)
  PROVE  /\ Recorded(e)'
         /\ scanEvent'[e].code = scanEvent[e].code
         /\ scanEvent'[e].outcome = scanEvent[e].outcome
<1>. USE DEF Recorded
<1>1. CASE \E f \in Event : \E row : ~Recorded(f) /\ scanEvent' = [scanEvent EXCEPT ![f] = row]
  BY <1>1 DEF TypeOK
<1>2. CASE UNCHANGED scanEvent
  BY <1>2
<1>3. ASSUME NEW r \in Request, Refuse(r) \/ Concede(r) \/ Admit(r)
      PROVE  \E f \in Event : \E row : ~Recorded(f) /\ scanEvent' = [scanEvent EXCEPT ![f] = row]
  <2>1. req[r] \in BusyRequest /\ RequestOK(req[r])
    BY <1>3, ActiveRequest DEF Refuse, Concede, Admit
  <2>2. Oldest(req[r].todo) \in Event
    BY <1>3, <2>1, CurrentEvent DEF Refuse, Concede, Admit, RequestOK
  <2>3. CASE Refuse(r)
    BY <2>2, <2>3 DEF Refuse
  <2>4. CASE Concede(r)
    BY <2>2, <2>4 DEF Concede
  <2>5. CASE Admit(r)
    BY <2>2, <2>5 DEF Admit
  <2>. QED BY <1>3, <2>3, <2>4, <2>5
<1>4. ASSUME NEW c \in Code, NEW g \in 0..MaxGuests, RecordManualCheckIn(c, g)
      PROVE  \E f \in Event : \E row : ~Recorded(f) /\ scanEvent' = [scanEvent EXCEPT ![f] = row]
  BY <1>4, UnusedEvent DEF RecordManualCheckIn
<1>5. ASSUME NEW c \in Code, ReverseCheckIn(c)
      PROVE  /\ Recorded(e)'
             /\ scanEvent'[e].code = scanEvent[e].code
             /\ scanEvent'[e].outcome = scanEvent[e].outcome
  <2>1. scanEvent[e] \in EventRow
    BY DEF TypeOK
  <2>2. scanEvent'[e] \in {scanEvent[e], [scanEvent[e] EXCEPT !.duplicateOf = NULL]}
    BY <1>5 DEF ReverseCheckIn
  <2>3. [scanEvent[e] EXCEPT !.duplicateOf = NULL] \in EventRow
    BY <2>1 DEF EventRow
  <2>. QED BY <2>1, <2>2, <2>3, NullIsNoRow DEF EventRow
<1>6. ASSUME NEW c \in Code, Desk(c), ~(\E g \in 0..MaxGuests : RecordManualCheckIn(c, g)),
             ~ReverseCheckIn(c)
      PROVE  UNCHANGED scanEvent
  BY <1>6 DEF Desk, IssuePass, Revoke, Restore, Review, UndoRegistrationReview, AdjustPassQrLife
<1>. QED BY <1>1, <1>2, <1>3, <1>4, <1>5, <1>6, StepKinds DEF vars, tables

\* What one request has answered is on record in a table of scan events.
AgreesWith(q, table) ==
  \A e \in Event : q.results[e] # NULL =>
    table[e] # NULL /\ table[e].outcome = q.results[e].outcome

LEMMA AnswersStep == TypeOK /\ AnswersAreOnRecord /\ [Next]_vars => AnswersAreOnRecord'
<1>. SUFFICES ASSUME TypeOK, AnswersAreOnRecord, [Next]_vars PROVE AnswersAreOnRecord'
  OBVIOUS
<1>. USE DEF Recorded
<1>1. ASSUME NEW q, AgreesWith(q, scanEvent) PROVE AgreesWith(q, scanEvent')
  BY <1>1, RecordIsFinal DEF AgreesWith
<1>2. ASSUME NEW r \in Request, NEW p, AgreesWith(p, scanEvent'), req' = [req EXCEPT ![r] = p]
      PROVE  AnswersAreOnRecord'
  <2>1. \A s \in Request \ {r} : req[s] # Idle => AgreesWith(req[s], scanEvent')
    BY <1>1 DEF AnswersAreOnRecord, AgreesWith
  <2>2. req'[r] = p /\ \A s \in Request \ {r} : req'[s] = req[s]
    BY <1>2 DEF TypeOK
  <2>. QED BY <1>2, <2>1, <2>2 DEF AnswersAreOnRecord, AgreesWith
<1>3. ASSUME NEW p, p.results = [e \in Event |-> NULL] PROVE AgreesWith(p, scanEvent')
  BY <1>3 DEF AgreesWith
<1>4. ASSUME NEW r \in Request, Serve(r) \/ Crash(r) PROVE AnswersAreOnRecord'
  <2>. DEFINE q == req[r]
              e == Oldest(q.todo)
  <2>1. q \in BusyRequest /\ RequestOK(q) /\ AgreesWith(q, scanEvent)
    <3>1. q.pc # "idle"
      BY <1>4 DEF Serve, Resolve, Replay, FindNothing, Read, Refuse, Admit, Collide,
                  FindWinner, Concede, Violate, Finish, Crash
    <3>. QED BY <3>1, ActiveRequest DEF AnswersAreOnRecord, AgreesWith, Idle
  <2>2. \A how : AgreesWith(Ended(q, how), scanEvent')
    BY <2>1, <1>3 DEF Ended, BusyRequest
  <2>3. ASSUME NEW f \in Event, NEW outcome, NEW agreed, NEW dup, NEW fresh,
               scanEvent'[f] # NULL, scanEvent'[f].outcome = outcome,
               req' = [req EXCEPT ![r] = Answered(q, f, outcome, agreed, dup, fresh)]
        PROVE  AnswersAreOnRecord'
    <3>. DEFINE p == Answered(q, f, outcome, agreed, dup, fresh)
    <3>1. /\ p.results[f].outcome = outcome
          /\ \A g \in Event \ {f} : p.results[g] = q.results[g]
      BY <2>1, <2>3 DEF Answered, BusyRequest
    <3>2. AgreesWith(q, scanEvent')
      BY <1>1, <2>1
    <3>. HIDE DEF p, q
    <3>3. AgreesWith(p, scanEvent')
      <4>1. \A g \in Event \ {f} : p.results[g] # NULL =>
              scanEvent'[g] # NULL /\ scanEvent'[g].outcome = p.results[g].outcome
        BY <3>1, <3>2 DEF AgreesWith
      <4>2. scanEvent'[f] # NULL /\ scanEvent'[f].outcome = p.results[f].outcome
        BY <2>3, <3>1
      <4>. QED BY <4>1, <4>2 DEF AgreesWith
    <3>. QED BY <1>2, <2>3, <3>3 DEF p
  <2>4. ASSUME NEW p, p.results = q.results PROVE AgreesWith(p, scanEvent')
    BY <1>1, <2>1, <2>4 DEF AgreesWith
  <2>5. CASE Resolve(r)
    <3>1. [q EXCEPT !.pc = "find"].results = q.results
      BY <2>1 DEF BusyRequest
    <3>. QED BY <1>2, <2>2, <2>4, <2>5, <3>1 DEF Resolve
  <2>6. CASE FindNothing(r)
    <3>1. [q EXCEPT !.pc = "read"].results = q.results
      BY <2>1 DEF BusyRequest
    <3>. QED BY <1>2, <2>4, <2>6, <3>1 DEF FindNothing
  <2>7. CASE Collide(r) \/ Finish(r)
    <3>1. \A pc : [q EXCEPT !.pc = pc].results = q.results
      BY <2>1 DEF BusyRequest
    <3>. QED BY <1>2, <2>4, <2>7, <3>1 DEF Collide, Finish
  <2>8. CASE Read(r)
    <3>1. \A live : [q EXCEPT !.pc = "write", !.live = live].results = q.results
      BY <2>1 DEF BusyRequest
    <3>2. \E live : req' = [req EXCEPT ![r] = [q EXCEPT !.pc = "write", !.live = live]]
      BY <2>8 DEF Read
    <3>. QED BY <1>2, <2>4, <3>1, <3>2
  <2>9. CASE FindWinner(r)
    <3>1. \A w : [q EXCEPT !.pc = "concede", !.winner = w].results = q.results
      BY <2>1 DEF BusyRequest
    <3>2. \E w : req' = [req EXCEPT ![r] = [q EXCEPT !.pc = "concede", !.winner = w]]
      BY <2>9 DEF FindWinner
    <3>. QED BY <1>2, <2>4, <3>1, <3>2
  <2>10. CASE Violate(r) \/ Crash(r)
    BY <1>2, <2>2, <2>10 DEF Violate, Crash
  <2>11. CASE Replay(r)
    <3>1. e \in Event
      BY <2>1, <2>11, CurrentEvent DEF Replay
    <3>2. PICK f \in Event : f = e
      BY <3>1
    <3>3. scanEvent[f] # NULL /\ scanEvent' = scanEvent
      BY <2>11, <3>2 DEF Replay, tables
    <3>4. PICK outcome, dup : outcome = scanEvent[f].outcome /\ dup = scanEvent[f].duplicateOf
      OBVIOUS
    <3>5. \E agreed : req' = [req EXCEPT ![r] = Answered(q, f, outcome, agreed, dup, FALSE)]
      BY <2>11, <3>2, <3>4 DEF Replay
    <3>. HIDE DEF q, e
    <3>6. scanEvent'[f] # NULL /\ scanEvent'[f].outcome = outcome
      BY <3>3, <3>4
    <3>. QED BY <2>3, <3>5, <3>6
  <2>12. CASE Refuse(r) \/ Admit(r) \/ Concede(r)
    <3>1. PICK f \in Event, row \in EventRow : \E agreed, dup :
            /\ ~Recorded(f) /\ f \in req[r].todo
            /\ Refuse(r) \/ Concede(r) => row.outcome # "ADMITTED"
            /\ scanEvent' = [scanEvent EXCEPT ![f] = row]
            /\ req' = [req EXCEPT ![r] = Answered(req[r], f, row.outcome, agreed, dup, TRUE)]
      <4>. HIDE DEF Recorded
      <4>. QED BY <2>12, WritesAnAttempt
    <3>2. scanEvent'[f] = row /\ row # NULL
      BY <3>1, NullIsNoRow DEF TypeOK
    <3>3. \E agreed, dup :
            req' = [req EXCEPT ![r] = Answered(q, f, row.outcome, agreed, dup, TRUE)]
      BY <3>1
    <3>. HIDE DEF q, e
    <3>. QED BY <2>3, <3>2, <3>3
  <2>. QED BY <1>4, <2>5, <2>6, <2>7, <2>8, <2>9, <2>10, <2>11, <2>12 DEF Serve
<1>5. ASSUME NEW r \in Request, NEW d \in Device, NEW S \in SUBSET Event, NEW gen \in Time,
             Post(r, d, S, gen)
      PROVE  AnswersAreOnRecord'
  <2>1. \A body : NewRequest(d, body, gen).results = [e \in Event |-> NULL]
    BY DEF NewRequest
  <2>. QED BY <1>2, <1>3, <1>5, <2>1 DEF Post
<1>6. ASSUME NEW r \in Request, Collect(r) PROVE AnswersAreOnRecord'
  <2>1. \A s \in Request : req'[s] # Idle => req'[s] = req[s]
    BY <1>6 DEF Collect, TypeOK
  <2>2. \A s \in Request : req[s] # Idle => AgreesWith(req[s], scanEvent')
    BY <1>1 DEF AnswersAreOnRecord, AgreesWith
  <2>. QED BY <2>1, <2>2 DEF AnswersAreOnRecord, AgreesWith
<1>7. ASSUME UNCHANGED req PROVE AnswersAreOnRecord'
  <2>1. \A s \in Request : req[s] # Idle => AgreesWith(req[s], scanEvent')
    BY <1>1 DEF AnswersAreOnRecord, AgreesWith
  <2>. QED BY <1>7, <2>1 DEF AnswersAreOnRecord, AgreesWith
<1>8. ASSUME NEW c \in Code, Desk(c) PROVE UNCHANGED req
  BY <1>8 DEF Desk, IssuePass, Revoke, Restore, Review, UndoRegistrationReview,
              AdjustPassQrLife, RecordManualCheckIn, ReverseCheckIn
<1>. QED BY <1>4, <1>5, <1>6, <1>7, <1>8
         DEF Next, Phones, Take, AmendGuests, SetBlocked, vars

\* A phone that deletes its copy of a scan on the strength of an answer deletes
\* nothing the server does not hold with that very outcome.
THEOREM Answers == Spec => []AnswersAreOnRecord
<1>1. Init => AnswersAreOnRecord
  BY DEF Init, AnswersAreOnRecord
<1>. QED BY <1>1, AnswersStep, TypeCorrect, PTL DEF Spec

-----------------------------------------------------------------------------
(* Counting scans.                                                          *)

\* The scans of a device that are on record, and the requests that still have
\* their results to count.
RecordedBy(d) == {e \in Event : Recorded(e) /\ scan[e] # NULL /\ scan[e].dev = d}
Counting(r) == req[r].pc \notin {"idle", "ok", "conflict", "error"}

\* A request brings scans of its own device.
BodiesAreScans ==
  \A r \in Request : req[r] # Idle =>
    \A e \in DOMAIN req[r].body : scan[e] # NULL /\ scan[e].dev = req[r].dev

\* The counter of a device stands for a set of scans on record, none of which is fresh
\* in a request that has not counted yet; and no scan is fresh in two of those.
CountedScans ==
  \E counted \in [Device -> SUBSET Event] :
    /\ \A d \in Device : counted[d] \subseteq RecordedBy(d) /\ scanCount[d] = Cardinality(counted[d])
    /\ \A r \in Request : Counting(r) => FreshResults(req[r]) \cap counted[req[r].dev] = {}
FreshOnce ==
  \A r, s \in Request : (r # s /\ Counting(r) /\ Counting(s)) =>
    FreshResults(req[r]) \cap FreshResults(req[s]) = {}

CountInv == BodiesAreScans /\ CountedScans /\ FreshOnce

LEMMA CountsAdd ==
  ASSUME NEW S \in SUBSET Event, NEW T \in SUBSET Event, S \cap T = {}
  PROVE  Cardinality(S \cup T) = Cardinality(S) + Cardinality(T)
<1>1. IsFiniteSet(S) /\ IsFiniteSet(T) /\ Cardinality(S) \in Nat /\ Cardinality(T) \in Nat
  BY EventCounts
<1>2. Cardinality(S \cup T) = Cardinality(S) + Cardinality(T) - Cardinality(S \cap T)
  BY <1>1, FS_Union
<1>3. Cardinality(S \cap T) = 0
  BY FS_EmptySet
<1>. QED BY <1>1, <1>2, <1>3

LEMMA BodyEvents ==
  ASSUME NEW q \in BusyRequest
  PROVE  DOMAIN q.body \subseteq Event
<1>1. PICK S \in SUBSET Event : q.body \in [S -> Claim]
  BY DEF BusyRequest, Bodies
<1>. QED BY <1>1

LEMMA FreshAreEvents ==
  ASSUME NEW q \in BusyRequest
  PROVE  FreshResults(q) \subseteq Event /\ FreshResults(q) \subseteq DOMAIN q.body
BY BodyEvents DEF FreshResults

\* A step after which no request that is still counting has more fresh results than
\* before, or a new one has none.
LEMMA CountingStays ==
  ASSUME CountInv, scanCount' = scanCount,
         \A e \in Event : /\ Recorded(e) => Recorded(e)'
                          /\ scan[e] # NULL => scan'[e] # NULL /\ scan'[e].dev = scan[e].dev,
         \A r \in Request : req'[r] # Idle => DOMAIN req'[r].body \subseteq Event,
         \A r \in Request : req'[r] # Idle =>
           \/ /\ req[r] # Idle /\ req'[r].dev = req[r].dev /\ req'[r].body = req[r].body
              /\ Counting(r)' => Counting(r) /\ FreshResults(req'[r]) \subseteq FreshResults(req[r])
           \/ /\ \A e \in DOMAIN req'[r].body : scan[e] # NULL /\ scan[e].dev = req'[r].dev
              /\ FreshResults(req'[r]) = {}
  PROVE  CountInv'
<1>1. BodiesAreScans'
  BY DEF CountInv, BodiesAreScans
<1>2. \A d : RecordedBy(d) \subseteq RecordedBy(d)'
  BY DEF RecordedBy
<1>3. \A r \in Request : Counting(r)' => req'[r] # Idle
  BY DEF Counting, Idle
<1>4. CountedScans'
  <2>1. PICK counted \in [Device -> SUBSET Event] :
          /\ \A d \in Device : counted[d] \subseteq RecordedBy(d) /\ scanCount[d] = Cardinality(counted[d])
          /\ \A r \in Request : Counting(r) => FreshResults(req[r]) \cap counted[req[r].dev] = {}
    BY DEF CountInv, CountedScans
  <2>2. \A d \in Device : counted[d] \subseteq RecordedBy(d)' /\ scanCount'[d] = Cardinality(counted[d])
    BY <2>1, <1>2
  <2>3. \A r \in Request : Counting(r)' => FreshResults(req'[r]) \cap counted[req'[r].dev] = {}
    BY <2>1, <1>3
  <2>. QED BY <2>2, <2>3 DEF CountedScans
<1>5. FreshOnce'
  BY <1>3 DEF CountInv, FreshOnce
<1>. QED BY <1>1, <1>4, <1>5 DEF CountInv

\* A scan that gets its row now is fresh in one request, for the first time.
LEMMA FreshScan ==
  ASSUME TypeOK, AnswersAreOnRecord, CountInv, [Next]_vars, NEW r \in Request,
         Refuse(r) \/ Admit(r) \/ Concede(r)
  PROVE  CountInv'
<1>1. PICK f \in Event, row \in EventRow : \E agreed, dup :
        /\ ~Recorded(f) /\ f \in req[r].todo
        /\ Refuse(r) \/ Concede(r) => row.outcome # "ADMITTED"
        /\ scanEvent' = [scanEvent EXCEPT ![f] = row]
        /\ req' = [req EXCEPT ![r] = Answered(req[r], f, row.outcome, agreed, dup, TRUE)]
  BY WritesAnAttempt
<1>2. PICK agreed, dup :
        req' = [req EXCEPT ![r] = Answered(req[r], f, row.outcome, agreed, dup, TRUE)]
  BY <1>1
<1>. DEFINE q == req[r]
            p == Answered(q, f, row.outcome, agreed, dup, TRUE)
<1>3. /\ q \in BusyRequest /\ RequestOK(q) /\ q # Idle /\ Counting(r)
  <2>1. q.pc \in {"write", "concede"}
    BY DEF Refuse, Admit, Concede
  <2>2. q.pc # "idle" /\ q # Idle /\ Counting(r)
    BY <2>1 DEF Counting, Idle
  <2>. QED BY <2>2, ActiveRequest
<1>4. /\ p.dev = q.dev /\ p.body = q.body
      /\ \A g \in Event \ {f} : p.results[g] = q.results[g]
  BY <1>3 DEF Answered, BusyRequest
<1>5. FreshResults(q) \subseteq Event /\ DOMAIN q.body \subseteq Event
  BY <1>3, BodyEvents, FreshAreEvents
<1>6. req'[r] = p /\ \A s \in Request \ {r} : req'[s] = req[s]
  BY <1>2 DEF TypeOK
<1>. HIDE DEF p
<1>7. FreshResults(p) \subseteq FreshResults(q) \cup {f}
  BY <1>4, <1>5 DEF FreshResults
<1>8. UNCHANGED <<scan, scanCount>> /\ Recorded(f)'
  <2>1. row # NULL
    BY NullIsNoRow
  <2>. QED BY <1>1, <2>1 DEF Refuse, Admit, Concede, Recorded, TypeOK
<1>9. f \in DOMAIN q.body /\ scan[f] # NULL /\ scan[f].dev = q.dev
  BY <1>1, <1>3 DEF RequestOK, CountInv, BodiesAreScans
<1>10. \A d \in Device : RecordedBy(d) \subseteq RecordedBy(d)' /\ f \notin RecordedBy(d)
  BY <1>1, <1>8, RecordIsFinal DEF RecordedBy
<1>11. BodiesAreScans'
  BY <1>3, <1>4, <1>6, <1>8 DEF CountInv, BodiesAreScans
<1>12. \A s \in Request : /\ s # r => (Counting(s)' <=> Counting(s))
                          /\ s # r /\ Counting(s) => f \notin FreshResults(req[s])
  <2>. SUFFICES ASSUME NEW s \in Request, s # r
                PROVE  /\ Counting(s)' <=> Counting(s)
                       /\ Counting(s) => f \notin FreshResults(req[s])
    OBVIOUS
  <2>1. Counting(s) => req[s] # Idle
    BY DEF Counting, Idle
  <2>2. Counting(s) => f \notin FreshResults(req[s])
    BY <2>1, <1>1 DEF FreshResults, AnswersAreOnRecord
  <2>. QED BY <2>2, <1>6 DEF Counting
<1>13. CountedScans'
  <2>1. PICK counted \in [Device -> SUBSET Event] :
          /\ \A d \in Device : counted[d] \subseteq RecordedBy(d) /\ scanCount[d] = Cardinality(counted[d])
          /\ \A s \in Request : Counting(s) => FreshResults(req[s]) \cap counted[req[s].dev] = {}
    BY DEF CountInv, CountedScans
  <2>2. \A d \in Device : counted[d] \subseteq RecordedBy(d)' /\ scanCount'[d] = Cardinality(counted[d])
    BY <2>1, <1>8, <1>10
  <2>3. q.dev \in Device
    BY <1>3 DEF BusyRequest
  <2>4. FreshResults(p) \cap counted[p.dev] = {}
    <3>1. f \notin counted[q.dev]
      BY <2>1, <2>3, <1>10
    <3>2. FreshResults(q) \cap counted[q.dev] = {}
      BY <2>1, <1>3
    <3>. QED BY <3>1, <3>2, <1>4, <1>7
  <2>5. \A s \in Request : Counting(s)' => FreshResults(req'[s]) \cap counted[req'[s].dev] = {}
    BY <2>1, <2>4, <1>6, <1>12
  <2>. QED BY <2>2, <2>5 DEF CountedScans
<1>14. FreshOnce'
  <2>. SUFFICES ASSUME NEW s \in Request, s # r, Counting(s)'
                PROVE  FreshResults(req'[r]) \cap FreshResults(req'[s]) = {}
    <3>1. \A s, t \in Request : (s # t /\ s # r /\ t # r /\ Counting(s)' /\ Counting(t)') =>
            FreshResults(req'[s]) \cap FreshResults(req'[t]) = {}
      BY <1>6, <1>12 DEF CountInv, FreshOnce
    <3>. QED BY <3>1 DEF FreshOnce
  <2>1. Counting(s) /\ f \notin FreshResults(req[s]) /\ req'[s] = req[s]
    BY <1>6, <1>12
  <2>2. FreshResults(q) \cap FreshResults(req[s]) = {}
    BY <2>1, <1>3 DEF CountInv, FreshOnce
  <2>. QED BY <2>1, <2>2, <1>6, <1>7
<1>. QED BY <1>11, <1>13, <1>14 DEF CountInv

\* The fresh results of a request join the scans its device has counted.
LEMMA FinishCounts ==
  ASSUME TypeOK, AnswersAreOnRecord, CountInv, NEW r \in Request, Finish(r)
  PROVE  CountInv'
<1>. DEFINE q == req[r]
            fresh == FreshResults(q)
<1>1. /\ q \in BusyRequest /\ q # Idle /\ Counting(r) /\ q.dev \in Device
  BY ActiveRequest DEF Finish, Counting, Idle, BusyRequest
<1>2. /\ scanCount' = [scanCount EXCEPT ![q.dev] = @ + Cardinality(fresh)]
      /\ req' = [req EXCEPT ![r].pc = "ok"]
      /\ UNCHANGED <<scan, scanEvent>>
  BY DEF Finish, tables
<1>3. /\ req'[r].dev = q.dev /\ req'[r].body = q.body /\ req'[r].pc = "ok"
      /\ \A s \in Request \ {r} : req'[s] = req[s]
  BY <1>1, <1>2 DEF TypeOK, BusyRequest
<1>4. ~Counting(r)' /\ \A s \in Request \ {r} : Counting(s)' <=> Counting(s)
  BY <1>3 DEF Counting
<1>5. fresh \subseteq RecordedBy(q.dev) /\ fresh \in SUBSET Event
  <2>1. fresh \subseteq Event /\ fresh \subseteq DOMAIN q.body
    BY <1>1, FreshAreEvents
  <2>2. \A e \in fresh : scan[e] # NULL /\ scan[e].dev = q.dev
    BY <2>1, <1>1 DEF CountInv, BodiesAreScans
  <2>3. \A e \in fresh : Recorded(e)
    BY <2>1, <1>1 DEF FreshResults, AnswersAreOnRecord
  <2>. QED BY <2>1, <2>2, <2>3 DEF RecordedBy
<1>6. BodiesAreScans'
  BY <1>1, <1>2, <1>3 DEF CountInv, BodiesAreScans
<1>7. FreshOnce'
  BY <1>3, <1>4 DEF CountInv, FreshOnce
<1>8. \A d \in Device : RecordedBy(d)' = RecordedBy(d)
  BY <1>2 DEF RecordedBy, Recorded
<1>9. CountedScans'
  <2>1. PICK counted \in [Device -> SUBSET Event] :
          /\ \A d \in Device : counted[d] \subseteq RecordedBy(d) /\ scanCount[d] = Cardinality(counted[d])
          /\ \A s \in Request : Counting(s) => FreshResults(req[s]) \cap counted[req[s].dev] = {}
    BY DEF CountInv, CountedScans
  <2>. DEFINE more == [counted EXCEPT ![q.dev] = counted[q.dev] \cup fresh]
  <2>2. /\ more \in [Device -> SUBSET Event] /\ more[q.dev] = counted[q.dev] \cup fresh
        /\ \A d \in Device \ {q.dev} : more[d] = counted[d]
    BY <1>1, <1>5
  <2>3. scanCount'[q.dev] = Cardinality(more[q.dev])
    <3>2. fresh \cap counted[q.dev] = {}
      BY <2>1, <1>1
    <3>3. Cardinality(counted[q.dev] \cup fresh) = Cardinality(counted[q.dev]) + Cardinality(fresh)
      BY <3>2, <1>1, <1>5, CountsAdd
    <3>4. scanCount'[q.dev] = scanCount[q.dev] + Cardinality(fresh)
      BY <1>1, <1>2 DEF TypeOK
    <3>. QED BY <2>1, <2>2, <3>3, <3>4, <1>1
  <2>4. \A d \in Device : more[d] \subseteq RecordedBy(d)' /\ scanCount'[d] = Cardinality(more[d])
    <3>1. \A d \in Device \ {q.dev} : scanCount'[d] = scanCount[d]
      BY <1>2 DEF TypeOK
    <3>. QED BY <2>1, <2>2, <2>3, <3>1, <1>5, <1>8
  <2>5. \A s \in Request : Counting(s)' => FreshResults(req'[s]) \cap more[req'[s].dev] = {}
    <3>. SUFFICES ASSUME NEW s \in Request, Counting(s)'
                  PROVE  FreshResults(req'[s]) \cap more[req'[s].dev] = {}
      OBVIOUS
    <3>1. s # r /\ Counting(s) /\ req'[s] = req[s]
      BY <1>3, <1>4
    <3>2. /\ FreshResults(req[s]) \cap counted[req[s].dev] = {}
          /\ FreshResults(req[s]) \cap fresh = {}
      BY <2>1, <3>1, <1>1 DEF CountInv, FreshOnce
    <3>3. req[s].dev \in Device
      BY <3>1, ActiveRequest DEF Counting, BusyRequest
    <3>. QED BY <2>2, <3>1, <3>2, <3>3
  <2>. QED BY <2>2, <2>4, <2>5 DEF CountedScans
<1>. QED BY <1>6, <1>7, <1>9 DEF CountInv

\* The other steps of a request add nothing to its fresh results: a replay is not fresh,
\* and a request that ends without an answer has none.
LEMMA OldNews ==
  ASSUME TypeOK, CountInv, [Next]_vars, NEW r \in Request,
         \/ Resolve(r) \/ Replay(r) \/ FindNothing(r) \/ Read(r) \/ Collide(r)
         \/ FindWinner(r) \/ Violate(r) \/ Crash(r)
  PROVE  CountInv'
<1>. DEFINE q == req[r]
<1>1. UNCHANGED <<scan, scanEvent, scanCount>> /\ Counting(r)
  BY DEF Resolve, Replay, FindNothing, Read, Collide, FindWinner, Violate, Crash, tables, Counting
<1>2. q \in BusyRequest /\ RequestOK(q) /\ q # Idle
  <2>1. q.pc # "idle"
    BY <1>1 DEF Counting
  <2>2. q # Idle
    BY <2>1 DEF Idle
  <2>. QED BY <2>1, <2>2, ActiveRequest
<1>3. SUFFICES \E p : /\ req' = [req EXCEPT ![r] = p] /\ p.dev = q.dev /\ p.body = q.body
                      /\ FreshResults(p) \subseteq FreshResults(q)
  <2>1. req'[r].dev = q.dev /\ req'[r].body = q.body /\ FreshResults(req'[r]) \subseteq FreshResults(q)
    BY <1>3 DEF TypeOK
  <2>2. \A s \in Request \ {r} : req'[s] = req[s]
    BY <1>3 DEF TypeOK
  <2>3. \A s \in Request : req'[s] # Idle => DOMAIN req'[s].body \subseteq Event
    BY TypeStep, BodyEvents DEF TypeOK
  <2>4. \A s \in Request : req'[s] # Idle =>
          /\ req[s] # Idle /\ req'[s].dev = req[s].dev /\ req'[s].body = req[s].body
          /\ Counting(s)' => Counting(s) /\ FreshResults(req'[s]) \subseteq FreshResults(req[s])
    BY <2>1, <2>2, <1>2, <1>1 DEF Counting
  <2>. QED BY <2>3, <2>4, <1>1, CountingStays DEF Recorded
<1>4. ASSUME NEW how
      PROVE  /\ Ended(q, how).dev = q.dev /\ Ended(q, how).body = q.body
             /\ FreshResults(Ended(q, how)) \subseteq FreshResults(q)
  <2>1. /\ Ended(q, how).dev = q.dev /\ Ended(q, how).body = q.body
        /\ \A e \in Event : Ended(q, how).results[e] = NULL
    BY <1>2 DEF Ended, BusyRequest
  <2>2. DOMAIN q.body \subseteq Event
    BY <1>2, BodyEvents
  <2>. HIDE DEF q
  <2>. QED BY <2>1, <2>2 DEF FreshResults
<1>5. ASSUME NEW p, p.dev = q.dev, p.body = q.body, p.results = q.results
      PROVE  FreshResults(p) \subseteq FreshResults(q)
  BY <1>5 DEF FreshResults
<1>6. CASE Resolve(r)
  <2>1. [q EXCEPT !.pc = "find"].dev = q.dev /\ [q EXCEPT !.pc = "find"].body = q.body
        /\ [q EXCEPT !.pc = "find"].results = q.results
    BY <1>2 DEF BusyRequest
  <2>. QED BY <2>1, <1>4, <1>5, <1>6 DEF Resolve
<1>7. CASE FindNothing(r) \/ Collide(r)
  <2>1. \A pc : LET p == [q EXCEPT !.pc = pc] IN p.dev = q.dev /\ p.body = q.body /\ p.results = q.results
    BY <1>2 DEF BusyRequest
  <2>2. \E pc : req' = [req EXCEPT ![r] = [q EXCEPT !.pc = pc]]
    BY <1>7 DEF FindNothing, Collide
  <2>. QED BY <2>1, <2>2, <1>5
<1>8. CASE Read(r)
  <2>1. \A live : LET p == [q EXCEPT !.pc = "write", !.live = live] IN
          p.dev = q.dev /\ p.body = q.body /\ p.results = q.results
    BY <1>2 DEF BusyRequest
  <2>2. \E live : req' = [req EXCEPT ![r] = [q EXCEPT !.pc = "write", !.live = live]]
    BY <1>8 DEF Read
  <2>. QED BY <2>1, <2>2, <1>5
<1>9. CASE FindWinner(r)
  <2>1. \A w : LET p == [q EXCEPT !.pc = "concede", !.winner = w] IN
          p.dev = q.dev /\ p.body = q.body /\ p.results = q.results
    BY <1>2 DEF BusyRequest
  <2>2. \E w : req' = [req EXCEPT ![r] = [q EXCEPT !.pc = "concede", !.winner = w]]
    BY <1>9 DEF FindWinner
  <2>. QED BY <2>1, <2>2, <1>5
<1>10. CASE Violate(r) \/ Crash(r)
  BY <1>4, <1>10 DEF Violate, Crash
<1>11. CASE Replay(r)
  <2>1. PICK f \in Event : f = Oldest(q.todo)
    BY <1>2, <1>11, CurrentEvent DEF Replay
  <2>2. PICK outcome, agreed, dup : req' = [req EXCEPT ![r] = Answered(q, f, outcome, agreed, dup, FALSE)]
    BY <1>11, <2>1 DEF Replay
  <2>. DEFINE p == Answered(q, f, outcome, agreed, dup, FALSE)
  <2>3. /\ p.dev = q.dev /\ p.body = q.body /\ ~p.results[f].fresh
        /\ \A g \in Event \ {f} : p.results[g] = q.results[g]
    BY <1>2 DEF Answered, BusyRequest
  <2>4. DOMAIN q.body \subseteq Event
    BY <1>2, BodyEvents
  <2>. HIDE DEF p, q
  <2>5. FreshResults(p) \subseteq FreshResults(q)
    BY <2>3, <2>4 DEF FreshResults
  <2>. QED BY <2>2, <2>3, <2>5 DEF p
<1>. QED BY <1>6, <1>7, <1>8, <1>9, <1>10, <1>11

\* A request that begins brings scans of its device and has answered nothing.
LEMMA PostBegins ==
  ASSUME TypeOK, CountInv, [Next]_vars, NEW r \in Request, NEW d \in Device, NEW S \in SUBSET Event,
         NEW gen \in Time, Post(r, d, S, gen)
  PROVE  CountInv'
<1>. DEFINE p == NewRequest(d, [e \in S |-> scan[e].claim], gen)
<1>1. /\ \A e \in S : scan[e] # NULL /\ scan[e].dev = d
      /\ req' = [req EXCEPT ![r] = p] /\ UNCHANGED <<scan, scanEvent, scanCount>>
  BY DEF Post, tables
<1>2. DOMAIN p.body = S /\ p.dev = d /\ FreshResults(p) = {}
  BY DEF NewRequest, FreshResults
<1>. HIDE DEF p
<1>3. req'[r] = p /\ \A s \in Request \ {r} : req'[s] = req[s]
  BY <1>1 DEF TypeOK
<1>4. \A s \in Request : req'[s] # Idle => DOMAIN req'[s].body \subseteq Event
  BY TypeStep, BodyEvents DEF TypeOK
<1>5. \A s \in Request : req'[s] # Idle =>
        \/ /\ req[s] # Idle /\ req'[s].dev = req[s].dev /\ req'[s].body = req[s].body
           /\ Counting(s)' => Counting(s) /\ FreshResults(req'[s]) \subseteq FreshResults(req[s])
        \/ /\ \A e \in DOMAIN req'[s].body : scan[e] # NULL /\ scan[e].dev = req'[s].dev
           /\ FreshResults(req'[s]) = {}
  <2>. SUFFICES ASSUME NEW s \in Request \ {r}, req'[s] # Idle
                PROVE  /\ req[s] # Idle /\ req'[s].dev = req[s].dev /\ req'[s].body = req[s].body
                       /\ Counting(s)' => Counting(s) /\ FreshResults(req'[s]) \subseteq FreshResults(req[s])
    BY <1>1, <1>2, <1>3
  <2>. QED BY <1>3 DEF Counting
<1>. QED BY <1>1, <1>4, <1>5, CountingStays DEF Recorded

\* Requests that rest, whatever the phones and the desk do to the tables.
LEMMA RequestsRest ==
  ASSUME TypeOK, CountInv, [Next]_vars, scanCount' = scanCount,
         \A e \in Event : scan[e] # NULL => scan'[e] # NULL /\ scan'[e].dev = scan[e].dev,
         \A r \in Request : req'[r] # Idle => req'[r] = req[r]
  PROVE  CountInv'
<1>1. \A e \in Event : Recorded(e) => Recorded(e)'
  BY RecordIsFinal
<1>2. \A s \in Request : req'[s] # Idle => DOMAIN req'[s].body \subseteq Event
  BY TypeStep, BodyEvents DEF TypeOK
<1>3. \A s \in Request : req'[s] # Idle =>
        /\ req[s] # Idle /\ req'[s].dev = req[s].dev /\ req'[s].body = req[s].body
        /\ Counting(s)' => Counting(s) /\ FreshResults(req'[s]) \subseteq FreshResults(req[s])
  BY DEF Counting
<1>. QED BY <1>1, <1>2, <1>3, CountingStays

LEMMA CountStep ==
  ASSUME TypeOK, AnswersAreOnRecord, CountInv, [Next]_vars
  PROVE  CountInv'
<1>1. ASSUME NEW r \in Request, Serve(r) \/ Crash(r) PROVE CountInv'
  BY <1>1, OldNews, FreshScan, FinishCounts DEF Serve
<1>2. ASSUME NEW r \in Request, NEW d \in Device, NEW S \in SUBSET Event, NEW gen \in Time,
             Post(r, d, S, gen)
      PROVE  CountInv'
  BY <1>2, PostBegins
<1>3. ASSUME NEW r \in Request, Collect(r) PROVE CountInv'
  <2>1. \A s \in Request : req'[s] # Idle => req'[s] = req[s]
    BY <1>3 DEF Collect, TypeOK
  <2>. QED BY <2>1, <1>3, RequestsRest DEF Collect
<1>4. ASSUME NEW d \in Device, NEW c \in Claim, Take(d, c) PROVE CountInv'
  <2>1. \A e \in Event : scan[e] # NULL => scan'[e] = scan[e]
    BY <1>4, UnusedEvent DEF Take, TypeOK
  <2>. QED BY <2>1, <1>4, RequestsRest DEF Take
<1>5. ASSUME NEW e \in Event, NEW n \in 0..MaxGuests, AmendGuests(e, n) PROVE CountInv'
  <2>1. scan[e] \in ScanRow /\ scan'[e].dev = scan[e].dev
    BY <1>5 DEF AmendGuests, TypeOK, ScanRow
  <2>2. scan'[e] # NULL
    <3>1. TypeOK'
      BY TypeStep
    <3>2. scan'[e] = [scan[e] EXCEPT !.claim.guests = n]
      BY <1>5 DEF AmendGuests, TypeOK
    <3>3. [scan[e].claim EXCEPT !.guests = n] \in Claim
      BY <2>1, ClaimsCanBeAmended DEF ScanRow
    <3>4. scan'[e] \in ScanRow
      BY <3>2, <3>3, <2>1 DEF ScanRow
    <3>. QED BY <3>4, NullIsNoRow
  <2>3. \A f \in Event : scan[f] # NULL => scan'[f] # NULL /\ scan'[f].dev = scan[f].dev
    BY <2>1, <2>2, <1>5 DEF AmendGuests, TypeOK
  <2>. QED BY <2>3, <1>5, RequestsRest DEF AmendGuests
<1>6. ASSUME UNCHANGED <<scan, scanCount, req>> PROVE CountInv'
  BY <1>6, RequestsRest
<1>7. ASSUME NEW c \in Code, Desk(c) PROVE UNCHANGED <<scan, scanCount, req>>
  BY <1>7 DEF Desk, IssuePass, Revoke, Restore, Review, UndoRegistrationReview,
              AdjustPassQrLife, RecordManualCheckIn, ReverseCheckIn
<1>8. ASSUME NEW d \in Device, SetBlocked(d) PROVE UNCHANGED <<scan, scanCount, req>>
  BY <1>8 DEF SetBlocked
<1>. QED BY <1>1, <1>2, <1>3, <1>4, <1>5, <1>6, <1>7, <1>8 DEF Next, Phones, vars

LEMMA CountInit == Init => CountInv
<1>. SUFFICES ASSUME Init PROVE CountInv
  OBVIOUS
<1>1. \A r \in Request : req[r] = Idle /\ ~Counting(r)
  BY DEF Init, Counting, Idle
<1>. DEFINE none == [d \in Device |-> {}]
<1>2. none \in [Device -> SUBSET Event]
  OBVIOUS
<1>3. \A d \in Device : none[d] \subseteq RecordedBy(d) /\ scanCount[d] = Cardinality(none[d])
  BY FS_EmptySet DEF Init
<1>. HIDE DEF none
<1>. QED BY <1>1, <1>2, <1>3 DEF CountInv, BodiesAreScans, CountedScans, FreshOnce

LEMMA CountsWhatIsThere == CountInv => NoScanCountedTwice
<1>. SUFFICES ASSUME CountInv, NEW d \in Device
              PROVE  scanCount[d] <= Cardinality(RecordedBy(d))
  BY DEF NoScanCountedTwice, RecordedBy
<1>1. PICK S \in SUBSET Event : S \subseteq RecordedBy(d) /\ scanCount[d] = Cardinality(S)
  BY DEF CountInv, CountedScans
<1>2. IsFiniteSet(RecordedBy(d)) /\ Cardinality(RecordedBy(d)) \in Nat /\ Cardinality(S) \in Nat
  BY EventCounts DEF RecordedBy
<1>. QED BY <1>1, <1>2, FS_Subset

\* A scan posted twice, by one request after another or by two at once, adds one to
\* its device's counter: syncScans counts the results that were not alreadyRecorded,
\* and of two transactions the unique clientEventId lets one write.
THEOREM CountedOnce == Spec => []NoScanCountedTwice
BY CountInit, CountStep, CountsWhatIsThere, TypeCorrect, Answers, PTL DEF Spec


-----------------------------------------------------------------------------
(* SyncServer implements Arrivals: read through the refinement mapping, a    *)
(* step of the server records a verdict, brings a pass in, reverses an       *)
(* arrival, or changes nothing.                                              *)

\* The mapping of SyncServer's Promise, by name.
Outcome == Outcomes \cup {"NOT_FOUND"}
Entry(row) == IF row = NULL THEN NULL ELSE [pass |-> row.code, outcome |-> row.outcome]
Verdicts == [e \in Event |-> Entry(scanEvent[e])]
Entered == [c \in Code |-> IF checkIn[c] = NULL THEN NULL ELSE checkIn[c].winner]

A == INSTANCE Arrivals WITH
  Attempt <- Event, Pass <- Code, Outcome <- Outcome, verdict <- Verdicts, entered <- Entered

\* Writing a row for a new event records its verdict.
LEMMA RecordMaps ==
  ASSUME TypeOK, NEW e \in Event, ~Recorded(e), NEW row \in EventRow,
         scanEvent' = [scanEvent EXCEPT ![e] = row]
  PROVE  A!Record(e, row.code, row.outcome)
<1>1. row # NULL
  BY NullIsNoRow
<1>2. Verdicts[e] = NULL
  BY DEF Verdicts, Entry, Recorded
<1>3. \A f \in Event : Entry(scanEvent'[f]) = IF f = e THEN Entry(row) ELSE Entry(scanEvent[f])
  BY DEF TypeOK
<1>4. Verdicts' = [Verdicts EXCEPT ![e] = Entry(row)]
  <2>1. Verdicts' = [f \in Event |-> Entry(scanEvent'[f])]
    BY DEF Verdicts, Entry
  <2>2. [Verdicts EXCEPT ![e] = Entry(row)]
          = [f \in Event |-> IF f = e THEN Entry(row) ELSE Entry(scanEvent[f])]
    BY DEF Verdicts
  <2>. QED BY <1>3, <2>1, <2>2
<1>. QED BY <1>1, <1>2, <1>4 DEF A!Record, Entry

LEMMA RefusalMaps ==
  ASSUME IInv, NEW r \in Request, Refuse(r) \/ Concede(r)
  PROVE  A!Next
<1>1. PICK e \in Event, row \in EventRow :
        ~Recorded(e) /\ row.outcome # "ADMITTED" /\ scanEvent' = [scanEvent EXCEPT ![e] = row]
  BY WritesAnAttempt DEF IInv
<1>2. A!Record(e, row.code, row.outcome)
  BY <1>1, RecordMaps DEF IInv
<1>3. UNCHANGED Entered
  BY DEF Refuse, Concede, Entered
<1>4. row.code \in Code \cup {NULL} /\ row.outcome \in Outcome
  BY DEF EventRow, Outcome
<1>. QED BY <1>1, <1>2, <1>3, <1>4 DEF A!Refuse, A!Next

LEMMA LetsInMaps ==
  ASSUME IInv, NEW c \in Code, NEW e \in Event, LetsIn(c, e)
  PROVE  A!Next
<1>1. A!Record(e, c, "ADMITTED")
  BY RecordMaps DEF LetsIn, IInv
<1>2. CASE c \in MultiUse /\ UNCHANGED checkIn
  <2>1. UNCHANGED Entered
    BY <1>2 DEF Entered
  <2>. QED BY <1>1, <1>2, <2>1 DEF A!EnterAgain, A!Next
<1>3. CASE /\ checkIn[c] = NULL
           /\ \E arrival \in CheckInRow : /\ arrival.winner = e
                                          /\ checkIn' = [checkIn EXCEPT ![c] = arrival]
  <2>1. checkIn'[c] # NULL /\ checkIn'[c].winner = e
        /\ \A d \in Code \ {c} : checkIn'[d] = checkIn[d]
    BY <1>3, NullIsNoRow DEF IInv, TypeOK
  <2>2. Entered[c] = NULL
    BY <1>3 DEF Entered
  <2>3. Entered' = [Entered EXCEPT ![c] = e]
    BY <2>1 DEF Entered
  <2>. QED BY <1>1, <2>2, <2>3 DEF A!Enter, A!Next
<1>. QED BY <1>2, <1>3 DEF LetsIn

LEMMA ReversalMaps ==
  ASSUME IInv, NEW c \in Code, ReverseCheckIn(c)
  PROVE  A!Next
<1>1. \A e \in Event : Entry(scanEvent'[e]) = Entry(scanEvent[e])
  BY ReversalKeepsVerdicts DEF IInv, Entry
<1>2. UNCHANGED Verdicts
  BY <1>1 DEF Verdicts, Entry
<1>3. checkIn[c] \in CheckInRow
  BY DEF ReverseCheckIn, IInv, TypeOK
<1>4. Entered[c] # NULL
  <2>1. checkIn[c] # NULL /\ checkIn[c].winner \in Int
    BY <1>3, BoundsAreNatural DEF ReverseCheckIn, CheckInRow, Event
  <2>. QED BY <2>1, NullIsNotANumber DEF Entered
<1>5. Entered' = [Entered EXCEPT ![c] = NULL]
  <2>1. checkIn'[c] = NULL /\ \A d \in Code \ {c} : checkIn'[d] = checkIn[d]
    BY DEF ReverseCheckIn, IInv, TypeOK
  <2>. QED BY <2>1 DEF Entered
<1>. QED BY <1>2, <1>4, <1>5 DEF A!Reverse, A!Next

LEMMA StepMaps == IInv /\ [Next]_vars => [A!Next]_(A!vars)
<1>. SUFFICES ASSUME IInv, [Next]_vars PROVE [A!Next]_(A!vars)
  OBVIOUS
<1>1. CASE UNCHANGED <<checkIn, scanEvent>>
  BY <1>1 DEF A!vars, Verdicts, Entered, Entry
<1>2. ASSUME NEW r \in Request, Admit(r) PROVE A!Next
  BY <1>2, AdmitLetsIn, LetsInMaps
<1>3. ASSUME NEW c \in Code, Desk(c) PROVE A!Next \/ UNCHANGED <<checkIn, scanEvent>>
  <2>1. ASSUME NEW g \in 0..MaxGuests, RecordManualCheckIn(c, g) PROVE A!Next
    BY <2>1, ManualLetsIn, LetsInMaps
  <2>2. CASE ReverseCheckIn(c)
    BY <2>2, ReversalMaps
  <2>3. CASE ~ReverseCheckIn(c) /\ ~(\E g \in 0..MaxGuests : RecordManualCheckIn(c, g))
    BY <1>3, <2>3 DEF Desk, IssuePass, Revoke, Restore, Review, UndoRegistrationReview,
                       AdjustPassQrLife
  <2>. QED BY <2>1, <2>2, <2>3
<1>. QED BY <1>1, <1>2, <1>3, RefusalMaps, StepKinds DEF vars, tables

LEMMA InitMaps == Init => A!Init
BY DEF Init, A!Init, Verdicts, Entered, Entry

\* The sync endpoint and the control room together keep the gate's promise: one
\* final verdict for every attempt, a pass inside because of one ADMITTED attempt,
\* a single-use pass ADMITTED only by bringing it in, and reversals that rewrite
\* no verdict.
THEOREM Implements == Spec => KeepsThePromise
<1>1. A!Spec <=> Promise!Spec
  BY DEF A!Spec, Promise!Spec, A!Init, Promise!Init, A!Next, Promise!Next, A!vars, Promise!vars,
         A!Refuse, Promise!Refuse, A!Enter, Promise!Enter, A!EnterAgain, Promise!EnterAgain,
         A!Reverse, Promise!Reverse, A!Record, Promise!Record, Verdicts, Entered, Entry, Outcome
<1>2. Spec => A!Spec
  BY InitMaps, StepMaps, Invariant, PTL DEF Spec, A!Spec
<1>. QED BY <1>1, <1>2 DEF KeepsThePromise

-----------------------------------------------------------------------------
(* Companions.  The clamp in processEvent uses the guestCount of a snapshot   *)
(* that may be old; it still holds when the arrival is written because the    *)
(* desk takes no pass back and no write changes what a pass covers.           *)

Covered(c) == pass[c] # NULL /\ checkIn[c].guests <= pass[c].guestCount

ArrivalsAreCovered == \A c \in Code : checkIn[c] # NULL => Covered(c)

\* The snapshot still tells what the pass covers.
Covers(q) ==
  q.live # NULL => LET c == CurrentCode(q) IN
                   pass[c] # NULL /\ q.live.row.guestCount = pass[c].guestCount

SnapshotsCover == \A r \in Request : req[r] # Idle => Covers(req[r])

GuestInv == ArrivalsAreCovered /\ SnapshotsCover

\* The desk's writes to a pass that is there leave what it covers alone.
LEMMA RewriteKeepsCover ==
  ASSUME TypeOK, NEW c \in Code,
         \/ Revoke(c) \/ Restore(c) \/ UndoRegistrationReview(c)
         \/ \E s \in {"APPROVED", "REVISION_REQUESTED", "REJECTED"} : Review(c, s)
         \/ \E n \in 0..MaxLimit : AdjustPassQrLife(c, n)
  PROVE  \E row \in PassRow : /\ row.guestCount = pass[c].guestCount
                              /\ pass' = [pass EXCEPT ![c] = row]
<1>1. pass[c] \in PassRow
  BY DEF Revoke, Restore, Review, UndoRegistrationReview, AdjustPassQrLife, TypeOK
<1>2. CASE Revoke(c) \/ Restore(c)
  <2>1. \A s \in {"ACTIVE", "REVOKED"} :
          /\ [pass[c] EXCEPT !.status = s] \in PassRow
          /\ [pass[c] EXCEPT !.status = s].guestCount = pass[c].guestCount
    BY <1>1 DEF PassRow, PassStatuses
  <2>. QED BY <1>2, <2>1 DEF Revoke, Restore, TypeOK
<1>3. CASE \E s \in {"APPROVED", "REVISION_REQUESTED", "REJECTED"} : Review(c, s)
  <2>1. PICK s \in {"APPROVED", "REVISION_REQUESTED", "REJECTED"} : Review(c, s)
    BY <1>3
  <2>. DEFINE row == [pass[c] EXCEPT !.registration = s,
                      !.status = IF s = "REJECTED" THEN "REVOKED" ELSE pass[c].status]
  <2>2. row \in PassRow /\ row.guestCount = pass[c].guestCount
    BY <1>1 DEF PassRow, PassStatuses, RegistrationStatuses
  <2>3. pass' = [pass EXCEPT ![c] = row]
    BY <1>1, <2>1 DEF Review, PassRow, TypeOK
  <2>. QED BY <2>2, <2>3
<1>4. CASE \E n \in 0..MaxLimit : AdjustPassQrLife(c, n)
  <2>1. \A n \in 0..MaxLimit : /\ [pass[c] EXCEPT !.scanLimit = n] \in PassRow
                               /\ [pass[c] EXCEPT !.scanLimit = n].guestCount = pass[c].guestCount
    BY <1>1 DEF PassRow
  <2>. QED BY <1>4, <2>1 DEF AdjustPassQrLife, TypeOK
<1>5. CASE UndoRegistrationReview(c)
  <2>. DEFINE row == [pass[c] EXCEPT !.registration = "PENDING_REVIEW", !.status = "REVOKED"]
  <2>1. row \in PassRow /\ row.guestCount = pass[c].guestCount
    BY <1>1 DEF PassRow, PassStatuses, RegistrationStatuses
  <2>2. pass' = [pass EXCEPT ![c] = row]
    BY <1>1, <1>5 DEF UndoRegistrationReview, PassRow, TypeOK
  <2>. QED BY <2>1, <2>2
<1>. QED BY <1>2, <1>3, <1>4, <1>5

\* A pass stays, and it covers as many companions as it did when it was issued.
LEMMA CoverIsFinal ==
  ASSUME TypeOK, [Next]_vars, NEW c \in Code, pass[c] # NULL
  PROVE  pass'[c] # NULL /\ pass'[c].guestCount = pass[c].guestCount
<1>1. CASE pass' = pass
  BY <1>1
<1>2. ASSUME NEW d \in Code, Desk(d), pass' # pass
      PROVE  pass'[c] # NULL /\ pass'[c].guestCount = pass[c].guestCount
  <2>1. CASE IssuePass(d)
    BY <2>1 DEF IssuePass, TypeOK
  <2>2. CASE ~IssuePass(d)
    <3>1. PICK row \in PassRow : /\ row.guestCount = pass[d].guestCount
                                 /\ pass' = [pass EXCEPT ![d] = row]
      BY <1>2, <2>2, RewriteKeepsCover DEF Desk, RecordManualCheckIn, ReverseCheckIn
    <3>. QED BY <3>1, NullIsNoRow DEF TypeOK
  <2>. QED BY <2>1, <2>2
<1>3. ASSUME NEW r \in Request, Serve(r) PROVE pass' = pass
  BY <1>3 DEF Serve, Resolve, Replay, FindNothing, Read, Refuse, Admit, Collide, FindWinner,
              Concede, Violate, Finish, tables
<1>4. (UNCHANGED vars \/ Phones \/ (\E r \in Request : Crash(r))
         \/ \E d \in Device : SetBlocked(d)) => pass' = pass
  BY DEF vars, Phones, Take, AmendGuests, Post, Collect, Crash, SetBlocked, tables
<1>. QED BY <1>1, <1>2, <1>3, <1>4 DEF Next

\* A snapshot after a step is one from before it, or was just read.
LEMMA SnapshotOrigin ==
  ASSUME TypeOK, [Next]_vars, NEW r \in Request, req'[r] # Idle, req'[r].live # NULL
  PROVE  \/ /\ req[r] # Idle /\ req[r].live = req'[r].live
            /\ CurrentCode(req[r]) = CurrentCode(req'[r])
         \/ LET c == CurrentCode(req'[r]) IN
            c \in Code /\ pass[c] # NULL /\ req'[r].live.row = pass[c] /\ pass' = pass
<1>. DEFINE Same(q, p) == p.live = q.live /\ p.todo = q.todo /\ p.body = q.body
            Cleared(p) == p.live = NULL
            q == req[r]
<1>1. \A p : Same(q, p) => p.live = q.live /\ CurrentCode(p) = CurrentCode(q)
  BY DEF CurrentCode
<1>2. ASSUME Serve(r) \/ Crash(r)
      PROVE  Cleared(req'[r]) \/ Same(q, req'[r]) \/ Read(r)
  <2>1. q \in BusyRequest /\ RequestOK(q)
    <3>1. q.pc # "idle"
      BY <1>2 DEF Serve, Resolve, Replay, FindNothing, Read, Refuse, Admit, Collide,
                  FindWinner, Concede, Violate, Finish, Crash
    <3>. QED BY <3>1, ActiveRequest
  <2>2. \A how : Cleared(Ended(q, how))
    BY <2>1 DEF Ended, BusyRequest
  <2>3. \A e, outcome, agreed, dup, fresh : Cleared(Answered(q, e, outcome, agreed, dup, fresh))
    BY <2>1 DEF Answered, BusyRequest
  <2>4. \A pc : Same(q, [q EXCEPT !.pc = pc])
    BY <2>1 DEF BusyRequest
  <2>5. \A pc, winner : Same(q, [q EXCEPT !.pc = pc, !.winner = winner])
    BY <2>1 DEF BusyRequest
  <2>6. \/ \E how : req'[r] = Ended(q, how)
        \/ \E e, outcome, agreed, dup, fresh :
             req'[r] = Answered(q, e, outcome, agreed, dup, fresh)
        \/ \E pc : req'[r] = [q EXCEPT !.pc = pc]
        \/ \E pc, winner : req'[r] = [q EXCEPT !.pc = pc, !.winner = winner]
        \/ Read(r)
    <3>1. \A p : req' = [req EXCEPT ![r] = p] => req'[r] = p
      BY DEF TypeOK
    <3>2. CASE Resolve(r)
      BY <3>1, <3>2 DEF Resolve, TypeOK
    <3>3. CASE Replay(r) \/ Refuse(r) \/ Admit(r) \/ Concede(r)
      <4>1. \E e, outcome, agreed, dup, fresh :
              req' = [req EXCEPT ![r] = Answered(q, e, outcome, agreed, dup, fresh)]
        <5>1. CASE Replay(r)
          BY <5>1 DEF Replay
        <5>2. CASE Refuse(r)
          BY <5>2 DEF Refuse
        <5>3. CASE Admit(r)
          BY <5>3 DEF Admit
        <5>4. CASE Concede(r)
          BY <5>4 DEF Concede
        <5>. QED BY <3>3, <5>1, <5>2, <5>3, <5>4
      <4>. QED BY <3>1, <4>1
    <3>4. CASE FindNothing(r) \/ Collide(r) \/ Finish(r)
      BY <3>1, <3>4 DEF FindNothing, Collide, Finish, TypeOK
    <3>5. CASE FindWinner(r)
      <4>1. PICK winner : req' = [req EXCEPT ![r].pc = "concede", ![r].winner = winner]
        BY <3>5 DEF FindWinner
      <4>2. req'[r] = [q EXCEPT !.pc = "concede", !.winner = winner]
        BY <2>1, <4>1 DEF TypeOK
      <4>. QED BY <4>2
    <3>6. CASE Violate(r) \/ Crash(r)
      BY <3>1, <3>6 DEF Violate, Crash, TypeOK
    <3>. QED BY <1>2, <3>2, <3>3, <3>4, <3>5, <3>6 DEF Serve
  <2>. HIDE DEF Same, Cleared, q
  <2>7. CASE \E how : req'[r] = Ended(q, how)
    BY <2>2, <2>7
  <2>8. CASE \E e, outcome, agreed, dup, fresh :
               req'[r] = Answered(q, e, outcome, agreed, dup, fresh)
    BY <2>3, <2>8
  <2>9. CASE \E pc : req'[r] = [q EXCEPT !.pc = pc]
    BY <2>4, <2>9
  <2>10. CASE \E pc, winner : req'[r] = [q EXCEPT !.pc = pc, !.winner = winner]
    <3>1. PICK pc, winner : req'[r] = [q EXCEPT !.pc = pc, !.winner = winner]
      BY <2>10
    <3>2. PICK p : p = [q EXCEPT !.pc = pc, !.winner = winner]
      OBVIOUS
    <3>3. Same(q, p)
      BY <2>5, <3>2
    <3>. QED BY <3>1, <3>2, <3>3
  <2>. QED BY <2>6, <2>7, <2>8, <2>9, <2>10
<1>3. ASSUME Read(r)
      PROVE  LET c == CurrentCode(req'[r]) IN
             c \in Code /\ pass[c] # NULL /\ req'[r].live.row = pass[c] /\ pass' = pass
  <2>. DEFINE code == CurrentCode(q)
  <2>1. q \in BusyRequest /\ q.pc = "read"
    BY <1>3, ActiveRequest DEF Read
  <2>2. PICK live : /\ live = IF code = NULL \/ code \notin Code THEN NULL
                              ELSE IF pass[code] = NULL THEN NULL
                              ELSE Snapshot(code)
                    /\ req' = [req EXCEPT ![r].pc = "write", ![r].live = live]
    BY <1>3 DEF Read
  <2>3. req'[r] = [q EXCEPT !.pc = "write", !.live = live]
    BY <2>2 DEF TypeOK
  <2>4. req'[r].live = live /\ req'[r].todo = q.todo /\ req'[r].body = q.body
    BY <2>1, <2>3 DEF BusyRequest
  <2>5. CurrentCode(req'[r]) = code
    BY <2>4 DEF CurrentCode
  <2>6. code \in Code /\ pass[code] # NULL /\ live.row = pass[code]
    BY <2>2, <2>4 DEF Snapshot
  <2>7. pass' = pass
    BY <1>3 DEF Read, tables
  <2>. HIDE DEF code
  <2>. QED BY <2>4, <2>5, <2>6, <2>7
<1>4. ASSUME NEW s \in Request, Serve(s) \/ Crash(s), s # r PROVE req'[r] = q
  BY <1>4 DEF Serve, Resolve, Replay, FindNothing, Read, Refuse, Admit, Collide, FindWinner,
              Concede, Violate, Finish, Crash, TypeOK
<1>5. ASSUME Phones PROVE Cleared(req'[r]) \/ req'[r] = q
  <2>1. ASSUME NEW s \in Request, NEW d \in Device, NEW S \in SUBSET Event, NEW gen \in Time,
               Post(s, d, S, gen)
        PROVE  Cleared(req'[r]) \/ req'[r] = q
    BY <2>1 DEF Post, NewRequest, TypeOK
  <2>2. ASSUME NEW s \in Request, Collect(s) PROVE req'[r] = q
    BY <2>2 DEF Collect, TypeOK
  <2>3. ASSUME UNCHANGED req PROVE req'[r] = q
    BY <2>3
  <2>. QED BY <1>5, <2>1, <2>2, <2>3 DEF Phones, Take, AmendGuests
<1>6. ASSUME (\E c \in Code : Desk(c)) \/ (\E d \in Device : SetBlocked(d)) \/ UNCHANGED vars
      PROVE  req'[r] = q
  BY <1>6 DEF Desk, IssuePass, Revoke, Restore, Review, UndoRegistrationReview,
              AdjustPassQrLife, RecordManualCheckIn, ReverseCheckIn, SetBlocked, vars
<1>7. ASSUME Serve(r) \/ Crash(r) PROVE q # Idle
  <2>1. q.pc # "idle"
    BY <1>7 DEF Serve, Resolve, Replay, FindNothing, Read, Refuse, Admit, Collide, FindWinner,
                Concede, Violate, Finish, Crash
  <2>. QED BY <2>1 DEF Idle
<1>8. (Same(q, req'[r]) /\ q # Idle) \/ Read(r)
  <2>1. q = req'[r] => Same(q, req'[r])
    OBVIOUS
  <2>. HIDE DEF Same
  <2>. QED BY <1>2, <1>4, <1>5, <1>6, <1>7, <2>1 DEF Next
<1>. QED BY <1>1, <1>3, <1>8

LEMMA SnapshotsCoverStep ==
  ASSUME TypeOK, SnapshotsCover, [Next]_vars
  PROVE  SnapshotsCover'
<1>. SUFFICES ASSUME NEW r \in Request, req'[r] # Idle, req'[r].live # NULL
              PROVE  LET c == CurrentCode(req'[r]) IN
                     pass'[c] # NULL /\ req'[r].live.row.guestCount = pass'[c].guestCount
  BY DEF SnapshotsCover, Covers, CurrentCode
<1>. DEFINE c == CurrentCode(req'[r])
<1>1. TypeOK'
  BY TypeStep
<1>2. c \in Code
  BY <1>1 DEF TypeOK, RequestOK, CurrentCode
<1>3. pass[c] # NULL /\ req'[r].live.row.guestCount = pass[c].guestCount
  <2>1. CASE /\ req[r] # Idle /\ req[r].live = req'[r].live
             /\ CurrentCode(req[r]) = c
    BY <2>1 DEF SnapshotsCover, Covers
  <2>2. CASE pass[c] # NULL /\ req'[r].live.row = pass[c]
    BY <2>2
  <2>. QED BY <2>1, <2>2, SnapshotOrigin
<1>. HIDE DEF c
<1>4. pass'[c] # NULL /\ pass'[c].guestCount = pass[c].guestCount
  BY <1>2, <1>3, CoverIsFinal
<1>. QED BY <1>3, <1>4 DEF c

\* A new arrival is within what its pass covers: Admit clamps the head count with a
\* snapshot that still tells it, and the desk's form is checked against the row.
LEMMA NewArrivalIsCovered ==
  ASSUME TypeOK, SnapshotsCover, Next, NEW c \in Code, checkIn'[c] # checkIn[c], checkIn'[c] # NULL
  PROVE  pass[c] # NULL /\ checkIn'[c].guests <= pass[c].guestCount
<1>1. ASSUME NEW r \in Request, Admit(r)
      PROVE  pass[c] # NULL /\ checkIn'[c].guests <= pass[c].guestCount
  <2>. DEFINE q == req[r]
              e == Oldest(q.todo)
              d == CurrentCode(q)
              arrival == [winner |-> e, guests |-> GuestsLetIn(q, e)]
  <2>1. q \in BusyRequest /\ RequestOK(q) /\ q.pc = "write" /\ q # Idle
    BY <1>1, ActiveRequest DEF Admit, Idle
  <2>2. q.live # NULL /\ d \in Code /\ Verdict(q).code = d
    BY <1>1, <2>1, VerdictFacts DEF Admit, RequestOK
  <2>3. checkIn' = checkIn \/ checkIn' = [checkIn EXCEPT ![d] = arrival]
    BY <1>1, <2>2 DEF Admit
  <2>4. c = d /\ checkIn'[c] = arrival
    <3>. HIDE DEF arrival, d
    <3>. QED BY <2>2, <2>3 DEF TypeOK
  <2>5. q.body[e] \in Claim
    BY <2>1, CurrentEvent DEF RequestOK
  <2>6. q.body[e].guests \in Nat /\ q.live.row.guestCount \in 0..MaxGuests
    BY <2>1, <2>2, <2>5, ClaimsAreClaims DEF BusyRequest, Live, PassRow
  <2>7. GuestsLetIn(q, e) <= q.live.row.guestCount
    BY <2>6, BoundsAreNatural DEF GuestsLetIn
  <2>8. pass[d] # NULL /\ q.live.row.guestCount = pass[d].guestCount
    BY <2>1, <2>2 DEF SnapshotsCover, Covers
  <2>. QED BY <2>4, <2>7, <2>8
<1>2. ASSUME NEW d \in Code, NEW g \in 0..MaxGuests, RecordManualCheckIn(d, g)
      PROVE  pass[c] # NULL /\ checkIn'[c].guests <= pass[c].guestCount
  <2>1. c = d /\ checkIn'[c].guests = g
    BY <1>2 DEF RecordManualCheckIn, TypeOK
  <2>. QED BY <1>2, <2>1 DEF RecordManualCheckIn
<1>3. ASSUME NEW d \in Code, ReverseCheckIn(d) PROVE FALSE
  BY <1>3 DEF ReverseCheckIn, TypeOK
<1>4. ASSUME NEW r \in Request, Refuse(r) \/ Concede(r) PROVE FALSE
  BY <1>4 DEF Refuse, Concede
<1>5. ASSUME NEW d \in Code, Desk(d), ~ReverseCheckIn(d),
             ~(\E g \in 0..MaxGuests : RecordManualCheckIn(d, g))
      PROVE  FALSE
  BY <1>5 DEF Desk, IssuePass, Revoke, Restore, Review, UndoRegistrationReview, AdjustPassQrLife
<1>. QED BY <1>1, <1>2, <1>3, <1>4, <1>5, StepKinds

LEMMA GuestInit == Init => GuestInv
BY DEF Init, GuestInv, ArrivalsAreCovered, SnapshotsCover

LEMMA GuestStep ==
  ASSUME TypeOK, GuestInv, [Next]_vars
  PROVE  GuestInv'
<1>1. SnapshotsCover'
  BY SnapshotsCoverStep DEF GuestInv
<1>2. ASSUME NEW c \in Code, checkIn'[c] # NULL
      PROVE  pass'[c] # NULL /\ checkIn'[c].guests <= pass'[c].guestCount
  <2>1. pass[c] # NULL /\ checkIn'[c].guests <= pass[c].guestCount
    <3>1. CASE checkIn'[c] = checkIn[c]
      BY <1>2, <3>1 DEF GuestInv, ArrivalsAreCovered, Covered
    <3>2. CASE checkIn'[c] # checkIn[c]
      BY <1>2, <3>2, NewArrivalIsCovered DEF GuestInv, vars
    <3>. QED BY <3>1, <3>2
  <2>. QED BY <2>1, CoverIsFinal
<1>3. ArrivalsAreCovered'
  BY <1>2 DEF ArrivalsAreCovered, Covered
<1>. QED BY <1>1, <1>3 DEF GuestInv

\* No check-in names more companions than its pass covers, however often the head
\* count was amended and however old the snapshot of processEvent was (step 5).
THEOREM ArrivalsCovered == Spec => []ArrivalsAreCovered
<1>1. GuestInv => ArrivalsAreCovered
  BY DEF GuestInv
<1>. QED BY <1>1, GuestInit, GuestStep, TypeCorrect, PTL DEF Spec

-----------------------------------------------------------------------------
(* Collisions.  A phone that is told its scan collided marks the pass as      *)
(* used, so the server must not say it of a pass nobody was let in on.  The   *)
(* winner it names comes from a snapshot, from a lookup after a unique-index  *)
(* error or from a row written earlier, and may have been reversed since; the *)
(* attempt that won stays on record.                                          *)

\* The pass of this scan has been let in.
Inside(e) ==
  /\ e \in Event /\ scan[e] # NULL
  /\ LET c == ServerParse(scan[e].claim.raw).code IN c \in Code /\ AdmittedEvents(c) # {}

\* A request brings scans as they were read, and what it has found out of winners and
\* told of collisions is so.
HonestRequest(q) ==
  /\ \A e \in DOMAIN q.body : e \in Event /\ scan[e] # NULL /\ q.body[e].raw = scan[e].claim.raw
  /\ \A e \in Event : (q.results[e] # NULL /\ q.results[e].collidedWith # NULL) => Inside(e)
  /\ (q.live # NULL /\ q.live.checkIn # NULL) => Inside(Oldest(q.todo))
  /\ q.winner # NULL => Inside(Oldest(q.todo))

RequestsAreHonest == \A r \in Request : req[r] # Idle => HonestRequest(req[r])
DuplicatesAreInside ==
  \A e \in Event : (scanEvent[e] # NULL /\ scanEvent[e].duplicateOf # NULL) => Inside(e)

CollisionInv == RequestsAreHonest /\ DuplicatesAreInside

\* A scan keeps its phone, what was read and the phone's verdict: only its head count is
\* ever corrected.
LEMMA ScanStays ==
  ASSUME TypeOK, [Next]_vars, NEW e \in Event, scan[e] # NULL
  PROVE  /\ scan'[e] # NULL /\ scan'[e].dev = scan[e].dev
         /\ scan'[e].claim.raw = scan[e].claim.raw
         /\ scan'[e].claim.outcome = scan[e].claim.outcome
<1>1. CASE scan' = scan
  BY <1>1
<1>2. ASSUME NEW d \in Device, NEW c \in Claim, Take(d, c) PROVE scan'[e] = scan[e]
  BY <1>2, UnusedEvent DEF Take, TypeOK
<1>3. ASSUME NEW f \in Event, NEW n \in 0..MaxGuests, AmendGuests(f, n)
      PROVE  /\ scan'[e] # NULL /\ scan'[e].dev = scan[e].dev
             /\ scan'[e].claim.raw = scan[e].claim.raw
             /\ scan'[e].claim.outcome = scan[e].claim.outcome
  <2>1. scan'[e] \in ScanRow \cup {NULL} /\ scan[e] \in ScanRow
    BY TypeStep DEF TypeOK
  <2>2. CASE e # f
    BY <1>3, <2>2 DEF AmendGuests, TypeOK
  <2>3. CASE e = f
    <3>1. PICK row : row = scan[e]
      OBVIOUS
    <3>2. row \in [dev : Device, claim : Claim]
      BY <2>1, <3>1 DEF ScanRow
    <3>3. PICK claim : claim = row.claim
      OBVIOUS
    <3>4. PICK told : told = [claim EXCEPT !.guests = n]
      OBVIOUS
    <3>5. told \in Claim /\ told.raw = claim.raw /\ told.outcome = claim.outcome
      <4>1. claim \in Claim
        BY <3>2, <3>3
      <4>2. told.raw = claim.raw /\ told.outcome = claim.outcome
        BY <3>4
      <4>. QED BY <3>4, <4>1, <4>2, ClaimsCanBeAmended
    <3>6. scan'[e] = [row EXCEPT !.claim = told]
      BY <1>3, <2>3, <3>1, <3>3, <3>4 DEF AmendGuests, TypeOK
    <3>7. /\ scan'[e].dev = row.dev
          /\ scan'[e].claim.raw = claim.raw /\ scan'[e].claim.outcome = claim.outcome
      BY <3>2, <3>5, <3>6
    <3>8. scan'[e] \in ScanRow
      BY <3>2, <3>5, <3>6 DEF ScanRow
    <3>. QED BY <3>1, <3>3, <3>7, <3>8, NullIsNoRow
  <2>. QED BY <2>2, <2>3
<1>4. ASSUME (\E r \in Request : Serve(r) \/ Crash(r)) \/ (\E c \in Code : Desk(c))
               \/ (\E d \in Device : SetBlocked(d)) \/ UNCHANGED vars
      PROVE  scan' = scan
  <2>1. ASSUME NEW r \in Request, Serve(r) \/ Crash(r) PROVE scan' = scan
    BY <2>1 DEF Serve, Resolve, Replay, FindNothing, Read, Refuse, Admit, Collide, FindWinner,
                Concede, Violate, Finish, Crash
  <2>2. ASSUME NEW c \in Code, Desk(c) PROVE scan' = scan
    BY <2>2 DEF Desk, IssuePass, Revoke, Restore, Review, UndoRegistrationReview,
                AdjustPassQrLife, RecordManualCheckIn, ReverseCheckIn
  <2>. QED BY <1>4, <2>1, <2>2 DEF SetBlocked, vars
<1>5. ASSUME \/ \E r \in Request, d \in Device, S \in SUBSET Event, gen \in Time : Post(r, d, S, gen)
             \/ \E r \in Request : Collect(r)
      PROVE  scan' = scan
  BY <1>5 DEF Post, Collect
<1>. QED BY <1>1, <1>2, <1>3, <1>4, <1>5 DEF Next, Phones

\* An admission stays on record, also when its arrival is reversed.
LEMMA AdmissionStays ==
  ASSUME TypeOK, [Next]_vars, NEW c, AdmittedEvents(c) # {}
  PROVE  AdmittedEvents(c)' # {}
<1>1. PICK e \in Event : scanEvent[e] # NULL /\ scanEvent[e].code = c /\ scanEvent[e].outcome = "ADMITTED"
  BY DEF AdmittedEvents
<1>2. scanEvent'[e] # NULL /\ scanEvent'[e].code = c /\ scanEvent'[e].outcome = "ADMITTED"
  BY <1>1, RecordIsFinal DEF Recorded
<1>. QED BY <1>2 DEF AdmittedEvents

LEMMA InsideStays ==
  ASSUME TypeOK, [Next]_vars, NEW e, Inside(e)
  PROVE  Inside(e)'
<1>1. PICK c : c = ServerParse(scan[e].claim.raw).code
  OBVIOUS
<1>2. e \in Event /\ scan[e] # NULL /\ c \in Code /\ AdmittedEvents(c) # {}
  BY <1>1 DEF Inside
<1>3. scan'[e] # NULL /\ scan'[e].claim.raw = scan[e].claim.raw
  BY <1>2, ScanStays
<1>4. AdmittedEvents(c)' # {}
  BY <1>2, AdmissionStays
<1>5. c = ServerParse(scan'[e].claim.raw).code
  BY <1>1, <1>3
<1>. QED BY <1>2, <1>3, <1>4, <1>5 DEF Inside

\* What was honest stays so, also after more is forgotten of it.
LEMMA HonestyStays ==
  ASSUME TypeOK, [Next]_vars, NEW q, NEW p, HonestRequest(q), p.body = q.body,
         \A e \in Event : p.results[e] = NULL \/ p.results[e] = q.results[e] \/ Inside(e)
                            \/ p.results[e].collidedWith = NULL,
         p.live = NULL \/ (p.live = q.live /\ p.todo = q.todo) \/ p.live.checkIn = NULL
           \/ Inside(Oldest(p.todo)),
         p.winner = NULL \/ (p.winner = q.winner /\ p.todo = q.todo) \/ Inside(Oldest(p.todo))
  PROVE  HonestRequest(p)'
<1>1. \A e \in DOMAIN p.body : e \in Event /\ scan'[e] # NULL /\ p.body[e].raw = scan'[e].claim.raw
  BY ScanStays DEF HonestRequest
<1>2. \A e \in Event : (p.results[e] # NULL /\ p.results[e].collidedWith # NULL) => Inside(e)
  BY DEF HonestRequest
<1>3. (p.live # NULL /\ p.live.checkIn # NULL) => Inside(Oldest(p.todo))
  BY DEF HonestRequest
<1>4. p.winner # NULL => Inside(Oldest(p.todo))
  BY DEF HonestRequest
<1>5. \A e : Inside(e) => Inside(e)'
  BY InsideStays
<1>6. PICK o : o = Oldest(p.todo)
  OBVIOUS
<1>7. (p.live # NULL /\ p.live.checkIn # NULL) => Inside(o)'
  BY <1>3, <1>5, <1>6
<1>8. p.winner # NULL => Inside(o)'
  BY <1>4, <1>5, <1>6
<1>. QED BY <1>1, <1>2, <1>5, <1>6, <1>7, <1>8 DEF HonestRequest

\* A step that moves one request leaves the others honest.
LEMMA OneHonestRequest ==
  ASSUME TypeOK, RequestsAreHonest, [Next]_vars, NEW r \in Request, NEW p, HonestRequest(p)',
         req' = [req EXCEPT ![r] = p]
  PROVE  RequestsAreHonest'
<1>1. req'[r] = p /\ \A s \in Request \ {r} : req'[s] = req[s]
  BY DEF TypeOK
<1>2. ASSUME NEW s \in Request \ {r}, req[s] # Idle PROVE HonestRequest(req[s])'
  <2>1. PICK q : q = req[s]
    OBVIOUS
  <2>2. HonestRequest(q)
    BY <1>2, <2>1 DEF RequestsAreHonest
  <2>3. HonestRequest(q)'
    BY <2>2, HonestyStays
  <2>. QED BY <1>1, <2>1, <2>3 DEF HonestRequest
<1>. QED BY <1>1, <1>2 DEF RequestsAreHonest, HonestRequest

\* A request's current event is inside once its pass has an attempt that let it in.
LEMMA CurrentIsInside ==
  ASSUME NEW q \in BusyRequest, RequestOK(q), HonestRequest(q), q.todo # {},
         CurrentCode(q) \in Code, AdmittedEvents(CurrentCode(q)) # {}
  PROVE  Inside(Oldest(q.todo))
<1>1. PICK e : e = Oldest(q.todo)
  OBVIOUS
<1>2. e \in DOMAIN q.body
  BY <1>1, CurrentEvent DEF RequestOK
<1>3. e \in Event /\ scan[e] # NULL /\ q.body[e].raw = scan[e].claim.raw
  BY <1>2 DEF HonestRequest
<1>4. CurrentCode(q) = ServerParse(scan[e].claim.raw).code
  BY <1>1, <1>3 DEF CurrentCode
<1>. QED BY <1>1, <1>3, <1>4 DEF Inside

\* The steps of a request that write no row.
LEMMA HonestReading ==
  ASSUME IInv, CollisionInv, [Next]_vars, NEW r \in Request,
         \/ Resolve(r) \/ Replay(r) \/ FindNothing(r) \/ Read(r) \/ Collide(r)
         \/ FindWinner(r) \/ Violate(r) \/ Finish(r) \/ Crash(r)
  PROVE  RequestsAreHonest'
<1>. USE DEF IInv
<1>1. PICK q : q = req[r]
  OBVIOUS
<1>2. q \in BusyRequest /\ RequestOK(q) /\ HonestRequest(q)
  <2>1. q.pc # "idle"
    BY <1>1 DEF Resolve, Replay, FindNothing, Read, Collide, FindWinner, Violate, Finish, Crash
  <2>2. q # Idle
    BY <2>1 DEF Idle
  <2>. QED BY <1>1, <2>1, <2>2, ActiveRequest DEF CollisionInv, RequestsAreHonest
<1>3. ASSUME NEW p, req' = [req EXCEPT ![r] = p], p.body = q.body,
             \A e \in Event : p.results[e] = NULL \/ p.results[e] = q.results[e] \/ Inside(e)
                                \/ p.results[e].collidedWith = NULL,
             p.live = NULL \/ (p.live = q.live /\ p.todo = q.todo) \/ p.live.checkIn = NULL
               \/ Inside(Oldest(p.todo)),
             p.winner = NULL \/ (p.winner = q.winner /\ p.todo = q.todo) \/ Inside(Oldest(p.todo))
      PROVE  RequestsAreHonest'
  <2>1. HonestRequest(p)'
    BY <1>2, <1>3, HonestyStays
  <2>. QED BY <1>3, <2>1, OneHonestRequest DEF CollisionInv
<1>4. ASSUME NEW how, req' = [req EXCEPT ![r] = Ended(q, how)] PROVE RequestsAreHonest'
  <2>1. PICK p : p = Ended(q, how)
    OBVIOUS
  <2>2. p.body = q.body /\ p.live = NULL /\ p.winner = NULL /\ \A e \in Event : p.results[e] = NULL
    BY <1>2, <2>1 DEF Ended, BusyRequest
  <2>. QED BY <1>3, <1>4, <2>1, <2>2
<1>5. ASSUME NEW pc, req' = [req EXCEPT ![r] = [q EXCEPT !.pc = pc]] PROVE RequestsAreHonest'
  <2>1. PICK p : p = [q EXCEPT !.pc = pc]
    OBVIOUS
  <2>2. /\ p.body = q.body /\ p.live = q.live /\ p.winner = q.winner /\ p.todo = q.todo
        /\ p.results = q.results
    BY <1>2, <2>1 DEF BusyRequest
  <2>. QED BY <1>3, <1>5, <2>1, <2>2
<1>6. CASE Resolve(r)
  BY <1>1, <1>4, <1>5, <1>6 DEF Resolve
<1>7. CASE FindNothing(r)
  BY <1>1, <1>5, <1>7 DEF FindNothing
<1>8. CASE Collide(r)
  BY <1>1, <1>5, <1>8 DEF Collide
<1>9. CASE Finish(r)
  BY <1>1, <1>5, <1>9 DEF Finish
<1>10. CASE Violate(r) \/ Crash(r)
  BY <1>1, <1>4, <1>10 DEF Violate, Crash
<1>11. CASE Read(r)
  <2>1. PICK code : code = CurrentCode(q)
    OBVIOUS
  <2>2. PICK live : live = IF code = NULL \/ code \notin Code THEN NULL
                           ELSE IF pass[code] = NULL THEN NULL ELSE Snapshot(code)
    OBVIOUS
  <2>3. req' = [req EXCEPT ![r].pc = "write", ![r].live = live] /\ q.pc = "read"
    BY <1>1, <1>11, <2>1, <2>2 DEF Read
  <2>4. PICK p : p = [q EXCEPT !.pc = "write", !.live = live]
    OBVIOUS
  <2>5. req' = [req EXCEPT ![r] = p]
    BY <1>1, <2>3, <2>4
  <2>6. /\ p.body = q.body /\ p.live = live /\ p.winner = q.winner /\ p.todo = q.todo
        /\ p.results = q.results
    BY <1>2, <2>4 DEF BusyRequest
  <2>7. ASSUME live # NULL, live.checkIn # NULL PROVE Inside(Oldest(q.todo))
    <3>1. code \in Code /\ live = Snapshot(code)
      BY <2>2, <2>7
    <3>2. checkIn[code] # NULL
      BY <2>7, <3>1 DEF Snapshot
    <3>3. AdmittedEvents(code) # {}
      BY <3>1, <3>2 DEF ArrivalHasAttempt
    <3>. QED BY <1>2, <2>1, <2>3, <3>1, <3>3, CurrentIsInside DEF RequestOK
  <2>. QED BY <1>3, <2>5, <2>6, <2>7
<1>12. CASE FindWinner(r)
  <2>1. PICK code : code = CurrentCode(q)
    OBVIOUS
  <2>2. q.pc = "collided" /\ code \in Code /\ Verdict(q).code = code
    BY <1>1, <1>2, <1>12, <2>1, VerdictFacts DEF FindWinner, RequestOK
  <2>3. PICK w : w = IF checkIn[code] = NULL THEN NULL ELSE checkIn[code].winner
    OBVIOUS
  <2>4. req' = [req EXCEPT ![r].pc = "concede", ![r].winner = w]
    BY <1>1, <1>12, <2>2, <2>3 DEF FindWinner
  <2>5. PICK p : p = [q EXCEPT !.pc = "concede", !.winner = w]
    OBVIOUS
  <2>6. req' = [req EXCEPT ![r] = p]
    BY <1>1, <2>4, <2>5
  <2>7. /\ p.body = q.body /\ p.live = q.live /\ p.winner = w /\ p.todo = q.todo
        /\ p.results = q.results
    BY <1>2, <2>5 DEF BusyRequest
  <2>8. ASSUME w # NULL PROVE Inside(Oldest(q.todo))
    <3>1. checkIn[code] # NULL
      BY <2>3, <2>8
    <3>2. AdmittedEvents(code) # {}
      BY <2>2, <3>1 DEF ArrivalHasAttempt
    <3>. QED BY <1>2, <2>1, <2>2, <3>2, CurrentIsInside DEF RequestOK
  <2>. QED BY <1>3, <2>6, <2>7, <2>8
<1>13. CASE Replay(r)
  <2>1. PICK e \in Event : e = Oldest(q.todo)
    BY <1>1, <1>2, <1>13, CurrentEvent DEF Replay
  <2>2. PICK dup : dup = scanEvent[e].duplicateOf
    OBVIOUS
  <2>3. scanEvent[e] # NULL /\ (dup # NULL => Inside(e))
    BY <1>1, <1>13, <2>1, <2>2 DEF Replay, Recorded, CollisionInv, DuplicatesAreInside
  <2>4. PICK outcome, agreed : req' = [req EXCEPT ![r] = Answered(q, e, outcome, agreed, dup, FALSE)]
    BY <1>1, <1>13, <2>1, <2>2 DEF Replay
  <2>5. PICK p : p = Answered(q, e, outcome, agreed, dup, FALSE)
    OBVIOUS
  <2>6. /\ p.body = q.body /\ p.live = NULL /\ p.winner = NULL
        /\ p.results[e].collidedWith = dup
        /\ \A f \in Event \ {e} : p.results[f] = q.results[f]
    BY <1>2, <2>1, <2>5 DEF Answered, BusyRequest
  <2>7. \A f \in Event : p.results[f] = NULL \/ p.results[f] = q.results[f] \/ Inside(f)
                           \/ p.results[f].collidedWith = NULL
    BY <2>1, <2>3, <2>6
  <2>. QED BY <1>3, <2>4, <2>5, <2>6, <2>7
<1>. QED BY <1>6, <1>7, <1>8, <1>9, <1>10, <1>11, <1>12, <1>13

\* One more row, for an event that is inside if the row names a winner.
LEMMA DuplicateWritten ==
  ASSUME TypeOK, DuplicatesAreInside, [Next]_vars, NEW e \in Event, NEW row,
         scanEvent' = [scanEvent EXCEPT ![e] = row], row.duplicateOf # NULL => Inside(e)
  PROVE  DuplicatesAreInside'
<1>1. scanEvent'[e] = row /\ \A f \in Event \ {e} : scanEvent'[f] = scanEvent[f]
  BY DEF TypeOK
<1>2. \A f \in Event : (scanEvent'[f] # NULL /\ scanEvent'[f].duplicateOf # NULL) => Inside(f)
  BY <1>1 DEF DuplicatesAreInside
<1>3. \A f : Inside(f) => Inside(f)'
  BY InsideStays
<1>. QED BY <1>2, <1>3 DEF DuplicatesAreInside

\* The steps that write one: a refusal names the winner of its snapshot, a concession
\* the one it looked up, an admission none.
LEMMA HonestWriting ==
  ASSUME IInv, CollisionInv, [Next]_vars, NEW r \in Request, Refuse(r) \/ Admit(r) \/ Concede(r)
  PROVE  CollisionInv'
<1>. USE DEF IInv
<1>1. PICK q : q = req[r]
  OBVIOUS
<1>2. q \in BusyRequest /\ RequestOK(q) /\ HonestRequest(q) /\ q.todo # {}
  <2>1. q.pc \in {"write", "concede"}
    BY <1>1 DEF Refuse, Admit, Concede
  <2>2. q.pc # "idle" /\ q # Idle
    BY <2>1 DEF Idle
  <2>. QED BY <1>1, <2>1, <2>2, ActiveRequest DEF CollisionInv, RequestsAreHonest, RequestOK
<1>3. PICK e \in Event : e = Oldest(q.todo)
  BY <1>2, CurrentEvent
<1>4. ASSUME NEW v, NEW outcome, NEW agreed, NEW dup, dup # NULL => Inside(e),
             scanEvent' = [scanEvent EXCEPT ![e] = Row(v, q.live, outcome, dup)],
             req' = [req EXCEPT ![r] = Answered(q, e, outcome, agreed, dup, TRUE)]
      PROVE  CollisionInv'
  <2>1. PICK p : p = Answered(q, e, outcome, agreed, dup, TRUE)
    OBVIOUS
  <2>2. /\ p.body = q.body /\ p.live = NULL /\ p.winner = NULL
        /\ p.results[e].collidedWith = dup
        /\ \A f \in Event \ {e} : p.results[f] = q.results[f]
    BY <1>2, <2>1 DEF Answered, BusyRequest
  <2>3. \A f \in Event : p.results[f] = NULL \/ p.results[f] = q.results[f] \/ Inside(f)
                           \/ p.results[f].collidedWith = NULL
    BY <1>4, <2>2
  <2>4. HonestRequest(p)'
    BY <1>2, <2>2, <2>3, HonestyStays
  <2>5. RequestsAreHonest'
    BY <1>4, <2>1, <2>4, OneHonestRequest DEF CollisionInv
  <2>6. PICK row : row = Row(v, q.live, outcome, dup)
    OBVIOUS
  <2>7. row.duplicateOf = dup
    BY <2>6 DEF Row
  <2>8. DuplicatesAreInside'
    BY <1>4, <2>6, <2>7, DuplicateWritten DEF CollisionInv
  <2>. QED BY <2>5, <2>8 DEF CollisionInv
<1>5. CASE Refuse(r)
  <2>1. PICK v : v = Verdict(q)
    OBVIOUS
  <2>2. PICK dup : dup = CollidedWith(q, v)
    OBVIOUS
  <2>3. dup # NULL => Inside(e)
    BY <1>2, <1>3, <2>2 DEF CollidedWith, HonestRequest
  <2>4. /\ scanEvent' = [scanEvent EXCEPT ![e] = Row(v, q.live, v.outcome, dup)]
        /\ req' = [req EXCEPT ![r] = Answered(q, e, v.outcome, q.body[e].outcome = v.outcome, dup, TRUE)]
    BY <1>1, <1>3, <1>5, <2>1, <2>2 DEF Refuse
  <2>. QED BY <1>4, <2>3, <2>4
<1>6. CASE Admit(r)
  <2>1. PICK v : v = Verdict(q)
    OBVIOUS
  <2>2. /\ scanEvent' = [scanEvent EXCEPT ![e] = Row(v, q.live, "ADMITTED", NULL)]
        /\ req' = [req EXCEPT ![r] = Answered(q, e, "ADMITTED", q.body[e].outcome = "ADMITTED", NULL, TRUE)]
    BY <1>1, <1>3, <1>6, <2>1 DEF Admit
  <2>. QED BY <1>4, <2>2
<1>7. CASE Concede(r)
  <2>1. PICK v : v = [Verdict(q) EXCEPT !.reason = "ALREADY_CHECKED_IN"]
    OBVIOUS
  <2>2. /\ scanEvent' = [scanEvent EXCEPT ![e] = Row(v, q.live, "DUPLICATE", q.winner)]
        /\ req' = [req EXCEPT ![r] = Answered(q, e, "DUPLICATE", FALSE, q.winner, TRUE)]
    BY <1>1, <1>3, <1>7, <2>1 DEF Concede
  <2>3. q.winner # NULL => Inside(e)
    BY <1>2, <1>3 DEF HonestRequest
  <2>. QED BY <1>4, <2>2, <2>3
<1>. QED BY <1>5, <1>6, <1>7

\* The rows of the steps of a request that write none, of the phones and of a quiet desk.
LEMMA DuplicatesStay ==
  ASSUME TypeOK, DuplicatesAreInside, [Next]_vars, scanEvent' = scanEvent
  PROVE  DuplicatesAreInside'
<1>1. \A f : Inside(f) => Inside(f)'
  BY InsideStays
<1>. QED BY <1>1 DEF DuplicatesAreInside

LEMMA RequestsStayHonest ==
  ASSUME TypeOK, RequestsAreHonest, [Next]_vars,
         \A r \in Request : req'[r] # Idle => req'[r] = req[r]
  PROVE  RequestsAreHonest'
<1>1. ASSUME NEW s \in Request, req'[s] # Idle PROVE HonestRequest(req[s])'
  <2>1. PICK q : q = req[s]
    OBVIOUS
  <2>2. HonestRequest(q) /\ req'[s] = q
    BY <1>1, <2>1 DEF RequestsAreHonest
  <2>3. HonestRequest(q)'
    BY <2>2, HonestyStays
  <2>. QED BY <2>2, <2>3 DEF HonestRequest
<1>. QED BY <1>1 DEF RequestsAreHonest, HonestRequest

\* A reversal takes winners out of rows and puts none in; the desk's own attempt has none.
LEMMA DeskDuplicates ==
  ASSUME TypeOK, DuplicatesAreInside, [Next]_vars, NEW c \in Code, Desk(c)
  PROVE  DuplicatesAreInside'
<1>1. ASSUME NEW g \in 0..MaxGuests, RecordManualCheckIn(c, g) PROVE DuplicatesAreInside'
  <2>1. PICK row : row = [code |-> c, outcome |-> "ADMITTED", reason |-> "admin_override",
                          duplicateOf |-> NULL]
    OBVIOUS
  <2>2. PICK e \in Event : scanEvent' = [scanEvent EXCEPT ![e] = row]
    BY <1>1, <2>1, UnusedEvent DEF RecordManualCheckIn
  <2>3. row.duplicateOf = NULL
    BY <2>1
  <2>. QED BY <2>2, <2>3, DuplicateWritten
<1>2. CASE ReverseCheckIn(c)
  <2>1. ASSUME NEW e \in Event, scanEvent'[e] # NULL, scanEvent'[e].duplicateOf # NULL
        PROVE  Inside(e)
    <3>1. CASE scanEvent[e] = NULL
      BY <1>2, <2>1, <3>1 DEF ReverseCheckIn, Recorded
    <3>2. CASE scanEvent[e] # NULL
      <4>1. scanEvent[e] \in EventRow
        BY <3>2 DEF TypeOK
      <4>2. scanEvent'[e] \in {scanEvent[e], [scanEvent[e] EXCEPT !.duplicateOf = NULL]}
        BY <1>2 DEF ReverseCheckIn
      <4>3. [scanEvent[e] EXCEPT !.duplicateOf = NULL].duplicateOf = NULL
        BY <4>1 DEF EventRow
      <4>4. scanEvent'[e] = scanEvent[e]
        BY <2>1, <4>2, <4>3
      <4>. QED BY <2>1, <4>4 DEF DuplicatesAreInside
    <3>. QED BY <3>1, <3>2
  <2>2. \A f : Inside(f) => Inside(f)'
    BY InsideStays
  <2>. QED BY <2>1, <2>2 DEF DuplicatesAreInside
<1>3. ASSUME ~ReverseCheckIn(c), ~(\E g \in 0..MaxGuests : RecordManualCheckIn(c, g))
      PROVE  scanEvent' = scanEvent
  BY <1>3 DEF Desk, IssuePass, Revoke, Restore, Review, UndoRegistrationReview, AdjustPassQrLife
<1>. QED BY <1>1, <1>2, <1>3, DuplicatesStay

LEMMA CollisionInit == Init => CollisionInv
BY DEF Init, CollisionInv, RequestsAreHonest, DuplicatesAreInside

LEMMA CollisionStep ==
  ASSUME IInv, CollisionInv, [Next]_vars
  PROVE  CollisionInv'
<1>. USE DEF IInv
<1>1. ASSUME NEW r \in Request, Serve(r) \/ Crash(r) PROVE CollisionInv'
  <2>1. CASE Refuse(r) \/ Admit(r) \/ Concede(r)
    BY <2>1, HonestWriting
  <2>2. CASE ~(Refuse(r) \/ Admit(r) \/ Concede(r))
    <3>1. \/ Resolve(r) \/ Replay(r) \/ FindNothing(r) \/ Read(r) \/ Collide(r)
          \/ FindWinner(r) \/ Violate(r) \/ Finish(r) \/ Crash(r)
      BY <1>1, <2>2 DEF Serve
    <3>2. scanEvent' = scanEvent
      BY <3>1 DEF Resolve, Replay, FindNothing, Read, Collide, FindWinner, Violate, Finish, Crash, tables
    <3>. QED BY <3>1, <3>2, HonestReading, DuplicatesStay DEF CollisionInv
  <2>. QED BY <2>1, <2>2
<1>2. ASSUME NEW r \in Request, NEW d \in Device, NEW S \in SUBSET Event, NEW gen \in Time,
             Post(r, d, S, gen)
      PROVE  CollisionInv'
  <2>1. PICK body : body = [e \in S |-> scan[e].claim]
    OBVIOUS
  <2>2. PICK p : p = NewRequest(d, body, gen)
    OBVIOUS
  <2>3. /\ req' = [req EXCEPT ![r] = p] /\ scanEvent' = scanEvent
        /\ \A e \in S : scan[e] # NULL
    BY <1>2, <2>1, <2>2 DEF Post, tables
  <2>4. /\ p.body = body /\ p.live = NULL /\ p.winner = NULL
        /\ \A e \in Event : p.results[e] = NULL
    BY <2>2 DEF NewRequest
  <2>5. HonestRequest(p)
    BY <2>1, <2>3, <2>4 DEF HonestRequest
  <2>6. HonestRequest(p)'
    BY <2>4, <2>5, HonestyStays
  <2>. QED BY <2>3, <2>6, OneHonestRequest, DuplicatesStay DEF CollisionInv
<1>3. ASSUME NEW r \in Request, Collect(r) PROVE CollisionInv'
  <2>1. \A s \in Request : req'[s] # Idle => req'[s] = req[s]
    BY <1>3 DEF Collect, TypeOK
  <2>2. scanEvent' = scanEvent
    BY <1>3 DEF Collect, tables
  <2>. QED BY <2>1, <2>2, RequestsStayHonest, DuplicatesStay DEF CollisionInv
<1>4. ASSUME UNCHANGED <<scanEvent, req>> PROVE CollisionInv'
  BY <1>4, RequestsStayHonest, DuplicatesStay DEF CollisionInv
<1>5. ASSUME NEW c \in Code, Desk(c) PROVE CollisionInv'
  <2>1. req' = req
    BY <1>5 DEF Desk, IssuePass, Revoke, Restore, Review, UndoRegistrationReview,
                AdjustPassQrLife, RecordManualCheckIn, ReverseCheckIn
  <2>. QED BY <1>5, <2>1, DeskDuplicates, RequestsStayHonest DEF CollisionInv
<1>6. ASSUME \/ \E d \in Device, c \in Claim : Take(d, c)
             \/ \E e \in Event, n \in 0..MaxGuests : AmendGuests(e, n)
             \/ \E d \in Device : SetBlocked(d)
             \/ UNCHANGED vars
      PROVE  UNCHANGED <<scanEvent, req>>
  BY <1>6 DEF Take, AmendGuests, SetBlocked, vars, tables
<1>. QED BY <1>1, <1>2, <1>3, <1>4, <1>5, <1>6 DEF Next, Phones

\* A phone is told that its scan collided only if an attempt on that pass is on record as
\* ADMITTED, however old the snapshot, the lookup or the replayed row behind the answer is
\* (processEvent steps 1, 5 and 7), and also when the arrival has been reversed since.
ToldOfCollisions ==
  \A r \in Request, e \in Event :
    (req[r] # Idle /\ req[r].results[e] # NULL /\ req[r].results[e].collidedWith # NULL) => Inside(e)

THEOREM CollisionsAreReal == Spec => []ToldOfCollisions
<1>1. CollisionInv => ToldOfCollisions
  BY DEF CollisionInv, RequestsAreHonest, HonestRequest, ToldOfCollisions
<1>. QED BY <1>1, CollisionInit, CollisionStep, Invariant, PTL DEF Spec
=============================================================================
