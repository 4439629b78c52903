----------------------------- MODULE SyncServer -----------------------------
(***************************************************************************)
(* The server's side of the gate: POST /api/scanner/sync                    *)
(* (apps/web/lib/server/scanner/sync.ts) turning queued scans into          *)
(* ScanEvent and CheckIn rows, and the control room's writes to the same    *)
(* rows (apps/web/lib/server/admin/registrations.ts).                       *)
(*                                                                          *)
(* A request is a sequence of database statements with an await between     *)
(* any two, so every statement is a step of its own and any number of       *)
(* requests, also of the same device, interleave.  A $transaction is one    *)
(* step, and what it read before it began is kept in the request (live).    *)
(* The unique indexes ScanEvent.clientEventId and CheckIn.passId are the    *)
(* only concurrency control, as in the code.                                *)
(*                                                                          *)
(* Abstracted: the audit log and the realtime messages; conflictCount and   *)
(* the other columns of ScannerDevice but scanCount; names and programmes;  *)
(* the manifest version, which the reply only compares.  A pass is never    *)
(* deleted here.  The scanners are the environment: Take and Post.          *)
(***************************************************************************)
EXTENDS ScanDecision, FiniteSets

CONSTANTS
  Device,    \* scanner phones
  Code,      \* ten-digit pass codes
  MultiUse,  \* the codes the desk may give more than one scan
  MaxEvent,  \* how many scan events there may be
  MaxLimit,  \* the largest scan limit the desk sets
  MaxGuests, \* companions a pass covers
  Request,   \* slots for requests that are being served
  Claim,     \* what a scan can look like when it is queued
  Time,      \* the times a phone can report
  OpensAt, ClosesAt, MaxAge  \* the gate's schedule and MANIFEST_MAX_AGE_MS

ASSUME ClaimsAreClaims ==
  \A c \in Claim : /\ c.scannedAt \in Time /\ c.outcome \in Outcomes
                   /\ c.overridden \in BOOLEAN /\ c.guests \in Nat
ASSUME ClaimsCanBeAmended ==
  \A c \in Claim, n \in 0..MaxGuests : [c EXCEPT !.guests = n] \in Claim
ASSUME CodesAreNotNull == NULL \notin Code
ASSUME MultiUseCodes == MultiUse \subseteq Code
ASSUME TimesAreIntegers == Time \subseteq Int
ASSUME BoundsAreNatural == MaxEvent \in Nat /\ MaxLimit \in Nat \ {0} /\ MaxGuests \in Nat

\* A ScanEvent.  The numbers stand for the random client ids and follow the
\* order in which the scans were taken (the outbox's queuedAt).
Event == 1..MaxEvent
Oldest(S) == CHOOSE e \in S : \A f \in S : e <= f

VARIABLES
  scan,       \* the scans taken: what each event's queue entry says, or NULL
  pass,       \* table Pass joined with Registration.status, by code
  checkIn,    \* table CheckIn, by the pass's code (passId is UNIQUE)
  scanEvent,  \* table ScanEvent, by event (clientEventId is UNIQUE)
  scanCount,  \* ScannerDevice.scanCount
  blocked,    \* ScannerDevice.isBlocked
  req,        \* the requests being served
  reversed    \* history: codes whose check-in the desk has reversed

tables == <<pass, checkIn, scanEvent>>
vars == <<scan, pass, checkIn, scanEvent, scanCount, blocked, req, reversed>>

-----------------------------------------------------------------------------
(* Rows and requests.                                                       *)

PassRow == [status : PassStatuses, registration : RegistrationStatuses \cup {"REJECTED"},
            scanLimit : 0..MaxLimit, guestCount : 0..MaxGuests]
CheckInRow == [winner : Event, guests : 0..MaxGuests]
EventRow == [code : Code \cup {NULL}, outcome : Outcomes \cup {"NOT_FOUND"},
             reason : Reasons \cup {"admin_override"}, duplicateOf : Event \cup {NULL}]
ScanRow == [dev : Device, claim : Claim]
KnownPass == [status : PassStatuses, registration : RegistrationStatuses, checkedIn : BOOLEAN,
              scanLimit : Nat, scansCount : Nat]

\* The answer to one event, and what a request has read of one pass.
Result == [outcome : Outcomes \cup {"NOT_FOUND"}, agreed : BOOLEAN,
           collidedWith : Event \cup {NULL}, fresh : BOOLEAN]
Live == [row : PassRow, checkIn : CheckInRow \cup {NULL}, used : Nat]

ASSUME NullIsNoRow ==
  NULL \notin PassRow \cup CheckInRow \cup EventRow \cup ScanRow \cup KnownPass
                \cup Result \cup Live

Recorded(e) == scanEvent[e] # NULL
Unused == {e \in Event : scan[e] = NULL /\ scanEvent[e] = NULL}

\* The events that let somebody in on this code (_count.scanEvents).
AdmittedEvents(c) ==
  {e \in Event : scanEvent[e] # NULL /\ scanEvent[e].code = c /\ scanEvent[e].outcome = "ADMITTED"}

Idle == [pc |-> "idle"]

NewRequest(d, body, gen) ==
  [pc |-> "resolve", dev |-> d, body |-> body, gen |-> gen, todo |-> DOMAIN body,
   live |-> NULL, winner |-> NULL, results |-> [e \in Event |-> NULL]]

\* LIVE_PASS_SELECT: the row, its check-in and the count, read together.
Snapshot(c) == [row |-> pass[c], checkIn |-> checkIn[c],
                used |-> Cardinality(AdmittedEvents(c))]

ToKnownPass(live) ==
  [status       |-> live.row.status,
   registration |-> IF live.row.registration = "REJECTED" THEN "REVISION_REQUESTED"
                    ELSE live.row.registration,
   checkedIn    |-> live.checkIn # NULL,
   scanLimit    |-> live.row.scanLimit,
   scansCount   |-> live.used]

ServerOutcome(decided, signature, known, code) ==
  IF code = NULL THEN "INVALID"
  ELSE IF known # NULL THEN decided
  ELSE IF signature \in {"INVALID", "UNKNOWN_KEY"} THEN "INVALID"
  ELSE "NOT_FOUND"

\* The code the server parses out of the current event.
CurrentCode(q) == ServerParse(q.body[Oldest(q.todo)].raw).code

\* The verdict on the request's current event, from what the request has read.
Verdict(q) ==
  LET claim    == q.body[Oldest(q.todo)]
      parsed   == ServerParse(claim.raw)
      known    == IF q.live = NULL THEN NULL ELSE ToKnownPass(q.live)
      decision == DecideScan(ScanInput(parsed, claim.raw.method, claim.scannedAt), known,
                             [generatedAt |-> q.gen, maxAge |-> MaxAge,
                              opensAt |-> OpensAt, closesAt |-> ClosesAt])
      outcome  == ServerOutcome(decision.outcome, parsed.signature, known, parsed.code)
      override == claim.overridden /\ decision.overridable
  IN [code    |-> parsed.code,
      outcome |-> outcome,
      reason  |-> decision.reason,
      admits  |-> /\ outcome = "ADMITTED"
                  /\ decision.admits \/ override
                  /\ q.live # NULL]

\* A request that ends without an answer has nothing more to tell.
Ended(q, how) == [q EXCEPT !.pc = how, !.todo = {}, !.live = NULL, !.winner = NULL,
                           !.results = [e \in Event |-> NULL]]

\* Wrong on purpose: the answer repeats what the phone claimed.
AnsweredAsClaimed(q, e, outcome, agreed, collidedWith, fresh) ==
  [q EXCEPT !.pc = "find", !.todo = @ \ {e}, !.live = NULL, !.winner = NULL,
            !.results[e] = [outcome |-> q.body[e].outcome, agreed |-> agreed,
                            collidedWith |-> collidedWith, fresh |-> fresh]]

\* Wrong on purpose: the next event is judged with this event's snapshot.
AnsweredKeepingLive(q, e, outcome, agreed, collidedWith, fresh) ==
  [q EXCEPT !.pc = "find", !.todo = @ \ {e}, !.winner = NULL,
            !.results[e] = [outcome |-> outcome, agreed |-> agreed,
                            collidedWith |-> collidedWith, fresh |-> fresh]]

\* What is left of a request after one event has been answered.
Answered(q, e, outcome, agreed, collidedWith, fresh) ==
  [q EXCEPT !.pc = "find", !.todo = @ \ {e}, !.live = NULL, !.winner = NULL,
            !.results[e] = [outcome |-> outcome, agreed |-> agreed,
                            collidedWith |-> collidedWith, fresh |-> fresh]]

\* Wrong on purpose: only an attempt on a pass that is inside already names it.
RowOfNewcomer(v, live, outcome, duplicateOf) ==
  [code |-> IF live = NULL \/ live.checkIn = NULL THEN NULL ELSE v.code,
   outcome |-> outcome, reason |-> v.reason, duplicateOf |-> duplicateOf]

Row(v, live, outcome, duplicateOf) ==
  [code |-> IF live = NULL THEN NULL ELSE v.code,
   outcome |-> outcome, reason |-> v.reason, duplicateOf |-> duplicateOf]

-----------------------------------------------------------------------------
(* The scanners, as the server sees them.                                   *)

\* A phone queues a scan under the next client event id.
Take(d, c) ==
  /\ Unused # {}
  /\ scan' = [scan EXCEPT ![Oldest(Unused)] = [dev |-> d, claim |-> c]]
  /\ UNCHANGED <<tables, scanCount, blocked, req, reversed>>

\* A volunteer corrects the head count of a scan the phone still holds.
AmendGuests(e, n) ==
  /\ scan[e] # NULL
  /\ scan' = [scan EXCEPT ![e].claim.guests = n]
  /\ UNCHANGED <<tables, scanCount, blocked, req, reversed>>

\* A phone posts some of the scans it has taken, for the first time or again.
Post(r, d, S, gen) ==
  /\ req[r] = Idle
  /\ S # {}
  /\ \A e \in S : scan[e] # NULL /\ scan[e].dev = d
  /\ req' = [req EXCEPT ![r] = NewRequest(d, [e \in S |-> scan[e].claim], gen)]
  /\ UNCHANGED <<scan, tables, scanCount, blocked, reversed>>

\* The answer, or the broken connection, is gone from the server.
Collect(r) ==
  /\ req[r].pc \in {"ok", "conflict", "error"}
  /\ req' = [req EXCEPT ![r] = Idle]
  /\ UNCHANGED <<scan, tables, scanCount, blocked, reversed>>

-----------------------------------------------------------------------------
(* One request.                                                             *)

\* resolveGate and resolveDevice: a blocked device is turned away with a 409.
Resolve(r) ==
  /\ req[r].pc = "resolve"
  /\ req' = [req EXCEPT ![r] = IF @.dev \in blocked THEN Ended(@, "conflict")
                             ELSE [@ EXCEPT !.pc = "find"]]
  /\ UNCHANGED <<scan, tables, scanCount, blocked, reversed>>

\* findUnique by clientEventId: an event that has a row is replayed from it.
Replay(r) ==
  LET q == req[r]
      e == Oldest(q.todo)
      row == scanEvent[e]
  IN /\ q.pc = "find" /\ q.todo # {}
     /\ Recorded(e)
     /\ req' = [req EXCEPT ![r] = Answered(q, e, row.outcome, q.body[e].outcome = row.outcome,
                                           row.duplicateOf, FALSE)]
     /\ UNCHANGED <<scan, tables, scanCount, blocked, reversed>>

FindNothing(r) ==
  LET q == req[r] IN
  /\ q.pc = "find" /\ q.todo # {}
  /\ ~Recorded(Oldest(q.todo))
  /\ req' = [req EXCEPT ![r].pc = "read"]
  /\ UNCHANGED <<scan, tables, scanCount, blocked, reversed>>

\* The live pass, by the code the server parses out of the raw string.
Read(r) ==
  LET q == req[r]
      code == CurrentCode(q)
  IN /\ q.pc = "read"
     /\ req' = [req EXCEPT ![r].pc = "write",
                           ![r].live = IF code = NULL \/ code \notin Code THEN NULL
                                       ELSE IF pass[code] = NULL THEN NULL
                                       ELSE Snapshot(code)]
     /\ UNCHANGED <<scan, tables, scanCount, blocked, reversed>>

\* duplicateOfId of a refused scan: the check-in the snapshot held.
CollidedWith(q, v) ==
  IF v.outcome = "DUPLICATE" /\ q.live # NULL /\ q.live.checkIn # NULL
    THEN q.live.checkIn.winner ELSE NULL

\* A duplicateOfId must reference a CheckIn that still exists.
Exists(c, winner) == winner = NULL \/ (checkIn[c] # NULL /\ checkIn[c].winner = winner)

Refuse(r) ==
  LET q == req[r]
      e == Oldest(q.todo)
      v == Verdict(q)
      dup == CollidedWith(q, v)
  IN /\ q.pc = "write" /\ ~v.admits
     /\ ~Recorded(e) /\ Exists(v.code, dup)
     /\ scanEvent' = [scanEvent EXCEPT ![e] = Row(v, q.live, v.outcome, dup)]
     /\ req' = [req EXCEPT ![r] = Answered(q, e, v.outcome, q.body[e].outcome = v.outcome,
                                           dup, TRUE)]
     /\ UNCHANGED <<scan, pass, checkIn, scanCount, blocked, reversed>>

\* Wrong on purpose: CheckIn.passId is not UNIQUE.
NeverTaken(q, code) == FALSE

\* The arrival the transaction would insert is there already (CheckIn.passId).
Taken(q, code) == q.live.checkIn = NULL /\ checkIn[code] # NULL

\* Wrong on purpose: the count is taken as it came.
GuestsAsTold(q, e) == q.body[e].guests

\* The companions that come in: never more than the pass covers.
GuestsLetIn(q, e) == IF q.body[e].guests < q.live.row.guestCount
                       THEN q.body[e].guests ELSE q.live.row.guestCount

\* The transaction of step 6: the attempt, and the arrival if the snapshot
\* held none.  Either both rows are written or neither.
Admit(r) ==
  LET q == req[r]
      e == Oldest(q.todo)
      v == Verdict(q)
  IN /\ q.pc = "write" /\ v.admits
     /\ ~Recorded(e) /\ ~Taken(q, v.code)
     /\ scanEvent' = [scanEvent EXCEPT ![e] = Row(v, q.live, "ADMITTED", NULL)]
     /\ checkIn' = IF q.live.checkIn # NULL THEN checkIn
                   ELSE [checkIn EXCEPT ![v.code] = [winner |-> e, guests |-> GuestsLetIn(q, e)]]
     /\ req' = [req EXCEPT ![r] = Answered(q, e, "ADMITTED", q.body[e].outcome = "ADMITTED",
                                           NULL, TRUE)]
     /\ UNCHANGED <<scan, pass, scanCount, blocked, reversed>>

\* The transaction hit a unique index (P2002) and rolled back.
Collide(r) ==
  LET q == req[r]
      v == Verdict(q)
  IN /\ q.pc = "write" /\ v.admits
     /\ Recorded(Oldest(q.todo)) \/ Taken(q, v.code)
     /\ req' = [req EXCEPT ![r].pc = "collided"]
     /\ UNCHANGED <<scan, tables, scanCount, blocked, reversed>>

\* Wrong on purpose: waits for a winner that may have been reversed.
FindWinnerThere(r) ==
  LET q == req[r]
      winner == checkIn[Verdict(q).code]
  IN /\ q.pc = "collided" /\ winner # NULL
     /\ req' = [req EXCEPT ![r].pc = "concede", ![r].winner = winner.winner]
     /\ UNCHANGED <<scan, tables, scanCount, blocked, reversed>>

\* Look up the check-in that won; it may have been reversed meanwhile.
FindWinner(r) ==
  LET q == req[r]
      winner == checkIn[Verdict(q).code]
  IN /\ q.pc = "collided"
     /\ req' = [req EXCEPT ![r].pc = "concede",
                           ![r].winner = IF winner = NULL THEN NULL ELSE winner.winner]
     /\ UNCHANGED <<scan, tables, scanCount, blocked, reversed>>

\* Write the attempt as the DUPLICATE it turned out to be.
Concede(r) ==
  LET q == req[r]
      e == Oldest(q.todo)
      v == [Verdict(q) EXCEPT !.reason = "ALREADY_CHECKED_IN"]
  IN /\ q.pc = "concede"
     /\ ~Recorded(e) /\ Exists(v.code, q.winner)
     /\ scanEvent' = [scanEvent EXCEPT ![e] = Row(v, q.live, "DUPLICATE", q.winner)]
     /\ req' = [req EXCEPT ![r] = Answered(q, e, "DUPLICATE", FALSE, q.winner, TRUE)]
     /\ UNCHANGED <<scan, pass, checkIn, scanCount, blocked, reversed>>

\* An insert outside the try block violates a constraint: a second row for one
\* clientEventId, or a reference to a check-in that is gone.  The route answers 500.
Violate(r) ==
  LET q == req[r]
      e == Oldest(q.todo)
      v == Verdict(q)
  IN /\ \/ /\ q.pc = "write" /\ ~v.admits
           /\ Recorded(e) \/ ~Exists(v.code, CollidedWith(q, v))
        \/ /\ q.pc = "concede"
           /\ Recorded(e) \/ ~Exists(v.code, q.winner)
     /\ req' = [req EXCEPT ![r] = Ended(@, "error")]
     /\ UNCHANGED <<scan, tables, scanCount, blocked, reversed>>

\* The process dies or a statement fails; what was committed stays committed.
Crash(r) ==
  /\ req[r].pc \notin {"idle", "ok", "conflict", "error"}
  /\ req' = [req EXCEPT ![r] = Ended(@, "error")]
  /\ UNCHANGED <<scan, tables, scanCount, blocked, reversed>>

\* Wrong on purpose: replays are counted again.
AllResults(q) == {e \in DOMAIN q.body : q.results[e] # NULL}

FreshResults(q) == {e \in DOMAIN q.body : q.results[e] # NULL /\ q.results[e].fresh}

\* All events answered: add the fresh ones to the device's counter and reply.
Finish(r) ==
  LET q == req[r] IN
  /\ q.pc = "find" /\ q.todo = {}
  /\ scanCount' = [scanCount EXCEPT ![q.dev] = @ + Cardinality(FreshResults(q))]
  /\ req' = [req EXCEPT ![r].pc = "ok"]
  /\ UNCHANGED <<scan, tables, blocked, reversed>>

-----------------------------------------------------------------------------
(* The control room.  Each handler reads a row, checks it and writes without *)
(* a lock.  A step here is the handler's last write: its guard is what still *)
(* binds at that moment, the unique index and what the write itself names,   *)
(* and every other check was made on a row the pass may since have left.     *)

\* review(APPROVE) or an auto-approved submission: issuePass.
IssuePass(c) ==
  /\ pass[c] = NULL
  /\ \E g \in 0..MaxGuests :
       pass' = [pass EXCEPT ![c] = [status |-> "ACTIVE", registration |-> "APPROVED",
                                    scanLimit |-> 1, guestCount |-> g]]
  /\ UNCHANGED <<scan, checkIn, scanEvent, scanCount, blocked, req, reversed>>

Revoke(c) ==
  /\ pass[c] # NULL /\ pass[c].status = "ACTIVE"
  /\ pass' = [pass EXCEPT ![c].status = "REVOKED"]
  /\ UNCHANGED <<scan, checkIn, scanEvent, scanCount, blocked, req, reversed>>

Restore(c) ==
  /\ pass[c] # NULL /\ pass[c].status = "REVOKED"
  /\ pass' = [pass EXCEPT ![c].status = "ACTIVE"]
  /\ UNCHANGED <<scan, checkIn, scanEvent, scanCount, blocked, req, reversed>>

\* review: APPROVE and REQUEST_REVISION leave an existing pass as it is, REJECT
\* also revokes it.  (Between its two writes the pass is ACTIVE and the registration
\* REJECTED; a restore after the rejection reaches that state here too.)
Review(c, status) ==
  /\ pass[c] # NULL
  /\ pass' = [pass EXCEPT ![c].registration = status,
                          ![c].status = IF status = "REJECTED" THEN "REVOKED" ELSE @]
  /\ UNCHANGED <<scan, checkIn, scanEvent, scanCount, blocked, req, reversed>>

\* undoRegistrationReview: one transaction, and the pass is not given back.
UndoRegistrationReview(c) ==
  /\ pass[c] # NULL /\ pass[c].registration # "PENDING_REVIEW"
  /\ pass' = [pass EXCEPT ![c].registration = "PENDING_REVIEW", ![c].status = "REVOKED"]
  /\ UNCHANGED <<scan, checkIn, scanEvent, scanCount, blocked, req, reversed>>

\* The desk's new limit, absolute or by a delta from a limit read before.
AdjustPassQrLife(c, limit) ==
  /\ pass[c] # NULL /\ (limit > 1 => c \in MultiUse)
  /\ pass' = [pass EXCEPT ![c].scanLimit = limit]
  /\ UNCHANGED <<scan, checkIn, scanEvent, scanCount, blocked, req, reversed>>

\* recordManualCheckIn: the desk's own attempt and arrival, one transaction.
\* The registration's status and the scan limit are not consulted, and that the
\* pass was not REVOKED was read before the write: only CheckIn.passId binds.
RecordManualCheckIn(c, guests) ==
  LET e == Oldest(Unused) IN
  /\ Unused # {}
  /\ pass[c] # NULL /\ checkIn[c] = NULL
  /\ guests <= pass[c].guestCount
  /\ scanEvent' = [scanEvent EXCEPT ![e] = [code |-> c, outcome |-> "ADMITTED",
                                            reason |-> "admin_override", duplicateOf |-> NULL]]
  /\ checkIn' = [checkIn EXCEPT ![c] = [winner |-> e, guests |-> guests]]
  /\ UNCHANGED <<scan, pass, scanCount, blocked, req, reversed>>

\* Wrong on purpose: the attempt is deleted with the arrival it won.
ReverseByCascade(c) ==
  /\ checkIn[c] # NULL
  /\ checkIn' = [checkIn EXCEPT ![c] = NULL]
  /\ scanEvent' = [scanEvent EXCEPT ![checkIn[c].winner] = NULL]
  /\ reversed' = reversed \cup {c}
  /\ UNCHANGED <<scan, pass, scanCount, blocked, req>>

\* reverseCheckIn deletes the CheckIn; ScanEvent.duplicateOf is ON DELETE SET NULL.
ReverseCheckIn(c) ==
  /\ checkIn[c] # NULL
  /\ checkIn' = [checkIn EXCEPT ![c] = NULL]
  /\ scanEvent' = [e \in Event |->
        IF Recorded(e) /\ scanEvent[e].duplicateOf = checkIn[c].winner
          THEN [scanEvent[e] EXCEPT !.duplicateOf = NULL] ELSE scanEvent[e]]
  /\ reversed' = reversed \cup {c}
  /\ UNCHANGED <<scan, pass, scanCount, blocked, req>>

\* An operator sets or clears isBlocked in the database.
SetBlocked(d) ==
  /\ blocked' = IF d \in blocked THEN blocked \ {d} ELSE blocked \cup {d}
  /\ UNCHANGED <<scan, tables, scanCount, req, reversed>>

-----------------------------------------------------------------------------
Init ==
  /\ scan = [e \in Event |-> NULL]
  /\ pass = [c \in Code |-> NULL]
  /\ checkIn = [c \in Code |-> NULL]
  /\ scanEvent = [e \in Event |-> NULL]
  /\ scanCount = [d \in Device |-> 0]
  /\ blocked = {}
  /\ req = [r \in Request |-> Idle]
  /\ reversed = {}

Serve(r) == \/ Resolve(r) \/ Replay(r) \/ FindNothing(r) \/ Read(r) \/ Refuse(r) \/ Admit(r)
            \/ Collide(r) \/ FindWinner(r) \/ Concede(r) \/ Violate(r) \/ Finish(r)

Desk(c) == \/ IssuePass(c) \/ Revoke(c) \/ Restore(c) \/ ReverseCheckIn(c)
           \/ UndoRegistrationReview(c)
           \/ \E s \in {"APPROVED", "REVISION_REQUESTED", "REJECTED"} : Review(c, s)
           \/ \E n \in 0..MaxLimit : AdjustPassQrLife(c, n)
           \/ \E g \in 0..MaxGuests : RecordManualCheckIn(c, g)

Phones == \/ \E d \in Device, c \in Claim : Take(d, c)
          \/ \E r \in Request, d \in Device, S \in SUBSET Event, gen \in Time : Post(r, d, S, gen)
          \/ \E e \in Event, n \in 0..MaxGuests : AmendGuests(e, n)
          \/ \E r \in Request : Collect(r)

Next == \/ \E r \in Request : Serve(r) \/ Crash(r)
        \/ \E c \in Code : Desk(c)
        \/ \E d \in Device : SetBlocked(d)
        \/ Phones

\* The process runs the request to its end unless it crashes.
Fairness == \A r \in Request : WF_vars(Serve(r))

Spec == Init /\ [][Next]_vars /\ Fairness

-----------------------------------------------------------------------------
(* Properties.                                                              *)

Bodies == UNION {[S -> Claim] : S \in SUBSET Event}

BusyRequest ==
  [pc : {"resolve", "find", "read", "write", "collided", "concede", "ok", "conflict", "error"},
   dev : Device, body : Bodies, gen : Time, todo : SUBSET Event,
   live : Live \cup {NULL}, winner : Event \cup {NULL}, results : [Event -> Result \cup {NULL}]]

RequestOK(q) ==
  /\ q.todo \subseteq DOMAIN q.body
  /\ q.pc \in {"read", "write", "collided", "concede"} => q.todo # {}
  /\ q.pc \in {"collided", "concede"} => q.live # NULL
  /\ q.live # NULL => /\ q.pc \in {"write", "collided", "concede"}
                      /\ CurrentCode(q) \in Code

\* Every table, counter and request has the shape the schema and the code give it.
TypeOK ==
  /\ scan \in [Event -> ScanRow \cup {NULL}]
  /\ pass \in [Code -> PassRow \cup {NULL}]
  /\ checkIn \in [Code -> CheckInRow \cup {NULL}]
  /\ scanEvent \in [Event -> EventRow \cup {NULL}]
  /\ scanCount \in [Device -> Nat]
  /\ blocked \subseteq Device
  /\ req \in [Request -> BusyRequest \cup {Idle}]
  /\ \A r \in Request : req[r] # Idle => RequestOK(req[r])
  /\ reversed \subseteq Code

\* An arrival always has the attempt that won it on record, as ADMITTED and for
\* the same pass, whatever crashes or races (processEvent step 6: "the two rows
\* are one fact").
ArrivalHasAttempt ==
  \A c \in Code : checkIn[c] # NULL => checkIn[c].winner \in AdmittedEvents(c)

\* A pass worth one scan lets in one attempt and no more, however many lanes,
\* retries and overlapping requests bring it in, unless the desk has reversed
\* its check-in (the unique index on CheckIn.passId is the only lock there is).
SingleUseAdmitsOnce ==
  \A c \in Code \ (MultiUse \cup reversed) :
    \A e, f \in AdmittedEvents(c) : e = f

\* A phone is told only verdicts that are on record, and the same verdict each
\* time: the phone deletes its copy on the strength of the answer.
AnswersAreOnRecord ==
  \A r \in Request : req[r] # Idle =>
    \A e \in Event : req[r].results[e] # NULL =>
      Recorded(e) /\ scanEvent[e].outcome = req[r].results[e].outcome

\* A scan that is posted twice, or by two overlapping requests, is counted once
\* (syncScans counts the results that are not alreadyRecorded).
NoScanCountedTwice ==
  \A d \in Device :
    scanCount[d] <= Cardinality({e \in Event : Recorded(e) /\ scan[e] # NULL /\ scan[e].dev = d})

\* A request that is being served is answered, with a verdict or an error.
RequestsAreAnswered ==
  \A r \in Request : req[r].pc = "resolve" ~> req[r].pc \in {"ok", "conflict", "error"}

\* What three comments of the code say, and the code does not do.

\* An override the volunteer was allowed to make is honoured: the scan is put on
\* record as the admission it was (processEvent step 4).
SanctionedOverrideAdmits ==
  \A e \in Event :
    (/\ Recorded(e) /\ scan[e] # NULL
     /\ scan[e].claim.overridden
     /\ scanEvent[e].reason \in WindowReasons /\ scanEvent[e].code # NULL)
      => scanEvent[e].outcome = "ADMITTED"

\* A pass whose check-in is not there, because it was reversed, is not turned
\* away as already used (reverseCheckIn: "so a student who was scanned in error
\* can enter").
ReversedPassCanEnter ==
  \A r \in Request :
    LET q == req[r] IN
      (q.pc = "write" /\ q.live # NULL) =>
        ((q.live.checkIn = NULL /\ q.live.row.scanLimit > 0) => Verdict(q).outcome # "DUPLICATE")

\* No pass is admitted more often than its scan limit, as long as the desk only
\* raises limits (Pass.scanLimit: "how many times this pass can be scanned").
LimitIsKept ==
  \A c \in Code : pass[c] # NULL => Cardinality(AdmittedEvents(c)) <= pass[c].scanLimit

\* The tables keep the gate's promise (module Arrivals): the check-ins and the
\* verdicts on record change only as that specification allows.
Promise == INSTANCE Arrivals WITH
  Attempt <- Event, Pass <- Code, Outcome <- Outcomes \cup {"NOT_FOUND"},
  verdict <- [e \in Event |-> IF scanEvent[e] = NULL THEN NULL
                              ELSE [pass |-> scanEvent[e].code, outcome |-> scanEvent[e].outcome]],
  entered <- [c \in Code |-> IF checkIn[c] = NULL THEN NULL ELSE checkIn[c].winner]
KeepsThePromise == Promise!Spec
=============================================================================
