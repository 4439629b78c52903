-------------------------------- MODULE Gate --------------------------------
(***************************************************************************)
(* The gate as a whole: the phones of module Scanner, the endpoint and the  *)
(* control room of module SyncServer, the manifest endpoint                 *)
(* (apps/web/lib/server/scanner/manifest.ts) and the network between them.  *)
(*                                                                          *)
(* The network loses requests and answers: a phone may give up on a request *)
(* that the server goes on to serve.  now is the server's clock; any two    *)
(* writes that stamp a row get different times, so that "changed after the  *)
(* manifest" is never a tie.  The phones' clocks are exact.                 *)
(***************************************************************************)
EXTENDS ScanDecision, FiniteSets

CONSTANTS Device, Code, MultiUse, MaxEvent, MaxLimit, MaxGuests, Request, Claim, Time,
          OpensAt, ClosesAt, MaxAge, BatchSize, MaxAttempts, Slot,
          Raw,         \* what there is to scan
          MaxVersion,  \* bound on SystemConfig.manifestVersion
          MaxNow       \* bound on the clock's idle ticks and the desk's reviews

VARIABLES scan, pass, checkIn, scanEvent, scanCount, blocked, req, reversed,
          store, meta, queue, busy, drain, refresh, wiped, network,
          now,      \* the server's clock
          stamp,    \* by code: the latest of issuedAt, registration.updatedAt
                    \* and the check-in's recordedAt
          version,  \* SystemConfig.manifestVersion
          letIn,    \* history: by phone, the passes it has let in and has not
                    \* since been given leave to forget
          overtaken, \* history: by phone, the passes of letIn whose mark a
                    \* manifest has taken back before the scan was settled
          unbacked  \* history: by phone, the passes it has marked for a scan that
                    \* was cut off before the outbox had it

ASSUME BatchesAreBounded == BatchSize \in Nat \ {0} /\ MaxAttempts \in Nat \ {0}

ASSUME BoundsAreNatural ==
  MaxEvent \in Nat /\ MaxLimit \in Nat \ {0} /\ MaxGuests \in Nat /\ MaxVersion \in Nat \ {0}
ASSUME CodesAreCodes == NULL \notin Code /\ MultiUse \subseteq Code
ASSUME RawsNameCodes == \A raw \in Raw : raw.code \in Code \cup {NULL}

Server == INSTANCE SyncServer
Phone == INSTANCE Scanner

\* What a queue entry can say of its scan.  Claim is as much of it as TLC needs.
AnyClaim == [raw : Raw, scannedAt : Nat, outcome : Outcomes, overridden : BOOLEAN, guests : Nat]
ScansUnderWay == [pc : {"mark", "enqueue"}, code : Code \cup {NULL}, admitted : BOOLEAN,
                  claim : AnyClaim]

ASSUME NullIsNoRow ==
  NULL \notin Server!PassRow \cup Server!CheckInRow \cup Server!EventRow \cup Server!KnownPass
                \cup Server!Result \cup Server!Live \cup [dev : Device, claim : AnyClaim]
                \cup Phone!Row \cup Phone!Entry \cup Phone!Meta \cup ScansUnderWay

Event == 1..MaxEvent
server == <<scan, pass, checkIn, scanEvent, scanCount, blocked, req, reversed>>
phone == <<store, meta, queue, busy, drain, refresh, wiped, network>>
rest == <<now, stamp, version, letIn, overtaken, unbacked>>
vars == <<server, phone, rest>>

-----------------------------------------------------------------------------
(* Scans.                                                                   *)

StartScan(d) ==
  /\ \E raw \in Raw, override \in BOOLEAN : Phone!StartScan(d, raw, override, now)
  /\ UNCHANGED <<server, rest>>

MarkScan(d) ==
  LET marked == IF Phone!Find(d, busy[d].code) = NULL THEN {} ELSE {busy[d].code} IN
  /\ Phone!MarkScan(d)
  /\ letIn' = [letIn EXCEPT ![d] = @ \cup marked]
  /\ overtaken' = [overtaken EXCEPT ![d] = @ \ marked]
  /\ UNCHANGED <<server, now, stamp, version, unbacked>>

Enqueue(d) ==
  /\ Server!Unused # {}
  /\ Phone!Enqueue(d, Server!Oldest(Server!Unused))
  /\ Server!Take(d, busy[d].claim)
  /\ UNCHANGED rest

Amend(d, e, n) ==
  /\ Phone!Amendable(d, e)
  /\ Server!AmendGuests(e, n)
  /\ UNCHANGED <<phone, rest>>

-----------------------------------------------------------------------------
(* The outbox and the network.                                              *)

StartDrain(d) == Phone!StartDrain(d) /\ UNCHANGED <<server, rest>>
EndDrain(d) == Phone!EndDrain(d) /\ UNCHANGED <<server, rest>>

SendBatch(d, r) ==
  /\ Phone!SendBatch(d, r)
  /\ Server!Post(r, d, Phone!NextBatch(d), drain[d].gen)
  /\ UNCHANGED rest

Awaits(d, r) == drain[d].pc = "waiting" /\ drain[d].req = r

\* The answer arrives.
Answer(d, r) ==
  LET results == req[r].results IN
  /\ Awaits(d, r)
  /\ Server!Collect(r)
  /\ IF req[r].pc = "ok"
       THEN Phone!Acknowledge(d, {e \in Event : results[e] # NULL},
              {e \in Event : results[e] # NULL /\ results[e].collidedWith # NULL})
       ELSE Phone!Failed(d)
  /\ UNCHANGED rest

\* The request never reached the server, or its answer is lost: fetch throws, or
\* something on the way answers with an error, while the server may be at work.
GiveUp(d, r) ==
  /\ Awaits(d, r)
  /\ Phone!Failed(d)
  /\ UNCHANGED <<server, rest>>

\* Something that is no answer arrives instead, with a 200.
GarbledAnswer(d) ==
  /\ Phone!Unreadable(d)
  /\ UNCHANGED <<server, rest>>

\* A request the phone no longer waits for ends unseen.
Forget(r) ==
  /\ \A d \in Device : ~Awaits(d, r)
  /\ Server!Collect(r)
  /\ UNCHANGED <<phone, rest>>

Fold(d) == Phone!Fold(d) /\ UNCHANGED <<server, rest>>
Folded(d) == Phone!Folded(d) /\ UNCHANGED <<server, rest>>

-----------------------------------------------------------------------------
(* The manifest.                                                            *)

\* Wrong on purpose: any attempt on record, also a refused one, marks the pass.
ToManifestPassOfAttempts(c) ==
  [status |-> pass[c].status, registration |-> pass[c].registration,
   checkedIn |-> \E e \in Event : Server!Recorded(e) /\ scanEvent[e].code = c,
   scanLimit |-> pass[c].scanLimit,
   scansCount |-> Cardinality(Server!AdmittedEvents(c)), guestCount |-> pass[c].guestCount]

ToManifestPass(c) ==
  [status |-> pass[c].status, registration |-> pass[c].registration,
   checkedIn |-> checkIn[c] # NULL, scanLimit |-> pass[c].scanLimit,
   scansCount |-> Cardinality(Server!AdmittedEvents(c)), guestCount |-> pass[c].guestCount]

\* buildManifest: a delta only for the version the phone already holds, and
\* then the rows stamped since.
BuildManifest(since) ==
  LET delta == since # NULL /\ since.version = version IN
  [version |-> version, generatedAt |-> now, full |-> ~delta,
   rows |-> [c \in Code |->
      IF pass[c] # NULL /\ pass[c].registration # "REJECTED"
         /\ (delta => stamp[c] > since.generatedAt)
        THEN ToManifestPass(c) ELSE NULL]]

AskManifest(d, k, force) ==
  Phone!AskManifest(d, k, force) /\ UNCHANGED <<server, rest>>
ServeManifest(d, k) ==
  /\ refresh[d][k] # NULL
  /\ Phone!Receive(d, k, BuildManifest(refresh[d][k].since))
  /\ UNCHANGED <<server, rest>>
DropManifest(d, k) == Phone!DropManifest(d, k) /\ UNCHANGED <<server, rest>>
Protect(d, k) == Phone!Protect(d, k) /\ UNCHANGED <<server, rest>>

\* A scan that has marked its pass and has yet to store its entry.
MarkedFor(d, c) ==
  busy[d] # NULL /\ busy[d].pc = "enqueue" /\ busy[d].admitted /\ busy[d].code = c

\* The rows a manifest replaces: with a delta, those it has and protects by no
\* scan that was queued when the codes were read.
Replaced(a) ==
  {c \in Code : a.response.full \/ (a.response.rows[c] # NULL /\ c \notin a.codes)}

\* Those among them that the manifest calls unused, or no longer knows.
TakenBack(a) ==
  {c \in Replaced(a) : a.response.rows[c] = NULL \/ ScansUsed(a.response.rows[c]) = 0}

\* The server's word on the phone's scan of a pass is still to come, or it is that
\* somebody is in on it.
Unsettled(d, c) ==
  MarkedFor(d, c) \/ c \in Phone!PendingAdmitted(d) \/ Server!AdmittedEvents(c) # {}

\* The server is authoritative once a scan has drained: it alone gives leave to
\* forget.  Any other manifest that takes a mark back has overtaken the scan.
ApplyManifest(d, k) ==
  LET a == refresh[d][k]
      owed == {c \in TakenBack(a) : Unsettled(d, c)}
  IN /\ Phone!Apply(d, k)
     /\ letIn' = [letIn EXCEPT ![d] = @ \ (TakenBack(a) \ owed)]
     /\ overtaken' = [overtaken EXCEPT ![d] = letIn'[d] \cap (@ \cup owed)]
     /\ unbacked' = [unbacked EXCEPT ![d] = @ \ Replaced(a)]
     /\ UNCHANGED <<server, now, stamp, version>>

-----------------------------------------------------------------------------
(* The server's writes, with their stamps and version bumps.                *)

\* issuedAt, registration.updatedAt and recordedAt; nothing else is stamped, so
\* a pass whose check-in is reversed looks unchanged.
Stamped(c) ==
  \/ pass[c] = NULL /\ pass'[c] # NULL
  \/ pass[c] # NULL /\ pass'[c] # NULL /\ pass'[c].registration # pass[c].registration
  \/ checkIn[c] = NULL /\ checkIn'[c] # NULL

StampWrites ==
  LET written == {c \in Code : Stamped(c)} IN
  /\ now' = IF written = {} THEN now ELSE now + 1
  /\ stamp' = [c \in Code |-> IF c \in written THEN now' ELSE stamp[c]]

Serve(r) == Server!Serve(r) /\ StampWrites /\ UNCHANGED <<phone, version, letIn, overtaken, unbacked>>
Crash(r) == Server!Crash(r) /\ UNCHANGED <<phone, rest>>

\* Control-room writes that end in bumpManifestVersion.
DeskBump(c) ==
  /\ version < MaxVersion /\ version' = version + 1
  /\ \/ Server!Revoke(c) \/ Server!Restore(c)
     \/ \E n \in 0..MaxLimit : Server!AdjustPassQrLife(c, n)
  /\ StampWrites /\ UNCHANGED <<phone, letIn, overtaken, unbacked>>

\* Control-room writes that do not.
DeskQuiet(c) ==
  /\ \/ Server!IssuePass(c)
     \/ \E g \in 0..MaxGuests : Server!RecordManualCheckIn(c, g)
     \/ Server!ReverseCheckIn(c)
     \/ now < MaxNow /\ \E s \in {"APPROVED", "REVISION_REQUESTED"} : Server!Review(c, s)
  /\ StampWrites /\ UNCHANGED <<phone, version, letIn, overtaken, unbacked>>

\* Reviews that take the pass away: they bump if there was one to revoke.
DeskRevoking(c) ==
  /\ now < MaxNow
  /\ Server!Review(c, "REJECTED") \/ Server!UndoRegistrationReview(c)
  /\ version' = IF pass[c].status = "ACTIVE" THEN version + 1 ELSE version
  /\ version' <= MaxVersion
  /\ StampWrites /\ UNCHANGED <<phone, letIn, overtaken, unbacked>>

SetBlocked(d) == Server!SetBlocked(d) /\ UNCHANGED <<phone, rest>>

Tick == now < MaxNow /\ now' = now + 1 /\ UNCHANGED <<server, phone, stamp, version, letIn, overtaken, unbacked>>

Reload(d) ==
  /\ Phone!Reload(d)
  /\ unbacked' = [unbacked EXCEPT ![d] =
        @ \cup {c \in Code : MarkedFor(d, c) /\ store[d][c] # NULL}]
  /\ UNCHANGED <<server, now, stamp, version, letIn, overtaken>>
SignOut(d) ==
  /\ Phone!SignOut(d)
  /\ letIn' = [letIn EXCEPT ![d] = {}]
  /\ overtaken' = [overtaken EXCEPT ![d] = {}]
  /\ unbacked' = [unbacked EXCEPT ![d] = {}]
  /\ UNCHANGED <<server, now, stamp, version>>

Reconnect(d) == \E n \in Phone!Networks : Phone!Reconnect(d, n) /\ UNCHANGED <<server, rest>>

-----------------------------------------------------------------------------
Init ==
  /\ Server!Init /\ Phone!PhoneInit
  /\ now = 0 /\ version = 1
  /\ stamp = [c \in Code |-> 0]
  /\ letIn = [d \in Device |-> {}]
  /\ overtaken = [d \in Device |-> {}]
  /\ unbacked = [d \in Device |-> {}]

Scanning(d) == StartScan(d) \/ MarkScan(d) \/ Enqueue(d)
Delivering(d) == \/ StartDrain(d) \/ EndDrain(d) \/ Fold(d) \/ Folded(d)
                 \/ \E r \in Request : SendBatch(d, r) \/ Answer(d, r) \/ GiveUp(d, r)
Draining(d) == Delivering(d) \/ GarbledAnswer(d)
Refreshing(d) == \E k \in Slot : \/ \E force \in BOOLEAN : AskManifest(d, k, force)
                                 \/ ServeManifest(d, k) \/ DropManifest(d, k)
                                 \/ Protect(d, k) \/ ApplyManifest(d, k)

\* Phones, requests, manifests, the control room and the clock.
Running ==
  \/ \E d \in Device : \/ Scanning(d) \/ Draining(d) \/ Refreshing(d)
                       \/ Reload(d) \/ SignOut(d) \/ Reconnect(d)
                       \/ \E e \in Event, n \in 0..MaxGuests : Amend(d, e, n)
  \/ \E r \in Request : Serve(r) \/ Crash(r) \/ Forget(r)
  \/ \E c \in Code : DeskBump(c) \/ DeskRevoking(c) \/ DeskQuiet(c)
  \/ Tick

Next == Running \/ \E d \in Device : SetBlocked(d)

\* A page that stays open offers its outbox every twenty seconds, unless it is
\* offline, and follows each drain through: the browser ends every fetch somehow.
\* The server finishes what it has begun.
Fairness ==
  /\ \A d \in Device : WF_vars(MarkScan(d)) /\ WF_vars(Enqueue(d)) /\ WF_vars(Draining(d))
  /\ \A r \in Request : WF_vars(Serve(r)) /\ WF_vars(Forget(r))

Spec == Init /\ [][Next]_vars /\ Fairness

-----------------------------------------------------------------------------
(* Properties.                                                              *)

\* The tables, the stores and the clock keep their shapes.
TypeOK ==
  /\ Server!TypeOK /\ Phone!PhoneTypeOK
  /\ now \in Nat /\ version \in 1..MaxVersion
  /\ stamp \in [Code -> 0..now]
  /\ letIn \in [Device -> SUBSET Code]
  /\ overtaken \in [Device -> SUBSET Code]
  /\ unbacked \in [Device -> SUBSET Code]

\* Every scan a volunteer has seen the verdict of is in the phone's outbox until
\* the server has it on record, through lost answers, crashes, reloads and
\* sign-outs (outbox.ts: "nothing is deleted until the server has acknowledged").
NoScanLost ==
  \A e \in Event : scan[e] # NULL =>
    e \in Phone!Queued(scan[e].dev) \/ Server!Recorded(e)

\* A phone that has let a single-use pass in does not let it in again until the
\* server, with no scan of it on the way and nobody let in on it, sends a manifest
\* that calls the pass unused; however scans, drains, reloads and refreshes
\* interleave (markCheckedInLocally, and the merge of applyManifest).  What may
\* repeat is a pass whose mark a manifest has overtaken: see DeltaKeepsUnsynced and
\* UnsyncedAdmitRemembered.
NoRepeatBetweenManifests ==
  \A d \in Device : (busy[d] # NULL /\ busy[d].pc = "mark") =>
    busy[d].code \notin letIn[d] \ (MultiUse \cup overtaken[d])

\* A phone that calls a pass used has grounds: a scan of its own that let the pass
\* in, or an admission on the server's record, also one since reversed
\* (markCheckedInLocally after a verdict, applyManifest, and drainOutbox on a collision).
\* What may stand without them is a mark whose scan was cut off by a reload.
UsedHasGrounds ==
  \A d \in Device, c \in Code :
    (store[d][c] # NULL /\ store[d][c].checkedIn) =>
      \/ \E e \in Event : /\ scan[e] # NULL /\ scan[e].dev = d
                           /\ scan[e].claim.outcome = "ADMITTED"
                           /\ DeviceParse(scan[e].claim.raw).code = c
      \/ Server!AdmittedEvents(c) # {}
      \/ MarkedFor(d, c)
      \/ c \in unbacked[d]

\* However a head count is corrected and whenever the correction arrives, no
\* check-in has more companions than its pass (scan.ts: a volunteer "must not be
\* able to sign three guests onto a two-guest pass"; only the server clamps an
\* amended count).
CompanionsAreAllowed ==
  \A c \in Code : checkIn[c] # NULL => checkIn[c].guests <= pass[c].guestCount

\* Once the phones are back online for good, clear of captive portals, every
\* queued scan whose page stays open is on record or set aside in the end.  Until
\* then it waits: what drainOutbox does not send or cannot read it does not count.
EveryScanIsSettled ==
  (\A d \in Device : <>[](network[d] = "up")) =>
    \A e \in Event :
      scan[e] # NULL ~> \/ Server!Recorded(e)
                        \/ \E d \in Device : e \in Phone!Queued(d) \ Phone!Sendable(d)

\* A request in flight ends (see SyncServer), also while the desk reverses the
\* check-in it collided with.
RequestsAreAnswered == Server!RequestsAreAnswered

\* What comments of the code say, and the code does not do.

\* manifest.ts: "A manifest must never clear a local check-in that has not synced".
UnsyncedAdmitRemembered ==
  \A d \in Device, c \in Code :
    (store[d][c] # NULL /\ \E e \in Phone!Queued(d) : queue[d][e].admitted /\ queue[d][e].code = c)
      => store[d][c].checkedIn

\* The same line of a delta, which clears nothing: no manifest that leaves the store
\* in place takes back a mark while its scan is on the way.
DeltaKeepsUnsynced ==
  [][\A d \in Device, c \in Code, k \in Slot :
       (/\ ApplyManifest(d, k) /\ ~refresh[d][k].response.full
        /\ store[d][c] # NULL /\ store[d][c].checkedIn
        /\ MarkedFor(d, c) \/ c \in Phone!PendingAdmitted(d))
         => store'[d][c].checkedIn]_vars

\* outbox.ts, of network failures: "The events are untouched and will be retried."
NetworkLossIsRetried ==
  \A d \in Device : Phone!Queued(d) = Phone!Sendable(d)

\* outbox.ts: a corrected head count that was accepted is not silently lost.
AmendedCountArrives ==
  \A c \in Code :
    (checkIn[c] # NULL /\ scan[checkIn[c].winner] # NULL) =>
      LET told == scan[checkIn[c].winner].claim.guests IN
      checkIn[c].guests = IF told < pass[c].guestCount THEN told ELSE pass[c].guestCount

\* sync.ts: a sync is about a student who is already inside, so a scan that the
\* phone refused does not become an arrival.
TurnedAwayStaysOut ==
  \A c \in Code :
    (checkIn[c] # NULL /\ scan[checkIn[c].winner] # NULL)
      => scan[checkIn[c].winner].claim.outcome = "ADMITTED"

\* sync.ts: the phone's manifest date is what it knew at the scan, so that a scan
\* with an exact clock is not taken for one with a wrong clock.
ExactClockIsTrusted ==
  \A r \in Request : req[r].pc = "write" =>
    req[r].body[Server!Oldest(req[r].todo)].scannedAt >= req[r].gen - ClockSkewTolerance

\* db.ts: "the next volunteer must not inherit a list of student names".
SignedOutPhoneIsEmpty ==
  \A d \in wiped, c \in Code : store[d][c] = NULL
=============================================================================
