------------------------------ MODULE Scanner ------------------------------
(***************************************************************************)
(* A volunteer's phone: apps/web/lib/offline (scan.ts, outbox.ts,           *)
(* manifest.ts, client.ts) as ScannerShell.tsx drives it.                   *)
(*                                                                          *)
(* Every IndexedDB transaction is a step of its own.  One scan runs at a    *)
(* time (busyRef) and one drain (draining); manifest refreshes are not      *)
(* single-flight, so a phone may have several under way (Slot).             *)
(* The server is whoever calls Acknowledge, Failed and Receive.             *)
(*                                                                          *)
(* Abstracted: MAX_BATCHES_PER_DRAIN, which only ends a long drain early;   *)
(* the session's copy of the manifest's metadata is the stored one; names,  *)
(* labels, counters on screen; the device record.                           *)
(***************************************************************************)
EXTENDS ScanDecision, FiniteSets

CONSTANTS
  Device, Code, MaxEvent,
  BatchSize,    \* BATCH_SIZE
  MaxAttempts,  \* MAX_ATTEMPTS
  Slot,         \* manifest refreshes a phone may have under way
  MaxAge, OpensAt, ClosesAt  \* what every manifest says of the gate

Event == 1..MaxEvent
Oldest(S) == CHOOSE e \in S : \A f \in S : e <= f

VARIABLES
  store,    \* object store "passes": the phone's row for each code, or NULL
  meta,     \* object store "manifest": [version, generatedAt] or NULL
  queue,    \* object store "outbox": the entry of each event, or NULL
  busy,     \* the scan in progress, or NULL
  drain,    \* the drain in progress
  refresh,  \* the refreshes in progress
  wiped,    \* phones whose volunteer has signed out and whose page is leaving
  network   \* each phone's connection (external)

phone == <<store, meta, queue, busy, drain, refresh, wiped, network>>

\* "offline": navigator.onLine is false.  "portal": the phone believes it is online,
\* but what comes back with a 200 need not be an answer that can be read.
Networks == {"up", "portal", "offline"}

NotDraining == [pc |-> "idle"]

PhoneInit ==
  /\ store = [d \in Device |-> [c \in Code |-> NULL]]
  /\ meta = [d \in Device |-> NULL]
  /\ queue = [d \in Device |-> [e \in Event |-> NULL]]
  /\ busy = [d \in Device |-> NULL]
  /\ drain = [d \in Device |-> NotDraining]
  /\ refresh = [d \in Device |-> [k \in Slot |-> NULL]]
  /\ wiped = {}
  /\ network = [d \in Device |-> "up"]

Queued(d) == {e \in Event : queue[d][e] # NULL}
\* Wrong on purpose: quarantine is forgotten.
Everything(d) == Queued(d)

Sendable(d) == {e \in Queued(d) : queue[d][e].attempts < MaxAttempts}
NextBatch(d) == {e \in Sendable(d) : Cardinality({f \in Sendable(d) : f < e}) < BatchSize}

-----------------------------------------------------------------------------
(* Scanning: performScan.                                                   *)

Find(d, code) == IF code \in Code THEN store[d][code] ELSE NULL

\* Parse, look up, decide.  admitted is the decision's or the volunteer's.
Judge(d, raw, override, now) ==
  LET parsed   == DeviceParse(raw)
      known    == Find(d, parsed.code)
      decision == DecideScan(ScanInput(parsed, raw.method, now), known,
                    [generatedAt |-> meta[d].generatedAt, maxAge |-> MaxAge,
                     opensAt |-> OpensAt, closesAt |-> ClosesAt])
      overridden == override /\ decision.overridable
      admitted == decision.admits \/ overridden
  IN [code |-> parsed.code, admitted |-> admitted,
      claim |-> [raw |-> raw, scannedAt |-> now, overridden |-> overridden,
                 outcome |-> IF overridden THEN "ADMITTED" ELSE decision.outcome,
                 guests |-> IF admitted /\ known # NULL THEN known.guestCount ELSE 0]]

StartScan(d, raw, override, now) ==
  LET j == Judge(d, raw, override, now) IN
  /\ meta[d] # NULL /\ busy[d] = NULL /\ d \notin wiped
  /\ busy' = [busy EXCEPT ![d] =
        [pc |-> IF j.admitted /\ j.code # NULL THEN "mark" ELSE "enqueue",
         code |-> j.code, admitted |-> j.admitted, claim |-> j.claim]]
  /\ UNCHANGED <<store, meta, queue, drain, refresh, wiped, network>>

\* markCheckedInLocally on one row; a code without a row is left alone.
Marked(row) == IF row = NULL THEN NULL
               ELSE [row EXCEPT !.scansCount = ScansUsed(row) + 1, !.checkedIn = TRUE]
MarkLocally(d, code) ==
  store' = IF code \in Code THEN [store EXCEPT ![d][code] = Marked(@)] ELSE store

MarkScan(d) ==
  /\ busy[d] # NULL /\ busy[d].pc = "mark"
  /\ MarkLocally(d, busy[d].code)
  /\ busy' = [busy EXCEPT ![d].pc = "enqueue"]
  /\ UNCHANGED <<meta, queue, drain, refresh, wiped, network>>

\* The verdict is shown once the entry is stored.
Enqueue(d, e) ==
  /\ busy[d] # NULL /\ busy[d].pc = "enqueue"
  /\ queue' = [queue EXCEPT ![d][e] =
        [code |-> busy[d].code, admitted |-> busy[d].admitted, attempts |-> 0]]
  /\ busy' = [busy EXCEPT ![d] = NULL]
  /\ UNCHANGED <<store, meta, drain, refresh, wiped, network>>

\* amendQueuedGuests: only an entry that no attempt has failed for.
Amendable(d, e) == queue[d][e] # NULL /\ queue[d][e].attempts = 0

-----------------------------------------------------------------------------
(* Draining: drainOutbox.                                                   *)

\* A timer, the online event or a visible tab; a phone that is offline returns at
\* once.  The manifest's date is read here and goes with every batch of this drain.
StartDrain(d) ==
  /\ drain[d] = NotDraining /\ Sendable(d) # {} /\ d \notin wiped
  /\ network[d] # "offline"
  /\ drain' = [drain EXCEPT ![d] =
        [pc |-> "ready", gen |-> IF meta[d] = NULL THEN 0 ELSE meta[d].generatedAt]]
  /\ UNCHANGED <<store, meta, queue, busy, refresh, wiped, network>>

SendBatch(d, r) ==
  /\ drain[d].pc = "ready" /\ NextBatch(d) # {}
  /\ drain' = [drain EXCEPT ![d] = [pc |-> "waiting", gen |-> @.gen,
                                    batch |-> NextBatch(d), req |-> r]]
  /\ UNCHANGED <<store, meta, queue, busy, refresh, wiped, network>>

\* Nothing sendable is left: the drain is over.
EndDrain(d) ==
  /\ drain[d].pc = "ready" /\ NextBatch(d) = {}
  /\ drain' = [drain EXCEPT ![d] = NotDraining]
  /\ UNCHANGED <<store, meta, queue, busy, refresh, wiped, network>>

\* Wrong on purpose: the last failure throws the scan away.
DropAtLastFailure(d, batch) ==
  queue' = [queue EXCEPT ![d] = [e \in Event |->
      IF e \notin batch \/ queue[d][e] = NULL THEN queue[d][e]
      ELSE IF queue[d][e].attempts + 1 = MaxAttempts THEN NULL
      ELSE [queue[d][e] EXCEPT !.attempts = @ + 1]]]

\* Wrong on purpose: failures are not counted.
FailureUncounted(d, batch) == UNCHANGED queue

RecordFailure(d, batch) ==
  queue' = [queue EXCEPT ![d] = [e \in Event |->
      IF e \in batch /\ queue[d][e] # NULL
        THEN [queue[d][e] EXCEPT !.attempts = @ + 1] ELSE queue[d][e]]]

\* fetch threw, or the answer was a 409 or another error: the failure is counted.
Failed(d) ==
  /\ drain[d].pc = "waiting"
  /\ RecordFailure(d, drain[d].batch)
  /\ drain' = [drain EXCEPT ![d] = NotDraining]
  /\ UNCHANGED <<store, meta, busy, refresh, wiped, network>>

\* A 200 whose body is no answer, or is cut off: response.json() throws, and the
\* drain is left through its finally, with nothing counted.
Unreadable(d) ==
  /\ drain[d].pc = "waiting" /\ network[d] # "up"
  /\ drain' = [drain EXCEPT ![d] = NotDraining]
  /\ UNCHANGED <<store, meta, queue, busy, refresh, wiped, network>>

\* A 200: forget what the server has acknowledged, then fold the collisions in.
Acknowledge(d, acknowledged, collided) ==
  LET q == drain[d] IN
  /\ q.pc = "waiting"
  /\ queue' = [queue EXCEPT ![d] = [e \in Event |->
                 IF e \in acknowledged \cap q.batch THEN NULL ELSE @[e]]]
  /\ drain' = [drain EXCEPT ![d] =
        [pc |-> "fold", gen |-> q.gen, rest |-> q.batch \ acknowledged,
         codes |-> [e \in {f \in collided \cap q.batch : queue[d][f].code # NULL} |->
                      queue[d][e].code]]]
  /\ UNCHANGED <<store, meta, busy, refresh, wiped, network>>

Fold(d) ==
  LET q == drain[d]
      e == Oldest(DOMAIN q.codes)
  IN /\ q.pc = "fold" /\ DOMAIN q.codes # {}
     /\ MarkLocally(d, q.codes[e])
     /\ drain' = [drain EXCEPT ![d].codes = [f \in DOMAIN @ \ {e} |-> @[f]]]
     /\ UNCHANGED <<meta, queue, busy, refresh, wiped, network>>

\* All folded: on to the next batch, or stop after a partial answer.
Folded(d) ==
  LET q == drain[d] IN
  /\ q.pc = "fold" /\ DOMAIN q.codes = {}
  /\ RecordFailure(d, q.rest)
  /\ drain' = [drain EXCEPT ![d] = IF q.rest = {} THEN [pc |-> "ready", gen |-> q.gen]
                                   ELSE NotDraining]
  /\ UNCHANGED <<store, meta, busy, refresh, wiped, network>>

-----------------------------------------------------------------------------
(* Refreshing: refreshManifest and applyManifest.                           *)

\* since and version go out unless the refresh is forced or nothing is stored.
AskManifest(d, k, force) ==
  /\ refresh[d][k] = NULL /\ d \notin wiped
  /\ refresh' = [refresh EXCEPT ![d][k] =
        [pc |-> "asked", since |-> IF force THEN NULL ELSE meta[d]]]
  /\ UNCHANGED <<store, meta, queue, busy, drain, wiped, network>>

Receive(d, k, response) ==
  /\ refresh[d][k] # NULL /\ refresh[d][k].pc = "asked"
  /\ refresh' = [refresh EXCEPT ![d][k] = [pc |-> "answered", response |-> response]]
  /\ UNCHANGED <<store, meta, queue, busy, drain, wiped, network>>

\* The fetch failed; the phone is as capable as it was.
DropManifest(d, k) ==
  /\ refresh[d][k] # NULL /\ refresh[d][k].pc \in {"asked", "answered"}
  /\ refresh' = [refresh EXCEPT ![d][k] = NULL]
  /\ UNCHANGED <<store, meta, queue, busy, drain, wiped, network>>

\* pendingAdmittedCodes, a read of its own before the transaction.
PendingAdmitted(d) == {queue[d][e].code : e \in {f \in Queued(d) : queue[d][f].admitted}}

Protect(d, k) ==
  /\ refresh[d][k] # NULL /\ refresh[d][k].pc = "answered"
  /\ refresh' = [refresh EXCEPT ![d][k] =
        [pc |-> "protected", response |-> @.response, codes |-> PendingAdmitted(d)]]
  /\ UNCHANGED <<store, meta, queue, busy, drain, wiped, network>>

\* Wrong on purpose: the server's row wins.
MergedFromServer(local, row) == row

\* A protected row keeps the phone's own check-in and the larger count.
Merged(local, row) ==
  [row EXCEPT !.checkedIn = local.checkedIn \/ row.checkedIn,
              !.scansCount = IF ScansUsed(local) > ScansUsed(row) THEN ScansUsed(local)
                             ELSE ScansUsed(row)]

\* The transaction: a full response clears the store before the merge.
Applied(d, response, codes) ==
  LET base == IF response.full THEN [c \in Code |-> NULL] ELSE store[d] IN
  [c \in Code |->
     IF response.rows[c] = NULL THEN base[c]
     ELSE IF c \in codes /\ base[c] # NULL THEN Merged(base[c], response.rows[c])
     ELSE response.rows[c]]

Apply(d, k) ==
  LET a == refresh[d][k] IN
  /\ a # NULL /\ a.pc = "protected"
  /\ store' = [store EXCEPT ![d] = Applied(d, a.response, a.codes)]
  /\ meta' = [meta EXCEPT ![d] = [version |-> a.response.version,
                                  generatedAt |-> a.response.generatedAt]]
  /\ refresh' = [refresh EXCEPT ![d][k] = NULL]
  /\ UNCHANGED <<queue, busy, drain, wiped, network>>

-----------------------------------------------------------------------------
\* The radio goes and comes back; the phone walks into a captive portal.
Reconnect(d, n) ==
  /\ network' = [network EXCEPT ![d] = n]
  /\ UNCHANGED <<store, meta, queue, busy, drain, refresh, wiped>>

\* The page is closed, reloaded or left for the sign-in page: what was in
\* memory is gone.
Reload(d) ==
  /\ busy' = [busy EXCEPT ![d] = NULL]
  /\ drain' = [drain EXCEPT ![d] = NotDraining]
  /\ refresh' = [refresh EXCEPT ![d] = [k \in Slot |-> NULL]]
  /\ wiped' = wiped \ {d}
  /\ UNCHANGED <<store, meta, queue, network>>

\* Sign-out: clearIdentifyingData wipes all stores but the outbox, then the page
\* leaves (Reload).  It is offered while the last count of the outbox was zero, a
\* count that a scan in progress or just stored has made old.
SignOut(d) ==
  /\ d \notin wiped
  /\ store' = [store EXCEPT ![d] = [c \in Code |-> NULL]]
  /\ meta' = [meta EXCEPT ![d] = NULL]
  /\ wiped' = wiped \cup {d}
  /\ UNCHANGED <<queue, busy, drain, refresh, network>>

-----------------------------------------------------------------------------
Row == [status : PassStatuses, registration : RegistrationStatuses, checkedIn : BOOLEAN,
        scanLimit : Nat, scansCount : Nat, guestCount : Nat]
Meta == [version : Nat, generatedAt : Nat]
Entry == [code : Code \cup {NULL}, admitted : BOOLEAN, attempts : 0..MaxAttempts]
Response == [version : Nat, generatedAt : Nat, full : BOOLEAN, rows : [Code -> Row \cup {NULL}]]

DrainOK(q) ==
  \/ q = NotDraining
  \/ q.pc = "ready" /\ q.gen \in Nat
  \/ q.pc = "waiting" /\ q.gen \in Nat /\ q.batch \subseteq Event /\ q.batch # {}
  \/ q.pc = "fold" /\ q.gen \in Nat /\ q.rest \subseteq Event
     /\ DOMAIN q.codes \subseteq Event /\ \A e \in DOMAIN q.codes : q.codes[e] \in Code \cup {NULL}

RefreshOK(a) ==
  \/ a = NULL
  \/ a.pc = "asked" /\ a.since \in Meta \cup {NULL}
  \/ a.pc = "answered" /\ a.response \in Response
  \/ a.pc = "protected" /\ a.response \in Response /\ a.codes \subseteq Code \cup {NULL}

\* The phone's stores and the calls it has under way keep the shape db.ts gives
\* them; in particular no entry is sent again after MAX_ATTEMPTS.
PhoneTypeOK ==
  /\ store \in [Device -> [Code -> Row \cup {NULL}]]
  /\ meta \in [Device -> Meta \cup {NULL}]
  /\ queue \in [Device -> [Event -> Entry \cup {NULL}]]
  /\ \A d \in Device : /\ busy[d] # NULL => /\ busy[d].pc \in {"mark", "enqueue"}
                                            /\ busy[d].code \in Code \cup {NULL}
                       /\ DrainOK(drain[d])
                       /\ \A k \in Slot : RefreshOK(refresh[d][k])
  /\ wiped \subseteq Device
  /\ network \in [Device -> Networks]
=============================================================================
