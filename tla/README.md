# The orientation gate in TLA+

Models, checks and proofs for this repository: students on an admissions list
register and get a pass, staff review them, volunteers scan passes on phones that
may be offline, and a server turns the scans into arrivals. Paths are relative to
the repository, `lib/server/...` and `lib/offline/...` to `apps/web`; `D8`, `D36` and
so on are the decisions of `docs/01-decisions.md`.

## The system

| Part | State | Operations | Interacts with |
| --- | --- | --- | --- |
| `packages/core/src/scan/decide.ts` | none (a pure function) | `decideScan` | called by the phone and by the server |
| `lib/offline/scan.ts`, `components/scanner/ScannerShell.tsx` | `busyRef`, session | `performScan`, override, head count | local store, outbox |
| `lib/offline/outbox.ts` | IndexedDB `outbox`, `draining` | `enqueue`, `amendQueuedGuests`, `drainOutbox` | POST `/api/scanner/sync` |
| `lib/offline/manifest.ts`, `db.ts` | IndexedDB `passes`, `manifest`, `device` | `applyManifest`, `markCheckedInLocally`, `clearIdentifyingData` | scan, drain, refresh |
| `lib/offline/client.ts` | timers | `refreshManifest`, `startAutoSync` | GET `/api/scanner/manifest` |
| `lib/server/scanner/sync.ts` | tables ScanEvent, CheckIn, ScannerDevice | `syncScans`, `processEvent` | PostgreSQL: two unique indexes |
| `lib/server/scanner/manifest.ts` | none | `buildManifest` | tables, cached configuration |
| `lib/server/config.ts`, `redis.ts` | SystemConfig row, its cache, locks | `getConfig`, `bumpManifestVersion`, `withLock` | manifest, sweep |
| `lib/server/admin/registrations.ts`, `pass.ts` | tables Registration, Pass, CheckIn | review, undo, revoke, restore, manual check-in, reversal, QR life, ban, delete | the same tables, manifest version, selfies |
| `lib/server/registration.ts` | Registration, claims of AdmittedStudent | lookup, submit, replace selfie | selfies, passes |
| `lib/server/media/*`, `admin/cloudinary.ts` | photos at the storage provider, account benches | upload, destroy, retention sweep | registration, a lock in Redis |
| `packages/db/src/roster/ingest.ts`, `lib/server/admin/roster*.ts` | AdmittedStudent, RosterImport | preview, commit, roll back, add by hand | claims |
| `lib/server/auth.ts`, `admin/staff.ts`, `app/api/webhooks/clerk` | User, and the account at Clerk | visits, roles, deactivation, identity events | every handler |
| `app/api/stream/route.ts`, `lib/server/redis.ts` | the table of handlers of a process, streams, Redis subscriptions | open, subscribe, tear down | Redis, pages |
| broadcasts, statistics, exports, audit, WhatsApp, UI | rows and views | mostly reads | |

What is hard here: phones decide offline and tell the server later; answers get
lost, so every scan may be posted twice, also while the first request is still
running. The server uses no locks around its handlers: each reads, awaits and
writes, and only unique columns, conditional updates and foreign keys bind at the
write. Pages reload, volunteers sign out, manifest refreshes overlap with scans,
drains and one another. Uploads and calls to the identity provider succeed, fail, or
fail after they took effect; the provider's events come back late and out of order.
`PROJECT.json` lists each of these at its line, under `hazards`.

What makes each part correct:

- decision: admits exactly under the listed conditions; an override never hides
  a revoked or used pass; a verdict develops only as time, manifests and uses allow.
- sync: a single-use pass lets in one attempt; an arrival and its attempt are one
  fact; answers are on record; nothing is counted twice; requests end.
- outbox: no scan is lost before the server has it; every scan ends on record or
  set aside.
- local store: a phone does not let the same pass in again until a manifest that
  knows of its scan lets it forget; what it calls used was used.
- manifest: a phone at the current version knows every revocation; a manifest tells
  of everything up to its date; a revocation arrives.
- registration: one seat per form number and per student, changed only by somebody
  who shares an account or a number with those who filled it in; an approved student has a pass; somebody who is inside keeps theirs.
- photos: where the record points a photo is stored within its retention, and but for
  uploads that were not recorded it is the one on record; the sweep orphans nothing and gets to every photo that is due.
- roster: the list says what the imports that stand say; a claim survives it.
- accounts: an administrator remains; a decision stands although its echoes write
  the row again; the cached role settles.
- stream: whoever listens hears what is published, however others come, go and time
  out; every connection goes, and leaves nothing behind.

## Modules

| Module | Models | Correspondence |
| --- | --- | --- |
| `ScanDecision` | `decide.ts`, the two `parseScanned` | one operator per rule group; a scanned thing is a record (form, code, signature, window) instead of a string |
| `Verdicts` | `decideScan` as clocks, rows and manifests change | the state is the function's input; the actions are time, a refresh and a use |
| `SyncServer` | `sync.ts`, the table writes of `admin/registrations.ts` and `pass.ts` | each database statement of a request is a step, each `$transaction` one step; what a request has read stays in `req[r].live` |
| `Arrivals` | nothing: the abstract specification | verdicts are final, arrivals have one ADMITTED attempt, reversals rewrite nothing |
| `Scanner` | the phone | each IndexedDB transaction is a step: judge, mark, enqueue; send, acknowledge, fold; ask, receive, protect, apply |
| `Gate` | `Scanner` and `SyncServer` composed, the network | INSTANCEs of both; joint steps for queueing, posting, answers and manifests; stamps and version bumps of the writes |
| `ManifestFeed` | from a write of a pass to a phone's store | the write, the bump and the deletion of the cached configuration are steps of `desk`; the read of the cache, the query, the date and the application are steps of `fetch` |
| `Registration` | `registration.ts`, the review desk | each read, update and `$transaction` of a handler is a step; what it has read stays in `op` |
| `Seats` | nothing: the abstract specification | a seat is empty or held by people, each an account and a number; whoever joins them shares one of the two with one of them |
| `Photos` | `media/*`, the handlers that store and delete photos, `withLock` | `asset` is the provider, `row` the columns; each upload try, transaction, destruction and clearing is a step |
| `Roster` | `ingest.ts`, `roster.ts`, `roster-rollback.ts` | duplicate check, read of the table, transaction; decision, transaction |
| `Accounts` | `auth.ts`, `staff.ts`, the webhook | a desk request is checked, reads, writes; then its slot makes the calls to Clerk; events are a set |
| `Stream` | `route.ts` of the stream, `subscribe` and the listener of `redis.ts` | a set of handlers is named by the stream that created it, so that a stream can hold one the table has lost; each await is a step, Redis does the commands of a channel in order or not at all |
| `Sessions` | `Accounts` and `Stream` side by side | they share no state |
| `*Proofs` | proofs | of `SyncServer`, `Verdicts`, `Gate`, `ManifestFeed`, `Registration`, `Roster`, `Photos`, and in `SessionsProofs` of `Accounts` and `Stream` |
| `MC*` | instances for TLC | situations chosen at the start (`plan`), each with its own restriction of `Next` |

Some values that the code generates at random are ordered here: client event ids
(by the time the scan was queued), registration ids and the server's clock. `Gate`
and `ManifestFeed` give any two writes that stamp a row different times. Variables
and fields marked "history" exist for the properties and no guard reads them.
Operators whose comment begins "Wrong on purpose" are plausible bugs, next to the
operator they corrupt; no specification uses them, and `PROJECT.json` says which
property notices each.

Choices worth knowing when reading the modules:

- In `SyncServer` a control-room handler is one step, its last write, and its guard
  is what the write itself enforces, so a manual check-in may hit a pass that was
  revoked after the handler looked. `Violate` is the request that fails with a 500
  because an insert outside the `try` breaks a constraint; `Crash` may happen
  between any two statements. Passes are never deleted there: deletion and
  resubmission are in `Registration` and, as the phones see them, in `ManifestFeed`.
- Nothing under the source tree sets `ScannerDevice.isBlocked`; `SetBlocked` is an
  operator in the database and marked external.
- In `Scanner` a phone keeps one id, although a sign-out gives it a new one:
  answers depend on the event id only. Sign-out is possible at any time, since the
  button looks at the last count of the outbox. The limit of 20 batches per drain is
  left out: the next drain continues.
- In `Registration` a handler may end at any point (`Abandon`), which covers every
  check on data the module leaves out, failed uploads, constraints and crashes. Where
  `issuePass` retries after a unique violation the transaction it runs in is already
  aborted, so it fails.
- In `Scanner` a phone's connection is "up", "offline" (`navigator.onLine` is false,
  and a drain returns at once) or "portal" (a 200 need not be an answer). When
  `response.json()` throws, on a portal or as the connection goes, the drain ends
  through its `finally` and nothing is counted (`Unreadable`); every other failure goes
  through `recordFailure`.
- In `Registration` the contact number is what is typed in, by anybody and at every
  submission: a signed-in student may correct it, or type another student's and take
  over that registration, which is how the phone match of `submitRegistration` works.
  `fills` remembers who filled each registration in under which number.
- In `Photos` the public id is derived from the reference, so an account holds one
  photo of a registration and an upload overwrites it. What a request has to try and a
  run to sweep are sets, and the next one is the least account or the oldest photo:
  photos are numbered as they are taken, so a set has one order only.
- In `Roster` all fields a file may correct are one value, and rows added by hand
  keep the import number 0. A `$transaction` is one step also where it runs for
  minutes.
- In `Stream` microtasks run before the next timer or request, as in Node, and the
  threshold is compared in the step that begins a stream. A subscription that is
  rejected ends like one that times out. Which stream writes an event out is open, so
  roles are only the channels a stream has. A client that comes back is a new stream:
  it takes a name that nothing refers to any more.
- In `Accounts` bans at Clerk and edits of profiles are external and announced
  like the desk's own.

## Runs

All bounds are constants of the cfg. `BATCH_SIZE`, `MAX_ATTEMPTS`,
`MAX_SNAPSHOT_ROWS` and the sweep's batch become 1 or 2: the rules do not depend on
their size, only on reaching them. Where a run has several situations they are
disjoint from the start, so the run explores their sum.

| Run | Shows | Bounds and why they are enough |
| --- | --- | --- |
| `Scans` | `AdmitsExactlyWhen`, `OverridesAreSoft`, `ExpiryIsFinal`, `SecondScanIsDuplicate`; `SingleUseAdmitsOnce`, `AnswersAreOnRecord`, `NoScanCountedTwice`, `ArrivalHasAttempt`, `TypeOK`, `KeepsThePromise` (refinement of `Arrivals`) | `Verdicts` over all kinds of scan, row (limits and counts 0 to 2 or absent), schedule, clocks 0..4 with a skew of 1 on both sides of each boundary; or `SyncServer` with two requests at once and two attempts on one pass, each perhaps posted twice, or one of them by hand, with reversals; or one request against every control-room write, on a pass of limit 0 to 2 |
| `GateDelivery` | `NoScanLost`, `CompanionsAreAllowed` | two scans in batches of two, two server requests at once (a lost answer and its retry), blocked phones, quarantine after two failures, told counts 0 and 1 on a pass for none |
| `GateOpen` | `NoRepeatBetweenManifests`, `UsedHasGrounds`, `NoScanLost`, `TypeOK` | a scan on its way and a second of the same pass with two overlapping refreshes; or one refresh with every control-room write, where the clock moves with the writes or has moved on before; or the phone's actions from the empty database, with reloads and sign-outs (requests that die are in `GateDelivery`) |
| `GateSettled` | `EveryScanIsSettled`, `RequestsAreAnswered` | two scans, one server request at a time, manual check-ins and reversals, quarantine after two failures; or one scan over a connection that goes offline, into a portal and back at any time |
| `Admissions` | `OneSeatEach`, `OnlyTheOwner`, `ApprovedHasPass`, `ArrivalsSurvive`, `SeatsAreKept` (refinement of `Seats`); `AsIfNeverImported`, `NoFileTwice`, `ClaimsSurviveTheList` | two students, two contact numbers that anybody may type, two form numbers and two requests at a time: four while the desk only deletes, or three with every action of the desk; or two admins with two files that differ in every row, two imports and a snapshot with room for one row |
| `Photos` | `PhotoIsThere`, `SweepOrphansNothing`, `DuePhotosGo`, `TypeOK` | two accounts, two registrations and two photos, so that a retake can change account and overtake; two runs of the sweep, one row each |
| `Feed` | `CurrentVersionKnowsStatus`, `ManifestTellsUpToItsDate`, `RevocationsArrive`, `TypeOK` | one pass, one phone and one version bump, every write with one refresh, where the control room rests once a sign-out has emptied the store under a refresh that holds a delta for it; or a revocation while two refreshes overlap |
| `Sessions` | `AnAdminRemains`, `DecisionStands`, `CacheOfVisitorsSettles`; `ListenersAreReached`, `EveryConnectionGoes`; `SessionsTypeOK` | `Accounts` with two accounts and two decisions: two desk requests at once with bans and late events; or one with visits, first visits and repairs; or `Stream` with a stream of two channels and one that shares the first, each opened again and again: creator and joiner, time-out and late answer, last leaver and newcomer |

The `Gate` runs have one phone. Phones share nothing but the server, and the
server cannot tell two phones from one phone with two requests, so `Scans`
is where lanes race. Symmetry is used in the runs without liveness. Where the
bounded number of scans, requests, photos or decisions can be used up the system
stops; those runs, and only those, say `CHECK_DEADLOCK FALSE`.

Several properties speak of all but the states a named race has touched, and the
exceptions are behaviours of the code worth knowing:

| Property | Except | What the code does there |
| --- | --- | --- |
| `ApprovedHasPass` | `raced` | the approver has seen a pass and issues none, the student's resubmission has deleted it: an approved student without a pass |
| `PhotoIsThere`, `SweepOrphansNothing` | `crossed` | the sweep destroys and clears what it read; a retake that came in between loses the new photo, or leaves it stored and referenced by nothing |
| `PhotoIsThere` | `overwritten` | an upload overwrites in place before the update that records it; when that fails, or the upload's answer was lost, the record still names the old photo and the new one is shown under it |
| `CurrentVersionKnowsStatus`, `RevocationsArrive` | `mixed` | a delta asked for before another refresh replaced the store is merged into the newer one, and takes the phone to a version whose revocations it lacks |
| the same | `untold` | resubmission, and deletion of a revoked pass, bump no version; a request that dies before its bump never bumps; a rejection that dies between its two writes leaves the pass ACTIVE |
| `ManifestTellsUpToItsDate` | `slipped` | rows written between the query and the date, or committed after their stamp, are missing from the manifest and from later deltas |
| `AsIfNeverImported` | `crossed`, `left` | two commits of one file both land; a second rollback does not look at the status again and overwrites later corrections; rows beyond the snapshot's cap or claimed meanwhile stay |
| `AnAdminRemains` | `crossed` | two administrators demoted at once leave none; `setUserActiveStatus` deactivates an administrator without counting |
| `DecisionStands` | `unsure` | a failed ban followed by a metadata write makes Clerk announce an account that is not banned, and the webhook activates it again |
| `ListenersAreReached` | `deaf` | a time-out deletes the set that is in the table by then, with those who joined it; the last to leave empties a set its creator still awaits, who then adds a handler to a set nobody looks up |
| `EveryConnectionGoes` | `torn` | a stream torn down while it subscribes keeps the handlers it adds afterwards |
| `NoRepeatBetweenManifests` | `overtaken` | a manifest that calls the pass unused replaces its marked row although the scan is not queued yet, still in the outbox, or on record as an admission: a full one at any time, a delta if the codes it protects were read before the scan was queued, or if it was built before the scan came in and is merged after |
| `UsedHasGrounds` | `unbacked` | a page closed between the mark and the outbox entry leaves a marked pass that nobody scanned |

Where the code and its own words part, four runs of one property each, which TLC
refutes:

| Run | The words | What happens |
| --- | --- | --- |
| `SyncOverride` | `sync.ts:381`, `schema.prisma:600` overrides are honoured where allowed | never: an overridable verdict is not `ADMITTED` |
| `SyncReversal` | `registrations.ts:568` a reversed student "can enter" | the surviving attempt still counts as a use |
| `GateForgets` | `manifest.ts:18`, D36 unsynced check-ins are never cleared | a full manifest clears before it merges |
| `StreamLeak` | `stream/route.ts:162` every subscription is released, unconditionally | those that complete after the teardown are not, and no later teardown does anything |

The modules state more of the code's words, at the end of their properties. No
run of the project checks these; each names a behaviour the model has and the
words deny:

| Property | The words | What happens |
| --- | --- | --- |
| `BothSidesAgree` | `decide.ts:9-10` the two verdicts "can never disagree" | a QR of bare digits has a code on the phone and none at the server |
| `SignedStrangerWalksIn` | `decide.ts:38-39` a valid signature admits an unknown pass | both parsers drop `notBefore`, so the rule never applies |
| `LimitIsKept` | `schema.prisma:487` how many times a pass can be scanned | overlapping requests exceed it when it is above 1 |
| `NetworkLossIsRetried` | `outbox.ts:169` network failures leave events untouched | each counts towards quarantine |
| `AmendedCountArrives` | `outbox.ts:80-82` no correction silently does nothing | one accepted in flight does |
| `TurnedAwayStaysOut` | `sync.ts:21-22` at sync time the student is inside | a refused scan can become an arrival |
| `ExactClockIsTrusted` | `sync.ts:33` the manifest date is what the phone knew | it is what the phone knows when it drains |
| `SignedOutPhoneIsEmpty` | `db.ts:236-237` the next volunteer inherits no names | a refresh in flight refills the store |
| `DeltaKeepsUnsynced` | `manifest.ts:18` of a delta, which clears nothing | one merged between the mark and the outbox entry takes the mark back |
| `FailedRetakeLeavesPhoto` | `registration.ts:555-557` a failed retake leaves the previous photo intact | not if the upload was stored and the update then fails |
| `OnlyTheLastUnsubscribes` | `redis.ts:169` UNSUBSCRIBE only with the last listener | also while a stream awaits the set it created |

And five things read off the code that no property states: an undo revokes the pass
and a later approval finds it, issues none and leaves it revoked
(`registrations.ts:255`); a REJECTED registration may be resubmitted, which the
schema calls terminal (`schema.prisma:49`); the manifest's comment that a rejection
revokes "in the same transaction" (`scanner/manifest.ts:105`) describes two writes;
the threshold that "caps concurrent streams" (`stream/route.ts:36`) counts handlers, of
which a stream has up to three; and a photo uploaded before a transaction that fails is referenced by nothing, so the
sweep, which goes by rows, never finds it.

`NoRepeatBetweenManifests` is the part of D36 that does hold. A phone forgets that it
let a single-use pass in (`letIn`) only when a manifest that calls the pass unused, or
no longer knows it, replaces the row while the server owes nothing more on the scan: it
is not between its mark and its entry, not in the outbox as an admission, and the server
has no admission of that pass on record. Short of that, no interleaving of marks,
drains, folds, deltas, reloads and refreshes makes the phone admit the pass again. A
manifest that takes the mark back all the same has overtaken the scan (`overtaken`), and
the two statements that deny it, `DeltaKeepsUnsynced` for deltas and
`UnsyncedAdmitRemembered` for full manifests, are both refuted by the code. It holds for
passes the phone has a row for.

`PhotoIsThere` says less than the comment of `replaceSelfie`: an upload that fails at the
provider leaves the previous photo, one that is stored does not, whatever becomes of the
request. What does hold is that no failure leaves the record pointing at nothing: a
handler that cleaned up after a failed update would delete the only photo there is
(`AbandonCleansUp`).

`UsedHasGrounds` is its counterpart: whom a phone refuses as already inside was let in,
by a scan of this phone or on the server's record. Marks come from three places (a
verdict, a manifest, a collision told in an answer), each of which acts on something
read some steps before. The one mark without grounds is made by a page that closes
between its two transactions (`unbacked`), and a manifest with that pass in it mends it.

## Fairness

- `SyncServer`: weak fairness of each request's steps: a serverless handler runs
  to its end unless it crashes. `Gate` adds finishing a scan that has begun and
  draining, which `startAutoSync` does every 20 seconds while the page is open.
  That a drain which waits goes on assumes that the browser ends every fetch, with an
  answer or an error; the code sets no time limit of its own. Nothing is assumed of
  reloads, sign-outs, refreshes or the control room. Of the network
  `EveryScanIsSettled` has a premise: in the end each phone is "up" for good. While it
  is offline no drain starts, and on a portal each may end uncounted, so a scan may
  wait there for ever; without the premise TLC refutes the property. The run leaves out
  refreshes, reloads and sign-outs, since a page that is closed for good drains nothing.
  With the premise it holds although every answer may be lost, because those failures
  are counted.
- `ManifestFeed`: a phone in use asks every five minutes (weak) and not every
  refresh fails at the same point (strong, since `Fail` may come first any time);
  cached entries expire; the bump follows its write unless the process dies.
- `Photos`: the cron starts sweeps and a run goes on unless it dies; a destruction
  that is tried again and again succeeds once (strong); a lock expires.
- `Accounts`: people whose account works keep coming back (strong, since the
  account may be deactivated in between), a visit ends, Clerk answers now and then
  (strong). The desk and the events owe nothing.

- `Stream`: microtasks run (weak), and a timer goes off when nothing else is running,
  which is again and again (strong). Redis, its messages and the clients owe nothing.

## Proofs

Every safety property that the passing runs check is proved for all values of the
constants. Each `*Proofs` module states an inductive invariant, proves that the initial states have
it and that each action keeps it, and takes the properties from it.

`SyncServerProofs`, for any devices, codes, events, requests and scans:

- `Invariant`: `Spec => []IInv`. `IInv` adds to `TypeOK` and `ArrivalHasAttempt`:
  `LimitsAreSingle` (a pass outside `MultiUse` has limit at most 1),
  `SnapshotsAreSound` (a snapshot that held a check-in also counted a use, so a
  single-use pass is not admitted from it) and `ArrivalIsAlone` (every admitted
  attempt of an unreversed single-use pass is the one its check-in names).
  `SingleUseAdmitsOnce` is not inductive: a request in its last step acts on an old
  snapshot, and only `SnapshotsAreSound` says that such a snapshot either held no
  check-in, and then the unique index decides, or refuses.
- `TypeCorrect`, `ArrivalsHaveAttempts`, `SingleUse`: from `IInv`.
- `Answers`: `AnswersAreOnRecord`, from `RecordIsFinal` (a row keeps its code and
  outcome) and one case per step that answers.
- `CountedOnce`: `NoScanCountedTwice`. The counter moves after the last event, so
  the invariant `CountInv` says what it stands for meanwhile: a set of scans on record
  (`CountedScans`), none of them fresh in a request that has yet to count, and no scan
  fresh in two of those (`FreshOnce`): of two transactions on one `clientEventId` the
  unique column lets one write.
- `ArrivalsCovered`: no arrival has more companions than its pass. The insert goes by
  a snapshot, and `SnapshotsCover` says that every snapshot still tells what the pass
  covers: the desk's writes leave the head count of a pass alone.
- `CollisionsAreReal`: what a request tells a phone of a collision
  (`ToldOfCollisions`: the pass has an admission on record, if it was let in) has
  passed through its snapshot, its look-up of the winner and its results, and
  `CollisionInv` follows it there: while a snapshot or a winner names an
  arrival the desk may reverse it, but the attempt stays.
- `Implements`: the refinement `KeepsThePromise`, initial states to initial states and
  each step to a step of `Arrivals` or a stutter, under `IInv`.

`VerdictsProofs`, for any scans, rows, schedules and clocks: `AdmitsExactlyThen`,
`OnlySoftOverrides` and `SecondScan` are facts about `DecideScan` under the state's
types; `ExpiryStays` is an action property and compares the verdict before and after a
step: the clock only runs on, and once it is not behind the manifest it never is again.

`GateProofs`, for any phones, slots and bounds. The gate is a product, and its proof
is one too:

- `S` is `SyncServerProofs` with the claims a phone can queue at any time
  (`AnyClaim`) and any date. `ServerStep` shows that each step of the gate is a step of
  `S` or leaves its variables alone, so `IInv`, `AnswersAreOnRecord`, the counts, the
  collisions and the companions are invariants of the gate by `S`'s own lemmas
  (`ServerInv`).
- So what was proved of the endpoint alone holds behind the network and the phones
  too: `GateLetsInOnce` (`SingleUseAdmitsOnce`, `ToldOfCollisions`), `GateCountsOnce`
  (`NoScanCountedTwice`) and `GateImplements`: the gate, with every phone, lost answer,
  reload and desk, implements `Arrivals`.
- `GateTypes` is about the phones. An outbox counts up to `MAX_ATTEMPTS` only
  because of `AttemptsLeft`: an entry that a drain may still count a failure for is in
  the outbox with an attempt left, which a second drain, a fold or a sign-out could
  break and do not.
- `GateInvariant`: both together. `TypesKept` derives `TypeOK` from it. `TypeOK` names
  the sets `Claim` and `Time`, which TLC needs finite, and the theorem takes them
  to be all claims and all dates, so no bound on them is hidden in it.
- `ScansAreKept`: `NoScanLost`. An entry leaves the outbox only when the server
  has it (`EntryStays`), since an answer is on record, and records are final.
- `NoRepeats`: `NoRepeatBetweenManifests`. `RepeatInv` adds that a pass the phone let
  in, and no manifest has overtaken, is marked in its store (`LetInMarked`) and that neither the store nor a manifest
  under way gives it a second use (`RowsAreSingle`); a marked row is refused before
  any rule that may be overridden.
- `CompanionsAllowed`: from `ServerInv`.
- `UsedIsGrounded`: `UsedHasGrounds`. `GroundsInv` follows every source of a mark to
  where it came from: a row of a manifest under way that says "used" has an admission on
  record (`RowsOnTheWay`), so has each code a drain has yet to fold in (`FoldsInside`,
  from `ToldOfCollisions`), an outbox entry is about the code of its scan
  (`EntriesAreScans`), and a scan under way was judged as its claim says
  (`ScansAreJudged`). Admissions are never taken off the record (`AdmissionStays`), so
  none of these goes stale. After a merge a row is used because the manifest says so, or
  because it was used before and a delta left it out or had to protect it
  (`AppliedGrounds`); those are the passes whose excuse `unbacked` keeps as well.

`ManifestFeedProofs`, for any passes, phones, refreshes and requests of the desk:
`FeedInv` says of each answer on its way what the properties say of a stored
manifest, up to the writes that happened since it was read: `Known` (its version and
date are no later than the database's), `Fits` (a delta is for a store of the same
version) and three facts about each pass, `NamesIssued`, `HasStatus` and `TellsAll`,
the last relative to the store the delta was asked for. `CurrentVersionKnows` and
`ManifestTells` are these of the stores.

`SessionsProofs`, for any users and requests. `AdminRemains` needs `CountsHold`: while
nobody has gone since, the count a request made still names another administrator.
`DecisionsStand` needs to know who comes next: one request at a time makes its calls
for an account and for its last decision (`OneDecision`), after which Clerk says what
was decided (`ClerkFollows`), every event says what Clerk says (`EventsAreCurrent`),
and a row that says otherwise has such an event ahead (`RowFollows`).

`RegistrationProofs`, for any students, form numbers, requests and passes:
`TypeOK`, `OneSeatEach`, `OnlyTheOwner`, `ApprovedHasPass`, the action property
`ArrivalsSurvive` and the refinement `SeatsAreKept`, all from `IInv` there. The tables
alone do not carry these: a handler writes on what it read some steps ago.
`Recorded` says that the number, the account and the claimant of a registration are
those of people who filled it in. `RequestsKnow` says what a request may still rely on:
the account or the number it was let through by was on the registration it will write
to (ids are not used twice, and `fills` only grows), and the claimant it read has filled
that one in, though both may have been corrected since; an approver who saw a pass will find it unless the registration went or
was resubmitted. The unique columns do the rest.

`RosterProofs`, for any files, form numbers, values and admins: `RosterInv` (types,
`NoFileTwice`, and of each request that the import it is to roll back exists and that
none of the imports its upload was compared with stands with the same bytes), and from
it `RosterTypeOK`, `NoFileTwice` and `ClaimsSurviveTheList`. `ListIsAsIf` proves
`AsIfNeverImported` with `ListInv`. What a rollback puts back is a snapshot taken
long before, so each import that stands is a layer over those below it
(`LayersFit`): its snapshot is what they say of a form number, a row it created is one
they say nothing of, and where it changed nothing they agree with it. A request that
nobody overtook still sees what it read (`RequestsCurrent`), and the import it rolls
back is the top layer, so taking it off leaves what the layers below say.

`SessionsProofs` also proves, for any connections, channels and threshold, `StreamInv`, and from it
`StreamTypeOK` and `ListenersAreReached`. What a stream holds says nothing of what
Redis will send; `StreamInv` adds that a stream which awaits the set it created finds
it in the table when it is answered (`AwaitedInTable`), and that the last command on
its way for a channel with a set is its SUBSCRIBE (`SetsAreAsked`): each UNSUBSCRIBE
goes out as its set leaves the table.

`PhotosProofs`, for any accounts, registrations, requests and overlapping runs:
`PhotosAreThere` and `SweepsOrphanNothing` from `PhotosInv`. A photo is stored some steps
before a row names it, and is destroyed on the strength of a row read some steps
before. So `UploadsAreThere` keeps what a request has stored until its transaction, if
there still is a row for it; `DuesHold` says that a row a run has read still names the
account it read and is past its retention, or was emptied or deleted since;
`ClearedAreGone` that what a run is about to clear is gone; `overwritten` knows of each
upload that is stored over a photo on record, also of two that overlap; and `MeetingsAreCrossed`
that the history variable knows of every upload which meets a run. That nothing else
destroys a photo on record rests on numbers used once: nobody else is at a registration
submitted for the first time (`FirstIsAlone`), and one whose photo is destroyed after a
deletion does not come back (`DeletedAreGone`).

The assumptions are the named ones of the modules, and TLC evaluates them in the
runs: scans carry times, outcomes and natural head counts, and an amended scan is a
scan; what a scanner reads names a pass or nothing; the rows and schedules of
`Verdicts` have the shapes of `KnownPass` and of the gate's schedule; numbers are
phones, files speak of form numbers, streams have sequences of channels,
there is an account to upload to; `NULL`, `Absent` and `Nobody` are none of the rows,
scans under way, users, versions, photos or streams; bounds are natural numbers.

`SessionsTypes` puts `AccountsTypes` and `StreamTypes` together for `Sessions`.

Only model-checked are the liveness properties (`EveryScanIsSettled`,
`RequestsAreAnswered`, `RevocationsArrive`, `DuePhotosGo`, `CacheOfVisitorsSettles`,
`EveryConnectionGoes`): fairness is outside the prover's reach.

## Not modelled, and the plan

Left out for good: rendering and forms, wording, cryptography, the parsing of
spreadsheets, WhatsApp, statistics, exports, the audit log, drafts and sessions (no
interleaving, or outside services). These are most of the repository's lines: the
modules are about the few files that decide and keep state.

Left for later: the pages behind the realtime stream, which reconnect and fetch again;
rate limits; the state of the scanner's device record.
