----------------------------- MODULE ManifestFeed -----------------------------
(***************************************************************************)
(* How a change of a pass reaches the phones: the write and the version     *)
(* bump (apps/web/lib/server/pass.ts, admin/registrations.ts, config.ts),   *)
(* the cached configuration (config.ts, redis.ts), the manifest endpoint    *)
(* (scanner/manifest.ts) in its separate reads, and the refreshes of a      *)
(* phone (lib/offline/client.ts, manifest.ts).                              *)
(*                                                                          *)
(* Redis may fail at any call: a read is then a miss, and a write or a      *)
(* deletion is not done.  clock counts the writes that stamp a row, so that *)
(* two of them never tie.  A push (manifest.stale) only makes a phone       *)
(* refresh sooner, which it may do at any time anyway.  Check-ins here are  *)
(* the server's; what a phone has seen itself is module Scanner's.          *)
(***************************************************************************)
EXTENDS Naturals, FiniteSets

CONSTANTS
  NULL,
  Device, Code,
  Slot,        \* refreshes a phone may have under way
  Handler,     \* slots for requests of the control room
  MaxVersion,  \* bound on SystemConfig.manifestVersion
  MaxClock     \* bound on the writes that stamp a row

ASSUME FeedBounds == MaxVersion \in Nat \ {0} /\ MaxClock \in Nat
ASSUME NullIsNoVersion == NULL \notin Nat

VARIABLES
  pass,      \* Pass and its registration and check-in, by code
  version,   \* SystemConfig.manifestVersion
  clock,     \* the time of the last stamped write
  cache,     \* the version in Redis under config:system, or NULL
  desk,      \* the control room's requests between the write and the bump
  fetch,     \* the refreshes, by phone and slot
  phone,     \* what each phone has stored: version, generatedAt and rows, or NULL
  untold,    \* history: codes with a write that no version bump has followed yet
  slipped,   \* history: by phone, codes whose write a manifest was dated over
  mixed      \* history: phones that merged a delta into another store than its own

feed == <<cache, desk, fetch, phone, untold, slipped, mixed>>
vars == <<pass, version, clock, feed>>

Version == 1..MaxVersion
Clock == 0..MaxClock
\* arrivedAt is the check-in's recordedAt, NULL without one.
PassRow == [status : {"NONE", "ACTIVE", "REVOKED", "GONE"}, rejected : BOOLEAN,
            stamp : Clock, arrivedAt : Clock \cup {NULL}]
Row == [status : {"ACTIVE", "REVOKED"}, inside : BOOLEAN]
Meta == [version : Version, generatedAt : Clock]

ASSUME NullIsNoRow == NULL \notin Row

Issued(c) == pass[c].status \in {"ACTIVE", "REVOKED"}
Idle == [pc |-> "idle"]

-----------------------------------------------------------------------------
(* Stamped writes: issuedAt, registration.updatedAt and recordedAt.         *)

Rows(d, k) == fetch[d][k].rows
Reading(d, k) == fetch[d][k].pc = "date" \/ fetch[d][k].pc = "apply"

\* A row stamped at t slips through a refresh that has read its rows already, and past
\* a phone whose manifest is dated t or later.
Slip(c, t) ==
  /\ fetch' = [d \in Device |-> [k \in Slot |->
        IF Reading(d, k) THEN [fetch[d][k] EXCEPT !.missed = @ \cup {c}] ELSE fetch[d][k]]]
  /\ slipped' = [d \in Device |->
        IF phone[d] # NULL /\ t <= phone[d].meta.generatedAt
          THEN slipped[d] \cup {c} ELSE slipped[d]]

Write(c, row, t) ==
  /\ clock < MaxClock /\ clock' = clock + 1
  /\ pass' = [pass EXCEPT ![c] = row]
  /\ Slip(c, t)

\* issuePass.
Issue(c) ==
  /\ pass[c].status = "NONE"
  /\ Write(c, [pass[c] EXCEPT !.status = "ACTIVE", !.stamp = clock + 1], clock + 1)
  /\ UNCHANGED <<version, cache, desk, phone, untold, mixed>>

\* review, between the statuses the manifest contains.
Update(c) ==
  /\ Issued(c)
  /\ Write(c, [pass[c] EXCEPT !.stamp = clock + 1, !.rejected = FALSE], clock + 1)
  /\ UNCHANGED <<version, cache, desk, phone, untold, mixed>>

\* A check-in commits some time after it was stamped.
CheckIn(c) ==
  /\ Issued(c) /\ pass[c].arrivedAt = NULL
  /\ \E t \in {clock, clock + 1} : Write(c, [pass[c] EXCEPT !.arrivedAt = t], t)
  /\ UNCHANGED <<version, cache, desk, phone, untold, mixed>>

\* reverseCheckIn stamps nothing.
Reverse(c) ==
  /\ pass[c].arrivedAt # NULL /\ pass' = [pass EXCEPT ![c].arrivedAt = NULL]
  /\ UNCHANGED <<version, clock, feed>>

\* A registration that is submitted again loses its pass and one that is deleted a
\* revoked pass, and nobody is told.
Withdraw(c) ==
  /\ Issued(c) /\ (pass[c].status = "ACTIVE" => pass[c].arrivedAt = NULL)
  /\ pass' = [pass EXCEPT ![c].status = "GONE", ![c].arrivedAt = NULL]
  /\ untold' = untold \cup {c}
  /\ UNCHANGED <<version, clock, cache, desk, fetch, phone, slipped, mixed>>

-----------------------------------------------------------------------------
(* The control room writes first and bumps the version then.                *)

Announce(h, c, row) ==
  /\ pass' = [pass EXCEPT ![c] = row]
  /\ desk' = [desk EXCEPT ![h] = [pc |-> "bump"]]
  /\ untold' = untold \cup {c}
  /\ UNCHANGED <<version, clock, cache, fetch, phone, slipped, mixed>>

RevokePass(h, c) ==
  /\ desk[h] = Idle /\ pass[c].status = "ACTIVE"
  /\ Announce(h, c, [pass[c] EXCEPT !.status = "REVOKED"])
RestorePass(h, c) ==
  /\ desk[h] = Idle /\ pass[c].status = "REVOKED"
  /\ Announce(h, c, [pass[c] EXCEPT !.status = "ACTIVE"])
\* deleteRegistrationCompletely, with an active pass.
Delete(h, c) ==
  /\ desk[h] = Idle /\ pass[c].status = "ACTIVE"
  /\ Announce(h, c, [pass[c] EXCEPT !.status = "GONE", !.arrivedAt = NULL])

\* review, REJECT: the registration, then (revokePass) the pass.
Reject(h, c) ==
  /\ desk[h] = Idle /\ pass[c].status = "ACTIVE" /\ ~pass[c].rejected
  /\ pass' = [pass EXCEPT ![c].rejected = TRUE]
  /\ desk' = [desk EXCEPT ![h] = [pc |-> "revoke", code |-> c]]
  /\ untold' = untold \cup {c}
  /\ UNCHANGED <<version, clock, cache, fetch, phone, slipped, mixed>>
RevokeRejected(h) ==
  LET c == desk[h].code IN
  /\ desk[h].pc = "revoke" /\ Issued(c)
  /\ Announce(h, c, [pass[c] EXCEPT !.status = "REVOKED"])

\* undoRegistrationReview: both in one transaction, which stamps the registration.
Undo(h, c) ==
  /\ desk[h] = Idle /\ pass[c].status = "ACTIVE"
  /\ Write(c, [pass[c] EXCEPT !.status = "REVOKED", !.rejected = FALSE, !.stamp = clock + 1],
           clock + 1)
  /\ desk' = [desk EXCEPT ![h] = [pc |-> "bump"]]
  /\ untold' = untold \cup {c}
  /\ UNCHANGED <<version, cache, phone, mixed>>

BumpManifestVersion(h) ==
  /\ desk[h].pc = "bump" /\ version < MaxVersion
  /\ version' = version + 1
  /\ untold' = {}
  /\ desk' = [desk EXCEPT ![h].pc = "drop"]
  /\ UNCHANGED <<pass, clock, cache, fetch, phone, slipped, mixed>>

\* cacheDel never fails the request.
CacheDel(h) ==
  /\ desk[h].pc = "drop"
  /\ cache' \in {NULL, cache}
  /\ desk' = [desk EXCEPT ![h] = Idle]
  /\ UNCHANGED <<pass, version, clock, fetch, phone, untold, slipped, mixed>>

\* The process dies between two of its writes.
Crash(h) ==
  /\ desk[h] # Idle /\ desk' = [desk EXCEPT ![h] = Idle]
  /\ UNCHANGED <<pass, version, clock, cache, fetch, phone, untold, slipped, mixed>>

\* Wrong on purpose: the entry is stored without a time to live.
ExpireNever == FALSE /\ UNCHANGED vars

\* CACHE_TTL_SECONDS are over.
Expire == cache # NULL /\ cache' = NULL
          /\ UNCHANGED <<pass, version, clock, desk, fetch, phone, untold, slipped, mixed>>

-----------------------------------------------------------------------------
(* A refresh: refreshManifest, getConfig and buildManifest, applyManifest.  *)

Goes(d, k, pc) == fetch[d][k].pc = pc
Step(d, k, f) == fetch' = [fetch EXCEPT ![d][k] = f]

\* since and version go out unless the refresh is forced or nothing is stored.
Ask(d, k, force) ==
  /\ Goes(d, k, "idle")
  /\ Step(d, k, [pc |-> "config",
                 since |-> IF force \/ phone[d] = NULL THEN NULL ELSE phone[d].meta])
  /\ UNCHANGED <<pass, version, clock, cache, desk, phone, untold, slipped, mixed>>

\* getConfig: the cached version, or the row's, which is then stored if Redis lets it.
Hit(d, k) ==
  /\ Goes(d, k, "config") /\ cache # NULL
  /\ Step(d, k, [pc |-> "rows", since |-> fetch[d][k].since, version |-> cache])
  /\ UNCHANGED <<pass, version, clock, cache, desk, phone, untold, slipped, mixed>>
Miss(d, k) ==
  /\ Goes(d, k, "config")
  /\ Step(d, k, [pc |-> "fill", since |-> fetch[d][k].since, version |-> version])
  /\ UNCHANGED <<pass, version, clock, cache, desk, phone, untold, slipped, mixed>>
Fill(d, k) ==
  /\ Goes(d, k, "fill")
  /\ cache' \in {fetch[d][k].version, cache}
  /\ Step(d, k, [fetch[d][k] EXCEPT !.pc = "rows"])
  /\ UNCHANGED <<pass, version, clock, desk, phone, untold, slipped, mixed>>

\* Wrong on purpose: the version the phone holds is not compared.
WantsDeltaAlways(f) == f.since # NULL

WantsDelta(f) == f.since # NULL /\ f.since.version = f.version

\* Wrong on purpose: check-ins of the other lane are not looked for.
ChangedByReview(c, since) == pass[c].stamp > since

Changed(c, since) ==
  \/ pass[c].stamp > since
  \/ pass[c].arrivedAt # NULL /\ pass[c].arrivedAt > since

\* Wrong on purpose: registrations without a pass are joined in.
ShippedWithoutPass(c) == ~pass[c].rejected

Shipped(c) == Issued(c) /\ ~pass[c].rejected

\* The query: every pass whose registration is not rejected, or the changed ones.
Query(d, k) ==
  LET f == fetch[d][k] IN
  /\ Goes(d, k, "rows")
  /\ Step(d, k, [pc |-> "date", version |-> f.version, full |-> ~WantsDelta(f),
                 since |-> f.since, missed |-> {},
                 rows |-> [c \in Code |->
        IF Shipped(c) /\ (WantsDelta(f) => Changed(c, f.since.generatedAt))
          THEN [status |-> pass[c].status, inside |-> pass[c].arrivedAt # NULL]
          ELSE NULL]])
  /\ UNCHANGED <<pass, version, clock, cache, desk, phone, untold, slipped, mixed>>

\* generatedAt is stamped after the rows were read.
Date(d, k) ==
  LET f == fetch[d][k] IN
  /\ Goes(d, k, "date")
  /\ Step(d, k, [pc |-> "apply", full |-> f.full, since |-> f.since, missed |-> f.missed,
                 rows |-> f.rows, meta |-> [version |-> f.version, generatedAt |-> clock]])
  /\ UNCHANGED <<pass, version, clock, cache, desk, phone, untold, slipped, mixed>>

\* A full manifest replaces the store; removedPassIds is always empty.
Base(d, f) == IF f.full \/ phone[d] = NULL THEN [c \in Code |-> NULL] ELSE phone[d].rows

Apply(d, k) ==
  LET f == fetch[d][k] IN
  /\ Goes(d, k, "apply")
  /\ phone' = [phone EXCEPT ![d] =
        [meta |-> f.meta,
         rows |-> [c \in Code |-> IF f.rows[c] # NULL THEN f.rows[c] ELSE Base(d, f)[c]]]]
  /\ slipped' = [slipped EXCEPT ![d] =
        f.missed \cup (IF f.full THEN {} ELSE {c \in @ : f.rows[c] = NULL})]
  /\ mixed' = IF f.full THEN mixed \ {d}
              ELSE IF phone[d] = NULL \/ f.since # phone[d].meta THEN mixed \cup {d}
              ELSE mixed
  /\ Step(d, k, Idle)
  /\ UNCHANGED <<pass, version, clock, cache, desk, untold>>

\* The request fails on its way, at the server or on the way back.
Fail(d, k) ==
  /\ ~Goes(d, k, "idle") /\ Step(d, k, Idle)
  /\ UNCHANGED <<pass, version, clock, cache, desk, phone, untold, slipped, mixed>>

\* clearIdentifyingData.  The page waits for the sign-out before it is left (Fail),
\* and a refresh under way may fill the store again.
Clear(d) ==
  /\ phone[d] # NULL
  /\ phone' = [phone EXCEPT ![d] = NULL]
  /\ slipped' = [slipped EXCEPT ![d] = {}] /\ mixed' = mixed \ {d}
  /\ UNCHANGED <<pass, version, clock, cache, desk, fetch, untold>>

-----------------------------------------------------------------------------
Init ==
  /\ pass = [c \in Code |-> [status |-> "NONE", rejected |-> FALSE, stamp |-> 0,
                             arrivedAt |-> NULL]]
  /\ version = 1 /\ clock = 0 /\ cache = NULL
  /\ desk = [h \in Handler |-> Idle]
  /\ fetch = [d \in Device |-> [k \in Slot |-> Idle]]
  /\ phone = [d \in Device |-> NULL]
  /\ untold = {} /\ slipped = [d \in Device |-> {}] /\ mixed = {}

Passes(c) == Issue(c) \/ Update(c) \/ CheckIn(c) \/ Reverse(c) \/ Withdraw(c)
Revoking(h, c) == \/ RevokePass(h, c) \/ RestorePass(h, c) \/ Delete(h, c)
                  \/ Reject(h, c) \/ Undo(h, c)
Serve(d, k) == \/ Hit(d, k) \/ Miss(d, k) \/ Fill(d, k) \/ Query(d, k) \/ Date(d, k)
               \/ Apply(d, k)

Next ==
  \/ \E c \in Code : Passes(c) \/ \E h \in Handler : Revoking(h, c)
  \/ \E h \in Handler : \/ RevokeRejected(h) \/ BumpManifestVersion(h) \/ CacheDel(h)
                        \/ Crash(h)
  \/ Expire
  \/ \E d \in Device : \/ Clear(d)
                       \/ \E k \in Slot : \/ Serve(d, k) \/ Fail(d, k)
                                          \/ \E force \in BOOLEAN : Ask(d, k, force)

\* A phone in use asks every five minutes, and not every refresh fails at the same
\* point; entries in Redis expire; the control room's requests go on unless they die.
Timer(d, k) ==
  /\ WF_vars(Ask(d, k, FALSE)) /\ SF_vars(Hit(d, k) \/ Miss(d, k)) /\ SF_vars(Fill(d, k))
  /\ SF_vars(Query(d, k)) /\ SF_vars(Date(d, k)) /\ SF_vars(Apply(d, k))
Others == WF_vars(Expire) /\ \A h \in Handler : WF_vars(BumpManifestVersion(h))
Fairness == Others /\ \A d \in Device, k \in Slot : Timer(d, k)

Spec == Init /\ [][Next]_vars /\ Fairness

-----------------------------------------------------------------------------
(* Properties.                                                              *)

Fetch ==
  {Idle}
  \cup [pc : {"config"}, since : Meta \cup {NULL}]
  \cup [pc : {"fill", "rows"}, since : Meta \cup {NULL}, version : Version]
  \cup [pc : {"date"}, since : Meta \cup {NULL}, version : Version, full : BOOLEAN,
        missed : SUBSET Code, rows : [Code -> Row \cup {NULL}]]
  \cup [pc : {"apply"}, since : Meta \cup {NULL}, meta : Meta, full : BOOLEAN,
        missed : SUBSET Code, rows : [Code -> Row \cup {NULL}]]

\* Tables, cache, requests and phones have their shapes, and no version is known
\* anywhere before the database has it.
TypeOK ==
  /\ pass \in [Code -> PassRow] /\ version \in Version /\ clock \in Clock
  /\ cache \in 1..version \cup {NULL}
  /\ desk \in [Handler -> {Idle} \cup [pc : {"bump", "drop"}] \cup [pc : {"revoke"}, code : Code]]
  /\ fetch \in [Device -> [Slot -> Fetch]]
  /\ phone \in [Device -> [meta : Meta, rows : [Code -> Row \cup {NULL}]] \cup {NULL}]
  /\ \A d \in Device : phone[d] # NULL => phone[d].meta.version <= version
  /\ untold \subseteq Code /\ slipped \in [Device -> SUBSET Code] /\ mixed \subseteq Device

\* A phone at the current version knows every revocation, restoration and deletion
\* (manifest.ts: "the one change a device must not miss"), whatever the cache,
\* crashes and other refreshes do; except of a write whose bump has not come, and
\* on a phone that merged a delta into a store that another refresh had replaced.
CurrentVersionKnowsStatus ==
  \A d \in Device \ mixed, c \in Code \ untold :
    (phone[d] # NULL /\ phone[d].meta.version = version /\ phone[d].rows[c] # NULL)
      => Issued(c) /\ phone[d].rows[c].status = pass[c].status

\* A manifest tells of every pass, review and check-in up to its date, also through
\* deltas (manifest.ts: "a device would keep admitting somebody who walked through
\* four minutes ago on another phone"), except of a row that was written between
\* the query and the date, or that committed after the time it is stamped with.
ManifestTellsUpToItsDate ==
  \A d \in Device \ mixed : phone[d] # NULL => \A c \in Code \ (slipped[d] \cup untold) :
    (Shipped(c) /\ pass[c].stamp <= phone[d].meta.generatedAt) =>
      /\ phone[d].rows[c] # NULL
      /\ (pass[c].arrivedAt # NULL /\ pass[c].arrivedAt <= phone[d].meta.generatedAt)
           => phone[d].rows[c].inside

Lets(d, c) == phone[d] # NULL /\ phone[d].rows[c] # NULL /\ phone[d].rows[c].status = "ACTIVE"

\* Every phone in use stops letting a revoked pass in, although pushes are lost, Redis
\* keeps an old version, refreshes fail and overlap.
RevocationsArrive ==
  \A d \in Device, c \in Code :
    (pass[c].status = "REVOKED" /\ c \notin untold) ~>
      (~Lets(d, c) \/ pass[c].status # "REVOKED" \/ c \in untold \/ d \in mixed)
=============================================================================
