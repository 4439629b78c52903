-------------------------- MODULE ManifestFeedProofs --------------------------
(***************************************************************************)
(* Proofs about ManifestFeed: what a phone holds is what its manifest's     *)
(* version and date promise, for any number of passes, phones, refreshes    *)
(* under way and requests of the control room.                              *)
(*                                                                          *)
(* The invariant says of every answer on its way what the properties say of *)
(* a stored manifest: the answer is right for the version and the date it   *)
(* carries, up to the writes that happened since it was read.  A delta is   *)
(* right relative to the store it was asked for.                            *)
(***************************************************************************)
EXTENDS ManifestFeed, TLAPS

-----------------------------------------------------------------------------
(* The inductive invariant.                                                 *)

Read(f) == f.pc \in {"date", "apply"}

\* The version an answer carries.
Told(f) == IF f.pc = "apply" THEN f.meta.version ELSE f.version

\* No version is told before the database has it.
Known(f) ==
  /\ f.pc \in {"fill", "rows", "date"} => f.version <= version
  /\ f.pc = "apply" => f.meta.version <= version /\ f.meta.generatedAt <= clock

\* A delta is only made for a store of the same version.
Fits(f) == Read(f) /\ ~f.full => f.since # NULL /\ f.since.version = Told(f)

\* An answer names issued passes only.
NamesIssued(f, c) == f.rows[c] # NULL => pass[c].status # "NONE"

\* An answer of the current version has every status right.
HasStatus(f, c) ==
  (Told(f) = version /\ c \notin untold /\ f.rows[c] # NULL)
    => Issued(c) /\ f.rows[c].status = pass[c].status

\* What an answer does not tell, the store it is for knows already.
TellsAll(f, c) ==
  (Shipped(c) /\ c \notin f.missed) =>
    IF f.rows[c] # NULL THEN pass[c].arrivedAt # NULL => f.rows[c].inside
    ELSE ~f.full /\ ~Changed(c, f.since.generatedAt)

Sound(f) ==
  /\ Known(f) /\ Fits(f)
  /\ Read(f) => \A c \in Code : NamesIssued(f, c) /\ HasStatus(f, c) /\ TellsAll(f, c)

\* The same of the manifest m a phone has stored.
StoredStatus(m, c) ==
  (m.meta.version = version /\ c \notin untold /\ m.rows[c] # NULL)
    => Issued(c) /\ m.rows[c].status = pass[c].status

StoredTells(m, c) ==
  (Shipped(c) /\ pass[c].stamp <= m.meta.generatedAt) =>
    /\ m.rows[c] # NULL
    /\ (pass[c].arrivedAt # NULL /\ pass[c].arrivedAt <= m.meta.generatedAt)
         => m.rows[c].inside

Kept(d) ==
  phone[d] # NULL =>
    /\ phone[d].meta.generatedAt <= clock
    /\ \A c \in Code :
         /\ NamesIssued(phone[d], c)
         /\ d \notin mixed => StoredStatus(phone[d], c)
         /\ d \notin mixed /\ c \notin slipped[d] => StoredTells(phone[d], c)

AnswersAreSound == \A d \in Device, k \in Slot : Sound(fetch[d][k])
StoresAreSound == \A d \in Device : Kept(d)

FeedInv == TypeOK /\ AnswersAreSound /\ StoresAreSound


-----------------------------------------------------------------------------
(* What the shapes say of one refresh, one phone and one pass.              *)

LEMMA PassShape ==
  ASSUME TypeOK, NEW c \in Code
  PROVE  pass[c] \in PassRow
BY DEF TypeOK

LEMMA FetchShape ==
  ASSUME NEW f \in Fetch
  PROVE  /\ f.pc \in {"idle", "config", "fill", "rows", "date", "apply"}
         /\ f.pc = "idle" => f = Idle
         /\ f.pc # "idle" => f.since \in Meta \cup {NULL}
         /\ f.pc \in {"fill", "rows", "date"} => f.version \in Version
         /\ f.pc = "apply" => f.meta \in Meta
         /\ Read(f) => /\ f.full \in BOOLEAN /\ f.missed \in SUBSET Code
                       /\ f.rows \in [Code -> Row \cup {NULL}]
BY DEF Fetch, Idle, Read

LEMMA StoreShape ==
  ASSUME TypeOK, NEW d \in Device, phone[d] # NULL
  PROVE  /\ phone[d].meta \in Meta /\ phone[d].rows \in [Code -> Row \cup {NULL}]
         /\ phone[d].meta.version <= version
BY DEF TypeOK

LEMMA ClockIsNatural == Clock \subseteq Nat /\ Version \subseteq Nat /\ NULL \notin Clock
BY FeedBounds, NullIsNoVersion DEF Clock, Version

\* A refresh that has read nothing yet promises nothing about the rows.
LEMMA UnreadIsSound ==
  ASSUME NEW f, f.pc \in {"idle", "config", "fill", "rows"}, Known(f)
  PROVE  Sound(f)
BY DEF Sound, Fits, Read

-----------------------------------------------------------------------------
(* Steps of a refresh that touch neither the passes nor the store.          *)

LEMMA OneRefresh ==
  ASSUME FeedInv, NEW d \in Device, NEW k \in Slot, NEW f \in Fetch, Sound(f),
         Step(d, k, f), cache' \in 1..version \cup {NULL},
         UNCHANGED <<pass, version, clock, desk, phone, untold, slipped, mixed>>
  PROVE  FeedInv'
<1>1. fetch' = [fetch EXCEPT ![d][k] = f]
  BY DEF Step
<1>2. fetch \in [Device -> [Slot -> Fetch]]
  BY DEF FeedInv, TypeOK
<1>3. fetch' \in [Device -> [Slot -> Fetch]]
  BY <1>1, <1>2
<1>4. TypeOK'
  BY <1>3 DEF FeedInv, TypeOK
<1>5. AnswersAreSound'
  <2>. SUFFICES ASSUME NEW e \in Device, NEW j \in Slot
                PROVE  Sound(fetch[e][j])'
    BY DEF AnswersAreSound
  <2>1. Sound(fetch'[e][j])
    BY <1>1, <1>2 DEF FeedInv, AnswersAreSound
  <2>. QED BY <2>1 DEF Sound, Known, Fits, Read, Told, NamesIssued, HasStatus, TellsAll,
                       Shipped, Issued, Changed
<1>6. StoresAreSound'
  BY DEF FeedInv, StoresAreSound, Kept, NamesIssued, StoredStatus, StoredTells, Shipped, Issued
<1>. QED BY <1>4, <1>5, <1>6 DEF FeedInv

LEMMA AskKeeps ==
  ASSUME FeedInv, NEW d \in Device, NEW k \in Slot, NEW force \in BOOLEAN, Ask(d, k, force)
  PROVE  FeedInv'
<1>. DEFINE s == IF force \/ phone[d] = NULL THEN NULL ELSE phone[d].meta
            f == [pc |-> "config", since |-> s]
<1>1. s \in Meta \cup {NULL}
  BY StoreShape DEF FeedInv
<1>2. f \in Fetch
  BY <1>1 DEF Fetch
<1>3. Sound(f)
  BY UnreadIsSound DEF Known
<1>4. cache' \in 1..version \cup {NULL}
  BY DEF Ask, FeedInv, TypeOK
<1>5. Step(d, k, f)
  BY DEF Ask
<1>. QED BY <1>2, <1>3, <1>4, <1>5, OneRefresh DEF Ask

LEMMA HitKeeps ==
  ASSUME FeedInv, NEW d \in Device, NEW k \in Slot, Hit(d, k) \/ Miss(d, k)
  PROVE  FeedInv'
<1>. DEFINE v == fetch'[d][k].version
            f(n, w) == [pc |-> n, since |-> fetch[d][k].since, version |-> w]
<1>1. fetch[d][k] \in Fetch /\ fetch[d][k].since \in Meta \cup {NULL}
  BY FetchShape DEF Hit, Miss, Goes, FeedInv, TypeOK
<1>2. version \in Version /\ cache \in 1..version \cup {NULL}
  BY DEF FeedInv, TypeOK
<1>3. 1..version \subseteq Version
  BY <1>2, FeedBounds DEF Version
<1>4. ASSUME NEW n \in {"rows", "fill"}, NEW w \in 1..version
      PROVE  f(n, w) \in Fetch /\ Sound(f(n, w))
  <2>1. f(n, w) \in Fetch
    BY <1>1, <1>3, <1>4 DEF Fetch
  <2>2. Known(f(n, w))
    BY <1>2, <1>4 DEF Known
  <2>. QED BY <2>1, <2>2, UnreadIsSound
<1>5. CASE Hit(d, k)
  <2>1. Step(d, k, f("rows", cache)) /\ cache \in 1..version
    BY <1>2, <1>5 DEF Hit
  <2>. QED BY <1>2, <1>4, <1>5, <2>1, OneRefresh DEF Hit
<1>6. CASE Miss(d, k)
  <2>1. Step(d, k, f("fill", version)) /\ version \in 1..version
    BY <1>2, <1>6, FeedBounds DEF Miss, Version
  <2>. QED BY <1>2, <1>4, <1>6, <2>1, OneRefresh DEF Miss
<1>. QED BY <1>5, <1>6

LEMMA FillKeeps ==
  ASSUME FeedInv, NEW d \in Device, NEW k \in Slot, Fill(d, k)
  PROVE  FeedInv'
<1>. DEFINE o == fetch[d][k]
            f == [o EXCEPT !.pc = "rows"]
<1>1. o \in [pc : {"fill", "rows"}, since : Meta \cup {NULL}, version : Version]
  BY DEF Fill, Goes, FeedInv, TypeOK, Fetch, Idle
<1>2. o.version <= version
  BY DEF Fill, Goes, FeedInv, AnswersAreSound, Sound, Known
<1>3. f \in Fetch
  BY <1>1 DEF Fetch
<1>4. Known(f)
  BY <1>1, <1>2 DEF Known
<1>5. Sound(f)
  BY <1>1, <1>4, UnreadIsSound
<1>6. cache' \in 1..version \cup {NULL}
  BY <1>1, <1>2 DEF Fill, FeedInv, TypeOK, Version
<1>. QED BY <1>3, <1>5, <1>6, OneRefresh DEF Fill

LEMMA QueryKeeps ==
  ASSUME FeedInv, NEW d \in Device, NEW k \in Slot, Query(d, k)
  PROVE  FeedInv'
<1>. DEFINE o == fetch[d][k]
            r == [c \in Code |->
                    IF Shipped(c) /\ (WantsDelta(o) => Changed(c, o.since.generatedAt))
                      THEN [status |-> pass[c].status, inside |-> pass[c].arrivedAt # NULL]
                      ELSE NULL]
            f == [pc |-> "date", version |-> o.version, full |-> ~WantsDelta(o),
                  since |-> o.since, missed |-> {}, rows |-> r]
<1>1. o \in [pc : {"fill", "rows"}, since : Meta \cup {NULL}, version : Version]
  BY DEF Query, Goes, FeedInv, TypeOK, Fetch, Idle
<1>2. o.version <= version
  BY DEF Query, Goes, FeedInv, AnswersAreSound, Sound, Known
<1>3. ASSUME NEW c \in Code, r[c] # NULL
      PROVE  /\ Shipped(c)
             /\ r[c] = [status |-> pass[c].status, inside |-> pass[c].arrivedAt # NULL]
  BY <1>3
<1>4. ASSUME NEW c \in Code, Shipped(c)
      PROVE  [status |-> pass[c].status, inside |-> pass[c].arrivedAt # NULL] \in Row
  BY <1>4 DEF Shipped, Issued, Row
<1>5. r \in [Code -> Row \cup {NULL}]
  BY <1>4
<1>6. f \in Fetch
  <2>1. (~WantsDelta(o)) \in BOOLEAN
    BY DEF WantsDelta
  <2>. QED BY <1>1, <1>5, <2>1 DEF Fetch
<1>7. Known(f)
  BY <1>2 DEF Known
<1>8. Fits(f)
  BY DEF Fits, WantsDelta, Told
<1>9. ASSUME NEW c \in Code
      PROVE  NamesIssued(f, c) /\ HasStatus(f, c) /\ TellsAll(f, c)
  <2>1. NamesIssued(f, c) /\ HasStatus(f, c)
    BY <1>3 DEF NamesIssued, HasStatus, Shipped, Issued
  <2>2. CASE r[c] # NULL
    BY <1>3, <2>1, <2>2 DEF TellsAll
  <2>3. CASE r[c] = NULL
    <3>1. Shipped(c) => WantsDelta(o) /\ ~Changed(c, o.since.generatedAt)
      BY <1>4, <2>3, NullIsNoRow
    <3>. QED BY <2>1, <2>3, <3>1 DEF TellsAll
  <2>. QED BY <2>2, <2>3
<1>10. Sound(f)
  BY <1>7, <1>8, <1>9 DEF Sound
<1>11. cache' \in 1..version \cup {NULL}
  BY DEF Query, FeedInv, TypeOK
<1>12. Step(d, k, f)
  BY DEF Query
<1>. QED BY <1>6, <1>10, <1>11, <1>12, OneRefresh DEF Query

LEMMA DateKeeps ==
  ASSUME FeedInv, NEW d \in Device, NEW k \in Slot, Date(d, k)
  PROVE  FeedInv'
<1>. DEFINE o == fetch[d][k]
            f == [pc |-> "apply", full |-> o.full, since |-> o.since, missed |-> o.missed,
                  rows |-> o.rows, meta |-> [version |-> o.version, generatedAt |-> clock]]
<1>1. o \in [pc : {"date"}, since : Meta \cup {NULL}, version : Version, full : BOOLEAN,
             missed : SUBSET Code, rows : [Code -> Row \cup {NULL}]]
  BY DEF Date, Goes, FeedInv, TypeOK, Fetch, Idle
<1>2. Sound(o) /\ o.pc = "date"
  BY DEF Date, Goes, FeedInv, AnswersAreSound
<1>3. clock \in Clock /\ clock \in Nat
  BY ClockIsNatural DEF FeedInv, TypeOK
<1>4. f \in Fetch
  BY <1>1, <1>3 DEF Fetch, Meta
<1>5. Known(f)
  BY <1>2, <1>3 DEF Known, Sound
<1>6. Told(f) = Told(o) /\ Read(f) /\ Read(o)
  BY <1>2 DEF Told, Read
<1>7. Fits(f)
  BY <1>2, <1>6 DEF Fits, Sound
<1>8. \A c \in Code : NamesIssued(f, c) /\ HasStatus(f, c) /\ TellsAll(f, c)
  BY <1>2, <1>6 DEF Sound, NamesIssued, HasStatus, TellsAll
<1>9. Sound(f)
  BY <1>5, <1>7, <1>8 DEF Sound
<1>10. cache' \in 1..version \cup {NULL}
  BY DEF Date, FeedInv, TypeOK
<1>11. Step(d, k, f)
  BY DEF Date
<1>. QED BY <1>4, <1>9, <1>10, <1>11, OneRefresh DEF Date

LEMMA FailKeeps ==
  ASSUME FeedInv, NEW d \in Device, NEW k \in Slot, Fail(d, k)
  PROVE  FeedInv'
<1>1. Idle \in Fetch
  BY DEF Fetch
<1>2. Sound(Idle)
  BY UnreadIsSound DEF Known, Idle
<1>3. cache' \in 1..version \cup {NULL}
  BY DEF Fail, FeedInv, TypeOK
<1>. QED BY <1>1, <1>2, <1>3, OneRefresh DEF Fail

-----------------------------------------------------------------------------
(* Writes.                                                                  *)

\* What Slip does to one refresh and one phone.
LEMMA SlipFacts ==
  ASSUME TypeOK, NEW c \in Code, NEW t, Slip(c, t), NEW d \in Device, NEW k \in Slot
  PROVE  /\ fetch' \in [Device -> [Slot -> Fetch]]
         /\ slipped' \in [Device -> SUBSET Code]
         /\ ~Read(fetch[d][k]) => fetch'[d][k] = fetch[d][k]
         /\ Read(fetch[d][k]) =>
              fetch'[d][k] = [fetch[d][k] EXCEPT !.missed = fetch[d][k].missed \cup {c}]
         /\ slipped[d] \subseteq slipped'[d]
         /\ (phone[d] # NULL /\ t <= phone[d].meta.generatedAt) => c \in slipped'[d]
<1>1. \A e \in Device, j \in Slot : Reading(e, j) <=> Read(fetch[e][j])
  BY DEF Reading, Read
<1>2. \A e \in Device, j \in Slot :
        fetch'[e][j] = IF Read(fetch[e][j])
                         THEN [fetch[e][j] EXCEPT !.missed = fetch[e][j].missed \cup {c}]
                         ELSE fetch[e][j]
  BY <1>1 DEF Slip
<1>3. ASSUME NEW e \in Device, NEW j \in Slot
      PROVE  fetch'[e][j] \in Fetch
  <2>1. fetch[e][j] \in Fetch
    BY DEF TypeOK
  <2>2. CASE Read(fetch[e][j])
    <3>1. [fetch[e][j] EXCEPT !.missed = fetch[e][j].missed \cup {c}] \in Fetch
      BY <2>1, <2>2 DEF Fetch, Read, Idle
    <3>. QED BY <1>2, <2>2, <3>1
  <2>3. CASE ~Read(fetch[e][j])
    BY <1>2, <2>1, <2>3
  <2>. QED BY <2>2, <2>3
<1>4. fetch' \in [Device -> [Slot -> Fetch]]
  BY <1>3 DEF Slip
<1>5. slipped' \in [Device -> SUBSET Code]
  BY DEF Slip, TypeOK
<1>. QED BY <1>2, <1>4, <1>5 DEF Slip

\* A write that stamps the row slips through the refreshes under way; to a store it is
\* newer than the date, or it is on the list of what slipped past.
LEMMA StampedWrite ==
  ASSUME FeedInv, NEW c \in Code, NEW row \in PassRow, NEW t, Write(c, row, t),
         \/ t = clock + 1 /\ row.stamp = t
         \/ t \in {clock, clock + 1} /\ row = [pass[c] EXCEPT !.arrivedAt = t],
         row.status \in {"ACTIVE", "REVOKED"},
         row.status = pass[c].status \/ pass[c].status = "NONE" \/ c \in untold',
         untold \subseteq untold', untold' \subseteq Code,
         desk' \in [Handler -> {Idle} \cup [pc : {"bump", "drop"}]
                                      \cup [pc : {"revoke"}, code : Code]],
         UNCHANGED <<version, cache, phone, mixed>>
  PROVE  FeedInv'
<1>1. /\ clock < MaxClock /\ clock' = clock + 1
      /\ pass' = [pass EXCEPT ![c] = row] /\ Slip(c, t)
  BY DEF Write
<1>2. clock \in Nat /\ clock' \in Clock
  BY <1>1, FeedBounds DEF FeedInv, TypeOK, Clock
<1>3. pass'[c] = row /\ \A b \in Code \ {c} : pass'[b] = pass[b]
  BY <1>1 DEF FeedInv, TypeOK
<1>4. pass' \in [Code -> PassRow]
  BY <1>1 DEF FeedInv, TypeOK
<1>5. TypeOK
  BY DEF FeedInv
<1>6. TypeOK'
  <2>1. fetch' \in [Device -> [Slot -> Fetch]] /\ slipped' \in [Device -> SUBSET Code]
    <3>1. CASE Device = {} \/ Slot = {}
      <4>1. slipped' \in [Device -> SUBSET Code]
        BY <1>1, <1>5 DEF Slip, TypeOK
      <4>2. fetch' \in [Device -> [Slot -> Fetch]]
        BY <1>1, <3>1 DEF Slip
      <4>. QED BY <4>1, <4>2
    <3>2. CASE Device # {} /\ Slot # {}
      BY <1>1, <1>5, <3>2, SlipFacts
    <3>. QED BY <3>1, <3>2
  <2>. QED BY <1>2, <1>4, <1>5, <2>1 DEF TypeOK
<1>7. AnswersAreSound'
  <2>. SUFFICES ASSUME NEW d \in Device, NEW k \in Slot
                PROVE  Sound(fetch[d][k])'
    BY DEF AnswersAreSound
  <2>0. PICK f, g : f = fetch[d][k] /\ g = fetch'[d][k]
    OBVIOUS
  <2>1. Sound(f) /\ f \in Fetch
    BY <1>5, <2>0 DEF FeedInv, AnswersAreSound, TypeOK
  <2>2. CASE ~Read(f)
    <3>1. g = f
      BY <1>1, <1>5, <2>0, <2>2, SlipFacts
    <3>2. Known(f)'
      <4>1. f.pc # "apply"
        BY <2>2 DEF Read
      <4>. QED BY <2>1, <3>1, <4>1 DEF Sound, Known
    <3>3. Sound(f)'
      BY <2>2, <3>2 DEF Sound, Fits, Read
    <3>. QED BY <2>0, <3>1, <3>3 DEF Sound, Known, Fits, Read, Told
  <2>3. CASE Read(f)
    <3>1. g = [f EXCEPT !.missed = f.missed \cup {c}]
      BY <1>1, <1>5, <2>0, <2>3, SlipFacts
    <3>2. /\ g.pc = f.pc /\ g.rows = f.rows /\ g.since = f.since /\ g.full = f.full
          /\ g.missed = f.missed \cup {c}
          /\ f.pc = "date" => g.version = f.version
          /\ f.pc = "apply" => g.meta = f.meta
      BY <2>1, <2>3, <3>1 DEF Fetch, Read, Idle
    <3>3. f.pc = "apply" => f.meta.generatedAt \in Nat
      BY <2>1, FetchShape, ClockIsNatural DEF Meta
    <3>4. Known(g)'
      BY <1>1, <1>2, <2>1, <2>3, <3>2, <3>3 DEF Known, Sound, Read
    <3>5. Told(g)' = Told(f)
      BY <2>3, <3>2 DEF Told, Read
    <3>6. Fits(g)'
      BY <2>1, <2>3, <3>2, <3>5 DEF Fits, Sound, Read
    <3>7. ASSUME NEW b \in Code
          PROVE  (NamesIssued(g, b) /\ HasStatus(g, b) /\ TellsAll(g, b))'
      <4>1. NamesIssued(f, b) /\ HasStatus(f, b) /\ TellsAll(f, b)
        BY <2>1, <2>3 DEF Sound
      <4>2. CASE b = c
        <5>1. NamesIssued(g, b)'
          BY <1>3, <4>2 DEF NamesIssued
        <5>2. HasStatus(g, b)'
          BY <1>3, <3>2, <3>5, <4>1, <4>2 DEF HasStatus, NamesIssued, Issued
        <5>3. TellsAll(g, b)'
          BY <3>2, <4>2 DEF TellsAll
        <5>. QED BY <5>1, <5>2, <5>3
      <4>3. CASE b # c
        <5>1. pass'[b] = pass[b]
          BY <1>3, <4>3
        <5>2. NamesIssued(g, b)' /\ HasStatus(g, b)'
          BY <3>2, <3>5, <4>1, <5>1 DEF NamesIssued, HasStatus, Issued
        <5>3. TellsAll(g, b)'
          BY <3>2, <4>1, <4>3, <5>1 DEF TellsAll, Shipped, Issued, Changed
        <5>. QED BY <5>2, <5>3
      <4>. QED BY <4>2, <4>3
    <3>8. Sound(g)'
      BY <3>4, <3>6, <3>7 DEF Sound
    <3>. QED BY <2>0, <3>8
  <2>. QED BY <2>2, <2>3
<1>8. StoresAreSound'
  <2>. SUFFICES ASSUME NEW d \in Device, phone[d] # NULL
                PROVE  Kept(d)'
    BY DEF StoresAreSound, Kept
  <2>0. PICK m : m = phone[d]
    OBVIOUS
  <2>1. Kept(d) /\ phone'[d] = m
    BY <2>0 DEF FeedInv, StoresAreSound
  <2>2. m.meta.generatedAt \in Nat /\ m.meta.generatedAt <= clock
    BY <1>5, <2>0, <2>1, StoreShape, ClockIsNatural DEF Kept, Meta
  <2>3. slipped[d] \subseteq slipped'[d]
        /\ (t <= m.meta.generatedAt => c \in slipped'[d])
    BY <1>1, <1>5, <2>0 DEF Slip, TypeOK
  <2>4. ASSUME NEW b \in Code
        PROVE  /\ NamesIssued(m, b)'
               /\ d \notin mixed' => StoredStatus(m, b)'
               /\ d \notin mixed' /\ b \notin slipped'[d] => StoredTells(m, b)'
    <3>1. /\ NamesIssued(m, b)
          /\ d \notin mixed => StoredStatus(m, b)
          /\ d \notin mixed /\ b \notin slipped[d] => StoredTells(m, b)
      BY <2>0, <2>1 DEF Kept
    <3>2. CASE b = c
      <4>1. NamesIssued(m, b)'
        BY <1>3, <3>2 DEF NamesIssued
      <4>2. d \notin mixed' => StoredStatus(m, b)'
        BY <1>3, <3>1, <3>2 DEF StoredStatus, NamesIssued, Issued
      <4>3. ASSUME d \notin mixed', b \notin slipped'[d]
            PROVE  StoredTells(m, b)'
        <5>1. ~(t <= m.meta.generatedAt)
          BY <2>3, <3>2, <4>3
        <5>2. CASE row.stamp = t
          BY <1>3, <3>2, <5>1, <5>2 DEF StoredTells
        <5>3. CASE row = [pass[c] EXCEPT !.arrivedAt = t]
          <6>1. pass[c] \in PassRow
            BY <1>5, PassShape
          <6>2. row.arrivedAt = t /\ row.stamp = pass[c].stamp
                /\ row.rejected = pass[c].rejected /\ row.status = pass[c].status
            BY <5>3, <6>1 DEF PassRow
          <6>3. StoredTells(m, b)
            BY <2>3, <3>1, <4>3
          <6>. QED BY <1>3, <3>2, <5>1, <6>2, <6>3 DEF StoredTells, Shipped, Issued
        <5>. QED BY <5>2, <5>3
      <4>. QED BY <4>1, <4>2, <4>3
    <3>3. CASE b # c
      <4>1. pass'[b] = pass[b]
        BY <1>3, <3>3
      <4>. QED BY <2>3, <3>1, <4>1 DEF NamesIssued, StoredStatus, StoredTells, Shipped, Issued
    <3>. QED BY <3>2, <3>3
  <2>5. (m.meta.generatedAt <= clock)'
    BY <1>1, <1>2, <2>2
  <2>. QED BY <2>1, <2>4, <2>5 DEF Kept
<1>. QED BY <1>6, <1>7, <1>8 DEF FeedInv

\* A write without a stamp leaves the status alone or is not told yet, and takes a pass
\* out of the manifest or a check-in away, if anything.
LEMMA QuietWrite ==
  ASSUME FeedInv, NEW c \in Code, NEW row \in PassRow, pass' = [pass EXCEPT ![c] = row],
         row.status # "NONE", row.stamp = pass[c].stamp,
         row.arrivedAt \in {pass[c].arrivedAt, NULL},
         row.status \in {"ACTIVE", "REVOKED"} /\ ~row.rejected => Shipped(c),
         row.status = pass[c].status \/ c \in untold',
         untold \subseteq untold', untold' \subseteq Code,
         desk' \in [Handler -> {Idle} \cup [pc : {"bump", "drop"}]
                                      \cup [pc : {"revoke"}, code : Code]],
         UNCHANGED <<version, clock, cache, fetch, phone, slipped, mixed>>
  PROVE  FeedInv'
<1>1. pass'[c] = row /\ \A b \in Code \ {c} : pass'[b] = pass[b]
  BY DEF FeedInv, TypeOK
<1>2. TypeOK'
  BY DEF FeedInv, TypeOK
<1>3. \A b \in Code : /\ pass'[b].status = pass[b].status \/ b \in untold'
                      /\ pass[b].status # "NONE" => pass'[b].status # "NONE"
                      /\ Shipped(b)' => Shipped(b)
                      /\ pass'[b].stamp = pass[b].stamp
                      /\ pass'[b].arrivedAt \in {pass[b].arrivedAt, NULL}
  BY <1>1 DEF Shipped, Issued
<1>4. AnswersAreSound'
  <2>. SUFFICES ASSUME NEW d \in Device, NEW k \in Slot
                PROVE  Sound(fetch[d][k])'
    BY DEF AnswersAreSound
  <2>0. PICK f : f = fetch[d][k]
    OBVIOUS
  <2>1. Sound(f) /\ fetch'[d][k] = f
    BY <2>0 DEF FeedInv, AnswersAreSound
  <2>2. (Known(f) /\ Fits(f))' /\ Told(f)' = Told(f)
    BY <2>1 DEF Sound, Known, Fits, Read, Told
  <2>3. ASSUME NEW b \in Code, Read(f)
        PROVE  (NamesIssued(f, b) /\ HasStatus(f, b) /\ TellsAll(f, b))'
    <3>1. NamesIssued(f, b) /\ HasStatus(f, b) /\ TellsAll(f, b)
      BY <2>1, <2>3 DEF Sound
    <3>2. NamesIssued(f, b)'
      BY <1>3, <3>1 DEF NamesIssued
    <3>3. HasStatus(f, b)'
      BY <1>3, <2>2, <3>1 DEF HasStatus, Issued
    <3>4. TellsAll(f, b)'
      BY <1>3, <3>1 DEF TellsAll, Changed
    <3>. QED BY <3>2, <3>3, <3>4
  <2>4. Sound(f)'
    BY <2>2, <2>3 DEF Sound, Read
  <2>. QED BY <2>1, <2>4
<1>5. StoresAreSound'
  <2>. SUFFICES ASSUME NEW d \in Device, phone[d] # NULL
                PROVE  Kept(d)'
    BY DEF StoresAreSound, Kept
  <2>0. PICK m : m = phone[d]
    OBVIOUS
  <2>1. Kept(d) /\ phone'[d] = m
    BY <2>0 DEF FeedInv, StoresAreSound
  <2>2. ASSUME NEW b \in Code
        PROVE  /\ NamesIssued(m, b)'
               /\ d \notin mixed' => StoredStatus(m, b)'
               /\ d \notin mixed' /\ b \notin slipped'[d] => StoredTells(m, b)'
    <3>1. /\ NamesIssued(m, b)
          /\ d \notin mixed => StoredStatus(m, b)
          /\ d \notin mixed /\ b \notin slipped[d] => StoredTells(m, b)
      BY <2>0, <2>1 DEF Kept
    <3>2. NamesIssued(m, b)'
      BY <1>3, <3>1 DEF NamesIssued
    <3>3. d \notin mixed' => StoredStatus(m, b)'
      BY <1>3, <3>1 DEF StoredStatus, Issued
    <3>4. d \notin mixed' /\ b \notin slipped'[d] => StoredTells(m, b)'
      BY <1>3, <3>1 DEF StoredTells
    <3>. QED BY <3>2, <3>3, <3>4
  <2>3. (m.meta.generatedAt <= clock)'
    BY <2>0, <2>1 DEF Kept
  <2>. QED BY <2>1, <2>2, <2>3 DEF Kept
<1>. QED BY <1>2, <1>4, <1>5 DEF FeedInv

LEMMA NextStamp ==
  ASSUME TypeOK, clock < MaxClock
  PROVE  clock \in Clock /\ clock + 1 \in Clock
BY FeedBounds DEF TypeOK, Clock

LEMMA IssueKeeps ==
  ASSUME FeedInv, NEW c \in Code, Issue(c)
  PROVE  FeedInv'
<1>. DEFINE r == [pass[c] EXCEPT !.status = "ACTIVE", !.stamp = clock + 1]
<1>1. pass[c] \in PassRow /\ pass[c].status = "NONE"
  BY PassShape DEF FeedInv, Issue
<1>2. clock + 1 \in Clock /\ Write(c, r, clock + 1)
  BY NextStamp DEF FeedInv, Issue, Write
<1>3. r \in PassRow /\ r.stamp = clock + 1 /\ r.status = "ACTIVE"
  BY <1>1, <1>2 DEF PassRow
<1>. HIDE DEF r
<1>. QED BY <1>1, <1>2, <1>3, StampedWrite DEF Issue, FeedInv, TypeOK

LEMMA UpdateKeeps ==
  ASSUME FeedInv, NEW c \in Code, Update(c)
  PROVE  FeedInv'
<1>. DEFINE r == [pass[c] EXCEPT !.stamp = clock + 1, !.rejected = FALSE]
<1>1. pass[c] \in PassRow
  BY PassShape DEF FeedInv
<1>2. clock + 1 \in Clock /\ Write(c, r, clock + 1)
  BY NextStamp DEF FeedInv, Update, Write
<1>3. r \in PassRow /\ r.stamp = clock + 1 /\ r.status = pass[c].status
  BY <1>1, <1>2 DEF PassRow
<1>4. r.status \in {"ACTIVE", "REVOKED"}
  BY <1>3 DEF Update, Issued
<1>. HIDE DEF r
<1>. QED BY <1>2, <1>3, <1>4, StampedWrite DEF Update, FeedInv, TypeOK

LEMMA CheckInKeeps ==
  ASSUME FeedInv, NEW c \in Code, CheckIn(c)
  PROVE  FeedInv'
<1>1. PICK t \in {clock, clock + 1} : Write(c, [pass[c] EXCEPT !.arrivedAt = t], t)
  BY DEF CheckIn
<1>. DEFINE r == [pass[c] EXCEPT !.arrivedAt = t]
<1>2. pass[c] \in PassRow
  BY PassShape DEF FeedInv
<1>3. t \in Clock
  BY <1>1, NextStamp DEF FeedInv, Write
<1>4. r \in PassRow /\ r.status = pass[c].status
  BY <1>2, <1>3 DEF PassRow
<1>5. r.status \in {"ACTIVE", "REVOKED"}
  BY <1>4 DEF CheckIn, Issued
<1>6. Write(c, r, t) /\ r = [pass[c] EXCEPT !.arrivedAt = t]
  BY <1>1
<1>. HIDE DEF r
<1>. QED BY <1>1, <1>4, <1>5, <1>6, StampedWrite DEF CheckIn, FeedInv, TypeOK

LEMMA ReverseKeeps ==
  ASSUME FeedInv, NEW c \in Code, Reverse(c)
  PROVE  FeedInv'
<1>. DEFINE r == [pass[c] EXCEPT !.arrivedAt = NULL]
<1>1. pass[c] \in PassRow
  BY PassShape DEF FeedInv
<1>2. CASE pass[c].status = "NONE"
  <2>1. pass'[c] = r /\ \A b \in Code \ {c} : pass'[b] = pass[b]
    BY DEF Reverse, FeedInv, TypeOK
  <2>2. r \in PassRow /\ r.status = "NONE"
    BY <1>1, <1>2 DEF PassRow
  <2>3. pass' \in [Code -> PassRow]
    BY <2>2 DEF Reverse, FeedInv, TypeOK
  <2>4. TypeOK'
    BY <2>3 DEF Reverse, feed, FeedInv, TypeOK
  <2>5. \A b \in Code : pass'[b] = pass[b] \/ (pass'[b].status = "NONE" /\ pass[b].status = "NONE")
    BY <1>2, <2>1, <2>2
  <2>6. UNCHANGED <<version, clock, fetch, phone, untold, slipped, mixed>>
    BY DEF Reverse, feed
  <2>7. AnswersAreSound'
    BY <2>5, <2>6 DEF FeedInv, AnswersAreSound, Sound, Known, Fits, Read, Told, NamesIssued,
                      HasStatus, TellsAll, Shipped, Issued, Changed
  <2>8. StoresAreSound'
    BY <2>5, <2>6 DEF FeedInv, StoresAreSound, Kept, NamesIssued, StoredStatus, StoredTells,
                      Shipped, Issued
  <2>. QED BY <2>4, <2>7, <2>8 DEF FeedInv
<1>3. CASE pass[c].status # "NONE"
  <2>1. /\ r \in PassRow /\ r.status = pass[c].status /\ r.stamp = pass[c].stamp
        /\ r.arrivedAt = NULL /\ r.rejected = pass[c].rejected
    BY <1>1 DEF PassRow
  <2>2. pass' = [pass EXCEPT ![c] = r]
    BY DEF Reverse
  <2>3. /\ desk' \in [Handler -> {Idle} \cup [pc : {"bump", "drop"}]
                           \cup [pc : {"revoke"}, code : Code]]
        /\ untold \subseteq untold' /\ untold' \subseteq Code
        /\ UNCHANGED <<version, clock, cache, fetch, phone, slipped, mixed>>
    BY DEF Reverse, feed, FeedInv, TypeOK
  <2>4. r.status \in {"ACTIVE", "REVOKED"} /\ ~r.rejected => Shipped(c)
    BY <2>1 DEF Shipped, Issued
  <2>. HIDE DEF r
  <2>. QED BY <1>3, <2>1, <2>2, <2>3, <2>4, QuietWrite
<1>. QED BY <1>2, <1>3

LEMMA WithdrawKeeps ==
  ASSUME FeedInv, NEW c \in Code, Withdraw(c)
  PROVE  FeedInv'
<1>. DEFINE r == [pass[c] EXCEPT !.status = "GONE", !.arrivedAt = NULL]
<1>1. pass[c] \in PassRow
  BY PassShape DEF FeedInv
<1>2. r \in PassRow /\ r.status = "GONE" /\ r.stamp = pass[c].stamp /\ r.arrivedAt = NULL
  BY <1>1 DEF PassRow
<1>3. pass' = [pass EXCEPT ![c] = r]
  BY DEF Withdraw, FeedInv, TypeOK
<1>4. /\ desk' \in [Handler -> {Idle} \cup [pc : {"bump", "drop"}]
                         \cup [pc : {"revoke"}, code : Code]]
      /\ untold \subseteq untold' /\ untold' \subseteq Code /\ c \in untold'
      /\ UNCHANGED <<version, clock, cache, fetch, phone, slipped, mixed>>
  BY DEF Withdraw, FeedInv, TypeOK
<1>. HIDE DEF r
<1>. QED BY <1>2, <1>3, <1>4, QuietWrite

\* A request of the control room that writes and has its bump still to come.
LEMMA AnnounceKeeps ==
  ASSUME FeedInv, NEW h \in Handler, NEW c \in Code, NEW row \in PassRow, Announce(h, c, row),
         row.status # "NONE", row.stamp = pass[c].stamp,
         row.arrivedAt \in {pass[c].arrivedAt, NULL},
         row.status \in {"ACTIVE", "REVOKED"} /\ ~row.rejected => Shipped(c)
  PROVE  FeedInv'
<1>1. desk' \in [Handler -> {Idle} \cup [pc : {"bump", "drop"}] \cup [pc : {"revoke"}, code : Code]]
  BY DEF Announce, FeedInv, TypeOK
<1>. QED BY <1>1, QuietWrite DEF Announce, FeedInv, TypeOK

LEMMA RevokingKeeps ==
  ASSUME FeedInv, NEW h \in Handler, NEW c \in Code, Revoking(h, c)
  PROVE  FeedInv'
<1>1. pass[c] \in PassRow
  BY PassShape DEF FeedInv
<1>2. CASE RevokePass(h, c)
  <2>. DEFINE r == [pass[c] EXCEPT !.status = "REVOKED"]
  <2>1. /\ r \in PassRow /\ r.status = "REVOKED" /\ r.stamp = pass[c].stamp
        /\ r.arrivedAt = pass[c].arrivedAt /\ r.rejected = pass[c].rejected
    BY <1>1 DEF PassRow
  <2>2. Announce(h, c, r) /\ Issued(c)
    BY <1>2 DEF RevokePass, Issued
  <2>. HIDE DEF r
  <2>. QED BY <2>1, <2>2, AnnounceKeeps DEF Shipped
<1>3. CASE RestorePass(h, c)
  <2>. DEFINE r == [pass[c] EXCEPT !.status = "ACTIVE"]
  <2>1. /\ r \in PassRow /\ r.status = "ACTIVE" /\ r.stamp = pass[c].stamp
        /\ r.arrivedAt = pass[c].arrivedAt /\ r.rejected = pass[c].rejected
    BY <1>1 DEF PassRow
  <2>2. Announce(h, c, r) /\ Issued(c)
    BY <1>3 DEF RestorePass, Issued
  <2>. HIDE DEF r
  <2>. QED BY <2>1, <2>2, AnnounceKeeps DEF Shipped
<1>4. CASE Delete(h, c)
  <2>. DEFINE r == [pass[c] EXCEPT !.status = "GONE", !.arrivedAt = NULL]
  <2>1. r \in PassRow /\ r.status = "GONE" /\ r.stamp = pass[c].stamp /\ r.arrivedAt = NULL
    BY <1>1 DEF PassRow
  <2>2. Announce(h, c, r)
    BY <1>4 DEF Delete
  <2>. HIDE DEF r
  <2>. QED BY <2>1, <2>2, AnnounceKeeps
<1>5. CASE Reject(h, c)
  <2>. DEFINE r == [pass[c] EXCEPT !.rejected = TRUE]
  <2>1. /\ r \in PassRow /\ r.status = pass[c].status /\ r.stamp = pass[c].stamp
        /\ r.arrivedAt = pass[c].arrivedAt /\ r.rejected
    BY <1>1 DEF PassRow
  <2>2. pass' = [pass EXCEPT ![c] = r] /\ pass[c].status = "ACTIVE"
    BY <1>5 DEF Reject, FeedInv, TypeOK
  <2>3. /\ desk' \in [Handler -> {Idle} \cup [pc : {"bump", "drop"}]
                           \cup [pc : {"revoke"}, code : Code]]
        /\ untold \subseteq untold' /\ untold' \subseteq Code /\ c \in untold'
        /\ UNCHANGED <<version, clock, cache, fetch, phone, slipped, mixed>>
    BY <1>5 DEF Reject, FeedInv, TypeOK
  <2>. HIDE DEF r
  <2>. QED BY <2>1, <2>2, <2>3, QuietWrite
<1>6. CASE Undo(h, c)
  <2>. DEFINE r == [pass[c] EXCEPT !.status = "REVOKED", !.rejected = FALSE, !.stamp = clock + 1]
  <2>1. clock + 1 \in Clock /\ Write(c, r, clock + 1)
    BY <1>6, NextStamp DEF FeedInv, Undo, Write
  <2>2. r \in PassRow /\ r.status = "REVOKED" /\ r.stamp = clock + 1
    BY <1>1, <2>1 DEF PassRow
  <2>3. desk' \in [Handler -> {Idle} \cup [pc : {"bump", "drop"}]
                                     \cup [pc : {"revoke"}, code : Code]]
    BY <1>6 DEF Undo, FeedInv, TypeOK
  <2>. HIDE DEF r
  <2>. QED BY <1>6, <2>1, <2>2, <2>3, StampedWrite DEF Undo, FeedInv, TypeOK
<1>. QED BY <1>2, <1>3, <1>4, <1>5, <1>6 DEF Revoking

LEMMA RevokeRejectedKeeps ==
  ASSUME FeedInv, NEW h \in Handler, RevokeRejected(h)
  PROVE  FeedInv'
<1>1. PICK c : c = desk[h].code
  OBVIOUS
<1>2. c \in Code /\ Issued(c) /\ Announce(h, c, [pass[c] EXCEPT !.status = "REVOKED"])
  <2>1. desk[h] \in {Idle} \cup [pc : {"bump", "drop"}] \cup [pc : {"revoke"}, code : Code]
    BY DEF FeedInv, TypeOK
  <2>2. desk[h].pc = "revoke"
    BY DEF RevokeRejected
  <2>3. desk[h].code \in Code
    BY <2>1, <2>2 DEF Idle
  <2>. QED BY <1>1, <2>3 DEF RevokeRejected
<1>. DEFINE r == [pass[c] EXCEPT !.status = "REVOKED"]
<1>3. pass[c] \in PassRow
  BY <1>2, PassShape DEF FeedInv
<1>4. /\ r \in PassRow /\ r.status = "REVOKED" /\ r.stamp = pass[c].stamp
      /\ r.arrivedAt = pass[c].arrivedAt /\ r.rejected = pass[c].rejected
  BY <1>3 DEF PassRow
<1>5. Announce(h, c, r)
  BY <1>2
<1>. HIDE DEF r
<1>. QED BY <1>2, <1>4, <1>5, AnnounceKeeps DEF Shipped

-----------------------------------------------------------------------------
(* The version, the cache and the requests of the control room.             *)

\* After a bump nobody has anything of the current version.
LEMMA BumpKeeps ==
  ASSUME FeedInv, NEW h \in Handler, BumpManifestVersion(h)
  PROVE  FeedInv'
<1>1. /\ version' = version + 1 /\ untold' = {} /\ version < MaxVersion
      /\ UNCHANGED <<pass, clock, cache, fetch, phone, slipped, mixed>>
  BY DEF BumpManifestVersion
<1>2. version \in Nat /\ version' \in Version
  BY <1>1, FeedBounds DEF FeedInv, TypeOK, Version
<1>3. desk' \in [Handler -> {Idle} \cup [pc : {"bump", "drop"}] \cup [pc : {"revoke"}, code : Code]]
  <2>1. desk[h] \in {Idle} \cup [pc : {"bump", "drop"}] \cup [pc : {"revoke"}, code : Code]
        /\ desk[h].pc = "bump"
    BY DEF BumpManifestVersion, FeedInv, TypeOK
  <2>2. [desk[h] EXCEPT !.pc = "drop"] \in [pc : {"bump", "drop"}]
    BY <2>1 DEF Idle
  <2>3. desk' = [desk EXCEPT ![h] = [desk[h] EXCEPT !.pc = "drop"]]
    BY DEF BumpManifestVersion
  <2>. QED BY <2>2, <2>3 DEF FeedInv, TypeOK
<1>4. ASSUME NEW d \in Device, phone[d] # NULL
      PROVE  phone[d].meta.version \in Nat /\ phone[d].meta.version <= version
  BY <1>4, StoreShape, ClockIsNatural DEF FeedInv, Meta
<1>5. TypeOK'
  <2>1. cache' \in 1..version' \cup {NULL}
    BY <1>1, <1>2 DEF FeedInv, TypeOK
  <2>2. \A d \in Device : phone'[d] # NULL => phone'[d].meta.version <= version'
    BY <1>1, <1>2, <1>4
  <2>. QED BY <1>1, <1>2, <1>3, <2>1, <2>2 DEF FeedInv, TypeOK
<1>6. AnswersAreSound'
  <2>. SUFFICES ASSUME NEW d \in Device, NEW k \in Slot
                PROVE  Sound(fetch[d][k])'
    BY DEF AnswersAreSound
  <2>0. PICK f : f = fetch[d][k]
    OBVIOUS
  <2>1. Sound(f) /\ f \in Fetch
    BY <2>0 DEF FeedInv, AnswersAreSound, TypeOK
  <2>2. /\ f.pc \in {"fill", "rows", "date"} => f.version \in Nat
        /\ f.pc = "apply" => f.meta.version \in Nat
    BY <2>1, FetchShape, ClockIsNatural DEF Meta
  <2>3. Known(f)'
    BY <1>1, <1>2, <2>1, <2>2 DEF Sound, Known
  <2>4. Told(f)' = Told(f) /\ (Read(f) => Told(f) # version')
    BY <1>1, <1>2, <2>1, <2>2 DEF Sound, Known, Told, Read
  <2>5. Fits(f)'
    BY <2>1, <2>4 DEF Sound, Fits, Read
  <2>6. ASSUME NEW c \in Code, Read(f)
        PROVE  (NamesIssued(f, c) /\ HasStatus(f, c) /\ TellsAll(f, c))'
    BY <1>1, <2>1, <2>4, <2>6 DEF Sound, NamesIssued, HasStatus, TellsAll, Shipped, Issued, Changed
  <2>7. Sound(f)'
    BY <2>3, <2>5, <2>6 DEF Sound, Read
  <2>. QED BY <1>1, <2>0, <2>7
<1>7. StoresAreSound'
  <2>. SUFFICES ASSUME NEW d \in Device, phone[d] # NULL
                PROVE  Kept(d)'
    BY <1>1 DEF StoresAreSound, Kept
  <2>1. Kept(d) /\ phone[d].meta.version # version'
    BY <1>1, <1>2, <1>4 DEF FeedInv, StoresAreSound
  <2>. QED BY <1>1, <2>1 DEF Kept, NamesIssued, StoredStatus, StoredTells, Shipped, Issued
<1>. QED BY <1>5, <1>6, <1>7 DEF FeedInv

\* Steps that neither write nor tell anything.
LEMMA DeskKeeps ==
  ASSUME FeedInv, \/ Expire \/ \E h \in Handler : CacheDel(h) \/ Crash(h)
  PROVE  FeedInv'
<1>1. UNCHANGED <<pass, version, clock, fetch, phone, untold, slipped, mixed>>
  BY DEF Expire, CacheDel, Crash
<1>2. cache' \in 1..version \cup {NULL}
  BY DEF Expire, CacheDel, Crash, FeedInv, TypeOK
<1>3. desk' \in [Handler -> {Idle} \cup [pc : {"bump", "drop"}] \cup [pc : {"revoke"}, code : Code]]
  BY DEF Expire, CacheDel, Crash, FeedInv, TypeOK
<1>4. TypeOK'
  BY <1>1, <1>2, <1>3 DEF FeedInv, TypeOK
<1>5. AnswersAreSound'
  BY <1>1 DEF FeedInv, AnswersAreSound, Sound, Known, Fits, Read, Told, NamesIssued,
              HasStatus, TellsAll, Shipped, Issued, Changed
<1>6. StoresAreSound'
  BY <1>1 DEF FeedInv, StoresAreSound, Kept, NamesIssued, StoredStatus, StoredTells,
              Shipped, Issued
<1>. QED BY <1>4, <1>5, <1>6 DEF FeedInv

-----------------------------------------------------------------------------
(* An answer arrives, or the store is cleared.                              *)

\* A delta completes the store it was asked for; on another one it is a mixture.
LEMMA ApplyKeeps ==
  ASSUME FeedInv, NEW d \in Device, NEW k \in Slot, Apply(d, k)
  PROVE  FeedInv'
<1>0. PICK f : f = fetch[d][k]
  OBVIOUS
<1>1. f \in [pc : {"apply"}, since : Meta \cup {NULL}, meta : Meta, full : BOOLEAN,
             missed : SUBSET Code, rows : [Code -> Row \cup {NULL}]]
  <2>1. fetch[d][k] \in Fetch /\ fetch[d][k].pc = "apply"
    BY DEF Apply, Goes, FeedInv, TypeOK
  <2>. QED BY <1>0, <2>1 DEF Fetch, Idle
<1>2. Sound(f) /\ Read(f)
  BY <1>0, <1>1 DEF FeedInv, AnswersAreSound, Read
<1>3. UNCHANGED <<pass, version, clock, cache, desk, untold>>
  BY DEF Apply
<1>. DEFINE rows == [c \in Code |-> IF f.rows[c] # NULL THEN f.rows[c] ELSE Base(d, f)[c]]
<1>4. PICK m : m = [meta |-> f.meta, rows |-> rows]
  OBVIOUS
<1>5. /\ phone' = [phone EXCEPT ![d] = m] /\ fetch' = [fetch EXCEPT ![d][k] = Idle]
      /\ slipped' = [slipped EXCEPT ![d] =
           f.missed \cup (IF f.full THEN {} ELSE {c \in slipped[d] : f.rows[c] = NULL})]
      /\ mixed' = IF f.full THEN mixed \ {d}
                  ELSE IF phone[d] = NULL \/ f.since # phone[d].meta THEN mixed \cup {d}
                  ELSE mixed
  BY <1>0, <1>4 DEF Apply, Step
<1>6. Base(d, f) \in [Code -> Row \cup {NULL}]
  BY StoreShape DEF Base, FeedInv
<1>7. /\ m.meta = f.meta
      /\ \A c \in Code : m.rows[c] = IF f.rows[c] # NULL THEN f.rows[c] ELSE Base(d, f)[c]
  BY <1>4
<1>8. rows \in [Code -> Row \cup {NULL}]
  BY <1>1, <1>6
<1>9. m \in [meta : Meta, rows : [Code -> Row \cup {NULL}]]
  BY <1>1, <1>4, <1>8
<1>10. f.meta.version <= version /\ f.meta.generatedAt <= clock
  BY <1>1, <1>2 DEF Sound, Known
<1>11. TypeOK'
  <2>1. fetch' \in [Device -> [Slot -> Fetch]]
    BY <1>5 DEF FeedInv, TypeOK, Fetch
  <2>2. phone' \in [Device -> [meta : Meta, rows : [Code -> Row \cup {NULL}]] \cup {NULL}]
    BY <1>5, <1>9 DEF FeedInv, TypeOK
  <2>3. \A e \in Device : phone'[e] # NULL => phone'[e].meta.version <= version'
    BY <1>3, <1>5, <1>7, <1>10 DEF FeedInv, TypeOK
  <2>4. slipped' \in [Device -> SUBSET Code] /\ mixed' \subseteq Device
    BY <1>1, <1>5 DEF FeedInv, TypeOK
  <2>. QED BY <1>3, <2>1, <2>2, <2>3, <2>4 DEF FeedInv, TypeOK
<1>12. AnswersAreSound'
  <2>. SUFFICES ASSUME NEW e \in Device, NEW j \in Slot
                PROVE  Sound(fetch[e][j])'
    BY DEF AnswersAreSound
  <2>0. PICK g : g = fetch'[e][j]
    OBVIOUS
  <2>1. g = Idle \/ g = fetch[e][j]
    BY <1>5, <2>0 DEF FeedInv, TypeOK
  <2>2. Sound(g)
    BY <2>1, UnreadIsSound DEF Known, Idle, FeedInv, AnswersAreSound
  <2>3. Sound(g)'
    BY <1>3, <2>2 DEF Sound, Known, Fits, Read, Told, NamesIssued, HasStatus, TellsAll,
                      Shipped, Issued, Changed
  <2>. QED BY <2>0, <2>3
<1>13. ASSUME NEW e \in Device, e # d
       PROVE  Kept(e)'
  <2>1. phone'[e] = phone[e] /\ slipped'[e] = slipped[e] /\ (e \in mixed' <=> e \in mixed)
    BY <1>5, <1>13 DEF FeedInv, TypeOK
  <2>2. Kept(e)
    BY DEF FeedInv, StoresAreSound
  <2>. QED BY <1>3, <2>1, <2>2 DEF Kept, NamesIssued, StoredStatus, StoredTells, Shipped, Issued
<1>14. Kept(d)'
  <2>1. Kept(d) /\ phone'[d] = m
        /\ slipped'[d] = f.missed \cup (IF f.full THEN {}
                                        ELSE {c \in slipped[d] : f.rows[c] = NULL})
    BY <1>5 DEF FeedInv, StoresAreSound, TypeOK
  <2>2. d \notin mixed' /\ ~f.full => phone[d] # NULL /\ f.since = phone[d].meta /\ d \notin mixed
    BY <1>5
  <2>3. ASSUME NEW c \in Code
        PROVE  /\ NamesIssued(m, c)'
               /\ d \notin mixed' => StoredStatus(m, c)'
               /\ d \notin mixed' /\ c \notin slipped'[d] => StoredTells(m, c)'
    <3>1. NamesIssued(f, c) /\ HasStatus(f, c) /\ TellsAll(f, c)
      BY <1>2 DEF Sound
    <3>2. CASE f.rows[c] # NULL
      <4>1. m.rows[c] = f.rows[c]
        BY <1>7, <3>2
      <4>2. NamesIssued(m, c)'
        BY <1>3, <3>1, <4>1 DEF NamesIssued
      <4>3. StoredStatus(m, c)'
        BY <1>1, <1>3, <1>7, <3>1, <4>1 DEF StoredStatus, HasStatus, Told, Issued
      <4>4. c \notin slipped'[d] => StoredTells(m, c)'
        BY <1>3, <2>1, <3>1, <3>2, <4>1 DEF StoredTells, TellsAll, Shipped, Issued
      <4>. QED BY <4>2, <4>3, <4>4
    <3>3. CASE f.rows[c] = NULL /\ f.full
      <4>1. m.rows[c] = NULL
        BY <1>7, <3>3 DEF Base
      <4>2. NamesIssued(m, c)' /\ StoredStatus(m, c)'
        BY <4>1 DEF NamesIssued, StoredStatus
      <4>3. c \notin slipped'[d] => ~Shipped(c)
        BY <2>1, <3>1, <3>3 DEF TellsAll
      <4>. QED BY <1>3, <4>2, <4>3 DEF StoredTells, Shipped, Issued
    <3>4. CASE f.rows[c] = NULL /\ ~f.full
      <4>1. CASE phone[d] = NULL
        <5>1. m.rows[c] = NULL
          BY <1>7, <3>4, <4>1 DEF Base
        <5>. QED BY <2>2, <3>4, <4>1, <5>1 DEF NamesIssued
      <4>2. CASE phone[d] # NULL
        <5>0. PICK o : o = phone[d]
          OBVIOUS
        <5>1. m.rows[c] = o.rows[c]
          BY <1>7, <3>4, <4>2, <5>0 DEF Base
        <5>2. /\ NamesIssued(o, c)
              /\ d \notin mixed => StoredStatus(o, c)
              /\ d \notin mixed /\ c \notin slipped[d] => StoredTells(o, c)
          BY <2>1, <4>2, <5>0 DEF Kept
        <5>3. NamesIssued(m, c)'
          BY <1>3, <5>1, <5>2 DEF NamesIssued
        <5>4. ASSUME d \notin mixed'
              PROVE  StoredStatus(m, c)'
          <6>1. o.meta.version = f.meta.version
            BY <1>1, <1>2, <2>2, <3>4, <5>0, <5>4 DEF Sound, Fits, Told
          <6>. QED BY <1>3, <1>7, <2>2, <3>4, <5>1, <5>2, <5>4, <6>1 DEF StoredStatus, Issued
        <5>5. ASSUME d \notin mixed', c \notin slipped'[d], Shipped(c)
              PROVE  /\ m.rows[c] # NULL
                     /\ pass[c].arrivedAt # NULL => m.rows[c].inside
          <6>1. f.since = o.meta /\ d \notin mixed
            BY <2>2, <3>4, <5>0, <5>5
          <6>2. c \notin slipped[d] /\ c \notin f.missed
            BY <2>1, <3>4, <5>5
          <6>3. ~Changed(c, o.meta.generatedAt)
            BY <3>1, <3>4, <5>5, <6>1, <6>2 DEF TellsAll
          <6>4. StoredTells(o, c)
            BY <5>2, <6>1, <6>2
          <6>5. o.meta.generatedAt \in Nat /\ pass[c].stamp \in Nat
                /\ (pass[c].arrivedAt # NULL => pass[c].arrivedAt \in Nat)
            BY <4>2, <5>0, StoreShape, PassShape, ClockIsNatural DEF FeedInv, Meta, PassRow
          <6>6. pass[c].stamp <= o.meta.generatedAt
                /\ (pass[c].arrivedAt # NULL => pass[c].arrivedAt <= o.meta.generatedAt)
            BY <6>3, <6>5 DEF Changed
          <6>. QED BY <5>1, <5>5, <6>4, <6>6 DEF StoredTells
        <5>6. d \notin mixed' /\ c \notin slipped'[d] => StoredTells(m, c)'
          BY <1>3, <5>5 DEF StoredTells, Shipped, Issued
        <5>. QED BY <5>3, <5>4, <5>6
      <4>. QED BY <4>1, <4>2
    <3>. QED BY <1>1, <3>2, <3>3, <3>4
  <2>4. m.meta.generatedAt <= clock'
    BY <1>3, <1>7, <1>10
  <2>. QED BY <2>1, <2>3, <2>4 DEF Kept
<1>15. StoresAreSound'
  BY <1>13, <1>14 DEF StoresAreSound
<1>. QED BY <1>11, <1>12, <1>15 DEF FeedInv

LEMMA ClearKeeps ==
  ASSUME FeedInv, NEW d \in Device, Clear(d)
  PROVE  FeedInv'
<1>1. /\ UNCHANGED <<pass, version, clock, cache, desk, fetch, untold>>
      /\ phone' = [phone EXCEPT ![d] = NULL]
      /\ slipped' = [slipped EXCEPT ![d] = {}] /\ mixed' = mixed \ {d}
  BY DEF Clear
<1>2. TypeOK'
  BY <1>1 DEF FeedInv, TypeOK, Fetch
<1>3. AnswersAreSound'
  <2>. SUFFICES ASSUME NEW e \in Device, NEW j \in Slot
                PROVE  Sound(fetch[e][j])'
    BY DEF AnswersAreSound
  <2>1. PICK g : g = fetch[e][j]
    OBVIOUS
  <2>2. Sound(g)
    BY <2>1 DEF FeedInv, AnswersAreSound
  <2>3. Sound(g)'
    BY <1>1, <2>2 DEF Sound, Known, Fits, Read, Told, NamesIssued, HasStatus, TellsAll,
                      Shipped, Issued, Changed
  <2>. QED BY <1>1, <2>1, <2>3
<1>4. StoresAreSound'
  <2>. SUFFICES ASSUME NEW e \in Device, phone'[e] # NULL
                PROVE  Kept(e)'
    BY DEF StoresAreSound, Kept
  <2>1. e # d /\ phone'[e] = phone[e] /\ slipped'[e] = slipped[e] /\ (e \in mixed' <=> e \in mixed)
    BY <1>1 DEF FeedInv, TypeOK
  <2>2. Kept(e)
    BY DEF FeedInv, StoresAreSound
  <2>. QED BY <1>1, <2>1, <2>2 DEF Kept, NamesIssued, StoredStatus, StoredTells, Shipped, Issued
<1>. QED BY <1>2, <1>3, <1>4 DEF FeedInv

-----------------------------------------------------------------------------
LEMMA FeedStarts == Init => FeedInv
<1>. SUFFICES ASSUME Init PROVE FeedInv
  OBVIOUS
<1>1. TypeOK
  <2>1. pass \in [Code -> PassRow] /\ version \in Version /\ clock \in Clock
    BY FeedBounds DEF Init, PassRow, Version, Clock
  <2>2. fetch \in [Device -> [Slot -> Fetch]]
    BY DEF Init, Fetch
  <2>. QED BY <2>1, <2>2 DEF Init, TypeOK
<1>2. AnswersAreSound
  <2>1. Sound(Idle)
    BY UnreadIsSound DEF Known, Idle
  <2>. QED BY <2>1 DEF Init, AnswersAreSound
<1>3. StoresAreSound
  BY DEF Init, StoresAreSound, Kept
<1>. QED BY <1>1, <1>2, <1>3 DEF FeedInv

LEMMA FeedStays == FeedInv /\ [Next]_vars => FeedInv'
<1>. SUFFICES ASSUME FeedInv, [Next]_vars PROVE FeedInv'
  OBVIOUS
<1>1. CASE \E c \in Code : Passes(c)
  BY <1>1, IssueKeeps, UpdateKeeps, CheckInKeeps, ReverseKeeps, WithdrawKeeps DEF Passes
<1>2. CASE \E h \in Handler, c \in Code : Revoking(h, c)
  BY <1>2, RevokingKeeps
<1>3. CASE \E h \in Handler : \/ RevokeRejected(h) \/ BumpManifestVersion(h) \/ CacheDel(h)
                              \/ Crash(h)
  BY <1>3, RevokeRejectedKeeps, BumpKeeps, DeskKeeps
<1>4. CASE Expire
  BY <1>4, DeskKeeps
<1>5. CASE \E d \in Device, k \in Slot : Serve(d, k)
  BY <1>5, HitKeeps, FillKeeps, QueryKeeps, DateKeeps, ApplyKeeps DEF Serve
<1>6. CASE \E d \in Device : \/ Clear(d)
                             \/ \E k \in Slot : \/ Fail(d, k)
                                                \/ \E force \in BOOLEAN : Ask(d, k, force)
  BY <1>6, ClearKeeps, FailKeeps, AskKeeps
<1>7. CASE UNCHANGED vars
  BY <1>7 DEF vars, feed, FeedInv, TypeOK, AnswersAreSound, StoresAreSound, Sound, Known, Fits,
              Read, Told, NamesIssued, HasStatus, TellsAll, Kept, StoredStatus, StoredTells,
              Shipped, Issued, Changed
<1>. QED BY <1>1, <1>2, <1>3, <1>4, <1>5, <1>6, <1>7 DEF Next

\* Whatever Redis does, however many refreshes of a phone overlap and wherever the control
\* room's requests die, an answer of the manifest endpoint is right for the version and
\* the date it carries (getConfig, buildManifest), and so is what applyManifest makes
\* of it.
THEOREM FeedInvariant == Spec => []FeedInv
BY FeedStarts, FeedStays, PTL DEF Spec

\* Tables, cache, requests and phones have their shapes, and neither the cache nor a
\* phone knows a version that SystemConfig does not have yet.
THEOREM FeedTypes == Spec => []TypeOK
<1>1. FeedInv => TypeOK
  BY DEF FeedInv
<1>. QED BY <1>1, FeedInvariant, PTL

\* A phone at the current version knows every revocation, restoration and deletion
\* that has been announced (bumpManifestVersion after revokePass, restorePass and the
\* rest), unless it merged a delta into another store than the one it asked for.
THEOREM CurrentVersionKnows == Spec => []CurrentVersionKnowsStatus
<1>1. FeedInv => CurrentVersionKnowsStatus
  BY DEF FeedInv, StoresAreSound, Kept, StoredStatus, CurrentVersionKnowsStatus
<1>. QED BY <1>1, FeedInvariant, PTL

\* A stored manifest tells of every pass, review and check-in up to its date, through
\* any number of deltas (updatedAt, issuedAt and recordedAt after since).
THEOREM ManifestTells == Spec => []ManifestTellsUpToItsDate
<1>1. FeedInv => ManifestTellsUpToItsDate
  BY DEF FeedInv, StoresAreSound, Kept, StoredTells, ManifestTellsUpToItsDate
<1>. QED BY <1>1, FeedInvariant, PTL
=============================================================================
