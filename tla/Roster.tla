------------------------------- MODULE Roster -------------------------------
(***************************************************************************)
(* The admissions list and its imports: preview and commit                  *)
(* (apps/web/lib/server/admin/roster.ts), the ingestion itself              *)
(* (packages/db/src/roster/ingest.ts), the rollback                         *)
(* (lib/server/admin/roster-rollback.ts) and students added by hand.        *)
(*                                                                          *)
(* ingestRoster compares the file with rows it read before its transaction  *)
(* begins, and rollbackImport decides before its transaction that the       *)
(* import is the latest one; each keeps what it read in op, and anything    *)
(* may land in between.  A $transaction is one step.  An admin's request    *)
(* may end at any point (Abandon).                                          *)
(*                                                                          *)
(* The fields a file may correct are one value here.  Records of previews   *)
(* and refused files stand in nobody's way and are left out.                *)
(***************************************************************************)
EXTENDS Naturals, Sequences, FiniteSets

CONSTANTS
  Absent,
  FormNumber,   \* form numbers
  Value,        \* what a row may say of a student
  File,         \* uploaded files, by their bytes (SHA-256)
  Content,      \* what each file says of each form number, Absent if nothing
  Admin,        \* admins, each with one request at a time
  MaxImport,    \* how many imports may be committed
  MaxSnapshot   \* MAX_SNAPSHOT_ROWS

ASSUME ContentIsByForm == Content \in [File -> [FormNumber -> Value \cup {Absent}]]
ASSUME AbsentIsNoValue == Absent \notin Value
ASSUME RosterBounds == MaxImport \in Nat /\ MaxSnapshot \in Nat

VARIABLES
  rows,     \* table AdmittedStudent, by form number (UNIQUE)
  imports,  \* RosterImport rows that were committed, in order of createdAt
  staged,   \* files whose parsed preview is in the cache
  request,  \* what each admin's request has read and is about to do
  byHand,   \* history: what was added by hand, by form number
  left,     \* history: form numbers a rollback could not put back
  crossed   \* history: some write followed a read that was out of date

rosterVars == <<rows, imports, staged, request, byHand, left, crossed>>

ByHand == 0
RosterRow == [value : Value, by : 0..MaxImport, claimed : BOOLEAN]
ASSUME AbsentIsNoRow == Absent \notin RosterRow
Snapshots == UNION {[S -> Value] : S \in SUBSET FormNumber}
Import == [file : File, status : {"COMMITTED", "ROLLED_BACK"}, snapshot : Snapshots,
           known : 0..MaxImport,  \* history: the imports it was compared with for duplicates
           cut : SUBSET FormNumber]     \* changed rows the snapshot had no room for
NoRequest == [kind |-> "none"]
Importing == [kind : {"import"}, pc : {"checked", "read"}, file : File,
              known : 0..MaxImport, stale : BOOLEAN,
              seen : [FormNumber -> Value \cup {Absent}]]
Dropping == [kind : {"drop"}, file : File]
RollingBack == [kind : {"rollback"}, target : 1..MaxImport, stale : BOOLEAN]

RosterInit ==
  /\ rows = [f \in FormNumber |-> Absent] /\ byHand = [f \in FormNumber |-> Absent]
  /\ imports = <<>> /\ staged = {} /\ left = {} /\ crossed = FALSE
  /\ request = [a \in Admin |-> NoRequest]

-----------------------------------------------------------------------------
(* Importing a file.                                                        *)

Unread == [f \in FormNumber |-> Absent]
Shown == [f \in FormNumber |-> IF rows[f] = Absent THEN Absent ELSE rows[f].value]
Committed == {i \in DOMAIN imports : imports[i].status = "COMMITTED"}
Latest == IF Committed = {} THEN Absent ELSE CHOOSE i \in Committed : \A j \in Committed : j <= i
Created(i) == {f \in FormNumber : rows[f] # Absent /\ rows[f].by = i}
\* Wrong on purpose: that the file is known was the preview's business.
DuplicateAtPreview(file) == FALSE
Duplicate(file) == \E i \in Committed : imports[i].file = file

\* previewUpload: a dry run, whose parsed file waits in the cache for two hours.
Preview(file) ==
  /\ file \notin staged
  /\ staged' = staged \cup {file}
  /\ UNCHANGED <<rows, imports, request, byHand, left, crossed>>

PreviewExpires(file) ==
  /\ file \in staged
  /\ staged' = staged \ {file}
  /\ UNCHANGED <<rows, imports, request, byHand, left, crossed>>

\* commitImport finds the preview; ingestRoster refuses bytes it knows.
AskToCommit(a, file, allowed) ==
  /\ request[a] = NoRequest /\ file \in staged /\ Len(imports) < MaxImport
  /\ allowed \/ ~Duplicate(file)
  /\ request' = [request EXCEPT ![a] =
       [kind |-> "import", pc |-> "checked", file |-> file,
        known |-> IF allowed THEN 0 ELSE Len(imports), stale |-> FALSE, seen |-> Unread]]
  /\ UNCHANGED <<rows, imports, staged, byHand, left, crossed>>

\* One read of the whole table.
ReadRows(a) ==
  /\ request[a].kind = "import" /\ request[a].pc = "checked"
  /\ request' = [request EXCEPT ![a].pc = "read", ![a].seen = Shown]
  /\ UNCHANGED <<rows, imports, staged, byHand, left, crossed>>

\* What the file says that the rows did not when they were read.
Says(r, f) == Content[r.file][f]
ToCreate(r) == {f \in FormNumber : Says(r, f) # Absent /\ r.seen[f] = Absent}
ToUpdate(r) == {f \in FormNumber : Says(r, f) # Absent /\ r.seen[f] \notin {Absent, Says(r, f)}}
\* The first rows that change, up to the cap, with their old values.
Snapshot(r, S) == [f \in S |-> r.seen[f]]
Fits(S, T) == S \subseteq T /\ (Cardinality(S) = MaxSnapshot \/ (S = T /\ Cardinality(T) < MaxSnapshot))

\* Requests that have read, when another import, rollback or row lands.
Overtaken(S) == [a \in Admin |-> IF a \in S /\ request[a].kind \in {"import", "rollback"}
                                 THEN [request[a] EXCEPT !.stale = TRUE] ELSE request[a]]

\* The transaction: the record, the new rows (those that appeared since the
\* read are skipped) and the corrections; one of a row that has gone fails it all.
CommitImport(a) ==
  LET r == request[a] IN
  /\ r.kind = "import" /\ r.pc = "read" /\ Len(imports) < MaxImport
  /\ \A f \in ToUpdate(r) : rows[f] # Absent
  /\ \E S \in SUBSET FormNumber :
       /\ Fits(S, ToUpdate(r))
       /\ imports' = Append(imports, [file |-> r.file, status |-> "COMMITTED", known |-> r.known,
                                      snapshot |-> Snapshot(r, S),
                                      cut |-> ToUpdate(r) \ S])
  /\ rows' = [f \in FormNumber |->
       IF f \in ToUpdate(r) THEN [rows[f] EXCEPT !.value = Says(r, f)]
       ELSE IF f \in ToCreate(r) /\ rows[f] = Absent
            THEN [value |-> Says(r, f), by |-> Len(imports) + 1, claimed |-> FALSE]
       ELSE rows[f]]
  /\ request' = [Overtaken(Admin \ {a}) EXCEPT ![a] = [kind |-> "drop", file |-> r.file]]
  /\ crossed' = (crossed \/ r.stale)
  /\ UNCHANGED <<staged, byHand, left>>

\* The staged preview is dropped after the commit.
DropPreview(a) ==
  /\ request[a].kind = "drop"
  /\ staged' = staged \ {request[a].file}
  /\ request' = [request EXCEPT ![a] = NoRequest]
  /\ UNCHANGED <<rows, imports, byHand, left, crossed>>

-----------------------------------------------------------------------------
(* Rolling back, adding by hand, and the students' claims.                  *)

\* Only the latest import that stands, as far as these reads can tell.
\* Wrong on purpose: any import that stands.
MayRollBackAny(i) == i \in Committed
MayRollBack(i) == i \in Committed /\ i = Latest

AskToRollBack(a, i) ==
  /\ request[a] = NoRequest /\ MayRollBack(i)
  /\ request' = [request EXCEPT ![a] = [kind |-> "rollback", target |-> i, stale |-> FALSE]]
  /\ UNCHANGED <<rows, imports, staged, byHand, left, crossed>>

\* Wrong on purpose: whatever the import created goes.
RemovableAll(i) == Created(i)
Removable(i) == {f \in Created(i) : ~rows[f].claimed}

RolledBack(import) == [import EXCEPT !.status = "ROLLED_BACK", !.known = 0, !.cut = {}]

\* One transaction: unclaimed rows of the import go, corrected rows that are
\* still there get their old values back.  The status is not looked at again.
RollBack(a) ==
  LET i == request[a].target IN
  /\ request[a].kind = "rollback"
  /\ rows' = [f \in FormNumber |->
       IF f \in Removable(i) THEN Absent
       ELSE IF rows[f] # Absent /\ f \in DOMAIN imports[i].snapshot
            THEN [rows[f] EXCEPT !.value = imports[i].snapshot[f]]
       ELSE rows[f]]
  /\ imports' = [imports EXCEPT ![i] = RolledBack(@)]
  /\ left' = left \cup (Created(i) \ Removable(i)) \cup imports[i].cut
  /\ request' = [Overtaken(Admin \ {a}) EXCEPT ![a] = NoRequest]
  /\ crossed' = (crossed \/ request[a].stale)
  /\ UNCHANGED <<staged, byHand>>

\* addSingleStudent; a form number that has appeared since its check is a
\* violation of the UNIQUE column.
AddSingleStudent(f, v) ==
  /\ rows[f] = Absent
  /\ rows' = [rows EXCEPT ![f] = [value |-> v, by |-> ByHand, claimed |-> FALSE]]
  /\ byHand' = [byHand EXCEPT ![f] = v]
  /\ request' = Overtaken({a \in Admin : request[a].kind = "import"})
  /\ UNCHANGED <<imports, staged, left, crossed>>

\* A student registers against a row, and the desk deletes the registration.
ClaimRow(f) ==
  /\ rows[f] # Absent
  /\ rows' = [rows EXCEPT ![f].claimed = ~@]
  /\ UNCHANGED <<imports, staged, request, byHand, left, crossed>>

\* A failed transaction, a timeout or a crash.
AbandonRequest(a) ==
  /\ request[a] # NoRequest
  /\ request' = [request EXCEPT ![a] = NoRequest]
  /\ UNCHANGED <<rows, imports, staged, byHand, left, crossed>>

AdminSteps(a) ==
  \/ \E file \in File, allowed \in BOOLEAN : AskToCommit(a, file, allowed)
  \/ ReadRows(a) \/ CommitImport(a) \/ DropPreview(a)
  \/ \E i \in DOMAIN imports : AskToRollBack(a, i)
  \/ RollBack(a) \/ AbandonRequest(a)

RosterNext ==
  \/ \E a \in Admin : AdminSteps(a)
  \/ \E file \in File : Preview(file) \/ PreviewExpires(file)
  \/ \E f \in FormNumber : ClaimRow(f) \/ \E v \in Value : AddSingleStudent(f, v)

RosterSpec == RosterInit /\ [][RosterNext]_rosterVars

-----------------------------------------------------------------------------
(* Properties.                                                              *)

\* Rows, imports and requests have their shapes, and a row's import is on record.
RosterTypeOK ==
  /\ rows \in [FormNumber -> RosterRow \cup {Absent}] /\ byHand \in [FormNumber -> Value \cup {Absent}]
  /\ imports \in Seq(Import) /\ Len(imports) <= MaxImport
  /\ staged \subseteq File /\ left \subseteq FormNumber /\ crossed \in BOOLEAN
  /\ request \in [Admin -> {NoRequest} \cup Importing \cup Dropping \cup RollingBack]
  /\ \A f \in FormNumber : rows[f] # Absent => rows[f].by <= Len(imports)

\* What the imports that stand make of a form number: the last of them to
\* name it decides, over what was added by hand.
Standing(f) ==
  LET on == {i \in Committed : Content[imports[i].file][f] # Absent} IN
  IF on = {} THEN byHand[f]
  ELSE Content[imports[CHOOSE i \in on : \A j \in on : j <= i].file][f]

\* "A rollback that silently reverts somebody else's fix is worse than a
\* refusal" (roster-rollback.ts 8-12), "a half-rolled-back roster is
\* indistinguishable from a corrupt one" (27): the list says what the
\* imports that stand say, as if those rolled back had never been, but for
\* rows a rollback had to leave and unless writes crossed.
AsIfNeverImported == ~crossed => \A f \in FormNumber \ left : Shown[f] = Standing(f)

\* "It refuses a file whose SHA-256 matches an already-committed import"
\* (ingest.ts 17): two imports of the same bytes stand only if the admin
\* said so or the first one landed after the second one's check.
NoFileTwice ==
  \A i, j \in Committed : i < j /\ imports[i].file = imports[j].file
                            => i > imports[j].known

\* "A claimed row is never deleted" (roster-rollback.ts 13-17), however the
\* claim races the rollback; the only rows to go are those of an import
\* that is rolled back, no row changes hands between imports, and no import
\* or rollback touches a claim ("must not release a pass", ingest.ts 10-11).
ClaimsSurviveTheList ==
  [][\A f \in FormNumber : rows[f] # Absent =>
       IF rows'[f] = Absent
       THEN ~rows[f].claimed /\ rows[f].by # ByHand /\ imports'[rows[f].by].status = "ROLLED_BACK"
       ELSE /\ rows'[f].by = rows[f].by
            /\ imports' # imports => rows'[f].claimed = rows[f].claimed]_rosterVars
=============================================================================
