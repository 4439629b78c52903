---------------------------- MODULE RosterProofs ----------------------------
(***************************************************************************)
(* Proofs about Roster, for any number of files, form numbers and admins.   *)
(***************************************************************************)
EXTENDS Roster, FiniteSetTheorems, WellFoundedInduction, TLAPS

\* What an admin's request may rely on: the import to roll back is there, and of
\* the imports an upload was compared with none that stands has its bytes.
Checked(r) ==
  /\ r.kind = "rollback" => r.target <= Len(imports)
  /\ r.kind = "import" => /\ r.known <= Len(imports)
                          /\ \A i \in Committed : imports[i].file = r.file => i > r.known
  /\ r.kind = "import" /\ r.pc = "read" =>
       \A f \in FormNumber : r.seen[f] # Absent => r.seen[f] \in Value

RequestsChecked == \A a \in Admin : Checked(request[a])

RosterInv == RosterTypeOK /\ RequestsChecked /\ NoFileTwice

-----------------------------------------------------------------------------
(* Shapes.                                                                  *)

Requests == {NoRequest} \cup Importing \cup Dropping \cup RollingBack

LEMMA KindFacts ==
  ASSUME NEW r \in Requests
  PROVE  /\ r.kind = "import" => r \in Importing
         /\ r.kind = "rollback" => r \in RollingBack
         /\ r.kind = "drop" => r \in Dropping
         /\ r # NoRequest <=> r.kind # "none"
         /\ r.kind \in {"none", "import", "drop", "rollback"}
BY DEF Requests, NoRequest, Importing, Dropping, RollingBack

\* An overtaken request is the same request, marked.
LEMMA OvertakenFacts ==
  ASSUME RosterTypeOK, NEW T \in SUBSET Admin
  PROVE  /\ Overtaken(T) \in [Admin -> Requests]
         /\ \A a \in Admin : \/ Overtaken(T)[a] = request[a]
                             \/ /\ request[a].kind \in {"import", "rollback"}
                                /\ Overtaken(T)[a] = [request[a] EXCEPT !.stale = TRUE]
<1>1. ASSUME NEW a \in Admin, request[a].kind \in {"import", "rollback"}
      PROVE  [request[a] EXCEPT !.stale = TRUE] \in Requests
  <2>1. request[a] \in Importing \cup RollingBack
    BY <1>1, KindFacts DEF RosterTypeOK, Requests
  <2>. QED BY <2>1 DEF Importing, RollingBack, Requests
<1>. QED BY <1>1 DEF Overtaken, RosterTypeOK, Requests

LEMMA ImportFacts ==
  ASSUME RosterTypeOK
  PROVE  /\ Len(imports) \in Nat /\ DOMAIN imports = 1..Len(imports)
         /\ \A i \in 1..Len(imports) : imports[i] \in Import
BY DEF RosterTypeOK

-----------------------------------------------------------------------------
(* The writes.                                                              *)

LEMMA CommitFacts ==
  ASSUME RosterInv, NEW a \in Admin, CommitImport(a)
  PROVE  LET r == request[a] IN
         /\ r \in Importing /\ Len(imports') = Len(imports) + 1 /\ imports' \in Seq(Import)
         /\ Len(imports') <= MaxImport
         /\ \A i \in 1..Len(imports) : imports'[i] = imports[i]
         /\ imports'[Len(imports) + 1].file = r.file
         /\ imports'[Len(imports) + 1].known = r.known
         /\ \A f \in FormNumber :
              /\ rows'[f] \in RosterRow \cup {Absent}
              /\ rows[f] # Absent => /\ rows'[f] # Absent => rows'[f].by = rows[f].by
                                     /\ rows'[f] \in RosterRow
                                     /\ rows'[f].claimed = rows[f].claimed
              /\ rows'[f] # Absent => rows'[f].by <= Len(imports')
<1>. USE DEF RosterInv
<1>. DEFINE r == request[a]
            n == Len(imports)
<1>1. r \in Importing /\ r.pc = "read"
  BY KindFacts DEF CommitImport, RosterTypeOK, Requests
<1>2. n \in Nat /\ n < MaxImport /\ imports \in Seq(Import)
  BY RosterBounds, ImportFacts DEF CommitImport, RosterTypeOK
<1>3. \A f \in FormNumber : Says(r, f) # Absent => Says(r, f) \in Value
  BY <1>1, ContentIsByForm DEF Says, Importing
<1>4. \A f \in ToUpdate(r) : r.seen[f] \in Value
  BY <1>1 DEF ToUpdate, Importing
<1>5. PICK S \in SUBSET FormNumber :
        /\ S \subseteq ToUpdate(r)
        /\ imports' = Append(imports, [file |-> r.file, status |-> "COMMITTED", known |-> r.known,
                                       snapshot |-> Snapshot(r, S), cut |-> ToUpdate(r) \ S])
  BY DEF CommitImport, Fits
<1>. DEFINE e == [file |-> r.file, status |-> "COMMITTED", known |-> r.known,
                  snapshot |-> Snapshot(r, S), cut |-> ToUpdate(r) \ S]
<1>6. e \in Import
  <2>1. Snapshot(r, S) \in [S -> Value]
    BY <1>4, <1>5 DEF Snapshot
  <2>2. Snapshot(r, S) \in Snapshots
    BY <2>1 DEF Snapshots
  <2>3. ToUpdate(r) \ S \in SUBSET FormNumber
    BY DEF ToUpdate
  <2>4. r.file \in File /\ r.known \in 0..MaxImport
    BY <1>1 DEF Importing
  <2>. QED BY <2>2, <2>3, <2>4 DEF Import
<1>7. e.file = r.file /\ e.known = r.known
  OBVIOUS
<1>. HIDE DEF e
<1>8. /\ imports' \in Seq(Import) /\ Len(imports') = n + 1
      /\ \A i \in 1..n : imports'[i] = imports[i]
      /\ imports'[n + 1] = e
  BY <1>2, <1>5, <1>6 DEF e
<1>9. ASSUME NEW f \in FormNumber
      PROVE  /\ rows'[f] \in RosterRow \cup {Absent}
             /\ rows[f] # Absent => /\ rows'[f] # Absent => rows'[f].by = rows[f].by
                                    /\ rows'[f] \in RosterRow
                                    /\ rows'[f].claimed = rows[f].claimed
             /\ rows'[f] # Absent => rows'[f].by <= n + 1
  <2>1. rows[f] \in RosterRow \cup {Absent} /\ (rows[f] # Absent => rows[f].by <= n)
    BY DEF RosterTypeOK
  <2>2. rows'[f] = IF f \in ToUpdate(r) THEN [rows[f] EXCEPT !.value = Says(r, f)]
                   ELSE IF f \in ToCreate(r) /\ rows[f] = Absent
                        THEN [value |-> Says(r, f), by |-> n + 1, claimed |-> FALSE]
                   ELSE rows[f]
    BY DEF CommitImport
  <2>3. CASE f \in ToUpdate(r)
    <3>1. rows[f] \in RosterRow /\ Says(r, f) \in Value
      BY <1>3, <2>1, <2>3 DEF CommitImport, ToUpdate
    <3>2. [rows[f] EXCEPT !.value = Says(r, f)] \in RosterRow
          /\ [rows[f] EXCEPT !.value = Says(r, f)].by = rows[f].by
          /\ [rows[f] EXCEPT !.value = Says(r, f)].claimed = rows[f].claimed
      BY <3>1 DEF RosterRow
    <3>3. rows[f].by \in Nat
      BY <3>1, RosterBounds DEF RosterRow
    <3>4. rows[f].by <= n + 1
      BY <1>2, <2>1, <2>3, <3>3 DEF CommitImport
    <3>. DEFINE w == [rows[f] EXCEPT !.value = Says(r, f)]
    <3>5. rows'[f] = w /\ w \in RosterRow /\ w.by = rows[f].by /\ w.claimed = rows[f].claimed
      BY <2>2, <2>3, <3>2
    <3>. HIDE DEF w
    <3>. QED BY <3>4, <3>5
  <2>4. CASE f \notin ToUpdate(r) /\ f \in ToCreate(r) /\ rows[f] = Absent
    <3>1. Says(r, f) \in Value
      BY <1>3, <2>4 DEF ToCreate
    <3>2. n + 1 \in 0..MaxImport
      BY <1>2, RosterBounds
    <3>3. [value |-> Says(r, f), by |-> n + 1, claimed |-> FALSE] \in RosterRow
      BY <3>1, <3>2 DEF RosterRow
    <3>. QED BY <1>2, <2>2, <2>4, <3>3
  <2>5. CASE f \notin ToUpdate(r) /\ ~(f \in ToCreate(r) /\ rows[f] = Absent)
    <3>1. rows[f] # Absent => rows[f].by \in Nat
      BY <2>1, RosterBounds DEF RosterRow
    <3>2. rows'[f] = rows[f]
      BY <2>2, <2>5
    <3>3. rows[f] # Absent => rows[f].by <= n + 1
      BY <1>2, <2>1, <3>1
    <3>. QED BY <2>1, <3>2, <3>3
  <2>. QED BY <2>3, <2>4, <2>5
<1>10. n + 1 <= MaxImport
  BY <1>2, RosterBounds
<1>. QED BY <1>1, <1>7, <1>8, <1>9, <1>10

LEMMA RollBackFacts ==
  ASSUME RosterInv, NEW a \in Admin, RollBack(a)
  PROVE  LET k == request[a].target IN
         /\ request[a] \in RollingBack /\ k \in 1..Len(imports) /\ k \in 1..MaxImport
         /\ Len(imports') = Len(imports) /\ imports' \in Seq(Import)
         /\ \A i \in 1..Len(imports) : imports'[i].file = imports[i].file
         /\ \A i \in 1..Len(imports) \ {k} : imports'[i] = imports[i]
         /\ imports'[k].status = "ROLLED_BACK"
         /\ \A f \in FormNumber :
              /\ rows'[f] \in RosterRow \cup {Absent}
              /\ rows[f] # Absent =>
                   \/ rows'[f] = Absent /\ rows[f].by = k /\ ~rows[f].claimed
                   \/ /\ rows'[f] \in RosterRow /\ rows'[f].by = rows[f].by
                      /\ rows'[f].claimed = rows[f].claimed
              /\ rows[f] = Absent => rows'[f] = Absent
<1>. USE DEF RosterInv
<1>. DEFINE k == request[a].target
            n == Len(imports)
<1>1. request[a] \in RollingBack
  BY KindFacts DEF RollBack, RosterTypeOK, Requests
<1>2. n \in Nat /\ imports \in Seq(Import) /\ n <= MaxImport
  BY RosterBounds, ImportFacts DEF RosterTypeOK
<1>3. k \in 1..n /\ k \in 1..MaxImport
  <2>1. k \in 1..MaxImport /\ k <= n
    BY <1>1 DEF RequestsChecked, Checked, RollBack, RollingBack
  <2>. QED BY <1>2, <2>1, RosterBounds
<1>4. imports[k] \in Import
  BY <1>2, <1>3
<1>. DEFINE e == RolledBack(imports[k])
<1>5. e \in Import /\ e.status = "ROLLED_BACK" /\ e.file = imports[k].file
  <2>. DEFINE p == imports[k]
  <2>. HIDE DEF k
  <2>1. p \in Import
    BY <1>4
  <2>. HIDE DEF p
  <2>2. 0 \in 0..MaxImport /\ {} \in SUBSET FormNumber
    BY RosterBounds
  <2>3. RolledBack(p) \in Import
    BY <2>1, <2>2 DEF Import, RolledBack
  <2>4. RolledBack(p).status = "ROLLED_BACK"
    BY <2>1 DEF Import, RolledBack
  <2>5. RolledBack(p).file = p.file
    BY <2>1 DEF Import, RolledBack
  <2>. QED BY <2>3, <2>4, <2>5 DEF p
<1>6. imports' = [imports EXCEPT ![k] = e]
  BY DEF RollBack
<1>. HIDE DEF e, k
<1>7. /\ imports' \in Seq(Import) /\ Len(imports') = n
      /\ \A i \in 1..n \ {k} : imports'[i] = imports[i]
      /\ imports'[k] = e
  BY <1>2, <1>3, <1>5, <1>6
<1>8. ASSUME NEW f \in FormNumber
      PROVE  /\ rows'[f] \in RosterRow \cup {Absent}
             /\ rows[f] # Absent =>
                  \/ rows'[f] = Absent /\ rows[f].by = k /\ ~rows[f].claimed
                  \/ /\ rows'[f] \in RosterRow /\ rows'[f].by = rows[f].by
                     /\ rows'[f].claimed = rows[f].claimed
             /\ rows[f] = Absent => rows'[f] = Absent
  <2>1. rows'[f] = IF f \in Removable(k) THEN Absent
                   ELSE IF rows[f] # Absent /\ f \in DOMAIN imports[k].snapshot
                        THEN [rows[f] EXCEPT !.value = imports[k].snapshot[f]]
                   ELSE rows[f]
    BY DEF RollBack, k
  <2>2. rows[f] \in RosterRow \cup {Absent}
    BY DEF RosterTypeOK
  <2>3. f \in Removable(k) => rows[f].by = k /\ ~rows[f].claimed /\ rows[f] # Absent
    BY DEF Removable, Created
  <2>4. ASSUME rows[f] # Absent, f \in DOMAIN imports[k].snapshot
        PROVE  LET w == [rows[f] EXCEPT !.value = imports[k].snapshot[f]] IN
               w \in RosterRow /\ w.by = rows[f].by /\ w.claimed = rows[f].claimed
    <3>1. imports[k].snapshot \in Snapshots
      BY <1>4 DEF Import
    <3>2. imports[k].snapshot[f] \in Value
      BY <2>4, <3>1 DEF Snapshots
    <3>. QED BY <2>2, <2>4, <3>2 DEF RosterRow
  <2>. QED BY <2>1, <2>2, <2>3, <2>4
<1>9. \A i \in 1..n : imports'[i].file = imports[i].file
  BY <1>5, <1>7
<1>. QED BY <1>1, <1>3, <1>5, <1>7, <1>8, <1>9 DEF k
-----------------------------------------------------------------------------
(* The steps.                                                               *)

\* What is still so of a request when imports are only added or rolled back.
LEMMA CheckedStays ==
  ASSUME RosterInv, NEW r \in Requests, Checked(r),
         imports' \in Seq(Import), Len(imports) <= Len(imports'),
         \A i \in 1..Len(imports) : /\ imports'[i].file = imports[i].file
                                    /\ imports'[i].status = "COMMITTED" => imports[i].status = "COMMITTED"
  PROVE  Checked(r)'
<1>1. Len(imports) \in Nat /\ Len(imports') \in Nat
  BY ImportFacts DEF RosterInv
<1>2. r.kind = "rollback" => r.target <= Len(imports')
  <2>1. r.kind = "rollback" => r.target \in Nat
    BY KindFacts, RosterBounds DEF RollingBack
  <2>. QED BY <1>1, <2>1 DEF Checked
<1>3. ASSUME r.kind = "import"
      PROVE  r.known <= Len(imports') /\ \A i \in Committed' : imports'[i].file = r.file => i > r.known
  <2>1. r.known \in Nat /\ r.known <= Len(imports)
    BY <1>3, KindFacts, RosterBounds DEF Importing, Checked
  <2>2. ASSUME NEW i \in Committed', imports'[i].file = r.file PROVE i > r.known
    <3>1. i \in 1..Len(imports') /\ imports'[i].status = "COMMITTED"
      BY DEF Committed
    <3>2. CASE i <= Len(imports)
      <4>1. i \in 1..Len(imports) /\ i \in Committed /\ imports[i].file = r.file
        BY <1>1, <2>2, <3>1, <3>2, ImportFacts DEF Committed, RosterInv
      <4>. QED BY <1>3, <4>1 DEF Checked
    <3>3. CASE ~(i <= Len(imports))
      BY <1>1, <2>1, <3>1, <3>3
    <3>. QED BY <3>2, <3>3
  <2>. QED BY <1>1, <2>1, <2>2
<1>. QED BY <1>2, <1>3 DEF Checked

\* Nor does the mark change what a request relies on.
LEMMA MarkedIsChecked ==
  ASSUME NEW r \in Requests, Checked(r), r.kind \in {"import", "rollback"}
  PROVE  [r EXCEPT !.stale = TRUE] \in Requests /\ Checked([r EXCEPT !.stale = TRUE])
<1>1. CASE r.kind = "import"
  <2>1. r \in Importing
    BY <1>1, KindFacts
  <2>. QED BY <1>1, <2>1 DEF Importing, Requests, Checked
<1>2. CASE r.kind = "rollback"
  <2>1. r \in RollingBack
    BY <1>2, KindFacts
  <2>. QED BY <1>2, <2>1 DEF RollingBack, Requests, Checked
<1>. QED BY <1>1, <1>2

\* The requests after a step: one new one, and the others as they were or marked.
LEMMA RequestsStep ==
  ASSUME RosterInv, NEW a \in Admin, NEW x \in Requests, Checked(x)',
         NEW T \in SUBSET Admin,
         request' = [Overtaken(T) EXCEPT ![a] = x] \/ request' = [request EXCEPT ![a] = x],
         imports' \in Seq(Import), Len(imports) <= Len(imports'),
         \A i \in 1..Len(imports) : /\ imports'[i].file = imports[i].file
                                    /\ imports'[i].status = "COMMITTED" => imports[i].status = "COMMITTED"
  PROVE  request' \in [Admin -> Requests] /\ RequestsChecked'
<1>. USE DEF RosterInv
<1>1. request \in [Admin -> Requests]
  BY DEF RosterTypeOK, Requests
<1>2. request' \in [Admin -> Requests] /\ request'[a] = x
  BY <1>1, OvertakenFacts
<1>3. ASSUME NEW b \in Admin, b # a PROVE Checked(request[b])' 
  <2>1. request[b] \in Requests /\ Checked(request[b])
    BY <1>1 DEF RequestsChecked
  <2>2. request'[b] = request[b] \/ /\ request[b].kind \in {"import", "rollback"}
                                    /\ request'[b] = [request[b] EXCEPT !.stale = TRUE]
    BY <1>1, <1>3, OvertakenFacts
  <2>3. request'[b] \in Requests /\ Checked(request'[b])
    BY <2>1, <2>2, MarkedIsChecked
  <2>. DEFINE y == request'[b]
  <2>4. y \in Requests /\ Checked(y)
    BY <2>3
  <2>5. PICK z \in Requests : z = request'[b] /\ Checked(z)
    BY <2>3
  <2>6. Checked(z)'
    BY <2>5, CheckedStays
  <2>. QED BY <2>5, <2>6 DEF Checked
<1>. QED BY <1>2, <1>3 DEF RequestsChecked, Checked

LEMMA CommitStep ==
  ASSUME RosterInv, NEW a \in Admin, CommitImport(a)
  PROVE  RosterInv'
<1>. USE DEF RosterInv
<1>. DEFINE r == request[a]
            n == Len(imports)
<1>1. n \in Nat
  BY ImportFacts
<1>2. /\ r \in Importing /\ Len(imports') = n + 1 /\ imports' \in Seq(Import)
      /\ n + 1 <= MaxImport
      /\ \A i \in 1..n : imports'[i] = imports[i]
      /\ imports'[n + 1].file = r.file /\ imports'[n + 1].known = r.known
      /\ \A f \in FormNumber : rows'[f] \in RosterRow \cup {Absent}
                               /\ (rows'[f] # Absent => rows'[f].by <= n + 1)
  BY CommitFacts
<1>3. UNCHANGED <<staged, byHand, left>> /\ crossed' = (crossed \/ r.stale) /\ r.stale \in BOOLEAN
  BY <1>2 DEF CommitImport, Importing
<1>4. request' = [Overtaken(Admin \ {a}) EXCEPT ![a] = [kind |-> "drop", file |-> r.file]]
  BY DEF CommitImport
<1>5. PICK x \in Requests : x = [kind |-> "drop", file |-> r.file]
  BY <1>2 DEF Importing, Dropping, Requests
<1>6. rows' \in [FormNumber -> RosterRow \cup {Absent}]
  BY <1>2 DEF CommitImport
<1>. HIDE DEF n
<1>7. Len(imports) <= Len(imports')
  BY <1>1, <1>2 DEF n
<1>8. request' \in [Admin -> Requests] /\ RequestsChecked'
  <2>1. Admin \ {a} \in SUBSET Admin
    OBVIOUS
  <2>2. \A i \in 1..Len(imports) : imports'[i] = imports[i]
    BY <1>2 DEF n
  <2>3. Checked(x)'
    BY <1>5 DEF Checked
  <2>4. request' = [Overtaken(Admin \ {a}) EXCEPT ![a] = x]
    BY <1>4, <1>5
  <2>. QED BY <1>2, <1>7, <2>1, <2>2, <2>3, <2>4, RequestsStep
<1>9. RosterTypeOK'
  BY <1>2, <1>3, <1>6, <1>8 DEF RosterTypeOK, Requests
<1>10. NoFileTwice'
  <2>. SUFFICES ASSUME NEW i \in Committed', NEW j \in Committed', i < j,
                       imports'[i].file = imports'[j].file
                PROVE  i > imports'[j].known
    BY DEF NoFileTwice
  <2>1. i \in 1..(n + 1) /\ j \in 1..(n + 1)
    BY <1>1, <1>2 DEF Committed
  <2>2. i \in 1..n /\ i \in Committed
    BY <1>1, <1>2, <2>1, ImportFacts DEF Committed, n
  <2>3. CASE j \in 1..n
    <3>1. j \in Committed
      BY <1>2, <2>3, ImportFacts DEF Committed, n
    <3>. QED BY <1>2, <2>2, <2>3, <3>1 DEF NoFileTwice
  <2>4. CASE j = n + 1
    <3>1. imports[i].file = r.file /\ imports'[j].known = r.known
      BY <1>2, <2>2, <2>4
    <3>. QED BY <2>2, <3>1 DEF RequestsChecked, Checked, CommitImport
  <2>. QED BY <1>1, <2>1, <2>3, <2>4
<1>. QED BY <1>8, <1>9, <1>10

LEMMA RollBackStep ==
  ASSUME RosterInv, NEW a \in Admin, RollBack(a)
  PROVE  RosterInv'
<1>. USE DEF RosterInv
<1>. DEFINE k == request[a].target
            n == Len(imports)
<1>1. n \in Nat
  BY ImportFacts
<1>2. /\ request[a] \in RollingBack /\ k \in 1..n
      /\ Len(imports') = n /\ imports' \in Seq(Import)
      /\ \A i \in 1..n : imports'[i].file = imports[i].file
      /\ \A i \in 1..n \ {k} : imports'[i] = imports[i]
      /\ imports'[k].status = "ROLLED_BACK"
      /\ \A f \in FormNumber :
           /\ rows'[f] \in RosterRow \cup {Absent}
           /\ rows'[f] # Absent => rows[f] # Absent /\ rows'[f].by = rows[f].by
  BY RollBackFacts
<1>3. UNCHANGED <<staged, byHand>> /\ crossed' \in BOOLEAN
  BY <1>2 DEF RollBack, RollingBack, RosterTypeOK
<1>4. left' \subseteq FormNumber
  <2>1. imports[k] \in Import
    BY <1>2 DEF RosterTypeOK
  <2>. QED BY <2>1 DEF RollBack, Import, Created, RosterTypeOK
<1>5. rows' \in [FormNumber -> RosterRow \cup {Absent}]
  BY <1>2 DEF RollBack
<1>6. \A f \in FormNumber : rows'[f] # Absent => rows'[f].by <= Len(imports')
  BY <1>2 DEF RosterTypeOK
<1>7. PICK x \in Requests : x = NoRequest
  BY DEF Requests
<1>8. request' \in [Admin -> Requests] /\ RequestsChecked'
  <2>1. request' = [Overtaken(Admin \ {a}) EXCEPT ![a] = NoRequest] /\ Admin \ {a} \in SUBSET Admin
    BY DEF RollBack
  <2>2. \A i \in 1..Len(imports) : /\ imports'[i].file = imports[i].file
                                   /\ imports'[i].status = "COMMITTED" => imports[i].status = "COMMITTED"
    BY <1>2
  <2>3. Checked(x)'
    BY <1>7 DEF Checked, NoRequest
  <2>4. request' = [Overtaken(Admin \ {a}) EXCEPT ![a] = x]
    BY <1>7, <2>1
  <2>5. Len(imports) <= Len(imports') /\ imports' \in Seq(Import)
    BY <1>1, <1>2
  <2>. QED BY <2>1, <2>2, <2>3, <2>4, <2>5, RequestsStep
<1>9. RosterTypeOK'
  BY <1>2, <1>3, <1>4, <1>5, <1>6, <1>8 DEF RosterTypeOK, Requests
<1>10. NoFileTwice'
  <2>. SUFFICES ASSUME NEW i \in Committed', NEW j \in Committed', i < j,
                       imports'[i].file = imports'[j].file
                PROVE  i > imports'[j].known
    BY DEF NoFileTwice
  <2>1. i \in 1..n \ {k} /\ j \in 1..n \ {k}
    BY <1>1, <1>2 DEF Committed
  <2>2. i \in Committed /\ j \in Committed
    BY <1>2, <2>1, ImportFacts DEF Committed
  <2>. QED BY <1>2, <2>1, <2>2 DEF NoFileTwice
<1>. QED BY <1>8, <1>9, <1>10
\* A step that writes no import leaves what requests rely on.
LEMMA QuietStep ==
  ASSUME RosterInv, NEW a \in Admin, NEW x \in Requests, Checked(x),
         request' = [request EXCEPT ![a] = x], UNCHANGED <<rows, imports, byHand, left, crossed>>,
         staged' \subseteq File
  PROVE  RosterInv'
<1>. USE DEF RosterInv
<1>1. Checked(x)'
  BY DEF Checked, Committed
<1>2. request' \in [Admin -> Requests] /\ RequestsChecked'
  <2>1. \A i \in 1..Len(imports) : /\ imports'[i].file = imports[i].file
                                   /\ imports'[i].status = "COMMITTED" => imports[i].status = "COMMITTED"
    OBVIOUS
  <2>2. Len(imports) <= Len(imports') /\ imports' \in Seq(Import)
    BY ImportFacts DEF RosterTypeOK
  <2>3. {} \in SUBSET Admin
    OBVIOUS
  <2>. QED BY <1>1, <2>1, <2>2, <2>3, RequestsStep
<1>3. RosterTypeOK'
  BY <1>2 DEF RosterTypeOK, Requests
<1>4. NoFileTwice'
  BY DEF NoFileTwice, Committed
<1>. QED BY <1>2, <1>3, <1>4

LEMMA RowStep ==
  ASSUME RosterInv, NEW T \in SUBSET Admin, request' = Overtaken(T) \/ request' = request,
         UNCHANGED <<imports, left, crossed>>, staged' \subseteq File,
         rows' \in [FormNumber -> RosterRow \cup {Absent}],
         byHand' \in [FormNumber -> Value \cup {Absent}],
         \A f \in FormNumber : rows'[f] # Absent => rows'[f].by <= Len(imports)
  PROVE  RosterInv'
<1>. USE DEF RosterInv
<1>1. request \in [Admin -> Requests]
  BY DEF RosterTypeOK, Requests
<1>2. ASSUME NEW b \in Admin PROVE request'[b] \in Requests /\ Checked(request'[b])
  <2>1. request[b] \in Requests /\ Checked(request[b])
    BY <1>1 DEF RequestsChecked
  <2>2. request'[b] = request[b] \/ /\ request[b].kind \in {"import", "rollback"}
                                    /\ request'[b] = [request[b] EXCEPT !.stale = TRUE]
    BY OvertakenFacts
  <2>. QED BY <2>1, <2>2, MarkedIsChecked
<1>3. RequestsChecked'
  BY <1>2 DEF RequestsChecked, Checked, Committed
<1>4. request' \in [Admin -> Requests]
  BY <1>1, OvertakenFacts
<1>5. RosterTypeOK'
  BY <1>4 DEF RosterTypeOK, Requests
<1>6. NoFileTwice'
  BY DEF NoFileTwice, Committed
<1>. QED BY <1>3, <1>5, <1>6

LEMMA AskSteps ==
  ASSUME RosterInv, NEW a \in Admin,
         \/ \E file \in File, allowed \in BOOLEAN : AskToCommit(a, file, allowed)
         \/ ReadRows(a) \/ DropPreview(a) \/ AbandonRequest(a)
         \/ \E i \in DOMAIN imports : AskToRollBack(a, i)
  PROVE  RosterInv'
<1>. USE DEF RosterInv
<1>1. request \in [Admin -> Requests] /\ staged \subseteq File
  BY DEF RosterTypeOK, Requests
<1>2. Len(imports) \in Nat /\ DOMAIN imports = 1..Len(imports) /\ Len(imports) <= MaxImport
  BY ImportFacts DEF RosterTypeOK
<1>3. ASSUME NEW file \in File, NEW allowed \in BOOLEAN, AskToCommit(a, file, allowed)
      PROVE  RosterInv'
  <2>. DEFINE x == [kind |-> "import", pc |-> "checked", file |-> file,
                    known |-> IF allowed THEN 0 ELSE Len(imports), stale |-> FALSE, seen |-> Unread]
  <2>1. (IF allowed THEN 0 ELSE Len(imports)) \in 0..MaxImport
    BY <1>2, RosterBounds
  <2>2. Unread \in [FormNumber -> Value \cup {Absent}]
    BY DEF Unread
  <2>3. x \in Requests
    BY <2>1, <2>2 DEF Importing, Requests
  <2>4. allowed \/ \A i \in Committed : imports[i].file # file
    BY <1>3 DEF AskToCommit, Duplicate
  <2>5. \A i \in Committed : i > 0
    BY <1>2 DEF Committed
  <2>6. Checked(x)
    BY <1>2, <2>4, <2>5 DEF Checked
  <2>7. request' = [request EXCEPT ![a] = x]
        /\ UNCHANGED <<rows, imports, byHand, left, crossed>> /\ staged' \subseteq File
    BY <1>1, <1>3 DEF AskToCommit
  <2>. HIDE DEF x
  <2>. QED BY <2>3, <2>6, <2>7, QuietStep
<1>4. CASE ReadRows(a)
  <2>. DEFINE x == [request[a] EXCEPT !.pc = "read", !.seen = Shown]
  <2>1. request[a] \in Importing /\ Checked(request[a])
    BY <1>1, <1>4, KindFacts DEF ReadRows, RequestsChecked
  <2>2. Shown \in [FormNumber -> Value \cup {Absent}]
    BY DEF Shown, RosterTypeOK, RosterRow
  <2>3. /\ x \in Importing /\ x.kind = "import" /\ x.known = request[a].known
        /\ x.file = request[a].file /\ x.seen = Shown
    BY <2>1, <2>2 DEF Importing
  <2>4. request[a].kind = "import"
    BY <1>4 DEF ReadRows
  <2>. HIDE DEF x
  <2>5. Checked(x)
    BY <2>1, <2>2, <2>3, <2>4 DEF Checked
  <2>6. request' = [request EXCEPT ![a] = x]
    BY <1>4, <1>1 DEF ReadRows, x
  <2>7. UNCHANGED <<rows, imports, byHand, left, crossed>> /\ staged' \subseteq File
    BY <1>1, <1>4 DEF ReadRows
  <2>. QED BY <2>3, <2>5, <2>6, <2>7, QuietStep DEF Requests
<1>5. CASE DropPreview(a) \/ AbandonRequest(a)
  <2>1. NoRequest \in Requests /\ Checked(NoRequest)
    BY DEF NoRequest, Requests, Checked
  <2>2. request' = [request EXCEPT ![a] = NoRequest] /\ staged' \subseteq File
        /\ UNCHANGED <<rows, imports, byHand, left, crossed>>
    BY <1>1, <1>5 DEF DropPreview, AbandonRequest
  <2>. QED BY <2>1, <2>2, QuietStep
<1>6. ASSUME NEW i \in DOMAIN imports, AskToRollBack(a, i)
      PROVE  RosterInv'
  <2>. DEFINE x == [kind |-> "rollback", target |-> i, stale |-> FALSE]
  <2>1. i \in 1..MaxImport /\ i <= Len(imports)
    BY <1>2, RosterBounds
  <2>2. x \in Requests /\ Checked(x)
    BY <2>1 DEF RollingBack, Requests, Checked
  <2>3. request' = [request EXCEPT ![a] = x]
        /\ UNCHANGED <<rows, imports, byHand, left, crossed>> /\ staged' \subseteq File
    BY <1>1, <1>6 DEF AskToRollBack
  <2>. HIDE DEF x
  <2>. QED BY <2>2, <2>3, QuietStep
<1>. QED BY <1>3, <1>4, <1>5, <1>6

LEMMA RowSteps ==
  ASSUME RosterInv,
         \/ \E file \in File : Preview(file) \/ PreviewExpires(file)
         \/ \E f \in FormNumber : ClaimRow(f) \/ \E v \in Value : AddSingleStudent(f, v)
  PROVE  RosterInv'
<1>. USE DEF RosterInv
<1>0. {} \in SUBSET Admin
  OBVIOUS
<1>1. ASSUME NEW file \in File, Preview(file) \/ PreviewExpires(file)
      PROVE  RosterInv'
  <2>1. /\ staged' \subseteq File /\ UNCHANGED <<rows, imports, request, byHand, left, crossed>>
    BY <1>1 DEF Preview, PreviewExpires, RosterTypeOK
  <2>2. /\ rows' \in [FormNumber -> RosterRow \cup {Absent}]
        /\ byHand' \in [FormNumber -> Value \cup {Absent}]
        /\ \A f \in FormNumber : rows'[f] # Absent => rows'[f].by <= Len(imports)
    BY <2>1 DEF RosterTypeOK
  <2>. QED BY <1>0, <2>1, <2>2, RowStep
<1>2. ASSUME NEW f \in FormNumber, ClaimRow(f)
      PROVE  RosterInv'
  <2>. DEFINE w == [rows[f] EXCEPT !.claimed = ~@]
  <2>1. rows[f] \in RosterRow /\ rows[f].by <= Len(imports)
    BY <1>2 DEF ClaimRow, RosterTypeOK
  <2>2. w \in RosterRow /\ w.by = rows[f].by
    BY <2>1 DEF RosterRow
  <2>3. rows' = [rows EXCEPT ![f] = w] /\ UNCHANGED <<imports, staged, request, byHand, left, crossed>>
    BY <1>2 DEF ClaimRow
  <2>. HIDE DEF w
  <2>4. /\ rows' \in [FormNumber -> RosterRow \cup {Absent}]
        /\ byHand' \in [FormNumber -> Value \cup {Absent}]
        /\ \A g \in FormNumber : rows'[g] # Absent => rows'[g].by <= Len(imports)
        /\ staged' \subseteq File
    BY <2>1, <2>2, <2>3 DEF RosterTypeOK
  <2>. QED BY <1>0, <2>3, <2>4, RowStep
<1>3. ASSUME NEW f \in FormNumber, NEW v \in Value, AddSingleStudent(f, v)
      PROVE  RosterInv'
  <2>. DEFINE w == [value |-> v, by |-> ByHand, claimed |-> FALSE]
              T == {a \in Admin : request[a].kind = "import"}
  <2>1. w \in RosterRow /\ w.by = 0
    BY RosterBounds DEF RosterRow, ByHand
  <2>2. /\ rows' = [rows EXCEPT ![f] = w] /\ byHand' = [byHand EXCEPT ![f] = v]
        /\ request' = Overtaken(T) /\ UNCHANGED <<imports, staged, left, crossed>>
    BY <1>3 DEF AddSingleStudent
  <2>3. Len(imports) \in Nat
    BY ImportFacts
  <2>. HIDE DEF w
  <2>4. /\ rows' \in [FormNumber -> RosterRow \cup {Absent}]
        /\ byHand' \in [FormNumber -> Value \cup {Absent}]
        /\ \A g \in FormNumber : rows'[g] # Absent => rows'[g].by <= Len(imports)
        /\ staged' \subseteq File
    BY <2>1, <2>2, <2>3 DEF RosterTypeOK
  <2>5. T \in SUBSET Admin
    OBVIOUS
  <2>. HIDE DEF T
  <2>. QED BY <2>2, <2>4, <2>5, RowStep
<1>. QED BY <1>1, <1>2, <1>3

-----------------------------------------------------------------------------
(* What the imports that stand say.  AsIfNeverImported is not inductive: what a  *)
(* rollback puts back is the snapshot of its import, and that has to be what   *)
(* the imports under it say.                                                  *)

\* What the imports of imp before the n-th that stand and name f make of it, over
\* what was added by hand.
NamedBelow(imp, n, f) ==
  {i \in DOMAIN imp : i < n /\ imp[i].status = "COMMITTED" /\ Content[imp[i].file][f] # Absent}
LastOf(S) == CHOOSE i \in S : \A j \in S : j <= i
Below(imp, hand, n, f) ==
  IF NamedBelow(imp, n, f) = {} THEN hand
  ELSE Content[imp[LastOf(NamedBelow(imp, n, f))].file][f]

\* The i-th import as a layer over those below: its snapshot is what they say, and
\* the rows that it created are the ones of which they say nothing.
Layer(i, f) ==
  LET import == imports[i]
      says == Content[import.file][f]
      under == Below(imports, byHand[f], i, f)
  IN
  /\ f \in DOMAIN import.snapshot =>
       says # Absent /\ under # Absent /\ import.snapshot[f] = under
  /\ (says # Absent /\ f \notin DOMAIN import.snapshot \cup import.cut) => under \in {Absent, says}
  /\ (says # Absent /\ under = Absent) => rows[f] # Absent /\ rows[f].by = i
  /\ (rows[f] # Absent /\ rows[f].by = i) => says # Absent /\ under = Absent

LayersFit == ~crossed => \A f \in FormNumber \ left, i \in Committed : Layer(i, f)

\* What a request has read is still so, unless it has been overtaken.
Current(r) ==
  /\ (r.kind = "import" /\ r.pc = "read" /\ ~r.stale) => r.seen = Shown
  /\ (r.kind = "rollback" /\ ~r.stale) =>
       r.target \in Committed /\ \A j \in Committed : j <= r.target

RequestsCurrent == \A a \in Admin : Current(request[a])

ListInv == AsIfNeverImported /\ LayersFit /\ RequestsCurrent

\* Import numbers have a greatest one.
LEMMA LastIsElement ==
  ASSUME NEW n \in Nat, NEW S \in SUBSET (1..n), S # {}
  PROVE  LastOf(S) \in S /\ \A j \in S : j <= LastOf(S)
<1>. DEFINE From(m) == {k \in S : k >= m}
            Family == {From(m) : m \in S}
<1>1. S \in SUBSET Nat /\ IsFiniteSet(1..n)
  BY FS_Interval
<1>2. Family \subseteq FiniteSubsetsOf(1..n)
  <2>. SUFFICES ASSUME NEW m \in S PROVE From(m) \in FiniteSubsetsOf(1..n)
    OBVIOUS
  <2>1. From(m) \in SUBSET (1..n)
    OBVIOUS
  <2>. QED BY <1>1, <2>1, FS_Subset DEF FiniteSubsetsOf
<1>0. Family # {}
  OBVIOUS
<1>3. PICK D \in Family : \A E \in Family : ~ (<<E, D>> \in StrictSubsetOrdering(1..n))
  BY <1>0, <1>2, FS_StrictSubsetOrderingWellFounded, WFMin
<1>4. PICK m \in S : D = From(m)
  BY <1>3
<1>5. ASSUME NEW k \in S PROVE k <= m
  <2>. SUFFICES ASSUME k > m PROVE FALSE
    BY <1>1
  <2>1. From(k) \subseteq From(m) /\ From(k) # From(m)
    <3>1. \A j \in S : j >= k => j >= m
      BY <1>1
    <3>2. m \in From(m) /\ m \notin From(k)
      BY <1>1
    <3>. QED BY <3>1, <3>2
  <2>2. From(k) \in SUBSET (1..n) /\ From(m) \in SUBSET (1..n)
    OBVIOUS
  <2>3. <<From(k), From(m)>> \in StrictSubsetOrdering(1..n)
    BY <2>1, <2>2 DEF StrictSubsetOrdering
  <2>. QED BY <1>3, <1>4, <2>3
<1>. QED BY <1>5 DEF LastOf

LEMMA NamedFacts ==
  ASSUME NEW imp \in Seq(Import), NEW n \in Nat, NEW f
  PROVE  /\ NamedBelow(imp, n, f) \in SUBSET (1..Len(imp)) /\ Len(imp) \in Nat
         /\ NamedBelow(imp, n, f) # {} =>
              /\ LastOf(NamedBelow(imp, n, f)) \in NamedBelow(imp, n, f)
              /\ \A j \in NamedBelow(imp, n, f) : j <= LastOf(NamedBelow(imp, n, f))
<1>1. Len(imp) \in Nat /\ NamedBelow(imp, n, f) \in SUBSET (1..Len(imp))
  BY DEF NamedBelow
<1>2. PICK S \in SUBSET (1..Len(imp)) : S = NamedBelow(imp, n, f)
  BY <1>1
<1>. QED BY <1>1, <1>2, LastIsElement

\* Nothing is said where nobody says anything.
LEMMA BelowAbsent ==
  ASSUME NEW imp \in Seq(Import), NEW n \in Nat, NEW f, NEW hand, Below(imp, hand, n, f) = Absent
  PROVE  NamedBelow(imp, n, f) = {} /\ hand = Absent
<1>1. CASE NamedBelow(imp, n, f) = {}
  BY <1>1 DEF Below
<1>2. CASE NamedBelow(imp, n, f) # {}
  <2>1. LastOf(NamedBelow(imp, n, f)) \in NamedBelow(imp, n, f)
    BY <1>2, NamedFacts
  <2>. QED BY <1>2, <2>1 DEF Below, NamedBelow
<1>. QED BY <1>1, <1>2

\* One import more: it decides where it says something.
LEMMA BelowNext ==
  ASSUME NEW imp \in Seq(Import), NEW i \in 1..Len(imp), NEW f, NEW hand
  PROVE  Below(imp, hand, i + 1, f) =
           IF imp[i].status = "COMMITTED" /\ Content[imp[i].file][f] # Absent
           THEN Content[imp[i].file][f] ELSE Below(imp, hand, i, f)
<1>1. i \in Nat /\ i + 1 \in Nat /\ i \in DOMAIN imp /\ DOMAIN imp \subseteq Nat
  OBVIOUS
<1>2. CASE imp[i].status = "COMMITTED" /\ Content[imp[i].file][f] # Absent
  <2>1. i \in NamedBelow(imp, i + 1, f)
    BY <1>1, <1>2 DEF NamedBelow
  <2>2. PICK m : m = LastOf(NamedBelow(imp, i + 1, f))
    OBVIOUS
  <2>3. m \in NamedBelow(imp, i + 1, f) /\ i <= m
    BY <1>1, <2>1, <2>2, NamedFacts
  <2>4. m = i
    BY <1>1, <2>3 DEF NamedBelow
  <2>. QED BY <1>2, <2>1, <2>2, <2>4 DEF Below
<1>3. CASE ~(imp[i].status = "COMMITTED" /\ Content[imp[i].file][f] # Absent)
  <2>1. NamedBelow(imp, i + 1, f) = NamedBelow(imp, i, f)
    BY <1>1, <1>3 DEF NamedBelow
  <2>. QED BY <1>3, <2>1 DEF Below
<1>. QED BY <1>2, <1>3

\* What is said below the n-th import goes by the imports below it that stand.
LEMMA BelowSame ==
  ASSUME NEW imp \in Seq(Import), NEW jmp \in Seq(Import), NEW n \in Nat, NEW m \in Nat,
         NEW f, NEW hand,
         \A i \in DOMAIN imp : (i < n /\ imp[i].status = "COMMITTED") =>
           i \in DOMAIN jmp /\ i < m /\ jmp[i].status = "COMMITTED" /\ jmp[i].file = imp[i].file,
         \A i \in DOMAIN jmp : (i < m /\ jmp[i].status = "COMMITTED") =>
           i \in DOMAIN imp /\ i < n /\ imp[i].status = "COMMITTED" /\ jmp[i].file = imp[i].file
  PROVE  Below(imp, hand, n, f) = Below(jmp, hand, m, f)
<1>1. NamedBelow(imp, n, f) = NamedBelow(jmp, m, f)
  BY DEF NamedBelow
<1>2. CASE NamedBelow(imp, n, f) = {}
  BY <1>1, <1>2 DEF Below
<1>3. CASE NamedBelow(imp, n, f) # {}
  <2>1. PICK k : k = LastOf(NamedBelow(imp, n, f))
    OBVIOUS
  <2>2. k \in NamedBelow(imp, n, f)
    BY <1>3, <2>1, NamedFacts
  <2>3. imp[k].file = jmp[k].file
    BY <2>2 DEF NamedBelow
  <2>. QED BY <1>1, <1>3, <2>1, <2>3 DEF Below
<1>. QED BY <1>2, <1>3

\* Standing is what all imports together say.
LEMMA NamedAll ==
  ASSUME NEW imp \in Seq(Import), NEW f
  PROVE  NamedBelow(imp, Len(imp) + 1, f) =
           {i \in {k \in DOMAIN imp : imp[k].status = "COMMITTED"} :
              Content[imp[i].file][f] # Absent}
BY DEF NamedBelow

LEMMA StandingIsBelow ==
  /\ imports \in Seq(Import) => \A f :
       Standing(f) = Below(imports, byHand[f], Len(imports) + 1, f)
  /\ imports' \in Seq(Import) => \A f :
       Standing(f)' = Below(imports', byHand'[f], Len(imports') + 1, f)
<1>1. ASSUME imports \in Seq(Import), NEW f
      PROVE  Standing(f) = Below(imports, byHand[f], Len(imports) + 1, f)
  <2>1. NamedBelow(imports, Len(imports) + 1, f)
          = {i \in Committed : Content[imports[i].file][f] # Absent}
    BY <1>1, NamedAll DEF Committed
  <2>2. Standing(f) = IF {i \in Committed : Content[imports[i].file][f] # Absent} = {}
                      THEN byHand[f]
                      ELSE Content[imports[LastOf({i \in Committed : Content[imports[i].file][f] # Absent})].file][f]
    BY DEF Standing, LastOf
  <2>. QED BY <2>1, <2>2 DEF Below
<1>2. ASSUME imports' \in Seq(Import), NEW f
      PROVE  Standing(f)' = Below(imports', byHand'[f], Len(imports') + 1, f)
  <2>1. NamedBelow(imports', Len(imports') + 1, f)
          = {i \in Committed' : Content[imports'[i].file][f] # Absent}
    BY <1>2, NamedAll DEF Committed
  <2>2. Standing(f)' = IF {i \in Committed' : Content[imports'[i].file][f] # Absent} = {}
                      THEN byHand'[f]
                      ELSE Content[imports'[LastOf({i \in Committed' : Content[imports'[i].file][f] # Absent})].file][f]
    BY DEF Standing, LastOf
  <2>. QED BY <2>1, <2>2 DEF Below
<1>. QED BY <1>1, <1>2

LEMMA StandingStays ==
  ASSUME imports \in Seq(Import), UNCHANGED <<imports, byHand>>
  PROVE  \A f : Standing(f)' = Standing(f)
BY StandingIsBelow

\* A row is shown with its value.
LEMMA ShownFacts ==
  /\ rows \in [FormNumber -> RosterRow \cup {Absent}] => \A f \in FormNumber :
       /\ Shown[f] = IF rows[f] = Absent THEN Absent ELSE rows[f].value
       /\ Shown[f] = Absent <=> rows[f] = Absent
  /\ rows' \in [FormNumber -> RosterRow \cup {Absent}] => \A f \in FormNumber :
       /\ Shown'[f] = IF rows'[f] = Absent THEN Absent ELSE rows'[f].value
       /\ Shown'[f] = Absent <=> rows'[f] = Absent
BY AbsentIsNoValue DEF Shown, RosterRow

\* An import or a rollback overtakes every other request.
LEMMA EverybodyOvertaken ==
  ASSUME RosterInv, NEW a \in Admin, NEW x, x.kind \notin {"import", "rollback"},
         request' = [Overtaken(Admin \ {a}) EXCEPT ![a] = x]
  PROVE  RequestsCurrent'
<1>. SUFFICES ASSUME NEW b \in Admin PROVE Current(request[b])'
  BY DEF RequestsCurrent
<1>1. request'[b] = IF b = a THEN x ELSE Overtaken(Admin \ {a})[b]
  BY DEF Overtaken
<1>2. CASE b = a \/ request[b].kind \notin {"import", "rollback"}
  <2>1. request'[b].kind \notin {"import", "rollback"}
    BY <1>1, <1>2 DEF Overtaken
  <2>. QED BY <2>1 DEF Current
<1>3. CASE b # a /\ request[b].kind \in {"import", "rollback"}
  <2>1. request[b] \in Importing \cup RollingBack
    BY <1>3, KindFacts DEF RosterInv, RosterTypeOK, Requests
  <2>2. request'[b] = [request[b] EXCEPT !.stale = TRUE]
    BY <1>1, <1>3 DEF Overtaken
  <2>3. request'[b].stale
    BY <2>1, <2>2 DEF Importing, RollingBack
  <2>. QED BY <2>3 DEF Current
<1>. QED BY <1>2, <1>3

-----------------------------------------------------------------------------
(* The writes, once more.                                                   *)

LEMMA CommitFits ==
  ASSUME RosterInv, ListInv, NEW a \in Admin, CommitImport(a)
  PROVE  ListInv'
<1>. DEFINE r == request[a]
            n == Len(imports)
<1>1. /\ r \in Importing /\ r.kind = "import" /\ r.pc = "read" /\ n \in Nat
      /\ imports \in Seq(Import) /\ DOMAIN imports = 1..n
      /\ rows \in [FormNumber -> RosterRow \cup {Absent}]
      /\ \A f \in FormNumber : rows[f] # Absent => rows[f].by <= n
  BY CommitFacts, ImportFacts DEF CommitImport, RosterInv, RosterTypeOK
<1>2. RequestsCurrent'
  <2>1. PICK x : x = [kind |-> "drop", file |-> r.file]
    OBVIOUS
  <2>2. request' = [Overtaken(Admin \ {a}) EXCEPT ![a] = x]
    BY <2>1 DEF CommitImport
  <2>. QED BY <2>1, <2>2, EverybodyOvertaken
<1>3. CASE crossed'
  BY <1>2, <1>3 DEF ListInv, AsIfNeverImported, LayersFit
<1>4. CASE ~crossed'
  <2>1. ~crossed /\ r.seen = Shown /\ UNCHANGED <<byHand, left>>
    BY <1>1, <1>4 DEF CommitImport, ListInv, RequestsCurrent, Current
  <2>2. PICK S \in SUBSET FormNumber :
          /\ S \subseteq ToUpdate(r)
          /\ imports' = Append(imports, [file |-> r.file, status |-> "COMMITTED",
                                         known |-> r.known, snapshot |-> Snapshot(r, S),
                                         cut |-> ToUpdate(r) \ S])
    BY DEF CommitImport, Fits
  <2>3. /\ imports' \in Seq(Import) /\ Len(imports') = n + 1 /\ DOMAIN imports' = 1..(n + 1)
        /\ \A i \in 1..n : imports'[i] = imports[i]
    BY CommitFacts, <1>1
  <2>4. PICK e : e = imports'[n + 1]
    OBVIOUS
  <2>5. /\ e.file = r.file /\ e.status = "COMMITTED" /\ e.snapshot = [f \in S |-> Shown[f]]
        /\ e.cut = ToUpdate(r) \ S
    <3>1. e = [file |-> r.file, status |-> "COMMITTED", known |-> r.known,
               snapshot |-> Snapshot(r, S), cut |-> ToUpdate(r) \ S]
      BY <1>1, <2>2, <2>4
    <3>. QED BY <2>1, <3>1 DEF Snapshot
  <2>6. /\ Committed \subseteq 1..n /\ Committed' = Committed \cup {n + 1}
    BY <1>1, <2>3, <2>4, <2>5 DEF Committed
  <2>7. \A m \in 1..(n + 1) : \A f \in FormNumber :
          Below(imports', byHand'[f], m, f) = Below(imports, byHand[f], m, f)
    <3>. SUFFICES ASSUME NEW m \in 1..(n + 1), NEW f \in FormNumber
                  PROVE  Below(imports', byHand[f], m, f) = Below(imports, byHand[f], m, f)
      BY <2>1
    <3>. HIDE DEF n
    <3>1. \A i \in 1..(n + 1) : i < m => i \in 1..n
      BY <1>1
    <3>2. m \in Nat
      BY <1>1
    <3>3. /\ \A i \in DOMAIN imports : (i < m /\ imports[i].status = "COMMITTED") =>
               i \in DOMAIN imports' /\ i < m /\ imports'[i].status = "COMMITTED"
               /\ imports'[i].file = imports[i].file
          /\ \A i \in DOMAIN imports' : (i < m /\ imports'[i].status = "COMMITTED") =>
               i \in DOMAIN imports /\ i < m /\ imports[i].status = "COMMITTED"
               /\ imports'[i].file = imports[i].file
      BY <1>1, <2>3, <3>1
    <3>4. imports \in Seq(Import) /\ imports' \in Seq(Import)
      BY <1>1, <2>3
    <3>5. PICK jmp \in Seq(Import) : jmp = imports'
      BY <3>4
    <3>6. PICK imp \in Seq(Import) : imp = imports
      BY <3>4
    <3>7. Below(imp, byHand[f], m, f) = Below(jmp, byHand[f], m, f)
      BY <3>2, <3>3, <3>5, <3>6, BelowSame
    <3>. QED BY <3>5, <3>6, <3>7
  <2>8. ASSUME NEW f \in FormNumber \ left
        PROVE  /\ Shown[f] = Below(imports, byHand[f], n + 1, f)
               /\ Shown'[f] = IF Says(r, f) # Absent THEN Says(r, f) ELSE Shown[f]
               /\ rows[f] # Absent => rows'[f] # Absent /\ rows'[f].by = rows[f].by
               /\ (Says(r, f) # Absent /\ rows[f] = Absent) => rows'[f] # Absent /\ rows'[f].by = n + 1
               /\ (Says(r, f) = Absent /\ rows[f] = Absent) => rows'[f] = Absent
    <3>1. Shown[f] = Below(imports, byHand[f], n + 1, f)
      BY <1>1, <2>1, StandingIsBelow DEF ListInv, AsIfNeverImported
    <3>2. Shown[f] = (IF rows[f] = Absent THEN Absent ELSE rows[f].value)
          /\ (Shown[f] = Absent <=> rows[f] = Absent)
      BY <1>1, ShownFacts
    <3>3. Says(r, f) # Absent => Says(r, f) \in Value
      BY <1>1, ContentIsByForm DEF Says, Importing
    <3>4. rows'[f] = IF f \in ToUpdate(r) THEN [rows[f] EXCEPT !.value = Says(r, f)]
                     ELSE IF f \in ToCreate(r) /\ rows[f] = Absent
                          THEN [value |-> Says(r, f), by |-> n + 1, claimed |-> FALSE]
                     ELSE rows[f]
      BY DEF CommitImport
    <3>5. /\ f \in ToUpdate(r) <=> Says(r, f) # Absent /\ Shown[f] \notin {Absent, Says(r, f)}
          /\ f \in ToCreate(r) <=> Says(r, f) # Absent /\ Shown[f] = Absent
      BY <2>1 DEF ToUpdate, ToCreate
    <3>6. rows' \in [FormNumber -> RosterRow \cup {Absent}]
      BY CommitFacts DEF CommitImport
    <3>7. Shown'[f] = IF rows'[f] = Absent THEN Absent ELSE rows'[f].value
      BY <3>6, ShownFacts
    <3>8. CASE f \in ToUpdate(r)
      <4>1. rows[f] \in RosterRow /\ rows[f] # Absent
        BY <1>1, <3>2, <3>5, <3>8
      <4>2. PICK w : w = [rows[f] EXCEPT !.value = Says(r, f)]
        OBVIOUS
      <4>3. w \in RosterRow /\ w.value = Says(r, f) /\ w.by = rows[f].by
        BY <3>3, <3>5, <3>8, <4>1, <4>2 DEF RosterRow
      <4>. QED BY <3>1, <3>4, <3>5, <3>7, <3>8, <4>1, <4>2, <4>3, AbsentIsNoRow
    <3>9. CASE f \notin ToUpdate(r) /\ f \in ToCreate(r) /\ rows[f] = Absent
      <4>1. PICK w : w = [value |-> Says(r, f), by |-> n + 1, claimed |-> FALSE]
        OBVIOUS
      <4>2. w.value = Says(r, f) /\ w.by = n + 1 /\ rows'[f] = w
        BY <3>4, <3>9, <4>1
      <4>0. n + 1 \in 0..MaxImport
        BY <1>1, RosterBounds DEF CommitImport
      <4>3. rows'[f] # Absent
        <5>1. Says(r, f) \in Value
          BY <3>3, <3>5, <3>9
        <5>2. w \in RosterRow
          BY <4>0, <4>1, <5>1 DEF RosterRow
        <5>. QED BY <4>2, <5>2, AbsentIsNoRow
      <4>. QED BY <3>1, <3>5, <3>7, <3>9, <4>2, <4>3
    <3>10. CASE f \notin ToUpdate(r) /\ ~(f \in ToCreate(r) /\ rows[f] = Absent)
      BY <3>1, <3>2, <3>4, <3>5, <3>7, <3>10
    <3>. QED BY <3>8, <3>9, <3>10
  <2>9. AsIfNeverImported'
    <3>. SUFFICES ASSUME NEW f \in FormNumber \ left PROVE Shown'[f] = Standing(f)'
      BY <2>1 DEF AsIfNeverImported
    <3>1. Standing(f)' = Below(imports', byHand'[f], (n + 1) + 1, f)
      BY <2>3, StandingIsBelow
    <3>2. PICK k \in 1..Len(imports') : k = n + 1
      BY <1>1, <2>3
    <3>3. Below(imports', byHand'[f], (n + 1) + 1, f) =
            IF Says(r, f) # Absent THEN Says(r, f) ELSE Below(imports', byHand'[f], n + 1, f)
      <4>1. imports'[k].status = "COMMITTED" /\ Content[imports'[k].file][f] = Says(r, f)
        BY <2>4, <2>5, <3>2 DEF Says
      <4>2. Below(imports', byHand'[f], k + 1, f) =
              IF Says(r, f) # Absent THEN Says(r, f) ELSE Below(imports', byHand'[f], k, f)
        BY <2>3, <4>1, BelowNext
      <4>. QED BY <3>2, <4>2
    <3>4. n + 1 \in 1..(n + 1)
      BY <1>1
    <3>. HIDE DEF n, r
    <3>. QED BY <2>7, <2>8, <3>1, <3>3, <3>4
  <2>10. LayersFit'
    <3>. SUFFICES ASSUME NEW f \in FormNumber \ left, NEW i \in Committed' PROVE Layer(i, f)'
      BY <2>1 DEF LayersFit
    <3>. DEFINE says == Content[imports'[i].file][f]
                under == Below(imports', byHand'[f], i, f)
    <3>1. i \in 1..(n + 1) /\ under = Below(imports, byHand[f], i, f)
      <4>1. i \in 1..(n + 1)
        <5>1. n \in Nat /\ i \in Committed \cup {n + 1} /\ Committed \subseteq 1..n
          BY <1>1, <2>6
        <5>. HIDE DEF n
        <5>. QED BY <5>1
      <4>. HIDE DEF n
      <4>. QED BY <2>7, <4>1
    <3>2. CASE i \in Committed
      <4>1. i \in 1..n /\ imports'[i] = imports[i]
        BY <2>3, <2>6, <3>2
      <4>2. Layer(i, f)
        BY <2>1, <3>2 DEF ListInv, LayersFit
      <4>3. (says # Absent /\ under = Absent) => rows'[f] # Absent /\ rows'[f].by = i
        BY <2>8, <3>1, <4>1, <4>2 DEF Layer
      <4>4. (rows'[f] # Absent /\ rows'[f].by = i) => says # Absent /\ under = Absent
        <5>1. i # n + 1
          BY <1>1, <4>1
        <5>2. (rows'[f] # Absent /\ rows'[f].by = i) => rows[f] # Absent /\ rows[f].by = i
          BY <2>8, <5>1
        <5>. QED BY <3>1, <4>1, <4>2, <5>2 DEF Layer
      <4>. QED BY <3>1, <4>1, <4>2, <4>3, <4>4 DEF Layer
    <3>3. CASE i = n + 1
      <4>1. imports'[i] = e /\ says = Says(r, f) /\ under = Shown[f]
        BY <2>4, <2>5, <2>8, <3>1, <3>3 DEF Says
      <4>2. Shown[f] = Absent <=> rows[f] = Absent
        BY <1>1, ShownFacts
      <4>3. /\ f \in ToUpdate(r) <=> Says(r, f) # Absent /\ Shown[f] \notin {Absent, Says(r, f)}
        BY <2>1 DEF ToUpdate
      <4>4. f \in DOMAIN e.snapshot =>
              says # Absent /\ under # Absent /\ e.snapshot[f] = under
        BY <2>2, <2>5, <4>1, <4>3
      <4>5. (says # Absent /\ f \notin DOMAIN e.snapshot \cup e.cut) => under \in {Absent, says}
        BY <2>5, <4>1, <4>3
      <4>6. (says # Absent /\ under = Absent) => rows'[f] # Absent /\ rows'[f].by = i
        BY <2>8, <3>3, <4>1, <4>2
      <4>7. (rows'[f] # Absent /\ rows'[f].by = i) => says # Absent /\ under = Absent
        <5>1. rows[f] # Absent => rows[f].by \in Nat /\ rows[f].by <= n
          BY <1>1, RosterBounds DEF RosterRow
        <5>2. rows[f] # Absent => rows'[f].by # i
          BY <1>1, <2>8, <3>3, <5>1
        <5>. QED BY <2>8, <4>1, <4>2, <5>2
      <4>. QED BY <4>1, <4>4, <4>5, <4>6, <4>7 DEF Layer
    <3>. QED BY <2>6, <3>2, <3>3
  <2>. QED BY <1>2, <2>9, <2>10 DEF ListInv
<1>. QED BY <1>3, <1>4

LEMMA RollBackFits ==
  ASSUME RosterInv, ListInv, NEW a \in Admin, RollBack(a)
  PROVE  ListInv'
<1>1. PICK k : k = request[a].target
  OBVIOUS
<1>2. PICK n : n = Len(imports)
  OBVIOUS
<1>3. /\ request[a] \in RollingBack /\ request[a].kind = "rollback"
      /\ n \in Nat /\ k \in 1..n /\ DOMAIN imports = 1..n /\ DOMAIN imports' = 1..n
      /\ Len(imports') = n
      /\ \A i \in 1..n : imports'[i].file = imports[i].file
      /\ \A i \in 1..n \ {k} : imports'[i] = imports[i]
      /\ imports'[k].status = "ROLLED_BACK"
  BY <1>1, <1>2, RollBackFacts, ImportFacts DEF RollBack, RosterInv
<1>4. imports \in Seq(Import) /\ imports' \in Seq(Import)
  BY RollBackFacts DEF RosterInv, RosterTypeOK
<1>5. /\ rows \in [FormNumber -> RosterRow \cup {Absent}]
      /\ rows' \in [FormNumber -> RosterRow \cup {Absent}]
  BY RollBackFacts DEF RollBack, RosterInv, RosterTypeOK
<1>9. \A f \in FormNumber : rows[f] # Absent =>
        \/ rows'[f] = Absent /\ rows[f].by = k
        \/ rows'[f] # Absent /\ rows'[f].by = rows[f].by
  BY <1>1, RollBackFacts, AbsentIsNoRow
<1>6. RequestsCurrent'
  <2>1. PICK x : x = NoRequest
    OBVIOUS
  <2>2. x.kind = "none" /\ request' = [Overtaken(Admin \ {a}) EXCEPT ![a] = x]
    BY <2>1 DEF RollBack, NoRequest
  <2>. QED BY <2>2, EverybodyOvertaken
<1>7. CASE crossed'
  BY <1>6, <1>7 DEF ListInv, AsIfNeverImported, LayersFit
<1>8. CASE ~crossed'
  <2>1. /\ ~crossed /\ byHand' = byHand
        /\ k \in Committed /\ \A j \in Committed : j <= k
    BY <1>1, <1>3, <1>8 DEF RollBack, ListInv, RequestsCurrent, Current
  <2>2. Committed' = Committed \ {k} /\ Committed \subseteq 1..n
    BY <1>3 DEF Committed
  <2>3. \A i \in 1..n : imports'[i].status = "COMMITTED" <=> i \in Committed /\ i < k
    BY <1>3, <2>1, <2>2 DEF Committed
  <2>4. PICK imp \in Seq(Import) : imp = imports
    BY <1>4
  <2>5. PICK jmp \in Seq(Import) : jmp = imports'
    BY <1>4
  <2>6. /\ DOMAIN imp = 1..n /\ DOMAIN jmp = 1..n
        /\ \A i \in 1..n : jmp[i].file = imp[i].file
        /\ \A i \in 1..n : jmp[i].status = "COMMITTED" <=> imp[i].status = "COMMITTED" /\ i < k
    BY <1>3, <2>3, <2>4, <2>5 DEF Committed
  <2>7. ASSUME NEW m \in 1..k, NEW f, NEW hand
        PROVE  Below(jmp, hand, m, f) = Below(imp, hand, m, f)
    <3>1. m \in Nat /\ \A i \in 1..n : i < m => i < k
      BY <1>3
    <3>2. /\ \A i \in DOMAIN jmp : (i < m /\ jmp[i].status = "COMMITTED") =>
               i \in DOMAIN imp /\ i < m /\ imp[i].status = "COMMITTED" /\ imp[i].file = jmp[i].file
          /\ \A i \in DOMAIN imp : (i < m /\ imp[i].status = "COMMITTED") =>
               i \in DOMAIN jmp /\ i < m /\ jmp[i].status = "COMMITTED" /\ imp[i].file = jmp[i].file
      BY <2>6, <3>1
    <3>. QED BY <3>1, <3>2, BelowSame
  <2>8. ASSUME NEW f, NEW hand
        PROVE  Below(jmp, hand, n + 1, f) = Below(imp, hand, k, f)
    <3>1. k \in Nat /\ n + 1 \in Nat /\ \A i \in 1..n : i < n + 1
      BY <1>3
    <3>2. /\ \A i \in DOMAIN jmp : (i < n + 1 /\ jmp[i].status = "COMMITTED") =>
               i \in DOMAIN imp /\ i < k /\ imp[i].status = "COMMITTED" /\ imp[i].file = jmp[i].file
          /\ \A i \in DOMAIN imp : (i < k /\ imp[i].status = "COMMITTED") =>
               i \in DOMAIN jmp /\ i < n + 1 /\ jmp[i].status = "COMMITTED" /\ imp[i].file = jmp[i].file
      BY <2>6, <3>1
    <3>. QED BY <3>1, <3>2, BelowSame
  <2>9. ASSUME NEW f, NEW hand
        PROVE  Below(imp, hand, n + 1, f) =
                 IF Content[imp[k].file][f] # Absent THEN Content[imp[k].file][f]
                 ELSE Below(imp, hand, k, f)
    <3>1. k + 1 \in Nat /\ n + 1 \in Nat /\ k \in 1..Len(imp) /\ imp[k].status = "COMMITTED"
      BY <1>2, <1>3, <2>1, <2>4 DEF Committed
    <3>2. \A i \in 1..n : imp[i].status = "COMMITTED" => i < k + 1 /\ i < n + 1
      BY <1>3, <2>1, <2>4 DEF Committed
    <3>3. Below(imp, hand, n + 1, f) = Below(imp, hand, k + 1, f)
      <4>1. \A i \in DOMAIN imp : (i < n + 1 /\ imp[i].status = "COMMITTED") =>
              i \in DOMAIN imp /\ i < k + 1 /\ imp[i].status = "COMMITTED" /\ imp[i].file = imp[i].file
        BY <2>6, <3>2
      <4>2. \A i \in DOMAIN imp : (i < k + 1 /\ imp[i].status = "COMMITTED") =>
              i \in DOMAIN imp /\ i < n + 1 /\ imp[i].status = "COMMITTED" /\ imp[i].file = imp[i].file
        BY <2>6, <3>2
      <4>. QED BY <3>1, <4>1, <4>2, BelowSame
    <3>. QED BY <3>1, <3>3, BelowNext
  <2>10. ASSUME NEW f \in FormNumber \ left'
         PROVE  /\ f \notin left /\ f \notin imports[k].cut
                /\ rows'[f] = IF rows[f] # Absent /\ rows[f].by = k THEN Absent
                              ELSE IF rows[f] # Absent /\ f \in DOMAIN imports[k].snapshot
                                   THEN [rows[f] EXCEPT !.value = imports[k].snapshot[f]]
                              ELSE rows[f]
    <3>1. left' = left \cup (Created(k) \ Removable(k)) \cup imports[k].cut
      BY <1>1 DEF RollBack
    <3>2. rows'[f] = IF f \in Removable(k) THEN Absent
                     ELSE IF rows[f] # Absent /\ f \in DOMAIN imports[k].snapshot
                          THEN [rows[f] EXCEPT !.value = imports[k].snapshot[f]]
                     ELSE rows[f]
      BY <1>1 DEF RollBack
    <3>3. f \in Removable(k) <=> rows[f] # Absent /\ rows[f].by = k
      BY <3>1 DEF Removable, Created
    <3>. QED BY <3>1, <3>2, <3>3
  <2>11. ASSUME NEW f \in FormNumber \ left'
         PROVE  Shown'[f] = Below(imp, byHand[f], k, f)
    <3>. DEFINE says == Content[imports[k].file][f]
                under == Below(imp, byHand[f], k, f)
                snap == imports[k].snapshot
    <3>1. Layer(k, f)
      BY <2>1, <2>10 DEF ListInv, LayersFit
    <3>2. Shown[f] = IF says # Absent THEN says ELSE under
      <4>1. Shown[f] = Standing(f)
        BY <2>1, <2>10 DEF ListInv, AsIfNeverImported
      <4>2. Standing(f) = Below(imp, byHand[f], n + 1, f)
        BY <1>2, <2>4, StandingIsBelow
      <4>. QED BY <2>4, <2>9, <4>1, <4>2
    <3>3. /\ Shown[f] = (IF rows[f] = Absent THEN Absent ELSE rows[f].value)
          /\ Shown[f] = Absent <=> rows[f] = Absent
          /\ Shown'[f] = IF rows'[f] = Absent THEN Absent ELSE rows'[f].value
      BY <1>5, ShownFacts
    <3>4. /\ f \in DOMAIN snap => says # Absent /\ under # Absent /\ snap[f] = under
          /\ (says # Absent /\ f \notin DOMAIN snap) => under \in {Absent, says}
          /\ (says # Absent /\ under = Absent) <=> (rows[f] # Absent /\ rows[f].by = k)
      BY <2>4, <2>10, <3>1 DEF Layer
    <3>. HIDE DEF says, under, snap
    <3>5. CASE rows[f] # Absent /\ rows[f].by = k
      BY <2>10, <3>3, <3>4, <3>5 DEF under
    <3>6. CASE rows[f] # Absent /\ rows[f].by # k /\ f \in DOMAIN snap
      <4>1. rows'[f] = [rows[f] EXCEPT !.value = under]
        BY <2>10, <3>4, <3>6 DEF snap
      <4>2. rows[f] \in RosterRow
        BY <1>5, <3>6
      <4>3. PICK w : w = [rows[f] EXCEPT !.value = under]
        OBVIOUS
      <4>4. w.value = under
        BY <4>2, <4>3 DEF RosterRow
      <4>5. rows'[f] # Absent
        BY <1>9, <3>6
      <4>. QED BY <3>3, <4>1, <4>3, <4>4, <4>5 DEF under
    <3>7. CASE ~(rows[f] # Absent /\ rows[f].by = k) /\ ~(rows[f] # Absent /\ f \in DOMAIN snap)
      <4>1. rows'[f] = rows[f]
        BY <2>10, <3>7 DEF snap
      <4>2. Shown'[f] = Shown[f]
        BY <3>3, <4>1
      <4>3. Shown[f] = under
        BY <3>2, <3>3, <3>4, <3>7
      <4>. QED BY <4>2, <4>3 DEF under
    <3>. QED BY <3>5, <3>6, <3>7
  <2>12. AsIfNeverImported'
    <3>. SUFFICES ASSUME NEW f \in FormNumber \ left' PROVE Shown'[f] = Standing(f)'
      BY DEF AsIfNeverImported
    <3>1. Standing(f)' = Below(jmp, byHand'[f], n + 1, f)
      BY <1>3, <2>5, StandingIsBelow
    <3>. QED BY <2>1, <2>8, <2>11, <3>1
  <2>13. LayersFit'
    <3>. SUFFICES ASSUME NEW f \in FormNumber \ left', NEW i \in Committed' PROVE Layer(i, f)'
      BY DEF LayersFit
    <3>1. i \in Committed /\ i \in 1..n /\ i # k /\ i <= k
      BY <2>1, <2>2
    <3>2. imports'[i] = imports[i] /\ i \in 1..k
      BY <1>3, <3>1
    <3>3. Layer(i, f)
      BY <2>1, <2>10, <3>1 DEF ListInv, LayersFit
    <3>4. Below(imports', byHand'[f], i, f) = Below(imports, byHand[f], i, f)
      BY <2>1, <2>4, <2>5, <2>7, <3>2
    <3>5. (rows'[f] # Absent /\ rows'[f].by = i) <=> (rows[f] # Absent /\ rows[f].by = i)
      <4>1. rows[f] = Absent => rows'[f] = Absent
        BY <2>10
      <4>. QED BY <1>9, <3>1, <4>1
    <3>. QED BY <3>2, <3>3, <3>4, <3>5 DEF Layer
  <2>. QED BY <1>6, <2>12, <2>13 DEF ListInv
<1>. QED BY <1>7, <1>8

\* A request that asks, reads or ends knows the list as it is.
LEMMA AskFits ==
  ASSUME RosterInv, ListInv, NEW a \in Admin,
         \/ \E file \in File, allowed \in BOOLEAN : AskToCommit(a, file, allowed)
         \/ ReadRows(a) \/ DropPreview(a) \/ AbandonRequest(a)
         \/ \E i \in DOMAIN imports : AskToRollBack(a, i)
  PROVE  ListInv'
<1>1. UNCHANGED <<rows, imports, byHand, left, crossed>>
  BY DEF AskToCommit, ReadRows, DropPreview, AbandonRequest, AskToRollBack
<1>2. AsIfNeverImported'
  <2>1. Shown' = Shown /\ \A f : Standing(f)' = Standing(f)
    BY <1>1, StandingStays DEF Shown, RosterInv, RosterTypeOK
  <2>. QED BY <1>1, <2>1 DEF ListInv, AsIfNeverImported
<1>3. LayersFit'
  BY <1>1 DEF ListInv, LayersFit, Layer, Committed
<1>4. PICK x : request' = [request EXCEPT ![a] = x] /\ Current(x)
  <2>1. CASE \E file \in File, allowed \in BOOLEAN : AskToCommit(a, file, allowed)
    <3>1. PICK file, allowed : AskToCommit(a, file, allowed)
      BY <2>1
    <3>2. PICK x : x = [kind |-> "import", pc |-> "checked", file |-> file,
                        known |-> IF allowed THEN 0 ELSE Len(imports), stale |-> FALSE,
                        seen |-> Unread]
      OBVIOUS
    <3>3. Current(x)
      BY <3>2 DEF Current
    <3>. QED BY <3>1, <3>2, <3>3 DEF AskToCommit
  <2>2. CASE ReadRows(a)
    <3>1. request[a] \in Importing
      BY <2>2, KindFacts DEF ReadRows, RosterInv, RosterTypeOK, Requests
    <3>2. PICK x : x = [request[a] EXCEPT !.pc = "read", !.seen = Shown]
      OBVIOUS
    <3>3. Current(x)
      BY <3>1, <3>2 DEF Current, Importing
    <3>4. request' = [request EXCEPT ![a] = x]
      BY <2>2, <3>2 DEF ReadRows, RosterInv, RosterTypeOK
    <3>. QED BY <3>3, <3>4
  <2>3. CASE DropPreview(a) \/ AbandonRequest(a)
    <3>1. Current(NoRequest)
      BY DEF Current, NoRequest
    <3>. QED BY <2>3, <3>1 DEF DropPreview, AbandonRequest
  <2>4. CASE \E i \in DOMAIN imports : AskToRollBack(a, i)
    <3>1. PICK i \in DOMAIN imports : AskToRollBack(a, i)
      BY <2>4
    <3>2. PICK x : x = [kind |-> "rollback", target |-> i, stale |-> FALSE]
      OBVIOUS
    <3>3. i \in Committed /\ i = LastOf(Committed)
      BY <3>1 DEF AskToRollBack, MayRollBack, Latest, LastOf
    <3>4. Committed \in SUBSET (1..Len(imports)) /\ Len(imports) \in Nat
      BY ImportFacts DEF Committed, RosterInv
    <3>5. Current(x)
      BY <3>2, <3>3, <3>4, LastIsElement DEF Current
    <3>. QED BY <3>1, <3>2, <3>5 DEF AskToRollBack
  <2>. QED BY <2>1, <2>2, <2>3, <2>4
<1>5. \A r : Current(r) => Current(r)'
  BY <1>1 DEF Current, Shown, Committed
<1>6. RequestsCurrent'
  <2>. SUFFICES ASSUME NEW b \in Admin PROVE Current(request[b])'
    BY DEF RequestsCurrent
  <2>1. request'[b] = IF b = a THEN x ELSE request[b]
    BY <1>4 DEF RosterInv, RosterTypeOK
  <2>2. PICK y : y = request'[b] /\ Current(y)
    BY <1>4, <2>1 DEF ListInv, RequestsCurrent
  <2>3. Current(y)'
    BY <1>5, <2>2
  <2>. QED BY <2>2, <2>3 DEF Current
<1>. QED BY <1>2, <1>3, <1>6 DEF ListInv

\* Claims are not part of what the list says.
LEMMA ClaimFits ==
  ASSUME RosterInv, ListInv, NEW f \in FormNumber, ClaimRow(f)
  PROVE  ListInv'
<1>1. PICK w : w = [rows[f] EXCEPT !.claimed = ~@]
  OBVIOUS
<1>2. rows' = [rows EXCEPT ![f] = w]
      /\ UNCHANGED <<imports, staged, request, byHand, left, crossed>>
  BY <1>1 DEF ClaimRow
<1>3. rows[f] \in RosterRow /\ rows \in [FormNumber -> RosterRow \cup {Absent}]
  BY DEF ClaimRow, RosterInv, RosterTypeOK
<1>4. w \in RosterRow /\ w.by = rows[f].by /\ w.value = rows[f].value
  BY <1>1, <1>3 DEF RosterRow
<1>5. \A g \in FormNumber : /\ rows'[g] = Absent <=> rows[g] = Absent
                            /\ rows[g] # Absent => rows'[g].by = rows[g].by
                            /\ rows[g] # Absent => rows'[g].value = rows[g].value
  BY <1>2, <1>3, <1>4, AbsentIsNoRow
<1>6. Shown' = Shown
  BY <1>5 DEF Shown
<1>7. AsIfNeverImported'
  <2>1. \A g : Standing(g)' = Standing(g)
    BY <1>2, StandingStays DEF RosterInv, RosterTypeOK
  <2>. QED BY <1>2, <1>6, <2>1 DEF ListInv, AsIfNeverImported
<1>8. LayersFit'
  <2>. SUFFICES ASSUME ~crossed, NEW g \in FormNumber \ left, NEW i \in Committed PROVE Layer(i, g)'
    BY <1>2 DEF LayersFit, Committed
  <2>1. Layer(i, g)
    BY DEF ListInv, LayersFit
  <2>. QED BY <1>2, <1>5, <2>1 DEF Layer
<1>9. RequestsCurrent'
  BY <1>2, <1>6 DEF ListInv, RequestsCurrent, Current, Committed
<1>. QED BY <1>7, <1>8, <1>9 DEF ListInv

\* A student is added by hand where no import that stands says anything.
LEMMA AddFits ==
  ASSUME RosterInv, ListInv, NEW f \in FormNumber, NEW v \in Value, AddSingleStudent(f, v)
  PROVE  ListInv'
<1>1. PICK w : w = [value |-> v, by |-> ByHand, claimed |-> FALSE]
  OBVIOUS
<1>2. /\ rows' = [rows EXCEPT ![f] = w] /\ byHand' = [byHand EXCEPT ![f] = v] /\ rows[f] = Absent
      /\ request' = Overtaken({a \in Admin : request[a].kind = "import"})
      /\ UNCHANGED <<imports, left, crossed>>
  BY <1>1 DEF AddSingleStudent
<1>3. /\ rows \in [FormNumber -> RosterRow \cup {Absent}] /\ imports \in Seq(Import)
      /\ byHand \in [FormNumber -> Value \cup {Absent}]
  BY DEF RosterInv, RosterTypeOK
<1>4. PICK n \in Nat : n = Len(imports) /\ DOMAIN imports = 1..n
  BY ImportFacts DEF RosterInv
<1>5. w \in RosterRow /\ w.value = v /\ w.by = 0
  BY <1>1, RosterBounds DEF RosterRow, ByHand
<1>6. rows' \in [FormNumber -> RosterRow \cup {Absent}]
  BY <1>2, <1>3, <1>5
<1>7. RequestsCurrent'
  <2>. SUFFICES ASSUME NEW b \in Admin PROVE Current(request[b])'
    BY DEF RequestsCurrent
  <2>1. CASE request[b].kind = "import"
    <3>1. request[b] \in Importing
      BY <2>1, KindFacts DEF RosterInv, RosterTypeOK, Requests
    <3>2. request'[b] = [request[b] EXCEPT !.stale = TRUE]
      BY <1>2, <2>1 DEF Overtaken
    <3>3. request'[b].kind = "import" /\ request'[b].stale
      BY <3>1, <3>2 DEF Importing
    <3>. QED BY <3>3 DEF Current
  <2>2. CASE request[b].kind # "import"
    <3>1. request'[b] = request[b]
      BY <1>2, <2>2 DEF Overtaken
    <3>. QED BY <1>2, <2>2, <3>1 DEF ListInv, RequestsCurrent, Current, Committed
  <2>. QED BY <2>1, <2>2
<1>8. ASSUME ~crossed, f \notin left
      PROVE  NamedBelow(imports, n + 1, f) = {}
  <2>1. Shown[f] = Absent /\ Shown[f] = Standing(f)
    BY <1>2, <1>8 DEF Shown, ListInv, AsIfNeverImported
  <2>2. Below(imports, byHand[f], n + 1, f) = Absent
    BY <1>3, <1>4, <2>1, StandingIsBelow
  <2>. QED BY <1>3, <1>4, <2>2, BelowAbsent
<1>9. ASSUME NEW g \in FormNumber, g # f
      PROVE  rows'[g] = rows[g] /\ byHand'[g] = byHand[g] /\ Shown'[g] = Shown[g]
  BY <1>2, <1>3, <1>9 DEF Shown
<1>10. AsIfNeverImported'
  <2>. SUFFICES ASSUME ~crossed, NEW g \in FormNumber \ left PROVE Shown'[g] = Standing(g)'
    BY <1>2 DEF AsIfNeverImported
  <2>1. CASE g = f
    <3>1. Shown'[f] = v
      BY <1>2, <1>3, <1>5, <1>6, ShownFacts, AbsentIsNoRow
    <3>2. Standing(f)' = Below(imports, v, n + 1, f)
      BY <1>2, <1>3, <1>4, StandingIsBelow
    <3>3. Below(imports, v, n + 1, f) = v
      BY <1>8, <2>1 DEF Below
    <3>. QED BY <2>1, <3>1, <3>2, <3>3
  <2>2. CASE g # f
    <3>1. Standing(g)' = Below(imports, byHand[g], n + 1, g)
      BY <1>2, <1>3, <1>4, <1>9, <2>2, StandingIsBelow
    <3>2. Shown[g] = Below(imports, byHand[g], n + 1, g)
      BY <1>3, <1>4, StandingIsBelow DEF ListInv, AsIfNeverImported
    <3>. QED BY <1>9, <2>2, <3>1, <3>2
  <2>. QED BY <2>1, <2>2
<1>11. LayersFit'
  <2>. SUFFICES ASSUME ~crossed, NEW g \in FormNumber \ left, NEW i \in Committed PROVE Layer(i, g)'
    BY <1>2 DEF LayersFit, Committed
  <2>1. Layer(i, g)
    BY DEF ListInv, LayersFit
  <2>2. CASE g = f
    <3>1. i \in DOMAIN imports /\ i < n + 1 /\ i # 0 /\ imports[i].status = "COMMITTED"
      BY <1>4 DEF Committed
    <3>2. Content[imports[i].file][f] = Absent
      BY <1>8, <2>2, <3>1 DEF NamedBelow
    <3>3. rows'[f].by = 0
      BY <1>2, <1>3, <1>5
    <3>. QED BY <1>2, <2>1, <2>2, <3>1, <3>2, <3>3 DEF Layer
  <2>3. CASE g # f
    BY <1>2, <1>9, <2>1, <2>3 DEF Layer
  <2>. QED BY <2>2, <2>3
<1>. QED BY <1>7, <1>10, <1>11 DEF ListInv

-----------------------------------------------------------------------------
(* The theorems.                                                            *)

\* The list and its imports are in order, and every request knows what it may
\* rely on.
THEOREM RosterInvariant == RosterSpec => []RosterInv
<1>1. RosterInit => RosterInv
  <2>. SUFFICES ASSUME RosterInit PROVE RosterInv
    OBVIOUS
  <2>1. RosterTypeOK
    <3>1. imports \in Seq(Import) /\ Len(imports) <= MaxImport
      BY RosterBounds DEF RosterInit
    <3>2. /\ rows \in [FormNumber -> RosterRow \cup {Absent}]
          /\ \A f \in FormNumber : rows[f] = Absent
          /\ byHand \in [FormNumber -> Value \cup {Absent}]
      BY DEF RosterInit
    <3>3. request \in [Admin -> {NoRequest} \cup Importing \cup Dropping \cup RollingBack]
      BY DEF RosterInit
    <3>4. staged \subseteq File /\ left \subseteq FormNumber /\ crossed \in BOOLEAN
      BY DEF RosterInit
    <3>. QED BY <3>1, <3>2, <3>3, <3>4 DEF RosterTypeOK
  <2>2. RequestsChecked /\ NoFileTwice
    BY DEF RosterInit, RequestsChecked, Checked, NoRequest, NoFileTwice, Committed
  <2>. QED BY <2>1, <2>2 DEF RosterInv
<1>2. RosterInv /\ [RosterNext]_rosterVars => RosterInv'
  <2>1. ASSUME RosterInv, UNCHANGED rosterVars PROVE RosterInv'
    BY <2>1 DEF rosterVars, RosterInv, RosterTypeOK, RequestsChecked, Checked, NoFileTwice, Committed
  <2>2. ASSUME RosterInv, NEW a \in Admin, AdminSteps(a) PROVE RosterInv'
    BY <2>2, CommitStep, RollBackStep, AskSteps DEF AdminSteps
  <2>. QED BY <2>1, <2>2, RowSteps DEF RosterNext
<1>. QED BY <1>1, <1>2, PTL DEF RosterSpec

\* The list has the shapes of the schema, and its rows belong to imports there are.
THEOREM RosterTypes == RosterSpec => []RosterTypeOK
BY RosterInvariant, PTL DEF RosterInv

\* Two imports of the same bytes stand only if an admin said so or the first one
\* landed after the second one's check.
THEOREM FilesOnce == RosterSpec => []NoFileTwice
BY RosterInvariant, PTL DEF RosterInv

\* A claimed row is never deleted, rows go only with the rollback of the import
\* that brought them, and no import or rollback touches a claim.
THEOREM ClaimsSurvive == RosterSpec => ClaimsSurviveTheList
<1>. DEFINE Kept ==
       \A f \in FormNumber : rows[f] # Absent =>
         IF rows'[f] = Absent
         THEN ~rows[f].claimed /\ rows[f].by # ByHand /\ imports'[rows[f].by].status = "ROLLED_BACK"
         ELSE /\ rows'[f].by = rows[f].by
              /\ imports' # imports => rows'[f].claimed = rows[f].claimed
<1>1. ASSUME RosterInv, RosterNext PROVE Kept
  <2>1. ASSUME NEW a \in Admin, CommitImport(a) PROVE Kept
    <3>1. \A f \in FormNumber : rows[f] # Absent =>
            /\ rows'[f] # Absent => rows'[f].by = rows[f].by
            /\ rows'[f].claimed = rows[f].claimed /\ rows'[f] \in RosterRow
      BY <1>1, <2>1, CommitFacts
    <3>2. Absent \notin RosterRow
      BY AbsentIsNoRow
    <3>. QED BY <3>1, <3>2
  <2>2. ASSUME NEW a \in Admin, RollBack(a) PROVE Kept
    <3>1. request[a].target \in 1..MaxImport
      BY <1>1, <2>2, RollBackFacts
    <3>2. request[a].target # ByHand
      BY <3>1, RosterBounds DEF ByHand
    <3>3. PICK k \in 1..MaxImport : k = request[a].target
      BY <3>1
    <3>4. /\ imports'[k].status = "ROLLED_BACK"
          /\ \A f \in FormNumber : rows[f] # Absent =>
               \/ rows'[f] = Absent /\ rows[f].by = k /\ ~rows[f].claimed
               \/ /\ rows'[f] \in RosterRow /\ rows'[f].by = rows[f].by
                  /\ rows'[f].claimed = rows[f].claimed
      BY <1>1, <2>2, <3>3, RollBackFacts
    <3>. QED BY <3>2, <3>3, <3>4, AbsentIsNoRow
  <2>3. ASSUME NEW f \in FormNumber, ClaimRow(f) PROVE Kept
    <3>1. rows[f] \in RosterRow /\ imports' = imports
      BY <1>1, <2>3 DEF ClaimRow, RosterInv, RosterTypeOK
    <3>2. [rows[f] EXCEPT !.claimed = ~@] \in RosterRow
          /\ [rows[f] EXCEPT !.claimed = ~@].by = rows[f].by
      BY <3>1 DEF RosterRow
    <3>3. rows' = [rows EXCEPT ![f] = [rows[f] EXCEPT !.claimed = ~@]]
      BY <2>3 DEF ClaimRow
    <3>. QED BY <1>1, <3>1, <3>2, <3>3, AbsentIsNoRow DEF RosterInv, RosterTypeOK
  <2>4. ASSUME NEW f \in FormNumber, NEW v \in Value, AddSingleStudent(f, v) PROVE Kept
    BY <1>1, <2>4 DEF AddSingleStudent, RosterInv, RosterTypeOK
  <2>5. ASSUME rows' = rows /\ imports' = imports PROVE Kept
    BY <2>5
  <2>6. ASSUME NEW a \in Admin,
               \/ \E file \in File, allowed \in BOOLEAN : AskToCommit(a, file, allowed)
               \/ ReadRows(a) \/ DropPreview(a) \/ AbandonRequest(a)
               \/ \E i \in DOMAIN imports : AskToRollBack(a, i)
        PROVE  rows' = rows /\ imports' = imports
    BY <2>6 DEF AskToCommit, ReadRows, DropPreview, AbandonRequest, AskToRollBack
  <2>7. ASSUME NEW file \in File, Preview(file) \/ PreviewExpires(file)
        PROVE  rows' = rows /\ imports' = imports
    BY <2>7 DEF Preview, PreviewExpires
  <2>. HIDE DEF Kept
  <2>. QED BY <1>1, <2>1, <2>2, <2>3, <2>4, <2>5, <2>6, <2>7 DEF RosterNext, AdminSteps
<1>2. RosterInv /\ [RosterNext]_rosterVars => [Kept]_rosterVars
  BY <1>1
<1>. QED BY <1>2, RosterInvariant, PTL DEF RosterSpec, ClaimsSurviveTheList

\* The list says what the imports that stand say, as if those rolled back had never
\* been, but for rows a rollback had to leave and unless writes crossed (commitImport
\* and rollbackImport, whose snapshot is what the imports below it say).
THEOREM ListIsAsIf == RosterSpec => []AsIfNeverImported
<1>1. RosterInit => ListInv
  <2>. SUFFICES ASSUME RosterInit PROVE ListInv
    OBVIOUS
  <2>1. Committed = {}
    BY DEF RosterInit, Committed
  <2>2. AsIfNeverImported
    BY <2>1 DEF RosterInit, AsIfNeverImported, Shown, Standing
  <2>. QED BY <2>1, <2>2 DEF RosterInit, ListInv, LayersFit, RequestsCurrent, Current, NoRequest
<1>2. RosterInv /\ ListInv /\ [RosterNext]_rosterVars => ListInv'
  <2>1. ASSUME RosterInv, ListInv,
               UNCHANGED rosterVars \/ \E file \in File : Preview(file) \/ PreviewExpires(file)
        PROVE  ListInv'
    <3>1. UNCHANGED <<rows, imports, request, byHand, left, crossed>>
      BY <2>1 DEF rosterVars, Preview, PreviewExpires
    <3>2. AsIfNeverImported'
      <4>1. Shown' = Shown /\ \A f : Standing(f)' = Standing(f)
        BY <2>1, <3>1, StandingStays DEF Shown, RosterInv, RosterTypeOK
      <4>. QED BY <2>1, <3>1, <4>1 DEF ListInv, AsIfNeverImported
    <3>3. LayersFit' /\ RequestsCurrent'
      BY <2>1, <3>1 DEF ListInv, LayersFit, Layer, RequestsCurrent, Current, Shown, Committed
    <3>. QED BY <3>2, <3>3 DEF ListInv
  <2>2. ASSUME RosterInv, ListInv, NEW a \in Admin, AdminSteps(a) PROVE ListInv'
    BY <2>2, CommitFits, RollBackFits, AskFits DEF AdminSteps
  <2>3. ASSUME RosterInv, ListInv, NEW f \in FormNumber,
               ClaimRow(f) \/ \E v \in Value : AddSingleStudent(f, v)
        PROVE  ListInv'
    BY <2>3, ClaimFits, AddFits
  <2>. QED BY <2>1, <2>2, <2>3 DEF RosterNext
<1>3. ListInv => AsIfNeverImported
  BY DEF ListInv
<1>. QED BY <1>1, <1>2, <1>3, RosterInvariant, PTL DEF RosterSpec
=============================================================================
