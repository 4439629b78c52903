---------------------------- MODULE PhotosProofs ----------------------------
(***************************************************************************)
(* Proofs about Photos, for any accounts, registrations, photos, requests   *)
(* and runs of the sweep.                                                   *)
(***************************************************************************)
EXTENDS Photos, FiniteSetTheorems, TLAPS

Working(h, i) == op[h].pc # "idle" /\ op[h].reg = i
IsFirst(h) == op[h].pc \in {"try", "commit"} /\ op[h].first = TRUE
Stores(h, i) == op[h].pc = "commit" /\ op[h].reg = i

\* Registrations are numbered as they come ...
NumbersBegun ==
  \A i \in Reg : (row[i] # NULL \/ \E h \in Handler : Working(h, i)) => i <= opened
\* ... and while one is submitted for the first time nobody else is at it.
FirstIsAlone ==
  \A h \in Handler : IsFirst(h) =>
    /\ row[op[h].reg] = NULL
    /\ \A g \in Handler \ {h} : ~Working(g, op[h].reg)

\* A registration whose photo is to be destroyed after it is not there any more.
DeletedAreGone == \A h \in Handler : op[h].pc = "destroy" => row[op[h].reg] = NULL

\* A photo that is stored stays until the transaction that will name it, if there
\* still is a row to name it in.
UploadsAreThere ==
  \A h \in Handler, i \in Reg : Stores(h, i) =>
    /\ op[h].account \in Account
    /\ (i \notin crossed /\ (IsFirst(h) \/ row[i] # NULL)) => asset[op[h].account][i] # NULL

\* A sweep and an upload that are at the same registration have crossed.
MeetingsAreCrossed ==
  \A i \in Reg : (Held(i) /\ \E h \in Handler : Stores(h, i)) => i \in crossed

\* What a run has read of a row still holds, unless the row has been cleared or
\* deleted: it names the photo of this account, and that is past its retention.
DuesHold ==
  \A s \in Run : \A due \in run[s].todo :
    (due.reg \notin crossed /\ HasPhoto(due.reg)) =>
      row[due.reg].account = due.account /\ row[due.reg].photo <= cutoff

\* A row that a run is about to clear names a photo that is gone.
ClearedAreGone ==
  \A s \in Run : run[s].pc = "clear" =>
    /\ run[s].due \in run[s].todo
    /\ (run[s].due.reg \notin crossed /\ HasPhoto(run[s].due.reg)) =>
         asset[row[run[s].due.reg].account][run[s].due.reg] = NULL

PhotosInv ==
  /\ TypeOK /\ NumbersBegun /\ FirstIsAlone /\ DeletedAreGone /\ UploadsAreThere
  /\ MeetingsAreCrossed /\ DuesHold /\ ClearedAreGone /\ PhotoIsThere


\* What the records hold.
LEMMA Shapes ==
  ASSUME TypeOK
  PROVE  /\ \A h \in Handler :
              \/ op[h] = Idle /\ op[h].pc = "idle"
              \/ /\ op[h] \in Upload /\ op[h].pc \in {"try", "commit"} /\ op[h].reg \in Reg
                 /\ op[h].first \in BOOLEAN /\ op[h].photo \in Photo
                 /\ op[h].todo \subseteq DOMAIN Accounts /\ op[h].account \in Account \cup {NULL}
              \/ /\ op[h] \in Purge /\ op[h].pc \in {"delete", "destroy"} /\ op[h].reg \in Reg
                 /\ op[h].account \in Account \cup {NULL}
         /\ \A s \in Run : /\ run[s].todo \subseteq Due
                           /\ run[s].pc \in {"idle", "destroy", "clear"}
                           /\ run[s].pc = "clear" => run[s].due \in Due
         /\ \A due \in Due : due.reg \in Reg /\ due.account \in Account /\ due.photo \in Photo
         /\ \A i \in Reg : \/ row[i] = NULL
                           \/ row[i] = Empty
                           \/ row[i] \in Pointer /\ row[i].account \in Account /\ row[i].photo \in Photo
<1>1. \A h \in Handler : op[h] \in Upload \/ op[h] \in Purge \/ op[h] = Idle
  BY DEF TypeOK
<1>2. \A o \in Upload : /\ o.pc \in {"try", "commit"} /\ o.reg \in Reg /\ o.first \in BOOLEAN /\ o.photo \in Photo
                        /\ o.todo \subseteq DOMAIN Accounts /\ o.account \in Account \cup {NULL}
  BY DEF Upload
<1>3. \A o \in Purge : o.pc \in {"delete", "destroy"} /\ o.reg \in Reg /\ o.account \in Account \cup {NULL}
  BY DEF Purge
<1>4. \A s \in Run : run[s] \in Sweeping
  BY DEF TypeOK
<1>5. \A r \in Sweeping : /\ r.todo \subseteq Due /\ r.pc \in {"idle", "destroy", "clear"}
                          /\ r.pc = "clear" => r.due \in Due
  BY DEF Sweeping
<1>6. \A due \in Due : due.reg \in Reg /\ due.account \in Account /\ due.photo \in Photo
  BY DEF Due
<1>7. \A i \in Reg : row[i] = NULL \/ row[i] = Empty \/ row[i] \in Pointer
  BY DEF TypeOK
<1>8. \A p \in Pointer : p.account \in Account /\ p.photo \in Photo
  BY DEF Pointer
<1>9. Idle.pc = "idle"
  BY DEF Idle
<1>. QED BY <1>1, <1>2, <1>3, <1>4, <1>5, <1>6, <1>7, <1>8, <1>9

LEMMA AccountFacts ==
  /\ 1 \in DOMAIN Accounts /\ \A k \in DOMAIN Accounts : Accounts[k] \in Account
  /\ NULL \notin Account /\ NULL \notin Photo /\ NULL # Empty
BY ThereIsAnAccount, NullIsNothing DEF Account

\* A run never takes up more than it has.
LEMMA DueIsFinite ==
  ASSUME NEW rows \in SUBSET Due
  PROVE  IsFiniteSet(rows)
<1>. DEFINE Parts == Reg \X ((DOMAIN Accounts) \X Photo)
            f == [p \in Parts |-> [reg |-> p[1], account |-> Accounts[p[2][1]], photo |-> p[2][2]]]
<1>1. IsFiniteSet(Reg) /\ IsFiniteSet(Photo)
  BY PhotoBounds, FS_Interval DEF Reg, Photo
<1>2. IsFiniteSet(DOMAIN Accounts)
  <2>1. Len(Accounts) \in Nat /\ DOMAIN Accounts = 1..Len(Accounts)
    BY ThereIsAnAccount
  <2>. QED BY <2>1, FS_Interval
<1>3. IsFiniteSet((DOMAIN Accounts) \X Photo)
  BY <1>1, <1>2, FS_Product
<1>4. IsFiniteSet(Parts)
  BY <1>1, <1>3, FS_Product
<1>5. \A p \in Parts : f[p] \in Due
  BY AccountFacts DEF Due
<1>6. ASSUME NEW due \in Due PROVE \E p \in Parts : f[p] = due
  <2>1. due = [reg |-> due.reg, account |-> due.account, photo |-> due.photo]
        /\ due.reg \in Reg /\ due.account \in Account /\ due.photo \in Photo
    BY DEF Due
  <2>2. PICK k \in DOMAIN Accounts : due.account = Accounts[k]
    BY <2>1 DEF Account
  <2>3. <<due.reg, <<k, due.photo>>>> \in Parts
    BY <2>1, <2>2
  <2>4. f[<<due.reg, <<k, due.photo>>>>] = due
    BY <2>1, <2>2, <2>3
  <2>. QED BY <2>3, <2>4
<1>7. f \in Surjection(Parts, Due)
  BY <1>5, <1>6 DEF Surjection
<1>8. IsFiniteSet(Due)
  BY <1>4, <1>7, FS_Surjection
<1>. QED BY <1>8, FS_Subset

LEMMA DuesAreFew ==
  ASSUME NEW rows \in SUBSET Due, NEW fewer \in SUBSET rows, Cardinality(rows) <= Batch
  PROVE  Cardinality(fewer) <= Batch
<1>1. IsFiniteSet(rows) /\ IsFiniteSet(fewer)
  BY DueIsFinite
<1>2. Cardinality(fewer) <= Cardinality(rows)
  BY <1>1, FS_Subset
<1>3. Cardinality(fewer) \in Nat /\ Cardinality(rows) \in Nat /\ Batch \in Nat
  BY <1>1, FS_CardinalityType, PhotoBounds
<1>. QED BY <1>2, <1>3

-----------------------------------------------------------------------------
(* Requests.                                                                *)

\* The others go on.
Others(h) == \A g \in Handler \ {h} : op'[g] = op[g]

LEMMA SubmitStep ==
  ASSUME PhotosInv, NEW h \in Handler, Submit(h)
  PROVE  PhotosInv'
<1>. USE DEF PhotosInv
<1>1. /\ op[h].pc = "idle" /\ Others(h)
      /\ op'[h] = NewUpload(opened + 1, TRUE) /\ opened \in Nat /\ opened' = opened + 1 /\ opened + 1 \in Reg
      /\ UNCHANGED <<row, asset, run, cutoff, crossed, overwritten>>
  BY PhotoBounds DEF TypeOK, Submit, Reg, Others, Idle
<1>2. op'[h].pc = "try" /\ op'[h].reg = opened + 1 /\ op'[h].first = TRUE
  BY <1>1 DEF NewUpload
<1>3. TypeOK'
  <2>1. NewUpload(opened + 1, TRUE) \in Upload
    BY <1>1, AccountFacts, PhotoBounds DEF Submit, NewUpload, Resolved, Upload, TypeOK, Photo
  <2>2. op' \in [Handler -> Upload \cup Purge \cup {Idle}]
    BY <2>1 DEF Submit, TypeOK
  <2>3. cutoff' \in 0..taken' /\ taken' \in 0..MaxPhoto /\ opened' \in 0..MaxReg
    BY PhotoBounds DEF Submit, TypeOK
  <2>. QED BY <2>2, <2>3 DEF Submit, TypeOK
<1>4. NumbersBegun'
  <2>1. \A i \in Reg, g \in Handler : Working(g, i)' => Working(g, i) \/ i = opened + 1
    BY <1>1, <1>2 DEF Working, Others
  <2>2. \A i \in Reg : i \in Nat
    BY PhotoBounds DEF Reg
  <2>. QED BY <1>1, <2>1, <2>2 DEF NumbersBegun
<1>5. FirstIsAlone'
  <2>1. row[opened + 1] = NULL /\ \A g \in Handler : ~Working(g, opened + 1)
    BY <1>1 DEF NumbersBegun
  <2>2. \A g \in Handler \ {h} : op'[g] = op[g] /\ (op[g].pc = "idle" \/ op[g].reg # opened + 1)
    BY <1>1, <2>1 DEF Others, Working
  <2>. SUFFICES ASSUME NEW g \in Handler, IsFirst(g)'
                PROVE  /\ row'[op'[g].reg] = NULL
                       /\ \A e \in Handler \ {g} : ~Working(e, op[g].reg)'
    BY <1>1 DEF FirstIsAlone
  <2>3. CASE g = h
    BY <1>1, <1>2, <2>1, <2>2, <2>3 DEF Working
  <2>4. CASE g # h
    <3>1. op'[g] = op[g] /\ op[g].reg # opened + 1 /\ IsFirst(g)
      BY <2>2, <2>4 DEF IsFirst
    <3>2. row[op[g].reg] = NULL /\ \A e \in Handler \ {g} : ~Working(e, op[g].reg)
      BY <3>1 DEF FirstIsAlone
    <3>. QED BY <1>1, <1>2, <2>2, <3>1, <3>2 DEF Working
  <2>. QED BY <2>3, <2>4
<1>6. DeletedAreGone'
  BY <1>1, <1>2 DEF DeletedAreGone, Others
<1>7. UploadsAreThere'
  BY <1>1, <1>2 DEF UploadsAreThere, IsFirst, Stores, Others
<1>8. MeetingsAreCrossed'
  BY <1>1, <1>2 DEF MeetingsAreCrossed, Stores, Held, Others
<1>9. DuesHold' /\ ClearedAreGone' /\ PhotoIsThere'
  BY <1>1 DEF DuesHold, ClearedAreGone, PhotoIsThere, HasPhoto
<1>. QED BY <1>3, <1>4, <1>5, <1>6, <1>7, <1>8, <1>9

LEMMA RetakeStep ==
  ASSUME PhotosInv, NEW h \in Handler, NEW i \in Reg, Retake(h, i)
  PROVE  PhotosInv'
<1>. USE DEF PhotosInv
<1>1. /\ op[h].pc = "idle" /\ row[i] # NULL /\ Others(h)
      /\ op'[h] = NewUpload(i, FALSE)
      /\ UNCHANGED <<row, asset, run, cutoff, opened, crossed, overwritten>>
  BY DEF TypeOK, Retake, Others, Idle
<1>2. op'[h].pc = "try" /\ op'[h].reg = i /\ op'[h].first = FALSE
  BY <1>1 DEF NewUpload
<1>3. TypeOK'
  <2>1. NewUpload(i, FALSE) \in Upload
    BY <1>1, AccountFacts, PhotoBounds DEF Retake, NewUpload, Resolved, Upload, TypeOK, Photo
  <2>2. op' \in [Handler -> Upload \cup Purge \cup {Idle}]
    BY <2>1 DEF Retake, TypeOK
  <2>3. cutoff' \in 0..taken' /\ taken' \in 0..MaxPhoto /\ opened' \in 0..MaxReg
    BY PhotoBounds DEF Retake, TypeOK
  <2>. QED BY <2>2, <2>3 DEF Retake, TypeOK
<1>4. NumbersBegun'
  BY <1>1, <1>2 DEF NumbersBegun, Working, Others
<1>5. FirstIsAlone'
  <2>1. ~IsFirst(h)'
    BY <1>2 DEF IsFirst
  <2>2. \A g \in Handler \ {h} : op'[g] = op[g] /\ (IsFirst(g) => op[g].reg # i)
    BY <1>1 DEF FirstIsAlone, Others
  <2>. SUFFICES ASSUME NEW g \in Handler, IsFirst(g)'
                PROVE  /\ row'[op'[g].reg] = NULL
                       /\ \A e \in Handler \ {g} : ~Working(e, op[g].reg)'
    BY <1>1 DEF FirstIsAlone
  <2>3. op'[g] = op[g] /\ op[g].reg # i /\ IsFirst(g)
    BY <2>1, <2>2 DEF IsFirst
  <2>4. row[op[g].reg] = NULL /\ \A e \in Handler \ {g} : ~Working(e, op[g].reg)
    BY <2>3 DEF FirstIsAlone
  <2>. QED BY <1>1, <1>2, <2>2, <2>3, <2>4 DEF Working
<1>6. DeletedAreGone' /\ UploadsAreThere' /\ MeetingsAreCrossed'
  BY <1>1, <1>2 DEF DeletedAreGone, UploadsAreThere, IsFirst, MeetingsAreCrossed, Stores, Held, Others
<1>7. DuesHold' /\ ClearedAreGone' /\ PhotoIsThere'
  BY <1>1 DEF DuesHold, ClearedAreGone, PhotoIsThere, HasPhoto
<1>. QED BY <1>3, <1>4, <1>5, <1>6, <1>7

\* A photo is stored for a request: that place has a photo now, a sweep that is at the
\* registration has crossed it, and what was on record there is overwritten.
StoredFor(h) ==
  /\ \A a \in Account, j \in Reg : asset'[a][j] = asset[a][j] \/ (asset'[a][j] \in Photo /\ j = op[h].reg)
  /\ crossed' = crossed \/ crossed' = crossed \cup {op[h].reg}
  /\ (asset' # asset /\ Held(op[h].reg)) => op[h].reg \in crossed'
  /\ overwritten \subseteq overwritten'
  /\ \A a \in Account : (HasPhoto(op[h].reg) /\ row[op[h].reg].account = a /\ op[h].reg \notin overwritten')
                          => asset'[a][op[h].reg] = asset[a][op[h].reg]

LEMMA StoredPhoto ==
  ASSUME TypeOK, NEW h \in Handler, op[h].pc = "try", NEW a \in Account, asset' = Stored(a, op[h]),
         Cross(op[h].reg), Overwrite(op[h].reg, a)
  PROVE  /\ StoredFor(h) /\ asset'[a][op[h].reg] \in Photo
         /\ asset' \in [Account -> [Reg -> Photo \cup {NULL}]]
         /\ crossed' \subseteq Reg /\ overwritten' \subseteq Reg
<1>1. op[h].reg \in Reg /\ op[h].photo \in Photo
  BY Shapes
<1>2. /\ asset \in [Account -> [Reg -> Photo \cup {NULL}]]
      /\ crossed \subseteq Reg /\ overwritten \subseteq Reg
  BY DEF TypeOK
<1>3. asset' \in [Account -> [Reg -> Photo \cup {NULL}]] /\ asset'[a][op[h].reg] = op[h].photo
  BY <1>1, <1>2 DEF Stored
<1>4. \A b \in Account, j \in Reg : asset'[b][j] = asset[b][j] \/ (asset'[b][j] \in Photo /\ j = op[h].reg)
  BY <1>1, <1>2 DEF Stored
<1>5. \A b \in Account \ {a}, j \in Reg : asset'[b][j] = asset[b][j]
  BY <1>1, <1>2 DEF Stored
<1>6. overwritten \subseteq overwritten' /\ overwritten' \subseteq Reg
  BY <1>1, <1>2 DEF Overwrite
<1>7. ASSUME NEW b \in Account, HasPhoto(op[h].reg), row[op[h].reg].account = b, op[h].reg \notin overwritten'
      PROVE  asset'[b][op[h].reg] = asset[b][op[h].reg]
  BY <1>1, <1>5, <1>7 DEF Overwrite
<1>8. crossed' \subseteq Reg /\ (crossed' = crossed \/ crossed' = crossed \cup {op[h].reg})
      /\ (Held(op[h].reg) => op[h].reg \in crossed')
  BY <1>1, <1>2 DEF Cross
<1>9. asset'[a][op[h].reg] \in Photo
  BY <1>1, <1>3
<1>10. StoredFor(h)
  BY <1>4, <1>6, <1>7, <1>8 DEF StoredFor
<1>. QED BY <1>3, <1>6, <1>8, <1>9, <1>10

\* What such a step leaves alone, or the better for it.
LEMMA StoredKeeps ==
  ASSUME PhotosInv, NEW h \in Handler, op[h].pc = "try", StoredFor(h), Others(h),
         UNCHANGED <<row, run, cutoff, opened>>
  PROVE  DuesHold' /\ ClearedAreGone' /\ PhotoIsThere'
<1>. USE DEF PhotosInv
<1>1. crossed \subseteq crossed' /\ op[h].reg \in Reg /\ NULL \notin Photo
  BY Shapes, AccountFacts DEF StoredFor
<1>2. DuesHold'
  BY <1>1 DEF DuesHold, HasPhoto
<1>3. PhotoIsThere'
  <2>. SUFFICES ASSUME NEW i \in Reg \ crossed', HasPhoto(i), row[i].photo > cutoff
                PROVE  /\ asset'[row[i].account][i] # NULL
                       /\ i \notin overwritten' => asset'[row[i].account][i] = row[i].photo
    BY DEF PhotoIsThere, HasPhoto
  <2>1. /\ row[i].account \in Account /\ asset[row[i].account][i] # NULL
        /\ i \notin overwritten => asset[row[i].account][i] = row[i].photo
    BY <1>1, Shapes DEF PhotoIsThere, HasPhoto
  <2>2. asset'[row[i].account][i] # NULL
    BY <1>1, <2>1 DEF StoredFor
  <2>3. i \notin overwritten' => asset'[row[i].account][i] = asset[row[i].account][i] /\ i \notin overwritten
    BY <1>1, <2>1 DEF StoredFor
  <2>. QED BY <2>1, <2>2, <2>3
<1>4. ClearedAreGone'
  <2>. SUFFICES ASSUME NEW s \in Run, run[s].pc = "clear", run[s].due.reg \notin crossed',
                       HasPhoto(run[s].due.reg)
                PROVE  asset'[row[run[s].due.reg].account][run[s].due.reg] = NULL
    BY <1>1 DEF ClearedAreGone, HasPhoto
  <2>1. run[s].due.reg \in Reg /\ Held(run[s].due.reg) /\ row[run[s].due.reg].account \in Account
    BY Shapes DEF ClearedAreGone, Held, HasPhoto
  <2>. QED BY <1>1, <2>1 DEF ClearedAreGone, StoredFor
<1>. QED BY <1>2, <1>3, <1>4

LEMMA AcceptStep ==
  ASSUME PhotosInv, NEW h \in Handler, Accept(h)
  PROVE  PhotosInv'
<1>. USE DEF PhotosInv
<1>1. PICK k \in op[h].todo :
        /\ op[h].pc = "try" /\ asset' = Stored(Accounts[k], op[h])
        /\ benched' \subseteq benched
        /\ op' = [op EXCEPT ![h].pc = "commit", ![h].account = Accounts[k]]
        /\ Cross(op[h].reg) /\ Overwrite(op[h].reg, Accounts[k])
        /\ UNCHANGED <<row, run, lock, cutoff, taken, opened>>
  BY DEF Accept
<1>2. Accounts[k] \in Account /\ op[h].reg \in Reg
  BY <1>1, Shapes, AccountFacts
<1>3. /\ StoredFor(h) /\ asset'[Accounts[k]][op[h].reg] \in Photo
      /\ asset' \in [Account -> [Reg -> Photo \cup {NULL}]]
      /\ crossed' \subseteq Reg /\ overwritten' \subseteq Reg
  BY <1>1, <1>2, StoredPhoto
<1>4. Others(h)
  BY <1>1 DEF TypeOK, Others
<1>5. /\ op'[h].pc = "commit" /\ op'[h].account = Accounts[k] /\ op'[h].reg = op[h].reg
      /\ op'[h].first = op[h].first /\ op'[h] \in Upload
  <2>1. op[h] \in Upload
    BY <1>1, Shapes
  <2>2. op'[h] = [op[h] EXCEPT !.pc = "commit", !.account = Accounts[k]]
    BY <1>1 DEF TypeOK
  <2>. QED BY <1>2, <2>1, <2>2 DEF Upload
<1>6. TypeOK'
  BY <1>1, <1>3, <1>5 DEF TypeOK
<1>7. op[h].pc = "try" /\ UNCHANGED <<row, run, cutoff, opened>>
  BY <1>1
<1>8. NumbersBegun'
  BY <1>4, <1>5, <1>7 DEF NumbersBegun, Working, Others
<1>9. FirstIsAlone'
  BY <1>4, <1>5, <1>7 DEF FirstIsAlone, IsFirst, Working, Others
<1>10. DeletedAreGone'
  BY <1>4, <1>5, <1>7 DEF DeletedAreGone, Others
<1>11. UploadsAreThere'
  <2>1. NULL \notin Photo
    BY AccountFacts
  <2>2. \A a \in Account, j \in Reg : asset'[a][j] = NULL => asset[a][j] = NULL
    BY <1>3, <2>1 DEF StoredFor
  <2>3. crossed \subseteq crossed'
    BY <1>3 DEF StoredFor
  <2>. QED BY <1>2, <1>3, <1>4, <1>5, <1>7, <2>1, <2>2, <2>3 DEF UploadsAreThere, IsFirst, Stores, Others
<1>12. MeetingsAreCrossed'
  <2>1. \A j \in Reg : Held(j)' = Held(j)
    BY <1>7 DEF Held
  <2>2. crossed \subseteq crossed' /\ (Held(op[h].reg) => op[h].reg \in crossed')
    BY <1>1 DEF Cross
  <2>. QED BY <1>4, <1>5, <2>1, <2>2 DEF MeetingsAreCrossed, Stores, Others
<1>. QED BY <1>3, <1>4, <1>6, <1>7, <1>8, <1>9, <1>10, <1>11, <1>12, StoredKeeps

LEMMA DeclineStep ==
  ASSUME PhotosInv, NEW h \in Handler, Decline(h)
  PROVE  PhotosInv'
<1>. USE DEF PhotosInv
<1>1. PICK k \in op[h].todo, stored \in BOOLEAN :
        /\ op[h].pc = "try" /\ asset' = IF stored THEN Stored(Accounts[k], op[h]) ELSE asset
        /\ IF stored THEN Cross(op[h].reg) /\ Overwrite(op[h].reg, Accounts[k])
                     ELSE UNCHANGED <<crossed, overwritten>>
        /\ benched' \subseteq benched \cup {Accounts[k]}
        /\ op' = [op EXCEPT ![h] = IF op[h].todo = {k} THEN Idle
                                   ELSE [op[h] EXCEPT !.todo = @ \ {k}]]
        /\ UNCHANGED <<row, run, lock, cutoff, taken, opened>>
  BY DEF Decline
<1>2. Accounts[k] \in Account /\ op[h].reg \in Reg /\ op[h] \in Upload
  BY <1>1, Shapes, AccountFacts
<1>3. /\ StoredFor(h) /\ asset' \in [Account -> [Reg -> Photo \cup {NULL}]]
      /\ crossed' \subseteq Reg /\ overwritten' \subseteq Reg
  <2>1. CASE stored
    BY <1>1, <1>2, <2>1, StoredPhoto
  <2>2. CASE ~stored
    BY <1>1, <2>2 DEF StoredFor, TypeOK
  <2>. QED BY <2>1, <2>2
<1>4. /\ Others(h)
      /\ \/ op'[h] = Idle /\ op'[h].pc = "idle"
         \/ op'[h] \in Upload /\ op'[h].pc = "try" /\ op'[h].reg = op[h].reg /\ op'[h].first = op[h].first
  <2>1. Others(h) /\ op'[h] = IF op[h].todo = {k} THEN Idle ELSE [op[h] EXCEPT !.todo = @ \ {k}]
    BY <1>1 DEF TypeOK, Others
  <2>2. CASE op[h].todo = {k}
    BY <2>1, <2>2 DEF Idle
  <2>3. CASE op[h].todo # {k}
    <3>1. op'[h] = [op[h] EXCEPT !.todo = @ \ {k}]
      BY <2>1, <2>3
    <3>2. op'[h] \in Upload
      BY <1>2, <3>1 DEF Upload
    <3>3. op'[h].pc = op[h].pc /\ op'[h].reg = op[h].reg /\ op'[h].first = op[h].first
      BY <1>2, <3>1 DEF Upload
    <3>. QED BY <1>1, <2>1, <3>2, <3>3
  <2>. QED BY <2>1, <2>2, <2>3
<1>5. TypeOK'
  BY <1>1, <1>2, <1>3, <1>4 DEF TypeOK
<1>6. NumbersBegun' /\ FirstIsAlone' /\ DeletedAreGone'
  BY <1>1, <1>4, Shapes DEF NumbersBegun, FirstIsAlone, IsFirst, DeletedAreGone, Working, Others
<1>7. UploadsAreThere' /\ MeetingsAreCrossed'
  <2>1. NULL \notin Photo /\ crossed \subseteq crossed'
    BY <1>3, AccountFacts DEF StoredFor
  <2>2. UploadsAreThere'
    BY <1>1, <1>2, <1>3, <1>4, <2>1 DEF UploadsAreThere, IsFirst, Stores, Others, StoredFor
  <2>3. MeetingsAreCrossed'
    BY <1>1, <1>4, <2>1 DEF MeetingsAreCrossed, Held, Stores, Others
  <2>. QED BY <2>2, <2>3
<1>. QED BY <1>1, <1>3, <1>4, <1>5, <1>6, <1>7, StoredKeeps

\* The row of a request is created or updated: it names a photo that is there.
LEMMA CommitStep ==
  ASSUME PhotosInv, NEW h \in Handler, Commit(h)
  PROVE  PhotosInv'
<1>. USE DEF PhotosInv
<1>1. /\ op[h].pc = "commit" /\ op[h].reg \in Reg /\ op[h].photo \in Photo /\ op[h].account \in Account
      /\ IsFirst(h) \/ row[op[h].reg] # NULL
  BY Shapes DEF Commit, IsFirst, UploadsAreThere, Stores
<1>2. /\ Others(h) /\ op'[h] = Idle /\ op'[h].pc = "idle" /\ Cross(op[h].reg)
      /\ UNCHANGED <<asset, run, cutoff, opened>>
  BY DEF Commit, TypeOK, Others, Idle
<1>3. /\ \A j \in Reg \ {op[h].reg} : row'[j] = row[j]
      /\ row'[op[h].reg] \in Pointer /\ row'[op[h].reg].account = op[h].account
      /\ row'[op[h].reg].photo = op[h].photo
      /\ op[h].reg \notin overwritten' => asset[op[h].account][op[h].reg] = op[h].photo
      /\ \A j \in Reg \ {op[h].reg} : j \in overwritten' <=> j \in overwritten
  BY <1>1 DEF Commit, TypeOK, Pointer
<1>4. TypeOK'
  <2>1. row' \in [Reg -> Pointer \cup {Empty, NULL}]
    BY <1>1, <1>3 DEF Commit, TypeOK
  <2>2. op' \in [Handler -> Upload \cup Purge \cup {Idle}] /\ crossed' \subseteq Reg
        /\ overwritten' \subseteq Reg
    BY <1>1 DEF Commit, TypeOK, Cross
  <2>. QED BY <2>1, <2>2 DEF Commit, TypeOK
<1>5. crossed \subseteq crossed' /\ (Held(op[h].reg) => op[h].reg \in crossed')
  BY <1>2 DEF Cross
\* Nobody else is at the registration when its row is created.
<1>6. row[op[h].reg] = NULL => \A g \in Handler \ {h} : op[g].pc = "idle" \/ op[g].reg # op[h].reg
  BY <1>1 DEF FirstIsAlone, Working
<1>7. NumbersBegun'
  <2>1. op[h].reg <= opened
    BY <1>1 DEF NumbersBegun, Working
  <2>2. \A i \in Reg, g \in Handler : Working(g, i)' => Working(g, i)
    BY <1>2 DEF Working, Others
  <2>. QED BY <1>2, <1>3, <2>1, <2>2 DEF NumbersBegun
<1>8. FirstIsAlone'
  <2>. SUFFICES ASSUME NEW g \in Handler, IsFirst(g)'
                PROVE  row'[op'[g].reg] = NULL /\ \A e \in Handler \ {g} : ~Working(e, op[g].reg)'
    BY DEF FirstIsAlone
  <2>1. g # h /\ op'[g] = op[g] /\ IsFirst(g) /\ op[g].reg \in Reg
    BY <1>2, Shapes DEF IsFirst, Others
  <2>2. row[op[g].reg] = NULL /\ \A e \in Handler \ {g} : ~Working(e, op[g].reg)
    BY <2>1 DEF FirstIsAlone
  <2>3. op[h].reg # op[g].reg
    BY <1>1, <2>1, <2>2 DEF Working
  <2>. QED BY <1>2, <1>3, <2>1, <2>2, <2>3 DEF Working, Others
<1>9. DeletedAreGone'
  <2>. SUFFICES ASSUME NEW g \in Handler, op'[g].pc = "destroy" PROVE row'[op'[g].reg] = NULL
    BY DEF DeletedAreGone
  <2>1. g # h /\ op'[g] = op[g] /\ row[op[g].reg] = NULL /\ op[g].reg \in Reg
    BY <1>2, Shapes DEF Others, DeletedAreGone
  <2>2. op[g].reg # op[h].reg
    BY <1>2, <1>6, <2>1
  <2>. QED BY <1>3, <2>1, <2>2
<1>10. UploadsAreThere'
  <2>. SUFFICES ASSUME NEW g \in Handler, NEW i \in Reg, Stores(g, i)'
                PROVE  /\ op'[g].account \in Account
                       /\ (i \notin crossed' /\ (IsFirst(g)' \/ row'[i] # NULL)) => asset[op'[g].account][i] # NULL
    BY <1>2 DEF UploadsAreThere
  <2>1. g # h /\ op'[g] = op[g] /\ Stores(g, i) /\ (IsFirst(g)' => IsFirst(g))
    BY <1>2 DEF Stores, Others, IsFirst
  <2>2. row'[i] # NULL => row[i] # NULL
    BY <1>3, <1>6, <2>1 DEF Stores
  <2>. QED BY <1>5, <2>1, <2>2 DEF UploadsAreThere
<1>11. MeetingsAreCrossed'
  <2>1. \A i \in Reg : Held(i)' = Held(i)
    BY <1>2 DEF Held
  <2>. QED BY <1>2, <1>5, <2>1 DEF MeetingsAreCrossed, Stores, Others
<1>12. ASSUME NEW i \in Reg \ crossed', Held(i) PROVE i \in Reg \ crossed /\ row'[i] = row[i]
  BY <1>3, <1>5, <1>12
<1>13. DuesHold'
  <2>. SUFFICES ASSUME NEW s \in Run, NEW due \in run[s].todo, due.reg \notin crossed', HasPhoto(due.reg)'
                PROVE  row'[due.reg].account = due.account /\ row'[due.reg].photo <= cutoff
    BY <1>2 DEF DuesHold
  <2>1. due.reg \in Reg /\ Held(due.reg)
    BY Shapes DEF Held
  <2>. QED BY <1>12, <2>1 DEF DuesHold, HasPhoto
<1>14. ClearedAreGone'
  <2>. SUFFICES ASSUME NEW s \in Run, run[s].pc = "clear"
                PROVE  /\ run[s].due \in run[s].todo
                       /\ (run[s].due.reg \notin crossed' /\ HasPhoto(run[s].due.reg)') =>
                            asset[row'[run[s].due.reg].account][run[s].due.reg] = NULL
    BY <1>2 DEF ClearedAreGone, HasPhoto
  <2>1. run[s].due \in run[s].todo /\ run[s].due.reg \in Reg /\ Held(run[s].due.reg)
    BY Shapes DEF Held, ClearedAreGone
  <2>. QED BY <1>2, <1>12, <2>1 DEF ClearedAreGone, HasPhoto
<1>15. PhotoIsThere'
  <2>. SUFFICES ASSUME NEW i \in Reg \ crossed', HasPhoto(i)', row'[i].photo > cutoff
                PROVE  /\ asset[row'[i].account][i] # NULL
                       /\ i \notin overwritten' => asset[row'[i].account][i] = row'[i].photo
    BY <1>2 DEF PhotoIsThere
  <2>1. CASE i = op[h].reg
    BY <1>1, <1>3, <1>5, <2>1 DEF UploadsAreThere, Stores
  <2>2. CASE i # op[h].reg
    BY <1>3, <1>5, <2>2 DEF PhotoIsThere, HasPhoto
  <2>. QED BY <2>1, <2>2
<1>. QED BY <1>4, <1>7, <1>8, <1>9, <1>10, <1>11, <1>13, <1>14, <1>15

LEMMA AbandonStep ==
  ASSUME PhotosInv, NEW h \in Handler, Abandon(h)
  PROVE  PhotosInv'
<1>. USE DEF PhotosInv
<1>1. /\ op'[h] = Idle /\ op'[h].pc = "idle" /\ Others(h)
      /\ UNCHANGED <<row, asset, run, cutoff, opened, crossed, overwritten>>
  BY DEF Abandon, TypeOK, Others, Idle
<1>2. TypeOK'
  BY DEF Abandon, TypeOK
<1>3. NumbersBegun'
  BY <1>1 DEF NumbersBegun, Working, Others
<1>4. FirstIsAlone'
  BY <1>1 DEF FirstIsAlone, IsFirst, Working, Others
<1>5. DeletedAreGone'
  BY <1>1 DEF DeletedAreGone, Others
<1>6. UploadsAreThere'
  BY <1>1 DEF UploadsAreThere, IsFirst, Stores, Others
<1>7. MeetingsAreCrossed'
  BY <1>1 DEF MeetingsAreCrossed, Held, Stores, Others
<1>8. DuesHold' /\ ClearedAreGone' /\ PhotoIsThere'
  BY <1>1 DEF DuesHold, ClearedAreGone, PhotoIsThere, HasPhoto
<1>. QED BY <1>2, <1>3, <1>4, <1>5, <1>6, <1>7, <1>8

LEMMA OpenDeleteStep ==
  ASSUME PhotosInv, NEW h \in Handler, NEW i \in Reg, OpenDelete(h, i)
  PROVE  PhotosInv'
<1>. USE DEF PhotosInv
<1>1. /\ op[h].pc = "idle" /\ row[i] # NULL /\ Others(h)
      /\ op'[h] = [pc |-> "delete", reg |-> i, account |-> row[i].account]
      /\ UNCHANGED <<row, asset, run, cutoff, opened, crossed, overwritten>>
  BY DEF OpenDelete, TypeOK, Others, Idle
<1>2. op'[h].pc = "delete" /\ op'[h].reg = i
  BY <1>1
<1>3. TypeOK'
  <2>1. row[i].account \in Account \cup {NULL}
    BY <1>1, Shapes DEF Empty
  <2>2. op'[h] \in Purge
    BY <1>1, <2>1 DEF Purge
  <2>. QED BY <2>2 DEF OpenDelete, TypeOK
<1>4. NumbersBegun'
  BY <1>1, <1>2 DEF NumbersBegun, Working, Others
<1>5. FirstIsAlone'
  <2>1. ~IsFirst(h)'
    BY <1>2 DEF IsFirst
  <2>2. \A g \in Handler \ {h} : op'[g] = op[g] /\ (IsFirst(g) => op[g].reg # i)
    BY <1>1 DEF FirstIsAlone, Others
  <2>. SUFFICES ASSUME NEW g \in Handler, IsFirst(g)'
                PROVE  /\ row'[op'[g].reg] = NULL
                       /\ \A e \in Handler \ {g} : ~Working(e, op[g].reg)'
    BY <1>1 DEF FirstIsAlone
  <2>3. op'[g] = op[g] /\ op[g].reg # i /\ IsFirst(g)
    BY <2>1, <2>2 DEF IsFirst
  <2>4. row[op[g].reg] = NULL /\ \A e \in Handler \ {g} : ~Working(e, op[g].reg)
    BY <2>3 DEF FirstIsAlone
  <2>. QED BY <1>1, <1>2, <2>2, <2>3, <2>4 DEF Working
<1>6. DeletedAreGone' /\ UploadsAreThere' /\ MeetingsAreCrossed'
  BY <1>1, <1>2 DEF DeletedAreGone, UploadsAreThere, IsFirst, MeetingsAreCrossed, Stores, Held, Others
<1>7. DuesHold' /\ ClearedAreGone' /\ PhotoIsThere'
  BY <1>1 DEF DuesHold, ClearedAreGone, PhotoIsThere, HasPhoto
<1>. QED BY <1>3, <1>4, <1>5, <1>6, <1>7

LEMMA DeleteRowStep ==
  ASSUME PhotosInv, NEW h \in Handler, DeleteRow(h)
  PROVE  PhotosInv'
<1>. USE DEF PhotosInv
<1>1. op[h].pc = "delete" /\ op[h].reg \in Reg /\ row[op[h].reg] # NULL /\ op[h] \in Purge
  BY Shapes DEF DeleteRow
<1>2. /\ Others(h) /\ UNCHANGED <<asset, run, cutoff, opened, crossed, overwritten>>
      /\ \A j \in Reg : row'[j] = IF j = op[h].reg THEN NULL ELSE row[j]
  BY <1>1 DEF DeleteRow, TypeOK, Others
<1>3. \/ op'[h] = Idle /\ op'[h].pc = "idle"
      \/ op'[h] \in Purge /\ op'[h].pc = "destroy" /\ op'[h].reg = op[h].reg
  <2>1. op'[h] = IF op[h].account = NULL THEN Idle ELSE [op[h] EXCEPT !.pc = "destroy"]
    BY DEF DeleteRow, TypeOK
  <2>2. CASE op[h].account = NULL
    BY <2>1, <2>2 DEF Idle
  <2>3. CASE op[h].account # NULL
    <3>1. op'[h] = [op[h] EXCEPT !.pc = "destroy"]
      BY <2>1, <2>3
    <3>. QED BY <1>1, <3>1 DEF Purge
  <2>. QED BY <2>2, <2>3
<1>4. TypeOK'
  <2>1. row' \in [Reg -> Pointer \cup {Empty, NULL}]
    BY <1>1 DEF DeleteRow, TypeOK
  <2>2. op' \in [Handler -> Upload \cup Purge \cup {Idle}]
    BY <1>3 DEF DeleteRow, TypeOK
  <2>. QED BY <2>1, <2>2 DEF DeleteRow, TypeOK
<1>5. NumbersBegun'
  BY <1>1, <1>2, <1>3 DEF NumbersBegun, Working, Others
<1>6. FirstIsAlone'
  <2>. SUFFICES ASSUME NEW g \in Handler, IsFirst(g)'
                PROVE  row'[op'[g].reg] = NULL /\ \A e \in Handler \ {g} : ~Working(e, op[g].reg)'
    BY DEF FirstIsAlone
  <2>1. g # h /\ op'[g] = op[g] /\ IsFirst(g) /\ op[g].reg \in Reg
    BY <1>2, <1>3, Shapes DEF IsFirst, Others
  <2>2. row[op[g].reg] = NULL /\ \A e \in Handler \ {g} : ~Working(e, op[g].reg)
    BY <2>1 DEF FirstIsAlone
  <2>. QED BY <1>1, <1>2, <1>3, <2>1, <2>2 DEF Working, Others
<1>7. DeletedAreGone'
  BY <1>1, <1>2, <1>3, Shapes DEF DeletedAreGone, Others
<1>8. UploadsAreThere'
  BY <1>1, <1>2, <1>3 DEF UploadsAreThere, IsFirst, Stores, Others
<1>9. MeetingsAreCrossed'
  <2>1. \A i \in Reg : Held(i)' = Held(i)
    BY <1>2 DEF Held
  <2>. QED BY <1>2, <1>3, <2>1 DEF MeetingsAreCrossed, Stores, Others
<1>10. \A i \in Reg : HasPhoto(i)' => HasPhoto(i) /\ row'[i] = row[i]
  BY <1>2 DEF HasPhoto
<1>11. DuesHold' /\ PhotoIsThere'
  BY <1>2, <1>10, Shapes DEF DuesHold, PhotoIsThere
<1>12. ClearedAreGone'
  <2>. SUFFICES ASSUME NEW s \in Run, run[s].pc = "clear"
                PROVE  /\ run[s].due \in run[s].todo
                       /\ (run[s].due.reg \notin crossed /\ HasPhoto(run[s].due.reg)') =>
                            asset[row'[run[s].due.reg].account][run[s].due.reg] = NULL
    BY <1>2 DEF ClearedAreGone, HasPhoto
  <2>1. run[s].due \in run[s].todo /\ run[s].due.reg \in Reg
    BY Shapes DEF ClearedAreGone
  <2>. QED BY <1>2, <1>10, <2>1 DEF ClearedAreGone
<1>. QED BY <1>4, <1>5, <1>6, <1>7, <1>8, <1>9, <1>11, <1>12

LEMMA DestroyDeletedStep ==
  ASSUME PhotosInv, NEW h \in Handler, DestroyDeleted(h)
  PROVE  PhotosInv'
<1>. USE DEF PhotosInv
<1>1. /\ op[h].pc = "destroy" /\ op[h].reg \in Reg /\ row[op[h].reg] = NULL
      /\ op'[h] = Idle /\ op'[h].pc = "idle" /\ Others(h)
      /\ UNCHANGED <<row, run, cutoff, opened, crossed, overwritten>>
  BY Shapes DEF DestroyDeleted, TypeOK, Others, Idle, DeletedAreGone
<1>2. /\ asset' \in [Account -> [Reg -> Photo \cup {NULL}]]
      /\ \A a \in Account, j \in Reg : asset'[a][j] = asset[a][j] \/ (asset'[a][j] = NULL /\ j = op[h].reg)
  BY <1>1 DEF DestroyDeleted, TypeOK
<1>3. TypeOK'
  BY <1>2 DEF DestroyDeleted, TypeOK
<1>4. NumbersBegun'
  BY <1>1 DEF NumbersBegun, Working, Others
<1>5. FirstIsAlone'
  BY <1>1 DEF FirstIsAlone, IsFirst, Working, Others
<1>6. DeletedAreGone'
  BY <1>1 DEF DeletedAreGone, Others
<1>7. UploadsAreThere'
  <2>. SUFFICES ASSUME NEW g \in Handler, NEW i \in Reg, Stores(g, i)'
                PROVE  /\ op'[g].account \in Account
                       /\ (i \notin crossed /\ (IsFirst(g)' \/ row[i] # NULL)) => asset'[op'[g].account][i] # NULL
    BY <1>1 DEF UploadsAreThere
  <2>1. g # h /\ op'[g] = op[g] /\ Stores(g, i) /\ (IsFirst(g)' => IsFirst(g))
    BY <1>1 DEF Stores, Others, IsFirst
  <2>2. (IsFirst(g) \/ row[i] # NULL) => i # op[h].reg
    BY <1>1, <2>1 DEF FirstIsAlone, Stores, Working
  <2>. QED BY <1>2, <2>1, <2>2 DEF UploadsAreThere
<1>8. MeetingsAreCrossed'
  BY <1>1 DEF MeetingsAreCrossed, Held, Stores, Others
<1>9. DuesHold'
  BY <1>1 DEF DuesHold, HasPhoto
<1>10. ClearedAreGone'
  <2>. SUFFICES ASSUME NEW s \in Run, run[s].pc = "clear"
                PROVE  /\ run[s].due \in run[s].todo
                       /\ (run[s].due.reg \notin crossed /\ HasPhoto(run[s].due.reg)) =>
                            asset'[row[run[s].due.reg].account][run[s].due.reg] = NULL
    BY <1>1 DEF ClearedAreGone, HasPhoto
  <2>1. run[s].due \in run[s].todo /\ run[s].due.reg \in Reg
    BY Shapes DEF ClearedAreGone
  <2>. QED BY <1>2, <2>1, Shapes DEF ClearedAreGone, HasPhoto
<1>11. PhotoIsThere'
  BY <1>1, <1>2, Shapes DEF PhotoIsThere, HasPhoto
<1>. QED BY <1>3, <1>4, <1>5, <1>6, <1>7, <1>8, <1>9, <1>10, <1>11

-----------------------------------------------------------------------------
(* The sweep and the clock.                                                 *)

\* A run takes no more rows up than it has.
OnlyFewer(s) ==
  /\ \A t \in Run \ {s} : run'[t] = run[t]
  /\ run'[s].todo \subseteq run[s].todo

LEMMA BeginsStep ==
  ASSUME PhotosInv, NEW s \in Run, Begins(s), lock' \in {lock, s}
  PROVE  PhotosInv'
<1>. USE DEF PhotosInv
<1>1. PICK rows \in SUBSET DueRows :
        /\ Cardinality(rows) <= Batch
        /\ run' = [run EXCEPT ![s] = [pc |-> "destroy", todo |-> rows]]
        /\ crossed' = crossed \cup {due.reg : due \in {due \in rows : Uploading(due.reg)}}
        /\ UNCHANGED <<row, asset, benched, op, cutoff, taken, opened, overwritten>>
  BY DEF Begins, Taken
<1>2. /\ \A t \in Run \ {s} : run'[t] = run[t]
      /\ run'[s] = [pc |-> "destroy", todo |-> rows] /\ run'[s].pc = "destroy" /\ run'[s].todo = rows
  BY <1>1 DEF TypeOK
\* The rows are read with the photo they name.
<1>3. \A due \in rows : /\ due \in Due /\ due.reg \in Reg /\ HasPhoto(due.reg)
                        /\ row[due.reg].account = due.account /\ row[due.reg].photo <= cutoff
  <2>. SUFFICES ASSUME NEW i \in Reg, HasPhoto(i), PastRetention(row[i].photo)
                PROVE  [reg |-> i, account |-> row[i].account, photo |-> row[i].photo] \in Due
                       /\ row[i].photo <= cutoff
    BY DEF DueRows
  <2>1. row[i].account \in Account /\ row[i].photo \in Photo
    BY Shapes DEF HasPhoto
  <2>. QED BY <2>1 DEF Due, PastRetention
<1>4. crossed \subseteq crossed' /\ crossed' \subseteq Reg
  BY <1>1, <1>3 DEF TypeOK
<1>5. TypeOK'
  <2>1. [pc |-> "destroy", todo |-> rows] \in Sweeping
    BY <1>3 DEF Sweeping
  <2>2. run' \in [Run -> Sweeping]
    BY <1>1, <2>1 DEF TypeOK
  <2>3. \A t \in Run : Cardinality(run'[t].todo) <= Batch
    BY <1>1, <1>2 DEF TypeOK
  <2>. QED BY <1>1, <1>4, <2>2, <2>3 DEF TypeOK
<1>6. NumbersBegun' /\ FirstIsAlone' /\ DeletedAreGone'
  BY <1>1 DEF NumbersBegun, FirstIsAlone, DeletedAreGone, IsFirst, Working
<1>7. UploadsAreThere'
  BY <1>1, <1>4 DEF UploadsAreThere, IsFirst, Stores
<1>8. MeetingsAreCrossed'
  <2>. SUFFICES ASSUME NEW i \in Reg, Held(i)', NEW h \in Handler, Stores(h, i) PROVE i \in crossed'
    BY <1>1 DEF MeetingsAreCrossed, Stores
  <2>1. CASE Held(i)
    BY <1>4, <2>1 DEF MeetingsAreCrossed
  <2>2. CASE ~Held(i)
    <3>1. PICK due \in rows : due.reg = i
      BY <1>2, <2>2 DEF Held
    <3>2. Uploading(i)
      BY DEF Uploading, Stores, Idle
    <3>. QED BY <1>1, <3>1, <3>2
  <2>. QED BY <2>1, <2>2
<1>9. DuesHold'
  BY <1>1, <1>2, <1>3, <1>4 DEF DuesHold, HasPhoto
<1>10. ClearedAreGone'
  BY <1>1, <1>2, <1>4 DEF ClearedAreGone, HasPhoto
<1>11. PhotoIsThere'
  BY <1>1, <1>4 DEF PhotoIsThere, HasPhoto
<1>. QED BY <1>5, <1>6, <1>7, <1>8, <1>9, <1>10, <1>11

\* The photo of a row that a run holds goes, or stays.
GoneFor(s) ==
  \A a \in Account, j \in Reg :
    \/ asset'[a][j] = asset[a][j]
    \/ asset'[a][j] = NULL /\ \E due \in run[s].todo : due.reg = j

LEMMA GoneKeeps ==
  ASSUME PhotosInv, NEW s \in Run, GoneFor(s), OnlyFewer(s),
         UNCHANGED <<row, op, cutoff, opened, crossed, overwritten>>
  PROVE  /\ NumbersBegun' /\ FirstIsAlone' /\ DeletedAreGone' /\ UploadsAreThere'
         /\ MeetingsAreCrossed' /\ DuesHold' /\ PhotoIsThere'
<1>. USE DEF PhotosInv
<1>1. \A a \in Account, j \in Reg : asset'[a][j] = asset[a][j] \/ Held(j)
  BY DEF GoneFor, Held
<1>2. \A j \in Reg \ crossed : (HasPhoto(j) /\ row[j].photo > cutoff) =>
        \A due \in run[s].todo : due.reg # j
  <2>. SUFFICES ASSUME NEW due \in run[s].todo, due.reg \notin crossed, HasPhoto(due.reg),
                       row[due.reg].photo > cutoff
                PROVE  FALSE
    OBVIOUS
  <2>1. due.reg \in Reg /\ cutoff \in Nat
    BY Shapes DEF TypeOK
  <2>2. row[due.reg].photo <= cutoff /\ row[due.reg].photo \in Nat
    BY <2>1, Shapes DEF DuesHold, HasPhoto, Photo
  <2>. QED BY <2>1, <2>2
<1>3. \A t \in Run : run'[t].todo \subseteq run[t].todo
  BY DEF OnlyFewer
<1>4. NumbersBegun' /\ FirstIsAlone' /\ DeletedAreGone'
  BY DEF NumbersBegun, FirstIsAlone, DeletedAreGone, IsFirst, Working
<1>5. UploadsAreThere'
  <2>. SUFFICES ASSUME NEW h \in Handler, NEW i \in Reg, Stores(h, i)
                PROVE  /\ op[h].account \in Account
                       /\ (i \notin crossed /\ (IsFirst(h) \/ row[i] # NULL)) => asset'[op[h].account][i] # NULL
    BY DEF UploadsAreThere, IsFirst, Stores
  <2>1. i \notin crossed => ~Held(i)
    BY DEF MeetingsAreCrossed
  <2>. QED BY <1>1, <2>1 DEF UploadsAreThere
<1>6. MeetingsAreCrossed'
  <2>1. \A i \in Reg : Held(i)' => Held(i)
    BY <1>3 DEF Held
  <2>. QED BY <2>1 DEF MeetingsAreCrossed, Stores
<1>7. DuesHold'
  BY <1>3 DEF DuesHold, HasPhoto
<1>8. PhotoIsThere'
  <2>. SUFFICES ASSUME NEW i \in Reg \ crossed, HasPhoto(i), row[i].photo > cutoff
                PROVE  /\ asset'[row[i].account][i] # NULL
                       /\ i \notin overwritten => asset'[row[i].account][i] = row[i].photo
    BY DEF PhotoIsThere, HasPhoto
  <2>1. row[i].account \in Account
    BY Shapes DEF HasPhoto
  <2>. QED BY <1>2, <2>1 DEF PhotoIsThere, GoneFor
<1>. QED BY <1>4, <1>5, <1>6, <1>7, <1>8

\* What another run is about to clear stays gone.
LEMMA OtherCleared ==
  ASSUME PhotosInv, NEW s \in Run, GoneFor(s), OnlyFewer(s), NEW t \in Run \ {s},
         UNCHANGED <<row, crossed>>, run'[t].pc = "clear"
  PROVE  /\ run'[t].due \in run'[t].todo
         /\ (run'[t].due.reg \notin crossed /\ HasPhoto(run[t].due.reg)) =>
              asset'[row[run'[t].due.reg].account][run'[t].due.reg] = NULL
<1>. USE DEF PhotosInv
<1>1. run'[t] = run[t] /\ run[t].pc = "clear"
  BY DEF OnlyFewer
<1>2. run[t].due \in run[t].todo /\ run[t].due.reg \in Reg
  BY <1>1, Shapes DEF ClearedAreGone
<1>3. HasPhoto(run[t].due.reg) => row[run[t].due.reg].account \in Account
  BY <1>2, Shapes DEF HasPhoto
<1>. QED BY <1>1, <1>2, <1>3 DEF ClearedAreGone, GoneFor

LEMMA RunTypes ==
  ASSUME TypeOK, NEW s \in Run, NEW r \in Sweeping, r.todo \subseteq run[s].todo,
         run' = [run EXCEPT ![s] = r]
  PROVE  /\ run' \in [Run -> Sweeping] /\ \A t \in Run : Cardinality(run'[t].todo) <= Batch
         /\ OnlyFewer(s) /\ run'[s] = r
<1>1. run[s].todo \in SUBSET Due /\ Cardinality(run[s].todo) <= Batch
  BY Shapes DEF TypeOK
<1>2. Cardinality(r.todo) <= Batch
  BY <1>1, DuesAreFew
<1>. QED BY <1>2 DEF TypeOK, OnlyFewer

LEMMA DestroyStep ==
  ASSUME PhotosInv, NEW s \in Run, Destroy(s)
  PROVE  PhotosInv'
<1>. USE DEF PhotosInv
<1>1. PICK due \in run[s].todo :
        asset' = Gone(due) /\ run' = [run EXCEPT ![s] = Clearing(s, due)]
        /\ UNCHANGED <<row, benched, op, lock, cutoff, taken, opened, crossed, overwritten>>
  BY DEF Destroy
<1>2. due \in Due /\ run[s].todo \subseteq Due /\ due.reg \in Reg /\ due.account \in Account
  BY Shapes
<1>3. Clearing(s, due) \in Sweeping /\ Clearing(s, due).todo = run[s].todo
  BY <1>2 DEF Clearing, Sweeping
<1>4. /\ run' \in [Run -> Sweeping] /\ \A t \in Run : Cardinality(run'[t].todo) <= Batch
      /\ OnlyFewer(s) /\ run'[s] = Clearing(s, due)
  BY <1>1, <1>3, RunTypes
<1>5. /\ asset' \in [Account -> [Reg -> Photo \cup {NULL}]] /\ asset'[due.account][due.reg] = NULL
      /\ \A a \in Account, j \in Reg :
           asset'[a][j] = asset[a][j] \/ (asset'[a][j] = NULL /\ a = due.account /\ j = due.reg)
  BY <1>1, <1>2 DEF Gone, TypeOK
<1>6. GoneFor(s)
  BY <1>5 DEF GoneFor
<1>7. TypeOK'
  BY <1>1, <1>4, <1>5 DEF TypeOK
<1>8. ClearedAreGone'
  <2>1. /\ run'[s].due = due /\ due \in run'[s].todo
        /\ (due.reg \notin crossed /\ HasPhoto(due.reg)) => asset'[row[due.reg].account][due.reg] = NULL
    BY <1>3, <1>4, <1>5 DEF Clearing, DuesHold
  <2>2. \A j \in Reg : HasPhoto(j)' = HasPhoto(j)
    BY <1>1 DEF HasPhoto
  <2>. SUFFICES ASSUME NEW t \in Run, run'[t].pc = "clear"
                PROVE  /\ run'[t].due \in run'[t].todo
                       /\ (run'[t].due.reg \notin crossed /\ HasPhoto(run[t].due.reg)') =>
                            asset'[row[run'[t].due.reg].account][run'[t].due.reg] = NULL
    BY <1>1 DEF ClearedAreGone
  <2>3. CASE t = s
    BY <1>1, <1>2, <2>1, <2>3 DEF HasPhoto
  <2>4. CASE t # s
    BY <1>1, <1>4, <1>6, <2>4, OtherCleared DEF HasPhoto, OnlyFewer
  <2>. QED BY <2>3, <2>4
<1>. QED BY <1>1, <1>4, <1>6, <1>7, <1>8, GoneKeeps

\* A step of a run that does not take it to a clearing.
LEMMA NotClearing ==
  ASSUME PhotosInv, NEW s \in Run, NEW r \in Sweeping, r.todo \subseteq run[s].todo, r.pc # "clear",
         run' = [run EXCEPT ![s] = r], GoneFor(s),
         asset' \in [Account -> [Reg -> Photo \cup {NULL}]], lock' \in {lock, NULL},
         UNCHANGED <<row, benched, op, cutoff, taken, opened, crossed, overwritten>>
  PROVE  PhotosInv'
<1>. USE DEF PhotosInv
<1>1. /\ run' \in [Run -> Sweeping] /\ \A t \in Run : Cardinality(run'[t].todo) <= Batch
      /\ OnlyFewer(s) /\ run'[s] = r
  BY RunTypes
<1>2. TypeOK'
  BY <1>1 DEF TypeOK
<1>3. ClearedAreGone'
  <2>. SUFFICES ASSUME NEW t \in Run, run'[t].pc = "clear"
                PROVE  /\ run'[t].due \in run'[t].todo
                       /\ (run'[t].due.reg \notin crossed /\ HasPhoto(run[t].due.reg)') =>
                            asset'[row[run'[t].due.reg].account][run'[t].due.reg] = NULL
    BY DEF ClearedAreGone
  <2>1. t # s
    BY <1>1
  <2>. QED BY <1>1, <2>1, OtherCleared DEF HasPhoto, OnlyFewer
<1>. QED BY <1>1, <1>2, <1>3, GoneKeeps

LEMMA DestroyFailedStep ==
  ASSUME PhotosInv, NEW s \in Run, DestroyFailed(s)
  PROVE  PhotosInv'
<1>. USE DEF PhotosInv
<1>1. PICK due \in run[s].todo :
        (asset' = asset \/ asset' = Gone(due)) /\ run' = [run EXCEPT ![s].todo = @ \ {due}]
        /\ UNCHANGED <<row, benched, op, lock, cutoff, taken, opened, crossed, overwritten>>
  BY DEF DestroyFailed
<1>2. due \in Due /\ run[s].todo \subseteq Due /\ due.reg \in Reg /\ due.account \in Account
  BY Shapes
<1>3. asset' \in [Account -> [Reg -> Photo \cup {NULL}]] /\ GoneFor(s)
  <2>1. CASE asset' = asset
    BY <2>1 DEF TypeOK, GoneFor
  <2>2. CASE asset' = Gone(due)
    <3>1. \A a \in Account, j \in Reg : asset'[a][j] = asset[a][j] \/ (asset'[a][j] = NULL /\ due.reg = j)
      BY <1>2, <2>2 DEF Gone, TypeOK
    <3>2. asset' \in [Account -> [Reg -> Photo \cup {NULL}]]
      BY <1>2, <2>2 DEF Gone, TypeOK
    <3>. QED BY <3>1, <3>2 DEF GoneFor
  <2>. QED BY <1>1, <2>1, <2>2
<1>. DEFINE r == [run[s] EXCEPT !.todo = @ \ {due}]
<1>4. run[s] \in [pc : {"idle", "destroy"}, todo : SUBSET Due]
  BY DEF DestroyFailed, TypeOK, Sweeping
<1>5. r \in Sweeping /\ r.todo \subseteq run[s].todo /\ r.pc # "clear"
  BY <1>4 DEF Sweeping
<1>6. run' = [run EXCEPT ![s] = r]
  BY <1>1 DEF TypeOK
<1>. QED BY <1>1, <1>3, <1>5, <1>6, NotClearing

\* The row is cleared, and the photo it named is gone.
LEMMA ClearRowStep ==
  ASSUME PhotosInv, NEW s \in Run, ClearRow(s)
  PROVE  /\ PhotosInv'
         /\ \A i \in Reg \ crossed :
              (HasPhoto(i) /\ row'[i] = Empty) => asset[row[i].account][i] = NULL
<1>. USE DEF PhotosInv
<1>. DEFINE i == run[s].due.reg
            r == [pc |-> "destroy", todo |-> run[s].todo \ {run[s].due}]
<1>1. /\ run[s].pc = "clear" /\ row[i] # NULL /\ row' = [row EXCEPT ![i] = Empty]
      /\ run' = [run EXCEPT ![s] = r]
      /\ UNCHANGED <<asset, benched, op, lock, cutoff, taken, opened, crossed, overwritten>>
  BY DEF ClearRow, TypeOK
<1>2. run[s].todo \subseteq Due /\ run[s].due \in run[s].todo /\ i \in Reg
  BY <1>1, Shapes DEF ClearedAreGone
<1>3. r \in Sweeping /\ r.todo \subseteq run[s].todo /\ r.pc = "destroy"
  BY <1>2 DEF Sweeping
<1>4. /\ run' \in [Run -> Sweeping] /\ \A t \in Run : Cardinality(run'[t].todo) <= Batch
      /\ OnlyFewer(s) /\ run'[s] = r
  BY <1>1, <1>3, RunTypes
<1>5. \A j \in Reg : row'[j] = IF j = i THEN Empty ELSE row[j]
  BY <1>1, <1>2 DEF TypeOK
<1>6. \A j \in Reg : /\ row'[j] # NULL => row[j] # NULL
                     /\ row[j] = NULL => row'[j] = NULL
                     /\ HasPhoto(j)' => HasPhoto(j) /\ row'[j] = row[j]
  BY <1>1, <1>5 DEF HasPhoto
<1>7. TypeOK'
  <2>1. row' \in [Reg -> Pointer \cup {Empty, NULL}]
    BY <1>1, <1>2 DEF TypeOK
  <2>. QED BY <1>1, <1>4, <2>1 DEF TypeOK
<1>8. \A t \in Run : run'[t].todo \subseteq run[t].todo
  BY <1>3, <1>4 DEF OnlyFewer
<1>9. NumbersBegun'
  BY <1>1, <1>6 DEF NumbersBegun, Working
<1>10. FirstIsAlone'
  BY <1>1, <1>6, Shapes DEF FirstIsAlone, IsFirst, Working
<1>11. DeletedAreGone'
  BY <1>1, <1>6, Shapes DEF DeletedAreGone
<1>12. UploadsAreThere'
  BY <1>1, <1>6 DEF UploadsAreThere, IsFirst, Stores
<1>13. MeetingsAreCrossed'
  <2>1. \A j \in Reg : Held(j)' => Held(j)
    BY <1>8 DEF Held
  <2>. QED BY <1>1, <2>1 DEF MeetingsAreCrossed, Stores
<1>14. DuesHold'
  <2>. SUFFICES ASSUME NEW t \in Run, NEW due \in run'[t].todo, due.reg \notin crossed, HasPhoto(due.reg)'
                PROVE  row'[due.reg].account = due.account /\ row'[due.reg].photo <= cutoff
    BY <1>1 DEF DuesHold
  <2>1. due \in run[t].todo /\ due.reg \in Reg
    BY <1>8, Shapes
  <2>. QED BY <1>6, <2>1 DEF DuesHold
<1>15. ClearedAreGone'
  <2>. SUFFICES ASSUME NEW t \in Run, run'[t].pc = "clear"
                PROVE  /\ run'[t].due \in run'[t].todo
                       /\ (run'[t].due.reg \notin crossed /\ HasPhoto(run[t].due.reg)') =>
                            asset[row'[run'[t].due.reg].account][run'[t].due.reg] = NULL
    BY <1>1 DEF ClearedAreGone
  <2>1. run'[t] = run[t]
    BY <1>3, <1>4 DEF OnlyFewer
  <2>2. run[t].due \in run[t].todo /\ run[t].due.reg \in Reg
    BY <2>1, Shapes DEF ClearedAreGone
  <2>. QED BY <1>6, <2>1, <2>2 DEF ClearedAreGone
<1>16. PhotoIsThere'
  BY <1>1, <1>6 DEF PhotoIsThere
<1>17. \A j \in Reg \ crossed : (HasPhoto(j) /\ row'[j] = Empty) => asset[row[j].account][j] = NULL
  BY <1>1, <1>2, <1>5 DEF ClearedAreGone, HasPhoto
<1>. QED BY <1>7, <1>9, <1>10, <1>11, <1>12, <1>13, <1>14, <1>15, <1>16, <1>17

LEMMA RunEnds ==
  ASSUME PhotosInv, NEW s \in Run, EndSweep(s) \/ CrashSweep(s)
  PROVE  PhotosInv'
<1>1. NotRunning \in Sweeping /\ NotRunning.todo \subseteq run[s].todo /\ NotRunning.pc # "clear"
  BY DEF NotRunning, Sweeping
<1>2. /\ run' = [run EXCEPT ![s] = NotRunning] /\ lock' \in {lock, NULL}
      /\ UNCHANGED <<row, asset, benched, op, cutoff, taken, opened, crossed, overwritten>>
  BY DEF EndSweep, CrashSweep
<1>3. GoneFor(s) /\ asset' \in [Account -> [Reg -> Photo \cup {NULL}]]
  BY <1>2 DEF GoneFor, PhotosInv, TypeOK
<1>. QED BY <1>1, <1>2, <1>3, NotClearing

\* What happens to accounts and to the lock is nothing to the photos.
LEMMA AsideStep ==
  ASSUME PhotosInv, (\E a \in Account : Unbench(a)) \/ ExpireLock \/ UNCHANGED vars
  PROVE  PhotosInv'
<1>. USE DEF PhotosInv
<1>1. UNCHANGED <<row, asset, op, run, cutoff, taken, opened, crossed, overwritten>>
  BY DEF Unbench, ExpireLock, vars
<1>2. benched' \subseteq benched /\ lock' \in {lock, NULL}
  BY DEF Unbench, ExpireLock, vars
<1>3. TypeOK'
  BY <1>1, <1>2 DEF TypeOK
<1>4. NumbersBegun' /\ FirstIsAlone' /\ DeletedAreGone'
  BY <1>1 DEF NumbersBegun, FirstIsAlone, DeletedAreGone, IsFirst, Working
<1>5. UploadsAreThere' /\ MeetingsAreCrossed'
  BY <1>1 DEF UploadsAreThere, MeetingsAreCrossed, IsFirst, Stores, Held
<1>6. DuesHold' /\ ClearedAreGone' /\ PhotoIsThere'
  BY <1>1 DEF DuesHold, ClearedAreGone, PhotoIsThere, HasPhoto
<1>. QED BY <1>3, <1>4, <1>5, <1>6

\* A photo whose retention is over is owed nothing more.
LEMMA AgeStep ==
  ASSUME PhotosInv, Age
  PROVE  PhotosInv'
<1>. USE DEF PhotosInv
<1>1. /\ cutoff \in Nat /\ cutoff' = cutoff + 1 /\ cutoff < taken /\ taken \in Nat
      /\ UNCHANGED <<row, asset, benched, op, run, lock, taken, opened, crossed, overwritten>>
  BY DEF Age, TypeOK
<1>2. \A i \in Reg : HasPhoto(i) => row[i].photo \in Nat
  BY Shapes DEF HasPhoto, Photo
<1>3. \A i \in Reg : HasPhoto(i)' = HasPhoto(i)
  BY <1>1 DEF HasPhoto
<1>4. TypeOK'
  BY <1>1 DEF TypeOK
<1>5. NumbersBegun' /\ FirstIsAlone' /\ DeletedAreGone'
  BY <1>1 DEF NumbersBegun, FirstIsAlone, DeletedAreGone, IsFirst, Working
<1>6. UploadsAreThere' /\ MeetingsAreCrossed'
  BY <1>1 DEF UploadsAreThere, MeetingsAreCrossed, IsFirst, Stores, Held
<1>7. DuesHold'
  BY <1>1, <1>2, <1>3, Shapes DEF DuesHold
<1>8. ClearedAreGone'
  BY <1>1 DEF ClearedAreGone, HasPhoto
<1>9. PhotoIsThere'
  BY <1>1, <1>2, <1>3 DEF PhotoIsThere
<1>. QED BY <1>4, <1>5, <1>6, <1>7, <1>8, <1>9

-----------------------------------------------------------------------------
(* Theorems.                                                                *)

LEMMA PhotosInit == Init => PhotosInv
<1>. SUFFICES ASSUME Init PROVE PhotosInv
  OBVIOUS
<1>1. /\ \A i \in Reg : row[i] = NULL
      /\ \A h \in Handler : op[h] = Idle /\ op[h].pc = "idle"
      /\ \A s \in Run : run[s] = NotRunning /\ run[s].pc = "idle" /\ run[s].todo = {}
  BY DEF Init, Idle, NotRunning
<1>2. TypeOK
  <2>1. NotRunning \in Sweeping
    BY DEF NotRunning, Sweeping
  <2>2. Cardinality({}) = 0 /\ Batch \in Nat
    BY FS_EmptySet, PhotoBounds
  <2>. QED BY <1>1, <2>1, <2>2, PhotoBounds DEF Init, TypeOK
<1>3. NumbersBegun /\ FirstIsAlone /\ DeletedAreGone
  BY <1>1 DEF NumbersBegun, FirstIsAlone, DeletedAreGone, IsFirst, Working
<1>4. UploadsAreThere /\ MeetingsAreCrossed
  BY <1>1 DEF UploadsAreThere, MeetingsAreCrossed, IsFirst, Stores, Held
<1>5. DuesHold /\ ClearedAreGone /\ PhotoIsThere
  BY <1>1 DEF DuesHold, ClearedAreGone, PhotoIsThere, HasPhoto
<1>. QED BY <1>2, <1>3, <1>4, <1>5 DEF PhotosInv

LEMMA PhotosNext ==
  ASSUME PhotosInv, [Next]_vars
  PROVE  PhotosInv'
<1>1. ASSUME NEW h \in Handler, Serve(h) PROVE PhotosInv'
  BY <1>1, SubmitStep, RetakeStep, AcceptStep, DeclineStep, CommitStep, AbandonStep,
     OpenDeleteStep, DeleteRowStep, DestroyDeletedStep DEF Serve
<1>2. ASSUME NEW s \in Run, Sweep(s) \/ StartUnlocked(s) \/ CrashSweep(s) PROVE PhotosInv'
  <2>1. ASSUME StartSweep(s) \/ StartUnlocked(s) PROVE PhotosInv'
    <3>1. Begins(s) /\ lock' \in {lock, s}
      BY <2>1 DEF StartSweep, StartUnlocked
    <3>. QED BY <3>1, BeginsStep
  <2>. QED BY <1>2, <2>1, DestroyStep, DestroyFailedStep, ClearRowStep, RunEnds DEF Sweep
<1>. QED BY <1>1, <1>2, AsideStep, AgeStep DEF Next

\* Whatever requests, runs of the sweep, failures and crashes interleave, the columns,
\* the provider and the requests keep their shapes, and photos are where they are said
\* to be.
THEOREM PhotosInvariant == Spec => []PhotosInv
BY PhotosInit, PhotosNext, PTL DEF Spec

\* The columns, the accounts, the requests and the runs keep their shapes, and a run
\* never has more rows than its batch.
THEOREM PhotosTypes == Spec => []TypeOK
<1>1. PhotosInv => TypeOK
  BY DEF PhotosInv
<1>. QED BY <1>1, PhotosInvariant, PTL

\* A photo that is on record and not past its retention can be shown, for any number of
\* accounts, students, requests and runs at a time.
THEOREM PhotosAreThere == Spec => []PhotoIsThere
<1>1. PhotosInv => PhotoIsThere
  BY DEF PhotosInv
<1>. QED BY <1>1, PhotosInvariant, PTL

\* Nothing but the sweep empties a row, and only of a photo that is gone.
THEOREM SweepsOrphanNothing == Spec => SweepOrphansNothing
<1>. DEFINE Clears == \A i \in Reg \ crossed :
                        (HasPhoto(i) /\ row'[i] = Empty) => asset[row[i].account][i] = NULL
<1>1. ASSUME PhotosInv, [Next]_vars PROVE [Clears]_vars
  <2>1. ASSUME NEW s \in Run, ClearRow(s) PROVE Clears
    BY <1>1, <2>1, ClearRowStep
  <2>2. ASSUME NEW h \in Handler, Commit(h) PROVE Clears
    <3>1. op[h].reg \in Reg /\ op[h].account \in Account
      BY <1>1, <2>2, Shapes DEF PhotosInv, UploadsAreThere, Stores, Commit
    <3>2. \A i \in Reg : row'[i] = row[i] \/ row'[i].account \in Account
      BY <1>1, <2>2, <3>1 DEF PhotosInv, TypeOK, Commit
    <3>3. Empty.account \notin Account
      BY AccountFacts DEF Empty
    <3>. QED BY <3>2, <3>3 DEF HasPhoto
  <2>3. ASSUME NEW h \in Handler, DeleteRow(h) PROVE Clears
    <3>1. op[h].reg \in Reg
      BY <1>1, <2>3, Shapes DEF PhotosInv, DeleteRow
    <3>2. \A i \in Reg : row'[i] = row[i] \/ row'[i] # Empty
      BY <1>1, <2>3, <3>1, AccountFacts DEF PhotosInv, TypeOK, DeleteRow
    <3>. QED BY <3>2 DEF HasPhoto
  <2>4. UNCHANGED row => Clears
    BY DEF HasPhoto
  <2>. QED BY <1>1, <2>1, <2>2, <2>3, <2>4
           DEF Next, Serve, Sweep, Submit, Retake, Accept, Decline, Abandon, OpenDelete,
               DestroyDeleted, Begins, StartSweep, StartUnlocked, Destroy, DestroyFailed,
               EndSweep, CrashSweep, Unbench, ExpireLock, Age, vars
<1>. QED BY <1>1, PhotosInvariant, PTL DEF Spec, SweepOrphansNothing
=============================================================================
