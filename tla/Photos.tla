------------------------------- MODULE Photos -------------------------------
(***************************************************************************)
(* The students' photos: uploads to a chain of Cloudinary accounts          *)
(* (apps/web/lib/server/media/cloudinary.ts), the columns of Registration   *)
(* that say where the photo is (registration.ts, admin/registrations.ts),   *)
(* the retention sweep (media/retention.ts) and the lock it runs under      *)
(* (redis.ts).                                                              *)
(*                                                                          *)
(* A photo's public id is derived from the registration's reference, so an  *)
(* account holds at most one photo of a registration and an upload          *)
(* overwrites it.  Photos are numbered in the order in which they are       *)
(* taken; those up to number cutoff are past their retention.  Cloudinary   *)
(* is external: a request to it succeeds, fails, or fails after it has      *)
(* taken effect.  A registration whose upload or transaction fails is       *)
(* submitted again under a new reference, so its number is not used again.  *)
(***************************************************************************)
EXTENDS Naturals, Sequences, FiniteSets

CONSTANTS
  NULL,
  Accounts,  \* Cloudinary accounts in the order they are tried, the first from env
  MaxReg,    \* how many registrations there may be
  MaxPhoto,  \* how many photos may be taken
  Handler,   \* slots for requests that are being served
  Run,       \* slots for runs of the sweep
  Batch      \* rows a run of the sweep takes

ASSUME PhotoBounds == MaxReg \in Nat /\ MaxPhoto \in Nat /\ Batch \in Nat \ {0}

Reg == 1..MaxReg
Photo == 1..MaxPhoto
Account == {Accounts[k] : k \in DOMAIN Accounts}

ASSUME ThereIsAnAccount == Accounts \in Seq(Account) \ {<<>>}

VARIABLES
  row,      \* the photo columns of Registration: an account and a photo
  asset,    \* what is stored, by account and registration
  benched,  \* accounts that are not tried for now
  op,       \* the requests being served
  run,      \* the runs of the sweep, with the rows they are not through with
  lock,     \* the sweep's lock in Redis
  cutoff,   \* photos up to this one are past their retention
  taken,    \* photos taken so far
  opened,   \* registrations begun so far
  crossed,  \* history: registrations whose photo changed under a sweep that had read it
  overwritten  \* history: registrations where another upload is stored over the photo on
               \* record, and is not the photo on record itself

vars == <<row, asset, benched, op, run, lock, cutoff, taken, opened, crossed,
          overwritten>>

Empty == [account |-> NULL, photo |-> NULL]  \* a registration without a photo
Pointer == [account : Account, photo : Photo]
ASSUME NullIsNothing == NULL \notin Account \cup Photo /\ NULL # Empty

Idle == [pc |-> "idle"]
Upload == [pc : {"try", "commit"}, reg : Reg, first : BOOLEAN, photo : Photo,
           todo : SUBSET DOMAIN Accounts, account : Account \cup {NULL}]
Purge == [pc : {"delete", "destroy"}, reg : Reg, account : Account \cup {NULL}]
Due == [reg : Reg, account : Account, photo : Photo]
Sweeping == [pc : {"idle", "destroy"}, todo : SUBSET Due]
            \cup [pc : {"clear"}, todo : SUBSET Due, due : Due]

HasPhoto(i) == row[i] # NULL /\ row[i] # Empty

\* A run has read the row of this registration and is not through with it.
Held(i) == \E s \in Run : \E due \in run[s].todo : due.reg = i
Uploading(i) == \E h \in Handler : op[h] # Idle /\ op[h].pc = "commit" /\ op[h].reg = i
Cross(i) == crossed' = IF Held(i) THEN crossed \cup {i} ELSE crossed
\* An upload for this registration is stored at account a.
Overwrite(i, a) == overwritten' = IF HasPhoto(i) /\ row[i].account = a
                                  THEN overwritten \cup {i} ELSE overwritten

-----------------------------------------------------------------------------
(* Uploads: submitRegistration and replaceSelfie.                           *)

\* resolveAccounts: those not benched, and the one from env if there is no other.
Resolved == LET usable == {k \in DOMAIN Accounts : Accounts[k] \notin benched}
            IN IF usable = {} THEN {1} ELSE usable

NewUpload(i, first) == [pc |-> "try", reg |-> i, first |-> first, photo |-> taken + 1,
                        todo |-> Resolved, account |-> NULL]

Submit(h) ==
  /\ op[h] = Idle /\ taken < MaxPhoto /\ opened < MaxReg
  /\ op' = [op EXCEPT ![h] = NewUpload(opened + 1, TRUE)]
  /\ taken' = taken + 1 /\ opened' = opened + 1
  /\ UNCHANGED <<row, asset, benched, run, lock, cutoff, crossed, overwritten>>

\* A retake, or a registration that is submitted again.
Retake(h, i) ==
  /\ op[h] = Idle /\ taken < MaxPhoto /\ row[i] # NULL
  /\ op' = [op EXCEPT ![h] = NewUpload(i, FALSE)]
  /\ taken' = taken + 1
  /\ UNCHANGED <<row, asset, benched, run, lock, cutoff, opened, crossed, overwritten>>

Stored(a, o) == [asset EXCEPT ![a][o.reg] = o.photo]
NextToTry(h, k) == \A j \in op[h].todo : k <= j

\* The next account takes the photo (recordUpload clears its error).
Accept(h) ==
  /\ op[h].pc = "try"
  /\ \E k \in op[h].todo :
       /\ NextToTry(h, k)
       /\ asset' = Stored(Accounts[k], op[h]) /\ Overwrite(op[h].reg, Accounts[k])
       /\ benched' = IF k = 1 THEN benched ELSE benched \ {Accounts[k]}
       /\ op' = [op EXCEPT ![h].pc = "commit", ![h].account = Accounts[k]]
  /\ Cross(op[h].reg)
  /\ UNCHANGED <<row, run, lock, cutoff, taken, opened>>

\* It refuses, or its answer is lost: it is benched (recordFailure; the account
\* from env only if its quota is used up) and the next one is tried.
Decline(h) ==
  /\ op[h].pc = "try"
  /\ \E k \in op[h].todo, stored, quota \in BOOLEAN :
       /\ NextToTry(h, k)
       /\ asset' = IF stored THEN Stored(Accounts[k], op[h]) ELSE asset
       /\ IF stored THEN Cross(op[h].reg) /\ Overwrite(op[h].reg, Accounts[k])
                    ELSE UNCHANGED <<crossed, overwritten>>
       /\ benched' = IF k = 1 /\ ~quota THEN benched ELSE benched \cup {Accounts[k]}
       /\ op' = [op EXCEPT ![h] = IF op[h].todo = {k} THEN Idle
                                  ELSE [op[h] EXCEPT !.todo = @ \ {k}]]
  /\ UNCHANGED <<row, run, lock, cutoff, taken, opened>>

\* The row is created, or updated if it is still there.
Commit(h) ==
  LET o == op[h] IN
  /\ o.pc = "commit" /\ (o.first \/ row[o.reg] # NULL)
  /\ row' = [row EXCEPT ![o.reg] = [account |-> o.account, photo |-> o.photo]]
  /\ op' = [op EXCEPT ![h] = Idle]
  /\ Cross(o.reg)
  /\ overwritten' = IF asset[o.account][o.reg] = o.photo
                    THEN overwritten \ {o.reg} ELSE overwritten \cup {o.reg}
  /\ UNCHANGED <<asset, benched, run, lock, cutoff, taken, opened>>

\* Wrong on purpose: when the transaction fails, what was uploaded is cleaned up.
AbandonCleansUp(h) ==
  /\ op[h] # Idle /\ op' = [op EXCEPT ![h] = Idle]
  /\ asset' = IF op[h].pc = "commit"
              THEN [asset EXCEPT ![op[h].account][op[h].reg] = NULL] ELSE asset
  /\ UNCHANGED <<row, benched, run, lock, cutoff, taken, opened, crossed, overwritten>>

\* The transaction fails, or the process dies.
Abandon(h) ==
  /\ op[h] # Idle /\ op' = [op EXCEPT ![h] = Idle]
  /\ UNCHANGED <<row, asset, benched, run, lock, cutoff, taken, opened, crossed, overwritten>>

\* The time is up, the counter in Redis expires, or an administrator clears the
\* error or switches the account on again.
Unbench(a) ==
  /\ a \in benched /\ benched' = benched \ {a}
  /\ UNCHANGED <<row, asset, op, run, lock, cutoff, taken, opened, crossed, overwritten>>

-----------------------------------------------------------------------------
(* deleteRegistrationCompletely: where the photo is was read before the      *)
(* transaction, and the photo is destroyed after it, best effort.            *)

OpenDelete(h, i) ==
  /\ op[h] = Idle /\ row[i] # NULL
  /\ op' = [op EXCEPT ![h] = [pc |-> "delete", reg |-> i, account |-> row[i].account]]
  /\ UNCHANGED <<row, asset, benched, run, lock, cutoff, taken, opened, crossed, overwritten>>

DeleteRow(h) ==
  LET o == op[h] IN
  /\ o.pc = "delete" /\ row[o.reg] # NULL
  /\ row' = [row EXCEPT ![o.reg] = NULL]
  /\ op' = [op EXCEPT ![h] = IF o.account = NULL THEN Idle ELSE [o EXCEPT !.pc = "destroy"]]
  /\ UNCHANGED <<asset, benched, run, lock, cutoff, taken, opened, crossed, overwritten>>

DestroyDeleted(h) ==
  LET o == op[h] IN
  /\ o.pc = "destroy"
  /\ asset' = [asset EXCEPT ![o.account][o.reg] = NULL]
  /\ op' = [op EXCEPT ![h] = Idle]
  /\ UNCHANGED <<row, benched, run, lock, cutoff, taken, opened, crossed, overwritten>>

-----------------------------------------------------------------------------
(* The retention sweep.                                                     *)

NotRunning == [pc |-> "idle", todo |-> {}]

PastRetention(n) == n <= cutoff

\* The rows that are due.
DueRows == {[reg |-> i, account |-> row[i].account, photo |-> row[i].photo] :
              i \in {i \in Reg : HasPhoto(i) /\ PastRetention(row[i].photo)}}

Older(some, all) == \A due \in some, later \in all \ some : due.photo < later.photo

\* Wrong on purpose: one row more than a run takes.
TakenOneMore(rows) ==
  /\ Cardinality(rows) <= Batch + 1 /\ Older(rows, DueRows)
  /\ rows = DueRows \/ Cardinality(rows) = Batch + 1

\* As many as a run takes, the oldest.
Taken(rows) ==
  /\ Cardinality(rows) <= Batch /\ Older(rows, DueRows)
  /\ rows = DueRows \/ Cardinality(rows) = Batch

Begins(s) ==
  /\ run[s] = NotRunning
  /\ \E rows \in SUBSET DueRows \ {{}} :
       /\ Taken(rows)
       /\ run' = [run EXCEPT ![s] = [pc |-> "destroy", todo |-> rows]]
       /\ crossed' = crossed \cup {due.reg : due \in {due \in rows : Uploading(due.reg)}}
  /\ UNCHANGED <<row, asset, benched, op, cutoff, taken, opened, overwritten>>

\* withLock: a run starts with the lock, or without it while Redis is unreachable.
StartSweep(s) == lock = NULL /\ lock' = s /\ Begins(s)
StartUnlocked(s) == UNCHANGED lock /\ Begins(s)

\* The oldest of the rows that a run is not through with.
Oldest(s, due) == \A later \in run[s].todo : due.photo <= later.photo

Gone(due) == [asset EXCEPT ![due.account][due.reg] = NULL]
Clearing(s, due) == [pc |-> "clear", todo |-> run[s].todo, due |-> due]

\* Wrong on purpose: the row is cleared also when the photo could not be deleted.
DestroyFailedClears(s) ==
  /\ run[s].pc = "destroy"
  /\ \E due \in run[s].todo : Oldest(s, due) /\ run' = [run EXCEPT ![s] = Clearing(s, due)]
  /\ UNCHANGED <<row, asset, benched, op, lock, cutoff, taken, opened, crossed, overwritten>>

\* destroySelfie failed: the row is left for the next run, whether or not the photo
\* is gone.
DestroyFailed(s) ==
  /\ run[s].pc = "destroy"
  /\ \E due \in run[s].todo :
       /\ Oldest(s, due)
       /\ asset' = asset \/ asset' = Gone(due)
       /\ run' = [run EXCEPT ![s].todo = @ \ {due}]
  /\ UNCHANGED <<row, benched, op, lock, cutoff, taken, opened, crossed, overwritten>>

\* The photo is deleted, or was absent.
Destroy(s) ==
  /\ run[s].pc = "destroy"
  /\ \E due \in run[s].todo :
       /\ Oldest(s, due)
       /\ asset' = Gone(due) /\ run' = [run EXCEPT ![s] = Clearing(s, due)]
  /\ UNCHANGED <<row, benched, op, lock, cutoff, taken, opened, crossed, overwritten>>

\* The row is cleared by its id, whatever photo it names now.
ClearRow(s) ==
  LET due == run[s].due IN
  /\ run[s].pc = "clear" /\ row[due.reg] # NULL
  /\ row' = [row EXCEPT ![due.reg] = Empty]
  /\ run' = [run EXCEPT ![s] = [pc |-> "destroy", todo |-> @.todo \ {due}]]
  /\ UNCHANGED <<asset, benched, op, lock, cutoff, taken, opened, crossed, overwritten>>

\* The run is through, or the update found no row and threw: the lock is released
\* if it is still this run's own.
EndSweep(s) ==
  /\ \/ run[s].pc = "destroy" /\ run[s].todo = {}
     \/ run[s].pc = "clear" /\ row[run[s].due.reg] = NULL
  /\ run' = [run EXCEPT ![s] = NotRunning]
  /\ lock' = IF lock = s THEN NULL ELSE lock
  /\ UNCHANGED <<row, asset, benched, op, cutoff, taken, opened, crossed, overwritten>>

\* The process dies, and the lock stays until it expires.
CrashSweep(s) ==
  /\ run[s] # NotRunning /\ run' = [run EXCEPT ![s] = NotRunning]
  /\ UNCHANGED <<row, asset, benched, op, lock, cutoff, taken, opened, crossed, overwritten>>

\* Wrong on purpose: the lock has no time to live and goes with its run only.
ExpireWithRun ==
  /\ lock # NULL /\ run[lock] # NotRunning /\ lock' = NULL
  /\ UNCHANGED <<row, asset, benched, op, run, cutoff, taken, opened, crossed, overwritten>>

\* LOCK_TTL_MS is over; the run that took it may still be at work.
ExpireLock ==
  /\ lock # NULL /\ lock' = NULL
  /\ UNCHANGED <<row, asset, benched, op, run, cutoff, taken, opened, crossed, overwritten>>

Age ==
  /\ cutoff < taken /\ cutoff' = cutoff + 1
  /\ UNCHANGED <<row, asset, benched, op, run, lock, taken, opened, crossed, overwritten>>

-----------------------------------------------------------------------------
Init ==
  /\ row = [i \in Reg |-> NULL]
  /\ asset = [a \in Account |-> [i \in Reg |-> NULL]]
  /\ benched = {} /\ op = [h \in Handler |-> Idle]
  /\ run = [s \in Run |-> NotRunning] /\ lock = NULL
  /\ cutoff = 0 /\ taken = 0 /\ opened = 0 /\ crossed = {} /\ overwritten = {}

Serve(h) == \/ Submit(h) \/ Accept(h) \/ Decline(h) \/ Commit(h) \/ Abandon(h)
            \/ DeleteRow(h) \/ DestroyDeleted(h)
            \/ \E i \in Reg : Retake(h, i) \/ OpenDelete(h, i)
Sweep(s) == \/ StartSweep(s) \/ Destroy(s) \/ DestroyFailed(s) \/ ClearRow(s) \/ EndSweep(s)

Next == \/ \E h \in Handler : Serve(h)
        \/ \E s \in Run : Sweep(s) \/ StartUnlocked(s) \/ CrashSweep(s)
        \/ \E a \in Account : Unbench(a)
        \/ ExpireLock \/ Age

\* The cron job calls again and again, neither Cloudinary nor Redis fails for good,
\* and not every run dies.
Fairness ==
  /\ \A s \in Run : /\ WF_vars(Sweep(s))
                    /\ SF_vars(Destroy(s)) /\ SF_vars(ClearRow(s))
  /\ WF_vars(ExpireLock)

Spec == Init /\ [][Next]_vars /\ Fairness

-----------------------------------------------------------------------------
(* Properties.                                                              *)

\* The columns, the accounts, the requests and the runs have their shapes.
TypeOK ==
  /\ row \in [Reg -> Pointer \cup {Empty, NULL}]
  /\ asset \in [Account -> [Reg -> Photo \cup {NULL}]]
  /\ benched \subseteq Account
  /\ op \in [Handler -> Upload \cup Purge \cup {Idle}]
  /\ run \in [Run -> Sweeping] /\ \A s \in Run : Cardinality(run[s].todo) <= Batch
  /\ lock \in Run \cup {NULL}
  /\ cutoff \in 0..taken /\ taken \in 0..MaxPhoto /\ opened \in 0..MaxReg
  /\ crossed \subseteq Reg /\ overwritten \subseteq Reg

\* Where the record says, a photo is stored as long as its retention lasts, and it is
\* the photo on record: no failed upload, crash, deletion or sweep takes it away.  Two
\* exceptions: it was uploaded while a sweep was at the old one; and an upload, which
\* overwrites in place, was stored over it and its transaction has not named it yet
\* or has failed.
PhotoIsThere ==
  \A i \in Reg \ crossed :
    (HasPhoto(i) /\ row[i].photo > cutoff) =>
      /\ asset[row[i].account][i] # NULL
      /\ i \notin overwritten => asset[row[i].account][i] = row[i].photo

\* Not so, and not in any run: what replaceSelfie's comment says ("a failed retake
\* leaves the previous photo intact") of every retake that has failed.  The upload may
\* have been stored when the transaction fails, or its answer is lost.
FailedRetakeLeavesPhoto ==
  \A i \in Reg \ crossed :
    (HasPhoto(i) /\ row[i].photo > cutoff /\ \A h \in Handler : op[h] = Idle) =>
      asset[row[i].account][i] = row[i].photo

\* The sweep clears a row only when the photo it names is gone, so that the photo
\* can still be found (cloudinary.ts: "would orphan the asset: still in Cloudinary,
\* no longer referenced by anything"), whatever answers are lost, runs die or
\* overlap.
SweepOrphansNothing ==
  [][\A i \in Reg \ crossed :
       (HasPhoto(i) /\ row'[i] = Empty) => asset[row[i].account][i] = NULL]_vars

\* A photo past its retention is gone from the record in the end, although runs
\* die, fail, leave their lock behind and take only so many rows.
DuePhotosGo ==
  \A i \in Reg :
    (HasPhoto(i) /\ row[i].photo <= cutoff) ~> ~(HasPhoto(i) /\ row[i].photo <= cutoff)
=============================================================================
