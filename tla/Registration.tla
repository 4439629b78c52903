---------------------------- MODULE Registration ----------------------------
(***************************************************************************)
(* Form numbers, registrations and passes as the students' requests         *)
(* (apps/web/lib/server/registration.ts) and the review desk                *)
(* (apps/web/lib/server/admin/registrations.ts, lib/server/pass.ts) write   *)
(* them, without a lock between a handler's reads and its writes.           *)
(*                                                                          *)
(* A read, an update and a $transaction are one step each.  A handler keeps *)
(* what it has read in op.  Between two steps anything may happen, and a    *)
(* handler may end at any point (Abandon): a failed upload, a check on data *)
(* left out here (consent, number of companions, the reason's text, whether *)
(* the photo has been swept), a constraint, a timeout or a crash.           *)
(*                                                                          *)
(* What binds at the write: the UNIQUE columns Registration.userId and      *)
(* .admittedStudentId and Pass.registrationId, CheckIn's RESTRICT on Pass,  *)
(* and the conditional update of the claim.  PostgreSQL aborts a            *)
(* transaction at the first violated constraint, so issuePass cannot go on  *)
(* in it after a P2002.                                                     *)
(***************************************************************************)
EXTENDS Naturals, FiniteSets

CONSTANTS
  NULL,
  User,      \* students who are signed in
  Phone,     \* contact numbers, by their last ten digits
  Form,      \* form numbers on the admissions list
  MaxReg,    \* how many registrations may be created
  MaxIssue,  \* how many passes may be issued for one registration
  Handler,   \* slots for requests that are being served
  MaxOps     \* how many requests may be made

ASSUME NullIsNobody == NULL \notin User \cup Form \cup Phone
ASSUME RegistrationBounds == MaxReg \in Nat /\ MaxIssue \in Nat /\ MaxOps \in Nat

Reg == 1..MaxReg

VARIABLES
  claim,    \* AdmittedStudent.isClaimed and .claimedByUserId, by form number
  reg,      \* table Registration
  pass,     \* table Pass with its CheckIn, by registration (UNIQUE)
  banned,   \* users whose isActive is false
  created,  \* registrations created so far
  issued,   \* by registration, passes issued so far
  op,       \* the requests being served
  started,  \* requests made so far
  raced,    \* history: registrations resubmitted under the eyes of an approver
  fills     \* history: by registration, who has filled it in, under which number

tables == <<claim, reg, pass, banned, created, issued>>
vars == <<tables, op, started, raced, fills>>

Statuses == {"PENDING_REVIEW", "APPROVED", "REVISION_REQUESTED", "REJECTED"}
Reviews == {"APPROVE", "REQUEST_REVISION", "REJECT"}
Claim == [claimed : BOOLEAN, by : User \cup {NULL}]
RegRow == [user : User \cup {NULL}, form : Form, phone : Phone, status : Statuses]
PassRow == [gen : 1..MaxIssue, status : {"ACTIVE", "REVOKED"}, inside : BOOLEAN]
ASSUME NullIsNoRow == NULL \notin RegRow \cup PassRow

Unclaimed == [claimed |-> FALSE, by |-> NULL]
OnForm(f) == {i \in Reg : reg[i] # NULL /\ reg[i].form = f}
OfUser(u) == {i \in Reg : reg[i] # NULL /\ reg[i].user = u}

-----------------------------------------------------------------------------
(* Requests.                                                                *)

\* Who fills a registration in: the account, if signed in, and the contact number.
Filling(o) == [actor |-> o.actor, phone |-> o.phone]
Acquainted(w, S) == \E v \in S : v.phone = w.phone \/ (w.actor # NULL /\ v.actor = w.actor)

\* A registration as a student's handler reads it, with the id of its pass.
Seen == [id : Reg, phone : Phone, approved : BOOLEAN, pass : 1..MaxIssue \cup {NULL}]
See(S) == IF S = {} THEN NULL
          ELSE LET i == CHOOSE i \in S : TRUE IN
               [id |-> i, phone |-> reg[i].phone, approved |-> reg[i].status = "APPROVED",
                pass |-> IF pass[i] = NULL THEN NULL ELSE pass[i].gen]

\* The row of the form number as it was read, with its registration.
Row == [by : User \cup {NULL}, reg : Seen \cup {NULL}]

Idle == [kind |-> "idle"]
StudentOp == [kind : {"lookup", "submit"}, pc : {"form", "claimant", "heal", "write"},
              actor : User \cup {NULL}, form : Form, phone : Phone \cup {NULL}, auto : BOOLEAN,
              row : Row \cup {NULL}, existing : Seen \cup {NULL}]
DeskOp == [kind : Reviews \cup {"revoke", "restore", "undo", "ban", "unban", "delete", "retake"},
           pc : {"write", "revoke"}, id : Reg, form : Form, user : User \cup {NULL},
           pass : PassRow \cup {NULL}]

AtPc(h, pc) == op[h] # Idle /\ op[h].pc = pc
End(h) == op' = [op EXCEPT ![h] = Idle]
Abandon(h) == op[h] # Idle /\ End(h) /\ UNCHANGED <<tables, started, raced, fills>>

Begin(h, o) ==
  /\ op[h] = Idle /\ started < MaxOps
  /\ op' = [op EXCEPT ![h] = o]
  /\ started' = started + 1
  /\ UNCHANGED <<tables, raced, fills>>

-----------------------------------------------------------------------------
(* Students: lookupFormNumber and submitRegistration.                       *)

\* lookupFormNumber goes by the form number only; who asks decides the wording.
Lookup(h) ==
  \E f \in Form :
    Begin(h, [kind |-> "lookup", pc |-> "form", actor |-> NULL, form |-> f,
              phone |-> NULL, auto |-> FALSE,
              row |-> NULL, existing |-> NULL])

\* submitRegistration reads the user's own registration first.  An account that is
\* not active counts as nobody (getActor).  The contact number is what is typed in.
AskToSubmit(h) ==
  \E a \in (User \ banned) \cup {NULL}, f \in Form, p \in Phone, auto \in BOOLEAN :
    Begin(h, [kind |-> "submit", pc |-> "form", actor |-> a, form |-> f, phone |-> p,
              auto |-> auto, row |-> NULL,
              existing |-> IF a = NULL THEN NULL ELSE See(OfUser(a))])

\* Wrong on purpose: the contact number is not compared.
MayResubmitAnyone(o) == o.row.reg # NULL

\* A claimed form number may be submitted again by its claimant or by somebody
\* who knows the contact number on the registration.
MayResubmit(o) ==
  \/ o.actor # NULL /\ o.row.by = o.actor
  \/ o.row.reg # NULL /\ o.row.reg.phone = o.phone

\* What becomes of a request that knows whether its form number is claimed.
Settled(o, claimed) ==
  LET existing == IF claimed /\ o.row.reg # NULL THEN o.row.reg ELSE o.existing
  IN IF \/ o.kind = "lookup"
        \/ claimed /\ ~MayResubmit(o)
        \/ existing # NULL /\ existing.approved
       THEN Idle
       ELSE [o EXCEPT !.pc = "write", !.row = NULL, !.existing = existing]

\* The row of the form number.  A claim without a registration is stale.
ReadForm(h) ==
  LET f == op[h].form
      o == [op[h] EXCEPT !.row = [by |-> claim[f].by, reg |-> See(OnForm(f))]]
  IN /\ AtPc(h, "form")
     /\ op' = [op EXCEPT ![h] =
          IF ~claim[f].claimed THEN Settled(o, FALSE)
          ELSE IF o.row.reg = NULL THEN [o EXCEPT !.pc = "heal"]
          ELSE IF o.row.by # NULL THEN [o EXCEPT !.pc = "claimant"]
          ELSE Settled(o, TRUE)]
     /\ UNCHANGED <<tables, started, raced, fills>>

\* So is the claim of a user whose registration is for another form number.
ReadClaimant(h) ==
  /\ AtPc(h, "claimant")
  /\ op' = [op EXCEPT ![h] =
       IF \E i \in OfUser(op[h].row.by) : reg[i].form # op[h].form
         THEN [op[h] EXCEPT !.pc = "heal"] ELSE Settled(op[h], TRUE)]
  /\ UNCHANGED <<tables, started, raced, fills>>

\* The stale claim is released, whatever has become of it meanwhile.
Heal(h) ==
  /\ AtPc(h, "heal")
  /\ claim' = [claim EXCEPT ![op[h].form] = Unclaimed]
  /\ op' = [op EXCEPT ![h] = Settled(op[h], FALSE)]
  /\ UNCHANGED <<reg, pass, banned, created, issued, started, raced, fills>>

-----------------------------------------------------------------------------
(* Students: the transaction of submitRegistration.                         *)

NewPass(i) == [gen |-> issued[i] + 1, status |-> "ACTIVE", inside |-> FALSE]

\* claim.updateMany: what lets the request take the form number.
MayClaim(o) == \/ ~claim[o.form].claimed
               \/ o.actor # NULL /\ claim[o.form].by = o.actor
               \/ o.existing # NULL

\* The claim is taken and the user's claims on other form numbers are given up.
Claims(o) ==
  [f \in Form |-> IF f = o.form THEN [claimed |-> TRUE, by |-> o.actor]
                  ELSE IF o.actor # NULL /\ claim[f].by = o.actor THEN Unclaimed
                  ELSE claim[f]]

\* Wrong on purpose: the columns are not UNIQUE.
SeatIsShared(o, i) == TRUE

\* Registration.admittedStudentId and .userId are UNIQUE.
SeatIsFree(o, i) ==
  /\ OnForm(o.form) \subseteq {i}
  /\ o.actor # NULL /\ o.existing = NULL => OfUser(o.actor) = {}

\* Wrong on purpose: CheckIn goes with its Pass (ON DELETE CASCADE).
DeletableWithArrival(p) == TRUE

\* A pass that has been checked in cannot be deleted (ON DELETE RESTRICT).
Deletable(p) == p # NULL => ~p.inside

Resubmit(h) ==
  LET o == op[h]
      i == o.existing.id
      kept == IF o.existing.pass = NULL THEN pass[i] ELSE NULL
  IN /\ AtPc(h, "write") /\ op[h].kind = "submit" /\ o.existing # NULL
     /\ MayClaim(o) /\ SeatIsFree(o, i) /\ reg[i] # NULL
     /\ kept # pass[i] => Deletable(pass[i])
     /\ o.auto => kept = NULL /\ issued[i] < MaxIssue
     /\ claim' = Claims(o)
     /\ reg' = [reg EXCEPT ![i].form = o.form, ![i].phone = o.phone,
                           ![i].status = IF o.auto THEN "APPROVED" ELSE "PENDING_REVIEW"]
     /\ pass' = [pass EXCEPT ![i] = IF o.auto THEN NewPass(i) ELSE kept]
     /\ issued' = IF o.auto THEN [issued EXCEPT ![i] = @ + 1] ELSE issued
     /\ raced' = IF \E g \in Handler : op[g].kind = "APPROVE" /\ op[g].id = i
                   THEN raced \cup {i} ELSE raced
     /\ fills' = [fills EXCEPT ![i] = @ \cup {Filling(o)}]
     /\ End(h) /\ UNCHANGED <<banned, created, started>>

Submit(h) ==
  LET o == op[h]
      i == created + 1
  IN /\ AtPc(h, "write") /\ op[h].kind = "submit" /\ o.existing = NULL
     /\ created < MaxReg /\ (o.auto => issued[i] < MaxIssue)
     /\ MayClaim(o) /\ SeatIsFree(o, i)
     /\ claim' = Claims(o)
     /\ reg' = [reg EXCEPT ![i] = [user |-> o.actor, form |-> o.form, phone |-> o.phone,
                                   status |-> IF o.auto THEN "APPROVED" ELSE "PENDING_REVIEW"]]
     /\ pass' = [pass EXCEPT ![i] = IF o.auto THEN NewPass(i) ELSE NULL]
     /\ issued' = IF o.auto THEN [issued EXCEPT ![i] = @ + 1] ELSE issued
     /\ created' = i
     /\ fills' = [fills EXCEPT ![i] = {Filling(o)}]
     /\ End(h) /\ UNCHANGED <<banned, started, raced>>

-----------------------------------------------------------------------------
(* The desk.  Every handler reads the registration with its pass, checks    *)
(* what it read, and writes by the ids it read.                             *)

\* What the handler's checks ask of the registration as it is read.
Reviewable(i, kind) ==
  CASE kind \in Reviews \cup {"delete"} -> TRUE
    [] kind = "revoke"  -> pass[i] # NULL /\ pass[i].status # "REVOKED"
    [] kind = "restore" -> pass[i] # NULL /\ pass[i].status # "ACTIVE"
    [] kind = "undo"    -> reg[i].status # "PENDING_REVIEW"
    [] kind = "ban"     -> reg[i].user \notin banned
    [] kind = "unban"   -> reg[i].user \in banned
    [] kind = "retake"  -> reg[i].status = "REVISION_REQUESTED"

\* A ban of a registration without an account comes down to its pass.
Open(h, i, kind) ==
  /\ reg[i] # NULL /\ Reviewable(i, kind)
  /\ Begin(h, [kind |-> kind,
               pc |-> IF kind = "revoke" \/ (kind = "ban" /\ reg[i].user = NULL)
                        THEN "revoke" ELSE "write",
               id |-> i, form |-> reg[i].form, user |-> reg[i].user, pass |-> pass[i]])

Writes(h, kind) == AtPc(h, "write") /\ op[h].kind = kind
SetStatus(i, status) == reg[i] # NULL /\ reg' = [reg EXCEPT ![i].status = status]

\* The pass a handler read is still there, under the same id.
SamePass(o) == pass[o.id] # NULL /\ pass[o.id].gen = o.pass.gen
WasActive(o) == o.pass # NULL /\ o.pass.status = "ACTIVE"

\* Wrong on purpose: the status is set, and the pass is issued afterwards.
ApproveInTwo(h) ==
  LET i == op[h].id IN
  /\ Writes(h, "APPROVE") /\ SetStatus(i, "APPROVED")
  /\ pass' = pass /\ issued' = issued
  /\ End(h) /\ UNCHANGED <<claim, banned, created, started, raced, fills>>

\* review, APPROVE: a pass is issued only if none was there when it was read.
Approve(h) ==
  LET i == op[h].id IN
  /\ Writes(h, "APPROVE") /\ SetStatus(i, "APPROVED")
  /\ \/ op[h].pass # NULL /\ pass' = pass /\ issued' = issued
     \/ /\ op[h].pass = NULL /\ pass[i] = NULL /\ issued[i] < MaxIssue
        /\ pass' = [pass EXCEPT ![i] = NewPass(i)]
        /\ issued' = [issued EXCEPT ![i] = @ + 1]
  /\ End(h) /\ UNCHANGED <<claim, banned, created, started, raced, fills>>

RequestRevision(h) ==
  /\ Writes(h, "REQUEST_REVISION") /\ SetStatus(op[h].id, "REVISION_REQUESTED")
  /\ End(h) /\ UNCHANGED <<claim, pass, banned, created, issued, started, raced, fills>>

\* review, REJECT: two writes, the second only for a pass that was ACTIVE.
Reject(h) ==
  /\ Writes(h, "REJECT") /\ SetStatus(op[h].id, "REJECTED")
  /\ op' = [op EXCEPT ![h] = IF WasActive(@) THEN [@ EXCEPT !.pc = "revoke"] ELSE Idle]
  /\ UNCHANGED <<claim, pass, banned, created, issued, started, raced, fills>>

\* setUserActiveStatus: the account, then the pass.
SetUserActiveStatus(h) ==
  /\ Writes(h, "ban") \/ Writes(h, "unban")
  /\ banned' = IF op[h].kind = "ban" THEN banned \cup {op[h].user} ELSE banned \ {op[h].user}
  /\ op' = [op EXCEPT ![h] = IF op[h].kind = "ban" /\ WasActive(@)
                               THEN [@ EXCEPT !.pc = "revoke"] ELSE Idle]
  /\ UNCHANGED <<claim, reg, pass, created, issued, started, raced, fills>>

\* revokePass, by the pass's id.
RevokePass(h) ==
  /\ AtPc(h, "revoke") /\ WasActive(op[h]) /\ SamePass(op[h])
  /\ pass' = [pass EXCEPT ![op[h].id].status = "REVOKED"]
  /\ End(h) /\ UNCHANGED <<claim, reg, banned, created, issued, started, raced, fills>>

\* restorePass, by the pass's id.
RestorePass(h) ==
  /\ Writes(h, "restore") /\ SamePass(op[h])
  /\ pass' = [pass EXCEPT ![op[h].id].status = "ACTIVE"]
  /\ End(h) /\ UNCHANGED <<claim, reg, banned, created, issued, started, raced, fills>>

\* undoRegistrationReview: one transaction.
UndoRegistrationReview(h) ==
  LET i == op[h].id IN
  /\ Writes(h, "undo") /\ SetStatus(i, "PENDING_REVIEW")
  /\ IF WasActive(op[h]) THEN /\ SamePass(op[h])
                              /\ pass' = [pass EXCEPT ![i].status = "REVOKED"]
                         ELSE pass' = pass
  /\ End(h) /\ UNCHANGED <<claim, banned, created, issued, started, raced, fills>>

WithoutPass(i) == [pass EXCEPT ![i] = NULL]

\* deleteRegistrationCompletely: the rows by the ids that were read, and the claim
\* of the form number that was read.
DeleteRegistrationCompletely(h) ==
  LET o == op[h] IN
  /\ Writes(h, "delete") /\ reg[o.id] # NULL
  /\ IF o.pass = NULL THEN Deletable(pass[o.id])
     ELSE SamePass(o) /\ pass[o.id].inside = o.pass.inside
  /\ reg' = [reg EXCEPT ![o.id] = NULL]
  /\ pass' = WithoutPass(o.id)
  /\ claim' = [claim EXCEPT ![o.form] = Unclaimed]
  /\ End(h) /\ UNCHANGED <<banned, created, issued, started, raced, fills>>

\* replaceSelfie: back into the queue, whatever the status has become.
ReplaceSelfie(h) ==
  /\ Writes(h, "retake") /\ SetStatus(op[h].id, "PENDING_REVIEW")
  /\ End(h) /\ UNCHANGED <<claim, pass, banned, created, issued, started, raced, fills>>

-----------------------------------------------------------------------------
(* The gate, and the next-state relation.                                   *)

\* A scan or the desk checks the pass in; the desk reverses a check-in.
CheckIn(i) ==
  /\ pass[i] # NULL /\ pass' = [pass EXCEPT ![i].inside = ~@]
  /\ UNCHANGED <<claim, reg, banned, created, issued, op, started, raced, fills>>

Init ==
  /\ claim = [f \in Form |-> Unclaimed]
  /\ reg = [i \in Reg |-> NULL] /\ pass = [i \in Reg |-> NULL]
  /\ banned = {} /\ created = 0 /\ issued = [i \in Reg |-> 0]
  /\ op = [h \in Handler |-> Idle] /\ started = 0
  /\ raced = {} /\ fills = [i \in Reg |-> {}]

Student(h) == \/ Lookup(h) \/ AskToSubmit(h) \/ ReadForm(h) \/ ReadClaimant(h)
              \/ Heal(h) \/ Submit(h) \/ Resubmit(h) \/ ReplaceSelfie(h)
Desk(h) == \/ \E i \in Reg, kind \in Reviews \cup {"revoke", "restore", "undo", "ban", "unban",
                                                   "delete", "retake"} : Open(h, i, kind)
           \/ Approve(h) \/ RequestRevision(h) \/ Reject(h) \/ SetUserActiveStatus(h)
           \/ RevokePass(h) \/ RestorePass(h) \/ UndoRegistrationReview(h)
           \/ DeleteRegistrationCompletely(h)

Next == \/ \E h \in Handler : Student(h) \/ Desk(h) \/ Abandon(h)
        \/ \E i \in Reg : CheckIn(i)

Spec == Init /\ [][Next]_vars

-----------------------------------------------------------------------------
(* Properties.                                                              *)

\* The tables have the shapes the schema gives them, a pass belongs to a
\* registration, and every request remembers rows that have been there.
TypeOK ==
  /\ claim \in [Form -> Claim]
  /\ reg \in [Reg -> RegRow \cup {NULL}]
  /\ pass \in [Reg -> PassRow \cup {NULL}]
  /\ \A i \in Reg : /\ pass[i] # NULL => reg[i] # NULL /\ pass[i].gen <= issued[i]
                    /\ reg[i] # NULL => i <= created
  /\ banned \subseteq User /\ created \in 0..MaxReg /\ started \in 0..MaxOps
  /\ issued \in [Reg -> 0..MaxIssue] /\ raced \subseteq Reg
  /\ fills \in [Reg -> SUBSET [actor : User \cup {NULL}, phone : Phone]]
  /\ op \in [Handler -> StudentOp \cup DeskOp \cup {Idle}]

\* No form number and no student has two registrations, although the claim a
\* request relies on may have been released or taken since it was read
\* (registration.ts: "That form number was registered a moment ago").
OneSeatEach ==
  \A i, j \in Reg :
    (reg[i] # NULL /\ reg[j] # NULL /\ i # j) =>
      /\ reg[i].form # reg[j].form
      /\ reg[i].user # NULL => reg[i].user # reg[j].user

\* A registration is filled in again only by somebody acquainted with it: by an
\* account that has filled it in before or under a contact number it has had
\* (registration.ts: "verify if the phone matches"), and its claim is held by such
\* an account, whatever is healed, released, corrected and taken over in between.
OnlyTheOwner ==
  [][\A i \in Reg : reg[i] # NULL =>
       /\ \A w \in fills'[i] \ fills[i] : Acquainted(w, fills[i])
       /\ LET by == claim[reg[i].form].by IN
          by # NULL => \E v \in fills[i] : v.actor = by]_vars

\* A student who is inside stays inside: no resubmission takes a checked-in pass
\* away, only the complete deletion of the registration does.
ArrivalsSurvive ==
  [][\A i \in Reg : (pass[i] # NULL /\ pass[i].inside) =>
       \/ reg'[i] = NULL
       \/ pass'[i] # NULL /\ pass'[i].gen = pass[i].gen]_vars

\* An approved registration has a pass (pass.ts: "a registration that is approved
\* but has no pass is a student staring at an empty pass screen"), unless it was
\* resubmitted between an approver's read and write.
ApprovedHasPass ==
  \A i \in Reg \ raced :
    (reg[i] # NULL /\ reg[i].status = "APPROVED") => pass[i] # NULL

\* Form numbers are seats (module Seats), held by those who have filled in the
\* registration on them, and the tables keep the promise made there.
Promise == INSTANCE Seats WITH
  Seat <- Form, Account <- User, Number <- Phone,
  holders <- [f \in Form |-> IF OnForm(f) = {} THEN {}
                             ELSE fills[CHOOSE i \in OnForm(f) : TRUE]]
SeatsAreKept == Promise!Spec
=============================================================================
