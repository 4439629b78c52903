------------------------- MODULE RegistrationProofs -------------------------
(***************************************************************************)
(* Proofs about Registration, for any number of students, form numbers,     *)
(* requests and passes.                                                     *)
(*                                                                          *)
(* The tables alone do not carry the invariants: what a request read may be *)
(* out of date when it writes: the contact number it saw may have been      *)
(* corrected, the claim released, the registration deleted.  What it still  *)
(* may rely on is that ids are never used twice and that whoever has filled *)
(* in a registration has done so for good (OwnersStay).  So the inductive   *)
(* invariant says of the tables who has filled in what they show (Recorded) *)
(* and of every request what it remembers rightly (Knows, Minds).           *)
(***************************************************************************)
EXTENDS Registration, TLAPS

\* Everybody the tables name has filled the registration in: under the number on
\* it, as the account it belongs to, as the account that holds its claim.
Recorded ==
  \A i \in Reg : reg[i] # NULL =>
    /\ \E v \in fills[i] : v.phone = reg[i].phone
    /\ reg[i].user # NULL => \E v \in fills[i] : v.actor = reg[i].user
    /\ LET by == claim[reg[i].form].by IN by # NULL => \E v \in fills[i] : v.actor = by

\* The contact number a request remembers of a registration has been on it.
Remembered(s) == s.id <= created /\ \E v \in fills[s.id] : v.phone = s.phone

\* What a student's request knows: it is acquainted with the registration it will
\* write to, and the claimant it has read of has filled in the one it read.
Knows(o) ==
  o.kind = "submit" =>
    /\ o.phone \in Phone
    /\ o.existing # NULL => /\ o.existing.id <= created
                            /\ Acquainted(Filling(o), fills[o.existing.id])
    /\ o.pc = "claimant" => /\ o.row \in Row /\ o.row.reg # NULL /\ Remembered(o.row.reg)
                            /\ o.row.by # NULL =>
                                 \E v \in fills[o.row.reg.id] : v.actor = o.row.by

\* What a request of the desk knows: the id is one that was given out, and a pass
\* an approver saw is still there unless the registration went or was resubmitted.
Minds(o) ==
  o \in DeskOp =>
    /\ o.id <= created
    /\ o.pc = "write" /\ o.kind \in {"ban", "unban"} => o.user # NULL
    /\ o.kind = "APPROVE" /\ o.pass # NULL =>
         o.id \in raced \/ reg[o.id] = NULL \/ pass[o.id] # NULL

RequestsKnow == \A h \in Handler : Knows(op[h]) /\ Minds(op[h])

IInv == TypeOK /\ OneSeatEach /\ Recorded /\ ApprovedHasPass /\ RequestsKnow

-----------------------------------------------------------------------------
(* What requests read.                                                      *)

\* A registration is seen as it is.
LEMMA SeeFacts ==
  ASSUME TypeOK, Recorded, NEW S \in SUBSET Reg, \A i \in S : reg[i] # NULL
  PROVE  /\ S = {} => See(S) = NULL
         /\ S # {} => /\ See(S) \in Seen /\ See(S).id \in S /\ Remembered(See(S))
<1>1. CASE S = {}
  BY <1>1 DEF See
<1>2. CASE S # {}
  <2>. DEFINE i == CHOOSE i \in S : TRUE
  <2>1. i \in S
    BY <1>2
  <2>2. reg[i] \in RegRow /\ pass[i] \in PassRow \cup {NULL} /\ i <= created
    BY <2>1 DEF TypeOK
  <2>3. (IF pass[i] = NULL THEN NULL ELSE pass[i].gen) \in 1..MaxIssue \cup {NULL}
    BY <2>2 DEF PassRow
  <2>4. See(S) = [id |-> i, phone |-> reg[i].phone, approved |-> reg[i].status = "APPROVED",
                  pass |-> IF pass[i] = NULL THEN NULL ELSE pass[i].gen]
    BY <1>2 DEF See
  <2>5. reg[i].phone \in Phone /\ (reg[i].status = "APPROVED") \in BOOLEAN
    BY <2>2 DEF RegRow
  <2>. HIDE DEF i
  <2>6. See(S) \in Seen
    BY <2>1, <2>3, <2>4, <2>5 DEF Seen
  <2>7. See(S).id = i /\ See(S).phone = reg[i].phone
    BY <2>4
  <2>. QED BY <1>2, <2>1, <2>2, <2>6, <2>7 DEF Remembered, Recorded
<1>. QED BY <1>1, <1>2

\* A request that goes on to write does so for itself or for a registration it is
\* acquainted with (MayResubmit).
LEMMA SettledFacts ==
  ASSUME NEW o \in StudentOp, NEW claimed \in BOOLEAN, Knows(o),
         claimed /\ o.kind = "submit" =>
           /\ o.row \in Row /\ o.row.reg # NULL /\ Remembered(o.row.reg)
           /\ o.row.by # NULL => \E v \in fills[o.row.reg.id] : v.actor = o.row.by
  PROVE  Settled(o, claimed) \in StudentOp \cup {Idle} /\ Knows(Settled(o, claimed))
<1>. DEFINE existing == IF claimed /\ o.row.reg # NULL THEN o.row.reg ELSE o.existing
            w == [o EXCEPT !.pc = "write", !.row = NULL, !.existing = existing]
<1>1. Knows(Idle) /\ Idle.kind = "idle"
  BY DEF Knows, Idle
<1>2. CASE Settled(o, claimed) = Idle
  BY <1>1, <1>2
<1>3. CASE Settled(o, claimed) # Idle
  <2>1. /\ o.kind = "submit" /\ Settled(o, claimed) = w
        /\ claimed => MayResubmit(o)
    BY <1>3 DEF Settled, StudentOp
  <2>2. existing \in Seen \cup {NULL}
    BY <2>1 DEF StudentOp, Row
  <2>3. existing # NULL => /\ existing.id <= created
                           /\ Acquainted(Filling(o), fills[existing.id])
    <3>1. CASE existing = o.existing
      BY <2>1, <3>1 DEF Knows
    <3>2. CASE claimed /\ o.row.reg # NULL /\ existing = o.row.reg
      BY <2>1, <3>2 DEF MayResubmit, Remembered, Acquainted, Filling
    <3>. QED BY <3>1, <3>2
  <2>. HIDE DEF existing
  <2>4. w \in StudentOp /\ w.kind = "submit" /\ w.phone = o.phone /\ w.actor = o.actor
        /\ w.existing = existing /\ w.pc = "write"
    BY <2>1, <2>2 DEF StudentOp
  <2>5. Filling(w) = Filling(o)
    BY <2>4 DEF Filling
  <2>. QED BY <2>1, <2>3, <2>4, <2>5 DEF Knows
<1>. QED BY <1>2, <1>3

-----------------------------------------------------------------------------
(* What the steps do to the tables.                                         *)

\* Ids are not used twice, and whoever has filled in a registration stays on record.
OwnersStay ==
  /\ created <= created'
  /\ \A i \in Reg : i <= created =>
       fills[i] \subseteq fills'[i] /\ (reg'[i] # NULL => reg[i] # NULL)

\* A pass goes only with its registration or before the eyes of its approvers.
PassesStay ==
  /\ raced \subseteq raced'
  /\ \A i \in Reg : pass[i] # NULL /\ pass'[i] = NULL =>
       \/ reg'[i] = NULL
       \/ \A g \in Handler : op[g].kind = "APPROVE" /\ op[g].id = i => i \in raced'

\* Seats are left where they are: registrations may go, claims may be given up.
SeatsStay ==
  /\ created' = created /\ fills' = fills
  /\ \A f \in Form : claim'[f] \in {claim[f], Unclaimed}
  /\ \A i \in Reg : reg'[i] # NULL =>
       /\ reg[i] # NULL /\ reg'[i].form = reg[i].form
       /\ reg'[i].user = reg[i].user /\ reg'[i].phone = reg[i].phone

-----------------------------------------------------------------------------
(* Types.                                                                   *)

\* One slot changes, and what it takes is a request.
LEMMA SlotTakes ==
  ASSUME TypeOK, NEW h \in Handler, NEW x \in StudentOp \cup DeskOp \cup {Idle},
         op' = [op EXCEPT ![h] = x]
  PROVE  /\ op' \in [Handler -> StudentOp \cup DeskOp \cup {Idle}]
         /\ op'[h] = x /\ \A g \in Handler \ {h} : op'[g] = op[g]
BY DEF TypeOK

LEMMA EndTakesNothing ==
  ASSUME TypeOK, NEW h \in Handler, End(h)
  PROVE  /\ op' \in [Handler -> StudentOp \cup DeskOp \cup {Idle}]
         /\ op'[h] = Idle /\ \A g \in Handler \ {h} : op'[g] = op[g]
BY SlotTakes DEF End

\* A request at one of a student's steps is a student's, one of the desk's the
\* desk's.
LEMMA KindsApart ==
  ASSUME TypeOK, NEW h \in Handler
  PROVE  /\ AtPc(h, "form") \/ AtPc(h, "claimant") \/ AtPc(h, "heal") => op[h] \in StudentOp
         /\ op[h] # Idle /\ op[h].kind = "submit" => op[h] \in StudentOp
         /\ op[h] # Idle /\ op[h].kind \notin {"submit", "lookup"} => op[h] \in DeskOp
         /\ op[h] \in DeskOp => op[h] # Idle /\ op[h].kind \notin {"submit", "lookup"}
         /\ op[h] \in StudentOp => op[h] # Idle
BY DEF TypeOK, AtPc, StudentOp, DeskOp, Idle, Reviews

LEMMA BeginsTypeOK ==
  ASSUME TypeOK, NEW h \in Handler, NEW x \in StudentOp \cup DeskOp, Begin(h, x)
  PROVE  TypeOK' /\ op'[h] = x /\ \A g \in Handler \ {h} : op'[g] = op[g]
<1>1. started' \in 0..MaxOps
  BY RegistrationBounds DEF Begin, TypeOK
<1>2. op' \in [Handler -> StudentOp \cup DeskOp \cup {Idle}]
      /\ op'[h] = x /\ \A g \in Handler \ {h} : op'[g] = op[g]
  BY SlotTakes DEF Begin
<1>. QED BY <1>1, <1>2 DEF TypeOK, Begin, tables

\* A row of a registration changes, and its pass.
LEMMA RowsTypeOK ==
  ASSUME TypeOK, NEW i \in Reg, NEW r \in RegRow, NEW p \in PassRow \cup {NULL},
         NEW n \in 0..MaxIssue, issued[i] <= n, p # NULL => p.gen <= n, i <= created',
         created' \in 0..MaxReg, created <= created',
         reg' = [reg EXCEPT ![i] = r], pass' = [pass EXCEPT ![i] = p],
         issued' = [issued EXCEPT ![i] = n]
  PROVE  /\ reg' \in [Reg -> RegRow \cup {NULL}]
         /\ pass' \in [Reg -> PassRow \cup {NULL}]
         /\ issued' \in [Reg -> 0..MaxIssue]
         /\ \A j \in Reg : /\ pass'[j] # NULL => reg'[j] # NULL /\ pass'[j].gen <= issued'[j]
                           /\ reg'[j] # NULL => j <= created'
BY NullIsNoRow, RegistrationBounds DEF TypeOK, PassRow, Reg

\* What reading the form number's row leaves of a request (lookupFormNumber,
\* submitRegistration): one that waits for the claimant has read of a claimant who
\* has filled the registration in.
LEMMA ReadFormFacts ==
  ASSUME IInv, NEW h \in Handler, ReadForm(h)
  PROVE  \E x \in StudentOp \cup {Idle} : Knows(x) /\ op' = [op EXCEPT ![h] = x]
<1>. USE DEF IInv
<1>. DEFINE f == op[h].form
            row == [by |-> claim[f].by, reg |-> See(OnForm(f))]
            o == [op[h] EXCEPT !.row = row]
<1>1. op[h] \in StudentOp /\ f \in Form /\ op[h].pc = "form" /\ Knows(op[h])
  BY KindsApart DEF ReadForm, AtPc, StudentOp, RequestsKnow
<1>2. claim[f] \in Claim /\ claim[f].claimed \in BOOLEAN
  BY <1>1 DEF TypeOK, Claim
<1>3. OnForm(f) \in SUBSET Reg /\ \A i \in OnForm(f) : reg[i] # NULL /\ reg[i].form = f
  BY DEF OnForm
<1>4. /\ See(OnForm(f)) \in Seen \cup {NULL}
      /\ See(OnForm(f)) # NULL =>
           /\ Remembered(See(OnForm(f)))
           /\ claim[f].by # NULL => \E v \in fills[See(OnForm(f)).id] : v.actor = claim[f].by
  <2>1. CASE OnForm(f) = {}
    BY <1>3, <2>1, SeeFacts
  <2>2. CASE OnForm(f) # {}
    <3>1. /\ See(OnForm(f)) \in Seen /\ See(OnForm(f)).id \in OnForm(f)
          /\ Remembered(See(OnForm(f)))
      BY <1>3, <2>2, SeeFacts
    <3>2. PICK i \in OnForm(f) : i = See(OnForm(f)).id
      BY <3>1
    <3>3. claim[f].by # NULL => \E v \in fills[i] : v.actor = claim[f].by
      BY <1>3 DEF Recorded
    <3>. QED BY <3>1, <3>2, <3>3
  <2>. QED BY <2>1, <2>2
<1>5. row \in Row
  BY <1>2, <1>4 DEF Row, Claim
<1>. HIDE DEF f, row
<1>6. o \in StudentOp /\ o.row = row /\ o.kind = op[h].kind /\ o.phone = op[h].phone
      /\ o.actor = op[h].actor /\ o.existing = op[h].existing /\ o.pc = "form"
  BY <1>1, <1>5 DEF StudentOp
<1>7. Knows(o)
  BY <1>1, <1>6 DEF Knows, Filling
<1>8. row.by = claim[f].by /\ row.reg = See(OnForm(f))
  BY DEF row
<1>. DEFINE x == IF ~claim[f].claimed THEN Settled(o, FALSE)
                 ELSE IF o.row.reg = NULL THEN [o EXCEPT !.pc = "heal"]
                 ELSE IF o.row.by # NULL THEN [o EXCEPT !.pc = "claimant"]
                 ELSE Settled(o, TRUE)
<1>9. op' = [op EXCEPT ![h] = x]
  BY DEF ReadForm, f, row
<1>. HIDE DEF o
<1>10. CASE ~claim[f].claimed
  BY <1>6, <1>7, <1>9, <1>10, SettledFacts
<1>11. CASE claim[f].claimed /\ o.row.reg = NULL
  <2>1. [o EXCEPT !.pc = "heal"] \in StudentOp /\ Knows([o EXCEPT !.pc = "heal"])
    BY <1>6, <1>7 DEF StudentOp, Knows, Filling
  <2>. QED BY <1>9, <1>11, <2>1
<1>12. CASE claim[f].claimed /\ o.row.reg # NULL /\ o.row.by # NULL
  <2>1. [o EXCEPT !.pc = "claimant"] \in StudentOp /\ Knows([o EXCEPT !.pc = "claimant"])
    BY <1>4, <1>5, <1>6, <1>7, <1>8, <1>12 DEF StudentOp, Knows, Filling
  <2>. QED BY <1>9, <1>12, <2>1
<1>13. CASE claim[f].claimed /\ o.row.reg # NULL /\ o.row.by = NULL
  <2>1. Settled(o, TRUE) \in StudentOp \cup {Idle} /\ Knows(Settled(o, TRUE))
    BY <1>4, <1>5, <1>6, <1>7, <1>8, <1>13, SettledFacts
  <2>. QED BY <1>9, <1>13, <2>1
<1>. QED BY <1>2, <1>10, <1>11, <1>12, <1>13

LEMMA ReadClaimantFacts ==
  ASSUME IInv, NEW h \in Handler, ReadClaimant(h)
  PROVE  \E x \in StudentOp \cup {Idle} : Knows(x) /\ op' = [op EXCEPT ![h] = x]
<1>1. op[h] \in StudentOp /\ op[h].pc = "claimant" /\ Knows(op[h])
  BY KindsApart DEF ReadClaimant, AtPc, RequestsKnow, IInv
<1>2. Settled(op[h], TRUE) \in StudentOp \cup {Idle} /\ Knows(Settled(op[h], TRUE))
  <2>1. op[h].kind = "submit" =>
           /\ op[h].row \in Row /\ op[h].row.reg # NULL /\ Remembered(op[h].row.reg)
           /\ op[h].row.by # NULL =>
                \E v \in fills[op[h].row.reg.id] : v.actor = op[h].row.by
    BY <1>1 DEF Knows
  <2>. QED BY <1>1, <2>1, SettledFacts
<1>3. [op[h] EXCEPT !.pc = "heal"] \in StudentOp /\ Knows([op[h] EXCEPT !.pc = "heal"])
  BY <1>1 DEF StudentOp, Knows, Filling
<1>. QED BY <1>2, <1>3 DEF ReadClaimant

LEMMA HealFacts ==
  ASSUME IInv, NEW h \in Handler, Heal(h)
  PROVE  \E x \in StudentOp \cup {Idle} : Knows(x) /\ op' = [op EXCEPT ![h] = x]
<1>1. op[h] \in StudentOp /\ Knows(op[h])
  BY KindsApart DEF Heal, RequestsKnow, IInv
<1>2. Settled(op[h], FALSE) \in StudentOp \cup {Idle} /\ Knows(Settled(op[h], FALSE))
  BY <1>1, SettledFacts
<1>. QED BY <1>2 DEF Heal

LEMMA StudentReadsTypeOK ==
  ASSUME IInv, NEW h \in Handler, Lookup(h) \/ AskToSubmit(h) \/ ReadForm(h) \/ ReadClaimant(h)
  PROVE  TypeOK'
<1>. USE DEF IInv
<1>1. CASE Lookup(h)
  <2>1. PICK f \in Form :
          Begin(h, [kind |-> "lookup", pc |-> "form", actor |-> NULL, form |-> f,
                    phone |-> NULL, auto |-> FALSE, row |-> NULL, existing |-> NULL])
    BY <1>1 DEF Lookup
  <2>2. [kind |-> "lookup", pc |-> "form", actor |-> NULL, form |-> f,
         phone |-> NULL, auto |-> FALSE, row |-> NULL, existing |-> NULL] \in StudentOp
    BY DEF StudentOp
  <2>. QED BY <2>1, <2>2, BeginsTypeOK
<1>2. CASE AskToSubmit(h)
  <2>. DEFINE x(a, f, p, auto) ==
         [kind |-> "submit", pc |-> "form", actor |-> a, form |-> f, phone |-> p,
          auto |-> auto, row |-> NULL, existing |-> IF a = NULL THEN NULL ELSE See(OfUser(a))]
  <2>1. PICK a \in (User \ banned) \cup {NULL}, f \in Form, p \in Phone, auto \in BOOLEAN :
          Begin(h, x(a, f, p, auto))
    BY <1>2 DEF AskToSubmit
  <2>2. OfUser(a) \in SUBSET Reg /\ \A i \in OfUser(a) : reg[i] # NULL
    BY DEF OfUser
  <2>3. (IF a = NULL THEN NULL ELSE See(OfUser(a))) \in Seen \cup {NULL}
    BY <2>2, SeeFacts
  <2>4. x(a, f, p, auto) \in StudentOp
    BY <2>3 DEF StudentOp
  <2>. HIDE DEF x
  <2>. QED BY <2>1, <2>4, BeginsTypeOK
<1>3. ASSUME ReadForm(h) \/ ReadClaimant(h) PROVE TypeOK'
  <2>1. PICK x \in StudentOp \cup {Idle} : op' = [op EXCEPT ![h] = x]
    BY <1>3, ReadFormFacts, ReadClaimantFacts
  <2>2. op' \in [Handler -> StudentOp \cup DeskOp \cup {Idle}]
    BY <2>1, SlotTakes
  <2>. QED BY <1>3, <2>2 DEF TypeOK, ReadForm, ReadClaimant, tables
<1>. QED BY <1>1, <1>2, <1>3

LEMMA SeatsTypeOK ==
  ASSUME IInv, NEW h \in Handler, Resubmit(h) \/ Submit(h)
  PROVE  TypeOK'
<1>. USE DEF IInv
<1>. DEFINE o == op[h]
<1>1. op[h] \in StudentOp /\ o.phone \in Phone /\ o.form \in Form /\ o.actor \in User \cup {NULL}
  BY KindsApart DEF Resubmit, Submit, AtPc, RequestsKnow, Knows, StudentOp
<1>2. claim' \in [Form -> Claim]
  <2>1. claim' = Claims(o)
    BY DEF Resubmit, Submit
  <2>2. ASSUME NEW f \in Form PROVE Claims(o)[f] \in Claim
    BY <1>1, <2>2 DEF Claims, TypeOK, Claim, Unclaimed
  <2>. QED BY <2>1, <2>2 DEF Claims
<1>3. op' \in [Handler -> StudentOp \cup DeskOp \cup {Idle}]
  BY EndTakesNothing DEF Resubmit, Submit
<1>. DEFINE Fillings == [actor : User \cup {NULL}, phone : Phone]
<1>f. Filling(o) \in Fillings
  BY <1>1 DEF Filling
<1>4. CASE Resubmit(h)
  <2>. DEFINE i == o.existing.id
              kept == IF o.existing.pass = NULL THEN pass[i] ELSE NULL
              r == [reg[i] EXCEPT !.form = o.form, !.phone = o.phone,
                                  !.status = IF o.auto THEN "APPROVED" ELSE "PENDING_REVIEW"]
              p == IF o.auto THEN NewPass(i) ELSE kept
              n == IF o.auto THEN issued[i] + 1 ELSE issued[i]
  <2>1. i \in Reg /\ reg[i] \in RegRow /\ i <= created
    BY <1>1, <1>4 DEF StudentOp, Seen, Resubmit, TypeOK
  <2>2. r \in RegRow
    BY <1>1, <2>1 DEF RegRow, Statuses
  <2>3. o.auto => issued[i] < MaxIssue
    BY <1>4 DEF Resubmit
  <2>4. n \in 0..MaxIssue /\ issued[i] <= n
    BY <2>1, <2>3, RegistrationBounds DEF TypeOK
  <2>5. p \in PassRow \cup {NULL} /\ (p # NULL => p.gen <= n)
    BY <2>1, <2>3, RegistrationBounds DEF TypeOK, PassRow, NewPass
  <2>6. /\ reg' = [reg EXCEPT ![i] = r] /\ pass' = [pass EXCEPT ![i] = p]
        /\ issued' = [issued EXCEPT ![i] = n]
    BY <1>4, <2>1 DEF Resubmit, TypeOK
  <2>7. created' = created /\ started' = started /\ banned' = banned /\ raced' \subseteq Reg
    BY <1>4, <2>1 DEF Resubmit, TypeOK
  <2>f. fills' \in [Reg -> SUBSET Fillings]
    BY <1>4, <1>f, <2>1 DEF Resubmit, TypeOK
  <2>. HIDE DEF i, kept, r, p, n
  <2>8. i <= created' /\ created' \in 0..MaxReg /\ created <= created'
    BY <2>1, <2>7, RegistrationBounds DEF TypeOK
  <2>9. /\ reg' \in [Reg -> RegRow \cup {NULL}] /\ pass' \in [Reg -> PassRow \cup {NULL}]
        /\ issued' \in [Reg -> 0..MaxIssue]
        /\ \A j \in Reg : /\ pass'[j] # NULL => reg'[j] # NULL /\ pass'[j].gen <= issued'[j]
                          /\ reg'[j] # NULL => j <= created'
    BY <2>1, <2>2, <2>4, <2>5, <2>6, <2>8, RowsTypeOK
  <2>. QED BY <1>2, <1>3, <2>7, <2>f, <2>8, <2>9 DEF TypeOK
<1>5. CASE Submit(h)
  <2>. DEFINE i == created + 1
              r == [user |-> o.actor, form |-> o.form, phone |-> o.phone,
                    status |-> IF o.auto THEN "APPROVED" ELSE "PENDING_REVIEW"]
              p == IF o.auto THEN NewPass(i) ELSE NULL
              n == IF o.auto THEN issued[i] + 1 ELSE issued[i]
  <2>1. i \in Reg /\ i \in 0..MaxReg
    BY <1>5, RegistrationBounds DEF Submit, TypeOK, Reg
  <2>2. r \in RegRow
    BY <1>1 DEF RegRow, Statuses
  <2>3. o.auto => issued[i] < MaxIssue
    BY <1>5 DEF Submit
  <2>4. n \in 0..MaxIssue /\ issued[i] <= n
    BY <2>1, <2>3, RegistrationBounds DEF TypeOK
  <2>5. p \in PassRow \cup {NULL} /\ (p # NULL => p.gen <= n)
    BY <2>1, <2>3, RegistrationBounds DEF TypeOK, PassRow, NewPass
  <2>6. /\ reg' = [reg EXCEPT ![i] = r] /\ pass' = [pass EXCEPT ![i] = p]
        /\ issued' = [issued EXCEPT ![i] = n]
    BY <1>5, <2>1 DEF Submit, TypeOK
  <2>7. created' = i /\ started' = started /\ banned' = banned /\ raced' = raced
    BY <1>5 DEF Submit
  <2>f. fills' \in [Reg -> SUBSET Fillings]
    BY <1>5, <1>f, <2>1 DEF Submit, TypeOK
  <2>8. created \in Nat /\ created <= i
    BY RegistrationBounds DEF TypeOK
  <2>. HIDE DEF i, r, p, n
  <2>9. created <= created' /\ i <= created' /\ created' \in 0..MaxReg
    BY <2>1, <2>7, <2>8, RegistrationBounds DEF Reg
  <2>. QED BY <1>2, <1>3, <2>1, <2>2, <2>4, <2>5, <2>6, <2>7, <2>f, <2>9, RowsTypeOK DEF TypeOK
<1>. QED BY <1>4, <1>5
\* The steps of the review desk that change a registration's status, and its pass
\* at most by issuing or revoking one.
LEMMA ReviewTypeOK ==
  ASSUME IInv, NEW h \in Handler,
         \/ Approve(h) \/ RequestRevision(h) \/ Reject(h)
         \/ UndoRegistrationReview(h) \/ ReplaceSelfie(h)
  PROVE  TypeOK'
<1>. USE DEF IInv
<1>. DEFINE i == op[h].id
<1>1. op[h] \in DeskOp /\ i \in Reg /\ reg[i] \in RegRow /\ i <= created
  <2>1. op[h] \in DeskOp
    BY KindsApart DEF Approve, RequestRevision, Reject, UndoRegistrationReview, ReplaceSelfie,
                      Writes, AtPc
  <2>2. reg[i] # NULL
    BY DEF Approve, RequestRevision, Reject, UndoRegistrationReview, ReplaceSelfie, SetStatus
  <2>. QED BY <2>1, <2>2 DEF DeskOp, TypeOK
<1>2. PICK s \in Statuses : reg' = [reg EXCEPT ![i] = [reg[i] EXCEPT !.status = s]]
  <2>1. \E s \in Statuses : SetStatus(i, s)
    BY DEF Approve, RequestRevision, Reject, UndoRegistrationReview, ReplaceSelfie, Statuses
  <2>. QED BY <1>1, <2>1 DEF SetStatus, TypeOK
<1>3. [reg[i] EXCEPT !.status = s] \in RegRow
  BY <1>1 DEF RegRow
<1>4. \E p \in PassRow \cup {NULL}, n \in 0..MaxIssue :
        /\ issued[i] <= n /\ (p # NULL => p.gen <= n)
        /\ pass' = [pass EXCEPT ![i] = p] /\ issued' = [issued EXCEPT ![i] = n]
  <2>. DEFINE Same == pass' = pass /\ issued' = issued
  <2>1. CASE Same
    <3>1. pass' = [pass EXCEPT ![i] = pass[i]] /\ issued' = [issued EXCEPT ![i] = issued[i]]
      BY <1>1, <2>1 DEF TypeOK
    <3>2. /\ pass[i] \in PassRow \cup {NULL} /\ issued[i] \in 0..MaxIssue
          /\ pass[i] # NULL => pass[i].gen <= issued[i]
      BY <1>1 DEF TypeOK
    <3>3. issued[i] <= issued[i]
      BY <3>2, RegistrationBounds
    <3>. HIDE DEF i
    <3>. QED BY <3>1, <3>2, <3>3
  <2>2. CASE Approve(h) /\ ~Same
    <3>1. /\ issued[i] < MaxIssue /\ pass' = [pass EXCEPT ![i] = NewPass(i)]
          /\ issued' = [issued EXCEPT ![i] = issued[i] + 1]
      BY <2>2, <1>1 DEF Approve, TypeOK
    <3>2. issued[i] \in 0..MaxIssue
      BY <1>1 DEF TypeOK
    <3>3. NewPass(i) \in PassRow /\ NewPass(i).gen <= issued[i] + 1
          /\ issued[i] + 1 \in 0..MaxIssue /\ issued[i] <= issued[i] + 1
      BY <3>1, <3>2, RegistrationBounds DEF NewPass, PassRow
    <3>. QED BY <3>1, <3>3
  <2>3. CASE UndoRegistrationReview(h) /\ ~Same
    <3>1. /\ pass[i] # NULL /\ issued' = issued
          /\ pass' = [pass EXCEPT ![i] = [pass[i] EXCEPT !.status = "REVOKED"]]
      BY <2>3, <1>1 DEF UndoRegistrationReview, SamePass, TypeOK
    <3>2. pass[i] \in PassRow /\ issued[i] \in 0..MaxIssue /\ pass[i].gen <= issued[i]
      BY <1>1, <3>1 DEF TypeOK
    <3>3. /\ [pass[i] EXCEPT !.status = "REVOKED"] \in PassRow
          /\ [pass[i] EXCEPT !.status = "REVOKED"].gen = pass[i].gen
      BY <3>2 DEF PassRow
    <3>4. issued' = [issued EXCEPT ![i] = issued[i]] /\ issued[i] <= issued[i]
      BY <1>1, <3>1, <3>2, RegistrationBounds DEF TypeOK
    <3>. QED BY <3>1, <3>2, <3>3, <3>4
  <2>. QED BY <2>1, <2>2, <2>3 DEF RequestRevision, Reject, ReplaceSelfie
<1>5. op' \in [Handler -> StudentOp \cup DeskOp \cup {Idle}]
  <2>1. CASE End(h)
    BY <2>1, EndTakesNothing
  <2>2. CASE Reject(h)
    <3>1. [op[h] EXCEPT !.pc = "revoke"] \in DeskOp
      BY <1>1 DEF DeskOp
    <3>. QED BY <2>2, <3>1, SlotTakes DEF Reject
  <2>. QED BY <2>1, <2>2 DEF Approve, RequestRevision, UndoRegistrationReview, ReplaceSelfie
<1>6. UNCHANGED <<claim, banned, created, started, raced, fills>>
  BY DEF Approve, RequestRevision, Reject, UndoRegistrationReview, ReplaceSelfie
<1>7. created' \in 0..MaxReg /\ created <= created' /\ i <= created'
  BY <1>1, <1>6, RegistrationBounds DEF TypeOK
<1>8. /\ reg' \in [Reg -> RegRow \cup {NULL}] /\ pass' \in [Reg -> PassRow \cup {NULL}]
      /\ issued' \in [Reg -> 0..MaxIssue]
      /\ \A j \in Reg : /\ pass'[j] # NULL => reg'[j] # NULL /\ pass'[j].gen <= issued'[j]
                        /\ reg'[j] # NULL => j <= created'
  <2>. HIDE DEF i
  <2>. QED BY <1>1, <1>2, <1>3, <1>4, <1>7, RowsTypeOK
<1>. QED BY <1>5, <1>6, <1>7, <1>8 DEF TypeOK

\* The steps that change a pass only: revoking, restoring, and the gate.
LEMMA PassTypeOK ==
  ASSUME IInv,
         \/ \E h \in Handler : RevokePass(h) \/ RestorePass(h)
         \/ \E i \in Reg : CheckIn(i)
  PROVE  TypeOK'
<1>. USE DEF IInv
<1>1. PICK i \in Reg : \E p \in PassRow :
        /\ pass[i] # NULL /\ p.gen = pass[i].gen /\ pass' = [pass EXCEPT ![i] = p]
  <2>1. ASSUME NEW h \in Handler, RevokePass(h) \/ RestorePass(h)
        PROVE  \E i \in Reg, s \in {"ACTIVE", "REVOKED"} :
                 pass[i] # NULL /\ pass' = [pass EXCEPT ![i] = [pass[i] EXCEPT !.status = s]]
    <3>1. op[h] \in DeskOp
      BY <2>1, KindsApart DEF RevokePass, RestorePass, WasActive, Writes, AtPc, StudentOp, TypeOK
    <3>. QED BY <2>1, <3>1 DEF RevokePass, RestorePass, SamePass, DeskOp, TypeOK
  <2>2. ASSUME NEW i \in Reg, CheckIn(i)
        PROVE  pass[i] # NULL /\ pass' = [pass EXCEPT ![i] = [pass[i] EXCEPT !.inside = ~@]]
    BY <2>2 DEF CheckIn, TypeOK
  <2>3. ASSUME NEW i \in Reg, pass[i] # NULL, NEW s \in {"ACTIVE", "REVOKED"}
        PROVE  /\ [pass[i] EXCEPT !.status = s] \in PassRow
               /\ [pass[i] EXCEPT !.status = s].gen = pass[i].gen
               /\ [pass[i] EXCEPT !.inside = ~@] \in PassRow
               /\ [pass[i] EXCEPT !.inside = ~@].gen = pass[i].gen
    <3>1. pass[i] \in PassRow
      BY <2>3 DEF TypeOK
    <3>. QED BY <3>1 DEF PassRow
  <2>4. ASSUME NEW h \in Handler, RevokePass(h) \/ RestorePass(h)
        PROVE  \E i \in Reg : \E p \in PassRow :
                 pass[i] # NULL /\ p.gen = pass[i].gen /\ pass' = [pass EXCEPT ![i] = p]
    BY <2>1, <2>3, <2>4
  <2>5. ASSUME NEW i \in Reg, CheckIn(i)
        PROVE  \E p \in PassRow :
                 pass[i] # NULL /\ p.gen = pass[i].gen /\ pass' = [pass EXCEPT ![i] = p]
    BY <2>2, <2>3, <2>5
  <2>. QED BY <2>4, <2>5
<1>2. op' \in [Handler -> StudentOp \cup DeskOp \cup {Idle}]
  BY EndTakesNothing DEF RevokePass, RestorePass, CheckIn, TypeOK
<1>3. UNCHANGED <<claim, reg, banned, created, issued, started, raced, fills>>
  BY DEF RevokePass, RestorePass, CheckIn
<1>. QED BY <1>1, <1>2, <1>3 DEF TypeOK

LEMMA OtherStepsTypeOK ==
  ASSUME IInv, NEW h \in Handler,
         \/ Heal(h) \/ SetUserActiveStatus(h) \/ DeleteRegistrationCompletely(h) \/ Abandon(h)
         \/ \E i \in Reg, kind \in Reviews \cup {"revoke", "restore", "undo", "ban", "unban",
                                                 "delete", "retake"} : Open(h, i, kind)
  PROVE  TypeOK'
<1>. USE DEF IInv
<1>1. CASE Heal(h)
  <2>1. op[h].form \in Form
    BY <1>1, KindsApart DEF Heal, StudentOp
  <2>2. claim' \in [Form -> Claim]
    BY <1>1, <2>1 DEF Heal, TypeOK, Claim, Unclaimed
  <2>3. op' \in [Handler -> StudentOp \cup DeskOp \cup {Idle}]
    BY <1>1, HealFacts, SlotTakes
  <2>. QED BY <1>1, <2>2, <2>3 DEF Heal, TypeOK
<1>2. CASE SetUserActiveStatus(h)
  <2>1. op[h] \in DeskOp
    BY <1>2, KindsApart DEF SetUserActiveStatus, Writes, AtPc
  <2>2. op[h].user \in User
    BY <1>2, <2>1 DEF SetUserActiveStatus, Writes, AtPc, RequestsKnow, Minds, DeskOp
  <2>3. [op[h] EXCEPT !.pc = "revoke"] \in DeskOp
    BY <2>1 DEF DeskOp
  <2>4. op' \in [Handler -> StudentOp \cup DeskOp \cup {Idle}]
    BY <1>2, <2>3, SlotTakes DEF SetUserActiveStatus
  <2>5. banned' \subseteq User
    BY <1>2, <2>2 DEF SetUserActiveStatus, TypeOK
  <2>. QED BY <1>2, <2>4, <2>5 DEF SetUserActiveStatus, TypeOK
<1>3. CASE DeleteRegistrationCompletely(h)
  <2>1. op[h] \in DeskOp
    BY <1>3, KindsApart DEF DeleteRegistrationCompletely, Writes, AtPc
  <2>2. op[h].id \in Reg /\ op[h].form \in Form
    BY <2>1 DEF DeskOp
  <2>3. claim' \in [Form -> Claim]
    BY <1>3, <2>2 DEF DeleteRegistrationCompletely, TypeOK, Claim, Unclaimed
  <2>4. op' \in [Handler -> StudentOp \cup DeskOp \cup {Idle}]
    BY <1>3, EndTakesNothing DEF DeleteRegistrationCompletely
  <2>. QED BY <1>3, <2>2, <2>3, <2>4 DEF DeleteRegistrationCompletely, WithoutPass, TypeOK
<1>4. CASE Abandon(h)
  BY <1>4, EndTakesNothing DEF Abandon, TypeOK, tables
<1>5. ASSUME NEW i \in Reg, NEW kind \in Reviews \cup {"revoke", "restore", "undo", "ban", "unban",
                                                       "delete", "retake"}, Open(h, i, kind)
      PROVE  TypeOK'
  <2>. DEFINE x == [kind |-> kind,
                    pc |-> IF kind = "revoke" \/ (kind = "ban" /\ reg[i].user = NULL)
                             THEN "revoke" ELSE "write",
                    id |-> i, form |-> reg[i].form, user |-> reg[i].user, pass |-> pass[i]]
  <2>1. reg[i] \in RegRow /\ pass[i] \in PassRow \cup {NULL}
    BY <1>5 DEF Open, TypeOK
  <2>2. x \in DeskOp
    BY <2>1 DEF DeskOp, RegRow
  <2>3. Begin(h, x)
    BY <1>5 DEF Open
  <2>. QED BY <2>2, <2>3, BeginsTypeOK
<1>. QED BY <1>1, <1>2, <1>3, <1>4, <1>5
LEMMA TypeStep == IInv /\ [Next]_vars => TypeOK'
<1>1. ASSUME IInv, NEW h \in Handler, Student(h) \/ Desk(h) \/ Abandon(h) PROVE TypeOK'
  <2>1. CASE Lookup(h) \/ AskToSubmit(h) \/ ReadForm(h) \/ ReadClaimant(h)
    BY <1>1, <2>1, StudentReadsTypeOK
  <2>2. CASE Submit(h) \/ Resubmit(h)
    BY <1>1, <2>2, SeatsTypeOK
  <2>3. CASE \/ Approve(h) \/ RequestRevision(h) \/ Reject(h)
             \/ UndoRegistrationReview(h) \/ ReplaceSelfie(h)
    BY <1>1, <2>3, ReviewTypeOK
  <2>4. CASE RevokePass(h) \/ RestorePass(h)
    BY <1>1, <2>4, PassTypeOK
  <2>5. CASE \/ Heal(h) \/ SetUserActiveStatus(h) \/ DeleteRegistrationCompletely(h) \/ Abandon(h)
             \/ \E i \in Reg, kind \in Reviews \cup {"revoke", "restore", "undo", "ban", "unban",
                                                     "delete", "retake"} : Open(h, i, kind)
    BY <1>1, <2>5, OtherStepsTypeOK
  <2>. QED BY <1>1, <2>1, <2>2, <2>3, <2>4, <2>5 DEF Student, Desk
<1>2. ASSUME IInv, NEW i \in Reg, CheckIn(i) PROVE TypeOK'
  BY <1>2, PassTypeOK
<1>3. ASSUME IInv, UNCHANGED vars PROVE TypeOK'
  BY <1>3 DEF IInv, TypeOK, vars, tables
<1>. QED BY <1>1, <1>2, <1>3 DEF Next

-----------------------------------------------------------------------------
(* Registrations and seats.                                                 *)

\* A new registration: its id is new, and neither the form number nor the student
\* has another one.
LEMMA SubmitFacts ==
  ASSUME IInv, NEW h \in Handler, Submit(h)
  PROVE  LET o == op[h]
             i == created + 1
         IN /\ i \in Reg /\ reg[i] = NULL /\ pass[i] = NULL
            /\ created' = i /\ o.form \in Form /\ o.phone \in Phone
            /\ o.actor \in User \cup {NULL}
            /\ claim' = Claims(o) /\ SeatIsFree(o, i) /\ o.existing = NULL
            /\ fills'[i] = {Filling(o)} /\ \A j \in Reg \ {i} : fills'[j] = fills[j]
            /\ reg'[i].form = o.form /\ reg'[i].phone = o.phone /\ reg'[i].user = o.actor
            /\ \A j \in Reg \ {i} : reg'[j] = reg[j] /\ pass'[j] = pass[j]
            /\ reg'[i].status = "APPROVED" => pass'[i] # NULL
<1>. USE DEF IInv
<1>. DEFINE o == op[h]
            i == created + 1
<1>1. o \in StudentOp /\ o.kind = "submit" /\ Knows(o)
  BY KindsApart DEF Submit, AtPc, RequestsKnow
<1>2. created < MaxReg /\ created \in Nat /\ i \in Reg
  BY RegistrationBounds DEF Submit, TypeOK, Reg
<1>3. reg[i] = NULL /\ pass[i] = NULL
  BY <1>2 DEF TypeOK, Reg
<1>4. o.form \in Form /\ o.phone \in Phone /\ o.actor \in User \cup {NULL}
  BY <1>1 DEF StudentOp, Knows
<1>5. /\ claim' = Claims(o) /\ SeatIsFree(o, i) /\ o.existing = NULL /\ created' = i
      /\ reg' = [reg EXCEPT ![i] = [user |-> o.actor, form |-> o.form, phone |-> o.phone,
                                    status |-> IF o.auto THEN "APPROVED" ELSE "PENDING_REVIEW"]]
      /\ pass' = [pass EXCEPT ![i] = IF o.auto THEN NewPass(i) ELSE NULL]
      /\ o.auto => issued[i] < MaxIssue
      /\ fills' = [fills EXCEPT ![i] = {Filling(o)}]
  BY DEF Submit
<1>6. o.auto => NewPass(i) \in PassRow
  BY <1>2, <1>5, RegistrationBounds DEF TypeOK, NewPass, PassRow
<1>. HIDE DEF o, i
<1>7. /\ reg'[i].form = o.form /\ reg'[i].phone = o.phone /\ reg'[i].user = o.actor
      /\ \A j \in Reg \ {i} : reg'[j] = reg[j] /\ pass'[j] = pass[j]
      /\ reg'[i].status = "APPROVED" => o.auto
      /\ pass'[i] = IF o.auto THEN NewPass(i) ELSE NULL
      /\ fills'[i] = {Filling(o)} /\ \A j \in Reg \ {i} : fills'[j] = fills[j]
  BY <1>2, <1>5 DEF TypeOK
<1>. QED BY <1>2, <1>3, <1>4, <1>5, <1>6, <1>7, NullIsNoRow DEF o, i

\* A resubmission: the registration is one the request is acquainted with, and the
\* form number is nobody else's.
LEMMA ResubmitFacts ==
  ASSUME IInv, NEW h \in Handler, Resubmit(h)
  PROVE  LET o == op[h]
             i == o.existing.id
         IN /\ i \in Reg /\ i <= created /\ reg[i] # NULL /\ reg'[i] # NULL
            /\ created' = created /\ o.form \in Form
            /\ o.phone \in Phone /\ o.actor \in User \cup {NULL}
            /\ Acquainted(Filling(o), fills[i]) /\ fills'[i] = fills[i] \cup {Filling(o)}
            /\ \A j \in Reg \ {i} : fills'[j] = fills[j]
            /\ claim' = Claims(o) /\ OnForm(o.form) \subseteq {i}
            /\ reg'[i].form = o.form /\ reg'[i].phone = o.phone /\ reg'[i].user = reg[i].user
            /\ \A j \in Reg \ {i} : reg'[j] = reg[j] /\ pass'[j] = pass[j]
            /\ reg'[i].status = "APPROVED" => pass'[i] # NULL
            /\ pass[i] # NULL /\ pass[i].inside => pass'[i] = pass[i]
            /\ raced \subseteq raced'
            /\ \A g \in Handler : op[g].kind = "APPROVE" /\ op[g].id = i => i \in raced'
<1>. USE DEF IInv
<1>. DEFINE o == op[h]
            i == o.existing.id
            kept == IF o.existing.pass = NULL THEN pass[i] ELSE NULL
<1>1. o \in StudentOp /\ o.kind = "submit" /\ Knows(o) /\ o.existing # NULL
  BY KindsApart DEF Resubmit, AtPc, RequestsKnow
<1>2. i \in Reg /\ reg[i] \in RegRow /\ i <= created /\ Acquainted(Filling(o), fills[i])
  BY <1>1 DEF Resubmit, StudentOp, Seen, TypeOK, Knows
<1>3. o.form \in Form /\ o.phone \in Phone /\ o.actor \in User \cup {NULL}
  BY <1>1 DEF StudentOp, Knows
<1>4. /\ claim' = Claims(o) /\ OnForm(o.form) \subseteq {i} /\ created' = created
      /\ reg' = [reg EXCEPT ![i].form = o.form, ![i].phone = o.phone,
                            ![i].status = IF o.auto THEN "APPROVED" ELSE "PENDING_REVIEW"]
      /\ pass' = [pass EXCEPT ![i] = IF o.auto THEN NewPass(i) ELSE kept]
      /\ o.auto => kept = NULL /\ issued[i] < MaxIssue
      /\ kept # pass[i] => Deletable(pass[i])
      /\ reg[i] # NULL
      /\ fills' = [fills EXCEPT ![i] = fills[i] \cup {Filling(o)}]
  BY DEF Resubmit, SeatIsFree
<1>5. o.auto => NewPass(i) \in PassRow
  BY <1>2, <1>4, RegistrationBounds DEF TypeOK, NewPass, PassRow
<1>6. /\ raced \subseteq raced'
      /\ \A g \in Handler : op[g].kind = "APPROVE" /\ op[g].id = i => i \in raced'
  BY DEF Resubmit
<1>. HIDE DEF o, i, kept
<1>7. /\ reg'[i] \in RegRow
      /\ reg'[i].form = o.form /\ reg'[i].phone = o.phone /\ reg'[i].user = reg[i].user
      /\ \A j \in Reg \ {i} : reg'[j] = reg[j] /\ pass'[j] = pass[j]
      /\ reg'[i].status = "APPROVED" => o.auto
      /\ pass'[i] = IF o.auto THEN NewPass(i) ELSE kept
      /\ fills'[i] = fills[i] \cup {Filling(o)} /\ \A j \in Reg \ {i} : fills'[j] = fills[j]
  BY <1>2, <1>3, <1>4 DEF TypeOK, RegRow, Statuses
<1>8. pass[i] # NULL /\ pass[i].inside => pass'[i] = pass[i]
  BY <1>4, <1>7 DEF Deletable
<1>9. reg'[i] # NULL
  BY <1>7, NullIsNoRow
<1>10. reg'[i].status = "APPROVED" => pass'[i] # NULL
  BY <1>5, <1>7, NullIsNoRow
<1>. QED BY <1>2, <1>3, <1>4, <1>6, <1>7, <1>8, <1>9, <1>10 DEF o, i
\* Every other step leaves seats where they are, takes a pass only with its
\* registration, and approves only with a pass.
LEMMA OtherSteps ==
  ASSUME IInv, Next, \A h \in Handler : ~Submit(h) /\ ~Resubmit(h)
  PROVE  /\ SeatsStay
         /\ raced' = raced
         /\ \A i \in Reg : pass[i] # NULL =>
              \/ reg'[i] = NULL
              \/ pass'[i] # NULL /\ pass'[i].gen = pass[i].gen
<1>. USE DEF IInv
<1>. DEFINE PassesKept ==
       \A i \in Reg : pass[i] # NULL => \/ reg'[i] = NULL
                                        \/ pass'[i] # NULL /\ pass'[i].gen = pass[i].gen
            Goal == SeatsStay /\ raced' = raced /\ PassesKept
<1>1. ASSUME UNCHANGED tables, raced' = raced, fills' = fills PROVE Goal
  BY <1>1 DEF tables, SeatsStay
<1>2. ASSUME NEW h \in Handler, Heal(h) PROVE Goal
  BY <1>2 DEF Heal, SeatsStay, TypeOK
<1>3. ASSUME NEW h \in Handler, NEW s \in Statuses, SetStatus(op[h].id, s), op[h] \in DeskOp,
             UNCHANGED <<claim, created, raced, fills>>, PassesKept
      PROVE  Goal
  <2>1. op[h].id \in Reg /\ reg[op[h].id] \in RegRow
    BY <1>3 DEF SetStatus, DeskOp, TypeOK
  <2>2. \A i \in Reg : reg'[i] # NULL =>
          /\ reg[i] # NULL /\ reg'[i].form = reg[i].form
          /\ reg'[i].user = reg[i].user /\ reg'[i].phone = reg[i].phone
    BY <1>3, <2>1 DEF SetStatus, TypeOK, RegRow
  <2>. QED BY <1>3, <2>2 DEF SeatsStay
<1>4. ASSUME NEW h \in Handler,
             \/ Approve(h) \/ RequestRevision(h) \/ Reject(h)
             \/ UndoRegistrationReview(h) \/ ReplaceSelfie(h)
      PROVE  Goal
  <2>1. op[h] \in DeskOp
    BY <1>4, KindsApart DEF Approve, RequestRevision, Reject, UndoRegistrationReview, ReplaceSelfie,
                            Writes, AtPc
  <2>2. \E s \in Statuses : SetStatus(op[h].id, s)
    BY <1>4 DEF Approve, RequestRevision, Reject, UndoRegistrationReview, ReplaceSelfie, Statuses
  <2>3. UNCHANGED <<claim, created, raced, fills>>
    BY <1>4 DEF Approve, RequestRevision, Reject, UndoRegistrationReview, ReplaceSelfie
  <2>4. PassesKept
    <3>1. CASE pass' = pass
      BY <3>1
    <3>2. CASE Approve(h)
      BY <3>2 DEF Approve, TypeOK
    <3>3. CASE UndoRegistrationReview(h) /\ pass' # pass
      <4>. DEFINE i == op[h].id
      <4>1. i \in Reg /\ pass[i] \in PassRow /\ pass' = [pass EXCEPT ![i].status = "REVOKED"]
        BY <3>3, <2>1 DEF UndoRegistrationReview, SamePass, DeskOp, TypeOK
      <4>2. [pass[i] EXCEPT !.status = "REVOKED"] \in PassRow
            /\ [pass[i] EXCEPT !.status = "REVOKED"].gen = pass[i].gen
        BY <4>1 DEF PassRow
      <4>. QED BY <4>1, <4>2, NullIsNoRow DEF TypeOK
    <3>. QED BY <1>4, <3>1, <3>2, <3>3 DEF RequestRevision, Reject, ReplaceSelfie
  <2>. QED BY <2>1, <2>2, <2>3, <2>4, <1>3
<1>5. ASSUME NEW h \in Handler, SetUserActiveStatus(h) PROVE Goal
  BY <1>5 DEF SetUserActiveStatus, SeatsStay
<1>6. ASSUME NEW i \in Reg, NEW p \in PassRow, pass[i] # NULL, p.gen = pass[i].gen,
             pass' = [pass EXCEPT ![i] = p], UNCHANGED <<claim, reg, created, raced, fills>>
      PROVE  Goal
  BY <1>6, NullIsNoRow DEF SeatsStay, TypeOK
<1>7. ASSUME NEW h \in Handler, RevokePass(h) \/ RestorePass(h) PROVE Goal
  <2>1. op[h] \in DeskOp /\ SamePass(op[h])
    BY <1>7, KindsApart DEF RevokePass, RestorePass, WasActive, Writes, AtPc, StudentOp, TypeOK
  <2>2. PICK s \in {"ACTIVE", "REVOKED"} :
          pass' = [pass EXCEPT ![op[h].id] = [pass[op[h].id] EXCEPT !.status = s]]
    BY <1>7, <2>1 DEF RevokePass, RestorePass, DeskOp, TypeOK
  <2>3. op[h].id \in Reg /\ pass[op[h].id] \in PassRow /\ pass[op[h].id] # NULL
    BY <2>1 DEF SamePass, DeskOp, TypeOK
  <2>4. /\ [pass[op[h].id] EXCEPT !.status = s] \in PassRow
        /\ [pass[op[h].id] EXCEPT !.status = s].gen = pass[op[h].id].gen
    BY <2>3 DEF PassRow
  <2>5. UNCHANGED <<claim, reg, created, raced, fills>>
    BY <1>7 DEF RevokePass, RestorePass
  <2>. HIDE DEF Goal
  <2>. QED BY <2>2, <2>3, <2>4, <2>5, <1>6
<1>8. ASSUME NEW i \in Reg, CheckIn(i) PROVE Goal
  <2>1. pass[i] \in PassRow /\ pass[i] # NULL
    BY <1>8 DEF CheckIn, TypeOK
  <2>2. /\ [pass[i] EXCEPT !.inside = ~@] \in PassRow
        /\ [pass[i] EXCEPT !.inside = ~@].gen = pass[i].gen
    BY <2>1 DEF PassRow
  <2>3. pass' = [pass EXCEPT ![i] = [pass[i] EXCEPT !.inside = ~@]]
        /\ UNCHANGED <<claim, reg, created, raced, fills>>
    BY <1>8 DEF CheckIn
  <2>. HIDE DEF Goal
  <2>. QED BY <2>1, <2>2, <2>3, <1>6
<1>9. ASSUME NEW h \in Handler, DeleteRegistrationCompletely(h) PROVE Goal
  <2>1. op[h] \in DeskOp
    BY <1>9, KindsApart DEF DeleteRegistrationCompletely, Writes, AtPc
  <2>2. op[h].id \in Reg /\ op[h].form \in Form
    BY <2>1 DEF DeskOp
  <2>. QED BY <1>9, <2>2 DEF DeleteRegistrationCompletely, WithoutPass, SeatsStay, TypeOK
<1>10. ASSUME NEW h \in Handler,
              \/ Lookup(h) \/ AskToSubmit(h) \/ ReadForm(h) \/ ReadClaimant(h) \/ Abandon(h)
              \/ \E i \in Reg, kind \in Reviews \cup {"revoke", "restore", "undo", "ban", "unban",
                                                      "delete", "retake"} : Open(h, i, kind)
       PROVE  UNCHANGED tables /\ raced' = raced /\ fills' = fills
  BY <1>10 DEF Lookup, AskToSubmit, ReadForm, ReadClaimant, Abandon, Open, Begin
<1>. HIDE DEF Goal
<1>11. Goal
  BY <1>1, <1>2, <1>4, <1>5, <1>7, <1>8, <1>9, <1>10 DEF Next, Student, Desk
<1>. QED BY <1>11 DEF Goal

LEMMA StaysStep ==
  ASSUME IInv, Next
  PROVE  OwnersStay /\ PassesStay
<1>. USE DEF IInv
<1>0. created \in Nat
  BY RegistrationBounds DEF TypeOK
<1>1. ASSUME NEW h \in Handler, Submit(h) PROVE OwnersStay /\ PassesStay
  <2>1. raced' = raced
    BY <1>1 DEF Submit
  <2>. QED BY <1>0, <1>1, <2>1, SubmitFacts DEF OwnersStay, PassesStay, Reg
<1>2. ASSUME NEW h \in Handler, Resubmit(h) PROVE OwnersStay /\ PassesStay
  BY <1>0, <1>2, ResubmitFacts DEF OwnersStay, PassesStay
<1>3. CASE \A h \in Handler : ~Submit(h) /\ ~Resubmit(h)
  BY <1>0, <1>3, OtherSteps DEF OwnersStay, PassesStay, SeatsStay
<1>. QED BY <1>1, <1>2, <1>3
-----------------------------------------------------------------------------
(* What requests know.                                                      *)

\* A request goes on with what it knew.
LEMMA KnowingStays ==
  ASSUME IInv, TypeOK', OwnersStay, PassesStay, NEW g \in Handler, op'[g] = op[g]
  PROVE  Knows(op[g])' /\ Minds(op[g])'
<1>. DEFINE o == op[g]
<1>1. o \in StudentOp \cup DeskOp \cup {Idle} /\ Knows(o) /\ Minds(o)
  BY DEF IInv, TypeOK, RequestsKnow
<1>2. created \in Nat /\ created' \in Nat
  BY RegistrationBounds DEF IInv, TypeOK
<1>3. ASSUME NEW s \in Seen, s.id <= created
      PROVE  s.id <= created' /\ fills[s.id] \subseteq fills'[s.id]
  <2>1. s.id \in Reg /\ s.id \in Nat
    BY RegistrationBounds DEF Seen, Reg
  <2>. QED BY <1>2, <1>3, <2>1 DEF OwnersStay
<1>4. Knows(op[g])'
  <2>1. CASE o.kind # "submit"
    BY <2>1 DEF Knows
  <2>2. CASE o.kind = "submit"
    <3>1. o \in StudentOp
      BY <1>1, <2>2 DEF DeskOp, Idle, Reviews
    <3>2. o.existing # NULL => o.existing \in Seen
      BY <3>1 DEF StudentOp
    <3>3. o.row \in Row /\ o.row.reg # NULL => o.row.reg \in Seen
      BY DEF Row
    <3>4. o.existing # NULL => /\ o.existing.id <= created'
                               /\ Acquainted(Filling(o), fills'[o.existing.id])
      BY <1>1, <1>3, <2>2, <3>2 DEF Knows, Acquainted
    <3>5. o.pc = "claimant" =>
            /\ o.row \in Row /\ o.row.reg # NULL /\ o.row.reg.id <= created'
            /\ \E v \in fills'[o.row.reg.id] : v.phone = o.row.reg.phone
            /\ o.row.by # NULL => \E v \in fills'[o.row.reg.id] : v.actor = o.row.by
      BY <1>1, <1>3, <2>2, <3>3 DEF Knows, Remembered
    <3>. QED BY <1>1, <2>2, <3>4, <3>5 DEF Knows, Remembered, Acquainted, Filling
  <2>. QED BY <2>1, <2>2
<1>5. Minds(op[g])'
  <2>1. CASE o \notin DeskOp
    BY <2>1 DEF Minds
  <2>2. CASE o \in DeskOp
    <3>1. o.id \in Reg /\ o.id <= created /\ o.id \in Nat
      BY <1>1, <2>2, RegistrationBounds DEF Minds, DeskOp, Reg
    <3>2. o.id <= created' /\ (reg[o.id] = NULL => reg'[o.id] = NULL)
      BY <1>2, <3>1 DEF OwnersStay
    <3>. QED BY <1>1, <2>2, <3>1, <3>2 DEF Minds, PassesStay
  <2>. QED BY <2>1, <2>2
<1>. QED BY <1>4, <1>5

\* What a request knows that has just read: nothing it knows of has changed since.
LEMMA ReadersKnow ==
  ASSUME IInv, NEW h \in Handler, NEW x, Knows(x) /\ Minds(x),
         UNCHANGED <<reg, pass, created, raced, fills>>, op'[h] = x
  PROVE  Knows(op[h])' /\ Minds(op[h])'
BY DEF Knows, Minds, Remembered, Acquainted, Filling

LEMMA BeginnersKnow ==
  ASSUME IInv, NEW h \in Handler,
         \/ Lookup(h) \/ AskToSubmit(h)
         \/ \E i \in Reg, kind \in Reviews \cup {"revoke", "restore", "undo", "ban", "unban",
                                                 "delete", "retake"} : Open(h, i, kind)
  PROVE  /\ \E x : op'[h] = x /\ Knows(x) /\ Minds(x)
         /\ \A g \in Handler \ {h} : op'[g] = op[g]
         /\ UNCHANGED tables /\ raced' = raced /\ fills' = fills
<1>. USE DEF IInv
<1>1. ASSUME NEW x \in StudentOp \cup DeskOp, Begin(h, x), Knows(x), Minds(x)
      PROVE  /\ \E y : op'[h] = y /\ Knows(y) /\ Minds(y)
             /\ \A g \in Handler \ {h} : op'[g] = op[g]
             /\ UNCHANGED tables /\ raced' = raced /\ fills' = fills
  BY <1>1, BeginsTypeOK DEF Begin
<1>2. ASSUME NEW x \in StudentOp PROVE Minds(x)
  BY <1>2 DEF Minds, StudentOp, DeskOp, Reviews
<1>3. CASE Lookup(h)
  <2>. DEFINE x(f) == [kind |-> "lookup", pc |-> "form", actor |-> NULL, form |-> f,
                       phone |-> NULL, auto |-> FALSE, row |-> NULL, existing |-> NULL]
  <2>1. PICK f \in Form : Begin(h, x(f))
    BY <1>3 DEF Lookup
  <2>2. x(f) \in StudentOp /\ Knows(x(f))
    BY DEF StudentOp, Knows
  <2>. HIDE DEF x
  <2>. QED BY <1>1, <1>2, <2>1, <2>2
<1>4. CASE AskToSubmit(h)
  <2>. DEFINE x(a, f, p, auto) ==
         [kind |-> "submit", pc |-> "form", actor |-> a, form |-> f, phone |-> p,
          auto |-> auto, row |-> NULL, existing |-> IF a = NULL THEN NULL ELSE See(OfUser(a))]
  <2>1. PICK a \in (User \ banned) \cup {NULL}, f \in Form, p \in Phone, auto \in BOOLEAN :
          Begin(h, x(a, f, p, auto))
    BY <1>4 DEF AskToSubmit
  <2>2. OfUser(a) \in SUBSET Reg /\ \A i \in OfUser(a) : reg[i] # NULL /\ reg[i].user = a
    BY DEF OfUser
  <2>. DEFINE e == IF a = NULL THEN NULL ELSE See(OfUser(a))
  <2>3. e \in Seen \cup {NULL}
        /\ (e # NULL => a # NULL /\ e.id <= created /\ \E v \in fills[e.id] : v.actor = a)
    <3>1. CASE a = NULL \/ OfUser(a) = {}
      BY <2>2, <3>1, SeeFacts
    <3>2. CASE a # NULL /\ OfUser(a) # {}
      <4>1. e \in Seen /\ e.id \in OfUser(a) /\ Remembered(e)
        BY <2>2, <3>2, SeeFacts
      <4>2. PICK i \in OfUser(a) : i = e.id
        BY <4>1
      <4>3. \E v \in fills[i] : v.actor = a
        BY <2>2, <3>2 DEF Recorded
      <4>. QED BY <3>2, <4>1, <4>2, <4>3 DEF Remembered
    <3>. QED BY <3>1, <3>2
  <2>4. x(a, f, p, auto) = [kind |-> "submit", pc |-> "form", actor |-> a, form |-> f, phone |-> p,
                            auto |-> auto, row |-> NULL, existing |-> e]
    OBVIOUS
  <2>. HIDE DEF x, e
  <2>5. x(a, f, p, auto) \in StudentOp /\ Knows(x(a, f, p, auto))
    BY <2>1, <2>3, <2>4 DEF StudentOp, Knows, Acquainted, Filling
  <2>. QED BY <1>1, <1>2, <2>1, <2>5
<1>5. ASSUME NEW i \in Reg, NEW kind \in Reviews \cup {"revoke", "restore", "undo", "ban", "unban",
                                                       "delete", "retake"}, Open(h, i, kind)
      PROVE  /\ \E y : op'[h] = y /\ Knows(y) /\ Minds(y)
             /\ \A g \in Handler \ {h} : op'[g] = op[g]
             /\ UNCHANGED tables /\ raced' = raced /\ fills' = fills
  <2>. DEFINE x == [kind |-> kind,
                    pc |-> IF kind = "revoke" \/ (kind = "ban" /\ reg[i].user = NULL)
                             THEN "revoke" ELSE "write",
                    id |-> i, form |-> reg[i].form, user |-> reg[i].user, pass |-> pass[i]]
  <2>1. reg[i] \in RegRow /\ pass[i] \in PassRow \cup {NULL} /\ i <= created
    BY <1>5 DEF Open, TypeOK
  <2>2. x \in DeskOp /\ Knows(x)
    BY <2>1 DEF DeskOp, RegRow, Knows, Reviews
  <2>3. kind = "unban" => reg[i].user # NULL
    BY <1>5, NullIsNobody DEF Open, Reviewable, TypeOK, Reviews
  <2>4. Minds(x)
    BY <2>1, <2>3 DEF Minds
  <2>5. Begin(h, x)
    BY <1>5 DEF Open
  <2>. HIDE DEF x
  <2>. QED BY <1>1, <2>2, <2>4, <2>5
<1>. QED BY <1>3, <1>4, <1>5
LEMMA KnowStep == IInv /\ TypeOK' /\ Next => RequestsKnow'
<1>. SUFFICES ASSUME IInv, TypeOK', Next PROVE RequestsKnow'
  OBVIOUS
<1>. USE DEF IInv
<1>1. OwnersStay /\ PassesStay
  BY StaysStep
<1>2. \A x \in StudentOp : Minds(x)
  BY DEF Minds, StudentOp, DeskOp, Reviews
<1>3. Knows(Idle) /\ Minds(Idle)
  BY DEF Knows, Minds, Idle, DeskOp, Reviews
<1>4. ASSUME NEW h \in Handler,
             \A g \in Handler \ {h} : op'[g] = op[g],
             Knows(op[h])' /\ Minds(op[h])'
      PROVE  RequestsKnow'
  BY <1>1, <1>4, KnowingStays DEF RequestsKnow
<1>5. ASSUME NEW h \in Handler, End(h) PROVE RequestsKnow'
  <2>1. op'[h] = Idle /\ \A g \in Handler \ {h} : op'[g] = op[g]
    BY <1>5, EndTakesNothing
  <2>2. Knows(op[h])' /\ Minds(op[h])'
    BY <2>1 DEF Knows, Minds, Idle, DeskOp, Reviews
  <2>. QED BY <1>4, <2>1, <2>2
<1>6. ASSUME NEW h \in Handler,
             \/ Lookup(h) \/ AskToSubmit(h)
             \/ \E i \in Reg, kind \in Reviews \cup {"revoke", "restore", "undo", "ban", "unban",
                                                     "delete", "retake"} : Open(h, i, kind)
      PROVE  RequestsKnow'
  <2>1. PICK x : op'[h] = x /\ Knows(x) /\ Minds(x)
    BY <1>6, BeginnersKnow
  <2>2. UNCHANGED tables /\ raced' = raced /\ fills' = fills /\ \A g \in Handler \ {h} : op'[g] = op[g]
    BY <1>6, BeginnersKnow
  <2>3. Knows(op[h])' /\ Minds(op[h])'
    BY <2>1, <2>2, ReadersKnow DEF tables
  <2>. QED BY <1>4, <2>2, <2>3
<1>7. ASSUME NEW h \in Handler, ReadForm(h) \/ ReadClaimant(h) \/ Heal(h)
      PROVE  RequestsKnow'
  <2>1. PICK x \in StudentOp \cup {Idle} : Knows(x) /\ op' = [op EXCEPT ![h] = x]
    BY <1>7, ReadFormFacts, ReadClaimantFacts, HealFacts
  <2>2. op'[h] = x /\ \A g \in Handler \ {h} : op'[g] = op[g]
    BY <2>1, SlotTakes
  <2>3. UNCHANGED <<reg, pass, created, raced, fills>>
    BY <1>7 DEF ReadForm, ReadClaimant, Heal, tables
  <2>4. Minds(x)
    BY <1>2, <1>3, <2>1
  <2>5. Knows(op[h])' /\ Minds(op[h])'
    BY <2>1, <2>2, <2>3, <2>4, ReadersKnow
  <2>. QED BY <1>4, <2>2, <2>5
<1>8. ASSUME NEW h \in Handler, Reject(h) \/ SetUserActiveStatus(h)
      PROVE  RequestsKnow'
  <2>1. op[h] \in DeskOp /\ op[h].kind \in {"REJECT", "ban", "unban"}
    BY <1>8, KindsApart DEF Reject, SetUserActiveStatus, Writes, AtPc
  <2>. DEFINE y == [op[h] EXCEPT !.pc = "revoke"]
  <2>2. y \in DeskOp /\ y.kind = op[h].kind /\ y.id = op[h].id /\ y.pc = "revoke"
    BY <2>1 DEF DeskOp
  <2>3. PICK x \in {y, Idle} : op' = [op EXCEPT ![h] = x]
    BY <1>8 DEF Reject, SetUserActiveStatus
  <2>4. op'[h] = x /\ \A g \in Handler \ {h} : op'[g] = op[g]
    BY <2>2, <2>3, SlotTakes
  <2>5. op[h].id <= created /\ created' = created
    BY <1>8, <2>1 DEF RequestsKnow, Minds, Reject, SetUserActiveStatus
  <2>. HIDE DEF y
  <2>6. Knows(op[h])' /\ Minds(op[h])'
    BY <2>1, <2>2, <2>4, <2>5, <2>3 DEF Knows, Minds, Idle, DeskOp, Reviews
  <2>. QED BY <1>4, <2>4, <2>6
<1>9. ASSUME NEW i \in Reg, CheckIn(i) PROVE RequestsKnow'
  BY <1>1, <1>9, KnowingStays DEF RequestsKnow, CheckIn
<1>10. ASSUME NEW h \in Handler,
              \/ Submit(h) \/ Resubmit(h) \/ ReplaceSelfie(h) \/ Approve(h) \/ RequestRevision(h)
              \/ RevokePass(h) \/ RestorePass(h) \/ UndoRegistrationReview(h)
              \/ DeleteRegistrationCompletely(h) \/ Abandon(h)
       PROVE  End(h)
  BY <1>10 DEF Submit, Resubmit, ReplaceSelfie, Approve, RequestRevision, RevokePass, RestorePass,
               UndoRegistrationReview, DeleteRegistrationCompletely, Abandon
<1>. QED BY <1>5, <1>6, <1>7, <1>8, <1>9, <1>10 DEF Next, Student, Desk

-----------------------------------------------------------------------------
(* Seats and passes.                                                        *)

LEMMA SeatStep == IInv /\ TypeOK' /\ Next => OneSeatEach' /\ Recorded'
<1>. SUFFICES ASSUME IInv, TypeOK', Next PROVE OneSeatEach' /\ Recorded'
  OBVIOUS
<1>. USE DEF IInv
<1>. DEFINE OnRecord(i) ==
       /\ \E v \in fills'[i] : v.phone = reg'[i].phone
       /\ reg'[i].user # NULL => \E v \in fills'[i] : v.actor = reg'[i].user
       /\ LET by == claim'[reg'[i].form].by IN by # NULL => \E v \in fills'[i] : v.actor = by
<1>1. ASSUME NEW j \in Reg, reg[j] # NULL, reg'[j] # NULL, fills[j] \subseteq fills'[j],
             reg'[j].form = reg[j].form, reg'[j].user = reg[j].user, reg'[j].phone = reg[j].phone,
             claim'[reg[j].form] \in {claim[reg[j].form], Unclaimed}
      PROVE  OnRecord(j)
  <2>1. /\ \E v \in fills[j] : v.phone = reg[j].phone
        /\ reg[j].user # NULL => \E v \in fills[j] : v.actor = reg[j].user
        /\ LET by == claim[reg[j].form].by IN by # NULL => \E v \in fills[j] : v.actor = by
    BY <1>1 DEF Recorded
  <2>2. claim'[reg[j].form].by \in {claim[reg[j].form].by, NULL}
    BY <1>1 DEF Unclaimed
  <2>. QED BY <1>1, <2>1, <2>2
<1>2. CASE SeatsStay
  <2>1. OneSeatEach'
    BY <1>2 DEF SeatsStay, OneSeatEach
  <2>2. ASSUME NEW i \in Reg, reg'[i] # NULL PROVE OnRecord(i)
    <3>1. /\ reg[i] # NULL /\ reg'[i].form = reg[i].form /\ fills' = fills
          /\ reg'[i].user = reg[i].user /\ reg'[i].phone = reg[i].phone
      BY <1>2, <2>2 DEF SeatsStay
    <3>2. reg[i].form \in Form
      BY <3>1 DEF TypeOK, RegRow
    <3>. HIDE DEF OnRecord
    <3>. QED BY <1>1, <1>2, <2>2, <3>1, <3>2 DEF SeatsStay
  <2>. QED BY <2>1, <2>2 DEF Recorded
<1>3. ASSUME NEW h \in Handler, NEW i \in Reg,
             LET o == op[h] IN
             /\ o.form \in Form /\ claim' = Claims(o) /\ OnForm(o.form) \subseteq {i}
             /\ reg'[i].form = o.form /\ reg'[i].phone = o.phone /\ Filling(o) \in fills'[i]
             /\ reg'[i].user # NULL => /\ OfUser(reg'[i].user) \subseteq {i}
                                       /\ \E v \in fills'[i] : v.actor = reg'[i].user
             /\ \A j \in Reg \ {i} : reg'[j] = reg[j] /\ fills'[j] = fills[j]
      PROVE  OneSeatEach' /\ Recorded'
  <2>. DEFINE o == op[h]
  <2>1. ASSUME NEW j \in Reg \ {i}, reg'[j] # NULL
        PROVE  /\ reg[j] # NULL /\ reg'[j] = reg[j] /\ reg[j].form # o.form
               /\ reg[j].user # NULL => reg[j].user # reg'[i].user
    BY <1>3, <2>1 DEF OnForm, OfUser
  <2>2. OneSeatEach'
    BY <1>3, <2>1 DEF OneSeatEach
  <2>3. ASSUME NEW j \in Reg, reg'[j] # NULL PROVE OnRecord(j)
    <3>1. CASE j = i
      <4>1. Filling(o).phone = reg'[i].phone /\ Filling(o).actor = claim'[reg'[i].form].by
        BY <1>3 DEF Filling, Claims
      <4>. QED BY <1>3, <3>1, <4>1
    <3>2. CASE j # i
      <4>1. reg[j].form \in Form
        BY <2>1, <2>3, <3>2 DEF TypeOK, RegRow
      <4>2. claim'[reg[j].form] \in {claim[reg[j].form], Unclaimed}
        BY <1>3, <2>1, <2>3, <3>2, <4>1 DEF Claims
      <4>3. reg[j] # NULL /\ reg'[j] = reg[j] /\ fills[j] \subseteq fills'[j]
        BY <1>3, <2>1, <2>3, <3>2
      <4>. HIDE DEF OnRecord
      <4>. QED BY <1>1, <2>3, <4>2, <4>3
    <3>. QED BY <3>1, <3>2
  <2>. QED BY <2>2, <2>3 DEF Recorded
<1>4. ASSUME NEW h \in Handler, Submit(h) PROVE OneSeatEach' /\ Recorded'
  <2>1. op[h].actor # NULL => OfUser(op[h].actor) = {}
    BY <1>4, SubmitFacts DEF SeatIsFree
  <2>2. created + 1 \in Reg /\ OnForm(op[h].form) \subseteq {created + 1}
    BY <1>4, SubmitFacts DEF SeatIsFree
  <2>3. Filling(op[h]) \in fills'[created + 1] /\ Filling(op[h]).actor = op[h].actor
    BY <1>4, SubmitFacts DEF Filling
  <2>. HIDE DEF OnRecord
  <2>. QED BY <1>3, <1>4, <2>1, <2>2, <2>3, SubmitFacts
<1>5. ASSUME NEW h \in Handler, Resubmit(h) PROVE OneSeatEach' /\ Recorded'
  <2>. DEFINE i == op[h].existing.id
  <2>1. i \in Reg /\ reg[i] # NULL /\ reg'[i].user = reg[i].user
        /\ fills[i] \subseteq fills'[i] /\ Filling(op[h]) \in fills'[i]
    BY <1>5, ResubmitFacts
  <2>2. reg[i].user # NULL => /\ OfUser(reg[i].user) \subseteq {i}
                              /\ \E v \in fills[i] : v.actor = reg[i].user
    BY <2>1 DEF Recorded, OneSeatEach, OfUser
  <2>. QED BY <1>3, <1>5, <2>1, <2>2, ResubmitFacts
<1>. QED BY <1>2, <1>4, <1>5, OtherSteps

LEMMA ApprovedStep == IInv /\ TypeOK' /\ Next => ApprovedHasPass'
<1>. SUFFICES ASSUME IInv, TypeOK', Next,
                     NEW j \in Reg \ raced', reg'[j] # NULL, reg'[j].status = "APPROVED"
              PROVE  pass'[j] # NULL
  BY DEF ApprovedHasPass
<1>. USE DEF IInv
<1>1. raced \subseteq raced'
  BY StaysStep DEF PassesStay
<1>2. CASE reg'[j] = reg[j] /\ pass'[j] = pass[j]
  BY <1>1, <1>2 DEF ApprovedHasPass
<1>3. ASSUME NEW h \in Handler, Submit(h) PROVE pass'[j] # NULL
  BY <1>2, <1>3, SubmitFacts
<1>4. ASSUME NEW h \in Handler, Resubmit(h) PROVE pass'[j] # NULL
  BY <1>2, <1>4, ResubmitFacts
<1>5. CASE \A h \in Handler : ~Submit(h) /\ ~Resubmit(h)
  <2>1. CASE reg[j] # NULL /\ reg[j].status = "APPROVED"
    BY <1>1, <1>5, <2>1, OtherSteps DEF ApprovedHasPass
  <2>2. CASE ~(reg[j] # NULL /\ reg[j].status = "APPROVED")
    <3>1. PICK h \in Handler : Approve(h) /\ op[h].id = j
      <4>1. reg' # reg
        BY <2>2
      <4>2. \A h \in Handler : DeleteRegistrationCompletely(h) => reg'[j] \in {reg[j], NULL}
        BY DEF DeleteRegistrationCompletely, TypeOK
      <4>3. ASSUME NEW h \in Handler, NEW s \in Statuses, SetStatus(op[h].id, s), s # "APPROVED",
                   op[h] \in DeskOp
            PROVE  FALSE
        <5>1. op[h].id \in Reg /\ reg[op[h].id] \in RegRow
          BY <4>3 DEF SetStatus, DeskOp, TypeOK
        <5>2. reg'[j] = reg[j] \/ reg'[j].status = s
          BY <4>3, <5>1 DEF SetStatus, TypeOK, RegRow
        <5>. QED BY <2>2, <4>3, <5>2
      <4>4. ASSUME NEW h \in Handler,
                   RequestRevision(h) \/ Reject(h) \/ UndoRegistrationReview(h) \/ ReplaceSelfie(h)
            PROVE  FALSE
        <5>1. op[h] \in DeskOp
          BY <4>4, KindsApart DEF RequestRevision, Reject, UndoRegistrationReview, ReplaceSelfie,
                                  Writes, AtPc
        <5>2. \E s \in Statuses : SetStatus(op[h].id, s) /\ s # "APPROVED"
          BY <4>4 DEF RequestRevision, Reject, UndoRegistrationReview, ReplaceSelfie, Statuses
        <5>. QED BY <4>3, <5>1, <5>2
      <4>5. ASSUME NEW h \in Handler, Approve(h), op[h].id # j PROVE FALSE
        <5>1. reg'[j] = reg[j]
          BY <4>5 DEF Approve, SetStatus, TypeOK
        <5>. QED BY <2>2, <5>1
      <4>6. ASSUME NEW h \in Handler,
                   \/ Lookup(h) \/ AskToSubmit(h) \/ ReadForm(h) \/ ReadClaimant(h) \/ Heal(h)
                   \/ SetUserActiveStatus(h) \/ RevokePass(h) \/ RestorePass(h) \/ Abandon(h)
                   \/ \E i \in Reg, kind \in Reviews \cup {"revoke", "restore", "undo", "ban",
                                                           "unban", "delete", "retake"} : Open(h, i, kind)
            PROVE  reg' = reg
        BY <4>6 DEF Lookup, AskToSubmit, ReadForm, ReadClaimant, Heal, SetUserActiveStatus, RevokePass,
                    RestorePass, Abandon, Open, Begin, tables
      <4>7. \A i \in Reg : CheckIn(i) => reg' = reg
        BY DEF CheckIn
      <4>8. \A h \in Handler : ~DeleteRegistrationCompletely(h)
        BY <2>2, <4>2
      <4>. QED BY <1>5, <4>1, <4>4, <4>5, <4>6, <4>7, <4>8 DEF Next, Student, Desk
    <3>2. op[h] \in DeskOp /\ op[h].kind = "APPROVE"
      BY <3>1, KindsApart DEF Approve, Writes, AtPc
    <3>3. CASE op[h].pass # NULL
      <4>1. j \in raced \/ reg[j] = NULL \/ pass[j] # NULL
        BY <3>1, <3>2, <3>3 DEF RequestsKnow, Minds
      <4>. QED BY <1>1, <3>1, <3>3, <4>1 DEF Approve, SetStatus
    <3>4. CASE op[h].pass = NULL
      <4>1. pass'[j] = NewPass(j) /\ issued[j] < MaxIssue
        BY <3>1, <3>4 DEF Approve, TypeOK
      <4>2. NewPass(j) \in PassRow
        BY <4>1, RegistrationBounds DEF NewPass, PassRow, TypeOK
      <4>. QED BY <4>1, <4>2, NullIsNoRow
    <3>. QED BY <3>3, <3>4
  <2>. QED BY <2>1, <2>2
<1>. QED BY <1>3, <1>4, <1>5
-----------------------------------------------------------------------------
(* The theorems.                                                            *)

LEMMA InitIsFine == Init => IInv
<1>. SUFFICES ASSUME Init PROVE IInv
  OBVIOUS
<1>1. TypeOK
  BY RegistrationBounds DEF Init, TypeOK, Claim, Unclaimed
<1>2. RequestsKnow
  BY DEF Init, RequestsKnow, Knows, Minds, Idle, DeskOp, Reviews
<1>3. OneSeatEach /\ Recorded /\ ApprovedHasPass
  BY DEF Init, OneSeatEach, Recorded, ApprovedHasPass
<1>. QED BY <1>1, <1>2, <1>3 DEF IInv

LEMMA StepIsFine == IInv /\ [Next]_vars => IInv'
<1>1. ASSUME IInv, Next PROVE IInv'
  BY <1>1, TypeStep, KnowStep, SeatStep, ApprovedStep DEF IInv
<1>2. ASSUME IInv, UNCHANGED vars PROVE IInv'
  <2>1. TypeOK'
    BY <1>2, TypeStep
  <2>. QED BY <1>2, <2>1 DEF IInv, OneSeatEach, Recorded, ApprovedHasPass, RequestsKnow, Knows, Minds,
                       Remembered, Acquainted, Filling, vars, tables
<1>. QED BY <1>1, <1>2

\* The tables are in order, and every request knows what it may rely on.
THEOREM RegistrationInvariant == Spec => []IInv
BY InitIsFine, StepIsFine, PTL DEF Spec

\* The tables keep the schema's shapes, a pass belongs to a registration, and ids
\* of registrations are never given out twice.
THEOREM RegistrationTypes == Spec => []TypeOK
BY RegistrationInvariant, PTL DEF IInv

\* No form number and no student has two registrations, however many requests
\* race for them.
THEOREM OneSeat == Spec => []OneSeatEach
BY RegistrationInvariant, PTL DEF IInv

\* A registration is filled in again, and its claim held, only by somebody who is
\* acquainted with it: by account or by a contact number it has had.
THEOREM OwnersOnly == Spec => OnlyTheOwner
<1>. DEFINE Owned == \A i \in Reg : reg[i] # NULL =>
                       /\ \A w \in fills'[i] \ fills[i] : Acquainted(w, fills[i])
                       /\ LET by == claim[reg[i].form].by IN
                          by # NULL => \E v \in fills[i] : v.actor = by
<1>1. ASSUME IInv, Next PROVE Owned
  <2>1. ASSUME NEW i \in Reg, reg[i] # NULL
        PROVE  LET by == claim[reg[i].form].by IN by # NULL => \E v \in fills[i] : v.actor = by
    BY <1>1, <2>1 DEF IInv, Recorded
  <2>2. ASSUME NEW h \in Handler, Submit(h)
        PROVE  \A i \in Reg : reg[i] # NULL => fills'[i] = fills[i]
    BY <1>1, <2>2, SubmitFacts
  <2>3. ASSUME NEW h \in Handler, Resubmit(h)
        PROVE  \A i \in Reg : \A w \in fills'[i] \ fills[i] : Acquainted(w, fills[i])
    BY <1>1, <2>3, ResubmitFacts
  <2>4. CASE \A h \in Handler : ~Submit(h) /\ ~Resubmit(h)
    BY <1>1, <2>1, <2>4, OtherSteps DEF SeatsStay
  <2>. QED BY <2>1, <2>2, <2>3, <2>4
<1>2. IInv /\ [Next]_vars => [Owned]_vars
  BY <1>1
<1>. QED BY <1>2, RegistrationInvariant, PTL DEF Spec, OnlyTheOwner

\* An approved registration has a pass, unless it was resubmitted between an
\* approver's read and write.
THEOREM ApprovedPass == Spec => []ApprovedHasPass
BY RegistrationInvariant, PTL DEF IInv

\* A checked-in pass goes only with its registration.
THEOREM ArrivalsStay == Spec => ArrivalsSurvive
<1>. DEFINE Kept == \A i \in Reg : (pass[i] # NULL /\ pass[i].inside) =>
                      \/ reg'[i] = NULL
                      \/ pass'[i] # NULL /\ pass'[i].gen = pass[i].gen
<1>1. ASSUME IInv, Next PROVE Kept
  <2>1. ASSUME NEW h \in Handler, Submit(h) PROVE Kept
    BY <1>1, <2>1, SubmitFacts
  <2>2. ASSUME NEW h \in Handler, Resubmit(h) PROVE Kept
    BY <1>1, <2>2, ResubmitFacts
  <2>3. CASE \A h \in Handler : ~Submit(h) /\ ~Resubmit(h)
    BY <1>1, <2>3, OtherSteps
  <2>. QED BY <2>1, <2>2, <2>3
<1>2. IInv /\ [Next]_vars => [Kept]_vars
  BY <1>1
<1>. QED BY <1>2, RegistrationInvariant, PTL DEF Spec, ArrivalsSurvive

-----------------------------------------------------------------------------
(* Registrations implement seats.                                           *)

\* The mapping of Promise, by name, for the registrations r filled in as in F.
On(r, f) == {i \in Reg : r[i] # NULL /\ r[i].form = f}
Holders(r, F) == [f \in Form |-> IF On(r, f) = {} THEN {} ELSE F[CHOOSE i \in On(r, f) : TRUE]]

S == INSTANCE Seats WITH Seat <- Form, Account <- User, Number <- Phone,
                         holders <- Holders(reg, fills)

\* The holders of a form number are those who filled in the registration on it.
LEMMA HoldersFacts ==
  ASSUME NEW r, NEW F, NEW f \in Form,
         \A i, j \in Reg : r[i] # NULL /\ r[j] # NULL /\ i # j => r[i].form # r[j].form
  PROVE  /\ (\A i \in Reg : r[i] # NULL => r[i].form # f) => Holders(r, F)[f] = {}
         /\ \A i \in Reg : r[i] # NULL /\ r[i].form = f => Holders(r, F)[f] = F[i]
<1>1. CASE On(r, f) = {}
  BY <1>1 DEF Holders, On
<1>2. CASE On(r, f) # {}
  <2>. DEFINE c == CHOOSE i \in On(r, f) : TRUE
  <2>1. c \in On(r, f) /\ Holders(r, F)[f] = F[c]
    BY <1>2 DEF Holders
  <2>. HIDE DEF c
  <2>2. c \in Reg /\ r[c] # NULL /\ r[c].form = f
    BY <2>1 DEF On
  <2>. QED BY <2>1, <2>2
<1>. QED BY <1>1, <1>2

\* A step writes at most one registration.
LEMMA OneAtATime ==
  ASSUME IInv, Next, NEW i \in Reg, NEW j \in Reg, reg'[i] # reg[i], reg'[j] # reg[j]
  PROVE  i = j
<1>. USE DEF IInv
<1>1. reg \in [Reg -> RegRow \cup {NULL}]
  BY DEF TypeOK
<1>2. ASSUME NEW h \in Handler, NEW s \in Statuses, SetStatus(op[h].id, s) PROVE i = j
  BY <1>1, <1>2 DEF SetStatus
<1>3. ASSUME NEW h \in Handler, Submit(h) PROVE i = j
  BY <1>3, SubmitFacts
<1>4. ASSUME NEW h \in Handler, Resubmit(h) PROVE i = j
  BY <1>4, ResubmitFacts
<1>5. ASSUME NEW h \in Handler,
             Approve(h) \/ RequestRevision(h) \/ Reject(h) \/ UndoRegistrationReview(h) \/ ReplaceSelfie(h)
      PROVE  \E s \in Statuses : SetStatus(op[h].id, s)
  BY <1>5 DEF Approve, RequestRevision, Reject, UndoRegistrationReview, ReplaceSelfie, Statuses
<1>6. ASSUME NEW h \in Handler, DeleteRegistrationCompletely(h) PROVE i = j
  BY <1>1, <1>6 DEF DeleteRegistrationCompletely
<1>7. ASSUME NEW h \in Handler,
             \/ Lookup(h) \/ AskToSubmit(h) \/ ReadForm(h) \/ ReadClaimant(h) \/ Heal(h)
             \/ SetUserActiveStatus(h) \/ RevokePass(h) \/ RestorePass(h) \/ Abandon(h)
             \/ \E k \in Reg, kind \in Reviews \cup {"revoke", "restore", "undo", "ban",
                                                     "unban", "delete", "retake"} : Open(h, k, kind)
      PROVE  FALSE
  BY <1>7 DEF Lookup, AskToSubmit, ReadForm, ReadClaimant, Heal, SetUserActiveStatus, RevokePass,
              RestorePass, Abandon, Open, Begin, tables
<1>8. \A k \in Reg : ~CheckIn(k)
  BY DEF CheckIn
<1>. QED BY <1>2, <1>3, <1>4, <1>5, <1>6, <1>7, <1>8 DEF Next, Student, Desk

LEMMA SeatMaps == IInv /\ IInv' /\ [Next]_vars => [S!Next]_(Holders(reg, fills))
<1>. SUFFICES ASSUME IInv, IInv', [Next]_vars
              PROVE  S!Next \/ Holders(reg', fills') = Holders(reg, fills)
  BY DEF Holders, On
<1>. USE DEF IInv
<1>. DEFINE H == Holders(reg, fills)
            J == Holders(reg', fills')
            Free(r, f) == \A i \in Reg : r[i] # NULL => r[i].form # f
<1>1. H = [f \in Form |-> H[f]] /\ J = [f \in Form |-> J[f]]
  BY DEF Holders
<1>2. ASSUME NEW f \in Form
      PROVE  /\ Free(reg, f) => H[f] = {}
             /\ \A i \in Reg : reg[i] # NULL /\ reg[i].form = f => H[f] = fills[i]
             /\ Free(reg', f) => J[f] = {}
             /\ \A i \in Reg : reg'[i] # NULL /\ reg'[i].form = f => J[f] = fills'[i]
  <2>1. /\ \A i, j \in Reg : reg[i] # NULL /\ reg[j] # NULL /\ i # j => reg[i].form # reg[j].form
        /\ \A i, j \in Reg : reg'[i] # NULL /\ reg'[j] # NULL /\ i # j => reg'[i].form # reg'[j].form
    BY DEF OneSeatEach
  <2>. HIDE DEF IInv
  <2>. QED BY <2>1, HoldersFacts
<1>3. \A i \in Reg : /\ reg[i] # NULL => reg[i].form \in Form /\ fills[i] # {}
                     /\ reg'[i] # NULL => reg'[i].form \in Form
  BY DEF TypeOK, RegRow, Recorded
<1>. HIDE DEF H, J
<1>4. ASSUME NEW f \in Form,
             \A i \in Reg : (reg[i] # NULL /\ reg[i].form = f) <=> (reg'[i] # NULL /\ reg'[i].form = f),
             \A i \in Reg : reg[i] # NULL /\ reg[i].form = f => fills'[i] = fills[i]
      PROVE  J[f] = H[f]
  <2>1. CASE Free(reg, f)
    <3>1. Free(reg', f)
      BY <1>4, <2>1
    <3>. QED BY <1>2, <2>1, <3>1
  <2>2. CASE ~Free(reg, f)
    <3>1. PICK i \in Reg : reg[i] # NULL /\ reg[i].form = f
      BY <2>2
    <3>2. H[f] = fills[i] /\ J[f] = fills'[i]
      BY <1>2, <1>4, <3>1
    <3>. QED BY <1>4, <3>1, <3>2
  <2>. QED BY <2>1, <2>2
<1>5. ASSUME \A i \in Reg :
               /\ reg'[i] = NULL <=> reg[i] = NULL
               /\ reg'[i] # NULL => reg'[i].form = reg[i].form /\ fills'[i] = fills[i]
      PROVE  J = H
  <2>1. ASSUME NEW f \in Form PROVE J[f] = H[f]
    BY <1>4, <1>5, <2>1
  <2>. QED BY <1>1, <2>1
<1>6. ASSUME NEW h \in Handler, Submit(h) PROVE S!Next
  <2>. DEFINE t == op[h].form
              w == Filling(op[h])
              k == created + 1
  <2>1. /\ k \in Reg /\ t \in Form /\ OnForm(t) \subseteq {k} /\ reg[k] = NULL
        /\ reg'[k].form = t /\ fills'[k] = {w}
        /\ \A j \in Reg \ {k} : reg'[j] = reg[j] /\ fills'[j] = fills[j]
    BY <1>6, SubmitFacts DEF SeatIsFree
  <2>2. reg'[k] # NULL
    <3>1. reg' = [reg EXCEPT ![k] = [user |-> op[h].actor, form |-> t, phone |-> op[h].phone,
                                     status |-> IF op[h].auto THEN "APPROVED" ELSE "PENDING_REVIEW"]]
      BY <1>6 DEF Submit
    <3>2. op[h].actor \in User \cup {NULL} /\ op[h].phone \in Phone
      BY <1>6, SubmitFacts
    <3>. HIDE DEF t, w, k
    <3>3. [user |-> op[h].actor, form |-> t, phone |-> op[h].phone,
           status |-> IF op[h].auto THEN "APPROVED" ELSE "PENDING_REVIEW"] \in RegRow
      BY <2>1, <3>2 DEF RegRow, Statuses
    <3>. QED BY <2>1, <3>1, <3>3, NullIsNoRow DEF TypeOK
  <2>3. w \in S!Person
    BY <1>6, SubmitFacts DEF Filling, S!Person
  <2>. HIDE DEF t, w, k
  <2>4. Free(reg, t)
    BY <2>1 DEF OnForm
  <2>5. H[t] = {} /\ J[t] = {w}
    BY <1>2, <2>1, <2>2, <2>4
  <2>6. ASSUME NEW f \in Form \ {t} PROVE J[f] = H[f]
    BY <1>4, <2>1, <2>2, <2>6
  <2>7. J = [H EXCEPT ![t] = {w}]
    BY <1>1, <2>1, <2>5, <2>6
  <2>8. S!Take(t, w)
    BY <2>5, <2>7 DEF S!Take, H, J
  <2>. QED BY <2>1, <2>3, <2>8 DEF S!Next
<1>7. ASSUME NEW h \in Handler, Resubmit(h) PROVE S!Next
  <2>. DEFINE t == op[h].form
              w == Filling(op[h])
              k == op[h].existing.id
  <2>1. /\ k \in Reg /\ t \in Form /\ OnForm(t) \subseteq {k}
        /\ reg[k] # NULL /\ reg'[k] # NULL /\ reg'[k].form = t /\ fills'[k] = fills[k] \cup {w}
        /\ Acquainted(w, fills[k])
        /\ \A j \in Reg \ {k} : reg'[j] = reg[j] /\ fills'[j] = fills[j]
    BY <1>7, ResubmitFacts
  <2>2. w \in S!Person
    BY <1>7, ResubmitFacts DEF Filling, S!Person
  <2>. DEFINE u == reg[k].form
  <2>3. u \in Form /\ H[u] = fills[k] /\ S!Known(w, H[u])
    <3>1. u \in Form /\ H[u] = fills[k]
      BY <1>2, <1>3, <2>1
    <3>. QED BY <2>1, <3>1 DEF S!Known, Acquainted
  <2>. HIDE DEF t, w, k
  <2>4. J[t] = H[u] \cup {w}
    BY <1>2, <2>1, <2>3
  <2>5. CASE u = t
    <3>1. ASSUME NEW f \in Form \ {t} PROVE J[f] = H[f]
      BY <1>4, <2>1, <2>5, <3>1
    <3>. HIDE DEF u
    <3>2. J = [H EXCEPT ![u] = H[u] \cup {w}]
      BY <1>1, <2>1, <2>4, <2>5, <3>1
    <3>3. S!Join(u, w)
      BY <2>3, <3>2 DEF S!Join, H, J
    <3>. QED BY <2>2, <2>3, <3>3 DEF S!Next
  <2>6. CASE u # t
    <3>1. Free(reg, t) /\ Free(reg', u)
      BY <2>1, <2>6 DEF OnForm, OneSeatEach
    <3>2. H[t] = {} /\ J[u] = {}
      BY <1>2, <2>1, <2>3, <3>1
    <3>3. ASSUME NEW f \in Form \ {t, u} PROVE J[f] = H[f]
      BY <1>4, <2>1, <3>3
    <3>. HIDE DEF u
    <3>4. J = [H EXCEPT ![t] = H[u] \cup {w}, ![u] = {}]
      BY <1>1, <2>1, <2>3, <2>4, <2>6, <3>2, <3>3
    <3>5. t \in Form \ {u}
      BY <2>1, <2>6
    <3>6. S!Join(u, w)
      BY <2>3, <3>2, <3>4, <3>5 DEF S!Join, H, J
    <3>. QED BY <2>2, <2>3, <3>6 DEF S!Next
  <2>. QED BY <2>5, <2>6
<1>8. ASSUME Next, SeatsStay PROVE S!Next \/ J = H
  <2>1. CASE \A i \in Reg : reg[i] # NULL => reg'[i] # NULL
    BY <1>5, <1>8, <2>1 DEF SeatsStay
  <2>2. ASSUME NEW k \in Reg, reg[k] # NULL, reg'[k] = NULL PROVE S!Next
    <3>. DEFINE u == reg[k].form
    <3>1. \A j \in Reg \ {k} : reg'[j] = reg[j] /\ fills'[j] = fills[j]
      BY <1>8, <2>2, OneAtATime DEF SeatsStay
    <3>2. u \in Form /\ fills[k] # {}
      BY <1>3, <2>2
    <3>3. Free(reg', u)
      BY <2>2, <3>1 DEF OneSeatEach
    <3>4. H[u] # {} /\ J[u] = {}
      BY <1>2, <2>2, <3>2, <3>3
    <3>5. ASSUME NEW f \in Form \ {u} PROVE J[f] = H[f]
      BY <1>4, <2>2, <3>1, <3>5
    <3>. HIDE DEF u
    <3>6. J = [H EXCEPT ![u] = {}]
      BY <1>1, <3>2, <3>4, <3>5
    <3>. QED BY <3>2, <3>4, <3>6 DEF S!Next, S!Clear, H, J
  <2>. QED BY <2>1, <2>2
<1>9. CASE UNCHANGED vars
  BY <1>5, <1>9 DEF vars, tables
<1>. QED BY <1>6, <1>7, <1>8, <1>9, OtherSteps DEF H, J

\* Registration implements Seats: nobody gets in among those who have filled in a
\* form number's registration without knowing one of them, by account or number.
THEOREM RegistrationKeepsSeats == Spec => SeatsAreKept
<1>1. Init => S!Init
  BY DEF Init, S!Init, Holders, On
<1>2. S!Spec <=> Promise!Spec
  BY DEF S!Spec, Promise!Spec, S!Init, Promise!Init, S!Next, Promise!Next, S!Take, Promise!Take,
         S!Join, Promise!Join, S!Clear, Promise!Clear, S!Known, Promise!Known, S!Person,
         Promise!Person, Holders, On, OnForm
<1>3. Spec => S!Spec
  BY <1>1, SeatMaps, RegistrationInvariant, PTL DEF Spec, S!Spec
<1>. QED BY <1>2, <1>3 DEF SeatsAreKept
=============================================================================
